---------------------------- MODULE MCDraftEditor ----------------------------
EXTENDS DraftEditor, TLC

\* What the server may hold: no version, a draft, a version in production, both.
Empty      == NoStored
Unpublished == [graph |-> <<3>>, rev |-> <<0>>, prod |-> None]
Production == [graph |-> <<3>>, rev |-> <<0>>, prod |-> 1]
WithDraft  == [graph |-> <<3, 4>>, rev |-> <<0, 0>>, prod |-> 1]

None0 == [edits |-> 0, panels |-> 0, undos |-> 0, views |-> 0, creates |-> 0,
          deploys |-> 0, failures |-> 0, others |-> 0]

SomeSituations ==
    [server : {Empty, Unpublished, Production, WithDraft},
     budget : {[None0 EXCEPT !.edits = 3, !.undos = 2],
               [None0 EXCEPT !.edits = 2, !.panels = 1, !.undos = 2],
               [None0 EXCEPT !.edits = 2, !.failures = 2],
               [None0 EXCEPT !.edits = 1, !.views = 1, !.creates = 1],
               [None0 EXCEPT !.edits = 1, !.views = 1, !.others = 1],
               [None0 EXCEPT !.others = 2],
               [None0 EXCEPT !.deploys = 1, !.failures = 1]}]
    \cup [server : {Empty, Unpublished},
          budget : {[None0 EXCEPT !.edits = 1, !.deploys = 1]}]
    \cup [server : {Empty},
          budget : {[None0 EXCEPT !.edits = 2, !.deploys = 1],
                    [None0 EXCEPT !.deploys = 1, !.others = 1]}]

\* The page settles: a deployment among failures, too.
FewSituations ==
    [server : {Empty, Unpublished, Production},
     budget : {[None0 EXCEPT !.edits = 1, !.failures = 1],
               [None0 EXCEPT !.views = 1, !.others = 1]}]
    \cup [server : {Unpublished},
          budget : {[None0 EXCEPT !.edits = 1, !.panels = 1, !.undos = 1],
                    [None0 EXCEPT !.deploys = 1, !.failures = 1]}]
=============================================================================
