----------------------------- MODULE UndoTimeline -----------------------------
(***************************************************************************)
(* What the user of an editor expects of undo and redo: one timeline of    *)
(* graphs with a cursor.  An edit is recorded right after the cursor and   *)
(* cuts off what lies beyond; undo and redo move the cursor by one and show*)
(* what is there, or what can be restored of it, which takes its place;    *)
(* nothing else moves the cursor.  Old entries may be forgotten.           *)
(* DraftEditor implements it.                                              *)
(***************************************************************************)
EXTENDS Naturals, Sequences

CONSTANTS
    Graph,
    Restored \* what is left of a graph when it is restored

VARIABLES
    timeline, \* the recorded graphs
    cursor,   \* the entry the editor is at
    shown     \* the graph on the screen

vars == <<timeline, cursor, shown>>

Init == shown \in Graph /\ timeline = <<shown>> /\ cursor = 1

\* The first n entries are forgotten.
Forget(s, n) == SubSeq(s, n + 1, Len(s))

\* Edits that are not recorded yet: the properties panel is open.
Draw == /\ shown' \in Graph
        /\ UNCHANGED <<timeline, cursor>>

\* The graph becomes the newest entry, on the screen now or since Draw.
RecordEdit ==
    /\ \E g \in Graph, n \in 0 .. cursor :
          /\ timeline' = Forget(Append(SubSeq(timeline, 1, cursor), g), n)
          /\ shown' = g
    /\ cursor' = Len(timeline')

Undo == /\ cursor > 1
        /\ cursor' = cursor - 1
        /\ shown' = Restored[timeline[cursor - 1]]
        /\ \E n \in 0 .. Len(timeline) - cursor :
              timeline' = SubSeq([timeline EXCEPT ![cursor - 1] = shown'],
                                 1, Len(timeline) - n)

Redo == /\ cursor < Len(timeline)
        /\ shown' = Restored[timeline[cursor + 1]]
        /\ \E n \in 0 .. cursor :
              /\ timeline' = Forget([timeline EXCEPT ![cursor + 1] = shown'], n)
              /\ cursor' = cursor + 1 - n

\* Another graph is loaded: nothing before it can be undone.
Load == /\ shown' \in Graph
        /\ timeline' = <<shown'>> /\ cursor' = 1

Next == Draw \/ RecordEdit \/ Undo \/ Redo \/ Load

Spec == Init /\ [][Next]_vars
=============================================================================
