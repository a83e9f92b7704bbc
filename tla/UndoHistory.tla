----------------------------- MODULE UndoHistory -----------------------------
(***************************************************************************)
(* The undo history of the workflow builder (useWorkflowHistory.ts and the *)
(* history effects of WorkflowBuilderPage.tsx), as operators on a record:  *)
(*   past, future  snapshots to go back and forward to, oldest and nearest *)
(*                 first respectively,                                     *)
(*   last          the snapshot the history believes is shown,             *)
(*   held          pendingSnapshot: changes not recorded yet, because they *)
(*                 are made while the properties panel is open,            *)
(*   restoring     an undo or redo has been applied, its effect not yet.   *)
(* A snapshot is the number of a graph; NoGraph stands for null.           *)
(***************************************************************************)
EXTENDS Naturals, Sequences

CONSTANTS
    HistoryLimit, \* HISTORY_LIMIT of WorkflowBuilderUtils.ts
    DragLimit     \* the limit handleNodeDragStop applies, under the same name

ASSUME LimitsAssumption ==
    HistoryLimit \in Nat \ {0} /\ DragLimit \in Nat /\ HistoryLimit <= DragLimit

NoGraph == 0

History(G) == [past : Seq(G), future : Seq(G), last : G \cup {NoGraph},
               held : G \cup {NoGraph}, restoring : BOOLEAN]

\* slice(-n) and slice(0, n)
Newest(s, n) == IF Len(s) > n THEN SubSeq(s, Len(s) - n + 1, Len(s)) ELSE s
Nearest(s, n) == IF Len(s) > n THEN SubSeq(s, 1, n) ELSE s

Reset(g) == [past |-> <<>>, future |-> <<>>, last |-> g, held |-> NoGraph,
             restoring |-> FALSE]

\* Variant: what was undone can still be redone after another edit.
RecordKeepingFuture(h, g, limit) ==
    [h EXCEPT !.held = NoGraph,
              !.past = IF h.last = g THEN @ ELSE Newest(Append(@, h.last), limit),
              !.last = g]

\* A new snapshot is recorded: what had been undone is forgotten.
Record(h, g, limit) ==
    IF h.last = g THEN [h EXCEPT !.held = NoGraph]
    ELSE [h EXCEPT !.past = Newest(Append(@, h.last), limit), !.future = <<>>,
                   !.last = g, !.held = NoGraph]

\* The history effect: it runs after every commit in which the graph or the
\* panel changed.
Observe(h, g, hydrating, panel) ==
    CASE hydrating -> [h EXCEPT !.last = g, !.held = NoGraph]
      [] ~hydrating /\ h.restoring ->
            [h EXCEPT !.restoring = FALSE, !.last = g, !.held = NoGraph]
      [] ~hydrating /\ ~h.restoring /\ h.last = NoGraph ->
            [h EXCEPT !.last = g, !.held = NoGraph]
      [] ~hydrating /\ ~h.restoring /\ h.last # NoGraph /\ panel ->
            [h EXCEPT !.held = g]
      [] OTHER ->
            Record(h, IF h.held # NoGraph THEN h.held ELSE g, HistoryLimit)

\* handleNodeDragStop: a drag that ends while the panel is open is recorded.
DragStop(h) == IF h.held = NoGraph THEN h ELSE Record(h, h.held, DragLimit)

CanUndo(h) == h.past # <<>> /\ h.last # NoGraph
CanRedo(h) == h.future # <<>>
UndoTarget(h) == h.past[Len(h.past)]
RedoTarget(h) == Head(h.future)

Undo(h) ==
    [past      |-> SubSeq(h.past, 1, Len(h.past) - 1),
     future    |-> Nearest(<<h.last>> \o h.future, HistoryLimit),
     last      |-> UndoTarget(h),
     held      |-> NoGraph,
     restoring |-> TRUE]

Redo(h) ==
    [past      |-> IF h.last = NoGraph THEN h.past
                   ELSE Newest(Append(h.past, h.last), HistoryLimit),
     future    |-> Tail(h.future),
     last      |-> RedoTarget(h),
     held      |-> NoGraph,
     restoring |-> TRUE]
=============================================================================
