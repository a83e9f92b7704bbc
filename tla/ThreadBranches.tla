---------------------------- MODULE ThreadBranches ----------------------------
(***************************************************************************)
(* The branches of one conversation and the wait states of its workflow:   *)
(*   - BranchService (services/branch_service.py): creating a branch by    *)
(*     editing a message, switching branches,                              *)
(*   - the wait state per branch inside the thread's metadata              *)
(*     (chatkit_server/context.py) and the save_thread calls that carry a  *)
(*     turn's own copy of the metadata back to the database,               *)
(*   - the items a branch shows (chatkit_store.py): the fork chain, the    *)
(*     filter over all rows, and the branch tag a row gets when stored.    *)
(*                                                                         *)
(* A turn is one respond() call.  It asks (a user message) or retries (an  *)
(* earlier one) and pauses on a wait block that emits a prompt, the anchor *)
(* of the wait state.  Items are numbered in the order of created_at, and  *)
(* branches in the order of their creation; branch 0 is "main".            *)
(* A database transaction is one step.                                     *)
(***************************************************************************)
EXTENDS Integers, Sequences, FiniteSets

CONSTANTS
    Turns,        \* respond() calls on the thread
    MaxItems,     \* bound: items of the thread
    MaxBranches,  \* bound: branches created besides main
    MayOverlap,   \* TRUE: branches change and turns start while a turn runs
    MayRetry,     \* TRUE: users retry a message
    MayCutForks,  \* TRUE: a retry may delete the fork point of a branch
    SaveOutcomes  \* results of a turn's save_thread: a failure is logged

ASSUME ParametersAssumption ==
    /\ MaxItems \in Nat /\ MaxBranches \in Nat
    /\ MayOverlap \in BOOLEAN /\ MayRetry \in BOOLEAN /\ MayCutForks \in BOOLEAN
    /\ SaveOutcomes \subseteq BOOLEAN

Main     == 0
NoBranch == -1
NoItem   == 0
Branch   == 0 .. MaxBranches
ItemId   == 1 .. MaxItems

\* input_item_id is the message that led to the wait, anchor_item_id its prompt.
WaitState == [anchor : ItemId, input : ItemId]
NoWait    == [anchor |-> NoItem, input |-> NoItem]

\* thread.metadata: cur is current_branch_id, by the map ..._by_branch, index
\* the map ..._index_by_branch, legacy the global workflow_wait_for_user_input.
Metadata == [cur    : Branch \cup {NoBranch},
             by     : [Branch -> WaitState \cup {NoWait}],
             index  : [Branch -> SUBSET WaitState],
             legacy : WaitState \cup {NoWait}]

NewThread == [cur |-> NoBranch, by |-> [b \in Branch |-> NoWait],
              index |-> [b \in Branch |-> {}], legacy |-> NoWait]

VARIABLES
    branches, \* created branches: parent and fork point
    items,    \* every item created: who made it and in which role
    tag,      \* branch_id in the payload of an item's row
    rows,     \* items that have a row
    stored,   \* metadata in the database
    pc,       \* where a turn stands
    meta,     \* a turn's own copy of the metadata
    ctx,      \* branch_id of the turn's request, or NoBranch
    message,  \* the user message the turn answers
    pending,  \* the wait state the turn restored its history from
    prompt    \* a turn's prompt whose row is still to be written

tableVars == <<branches, items, tag, rows, stored>>
turnVars  == <<pc, meta, ctx, message, pending, prompt>>
vars      == <<tableVars, turnVars>>

Role     == {"user", "prompt"}
TurnState == {"idle", "loaded", "running", "pausing", "paused", "ending",
              "waiting", "ended", "stopped"}

Init ==
    /\ branches = <<>>
    /\ items = <<>>
    /\ tag = [i \in ItemId |-> Main]
    /\ rows = {}
    /\ stored = NewThread
    /\ pc = [t \in Turns |-> "idle"]
    /\ meta = [t \in Turns |-> NewThread]
    /\ ctx = [t \in Turns |-> NoBranch]
    /\ message = [t \in Turns |-> NoItem]
    /\ pending = [t \in Turns |-> NoWait]
    /\ prompt = [t \in Turns |-> NoItem]

-----------------------------------------------------------------------------
(* The wait state in the metadata (context.py)                             *)

Current(m) == IF m.cur = NoBranch THEN Main ELSE m.cur
HasMap(m)  == \E b \in Branch : m.by[b] # NoWait

\* The legacy state counts only while no branch has an entry in the map.
GetWait(m) == IF HasMap(m) THEN m.by[Current(m)] ELSE m.legacy

\* Variant: the anchor is not indexed.
SetWaitUnindexed(m, w) ==
    [m EXCEPT !.by[Current(m)] = w,
              !.legacy = w]

SetWait(m, w) ==
    [m EXCEPT !.by[Current(m)] = w,
              !.index[Current(m)] = {v \in @ : v.anchor # w.anchor} \cup {w},
              !.legacy = w]

ClearWait(m) ==
    [m EXCEPT !.by[Current(m)] = NoWait,
              !.index[Current(m)] = {},
              !.legacy = NoWait]

\* Variant: the legacy state is copied, not moved.
MigrateCopying(m) ==
    IF m.legacy = NoWait THEN m ELSE [m EXCEPT !.by[Current(m)] = m.legacy]

\* _migrate_legacy_wait_state_for_current_branch
Migrate(m) ==
    IF m.legacy = NoWait THEN m
    ELSE [m EXCEPT !.by[Current(m)] = m.legacy, !.legacy = NoWait]

\* save_thread overwrites the stored metadata with the caller's; the caller's
\* dictionary receives the stored branch if it has none.
Saved(m) == IF m.cur = NoBranch THEN [m EXCEPT !.cur = stored.cur] ELSE m

-----------------------------------------------------------------------------
(* The items a branch shows (chatkit_store.py)                             *)

Fork(b)   == branches[b].fork
Parent(b) == branches[b].parent

\* _get_branch_fork_chain: the branches from below main down to b.
Chain(b) ==
    LET chain[c \in 0 .. Len(branches)] ==
            IF c = Main THEN <<>> ELSE Append(chain[Parent(c)], c)
    IN  chain[b]

\* One record of _filter_items_for_branch: it is shown if it belongs to the
\* segment being read, and a fork point opens the next segment (or several).
ReadRow(chain, acc, i) ==
    LET segment == IF acc.seg = 0 THEN Main ELSE chain[acc.seg]
        opened  == {k \in acc.seg + 1 .. Len(chain) :
                       \A j \in acc.seg + 1 .. k : Fork(chain[j]) = i}
    IN  [seg   |-> acc.seg + Cardinality(opened),
         shown |-> IF tag[i] = segment THEN acc.shown \cup {i} ELSE acc.shown]

View(b) ==
    LET chain == Chain(b)
        read[i \in 0 .. Len(items)] ==
            IF i = 0 THEN [seg |-> 0, shown |-> {}]
            ELSE IF i \in rows THEN ReadRow(chain, read[i - 1], i)
            ELSE read[i - 1]
    IN  read[Len(items)].shown

\* The branch a new row is tagged with: the request's, or else the stored one.
RowBranch(t) == IF ctx[t] # NoBranch THEN ctx[t] ELSE Current(stored)

-----------------------------------------------------------------------------
(* BranchService                                                           *)

InProgress(t) == pc[t] \notin {"idle", "waiting", "ended", "stopped"}
Quiet == \A t \in Turns : ~InProgress(t) /\ prompt[t] = NoItem

\* Variant: the current branch changes before the legacy state is migrated.
SwitchBranchTooEarly(b) ==
    /\ MayOverlap \/ Quiet
    /\ b \in 0 .. Len(branches)
    /\ stored' = Migrate([stored EXCEPT !.cur = b])
    /\ UNCHANGED <<branches, items, tag, rows, turnVars>>

SwitchBranch(b) ==
    /\ MayOverlap \/ Quiet
    /\ b \in 0 .. Len(branches)
    /\ stored' = [Migrate(stored) EXCEPT !.cur = b]
    /\ UNCHANGED <<branches, items, tag, rows, turnVars>>

\* Variant: any sibling that waits will do, whatever it waits for.
RestorableAnySibling(m, parent, f) ==
    LET indexed  == {w \in m.index[parent] : w.anchor = f}
        siblings == {c \in 1 .. Len(branches) :
                        Parent(c) = parent /\ Fork(c) = f /\ m.by[c] # NoWait}
        newest   == {c \in siblings : \A d \in siblings : d <= c}
        found    == IF indexed # {} THEN indexed ELSE {m.by[c] : c \in newest}
    IN  IF found = {} THEN NoWait ELSE CHOOSE w \in found : TRUE

\* Where create_branch finds the wait state to restore: the parent's index at
\* the fork point, else the newest sibling that waits there.  (The lookup by
\* the edited message finds nothing: only anchors are indexed by bare id.)
Restorable(m, parent, f) ==
    LET indexed  == {w \in m.index[parent] : w.anchor = f}
        siblings == {c \in 1 .. Len(branches) :
                        /\ Parent(c) = parent /\ Fork(c) = f
                        /\ m.by[c].anchor = f}
        newest   == {c \in siblings : \A d \in siblings : d <= c}
        found    == IF indexed # {} THEN indexed ELSE {m.by[c] : c \in newest}
    IN  IF found = {} THEN NoWait ELSE CHOOSE w \in found : TRUE

\* Variant: the new branch hangs below the branch that is displayed.
ParentOfForkDisplayed(f) == Current(stored)

\* The parent is the branch of the fork item itself, not the current one.
ParentOfFork(f) == tag[f]

\* The user edits message e of the branch that is displayed: the fork point is
\* the item shown before it.
CreateBranch(f, e) ==
    /\ MayOverlap \/ Quiet
    /\ Len(branches) < MaxBranches
    /\ f < e /\ {f, e} \subseteq rows /\ items[e].role = "user"
    /\ LET shown == View(Current(stored))
       IN  {f, e} \subseteq shown /\ \A i \in shown : i <= f \/ e <= i
    /\ LET parent == ParentOfFork(f)
           new    == Len(branches) + 1
           m      == Migrate(stored)
           w      == Restorable(m, parent, f)
       IN  /\ branches' = Append(branches, [parent |-> parent, fork |-> f])
           /\ stored' = [m EXCEPT !.cur = new,
                           !.by[new] = IF w = NoWait THEN NoWait
                                       ELSE [w EXCEPT !.input = e]]
    /\ UNCHANGED <<items, tag, rows, turnVars>>

-----------------------------------------------------------------------------
(* A turn                                                                  *)

\* load_thread: the turn works on its own copy of the metadata from now on.
\* A request names the branch its browser shows, once that has loaded them;
\* without overlap this is the stored one, so that naming it changes nothing.
TurnLoad(t) ==
    /\ pc[t] = "idle"
    /\ MayOverlap \/ Quiet
    /\ Len(items) < MaxItems
    /\ \E b \in {NoBranch} \cup (IF MayOverlap THEN 0 .. Len(branches) ELSE {}) :
          ctx' = [ctx EXCEPT ![t] = b]
    /\ meta' = [meta EXCEPT ![t] = stored]
    /\ pc' = [pc EXCEPT ![t] = "loaded"]
    /\ UNCHANGED <<tableVars, message, pending, prompt>>

\* add_thread_item of the message, then initialize() reads the wait state.
TurnAsk(t) ==
    /\ pc[t] = "loaded"
    /\ Len(items) < MaxItems
    /\ LET i == Len(items) + 1
       IN  /\ items' = Append(items, [turn |-> t, role |-> "user"])
           /\ tag' = [tag EXCEPT ![i] = RowBranch(t)]
           /\ rows' = rows \cup {i}
           /\ message' = [message EXCEPT ![t] = i]
    /\ pending' = [pending EXCEPT ![t] = GetWait(meta[t])]
    /\ pc' = [pc EXCEPT ![t] = "running"]
    /\ UNCHANGED <<branches, stored, meta, ctx, prompt>>

\* threads.retry_after_item: everything the branch shows after message e is
\* deleted, and e is answered again.
TurnRetry(t) ==
    /\ MayRetry
    /\ pc[t] = "idle"
    /\ MayOverlap \/ Quiet
    /\ Len(items) < MaxItems
    /\ \E e \in rows :
          LET shown == View(Current(stored))
              later == {i \in shown : i > e}
          IN  /\ items[e].role = "user" /\ e \in shown
              /\ MayCutForks \/ \A c \in DOMAIN branches : Fork(c) \notin later
              /\ rows' = rows \ later
              /\ message' = [message EXCEPT ![t] = e]
    /\ meta' = [meta EXCEPT ![t] = stored]
    /\ pending' = [pending EXCEPT ![t] = GetWait(stored)]
    /\ pc' = [pc EXCEPT ![t] = "running"]
    /\ UNCHANGED <<branches, items, tag, stored, ctx, prompt>>

\* The turn saves its copy of the thread and goes on with it, or is over.
Save(t) ==
    \E ok \in SaveOutcomes :
        IF ok THEN /\ meta' = [meta EXCEPT ![t] = Saved(@)]
                   /\ stored' = Saved(meta[t])
              ELSE UNCHANGED <<meta, stored>>
Drop(t) == /\ meta' = [meta EXCEPT ![t] = NewThread]
           /\ pending' = [pending EXCEPT ![t] = NoWait]
LastSave(t) ==
    /\ \E ok \in SaveOutcomes : stored' = IF ok THEN Saved(meta[t]) ELSE stored
    /\ Drop(t)

\* on_step_stream: the current step of the workflow changed.
TurnStep(t) ==
    /\ pc[t] = "running"
    /\ Save(t)
    /\ UNCHANGED <<branches, items, tag, rows, pc, ctx, message, pending, prompt>>

\* A wait block emits its prompt and puts the wait state into the turn's copy.
TurnPause(t) ==
    /\ pc[t] = "running"
    /\ Len(items) < MaxItems
    /\ LET i == Len(items) + 1
       IN  /\ items' = Append(items, [turn |-> t, role |-> "prompt"])
           /\ prompt' = [prompt EXCEPT ![t] = i]
           /\ meta' = [meta EXCEPT ![t] =
                          SetWait(@, [anchor |-> i, input |-> message[t]])]
    /\ pc' = [pc EXCEPT ![t] = "pausing"]
    /\ UNCHANGED <<branches, tag, rows, stored, ctx, message, pending>>

\* The save of the wait block itself, then the one at the end of the turn.
TurnPauseSaved(t) ==
    /\ pc[t] = "pausing"
    /\ Save(t)
    /\ pc' = [pc EXCEPT ![t] = "paused"]
    /\ UNCHANGED <<branches, items, tag, rows, ctx, message, pending, prompt>>
TurnWait(t) ==
    /\ pc[t] = "paused"
    /\ LastSave(t)
    /\ pc' = [pc EXCEPT ![t] = "waiting"]
    /\ UNCHANGED <<branches, items, tag, rows, ctx, message, prompt>>

\* Variant: a writer that is late writes the prompt it no longer has.
PromptStoredLate(t) ==
    /\ rows' = rows \cup {prompt[t]}
    /\ \/ UNCHANGED prompt
       \/ prompt' = [prompt EXCEPT ![t] = NoItem]
    /\ UNCHANGED <<branches, items, tag, stored, pc, meta, ctx, message, pending>>

\* The processor's loop and the clients' generators write the prompt's row; it
\* is tagged anew by each of them.
PromptStored(t) ==
    /\ prompt[t] # NoItem
    /\ rows' = rows \cup {prompt[t]}
    /\ tag' = [tag EXCEPT ![prompt[t]] = RowBranch(t)]
    /\ \/ UNCHANGED prompt
       \/ prompt' = [prompt EXCEPT ![t] = NoItem]
    /\ UNCHANGED <<branches, items, stored, pc, meta, ctx, message, pending>>

\* The workflow ran to its last node without a wait or end block: the wait
\* state is cleared and the thread saved.
TurnClear(t) ==
    /\ pc[t] = "running"
    /\ meta' = [meta EXCEPT ![t] = ClearWait(@)]
    /\ pc' = [pc EXCEPT ![t] = "ending"]
    /\ UNCHANGED <<tableVars, ctx, message, pending, prompt>>
TurnEnd(t) ==
    /\ pc[t] = "ending"
    /\ LastSave(t)
    /\ pc' = [pc EXCEPT ![t] = "ended"]
    /\ UNCHANGED <<branches, items, tag, rows, ctx, message, prompt>>

\* Failed, cancelled, or closed by an end block: nothing is saved any more.
TurnStop(t) ==
    /\ InProgress(t)
    /\ Drop(t)
    /\ pc' = [pc EXCEPT ![t] = "stopped"]
    /\ UNCHANGED <<tableVars, ctx, message, prompt>>

Turn(t) == \/ TurnLoad(t) \/ TurnAsk(t) \/ TurnRetry(t) \/ TurnStep(t)
           \/ TurnPause(t) \/ TurnPauseSaved(t) \/ TurnWait(t)
           \/ TurnClear(t) \/ TurnEnd(t) \/ TurnStop(t) \/ PromptStored(t)

Next == \/ \E t \in Turns : Turn(t)
        \/ \E b \in Branch : SwitchBranch(b)
        \/ \E f, e \in ItemId : CreateBranch(f, e)

Spec == Init /\ [][Next]_vars

-----------------------------------------------------------------------------
(* Reference definitions                                                   *)

\* What a branch should show, from its parent: everything the parent shows up
\* to the fork point, then the branch's own items.
Lineage(b) ==
    LET shows[c \in 0 .. Len(branches)] ==
            IF c = Main THEN {i \in 1 .. Len(items) : tag[i] = Main}
            ELSE {i \in shows[Parent(c)] : i <= Fork(c)}
                 \cup {i \in 1 .. Len(items) : tag[i] = c}
    IN  shows[b]

-----------------------------------------------------------------------------
(* Properties                                                              *)

\* Every variable keeps its type.
TypeOK ==
    /\ branches \in Seq([parent : Branch, fork : ItemId])
    /\ Len(branches) <= MaxBranches
    /\ items \in Seq([turn : Turns, role : Role])
    /\ Len(items) <= MaxItems
    /\ tag \in [ItemId -> Branch]
    /\ rows \subseteq 1 .. Len(items)
    /\ stored \in Metadata
    /\ pc \in [Turns -> TurnState]
    /\ meta \in [Turns -> Metadata]
    /\ ctx \in [Turns -> Branch \cup {NoBranch}]
    /\ message \in [Turns -> ItemId \cup {NoItem}]
    /\ pending \in [Turns -> WaitState \cup {NoWait}]
    /\ prompt \in [Turns -> ItemId \cup {NoItem}]

\* _filter_items_for_branch reads all rows once, in order, and shows of every
\* branch what its lineage says: its ancestors' items up to each fork point and
\* its own afterwards.
ViewIsLineage == \A b \in 0 .. Len(branches) : View(b) = Lineage(b) \cap rows

\* A branch never waits for the answer to a prompt it does not show: a wait
\* state saved in one branch does not leak into another.
WaitStateVisible == \A b \in 0 .. Len(branches) :
    stored.by[b] # NoWait /\ stored.by[b].anchor \in rows
    => stored.by[b].anchor \in Lineage(b)

\* The global wait state kept for old readers is the current branch's own
\* entry; this is what makes its migration at a branch change harmless.
InStep(m) == m.legacy # NoWait => m.by[Current(m)] = m.legacy
LegacyInStep == InStep(stored)

\* A turn that resumes from a wait state continues the conversation of the
\* branch its own items are stored in.
ResumesOwnBranch == \A t \in Turns :
    pc[t] \in {"running", "pausing", "paused"} /\ pending[t] # NoWait
    => pending[t].anchor \in Lineage(RowBranch(t))

\* Editing the message that answered a prompt resumes the workflow at that
\* prompt, unless a turn of the parent branch has failed or ended without
\* waiting (which clears the index of the whole branch).
Cleared(b) == \E t \in Turns : /\ pc[t] \in {"ended", "stopped"}
                                /\ message[t] \in Lineage(b)
EditResumes ==
    [][Len(branches') > Len(branches) =>
          LET new == Len(branches')
              f   == branches'[new].fork
          IN  items[f].role = "prompt" /\ ~Cleared(tag[f])
              => stored'.by[new].anchor = f]_vars

\* A retried message is answered from what came before it, not from a wait
\* state that was saved while it was answered the first time.
RetryForgets == \A t \in Turns :
    pc[t] = "running" /\ pending[t] # NoWait => pending[t].anchor < message[t]

\* Saving a turn's thread never changes the branch the user has chosen.
SwitchSticks ==
    [][(\E t \in Turns : pc'[t] # pc[t]) => stored'.cur = stored.cur]_vars

\* A branch shows its own items, whatever is deleted elsewhere.
OwnItemsShown == \A b \in 0 .. Len(branches) :
    {i \in rows : tag[i] = b} \subseteq View(b)
=============================================================================
