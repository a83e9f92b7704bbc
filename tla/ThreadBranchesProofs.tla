------------------------ MODULE ThreadBranchesProofs ------------------------
(***************************************************************************)
(* Theorems about ThreadBranches, for any number of turns, items and       *)
(* branches: its types, whatever happens; and, as long as no two           *)
(* operations on the thread overlap, that a turn's save neither undoes a   *)
(* branch change nor lets the global wait state drift away from the        *)
(* current branch's own, that wait states stay with the branches that show *)
(* their prompts, that the rows read for a branch are those of its         *)
(* lineage, and that editing the answer to a prompt resumes at it.         *)
(***************************************************************************)
EXTENDS ThreadBranches, TLAPS, WellFoundedInduction, FiniteSetTheorems

USE ParametersAssumption

LEMMA BranchFacts == /\ Main \in Branch /\ NoBranch \notin Branch
                     /\ NoItem \notin ItemId
  BY DEF Main, Branch, NoBranch, NoItem, ItemId

LEMMA CurrentType == ASSUME NEW m \in Metadata PROVE Current(m) \in Branch
  BY BranchFacts DEF Current, Metadata

LEMMA NewThreadType == /\ NewThread \in Metadata
                       /\ Current(NewThread) = Main /\ InStep(NewThread)
  BY BranchFacts DEF NewThread, Metadata, Current, InStep

LEMMA SetWaitType ==
  ASSUME NEW m \in Metadata, NEW w \in WaitState
  PROVE  /\ SetWait(m, w) \in Metadata
         /\ SetWait(m, w).cur = m.cur
         /\ InStep(SetWait(m, w))
  <1>1. Current(m) \in Branch
    BY CurrentType
  <1>2. /\ SetWait(m, w).cur = m.cur
        /\ SetWait(m, w).legacy = w
        /\ SetWait(m, w).by = [m.by EXCEPT ![Current(m)] = w]
        /\ SetWait(m, w).index \in [Branch -> SUBSET WaitState]
        /\ SetWait(m, w) \in Metadata
    BY <1>1 DEF SetWait, Metadata
  <1>3. Current(SetWait(m, w)) = Current(m)
    BY <1>2 DEF Current
  <1>4. SetWait(m, w).by[Current(m)] = w
    BY <1>1, <1>2 DEF Metadata
  <1> QED
    BY <1>2, <1>3, <1>4 DEF InStep

LEMMA ClearWaitType ==
  ASSUME NEW m \in Metadata
  PROVE  /\ ClearWait(m) \in Metadata
         /\ ClearWait(m).cur = m.cur
         /\ InStep(ClearWait(m))
  <1>1. Current(m) \in Branch
    BY CurrentType
  <1>2. /\ ClearWait(m) \in Metadata /\ ClearWait(m).cur = m.cur
        /\ ClearWait(m).legacy = NoWait
    BY <1>1 DEF ClearWait, Metadata
  <1> QED
    BY <1>2 DEF InStep

LEMMA MigrateType ==
  ASSUME NEW m \in Metadata
  PROVE  /\ Migrate(m) \in Metadata
         /\ Migrate(m).legacy = NoWait
  <1>1. Current(m) \in Branch
    BY CurrentType
  <1> QED
    BY <1>1 DEF Migrate, Metadata

LEMMA GetWaitType ==
  ASSUME NEW m \in Metadata PROVE GetWait(m) \in WaitState \cup {NoWait}
  BY CurrentType DEF GetWait, Metadata

LEMMA SavedType ==
  ASSUME TypeOK, NEW m \in Metadata
  PROVE  /\ Saved(m) \in Metadata
         /\ m.cur = stored.cur => Saved(m) = m
  BY DEF Saved, Metadata, TypeOK

LEMMA RowBranchType ==
  ASSUME TypeOK, NEW t \in Turns PROVE RowBranch(t) \in Branch
  BY CurrentType DEF RowBranch, TypeOK

\* create_branch restores a wait state it finds in the metadata, or none.
LEMMA RestorableType ==
  ASSUME TypeOK, NEW m \in Metadata, NEW b \in Branch, NEW f \in ItemId
  PROVE  Restorable(m, b, f) \in WaitState \cup {NoWait}
  <1> DEFINE indexed  == {w \in m.index[b] : w.anchor = f}
             siblings == {c \in 1 .. Len(branches) :
                             /\ Parent(c) = b /\ Fork(c) = f
                             /\ m.by[c].anchor = f}
             newest   == {c \in siblings : \A d \in siblings : d <= c}
             found    == IF indexed # {} THEN indexed ELSE {m.by[c] : c \in newest}
  <1>1. indexed \subseteq WaitState
    BY DEF Metadata
  <1>2. 1 .. Len(branches) \subseteq Branch
    BY DEF TypeOK, Branch
  <1>3. \A c \in newest : m.by[c] \in WaitState \cup {NoWait}
    BY <1>2 DEF Metadata
  <1>4. found \subseteq WaitState \cup {NoWait}
    BY <1>1, <1>3
  <1>5. Restorable(m, b, f) = IF found = {} THEN NoWait ELSE CHOOSE w \in found : TRUE
    BY DEF Restorable
  <1> HIDE DEF found
  <1>6. CASE found = {}
    BY <1>5, <1>6
  <1>7. CASE found # {}
    <2>1. (CHOOSE w \in found : TRUE) \in found
      BY <1>7
    <2> QED
      BY <1>4, <1>5, <1>7, <2>1
  <1> QED
    BY <1>6, <1>7

-----------------------------------------------------------------------------
(* Types                                                                   *)

LEMMA TypeInit == Init => TypeOK
  <1> SUFFICES ASSUME Init PROVE TypeOK
    OBVIOUS
  <1>1. NewThread \in Metadata
    BY NewThreadType
  <1>2. /\ branches \in Seq([parent : Branch, fork : ItemId]) /\ Len(branches) <= MaxBranches
        /\ items \in Seq([turn : Turns, role : Role]) /\ Len(items) <= MaxItems
    BY DEF Init
  <1>3. /\ tag \in [ItemId -> Branch] /\ rows \subseteq 1 .. Len(items)
        /\ stored \in Metadata /\ meta \in [Turns -> Metadata]
        /\ ctx \in [Turns -> Branch \cup {NoBranch}]
        /\ message \in [Turns -> ItemId \cup {NoItem}]
        /\ pending \in [Turns -> WaitState \cup {NoWait}]
        /\ prompt \in [Turns -> ItemId \cup {NoItem}]
    BY <1>1, BranchFacts DEF Init
  <1>4. pc \in [Turns -> TurnState]
    BY DEF Init, TurnState
  <1> QED
    BY <1>2, <1>3, <1>4 DEF TypeOK

LEMMA TypeSwitch ==
  ASSUME TypeOK, NEW b \in Branch, SwitchBranch(b)
  PROVE  TypeOK'
  <1>1. Migrate(stored) \in Metadata
    BY MigrateType DEF TypeOK
  <1>2. stored' \in Metadata
    BY <1>1 DEF SwitchBranch, Metadata
  <1> QED
    BY <1>2 DEF TypeOK, SwitchBranch, turnVars

LEMMA TypeCreate ==
  ASSUME TypeOK, NEW f \in ItemId, NEW e \in ItemId, CreateBranch(f, e)
  PROVE  TypeOK'
  <1> DEFINE m   == Migrate(stored)
             new == Len(branches) + 1
             w   == Restorable(m, tag[f], f)
             v   == IF w = NoWait THEN NoWait ELSE [w EXCEPT !.input = e]
  <1>1. /\ branches' = Append(branches, [parent |-> tag[f], fork |-> f])
        /\ stored' = [m EXCEPT !.cur = new, !.by[new] = v]
        /\ Len(branches) < MaxBranches
        /\ UNCHANGED <<items, tag, rows, turnVars>>
    BY DEF CreateBranch, ParentOfFork
  <1>2. m \in Metadata /\ tag[f] \in Branch
    BY MigrateType DEF TypeOK
  <1>3. w \in WaitState \cup {NoWait}
    BY <1>2, RestorableType
  <1>4. v \in WaitState \cup {NoWait}
    BY <1>3 DEF WaitState
  <1>5. new \in Branch
    BY <1>1 DEF TypeOK, Branch
  <1> HIDE DEF m, new, v
  <1>6. stored' \in Metadata
    BY <1>1, <1>2, <1>4, <1>5 DEF Metadata
  <1>7. /\ branches' \in Seq([parent : Branch, fork : ItemId])
        /\ Len(branches') <= MaxBranches
    BY <1>1, <1>2 DEF TypeOK
  <1> QED
    BY <1>1, <1>6, <1>7 DEF TypeOK, turnVars

LEMMA TypeTurnLoad ==
  ASSUME TypeOK, NEW t \in Turns, TurnLoad(t)
  PROVE  TypeOK'
  <1>1. PICK b \in {NoBranch} \cup (IF MayOverlap THEN 0 .. Len(branches) ELSE {}) :
           ctx' = [ctx EXCEPT ![t] = b]
    BY DEF TurnLoad
  <1>2. b \in Branch \cup {NoBranch}
    BY <1>1 DEF TypeOK, Branch
  <1>3. /\ meta' = [meta EXCEPT ![t] = stored]
        /\ pc' = [pc EXCEPT ![t] = "loaded"]
        /\ UNCHANGED <<tableVars, message, pending, prompt>>
    BY DEF TurnLoad
  <1>4. ctx' \in [Turns -> Branch \cup {NoBranch}]
    BY <1>1, <1>2 DEF TypeOK
  <1>5. meta' \in [Turns -> Metadata] /\ pc' \in [Turns -> TurnState]
    BY <1>3 DEF TypeOK, TurnState
  <1> QED
    BY <1>3, <1>4, <1>5 DEF TypeOK, tableVars

LEMMA TypeTurnAsk ==
  ASSUME TypeOK, NEW t \in Turns, TurnAsk(t)
  PROVE  TypeOK'
  <1> DEFINE i == Len(items) + 1
  <1>1. /\ Len(items) < MaxItems
        /\ items' = Append(items, [turn |-> t, role |-> "user"])
        /\ tag' = [tag EXCEPT ![i] = RowBranch(t)]
        /\ rows' = rows \cup {i}
        /\ message' = [message EXCEPT ![t] = i]
        /\ pending' = [pending EXCEPT ![t] = GetWait(meta[t])]
        /\ pc' = [pc EXCEPT ![t] = "running"]
        /\ UNCHANGED <<branches, stored, meta, ctx, prompt>>
    BY DEF TurnAsk
  <1>2. i \in ItemId
    BY <1>1 DEF TypeOK, ItemId
  <1>3. GetWait(meta[t]) \in WaitState \cup {NoWait}
    BY GetWaitType DEF TypeOK
  <1>4. /\ items' \in Seq([turn : Turns, role : Role])
        /\ Len(items') = i /\ i <= MaxItems
    BY <1>1 DEF TypeOK, Role
  <1>5. rows' \subseteq 1 .. Len(items')
    <2>1. Len(items) \in Nat /\ rows \subseteq 1 .. Len(items)
      BY DEF TypeOK
    <2>2. 1 .. Len(items) \subseteq 1 .. i /\ i \in 1 .. i
      BY <2>1
    <2>3. rows \cup {i} \subseteq 1 .. i
      BY <2>1, <2>2
    <2> HIDE DEF i
    <2> QED
      BY <1>1, <1>4, <2>3
  <1>6. tag' \in [ItemId -> Branch]
    BY <1>1, <1>2, RowBranchType DEF TypeOK
  <1>7. /\ message' \in [Turns -> ItemId \cup {NoItem}]
        /\ pending' \in [Turns -> WaitState \cup {NoWait}]
        /\ pc' \in [Turns -> TurnState]
    BY <1>1, <1>2, <1>3 DEF TypeOK, TurnState
  <1> QED
    BY <1>1, <1>4, <1>5, <1>6, <1>7 DEF TypeOK

LEMMA TypeTurnRetry ==
  ASSUME TypeOK, NEW t \in Turns, TurnRetry(t)
  PROVE  TypeOK'
  <1>1. PICK e \in rows : /\ rows' \subseteq rows
                          /\ message' = [message EXCEPT ![t] = e]
    BY DEF TurnRetry
  <1>2. e \in ItemId
    BY <1>1 DEF TypeOK, ItemId
  <1>3. /\ meta' = [meta EXCEPT ![t] = stored]
        /\ pending' = [pending EXCEPT ![t] = GetWait(stored)]
        /\ pc' = [pc EXCEPT ![t] = "running"]
        /\ UNCHANGED <<branches, items, tag, stored, ctx, prompt>>
    BY DEF TurnRetry
  <1>4. GetWait(stored) \in WaitState \cup {NoWait}
    BY GetWaitType DEF TypeOK
  <1>5. /\ rows' \subseteq 1 .. Len(items')
        /\ message' \in [Turns -> ItemId \cup {NoItem}]
    BY <1>1, <1>2, <1>3 DEF TypeOK
  <1>6. /\ meta' \in [Turns -> Metadata]
        /\ pending' \in [Turns -> WaitState \cup {NoWait}]
        /\ pc' \in [Turns -> TurnState]
    BY <1>3, <1>4 DEF TypeOK, TurnState
  <1> QED
    BY <1>3, <1>5, <1>6 DEF TypeOK

\* A save, in the middle of a turn or at its end, stores typed metadata.
LEMMA TypeSave ==
  ASSUME TypeOK, NEW t \in Turns, Save(t) \/ LastSave(t)
  PROVE  /\ meta' \in [Turns -> Metadata]
         /\ stored' \in Metadata
  <1>1. Saved(meta[t]) \in Metadata
    BY SavedType DEF TypeOK
  <1>2. CASE Save(t)
    BY <1>1, <1>2 DEF Save, TypeOK
  <1>3. CASE LastSave(t)
    BY <1>1, <1>3, NewThreadType DEF LastSave, Drop, TypeOK
  <1> QED
    BY <1>2, <1>3

LEMMA TypeDrop ==
  ASSUME TypeOK, NEW t \in Turns, Drop(t)
  PROVE  /\ meta' \in [Turns -> Metadata]
         /\ pending' \in [Turns -> WaitState \cup {NoWait}]
  BY NewThreadType DEF Drop, TypeOK

LEMMA TypeTurnPause ==
  ASSUME TypeOK, NEW t \in Turns, TurnPause(t), message[t] # NoItem
  PROVE  TypeOK'
  <1> DEFINE i == Len(items) + 1
             w == [anchor |-> i, input |-> message[t]]
  <1>1. /\ Len(items) < MaxItems
        /\ items' = Append(items, [turn |-> t, role |-> "prompt"])
        /\ prompt' = [prompt EXCEPT ![t] = i]
        /\ meta' = [meta EXCEPT ![t] = SetWait(@, w)]
        /\ pc' = [pc EXCEPT ![t] = "pausing"]
        /\ UNCHANGED <<branches, tag, rows, stored, ctx, message, pending>>
    BY DEF TurnPause
  <1>2. i \in ItemId /\ w \in WaitState
    BY <1>1 DEF TypeOK, ItemId, WaitState
  <1>3. SetWait(meta[t], w) \in Metadata
    BY <1>2, SetWaitType DEF TypeOK
  <1>4. /\ items' \in Seq([turn : Turns, role : Role])
        /\ Len(items') = i /\ i <= MaxItems
    BY <1>1 DEF TypeOK, Role
  <1>5. rows' \subseteq 1 .. Len(items')
    <2>1. Len(items) \in Nat /\ rows \subseteq 1 .. Len(items)
      BY DEF TypeOK
    <2>2. 1 .. Len(items) \subseteq 1 .. i
      BY <2>1
    <2> HIDE DEF i
    <2> QED
      BY <1>1, <1>4, <2>1, <2>2
  <1>6. /\ prompt' \in [Turns -> ItemId \cup {NoItem}]
        /\ meta' \in [Turns -> Metadata]
        /\ pc' \in [Turns -> TurnState]
    BY <1>1, <1>2, <1>3 DEF TypeOK, TurnState
  <1> QED
    BY <1>1, <1>4, <1>5, <1>6 DEF TypeOK

LEMMA TypePromptStored ==
  ASSUME TypeOK, NEW t \in Turns, PromptStored(t), prompt[t] \in 1 .. Len(items)
  PROVE  TypeOK'
  <1>1. /\ rows' = rows \cup {prompt[t]}
        /\ tag' = [tag EXCEPT ![prompt[t]] = RowBranch(t)]
        /\ UNCHANGED prompt \/ prompt' = [prompt EXCEPT ![t] = NoItem]
        /\ UNCHANGED <<branches, items, stored, pc, meta, ctx, message, pending>>
    BY DEF PromptStored
  <1>2. tag' \in [ItemId -> Branch]
    BY <1>1, RowBranchType DEF TypeOK
  <1>3. prompt' \in [Turns -> ItemId \cup {NoItem}]
    BY <1>1 DEF TypeOK
  <1> QED
    BY <1>1, <1>2, <1>3 DEF TypeOK

LEMMA TypeTurnRest ==
  ASSUME TypeOK, NEW t \in Turns,
         \/ TurnStep(t) \/ TurnPauseSaved(t) \/ TurnWait(t)
         \/ TurnClear(t) \/ TurnEnd(t) \/ TurnStop(t)
  PROVE  TypeOK'
  <1>1. pc' \in [Turns -> TurnState]
    BY DEF TypeOK, TurnState, TurnStep, TurnPauseSaved, TurnWait, TurnClear,
           TurnEnd, TurnStop
  <1>2. CASE TurnStep(t) \/ TurnPauseSaved(t)
    <2>1. Save(t) /\ UNCHANGED <<branches, items, tag, rows, ctx, message, pending, prompt>>
      BY <1>2 DEF TurnStep, TurnPauseSaved
    <2> QED
      BY <1>1, <2>1, TypeSave DEF TypeOK
  <1>3. CASE TurnWait(t) \/ TurnEnd(t)
    <2>1. LastSave(t) /\ UNCHANGED <<branches, items, tag, rows, ctx, message, prompt>>
      BY <1>3 DEF TurnWait, TurnEnd
    <2>2. Drop(t)
      BY <2>1 DEF LastSave
    <2> QED
      BY <1>1, <2>1, <2>2, TypeSave, TypeDrop DEF TypeOK
  <1>4. CASE TurnClear(t)
    <2>1. ClearWait(meta[t]) \in Metadata
      BY ClearWaitType DEF TypeOK
    <2>2. meta' \in [Turns -> Metadata]
      BY <1>4, <2>1 DEF TypeOK, TurnClear
    <2> QED
      BY <1>1, <1>4, <2>2 DEF TypeOK, TurnClear, tableVars
  <1>5. CASE TurnStop(t)
    <2>1. Drop(t) /\ UNCHANGED <<tableVars, ctx, message, prompt>>
      BY <1>5 DEF TurnStop
    <2> QED
      BY <1>1, <2>1, TypeDrop DEF TypeOK, tableVars
  <1> QED
    BY <1>2, <1>3, <1>4, <1>5

-----------------------------------------------------------------------------
(* What the types rest on                                                  *)

\* A turn that answers has a message, and a prompt still to be written exists.
Answering == \A t \in Turns :
    pc[t] \in {"running", "pausing", "paused", "ending"} => message[t] # NoItem
Written == \A t \in Turns : prompt[t] # NoItem => prompt[t] \in 1 .. Len(items)

TypeInv == TypeOK /\ Answering /\ Written

LEMMA TypeInvInit == Init => TypeInv
  BY TypeInit DEF Init, TypeInv, Answering, Written

LEMMA TypeInvTurn ==
  ASSUME TypeInv, NEW t \in Turns, Turn(t)
  PROVE  TypeInv'
  <1> USE DEF TypeInv
  <1>1. TypeOK'
    <2>1. CASE TurnPause(t)
      <3>1. message[t] # NoItem
        BY <2>1 DEF TurnPause, Answering
      <3> QED
        BY <2>1, <3>1, TypeTurnPause
    <2>2. CASE PromptStored(t)
      <3>1. prompt[t] \in 1 .. Len(items)
        BY <2>2 DEF PromptStored, Written
      <3> QED
        BY <2>2, <3>1, TypePromptStored
    <2> QED
      BY <2>1, <2>2, TypeTurnLoad, TypeTurnAsk, TypeTurnRetry, TypeTurnRest DEF Turn
  <1>2. Answering'
    <2> SUFFICES ASSUME NEW u \in Turns,
                        pc'[u] \in {"running", "pausing", "paused", "ending"}
                 PROVE  message'[u] # NoItem
      BY DEF Answering
    <2>1. CASE TurnAsk(t)
      BY <2>1 DEF TurnAsk, Answering, TypeOK, NoItem
    <2>2. CASE TurnRetry(t)
      <3>1. PICK e \in rows : message' = [message EXCEPT ![t] = e]
        BY <2>2 DEF TurnRetry
      <3>2. e # NoItem
        BY DEF TypeOK, NoItem
      <3> QED
        BY <2>2, <3>1, <3>2 DEF TurnRetry, Answering, TypeOK
    <2>3. CASE ~TurnAsk(t) /\ ~TurnRetry(t)
      <3>1. message' = message
        BY <2>3 DEF Turn, TurnLoad, TurnStep, TurnPause, TurnPauseSaved, TurnWait,
                    TurnClear, TurnEnd, TurnStop, PromptStored, tableVars
      <3>2. pc[u] \in {"running", "pausing", "paused", "ending"}
        BY <2>3 DEF Turn, TurnLoad, TurnStep, TurnPause, TurnPauseSaved, TurnWait,
                    TurnClear, TurnEnd, TurnStop, PromptStored, tableVars, TypeOK
      <3> QED
        BY <3>1, <3>2 DEF Answering
    <2> QED
      BY <2>1, <2>2, <2>3
  <1>3. Written'
    <2>1. Len(items) \in Nat
      BY DEF TypeOK
    <2>2. CASE TurnPause(t)
      <3>1. /\ items' = Append(items, [turn |-> t, role |-> "prompt"])
            /\ prompt' = [prompt EXCEPT ![t] = Len(items) + 1]
        BY <2>2 DEF TurnPause
      <3>2. Len(items') = Len(items) + 1
        BY <3>1 DEF TypeOK
      <3> QED
        BY <2>1, <3>1, <3>2 DEF Written, TypeOK
    <2>3. CASE TurnAsk(t)
      <3>1. Len(items') = Len(items) + 1 /\ prompt' = prompt
        BY <2>3 DEF TurnAsk, TypeOK
      <3> QED
        BY <2>1, <3>1 DEF Written, TypeOK
    <2>4. CASE PromptStored(t)
      BY <2>4 DEF PromptStored, Written, TypeOK
    <2>5. CASE ~TurnPause(t) /\ ~TurnAsk(t) /\ ~PromptStored(t)
      <3>1. items' = items /\ prompt' = prompt
        BY <2>5 DEF Turn, TurnLoad, TurnRetry, TurnStep, TurnPauseSaved, TurnWait,
                    TurnClear, TurnEnd, TurnStop, tableVars
      <3> QED
        BY <3>1 DEF Written
    <2> QED
      BY <2>2, <2>3, <2>4, <2>5
  <1> QED
    BY <1>1, <1>2, <1>3

LEMMA TypeInvNext == TypeInv /\ [Next]_vars => TypeInv'
  <1> SUFFICES ASSUME TypeInv, [Next]_vars PROVE TypeInv'
    OBVIOUS
  <1>1. CASE \E t \in Turns : Turn(t)
    BY <1>1, TypeInvTurn
  <1>2. ASSUME NEW b \in Branch, SwitchBranch(b) PROVE TypeInv'
    BY <1>2, TypeSwitch DEF TypeInv, SwitchBranch, turnVars, Answering, Written
  <1>3. ASSUME NEW f \in ItemId, NEW e \in ItemId, CreateBranch(f, e) PROVE TypeInv'
    BY <1>3, TypeCreate DEF TypeInv, CreateBranch, turnVars, Answering, Written
  <1>4. CASE UNCHANGED vars
    BY <1>4 DEF TypeInv, TypeOK, Answering, Written, vars, tableVars, turnVars
  <1> QED
    BY <1>1, <1>2, <1>3, <1>4 DEF Next

\* Every variable keeps its type, whatever overlaps, fails or is retried: in
\* particular only items that exist have rows, and every wait state is made of
\* a prompt and a message.
THEOREM TypeCorrect == Spec => []TypeOK
  <1>1. TypeInv => TypeOK
    BY DEF TypeInv
  <1> QED
    BY TypeInvInit, TypeInvNext, <1>1, PTL DEF Spec

-----------------------------------------------------------------------------
(* One operation at a time                                                 *)

\* Without overlap a single turn runs, its copy of the metadata names the
\* stored branch, and both copies' global wait states are the branch's own.
Alone    == \A t, u \in Turns : InProgress(t) /\ InProgress(u) => t = u
Together == \A t \in Turns :
    InProgress(t) => meta[t].cur = stored.cur /\ InStep(meta[t])

SerialInv == TypeInv /\ Alone /\ Together /\ LegacyInStep

LEMMA SerialInit == Init => SerialInv
  BY TypeInvInit, NewThreadType
     DEF Init, SerialInv, Alone, Together, LegacyInStep, InProgress

\* Any save leaves the stored branch alone, and a global wait state in step.
LEMMA SerialSave ==
  ASSUME SerialInv, NEW t \in Turns, InProgress(t), Save(t) \/ LastSave(t)
  PROVE  /\ stored'.cur = stored.cur /\ LegacyInStep'
         /\ Save(t) => meta' = meta
  <1>1. /\ meta[t] \in Metadata /\ meta[t].cur = stored.cur /\ InStep(meta[t])
        /\ meta \in [Turns -> Metadata]
    BY DEF SerialInv, TypeInv, TypeOK, Together
  <1>2. Saved(meta[t]) = meta[t]
    BY <1>1, SavedType DEF SerialInv, TypeInv
  <1>3. stored' = meta[t] \/ stored' = stored
    BY <1>2 DEF Save, LastSave
  <1>4. stored'.cur = stored.cur
    BY <1>1, <1>3
  <1>5. LegacyInStep'
    BY <1>1, <1>3 DEF LegacyInStep, InStep, Current, SerialInv
  <1>6. Save(t) => meta' = meta
    BY <1>1, <1>2 DEF Save
  <1> QED
    BY <1>4, <1>5, <1>6

\* A turn's step keeps the stored branch and the serial invariant.
LEMMA SerialTurn ==
  ASSUME SerialInv, NEW t \in Turns, Turn(t), ~MayOverlap
  PROVE  SerialInv' /\ stored'.cur = stored.cur
  <1>1. TypeInv'
    BY TypeInvTurn DEF SerialInv
  <1>2. pc \in [Turns -> TurnState] /\ meta \in [Turns -> Metadata] /\ stored \in Metadata
    BY DEF SerialInv, TypeInv, TypeOK
  <1>3. \A u \in Turns : u # t => (InProgress(u)' <=> InProgress(u)) /\ meta'[u] = meta[u]
    BY <1>2 DEF Turn, TurnLoad, TurnAsk, TurnRetry, TurnStep, TurnPause,
                TurnPauseSaved, TurnWait, TurnClear, TurnEnd, TurnStop, PromptStored,
                Save, LastSave, Drop, tableVars, InProgress
  <1>4. CASE TurnLoad(t) \/ TurnRetry(t)
    <2>1. Quiet /\ stored' = stored /\ meta' = [meta EXCEPT ![t] = stored]
      BY <1>4 DEF TurnLoad, TurnRetry, tableVars
    <2>2. \A u \in Turns : InProgress(u)' => u = t
      BY <1>3, <2>1 DEF Quiet
    <2>3. Alone' /\ LegacyInStep'
      BY <2>1, <2>2 DEF Alone, LegacyInStep, SerialInv, InStep, Current
    <2>4. Together'
      <3>1. meta'[t] = stored
        BY <1>2, <2>1
      <3> QED
        BY <2>1, <2>2, <3>1 DEF Together, SerialInv, LegacyInStep, InStep, Current
    <2> QED
      BY <1>1, <2>1, <2>3, <2>4 DEF SerialInv
  <1>5. CASE TurnStep(t) \/ TurnPauseSaved(t) \/ TurnWait(t) \/ TurnEnd(t)
    <2>1. InProgress(t) /\ (Save(t) \/ LastSave(t))
      BY <1>5 DEF TurnStep, TurnPauseSaved, TurnWait, TurnEnd, InProgress
    <2>2. stored'.cur = stored.cur /\ LegacyInStep' /\ (Save(t) => meta' = meta)
      BY <2>1, SerialSave
    <2>3. Alone'
      BY <1>3, <2>1 DEF Alone, SerialInv
    <2>4. InProgress(t)' => Save(t)
      BY <1>2, <1>5 DEF TurnStep, TurnPauseSaved, TurnWait, TurnEnd, InProgress
    <2>5. Together'
      <3> SUFFICES ASSUME NEW u \in Turns, InProgress(u)'
                   PROVE  meta'[u].cur = stored'.cur /\ InStep(meta'[u])
        BY DEF Together, InStep, Current
      <3>1. InProgress(u) /\ meta'[u] = meta[u]
        BY <1>3, <2>1, <2>2, <2>4
      <3> QED
        BY <2>2, <3>1 DEF Together, SerialInv
    <2> QED
      BY <1>1, <2>2, <2>3, <2>5 DEF SerialInv
  <1>6. CASE TurnAsk(t) \/ TurnPause(t) \/ TurnClear(t) \/ TurnStop(t)
    <2>1. stored' = stored /\ InProgress(t)
      BY <1>6 DEF TurnAsk, TurnPause, TurnClear, TurnStop, tableVars, InProgress
    <2>2. Alone' /\ LegacyInStep'
      BY <1>3, <2>1 DEF Alone, LegacyInStep, SerialInv, InStep, Current
    <2>3. InProgress(t)' => meta'[t].cur = meta[t].cur /\ InStep(meta'[t])
      <3>1. meta[t] \in Metadata /\ InStep(meta[t])
        BY <1>2, <2>1 DEF Together, SerialInv
      <3>2. CASE TurnAsk(t)
        BY <3>1, <3>2 DEF TurnAsk
      <3>3. CASE TurnPause(t)
        <4> DEFINE w == [anchor |-> Len(items) + 1, input |-> message[t]]
        <4>1. w \in WaitState
          BY <3>3 DEF TurnPause, SerialInv, TypeInv, TypeOK, Answering, WaitState,
                      ItemId, NoItem
        <4>2. meta'[t] = SetWait(meta[t], w)
          BY <1>2, <3>3 DEF TurnPause
        <4> QED
          BY <3>1, <4>1, <4>2, SetWaitType
      <3>4. CASE TurnClear(t)
        <4>1. meta'[t] = ClearWait(meta[t])
          BY <1>2, <3>4 DEF TurnClear
        <4> QED
          BY <3>1, <4>1, ClearWaitType
      <3>5. CASE TurnStop(t)
        BY <1>2, <3>5 DEF TurnStop, InProgress
      <3> QED
        BY <1>6, <3>2, <3>3, <3>4, <3>5
    <2>4. Together'
      <3> SUFFICES ASSUME NEW u \in Turns, InProgress(u)'
                   PROVE  meta'[u].cur = stored'.cur /\ InStep(meta'[u])
        BY DEF Together, InStep, Current
      <3>1. u = t
        BY <1>3, <2>1 DEF Alone, SerialInv
      <3> QED
        BY <2>1, <2>3, <3>1 DEF Together, SerialInv
    <2> QED
      BY <1>1, <2>1, <2>2, <2>4 DEF SerialInv
  <1>7. CASE PromptStored(t)
    <2>1. UNCHANGED <<stored, pc, meta>>
      BY <1>7 DEF PromptStored
    <2>2. Alone' /\ Together' /\ LegacyInStep'
      BY <2>1 DEF Alone, Together, LegacyInStep, SerialInv, InProgress, InStep, Current
    <2> QED
      BY <1>1, <2>1, <2>2 DEF SerialInv
  <1> QED
    BY <1>4, <1>5, <1>6, <1>7 DEF Turn

LEMMA SerialNext ==
  ASSUME SerialInv, [Next]_vars, ~MayOverlap
  PROVE  /\ SerialInv'
         /\ (\E t \in Turns : pc'[t] # pc[t]) => stored'.cur = stored.cur
  <1>1. TypeInv'
    BY TypeInvNext DEF SerialInv
  <1>2. CASE \E t \in Turns : Turn(t)
    BY <1>2, SerialTurn
  <1>3. ASSUME NEW b \in Branch, SwitchBranch(b)
        PROVE  SerialInv' /\ pc' = pc
    <2>1. Quiet /\ UNCHANGED turnVars /\ stored' = [Migrate(stored) EXCEPT !.cur = b]
      BY <1>3 DEF SwitchBranch
    <2>2. stored'.legacy = NoWait
      BY <2>1, MigrateType DEF SerialInv, TypeInv, TypeOK, Metadata
    <2> QED
      BY <1>1, <2>1, <2>2 DEF SerialInv, Quiet, turnVars, Alone, Together,
                              LegacyInStep, InStep, InProgress
  <1>4. ASSUME NEW f \in ItemId, NEW e \in ItemId, CreateBranch(f, e)
        PROVE  SerialInv' /\ pc' = pc
    <2>1. Quiet /\ UNCHANGED turnVars
      BY <1>4 DEF CreateBranch
    <2>2. PICK c \in Int, v \in WaitState \cup {NoWait} :
             stored' = [Migrate(stored) EXCEPT !.cur = c, !.by[c] = v]
      <3>1. Migrate(stored) \in Metadata /\ tag[f] \in Branch
        BY MigrateType DEF SerialInv, TypeInv, TypeOK
      <3>2. Restorable(Migrate(stored), tag[f], f) \in WaitState \cup {NoWait}
        BY <3>1, RestorableType DEF SerialInv, TypeInv
      <3>3. Len(branches) + 1 \in Int
        BY DEF SerialInv, TypeInv, TypeOK
      <3> DEFINE w == Restorable(Migrate(stored), tag[f], f)
                 v == IF w = NoWait THEN NoWait ELSE [w EXCEPT !.input = e]
                 c == Len(branches) + 1
      <3>4. v \in WaitState \cup {NoWait}
        BY <3>2 DEF WaitState
      <3>5. stored' = [Migrate(stored) EXCEPT !.cur = c, !.by[c] = v]
        BY <1>4 DEF CreateBranch, ParentOfFork
      <3> HIDE DEF v, c
      <3> QED
        BY <3>3, <3>4, <3>5 DEF c
    <2>3. stored'.legacy = NoWait
      BY <2>2, MigrateType DEF SerialInv, TypeInv, TypeOK, Metadata
    <2> QED
      BY <1>1, <2>1, <2>3 DEF SerialInv, Quiet, turnVars, Alone, Together,
                              LegacyInStep, InStep, InProgress
  <1>5. CASE UNCHANGED vars
    BY <1>1, <1>5 DEF SerialInv, vars, tableVars, turnVars, Alone, Together,
                      LegacyInStep, InStep, Current, InProgress
  <1> QED
    BY <1>2, <1>3, <1>4, <1>5 DEF Next

\* While operations on a thread do not overlap, the global wait state that
\* _set_wait_state_metadata keeps for old readers is the current branch's own
\* entry, so that the migration at a branch change copies nothing foreign.
THEOREM LegacyStaysInStep == ~MayOverlap => (Spec => []LegacyInStep)
  <1> SUFFICES ASSUME ~MayOverlap PROVE Spec => []LegacyInStep
    OBVIOUS
  <1>1. SerialInv /\ [Next]_vars => SerialInv'
    BY SerialNext
  <1>2. SerialInv => LegacyInStep
    BY DEF SerialInv
  <1> QED
    BY SerialInit, <1>1, <1>2, PTL DEF Spec

\* While operations on a thread do not overlap, no save of a turn's copy of
\* the thread undoes the branch the user has switched to or created, although
\* save_thread overwrites the stored metadata as a whole.
THEOREM ChosenBranchSticks == ~MayOverlap => (Spec => SwitchSticks)
  <1> SUFFICES ASSUME ~MayOverlap PROVE Spec => SwitchSticks
    OBVIOUS
  <1>1. SerialInv /\ [Next]_vars => SerialInv'
    BY SerialNext
  <1>2. SerialInv /\ [Next]_vars
        => [(\E t \in Turns : pc'[t] # pc[t]) => stored'.cur = stored.cur]_vars
    BY SerialNext
  <1> QED
    BY SerialInit, <1>1, <1>2, PTL DEF Spec, SwitchSticks

-----------------------------------------------------------------------------
(* Induction, and the tree of branches                                     *)

\* A set of natural numbers has a least member.
LEMMA Least ==
  ASSUME NEW T \in SUBSET Nat, T # {}
  PROVE  \E x \in T : \A y \in T : x <= y
  <1> DEFINE R == OpToRel(<, Nat)
  <1>1. IsWellFoundedOn(R, Nat)
    BY NatLessThanWellFounded, Zenon
  <1>2. \A x, y \in Nat : x < y => <<x, y>> \in R
    BY Zenon DEF OpToRel
  <1> HIDE DEF R
  <1>3. \E x \in T : \A y \in T : ~ (<<y, x>> \in R)
    BY <1>1, WFMin
  <1>4. PICK x \in T : \A y \in T : ~ (<<y, x>> \in R)
    BY <1>3
  <1>5. \A y \in T : ~(y < x)
    BY <1>2, <1>4
  <1>6. \A y \in T : x <= y
    <2> TAKE y \in T
    <2>1. ~(y < x) BY <1>5
    <2>2. x \in Nat /\ y \in Nat OBVIOUS
    <2> QED BY <2>1, <2>2
  <1> QED BY <1>6

\* Induction over the natural numbers, for a set: what the recursive functions
\* of the model return for every branch and every item rests on it.
LEMMA Induction ==
  ASSUME NEW S, 0 \in S, \A n \in Nat : n \in S => n + 1 \in S
  PROVE  Nat \subseteq S
  <1> SUFFICES ASSUME Nat \ S # {} PROVE FALSE OBVIOUS
  <1>1. PICK x \in Nat \ S : \A y \in Nat \ S : x <= y
    BY Least
  <1>2. x - 1 \in Nat /\ x - 1 \in S
    BY <1>1
  <1> QED BY <1>1, <1>2

\* Functions that lead from each number to an earlier one, as a parent does; g
\* is computed from its value there.
Earlier(N) == {p \in [1 .. N -> Nat] : \A n \in 1 .. N : p[n] < n}

Recursive(g, N, X, a, p, H) ==
    /\ g \in [0 .. N -> X]
    /\ g[0] = a
    /\ \A n \in 1 .. N : g[n] = H[n][g[p[n]]]

\* A function defined by recursion over earlier numbers exists.
LEMMA Recursion ==
  ASSUME NEW N \in Nat, NEW X, NEW a \in X, NEW p \in Earlier(N),
         NEW H \in [1 .. N -> [X -> X]]
  PROVE  \E g : Recursive(g, N, X, a, p, H)
  <1> USE DEF Recursive, Earlier
  <1> DEFINE Solves(g, n) == /\ g \in [0 .. n -> X]
                             /\ g[0] = a
                             /\ \A k \in 1 .. n : g[k] = H[k][g[p[k]]]
             S == {n \in Nat : n <= N => \E g : Solves(g, n)}
  <1>1. 0 \in S
    <2>1. Solves([k \in 0 .. 0 |-> a], 0)
      OBVIOUS
    <2> QED
      BY <2>1
  <1>2. ASSUME NEW n \in Nat, n \in S PROVE n + 1 \in S
    <2> SUFFICES ASSUME n + 1 <= N PROVE \E g : Solves(g, n + 1)
      OBVIOUS
    <2>1. PICK g : Solves(g, n)
      BY <1>2
    <2> DEFINE h == [k \in 0 .. n + 1 |-> IF k = n + 1 THEN H[n + 1][g[p[n + 1]]]
                                          ELSE g[k]]
    <2>2. \A k \in 1 .. n + 1 : k \in 1 .. N /\ p[k] \in 0 .. n /\ p[k] < k
      OBVIOUS
    <2>3. n + 1 \in 1 .. N /\ H[n + 1][g[p[n + 1]]] \in X
      BY <2>1, <2>2
    <2>4. h \in [0 .. n + 1 -> X] /\ h[0] = a
      BY <2>1, <2>3
    <2>5. \A k \in 0 .. n : h[k] = g[k]
      OBVIOUS
    <2>6. h[n + 1] = H[n + 1][g[p[n + 1]]]
      OBVIOUS
    <2>7. ASSUME NEW k \in 1 .. n + 1 PROVE h[k] = H[k][h[p[k]]]
      <3>1. h[p[k]] = g[p[k]]
        BY <2>2, <2>5
      <3>2. CASE k = n + 1
        BY <2>6, <3>1, <3>2
      <3>3. CASE k \in 1 .. n
        BY <2>1, <2>5, <3>1, <3>3
      <3> QED
        BY <3>2, <3>3
    <2>8. Solves(h, n + 1)
      <3> HIDE DEF h
      <3> QED BY <2>4, <2>7
    <2> QED
      BY <2>8
  <1>3. Nat \subseteq S
    <2> HIDE DEF S
    <2> QED BY <1>1, <1>2, Induction
  <1>4. PICK g : Solves(g, N)
    BY <1>3
  <1> QED
    BY <1>4

\* branches form a tree: a parent is older than its branches, a fork point is
\* an item of the parent, and a branch's items are newer than its fork point.
Tree ==
    /\ \A c \in 1 .. Len(branches) : /\ Parent(c) \in 0 .. c - 1
                                     /\ Fork(c) \in 1 .. Len(items)
                                     /\ tag[Fork(c)] = Parent(c)
    /\ \A i \in ItemId : /\ tag[i] \in 0 .. Len(branches)
                         /\ \A c \in 1 .. Len(branches) : tag[i] = c => Fork(c) < i

\* What Lineage computes, as a fact about each branch and its parent.
LineageLaw ==
    \A c \in 0 .. Len(branches) :
       /\ Lineage(c) \subseteq 1 .. Len(items)
       /\ \A i \in 1 .. Len(items) :
             /\ tag[i] = c => i \in Lineage(c)
             /\ \A p \in 0 .. Len(branches) : c # Main /\ p = Parent(c) =>
                   (i \in Lineage(c) <=> \/ tag[i] = c
                                         \/ i <= Fork(c) /\ i \in Lineage(p))
             /\ c = Main => (i \in Lineage(c) <=> tag[i] = Main)

\* The function that Lineage chooses exists, hence has the values its
\* definition says.
LEMMA LineageLawHolds == TypeOK /\ Tree => LineageLaw
  <1> SUFFICES ASSUME TypeOK, Tree PROVE LineageLaw
    OBVIOUS
  <1> DEFINE N == Len(branches)
             X == SUBSET (1 .. Len(items))
             a == {i \in 1 .. Len(items) : tag[i] = Main}
             p == [n \in 1 .. N |-> Parent(n)]
             H == [n \in 1 .. N |-> [s \in X |->
                     {i \in s : i <= Fork(n)} \cup {i \in 1 .. Len(items) : tag[i] = n}]]
             Shows(f) == f = [c \in 0 .. N |->
                            IF c = Main THEN a
                            ELSE {i \in f[Parent(c)] : i <= Fork(c)}
                                 \cup {i \in 1 .. Len(items) : tag[i] = c}]
  <1>1. N \in Nat /\ a \in X
    BY DEF TypeOK
  <1>2. p \in Earlier(N) /\ \A n \in 1 .. N : p[n] < n /\ p[n] = Parent(n)
    BY <1>1 DEF Tree, Earlier
  <1>3. H \in [1 .. N -> [X -> X]]
    OBVIOUS
  <1>4. \A n \in 1 .. N : \A s \in X :
           H[n][s] = {i \in s : i <= Fork(n)} \cup {i \in 1 .. Len(items) : tag[i] = n}
    OBVIOUS
  <1>5. PICK g : /\ g \in [0 .. N -> X]
                 /\ g[0] = a
                 /\ \A n \in 1 .. N : g[n] = H[n][g[p[n]]]
    <2> HIDE DEF N, X, a, p, H, Shows
    <2>1. \E g : Recursive(g, N, X, a, p, H)
      BY <1>1, <1>2, <1>3, Recursion
    <2> QED BY <2>1 DEF Recursive
  <1>6. \A c \in 0 .. N : g[c] \in X
    BY <1>5
  <1>7. ASSUME NEW c \in 0 .. N
        PROVE  g[c] = IF c = Main THEN a
                      ELSE {i \in g[Parent(c)] : i <= Fork(c)}
                            \cup {i \in 1 .. Len(items) : tag[i] = c}
    <2>1. CASE c = 0
      BY <1>5, <2>1 DEF Main
    <2>2. CASE c \in 1 .. N
      <3> HIDE DEF N, X, a, p, H, Shows
      <3>1. p[c] = Parent(c) /\ p[c] \in 0 .. N
        BY <1>1, <1>2, <2>2 DEF Earlier
      <3>2. g[p[c]] \in X
        BY <1>6, <3>1
      <3>3. g[c] = {i \in g[p[c]] : i <= Fork(c)} \cup {i \in 1 .. Len(items) : tag[i] = c}
        BY <1>4, <1>5, <2>2, <3>2
      <3> QED
        BY <2>2, <3>1, <3>3 DEF Main
    <2> QED
      BY <1>1, <2>1, <2>2
  <1>8. Shows(g)
    <2> HIDE DEF N, X, a, p, H
    <2> QED BY <1>5, <1>7
  <1> DEFINE shows == CHOOSE f : Shows(f)
  <1>9. Shows(shows)
    <2> HIDE DEF Shows
    <2> QED BY <1>8
  <1>10. \A b : Lineage(b) = shows[b]
    BY DEF Lineage
  <1> HIDE DEF shows
  <1>11. ASSUME NEW c \in 0 .. N
         PROVE  Lineage(c) = IF c = Main THEN a
                             ELSE {i \in Lineage(Parent(c)) : i <= Fork(c)}
                                  \cup {i \in 1 .. Len(items) : tag[i] = c}
    BY <1>9, <1>10
  <1> DEFINE T == {c \in 0 .. N : ~(Lineage(c) \subseteq 1 .. Len(items))}
  <1>12. T = {}
    <2> SUFFICES ASSUME T # {} PROVE FALSE
      OBVIOUS
    <2>1. T \in SUBSET Nat
      BY <1>1
    <2>2. PICK c \in T : \A d \in T : c <= d
      <3> HIDE DEF T
      <3> QED BY <2>1, Least
    <2> HIDE DEF a
    <2>3. c # Main
      BY <1>1, <1>11, <2>2
    <2>4. c \in 1 .. N /\ Parent(c) \in 0 .. c - 1
      BY <2>2, <2>3 DEF Main, Tree
    <2>5. Parent(c) \in 0 .. N /\ Parent(c) \notin T
      BY <1>1, <2>2, <2>4
    <2>6. Lineage(Parent(c)) \subseteq 1 .. Len(items)
      BY <2>5
    <2> QED
      BY <1>11, <2>2, <2>3, <2>6
  <1>13. \A c \in 0 .. N : Lineage(c) \subseteq 1 .. Len(items)
    BY <1>12
  <1> SUFFICES ASSUME NEW c \in 0 .. N, NEW i \in 1 .. Len(items)
               PROVE  /\ tag[i] = c => i \in Lineage(c)
                      /\ \A q \in 0 .. N : c # Main /\ q = Parent(c) =>
                            (i \in Lineage(c) <=> \/ tag[i] = c
                                                  \/ i <= Fork(c) /\ i \in Lineage(q))
                      /\ c = Main => (i \in Lineage(c) <=> tag[i] = Main)
    BY <1>13 DEF LineageLaw
  <1> HIDE DEF p, H, X, Shows, T
  <1>14. CASE c = Main
    BY <1>11, <1>14
  <1>15. CASE c # Main
    BY <1>11, <1>15
  <1> QED
    BY <1>14, <1>15

LEMMA LineageLawPrimed == TypeOK' /\ Tree' => LineageLaw'
  BY LineageLawHolds, PTL

\* Branches and items are only added.
Grows == /\ Len(branches) <= Len(branches')
         /\ \A c \in 1 .. Len(branches) : branches'[c] = branches[c]
         /\ Len(items) <= Len(items')

\* A step that leaves an item's tag alone leaves it in the branches it was in.
LEMMA LineageFrame ==
  ASSUME TypeOK, Tree, TypeOK', Tree', Grows,
         NEW i \in 1 .. Len(items), tag'[i] = tag[i],
         NEW b \in 0 .. Len(branches)
  PROVE  i \in Lineage(b)' <=> i \in Lineage(b)
  <1> DEFINE T == {c \in 0 .. Len(branches) : ~(i \in Lineage(c)' <=> i \in Lineage(c))}
  <1>1. Len(branches) \in Nat /\ Len(items) \in Nat
    BY DEF TypeOK
  <1>2. T = {}
    <2> SUFFICES ASSUME T # {} PROVE FALSE
      OBVIOUS
    <2>1. T \in SUBSET Nat
      BY <1>1
    <2>2. PICK c \in T : \A d \in T : c <= d
      <3> HIDE DEF T
      <3> QED BY <2>1, Least
    <2>3. c \in 0 .. Len(branches) /\ c \in 0 .. Len(branches')
      BY <1>1, <2>2 DEF Grows, TypeOK
    <2>4. i \in 1 .. Len(items')
      BY <1>1 DEF Grows, TypeOK
    <2>5. LineageLaw /\ LineageLaw'
      BY LineageLawHolds, LineageLawPrimed
    <2>6. CASE c = Main
      BY <2>2, <2>3, <2>4, <2>5, <2>6 DEF LineageLaw
    <2>7. CASE c # Main
      <3>1. c \in 1 .. Len(branches)
        BY <2>3, <2>7 DEF Main
      <3>2. PICK p \in 0 .. c - 1 : p = Parent(c)
        BY <3>1 DEF Tree
      <3>3. Parent(c)' = p /\ Fork(c)' = Fork(c)
        BY <3>1, <3>2 DEF Grows, Parent, Fork
      <3>4. p \in 0 .. Len(branches) /\ p \in 0 .. Len(branches') /\ p \notin T
        BY <1>1, <2>2, <2>3, <3>2
      <3>5. i \in Lineage(p)' <=> i \in Lineage(p)
        BY <3>4
      <3>6. i \in Lineage(c) <=> \/ tag[i] = c
                                 \/ i <= Fork(c) /\ i \in Lineage(p)
        BY <2>3, <2>5, <2>7, <3>2, <3>4 DEF LineageLaw
      <3>7. i \in Lineage(c)' <=> \/ tag'[i] = c
                                  \/ i <= Fork(c)' /\ i \in Lineage(p)'
        BY <2>3, <2>4, <2>5, <2>7, <3>3, <3>4 DEF LineageLaw
      <3> QED
        BY <2>2, <3>3, <3>5, <3>6, <3>7
    <2> QED
      BY <2>6, <2>7
  <1> QED
    BY <1>2

\* Prompts whose rows are still to be written.
Unwritten == {prompt[t] : t \in Turns} \ {NoItem}

\* Without overlap the current branch exists and turns name no other; a prompt
\* still to be written is newer than every fork point, belongs to the one turn
\* in progress (or to the last one), and its row carries the current branch.
Steady ==
    /\ stored.cur \in {NoBranch} \cup 0 .. Len(branches)
    /\ \A t \in Turns : ctx[t] = NoBranch
    /\ \A t \in Turns : prompt[t] # NoItem =>
         /\ \A c \in 1 .. Len(branches) : Fork(c) < prompt[t]
         /\ \A u \in Turns : InProgress(u) \/ prompt[u] # NoItem => u = t
         /\ pc[t] \notin {"idle", "loaded", "running", "ending"}
         /\ prompt[t] \in rows => tag[prompt[t]] = Current(stored)

\* The invariant about the tree and the turns that write to it.
TreeInv == SerialInv /\ Tree /\ Steady

LEMMA TreeInit == Init => TreeInv
  BY SerialInit DEF Init, TreeInv, Tree, Steady, NewThread, ItemId, Main

\* The current branch is one of the tree, and a turn's rows go there.
LEMMA SteadyFacts ==
  ASSUME TreeInv
  PROVE  /\ Current(stored) \in 0 .. Len(branches)
         /\ \A t \in Turns : RowBranch(t) = Current(stored)
  <1>1. Len(branches) \in Nat
    BY DEF TreeInv, SerialInv, TypeInv, TypeOK
  <1>2. Current(stored) \in 0 .. Len(branches)
    BY <1>1 DEF TreeInv, Steady, Current, Main
  <1> QED
    BY <1>2 DEF TreeInv, Steady, RowBranch

\* While the thread is quiet, and while a turn is loaded or runs, no prompt is
\* waiting to be written.
LEMMA NoneUnwritten ==
  ASSUME TreeInv,
         Quiet \/ \E t \in Turns : pc[t] \in {"loaded", "running", "ending"}
  PROVE  (\A t \in Turns : prompt[t] = NoItem) /\ Unwritten = {}
  <1>1. \A t \in Turns : prompt[t] = NoItem
    <2>1. CASE Quiet
      BY <2>1 DEF Quiet
    <2>2. ASSUME NEW t \in Turns, pc[t] \in {"loaded", "running", "ending"}
          PROVE  \A u \in Turns : prompt[u] = NoItem
      <3>1. InProgress(t)
        BY <2>2 DEF InProgress
      <3> QED
        BY <2>2, <3>1 DEF TreeInv, Steady
    <2> QED
      BY <2>1, <2>2
  <1> QED
    BY <1>1 DEF Unwritten

\* Which variables a turn's step leaves alone.
LEMMA TurnEffects ==
  ASSUME TypeInv, NEW t \in Turns, Turn(t)
  PROVE  /\ branches' = branches
         /\ \A u \in Turns : u # t => /\ pc'[u] = pc[u] /\ prompt'[u] = prompt[u]
                                      /\ meta'[u] = meta[u] /\ message'[u] = message[u]
                                      /\ pending'[u] = pending[u]
         /\ ~TurnLoad(t) => ctx' = ctx
         /\ \/ TurnAsk(t) \/ TurnPause(t) \/ PromptStored(t)
            \/ UNCHANGED <<items, tag, prompt>> /\ rows' \subseteq rows
  BY DEF TypeInv, TypeOK, Turn, TurnLoad, TurnAsk, TurnRetry, TurnStep, TurnPause,
         TurnPauseSaved, TurnWait, TurnClear, TurnEnd, TurnStop, PromptStored,
         Save, LastSave, Drop, tableVars

\* A new row is tagged with the current branch, which it may: every fork point
\* is older.
LEMMA TreeRetag ==
  ASSUME TreeInv, NEW n \in ItemId, branches' = branches, Len(items) <= Len(items'),
         Len(items') \in Nat, tag' = [tag EXCEPT ![n] = Current(stored)],
         \A c \in 1 .. Len(branches) : Fork(c) < n
  PROVE  Tree' /\ Grows
  <1> USE DEF TreeInv, SerialInv, TypeInv
  <1>1. Len(branches') = Len(branches) /\ Len(branches) \in Nat /\ Len(items) \in Nat
    BY DEF TypeOK
  <1>2. \A c \in 1 .. Len(branches) : Fork(c)' = Fork(c) /\ Parent(c)' = Parent(c)
    BY <1>1 DEF Fork, Parent
  <1>3. Current(stored) \in 0 .. Len(branches)
    BY SteadyFacts
  <1>4. \A c \in 1 .. Len(branches) : Fork(c) \in 1 .. Len(items) /\ Fork(c) \in ItemId
    BY DEF Tree, TypeOK, ItemId
  <1>5. \A c \in 1 .. Len(branches) : tag'[Fork(c)] = tag[Fork(c)]
    BY <1>4 DEF TypeOK
  <1>6. Grows
    BY <1>1 DEF Grows
  <1>7. \A c \in 1 .. Len(branches') : /\ Parent(c)' \in 0 .. c - 1
                                       /\ Fork(c)' \in 1 .. Len(items')
                                       /\ tag'[Fork(c)'] = Parent(c)'
    BY <1>1, <1>2, <1>4, <1>5 DEF Tree
  <1>8. \A i \in ItemId : tag'[i] = IF i = n THEN Current(stored) ELSE tag[i]
    BY DEF TypeOK
  <1>9. \A i \in ItemId :
           /\ tag'[i] \in 0 .. Len(branches')
           /\ \A c \in 1 .. Len(branches') : tag'[i] = c => Fork(c)' < i
    BY <1>1, <1>2, <1>3, <1>8 DEF Tree
  <1> QED
    BY <1>6, <1>7, <1>9 DEF Tree

\* The items a turn adds, and a prompt that gets the tag of its row, are newer
\* than every fork point of their branch.
LEMMA TreeTurn ==
  ASSUME TreeInv, NEW t \in Turns, Turn(t)
  PROVE  Tree' /\ Grows
  <1> USE DEF TreeInv, SerialInv, TypeInv
  <1>1. branches' = branches /\ Len(branches) \in Nat /\ Len(items) \in Nat
    BY TurnEffects DEF TypeOK
  <1>2. \A c \in 1 .. Len(branches) : Fork(c) \in 1 .. Len(items)
    BY DEF Tree
  <1>3. CASE UNCHANGED <<items, tag>>
    <2>1. Grows
      BY <1>1, <1>3 DEF Grows
    <2>2. Tree'
      BY <1>1, <1>3 DEF Tree, Fork, Parent
    <2> QED
      BY <2>1, <2>2
  <1>4. CASE TurnAsk(t)
    <2> DEFINE n == Len(items) + 1
    <2>1. Len(items') = n /\ n \in ItemId
      BY <1>4 DEF TurnAsk, TypeOK, ItemId
    <2>2. tag' = [tag EXCEPT ![n] = Current(stored)]
      BY <1>4, SteadyFacts DEF TurnAsk
    <2>3. \A c \in 1 .. Len(branches) : Fork(c) < n
      BY <1>1, <1>2
    <2>4. Len(items') \in Nat /\ Len(items) <= Len(items')
      BY <1>1, <2>1
    <2> HIDE DEF n, TreeInv
    <2> QED
      BY <1>1, <2>1, <2>2, <2>3, <2>4, TreeRetag
  <1>5. CASE TurnPause(t)
    <2>1. Len(items') = Len(items) + 1 /\ tag' = tag
      BY <1>5 DEF TurnPause, TypeOK
    <2> QED
      BY <1>1, <2>1 DEF Tree, Grows, Fork, Parent
  <1>6. CASE PromptStored(t)
    <2> DEFINE n == prompt[t]
    <2>1. items' = items /\ n \in 1 .. Len(items) /\ n \in ItemId /\ n # NoItem
      BY <1>6 DEF PromptStored, TypeOK, ItemId, Written
    <2>2. tag' = [tag EXCEPT ![n] = Current(stored)]
      BY <1>6, SteadyFacts DEF PromptStored
    <2>3. \A c \in 1 .. Len(branches) : Fork(c) < n
      BY <2>1 DEF Steady
    <2>4. Len(items') \in Nat /\ Len(items) <= Len(items')
      BY <1>1, <2>1
    <2> HIDE DEF n, TreeInv
    <2> QED
      BY <1>1, <2>1, <2>2, <2>3, <2>4, TreeRetag
  <1> QED
    BY TurnEffects, <1>3, <1>4, <1>5, <1>6

\* The one turn in progress writes the rows of its prompts to the branch it
\* started in.
LEMMA SteadyTurn ==
  ASSUME TreeInv, NEW t \in Turns, Turn(t), ~MayOverlap
  PROVE  Steady'
  <1> USE DEF TreeInv, SerialInv, TypeInv
  <1>1. stored'.cur = stored.cur /\ branches' = branches
    BY SerialTurn, TurnEffects
  <1>2. Current(stored)' = Current(stored)
    BY <1>1 DEF Current
  <1>3. \A u \in Turns : ctx'[u] = NoBranch
    BY TurnEffects DEF Steady, TurnLoad, TypeOK
  <1>4. ASSUME NEW u \in Turns, prompt'[u] # NoItem
        PROVE  /\ \A c \in 1 .. Len(branches') : Fork(c)' < prompt'[u]
               /\ \A v \in Turns : InProgress(v)' \/ prompt'[v] # NoItem => v = u
               /\ pc'[u] \notin {"idle", "loaded", "running", "ending"}
               /\ prompt'[u] \in rows' => tag'[prompt'[u]] = Current(stored)'
    <2>1. \A v \in Turns : v # t => (InProgress(v)' <=> InProgress(v)) /\ prompt'[v] = prompt[v]
      BY TurnEffects DEF InProgress
    <2>2. \A c \in 1 .. Len(branches) : Fork(c)' = Fork(c)
      BY <1>1 DEF Fork
    <2>3. CASE TurnPause(t)
      <3>1. InProgress(t) /\ \A v \in Turns : prompt[v] = NoItem
        BY <2>3, NoneUnwritten DEF TurnPause, InProgress
      <3>2. u = t /\ prompt'[t] = Len(items) + 1 /\ pc'[t] = "pausing"
        BY <1>4, <2>1, <2>3, <3>1 DEF TurnPause, TypeOK
      <3>3. \A v \in Turns : InProgress(v)' \/ prompt'[v] # NoItem => v = t
        BY <2>1, <3>1 DEF Alone
      <3>4. rows' = rows /\ Len(items) + 1 \notin rows
        BY <2>3 DEF TurnPause, TypeOK
      <3>5. \A c \in 1 .. Len(branches') : Fork(c)' < Len(items) + 1
        BY <1>1, <2>2 DEF Tree, TypeOK
      <3> QED
        BY <3>2, <3>3, <3>4, <3>5
    <2>4. CASE PromptStored(t)
      <3>1. prompt[t] # NoItem /\ prompt[t] \in ItemId /\ pc' = pc
        BY <2>4 DEF PromptStored, TypeOK
      <3>2. prompt'[t] # NoItem => prompt' = prompt
        BY <2>4 DEF PromptStored, TypeOK
      <3>3. u = t /\ prompt' = prompt
        BY <1>4, <2>1, <3>1, <3>2 DEF Steady
      <3>4. \A v \in Turns : InProgress(v)' <=> InProgress(v)
        BY <3>1 DEF InProgress
      <3>5. tag'[prompt[t]] = Current(stored)
        BY <2>4, <3>1, SteadyFacts DEF PromptStored, TypeOK
      <3> QED
        BY <1>1, <1>2, <2>2, <3>1, <3>3, <3>4, <3>5 DEF Steady
    <2>5. CASE TurnAsk(t)
      <3>1. \A v \in Turns : prompt[v] = NoItem
        BY <2>5, NoneUnwritten DEF TurnAsk
      <3> QED
        BY <1>4, <2>5, <3>1 DEF TurnAsk
    <2>6. CASE /\ UNCHANGED <<items, tag, prompt>> /\ rows' \subseteq rows
               /\ ~PromptStored(t)
      <3>1. prompt[u] # NoItem
        BY <1>4, <2>6
      <3>2. ~TurnLoad(t) /\ ~TurnRetry(t)
        BY <3>1, NoneUnwritten DEF TurnLoad, TurnRetry
      <3>3. InProgress(t)
        BY <2>6, <3>2, NoneUnwritten, <3>1
           DEF Turn, TurnAsk, TurnStep, TurnPause, TurnPauseSaved, TurnWait, TurnClear,
               TurnEnd, TurnStop, PromptStored, InProgress
      <3>4. u = t
        BY <3>1, <3>3 DEF Steady
      <3>5. pc'[t] \notin {"idle", "loaded", "running", "ending"}
        <4>1. pc[t] \notin {"idle", "loaded", "running", "ending"}
          BY <3>1, <3>4 DEF Steady
        <4> QED
          BY <3>2, <4>1
             DEF Turn, TurnAsk, TurnStep, TurnPause, TurnPauseSaved, TurnWait, TurnClear,
                 TurnEnd, TurnStop, PromptStored, TypeOK
      <3>6. \A v \in Turns : InProgress(v)' \/ prompt'[v] # NoItem => v = t
        BY <2>1, <2>6, <3>3 DEF Alone, Steady
      <3> QED
        BY <1>1, <1>2, <2>2, <2>6, <3>1, <3>4, <3>5, <3>6 DEF Steady
    <2> QED
      BY <2>3, <2>4, <2>5, <2>6, TurnEffects
  <1>5. stored'.cur \in {NoBranch} \cup 0 .. Len(branches')
    BY <1>1 DEF Steady
  <1> QED
    BY <1>3, <1>4, <1>5 DEF Steady

\* Switching changes no branch.
LEMMA TreeSwitch ==
  ASSUME TreeInv, NEW b \in Branch, SwitchBranch(b), ~MayOverlap
  PROVE  Tree' /\ Steady' /\ Grows
  <1> USE DEF TreeInv, SerialInv, TypeInv
  <1>1. /\ b \in 0 .. Len(branches) /\ UNCHANGED <<branches, items, tag, rows>>
        /\ Quiet /\ ctx' = ctx /\ prompt' = prompt
        /\ stored' = [Migrate(stored) EXCEPT !.cur = b]
    BY DEF SwitchBranch, turnVars
  <1>2. stored'.cur = b
    BY <1>1, MigrateType DEF TypeOK, Metadata
  <1>3. \A t \in Turns : prompt'[t] = NoItem
    BY <1>1 DEF Quiet
  <1>4. Tree'
    BY <1>1 DEF Tree, Fork, Parent
  <1>5. Steady'
    BY <1>1, <1>2, <1>3 DEF Steady
  <1> QED
    BY <1>1, <1>4, <1>5 DEF Grows, TypeOK

\* What create_branch does to the tree and to the metadata.
LEMMA CreateEffects ==
  ASSUME TreeInv, NEW f \in ItemId, NEW e \in ItemId, CreateBranch(f, e), ~MayOverlap
  PROVE  LET new == Len(branches) + 1
             w   == Restorable(Migrate(stored), tag[f], f)
         IN  /\ Quiet /\ UNCHANGED <<items, tag, rows, turnVars>>
             /\ f < e /\ f \in rows /\ e \in rows /\ items[e].role = "user"
             /\ f \in View(Current(stored)) /\ e \in View(Current(stored))
             /\ new \in Branch /\ branches' \in Seq([parent : Branch, fork : ItemId])
             /\ Len(branches') = new
             /\ \A c \in 1 .. Len(branches) : branches'[c] = branches[c]
             /\ branches'[new] = [parent |-> tag[f], fork |-> f]
             /\ stored'.cur = new
             /\ \A b \in Branch : stored'.by[b] =
                   IF b # new THEN Migrate(stored).by[b]
                   ELSE IF w = NoWait THEN NoWait ELSE [w EXCEPT !.input = e]
             /\ stored'.index = Migrate(stored).index
  <1> DEFINE new == Len(branches) + 1
             w   == Restorable(Migrate(stored), tag[f], f)
             v   == IF w = NoWait THEN NoWait ELSE [w EXCEPT !.input = e]
  <1> USE DEF TreeInv, SerialInv, TypeInv
  <1>1. /\ Quiet /\ UNCHANGED <<items, tag, rows, turnVars>>
        /\ Len(branches) < MaxBranches
        /\ f < e /\ f \in rows /\ e \in rows /\ items[e].role = "user"
        /\ f \in View(Current(stored)) /\ e \in View(Current(stored))
        /\ branches' = Append(branches, [parent |-> tag[f], fork |-> f])
        /\ stored' = [Migrate(stored) EXCEPT !.cur = new, !.by[new] = v]
    BY DEF CreateBranch, ParentOfFork
  <1>2. new \in Branch
    BY <1>1 DEF TypeOK, Branch
  <1>3. /\ branches' \in Seq([parent : Branch, fork : ItemId])
        /\ Len(branches') = new
        /\ \A c \in 1 .. Len(branches) : branches'[c] = branches[c]
        /\ branches'[new] = [parent |-> tag[f], fork |-> f]
    BY <1>1 DEF TypeOK
  <1>4. Migrate(stored) \in Metadata
    BY MigrateType DEF TypeOK
  <1> HIDE DEF new, v, w, TreeInv
  <1>5. /\ stored'.cur = new /\ stored'.index = Migrate(stored).index
        /\ \A b \in Branch : stored'.by[b] = IF b # new THEN Migrate(stored).by[b] ELSE v
    BY <1>1, <1>2, <1>4 DEF Metadata
  <1> QED
    BY <1>1, <1>2, <1>3, <1>5 DEF new, v, w

\* A new branch hangs below a branch that shows its fork point; no prompt is
\* on its way, and all later items are newer than the fork point.
LEMMA TreeCreate ==
  ASSUME TreeInv, NEW f \in ItemId, NEW e \in ItemId, CreateBranch(f, e), ~MayOverlap
  PROVE  Tree' /\ Steady' /\ Grows
  <1> DEFINE new == Len(branches) + 1
  <1> USE DEF TreeInv, SerialInv, TypeInv
  <1>1. /\ Quiet /\ UNCHANGED <<items, tag, rows, turnVars>> /\ f \in rows
        /\ Len(branches') = new /\ stored'.cur = new
        /\ \A c \in 1 .. Len(branches) : branches'[c] = branches[c]
        /\ branches'[new] = [parent |-> tag[f], fork |-> f]
    BY CreateEffects
  <1>2. Len(branches) \in Nat /\ f \in 1 .. Len(items) /\ Len(items) \in Nat
    BY <1>1 DEF TypeOK
  <1>3. Grows
    BY <1>1, <1>2 DEF Grows
  <1>4. \A c \in 1 .. Len(branches) : Fork(c)' = Fork(c) /\ Parent(c)' = Parent(c)
    BY <1>1 DEF Fork, Parent
  <1>5. tag[f] \in 0 .. Len(branches)
    BY DEF Tree
  <1>6. ASSUME NEW c \in 1 .. Len(branches')
        PROVE  /\ Parent(c)' \in 0 .. c - 1
               /\ Fork(c)' \in 1 .. Len(items')
               /\ tag'[Fork(c)'] = Parent(c)'
    <2>1. CASE c \in 1 .. Len(branches)
      BY <1>1, <1>4, <2>1 DEF Tree
    <2>2. CASE c = new
      <3>1. Fork(c)' = f /\ Parent(c)' = tag[f]
        BY <1>1, <2>2 DEF Fork, Parent
      <3> QED
        BY <1>1, <1>2, <1>5, <2>2, <3>1
    <2> QED
      BY <1>1, <1>2, <2>1, <2>2
  <1>7. ASSUME NEW i \in ItemId
        PROVE  /\ tag'[i] \in 0 .. Len(branches')
               /\ \A c \in 1 .. Len(branches') : tag'[i] = c => Fork(c)' < i
    <2>1. tag'[i] = tag[i] /\ tag[i] \in 0 .. Len(branches)
      BY <1>1 DEF Tree
    <2> QED
      BY <1>1, <1>2, <1>4, <2>1 DEF Tree
  <1>8. Tree'
    BY <1>6, <1>7 DEF Tree
  <1>9. \A t \in Turns : prompt'[t] = NoItem
    BY <1>1 DEF Quiet, turnVars
  <1>10. Steady'
    <2>1. stored'.cur \in 0 .. Len(branches')
      BY <1>1, <1>2
    <2>2. ctx' = ctx
      BY <1>1 DEF turnVars
    <2> QED
      BY <1>9, <2>1, <2>2 DEF Steady
  <1> QED
    BY <1>3, <1>8, <1>10

\* TreeInv is inductive as long as operations do not overlap.
LEMMA TreeNext ==
  ASSUME TreeInv, [Next]_vars, ~MayOverlap
  PROVE  TreeInv' /\ Grows
  <1>1. SerialInv'
    BY SerialNext DEF TreeInv
  <1>2. CASE \E t \in Turns : Turn(t)
    BY <1>1, <1>2, TreeTurn, SteadyTurn DEF TreeInv
  <1>3. CASE \E b \in Branch : SwitchBranch(b)
    BY <1>1, <1>3, TreeSwitch DEF TreeInv
  <1>4. CASE \E f, e \in ItemId : CreateBranch(f, e)
    BY <1>1, <1>4, TreeCreate DEF TreeInv
  <1>5. CASE UNCHANGED vars
    <2>1. Tree' /\ Steady'
      BY <1>5 DEF vars, tableVars, turnVars, TreeInv, Tree, Steady, Fork, Parent,
                  InProgress, Current
    <2>2. Grows
      BY <1>5 DEF vars, tableVars, Grows, TreeInv, SerialInv, TypeInv, TypeOK
    <2> QED
      BY <1>1, <2>1, <2>2 DEF TreeInv
  <1> QED
    BY <1>2, <1>3, <1>4, <1>5 DEF Next

-----------------------------------------------------------------------------
(* Wait states stay where their prompts are                                *)

\* The prompt of a wait state is shown by the branch the wait state is kept
\* for; while its row is still to be written, that is the current branch.
Placed(w, b) == IF w.anchor \in Unwritten THEN b = Current(stored)
                ELSE w.anchor \in Lineage(b)

\* So are the wait states in the database, those in the copies that may be saved
\* there, and the one a turn resumed from.
WaitsPlaced ==
    /\ \A b \in 0 .. Len(branches), w \in WaitState : stored.by[b] = w => Placed(w, b)
    /\ \A t \in Turns : InProgress(t) =>
          \A b \in 0 .. Len(branches), w \in WaitState : meta[t].by[b] = w => Placed(w, b)
    /\ \A t \in Turns : pc[t] \in {"running", "pausing", "paused"} =>
          \A b \in 0 .. Len(branches), w \in WaitState :
             b = Current(stored) /\ pending[t] = w
             => w.anchor \notin Unwritten /\ w.anchor \in Lineage(b)

\* The invariant about where wait states are kept.
WaitInv == TreeInv /\ WaitsPlaced

LEMMA WaitInit == Init => WaitInv
  <1> SUFFICES ASSUME Init PROVE WaitInv
    OBVIOUS
  <1>1. NoWait \notin WaitState
    BY BranchFacts DEF NoWait, WaitState
  <1>2. \A b \in 0 .. Len(branches) : stored.by[b] = NoWait
    BY DEF Init, NewThread, Branch
  <1> QED
    BY <1>1, <1>2, TreeInit DEF Init, WaitInv, WaitsPlaced, InProgress

\* In step, the global wait state never decides: the current branch's entry is
\* read, and the migration changes nothing but the global one.
LEMMA InStepFacts ==
  ASSUME NEW m \in Metadata, InStep(m)
  PROVE  /\ GetWait(m) = m.by[Current(m)]
         /\ Migrate(m).by = m.by /\ Migrate(m).index = m.index
  <1>1. Current(m) \in Branch
    BY CurrentType
  <1>2. m.by \in [Branch -> WaitState \cup {NoWait}]
    BY DEF Metadata
  <1>3. CASE m.legacy = NoWait
    <2>1. Migrate(m) = m
      BY <1>3 DEF Migrate
    <2>2. ~HasMap(m) => m.by[Current(m)] = NoWait
      BY <1>1 DEF HasMap
    <2> QED
      BY <1>3, <2>1, <2>2 DEF GetWait
  <1>4. CASE m.legacy # NoWait
    <2>1. m.by[Current(m)] = m.legacy
      BY <1>4 DEF InStep
    <2>2. HasMap(m)
      BY <1>1, <1>4, <2>1 DEF HasMap
    <2>3. Migrate(m) = [m EXCEPT !.by[Current(m)] = m.legacy, !.legacy = NoWait]
      BY <1>4 DEF Migrate
    <2>4. /\ Migrate(m).by = [m.by EXCEPT ![Current(m)] = m.legacy]
          /\ Migrate(m).index = m.index
      BY <2>3 DEF Metadata
    <2>5. [m.by EXCEPT ![Current(m)] = m.legacy] = m.by
      BY <1>1, <1>2, <2>1
    <2> QED
      BY <2>2, <2>4, <2>5 DEF GetWait
  <1> QED
    BY <1>3, <1>4

\* create_branch restores a wait state at the fork point or none, and finds an
\* indexed one.
LEMMA RestorableAnchor ==
  ASSUME NEW m \in Metadata, NEW b \in Branch, NEW f \in ItemId
  PROVE  /\ Restorable(m, b, f) # NoWait => Restorable(m, b, f).anchor = f
         /\ (\E w \in m.index[b] : w.anchor = f) => Restorable(m, b, f).anchor = f
  <1> DEFINE indexed  == {w \in m.index[b] : w.anchor = f}
             siblings == {c \in 1 .. Len(branches) :
                             /\ Parent(c) = b /\ Fork(c) = f
                             /\ m.by[c].anchor = f}
             newest   == {c \in siblings : \A d \in siblings : d <= c}
             found    == IF indexed # {} THEN indexed ELSE {m.by[c] : c \in newest}
  <1>1. \A w \in found : w.anchor = f
    OBVIOUS
  <1>2. indexed # {} => found # {}
    OBVIOUS
  <1>3. Restorable(m, b, f) = IF found = {} THEN NoWait ELSE CHOOSE w \in found : TRUE
    BY DEF Restorable
  <1> HIDE DEF found
  <1>4. found # {} => (CHOOSE w \in found : TRUE) \in found
    OBVIOUS
  <1>5. found # {} => Restorable(m, b, f).anchor = f
    BY <1>1, <1>3, <1>4
  <1>6. Restorable(m, b, f) # NoWait => found # {}
    BY <1>3
  <1> QED
    BY <1>2, <1>5, <1>6

\* An item of a branch stays there unless its tag changes.
LEMMA LineageKept ==
  ASSUME TypeOK, Tree, TypeOK', Tree', Grows,
         NEW b \in 0 .. Len(branches), NEW i \in Lineage(b), tag'[i] = tag[i]
  PROVE  /\ i \in 1 .. Len(items) /\ i \in ItemId
         /\ i \in Lineage(b)'
  <1>1. i \in 1 .. Len(items)
    BY LineageLawHolds DEF LineageLaw
  <1>2. i \in Lineage(b)'
    BY <1>1, LineageFrame
  <1> QED
    BY <1>1, <1>2 DEF TypeOK, ItemId

\* A branch shows what is tagged with it.
LEMMA LineageOwn ==
  ASSUME TypeOK', Tree', NEW i \in 1 .. Len(items'),
         NEW b \in 0 .. Len(branches'), tag'[i] = b
  PROVE  i \in Lineage(b)'
  BY LineageLawPrimed DEF LineageLaw

\* A turn's step leaves a wait state with the branch it is placed in.
LEMMA PlacedTurn ==
  ASSUME TreeInv, NEW t \in Turns, Turn(t), ~MayOverlap,
         NEW b \in 0 .. Len(branches), NEW w \in WaitState, Placed(w, b)
  PROVE  Placed(w, b)'
  <1> USE DEF TreeInv, SerialInv, TypeInv
  <1>1. TreeInv' /\ Grows
    BY TreeNext DEF Next
  <1>2. Current(stored)' = Current(stored) /\ branches' = branches
    BY SerialTurn, TurnEffects DEF Current
  <1>3. TypeOK /\ TypeOK' /\ Tree /\ Tree'
    BY <1>1
  <1>4. ASSUME Unwritten' = Unwritten,
               w.anchor \in Lineage(b) => tag'[w.anchor] = tag[w.anchor]
        PROVE  Placed(w, b)'
    <2> HIDE DEF TreeInv, SerialInv, TypeInv
    <2>1. CASE w.anchor \in Unwritten
      BY <1>2, <1>4, <2>1 DEF Placed
    <2>2. CASE w.anchor \notin Unwritten
      <3>1. w.anchor \in Lineage(b)
        BY <2>2 DEF Placed
      <3>2. PICK i \in Lineage(b) : i = w.anchor
        BY <3>1
      <3>3. i \in Lineage(b)'
        BY <1>1, <1>3, <1>4, <3>1, <3>2, LineageKept
      <3> QED
        BY <1>4, <2>2, <3>2, <3>3 DEF Placed
    <2> QED
      BY <2>1, <2>2
  <1>5. CASE UNCHANGED <<items, tag, prompt>>
    BY <1>4, <1>5 DEF Unwritten
  <1>6. CASE TurnAsk(t)
    <2>1. Unwritten' = Unwritten
      BY <1>6 DEF TurnAsk, Unwritten
    <2>2. w.anchor \in Lineage(b) => w.anchor \in 1 .. Len(items)
      BY <1>3, LineageLawHolds DEF LineageLaw
    <2>3. w.anchor \in Lineage(b) => tag'[w.anchor] = tag[w.anchor]
      BY <1>6, <2>2 DEF TurnAsk, TypeOK
    <2> QED
      BY <1>4, <2>1, <2>3
  <1>7. CASE TurnPause(t)
    <2>1. Unwritten = {} /\ (\A u \in Turns : prompt[u] = NoItem) /\ tag' = tag
      BY <1>7, NoneUnwritten DEF TurnPause
    <2>2. Unwritten' \subseteq {Len(items) + 1}
      BY <1>7, <2>1 DEF TurnPause, Unwritten, TypeOK
    <2>3. w.anchor \in Lineage(b)
      BY <2>1 DEF Placed
    <2>4. PICK i \in Lineage(b) : i = w.anchor
      BY <2>3
    <2>5. i \in 1 .. Len(items) /\ i \in Lineage(b)'
      BY <1>1, <1>3, <2>1, LineageKept
    <2>6. i \notin Unwritten'
      BY <1>3, <2>2, <2>5 DEF TypeOK
    <2> QED
      BY <2>4, <2>5, <2>6 DEF Placed
  <1>8. CASE PromptStored(t)
    <2>1. /\ prompt[t] # NoItem /\ prompt[t] \in 1 .. Len(items) /\ prompt[t] \in ItemId
          /\ items' = items
          /\ tag' = [tag EXCEPT ![prompt[t]] = Current(stored)]
      BY <1>8, SteadyFacts DEF PromptStored, Written, TypeOK
    <2>2. Unwritten = {prompt[t]}
      BY <2>1 DEF Unwritten, Steady
    <2>3. Unwritten' = Unwritten \/ Unwritten' = {}
      BY <1>8, <2>1, <2>2 DEF PromptStored, Unwritten, Steady, TypeOK
    <2>4. CASE w.anchor = prompt[t]
      <3>1. b = Current(stored)
        BY <2>2, <2>4 DEF Placed
      <3>2. PICK i \in 1 .. Len(items') : i = prompt[t]
        BY <2>1
      <3>3. tag'[i] = b /\ b \in 0 .. Len(branches')
        BY <1>2, <2>1, <3>1, <3>2 DEF TypeOK
      <3>4. i \in Lineage(b)'
        BY <1>3, <3>3, LineageOwn
      <3> QED
        BY <1>2, <2>4, <3>1, <3>2, <3>4 DEF Placed
    <2>5. CASE w.anchor # prompt[t]
      <3>1. w.anchor \in Lineage(b) /\ w.anchor \notin Unwritten'
        BY <2>2, <2>3, <2>5 DEF Placed
      <3>2. PICK i \in Lineage(b) : i = w.anchor
        BY <3>1
      <3>3. tag'[i] = tag[i]
        BY <2>1, <2>5, <3>2 DEF TypeOK
      <3>4. i \in Lineage(b)'
        BY <1>1, <1>3, <3>3, LineageKept
      <3> QED
        BY <3>1, <3>2, <3>4 DEF Placed
    <2> QED
      BY <2>4, <2>5
  <1> QED
    BY <1>5, <1>6, <1>7, <1>8, TurnEffects

\* A turn's copy of the metadata is the stored one when it starts, and then
\* changes only in the current branch's entry; every save stores the copy.
LEMMA MetaTurn ==
  ASSUME SerialInv, NEW t \in Turns, Turn(t), ~MayOverlap
  PROVE  /\ \/ stored' = stored
            \/ InProgress(t) /\ stored' = meta[t]
         /\ InProgress(t)' =>
               \/ Quiet /\ meta'[t] = stored
               \/ InProgress(t) /\ meta'[t] = meta[t]
               \/ TurnClear(t) /\ meta'[t] = ClearWait(meta[t])
               \/ /\ TurnPause(t)
                  /\ meta'[t] = SetWait(meta[t], [anchor |-> Len(items) + 1,
                                                  input |-> message[t]])
  <1> USE DEF SerialInv, TypeInv
  <1>1. InProgress(t) => Saved(meta[t]) = meta[t]
    BY SavedType DEF Together, TypeOK
  <1>2. CASE TurnLoad(t) \/ TurnRetry(t)
    BY <1>2 DEF TurnLoad, TurnRetry, TypeOK, tableVars
  <1>3. CASE TurnStep(t) \/ TurnPauseSaved(t)
    <2>1. InProgress(t) /\ Save(t)
      BY <1>3 DEF TurnStep, TurnPauseSaved, InProgress
    <2>2. meta' = meta /\ (stored' = stored \/ stored' = meta[t])
      BY <1>1, <2>1, SerialSave DEF Save
    <2> QED
      BY <2>1, <2>2
  <1>4. CASE TurnWait(t) \/ TurnEnd(t)
    <2>1. InProgress(t) /\ LastSave(t) /\ ~InProgress(t)'
      BY <1>4 DEF TurnWait, TurnEnd, InProgress, TypeOK
    <2>2. stored' = stored \/ stored' = meta[t]
      BY <1>1, <2>1 DEF LastSave
    <2> QED
      BY <2>1, <2>2
  <1>5. CASE TurnAsk(t) \/ TurnStop(t) \/ PromptStored(t)
    BY <1>5 DEF TurnAsk, TurnStop, PromptStored, InProgress, TypeOK, tableVars
  <1>6. CASE TurnPause(t)
    BY <1>6 DEF TurnPause, InProgress, TypeOK
  <1>7. CASE TurnClear(t)
    BY <1>7 DEF TurnClear, InProgress, TypeOK, tableVars
  <1> QED
    BY <1>2, <1>3, <1>4, <1>5, <1>6, <1>7 DEF Turn

\* The wait state a turn resumes from is placed in the current branch.
LEMMA PendingTurn ==
  ASSUME WaitInv, NEW t \in Turns, Turn(t), ~MayOverlap,
         NEW u \in Turns, pc'[u] \in {"running", "pausing", "paused"},
         NEW b \in 0 .. Len(branches), b = Current(stored), NEW w \in WaitState,
         pending'[u] = w
  PROVE  w.anchor \notin Unwritten' /\ w.anchor \in Lineage(b)'
  <1> USE DEF WaitInv, TreeInv, SerialInv, TypeInv
  <1>1. pc \in [Turns -> TurnState] /\ pending \in [Turns -> WaitState \cup {NoWait}]
    BY DEF TypeOK
  <1>2. w.anchor \notin Unwritten /\ w.anchor \in Lineage(b)
    <2>1. CASE u = t /\ TurnAsk(t)
      <3>1. pending'[t] = GetWait(meta[t]) /\ InProgress(t) /\ Unwritten = {}
        BY <1>1, <2>1, NoneUnwritten DEF TurnAsk, InProgress
      <3>2. meta[t] \in Metadata /\ InStep(meta[t]) /\ Current(meta[t]) = b
        BY <3>1 DEF Together, TypeOK, Current
      <3>3. w = meta[t].by[b]
        BY <2>1, <3>1, <3>2, InStepFacts
      <3> QED
        BY <3>1, <3>3 DEF WaitsPlaced, Placed
    <2>2. CASE u = t /\ TurnRetry(t)
      <3>1. pending'[t] = GetWait(stored) /\ Unwritten = {}
        BY <1>1, <2>2, NoneUnwritten DEF TurnRetry
      <3>2. w = stored.by[b]
        BY <2>2, <3>1, InStepFacts DEF LegacyInStep, TypeOK
      <3> QED
        BY <3>1, <3>2 DEF WaitsPlaced, Placed
    <2>3. CASE ~(u = t /\ (TurnAsk(t) \/ TurnRetry(t)))
      <3>1. pc[u] \in {"running", "pausing", "paused"} /\ pending'[u] = pending[u]
        BY <1>1, <2>3, TurnEffects
           DEF Turn, TurnLoad, TurnStep, TurnPause, TurnPauseSaved, TurnWait,
               TurnClear, TurnEnd, TurnStop, PromptStored, tableVars
      <3> QED
        BY <3>1 DEF WaitsPlaced
    <2> QED
      BY <2>1, <2>2, <2>3
  <1>3. Placed(w, b)'
    <2> HIDE DEF WaitInv, TreeInv, SerialInv, TypeInv
    <2> QED BY <1>2, PlacedTurn DEF Placed, WaitInv
  <1>4. w.anchor \notin Unwritten'
    <2>1. w.anchor \in ItemId /\ w.anchor \in 1 .. Len(items)
      BY <1>2, LineageLawHolds DEF LineageLaw, TypeOK, ItemId
    <2>2. Unwritten' \subseteq Unwritten \cup {Len(items) + 1}
      <3>1. CASE TurnPause(t)
        BY <3>1 DEF TurnPause, Unwritten, TypeOK
      <3>2. CASE ~TurnPause(t)
        <4>1. \A v \in Turns : prompt'[v] = prompt[v] \/ prompt'[v] = NoItem
          BY <3>2, TurnEffects DEF TurnAsk, PromptStored, TypeOK
        <4> QED
          BY <4>1 DEF Unwritten
      <3> QED
        BY <3>1, <3>2
    <2>3. w.anchor # Len(items) + 1
      BY <2>1 DEF TypeOK
    <2> QED
      BY <1>2, <2>2, <2>3
  <1> QED
    BY <1>3, <1>4 DEF Placed

\* A turn stores, clears and saves wait states of its own branch only.
LEMMA WaitsTurn ==
  ASSUME WaitInv, NEW t \in Turns, Turn(t), ~MayOverlap
  PROVE  WaitsPlaced'
  <1> USE DEF WaitInv, TreeInv, SerialInv, TypeInv
  <1>1. Current(stored)' = Current(stored) /\ branches' = branches
    BY SerialTurn, TurnEffects DEF Current
  <1>2. ASSUME NEW b \in 0 .. Len(branches), NEW w \in WaitState, stored'.by[b] = w
        PROVE  Placed(w, b)
    <2>1. CASE stored' = stored
      BY <1>2, <2>1 DEF WaitsPlaced
    <2>2. CASE InProgress(t) /\ stored' = meta[t]
      BY <1>2, <2>2 DEF WaitsPlaced
    <2> QED
      BY <2>1, <2>2, MetaTurn
  <1>3. ASSUME NEW u \in Turns, InProgress(u)',
               NEW b \in 0 .. Len(branches), NEW w \in WaitState, meta'[u].by[b] = w
        PROVE  Placed(w, b)'
    <2>1. CASE u # t
      <3>1. InProgress(u) /\ meta'[u] = meta[u]
        BY <1>3, <2>1, TurnEffects DEF InProgress
      <3> QED
        BY <1>3, <3>1, PlacedTurn DEF WaitsPlaced
    <2>2. CASE u = t /\ meta'[t] = stored
      BY <1>3, <2>2, PlacedTurn DEF WaitsPlaced
    <2>3. CASE u = t /\ InProgress(t) /\ meta'[t] = meta[t]
      BY <1>3, <2>3, PlacedTurn DEF WaitsPlaced
    <2>4. CASE u = t /\ TurnClear(t) /\ meta'[t] = ClearWait(meta[t])
      <3>1. InProgress(t) /\ meta[t] \in Metadata /\ b \in Branch
        BY <2>4 DEF TurnClear, InProgress, TypeOK, Branch
      <3>2. Current(meta[t]) \in Branch
        BY <3>1, CurrentType
      <3>3. ClearWait(meta[t]).by = [meta[t].by EXCEPT ![Current(meta[t])] = NoWait]
        BY <3>1 DEF ClearWait, Metadata
      <3>4. w # NoWait
        BY BranchFacts DEF WaitState, NoWait
      <3>5. meta[t].by[b] = w
        BY <1>3, <2>4, <3>1, <3>2, <3>3, <3>4 DEF Metadata
      <3> QED
        BY <3>1, <3>5, PlacedTurn DEF WaitsPlaced
    <2>5. CASE /\ u = t /\ TurnPause(t)
               /\ meta'[t] = SetWait(meta[t], [anchor |-> Len(items) + 1,
                                               input |-> message[t]])
      <3> DEFINE n == Len(items) + 1
                 v == [anchor |-> n, input |-> message[t]]
      <3>1. InProgress(t) /\ meta[t] \in Metadata /\ b \in Branch
        BY <2>5 DEF TurnPause, InProgress, TypeOK, Branch
      <3>2. Current(meta[t]) \in Branch /\ Current(meta[t]) = Current(stored)
        BY <3>1, CurrentType DEF Together, Current
      <3>3. SetWait(meta[t], v).by = [meta[t].by EXCEPT ![Current(meta[t])] = v]
        BY <3>1 DEF SetWait, Metadata
      <3>4. meta'[t].by[b] = IF b = Current(stored) THEN v ELSE meta[t].by[b]
        BY <2>5, <3>1, <3>2, <3>3 DEF Metadata
      <3>5. CASE b = Current(stored)
        <4>1. w.anchor = n
          BY <1>3, <2>5, <3>4, <3>5
        <4>2. n \in Unwritten'
          BY <2>5 DEF TurnPause, Unwritten, TypeOK, NoItem
        <4> HIDE DEF n
        <4> QED
          BY <1>1, <3>5, <4>1, <4>2 DEF Placed
      <3>6. CASE b # Current(stored)
        BY <1>3, <2>5, <3>1, <3>4, <3>6, PlacedTurn DEF WaitsPlaced
      <3> QED
        BY <3>5, <3>6
    <2> QED
      BY <1>3, <2>1, <2>2, <2>3, <2>4, <2>5, MetaTurn
  <1>4. \A b \in 0 .. Len(branches'), w \in WaitState : stored'.by[b] = w => Placed(w, b)'
    BY <1>1, <1>2, PlacedTurn
  <1>5. \A u \in Turns : InProgress(u)' =>
           \A b \in 0 .. Len(branches'), w \in WaitState : meta'[u].by[b] = w => Placed(w, b)'
    BY <1>1, <1>3
  <1>6. \A u \in Turns : pc'[u] \in {"running", "pausing", "paused"} =>
           \A b \in 0 .. Len(branches'), w \in WaitState :
              b = Current(stored)' /\ pending'[u] = w
              => w.anchor \notin Unwritten' /\ w.anchor \in Lineage(b)'
    BY <1>1, PendingTurn
  <1> HIDE DEF WaitInv, TreeInv, SerialInv, TypeInv
  <1> QED
    BY <1>4, <1>5, <1>6 DEF WaitsPlaced

\* Switching moves no wait state.
LEMMA WaitsSwitch ==
  ASSUME WaitInv, NEW c \in Branch, SwitchBranch(c), ~MayOverlap
  PROVE  WaitsPlaced'
  <1> USE DEF WaitInv, TreeInv, SerialInv, TypeInv
  <1>1. Quiet /\ UNCHANGED <<branches, items, tag, prompt, pc>>
    BY DEF SwitchBranch, turnVars
  <1>2. stored' = [Migrate(stored) EXCEPT !.cur = c]
    BY DEF SwitchBranch
  <1>3. Migrate(stored) \in Metadata /\ Migrate(stored).by = stored.by
    BY MigrateType, InStepFacts DEF LegacyInStep, TypeOK
  <1>4. stored'.by = stored.by
    BY <1>2, <1>3 DEF Metadata
  <1>5. Unwritten = {} /\ Unwritten' = {} /\ \A t \in Turns : ~InProgress(t)'
    BY <1>1, NoneUnwritten DEF Quiet, Unwritten, InProgress
  <1>6. TreeInv' /\ Grows /\ TypeOK /\ TypeOK' /\ Tree /\ Tree'
    BY TreeNext DEF Next
  <1>7. ASSUME NEW b \in 0 .. Len(branches), NEW w \in WaitState, stored.by[b] = w
        PROVE  Placed(w, b)'
    <2>1. w.anchor \in Lineage(b)
      BY <1>5, <1>7 DEF WaitsPlaced, Placed
    <2>2. PICK i \in Lineage(b) : i = w.anchor
      BY <2>1
    <2> HIDE DEF WaitInv, TreeInv, SerialInv, TypeInv
    <2>3. i \in Lineage(b)'
      BY <1>1, <1>6, LineageKept
    <2> QED
      BY <1>5, <2>2, <2>3 DEF Placed
  <1>8. \A t \in Turns : pc'[t] \notin {"running", "pausing", "paused"}
    BY <1>5 DEF InProgress
  <1> QED
    BY <1>1, <1>4, <1>5, <1>7, <1>8 DEF WaitsPlaced

\* A new branch shows its fork point, so a wait state restored there is its own.
LEMMA WaitsCreate ==
  ASSUME WaitInv, NEW f \in ItemId, NEW e \in ItemId, CreateBranch(f, e), ~MayOverlap
  PROVE  WaitsPlaced'
  <1> USE DEF WaitInv, TreeInv, SerialInv, TypeInv
  <1> DEFINE new == Len(branches) + 1
             r   == Restorable(Migrate(stored), tag[f], f)
  <1>1. /\ Quiet /\ UNCHANGED <<items, tag, rows, turnVars>> /\ f \in rows /\ e \in ItemId
        /\ new \in Branch /\ Len(branches') = new
        /\ branches'[new] = [parent |-> tag[f], fork |-> f]
        /\ \A b \in Branch : stored'.by[b] =
              IF b # new THEN Migrate(stored).by[b]
              ELSE IF r = NoWait THEN NoWait ELSE [r EXCEPT !.input = e]
    BY CreateEffects
  <1>2. Migrate(stored) \in Metadata /\ Migrate(stored).by = stored.by
    BY MigrateType, InStepFacts DEF LegacyInStep, TypeOK
  <1>3. r \in WaitState \cup {NoWait} /\ (r # NoWait => r.anchor = f)
    <2>1. tag[f] \in Branch
      BY DEF TypeOK
    <2> QED
      BY <1>2, <2>1, RestorableType, RestorableAnchor
  <1>4. Unwritten = {} /\ Unwritten' = {} /\ \A t \in Turns : ~InProgress(t)'
    BY <1>1, NoneUnwritten DEF Quiet, Unwritten, InProgress, turnVars
  <1>5. TreeInv' /\ Grows /\ TypeOK /\ TypeOK' /\ Tree /\ Tree'
    BY TreeNext DEF Next
  <1>6. Len(branches) \in Nat /\ 0 .. Len(branches') \subseteq Branch
    BY <1>1 DEF TypeOK, Branch
  <1> HIDE DEF new, r
  <1>7. ASSUME NEW b \in 0 .. Len(branches'), NEW w \in WaitState, stored'.by[b] = w
        PROVE  Placed(w, b)'
    <2>1. CASE b = new
      <3>1. r # NoWait /\ w = [r EXCEPT !.input = e]
        <4>1. w # NoWait
          BY BranchFacts DEF WaitState, NoWait
        <4> QED
          BY <1>1, <1>7, <2>1, <4>1
      <3>2. w.anchor = f
        BY <1>3, <3>1 DEF WaitState
      <3>3. f \in 1 .. Len(items') /\ tag'[f] = tag[f] /\ tag[f] \in 0 .. Len(branches')
        BY <1>1, <1>6, <1>5 DEF TypeOK, Tree, Grows
      <3>4. PICK p \in 0 .. Len(branches') : p = tag[f]
        BY <3>3
      <3>5. f \in Lineage(p)'
        BY <1>5, <3>3, <3>4, LineageOwn
      <3>6. b # Main /\ Parent(b)' = p /\ Fork(b)' = f
        BY <1>1, <1>6, <2>1, <3>4 DEF Parent, Fork, Main, new
      <3>7. f <= Fork(b)'
        BY <3>6 DEF ItemId
      <3>8. f \in Lineage(b)'
        <4>1. LineageLaw'
          BY <1>5, LineageLawPrimed
        <4> QED
          BY <3>3, <3>4, <3>5, <3>6, <3>7, <4>1 DEF LineageLaw
      <3> QED
        BY <1>4, <3>2, <3>8 DEF Placed
    <2>2. CASE b # new
      <3>1. b \in 0 .. Len(branches) /\ b \in Branch
        BY <1>1, <1>6, <2>2 DEF new
      <3>2. stored.by[b] = w
        BY <1>1, <1>2, <1>7, <2>2, <3>1
      <3>3. w.anchor \in Lineage(b)
        BY <1>4, <3>1, <3>2 DEF WaitsPlaced, Placed
      <3>4. PICK i \in Lineage(b) : i = w.anchor
        BY <3>3
      <3> HIDE DEF WaitInv, TreeInv, SerialInv, TypeInv
      <3>5. i \in Lineage(b)'
        BY <1>1, <1>5, <3>1, LineageKept
      <3> QED
        BY <1>4, <3>4, <3>5 DEF Placed
    <2> QED
      BY <2>1, <2>2
  <1>8. \A t \in Turns : pc'[t] \notin {"running", "pausing", "paused"}
    BY <1>4 DEF InProgress
  <1> QED
    BY <1>4, <1>7, <1>8 DEF WaitsPlaced

\* WaitInv is inductive as long as operations do not overlap.
LEMMA WaitNext ==
  ASSUME WaitInv, [Next]_vars, ~MayOverlap
  PROVE  WaitInv'
  <1>1. TreeInv'
    BY TreeNext DEF WaitInv
  <1>2. CASE \E t \in Turns : Turn(t)
    BY <1>1, <1>2, WaitsTurn DEF WaitInv
  <1>3. CASE \E b \in Branch : SwitchBranch(b)
    BY <1>1, <1>3, WaitsSwitch DEF WaitInv
  <1>4. CASE \E f, e \in ItemId : CreateBranch(f, e)
    BY <1>1, <1>4, WaitsCreate DEF WaitInv
  <1>5. CASE UNCHANGED vars
    <2>1. UNCHANGED <<branches, items, tag, rows, stored, pc, meta, ctx, pending, prompt>>
      BY <1>5 DEF vars, tableVars, turnVars
    <2>2. WaitsPlaced'
      BY <2>1 DEF WaitInv, WaitsPlaced, Placed, Unwritten, Lineage, Parent, Fork,
                  InProgress, Current
    <2> QED
      BY <1>1, <2>2 DEF WaitInv
  <1> QED
    BY <1>2, <1>3, <1>4, <1>5 DEF Next

\* While operations on a thread do not overlap, a branch never waits for the
\* answer to a prompt that it does not show: editing, switching, retries and
\* failed saves never carry a wait state into a foreign branch.
THEOREM WaitsAreVisible == ~MayOverlap => (Spec => []WaitStateVisible)
  <1> SUFFICES ASSUME ~MayOverlap PROVE Spec => []WaitStateVisible
    OBVIOUS
  <1>1. WaitInv /\ [Next]_vars => WaitInv'
    BY WaitNext
  <1>2. WaitInv => WaitStateVisible
    <2> SUFFICES ASSUME WaitInv, NEW b \in 0 .. Len(branches),
                        stored.by[b] # NoWait, stored.by[b].anchor \in rows
                 PROVE  stored.by[b].anchor \in Lineage(b)
      BY DEF WaitStateVisible
    <2> USE DEF WaitInv, TreeInv, SerialInv, TypeInv
    <2>1. stored.by[b] \in WaitState
      BY DEF TypeOK, Metadata, Branch
    <2>2. PICK w \in WaitState : w = stored.by[b]
      BY <2>1
    <2>3. Placed(w, b)
      BY <2>2 DEF WaitsPlaced
    <2>4. CASE w.anchor \in Unwritten
      <3>1. b = Current(stored)
        BY <2>3, <2>4 DEF Placed
      <3>2. tag[w.anchor] = b
        BY <2>2, <2>4, <3>1 DEF Unwritten, Steady
      <3>3. w.anchor \in 1 .. Len(items)
        BY <2>2 DEF TypeOK
      <3> QED
        BY <2>2, <3>2, <3>3, LineageLawHolds DEF LineageLaw
    <2>5. CASE w.anchor \notin Unwritten
      BY <2>2, <2>3, <2>5 DEF Placed
    <2> QED
      BY <2>4, <2>5
  <1> QED
    BY WaitInit, <1>1, <1>2, PTL DEF Spec

\* While operations on a thread do not overlap, a turn that resumes from a wait
\* state goes on with the branch its own items are stored in.
THEOREM ResumesInPlace == ~MayOverlap => (Spec => []ResumesOwnBranch)
  <1> SUFFICES ASSUME ~MayOverlap PROVE Spec => []ResumesOwnBranch
    OBVIOUS
  <1>1. WaitInv /\ [Next]_vars => WaitInv'
    BY WaitNext
  <1>2. WaitInv => ResumesOwnBranch
    <2> SUFFICES ASSUME WaitInv, NEW t \in Turns,
                        pc[t] \in {"running", "pausing", "paused"}, pending[t] # NoWait
                 PROVE  pending[t].anchor \in Lineage(RowBranch(t))
      BY DEF ResumesOwnBranch
    <2> USE DEF WaitInv, TreeInv, SerialInv, TypeInv
    <2>1. pending[t] \in WaitState
      BY DEF TypeOK
    <2>2. RowBranch(t) = Current(stored) /\ Current(stored) \in 0 .. Len(branches)
      BY SteadyFacts
    <2> QED
      BY <2>1, <2>2 DEF WaitsPlaced
  <1> QED
    BY WaitInit, <1>1, <1>2, PTL DEF Spec

-----------------------------------------------------------------------------
(* The rows of a branch                                                    *)

\* What Chain computes, as a fact about each branch and its parent.
ChainLaw ==
    \A c \in 0 .. Len(branches) :
       Chain(c) = IF c = Main THEN <<>> ELSE Append(Chain(Parent(c)), c)

\* The function that Chain chooses exists, hence has the values its definition
\* says.
LEMMA ChainLawHolds == TypeOK /\ Tree => ChainLaw
  <1> SUFFICES ASSUME TypeOK, Tree PROVE ChainLaw
    OBVIOUS
  <1> DEFINE N == Len(branches)
             X == Seq(Nat)
             p == [n \in 1 .. N |-> Parent(n)]
             H == [n \in 1 .. N |-> [s \in X |-> Append(s, n)]]
             Chains(f) == f = [c \in 0 .. N |->
                                 IF c = Main THEN <<>> ELSE Append(f[Parent(c)], c)]
  <1>1. N \in Nat /\ <<>> \in X
    BY DEF TypeOK
  <1>2. p \in Earlier(N) /\ \A n \in 1 .. N : p[n] < n /\ p[n] = Parent(n)
    BY <1>1 DEF Tree, Earlier
  <1>3. H \in [1 .. N -> [X -> X]]
    OBVIOUS
  <1>4. \A n \in 1 .. N : \A s \in X : H[n][s] = Append(s, n)
    OBVIOUS
  <1>5. PICK g : /\ g \in [0 .. N -> X]
                 /\ g[0] = <<>>
                 /\ \A n \in 1 .. N : g[n] = H[n][g[p[n]]]
    <2> HIDE DEF N, X, p, H, Chains
    <2>1. \E g : Recursive(g, N, X, <<>>, p, H)
      BY <1>1, <1>2, <1>3, Recursion
    <2> QED BY <2>1 DEF Recursive
  <1>6. ASSUME NEW c \in 0 .. N
        PROVE  g[c] = IF c = Main THEN <<>> ELSE Append(g[Parent(c)], c)
    <2>1. CASE c = 0
      BY <1>5, <2>1 DEF Main
    <2>2. CASE c \in 1 .. N
      <3> HIDE DEF N, X, p, H, Chains
      <3>1. p[c] = Parent(c) /\ p[c] \in 0 .. N
        BY <1>1, <1>2, <2>2 DEF Earlier
      <3>2. g[p[c]] \in X
        BY <1>5, <3>1
      <3> QED
        BY <1>4, <1>5, <2>2, <3>1, <3>2 DEF Main
    <2> QED
      BY <1>1, <2>1, <2>2
  <1>7. Chains(g)
    <2> HIDE DEF N, X, p, H
    <2> QED BY <1>5, <1>6
  <1> DEFINE chain == CHOOSE f : Chains(f)
  <1>8. Chains(chain)
    <2> HIDE DEF Chains
    <2> QED BY <1>7
  <1>9. \A b : Chain(b) = chain[b]
    BY DEF Chain
  <1> HIDE DEF chain
  <1> QED
    BY <1>8, <1>9 DEF ChainLaw

\* A chain leads from main down to its branch, with rising fork points; an item
\* belongs to the branch if one segment of the chain holds it, before every
\* later fork point.
Node(chain, m) == IF m = 0 THEN Main ELSE chain[m]

OnPath(chain, i) ==
    \E m \in 0 .. Len(chain) : /\ tag[i] = Node(chain, m)
                               /\ \A k \in m + 1 .. Len(chain) : i <= Fork(chain[k])

Path(chain, c) ==
    /\ chain \in Seq(Nat)
    /\ \A k \in 1 .. Len(chain) : chain[k] \in 1 .. c
    /\ IF c = Main THEN Len(chain) = 0 ELSE Len(chain) > 0 /\ chain[Len(chain)] = c
    /\ \A j, k \in 1 .. Len(chain) : j < k => Fork(chain[j]) < Fork(chain[k])
    /\ \A i \in 1 .. Len(items) : i \in Lineage(c) <=> OnPath(chain, i)

\* A chain is continued by a branch of its last one.
LEMMA PathStep ==
  ASSUME TypeOK, Tree, NEW c \in 1 .. Len(branches), NEW p \in 0 .. c - 1, p = Parent(c),
         NEW ch, Path(ch, p), NEW chain, chain = Append(ch, c)
  PROVE  Path(chain, c)
  <1> DEFINE n == Len(ch)
  <1>1. /\ ch \in Seq(Nat) /\ n \in Nat /\ c \in Nat
        /\ \A k \in 1 .. n : ch[k] \in 1 .. p
    BY DEF Path, TypeOK
  <1>2. /\ chain \in Seq(Nat) /\ Len(chain) = n + 1 /\ chain[n + 1] = c
        /\ \A k \in 1 .. n : chain[k] = ch[k]
    BY <1>1
  <1> HIDE DEF n
  <1>3. \A k \in 1 .. Len(chain) : chain[k] \in 1 .. c
    BY <1>1, <1>2
  <1>4. c # Main /\ Len(branches) \in Nat /\ p \in 0 .. Len(branches)
    BY DEF Main, TypeOK
  <1>5. ASSUME p # Main PROVE Fork(p) < Fork(c)
    <2>1. /\ p \in 1 .. Len(branches) /\ Fork(c) \in 1 .. Len(items)
          /\ tag[Fork(c)] = p
      BY <1>4, <1>5 DEF Tree, Main
    <2>2. Fork(c) \in ItemId
      BY <2>1 DEF TypeOK, ItemId
    <2> QED
      BY <2>1, <2>2 DEF Tree
  <1>6. ASSUME NEW k \in 1 .. n PROVE Fork(ch[k]) < Fork(c)
    <2>1. p # Main /\ ch[n] = p
      BY <1>1, <1>6 DEF Path, n
    <2>2. Fork(p) < Fork(c)
      BY <1>5, <2>1
    <2>3. k = n \/ Fork(ch[k]) < Fork(ch[n])
      BY <1>1 DEF Path, n
    <2>4. ch[k] \in 1 .. Len(branches) /\ p \in 1 .. Len(branches)
      BY <1>1, <1>4, <2>1 DEF Main
    <2>5. \A d \in 1 .. Len(branches) : Fork(d) \in Nat
      BY DEF Tree
    <2>6. Fork(ch[k]) \in Nat /\ Fork(p) \in Nat /\ Fork(c) \in Nat
      BY <2>4, <2>5
    <2> QED
      BY <2>1, <2>2, <2>3, <2>6
  <1>7. \A j, k \in 1 .. Len(chain) : j < k => Fork(chain[j]) < Fork(chain[k])
    <2> SUFFICES ASSUME NEW j \in 1 .. Len(chain), NEW k \in 1 .. Len(chain), j < k
                 PROVE  Fork(chain[j]) < Fork(chain[k])
      OBVIOUS
    <2>1. CASE k \in 1 .. n
      <3>1. j \in 1 .. n
        BY <1>1, <2>1
      <3>2. Fork(ch[j]) < Fork(ch[k])
        BY <2>1, <3>1 DEF Path, n
      <3> QED
        BY <1>2, <2>1, <3>1, <3>2
    <2>2. CASE k = n + 1
      BY <1>1, <1>2, <1>6, <2>2
    <2> QED
      BY <1>1, <1>2, <2>1, <2>2
  <1>8. ASSUME NEW i \in 1 .. Len(items)
        PROVE  i \in Lineage(c) <=> OnPath(chain, i)
    <2>1. i \in Lineage(c) <=> \/ tag[i] = c
                               \/ i <= Fork(c) /\ i \in Lineage(p)
      BY <1>4, LineageLawHolds DEF LineageLaw
    <2>2. i \in Lineage(p) <=> OnPath(ch, i)
      BY DEF Path
    <2>3. \A m \in 0 .. n : Node(chain, m) = Node(ch, m)
      BY <1>1, <1>2 DEF Node
    <2>4. Node(chain, n + 1) = c
      BY <1>1, <1>2 DEF Node
    <2>5. ASSUME OnPath(ch, i), i <= Fork(c) PROVE OnPath(chain, i)
      <3>1. PICK m \in 0 .. n : /\ tag[i] = Node(ch, m)
                                /\ \A k \in m + 1 .. n : i <= Fork(ch[k])
        BY <2>5 DEF OnPath, n
      <3>2. \A k \in m + 1 .. n + 1 : i <= Fork(chain[k])
        BY <1>1, <1>2, <2>5, <3>1
      <3>3. m \in 0 .. Len(chain) /\ tag[i] = Node(chain, m)
        BY <1>1, <1>2, <2>3, <3>1
      <3> QED
        BY <1>2, <3>2, <3>3 DEF OnPath
    <2>6. ASSUME tag[i] = c PROVE OnPath(chain, i)
      <3>1. n + 1 \in 0 .. Len(chain) /\ (n + 1) + 1 .. Len(chain) = {}
        BY <1>1, <1>2
      <3> QED
        BY <2>4, <2>6, <3>1 DEF OnPath
    <2>7. ASSUME OnPath(chain, i), tag[i] # c PROVE OnPath(ch, i) /\ i <= Fork(c)
      <3>1. PICK m \in 0 .. n + 1 : /\ tag[i] = Node(chain, m)
                                    /\ \A k \in m + 1 .. n + 1 : i <= Fork(chain[k])
        BY <1>2, <2>7 DEF OnPath
      <3>2. m \in 0 .. n
        BY <1>1, <2>4, <2>7, <3>1
      <3>3. i <= Fork(chain[n + 1])
        <4>1. n + 1 \in m + 1 .. n + 1
          BY <1>1, <3>2
        <4> QED
          BY <3>1, <4>1
      <3>4. \A k \in m + 1 .. n : i <= Fork(ch[k])
        BY <1>1, <1>2, <3>1, <3>2
      <3> QED
        BY <1>2, <2>3, <3>1, <3>2, <3>3, <3>4 DEF OnPath, n
    <2> QED
      BY <2>1, <2>2, <2>5, <2>6, <2>7
  <1>9. IF c = Main THEN Len(chain) = 0 ELSE Len(chain) > 0 /\ chain[Len(chain)] = c
    BY <1>1, <1>2, <1>4
  <1> QED
    BY <1>2, <1>3, <1>7, <1>8, <1>9 DEF Path

\* The chain of a branch is a path to it.
LEMMA PathHolds ==
  ASSUME TypeOK, Tree, NEW b \in 0 .. Len(branches)
  PROVE  Path(Chain(b), b)
  <1> DEFINE T == {c \in 0 .. Len(branches) : ~Path(Chain(c), c)}
  <1>1. Len(branches) \in Nat /\ ChainLaw
    BY ChainLawHolds DEF TypeOK
  <1>2. T = {}
    <2> SUFFICES ASSUME T # {} PROVE FALSE
      OBVIOUS
    <2>1. T \in SUBSET Nat
      BY <1>1
    <2>2. PICK c \in T : \A d \in T : c <= d
      <3> HIDE DEF T
      <3> QED BY <2>1, Least
    <2>3. CASE c = Main
      <3>1. Chain(c) = <<>>
        BY <1>1, <2>2, <2>3 DEF ChainLaw
      <3>2. \A i \in 1 .. Len(items) : i \in Lineage(c) <=> OnPath(<<>>, i)
        BY <2>2, <2>3, LineageLawHolds DEF LineageLaw, OnPath, Node
      <3> QED
        BY <2>2, <2>3, <3>1, <3>2 DEF Path
    <2>4. CASE c # Main
      <3>1. c \in 1 .. Len(branches)
        BY <1>1, <2>2, <2>4 DEF Main
      <3>2. PICK p \in 0 .. c - 1 : p = Parent(c)
        BY <3>1 DEF Tree
      <3>3. p \in 0 .. Len(branches) /\ p \notin T
        BY <1>1, <2>2, <3>1, <3>2
      <3>4. Path(Chain(p), p)
        BY <3>3
      <3>5. Chain(c) = Append(Chain(p), c)
        BY <1>1, <2>2, <2>4, <3>2 DEF ChainLaw
      <3> HIDE DEF T
      <3>6. Path(Chain(c), c)
        BY <3>1, <3>2, <3>4, <3>5, PathStep
      <3> QED
        BY <2>2, <3>6 DEF T
    <2> QED
      BY <2>3, <2>4
  <1> QED
    BY <1>2

\* The records of _filter_items_for_branch, read one after the other.
Reads(read, chain) ==
    \A i \in 0 .. Len(items) :
       read[i] = IF i = 0 THEN [seg |-> 0, shown |-> {}]
                 ELSE IF i \in rows THEN ReadRow(chain, read[i - 1], i)
                 ELSE read[i - 1]

LEMMA ReadRowType ==
  ASSUME NEW chain \in Seq(Nat), NEW acc \in [seg : Nat, shown : SUBSET Nat], NEW i \in Nat
  PROVE  ReadRow(chain, acc, i) \in [seg : Nat, shown : SUBSET Nat]
  <1> DEFINE opened == {k \in acc.seg + 1 .. Len(chain) :
                           \A j \in acc.seg + 1 .. k : Fork(chain[j]) = i}
             ahead  == acc.seg + 1 .. Len(chain)
  <1>1. IsFiniteSet(ahead)
    BY FS_Interval
  <1>2. opened \in SUBSET ahead
    OBVIOUS
  <1> HIDE DEF opened, ahead
  <1>3. Cardinality(opened) \in Nat
    <2>1. IsFiniteSet(opened)
      BY <1>1, <1>2, FS_Subset
    <2> QED
      BY <2>1, FS_CardinalityType
  <1> QED
    BY <1>3 DEF ReadRow, opened

\* View is what has been read after the last record.
LEMMA ViewReads ==
  ASSUME TypeOK, NEW b, Chain(b) \in Seq(Nat)
  PROVE  \E read : Reads(read, Chain(b)) /\ View(b) = read[Len(items)].shown
  <1> DEFINE N == Len(items)
             chain == Chain(b)
             X == [seg : Nat, shown : SUBSET Nat]
             a == [seg |-> 0, shown |-> {}]
             p == [n \in 1 .. N |-> n - 1]
             H == [n \in 1 .. N |-> [acc \in X |->
                     IF n \in rows THEN ReadRow(chain, acc, n) ELSE acc]]
             Solves(f) == f = [i \in 0 .. N |->
                                IF i = 0 THEN a
                                ELSE IF i \in rows THEN ReadRow(chain, f[i - 1], i)
                                ELSE f[i - 1]]
  <1>1. N \in Nat /\ a \in X /\ chain \in Seq(Nat)
    BY DEF TypeOK
  <1>2. p \in Earlier(N) /\ \A n \in 1 .. N : p[n] = n - 1
    BY <1>1 DEF Earlier
  <1>3. \A n \in 1 .. N : \A acc \in X : ReadRow(chain, acc, n) \in X
    BY <1>1, ReadRowType
  <1> HIDE DEF X, chain
  <1>4. H \in [1 .. N -> [X -> X]]
    BY <1>3
  <1>5. \A n \in 1 .. N : \A acc \in X :
           H[n][acc] = IF n \in rows THEN ReadRow(chain, acc, n) ELSE acc
    OBVIOUS
  <1>6. PICK g : /\ g \in [0 .. N -> X]
                 /\ g[0] = a
                 /\ \A n \in 1 .. N : g[n] = H[n][g[p[n]]]
    <2> HIDE DEF N, a, p, H, Solves
    <2>1. \E g : Recursive(g, N, X, a, p, H)
      BY <1>1, <1>2, <1>4, Recursion
    <2> QED BY <2>1 DEF Recursive
  <1>7. ASSUME NEW i \in 0 .. N
        PROVE  g[i] = IF i = 0 THEN a
                      ELSE IF i \in rows THEN ReadRow(chain, g[i - 1], i)
                      ELSE g[i - 1]
    <2>1. CASE i = 0
      BY <1>6, <2>1
    <2>2. CASE i \in 1 .. N
      <3> HIDE DEF N, a, p, H, Solves
      <3>1. p[i] = i - 1 /\ i - 1 \in 0 .. N
        BY <1>1, <1>2, <2>2
      <3>2. g[i - 1] \in X
        BY <1>6, <3>1
      <3>3. g[i] = H[i][g[i - 1]]
        BY <1>6, <2>2, <3>1
      <3> QED
        BY <1>5, <2>2, <3>2, <3>3
    <2> QED
      BY <1>1, <2>1, <2>2
  <1>8. Solves(g)
    <2> HIDE DEF N, a, p, H
    <2> QED BY <1>6, <1>7
  <1> DEFINE read == CHOOSE f : Solves(f)
  <1>9. Solves(read)
    <2> HIDE DEF Solves
    <2> QED BY <1>8
  <1>10. View(b) = read[N].shown
    BY DEF View, chain
  <1> HIDE DEF read
  <1>11. Reads(read, chain)
    <2> HIDE DEF p, H
    <2> QED BY <1>9 DEF Reads
  <1> QED
    BY <1>10, <1>11 DEF chain

\* Every fork point is an item of the thread that still has a row.
ForksKept == \A c \in 1 .. Len(branches) : Fork(c) \in rows

\* How far the reader has come after record i.
ReadUpTo(chain, acc, i) ==
    /\ acc.seg \in 0 .. Len(chain)
    /\ \A k \in 1 .. Len(chain) : k <= acc.seg <=> Fork(chain[k]) <= i
    /\ acc.shown = {j \in rows : j <= i /\ OnPath(chain, j)}

\* One record: ReadRow opens the segments that fork there and shows the item if
\* the open segment is its own.
LEMMA ReadStep ==
  ASSUME TypeOK, Tree, ForksKept, NEW b \in 0 .. Len(branches), NEW chain, Path(chain, b),
         NEW i \in 1 .. Len(items), NEW acc, ReadUpTo(chain, acc, i - 1)
  PROVE  /\ i \in rows => ReadUpTo(chain, ReadRow(chain, acc, i), i)
         /\ i \notin rows => ReadUpTo(chain, acc, i)
  <1> DEFINE n == Len(chain)
             s == acc.seg
  <1>1. /\ n \in Nat /\ s \in 0 .. n /\ Len(items) \in Nat /\ Len(branches) \in Nat
        /\ \A k \in 1 .. n : chain[k] \in 1 .. Len(branches)
    BY DEF Path, ReadUpTo, TypeOK
  <1>2. \A k \in 1 .. n : Fork(chain[k]) \in Nat /\ Fork(chain[k]) \in rows
    <2>1. \A d \in 1 .. Len(branches) : Fork(d) \in rows
      BY DEF ForksKept
    <2>2. \A j \in rows : j \in Nat
      BY DEF TypeOK
    <2> QED
      BY <1>1, <2>1, <2>2
  <1>3. \A k \in 1 .. n : k <= s <=> Fork(chain[k]) <= i - 1
    BY DEF ReadUpTo
  <1>4. \A j, k \in 1 .. n : j < k => Fork(chain[j]) < Fork(chain[k])
    BY DEF Path
  <1>5. ASSUME i \notin rows PROVE ReadUpTo(chain, acc, i)
    <2>1. \A k \in 1 .. n : Fork(chain[k]) # i
      BY <1>2, <1>5
    <2>2. \A k \in 1 .. n : k <= s <=> Fork(chain[k]) <= i
      BY <1>1, <1>2, <1>3, <2>1
    <2>3. \A j \in rows : j <= i <=> j <= i - 1
      BY <1>5 DEF TypeOK
    <2>4. {j \in rows : j <= i /\ OnPath(chain, j)} = {j \in rows : j <= i - 1 /\ OnPath(chain, j)}
      BY <2>3
    <2> QED
      BY <1>1, <2>2, <2>4 DEF ReadUpTo
  <1>6. ASSUME i \in rows PROVE ReadUpTo(chain, ReadRow(chain, acc, i), i)
    <2> DEFINE opened == {k \in s + 1 .. n : \A j \in s + 1 .. k : Fork(chain[j]) = i}
               next == s + Cardinality(opened)
    <2>1. /\ next \in 0 .. n
          /\ \A k \in 1 .. n : k <= next <=> Fork(chain[k]) <= i
      <3>1. CASE s < n /\ Fork(chain[s + 1]) = i
        <4>1. s + 1 \in 1 .. n
          BY <1>1, <3>1
        <4>2. \A k \in 1 .. n : k > s + 1 => Fork(chain[k]) > i
          BY <1>1, <1>2, <1>4, <3>1, <4>1
        <4>3. opened = {s + 1}
          <5>1. s + 1 \in opened
            BY <1>1, <3>1
          <5>2. ASSUME NEW k \in opened PROVE k = s + 1
            <6>1. k \in 1 .. n /\ k >= s + 1 /\ Fork(chain[k]) = i
              BY <1>1
            <6> QED
              BY <1>1, <4>2, <6>1
          <5> QED
            BY <5>1, <5>2
        <4>4. Cardinality(opened) = 1
          BY <4>3, FS_Singleton
        <4> HIDE DEF opened
        <4>5. next = s + 1
          BY <4>4
        <4> HIDE DEF next
        <4>6. ASSUME NEW k \in 1 .. n PROVE k <= next <=> Fork(chain[k]) <= i
          <5>1. CASE k <= s
            BY <1>1, <1>2, <1>3, <4>5, <5>1
          <5>2. CASE k = s + 1
            BY <1>1, <3>1, <4>5, <5>2
          <5>3. CASE k > s + 1
            BY <1>1, <1>2, <4>2, <4>5, <5>3
          <5> QED
            BY <1>1, <5>1, <5>2, <5>3
        <4> QED
          BY <1>1, <4>1, <4>5, <4>6
      <3>2. CASE ~(s < n /\ Fork(chain[s + 1]) = i)
        <4>1. opened = {}
          <5> SUFFICES ASSUME NEW k \in opened PROVE FALSE
            OBVIOUS
          <5>1. s + 1 \in s + 1 .. k /\ s < n
            BY <1>1
          <5>2. Fork(chain[s + 1]) = i
            BY <5>1
          <5> QED
            BY <3>2, <5>1, <5>2
        <4>2. Cardinality(opened) = 0
          BY <4>1, FS_EmptySet
        <4> HIDE DEF opened
        <4>3. next = s
          BY <1>1, <4>2
        <4> HIDE DEF next
        <4>4. ASSUME NEW k \in 1 .. n, k > s PROVE Fork(chain[k]) > i
          <5>1. s + 1 \in 1 .. n /\ Fork(chain[s + 1]) \in Nat /\ Fork(chain[k]) \in Nat
            BY <1>1, <1>2, <4>4
          <5>2. Fork(chain[s + 1]) >= i /\ Fork(chain[s + 1]) # i
            BY <1>1, <1>3, <3>2, <5>1
          <5>3. k = s + 1 \/ Fork(chain[s + 1]) < Fork(chain[k])
            BY <1>1, <1>4, <4>4, <5>1
          <5> QED
            BY <5>1, <5>2, <5>3
        <4>5. ASSUME NEW k \in 1 .. n PROVE k <= next <=> Fork(chain[k]) <= i
          <5>1. CASE k <= s
            BY <1>1, <1>2, <1>3, <4>3, <5>1
          <5>2. CASE k > s
            BY <1>1, <1>2, <4>3, <4>4, <5>2
          <5> QED
            BY <1>1, <5>1, <5>2
        <4> QED
          BY <1>1, <4>3, <4>5
      <3> QED
        BY <3>1, <3>2
    <2>2. OnPath(chain, i) <=> tag[i] = Node(chain, s)
      <3>1. ASSUME tag[i] = Node(chain, s) PROVE OnPath(chain, i)
        <4>1. \A k \in s + 1 .. n : i <= Fork(chain[k])
          <5> SUFFICES ASSUME NEW k \in s + 1 .. n PROVE i <= Fork(chain[k])
            OBVIOUS
          <5>1. k \in 1 .. n /\ ~(k <= s)
            BY <1>1
          <5> QED
            BY <1>2, <1>3, <5>1
        <4> QED
          BY <1>1, <3>1, <4>1 DEF OnPath
      <3>2. ASSUME OnPath(chain, i) PROVE tag[i] = Node(chain, s)
        <4>1. PICK m \in 0 .. n : /\ tag[i] = Node(chain, m)
                                  /\ \A k \in m + 1 .. n : i <= Fork(chain[k])
          BY <3>2 DEF OnPath
        <4>2. ~(m < s)
          <5> SUFFICES ASSUME m < s PROVE FALSE
            OBVIOUS
          <5>1. m + 1 \in 1 .. n /\ m + 1 <= s /\ m + 1 \in m + 1 .. n
            BY <1>1
          <5>2. i <= Fork(chain[m + 1]) /\ Fork(chain[m + 1]) <= i - 1
            BY <1>3, <4>1, <5>1
          <5> QED
            BY <1>2, <5>1, <5>2
        <4>3. ~(m > s)
          <5> SUFFICES ASSUME m > s PROVE FALSE
            OBVIOUS
          <5>1. m \in 1 .. n /\ ~(m <= s)
            BY <1>1
          <5>2. tag[i] = chain[m] /\ chain[m] \in 1 .. Len(branches) /\ i \in ItemId
            BY <1>1, <4>1, <5>1 DEF Node, TypeOK, ItemId
          <5>3. Fork(chain[m]) < i
            BY <5>2 DEF Tree
          <5> QED
            BY <1>2, <1>3, <5>1, <5>3
        <4> QED
          BY <1>1, <4>1, <4>2, <4>3
      <3> QED
        BY <3>1, <3>2
    <2> DEFINE r == ReadRow(chain, acc, i)
    <2>3. r.seg = next /\ r.shown = IF tag[i] = Node(chain, s) THEN acc.shown \cup {i}
                                    ELSE acc.shown
      BY DEF ReadRow, Node
    <2>4. acc.shown = {j \in rows : j <= i - 1 /\ OnPath(chain, j)}
      BY DEF ReadUpTo
    <2>5. r.shown = {j \in rows : j <= i /\ OnPath(chain, j)}
      <3>1. \A j \in rows : j <= i <=> j <= i - 1 \/ j = i
        BY DEF TypeOK
      <3> HIDE DEF r
      <3> QED
        BY <1>6, <2>2, <2>3, <2>4, <3>1
    <2> HIDE DEF r, opened, next
    <2> QED
      BY <2>1, <2>3, <2>5 DEF ReadUpTo, r
  <1> QED
    BY <1>5, <1>6

\* The single pass over the rows finds the lineage.
LEMMA ViewHolds ==
  ASSUME TypeOK, Tree, ForksKept, NEW b \in 0 .. Len(branches)
  PROVE  View(b) = Lineage(b) \cap rows
  <1>1. PICK chain : chain = Chain(b)
    OBVIOUS
  <1>2. Path(chain, b)
    BY <1>1, PathHolds
  <1>3. PICK read : Reads(read, chain) /\ View(b) = read[Len(items)].shown
    BY <1>1, <1>2, ViewReads DEF Path
  <1>4. Len(items) \in Nat
    BY DEF TypeOK
  <1> DEFINE S == {i \in Nat : i <= Len(items) => ReadUpTo(chain, read[i], i)}
  <1>5. 0 \in S
    <2>1. read[0] = [seg |-> 0, shown |-> {}]
      BY <1>3, <1>4 DEF Reads
    <2>2. \A k \in 1 .. Len(chain) : Fork(chain[k]) \in Nat /\ ~(Fork(chain[k]) <= 0)
      <3>1. \A d \in 1 .. Len(branches) : Fork(d) \in Nat /\ ~(Fork(d) <= 0)
        BY DEF Tree
      <3>2. \A k \in 1 .. Len(chain) : chain[k] \in 1 .. Len(branches)
        BY <1>2 DEF Path, TypeOK
      <3> QED
        BY <3>1, <3>2
    <2>3. \A j \in rows : ~(j <= 0)
      BY DEF TypeOK
    <2>4. Len(chain) \in Nat
      BY <1>2 DEF Path
    <2> QED
      BY <2>1, <2>2, <2>3, <2>4 DEF ReadUpTo
  <1>6. ASSUME NEW i \in Nat, i \in S PROVE i + 1 \in S
    <2> SUFFICES ASSUME i + 1 <= Len(items) PROVE ReadUpTo(chain, read[i + 1], i + 1)
      OBVIOUS
    <2>1. i + 1 \in 1 .. Len(items) /\ i + 1 \in 0 .. Len(items) /\ (i + 1) - 1 = i
      BY <1>4
    <2>2. ReadUpTo(chain, read[i], (i + 1) - 1)
      BY <1>4, <1>6, <2>1
    <2>3. read[i + 1] = IF i + 1 \in rows THEN ReadRow(chain, read[i], i + 1) ELSE read[i]
      BY <1>3, <2>1 DEF Reads
    <2> HIDE DEF S
    <2>4. /\ i + 1 \in rows => ReadUpTo(chain, ReadRow(chain, read[i], i + 1), i + 1)
          /\ i + 1 \notin rows => ReadUpTo(chain, read[i], i + 1)
      BY <1>2, <2>1, <2>2, ReadStep
    <2> QED
      BY <2>3, <2>4
  <1>7. Nat \subseteq S
    <2> HIDE DEF S
    <2> QED BY <1>5, <1>6, Induction
  <1>8. ReadUpTo(chain, read[Len(items)], Len(items))
    BY <1>4, <1>7
  <1>9. View(b) = {j \in rows : j <= Len(items) /\ OnPath(chain, j)}
    BY <1>3, <1>8 DEF ReadUpTo
  <1>10. \A j \in rows : j \in 1 .. Len(items) /\ j <= Len(items)
    BY DEF TypeOK
  <1>11. \A j \in rows : j \in Lineage(b) <=> OnPath(chain, j)
    BY <1>2, <1>10 DEF Path
  <1> QED
    BY <1>9, <1>10, <1>11

\* Without MayCutForks no step deletes a fork point.
LEMMA ForksNext ==
  ASSUME TreeInv, ForksKept, [Next]_vars, ~MayOverlap, ~MayCutForks
  PROVE  ForksKept'
  <1> USE DEF TreeInv, SerialInv, TypeInv
  <1>1. Len(branches) \in Nat /\ DOMAIN branches = 1 .. Len(branches)
    BY DEF TypeOK
  <1>2. CASE branches' = branches /\ rows \subseteq rows'
    BY <1>2 DEF ForksKept, Fork
  <1>3. ASSUME NEW t \in Turns, TurnRetry(t) PROVE ForksKept'
    <2>1. PICK later : /\ \A c \in DOMAIN branches : Fork(c) \notin later
                       /\ rows' = rows \ later
      BY <1>3 DEF TurnRetry
    <2>2. branches' = branches
      BY <1>3 DEF TurnRetry
    <2> QED
      BY <1>1, <2>1, <2>2 DEF ForksKept, Fork
  <1>4. ASSUME NEW t \in Turns, Turn(t), ~TurnRetry(t) PROVE ForksKept'
    <2>1. branches' = branches /\ rows \subseteq rows'
      BY <1>4 DEF Turn, TurnLoad, TurnAsk, TurnStep, TurnPause, TurnPauseSaved, TurnWait,
                  TurnClear, TurnEnd, TurnStop, PromptStored, tableVars
    <2> QED
      BY <1>2, <2>1
  <1>5. ASSUME NEW b \in Branch, SwitchBranch(b) PROVE ForksKept'
    BY <1>2, <1>5 DEF SwitchBranch
  <1>6. ASSUME NEW f \in ItemId, NEW e \in ItemId, CreateBranch(f, e) PROVE ForksKept'
    <2>1. /\ rows' = rows /\ f \in rows /\ Len(branches') = Len(branches) + 1
          /\ \A c \in 1 .. Len(branches) : branches'[c] = branches[c]
          /\ branches'[Len(branches) + 1] = [parent |-> tag[f], fork |-> f]
      BY <1>6, CreateEffects
    <2> SUFFICES ASSUME NEW c \in 1 .. Len(branches') PROVE Fork(c)' \in rows'
      BY DEF ForksKept
    <2>2. CASE c \in 1 .. Len(branches)
      BY <2>1, <2>2 DEF ForksKept, Fork
    <2>3. CASE c = Len(branches) + 1
      BY <2>1, <2>3 DEF Fork
    <2> QED
      BY <1>1, <2>1, <2>2, <2>3
  <1>7. CASE UNCHANGED vars
    BY <1>2, <1>7 DEF vars, tableVars
  <1> QED
    BY <1>3, <1>4, <1>5, <1>6, <1>7 DEF Next

\* While operations on a thread do not overlap and no retry deletes the fork
\* point of a branch, the one pass of _filter_items_for_branch over all rows
\* shows of every branch exactly what its lineage says, however deep the
\* branches are nested.
THEOREM ViewShowsLineage ==
  ~MayOverlap /\ ~MayCutForks => (Spec => []ViewIsLineage)
  <1> SUFFICES ASSUME ~MayOverlap, ~MayCutForks PROVE Spec => []ViewIsLineage
    OBVIOUS
  <1>1. Init => TreeInv /\ ForksKept
    BY TreeInit DEF Init, ForksKept
  <1>2. TreeInv /\ ForksKept /\ [Next]_vars => (TreeInv /\ ForksKept)'
    BY TreeNext, ForksNext
  <1>3. TreeInv /\ ForksKept => ViewIsLineage
    BY ViewHolds DEF TreeInv, SerialInv, TypeInv, ViewIsLineage
  <1> QED
    BY <1>1, <1>2, <1>3, PTL DEF Spec

-----------------------------------------------------------------------------
(* Editing resumes at the fork point                                       *)

\* Messages are the users', prompts are prompts; the message that a turn in
\* progress answers belongs to the current branch.
Roles ==
    /\ \A t \in Turns :
         /\ message[t] # NoItem => /\ message[t] \in 1 .. Len(items)
                                   /\ items[message[t]].role = "user"
         /\ prompt[t] # NoItem => items[prompt[t]].role = "prompt"
    /\ \A t \in Turns : pc[t] \in {"running", "pausing", "paused", "ending"} =>
         \A b \in 0 .. Len(branches) : b = Current(stored) => message[t] \in Lineage(b)

\* Item i is the prompt with which turn u paused in branch b.
PromptOf(i, b, u) ==
    /\ i \in 1 .. Len(items) /\ items[i].role = "prompt" /\ items[i].turn = u
    /\ b = IF i \in Unwritten THEN Current(stored) ELSE tag[i]
Indexed(m, i, b) == \E w \in m.index[b] : w.anchor = i

\* A prompt stays in the index of its branch, in the database and in every copy
\* that may be saved there, unless a turn of the branch has ended or failed (or
\* is about to end), or the prompt's own turn has still to save it.
IndexKept ==
    \A i \in ItemId, b \in 0 .. Len(branches), u \in Turns : PromptOf(i, b, u) =>
       /\ Indexed(stored, i, b) \/ Cleared(b) \/ InProgress(u)
       /\ \A t \in Turns : InProgress(t) =>
             \/ Indexed(meta[t], i, b) \/ Cleared(b)
             \/ pc[t] = "ending" /\ b = Current(stored)
       /\ pc[u] \in {"pausing", "paused", "waiting", "stopped"}
       /\ InProgress(u) => b = Current(stored)

\* The invariant about the index of wait states.
EditInv == TreeInv /\ ForksKept /\ Roles /\ IndexKept

LEMMA EditInit == Init => EditInv
  BY TreeInit DEF Init, EditInv, ForksKept, Roles, IndexKept, PromptOf

\* An item that is no prompt stays in its branches.
LEMMA UserKept ==
  ASSUME TreeInv, Roles, [Next]_vars, ~MayOverlap,
         NEW b \in 0 .. Len(branches), NEW i \in Lineage(b), items[i].role = "user"
  PROVE  i \in Lineage(b)'
  <1> USE DEF TreeInv, SerialInv, TypeInv
  <1>1. i \in 1 .. Len(items)
    BY LineageLawHolds DEF LineageLaw
  <1>2. tag'[i] = tag[i]
    <2>1. ASSUME NEW t \in Turns, Turn(t) PROVE tag'[i] = tag[i]
      <3>1. CASE TurnAsk(t)
        BY <1>1, <3>1 DEF TurnAsk, TypeOK
      <3>2. CASE TurnPause(t)
        BY <3>2 DEF TurnPause
      <3>3. CASE PromptStored(t)
        <4>1. prompt[t] # i
          BY <3>3 DEF PromptStored, Roles
        <4> QED
          BY <1>1, <3>3, <4>1 DEF PromptStored, TypeOK
      <3> QED
        BY <2>1, <3>1, <3>2, <3>3, TurnEffects
    <2>2. CASE UNCHANGED tag
      BY <2>2
    <2> QED
      BY <2>1, <2>2 DEF Next, SwitchBranch, CreateBranch, vars, tableVars
  <1>3. TreeInv' /\ Grows
    BY TreeNext
  <1> QED
    BY <1>2, <1>3, LineageKept

\* A branch whose workflow has ended or failed stays so.
LEMMA ClearedKept ==
  ASSUME TreeInv, Roles, [Next]_vars, ~MayOverlap,
         NEW b \in 0 .. Len(branches), Cleared(b)
  PROVE  Cleared(b)'
  <1> USE DEF TreeInv, SerialInv, TypeInv
  <1>1. PICK t \in Turns : pc[t] \in {"ended", "stopped"} /\ message[t] \in Lineage(b)
    BY DEF Cleared
  <1>2. PICK i \in Lineage(b) : i = message[t]
    BY <1>1
  <1>3. i # NoItem
    BY <1>2, LineageLawHolds DEF LineageLaw, NoItem
  <1>4. i \in Lineage(b)'
    BY <1>2, <1>3, UserKept DEF Roles
  <1>5. pc'[t] = pc[t] /\ message'[t] = message[t]
    <2>1. ASSUME NEW u \in Turns, Turn(u) PROVE pc'[t] = pc[t] /\ message'[t] = message[t]
      <3>1. CASE u = t
        BY <1>1, <2>1, <3>1
           DEF Turn, TurnLoad, TurnAsk, TurnRetry, TurnStep, TurnPause, TurnPauseSaved,
               TurnWait, TurnClear, TurnEnd, TurnStop, PromptStored, InProgress
      <3>2. CASE u # t
        BY <2>1, <3>2, TurnEffects
      <3> QED
        BY <3>1, <3>2
    <2> QED
      BY <2>1 DEF Next, SwitchBranch, CreateBranch, vars, turnVars
  <1> QED
    BY <1>1, <1>2, <1>4, <1>5 DEF Cleared

\* No step changes the role of an item that is referred to.
LEMMA RolesTurn ==
  ASSUME TreeInv, ForksKept, Roles, NEW t \in Turns, Turn(t), ~MayOverlap
  PROVE  Roles'
  <1> USE DEF TreeInv, SerialInv, TypeInv
  <1>1. Current(stored)' = Current(stored) /\ branches' = branches
    BY SerialTurn, TurnEffects DEF Current
  <1>2. [Next]_vars
    BY DEF Next
  <1>3. TreeInv' /\ Grows
    BY <1>2, TreeNext
  <1>4. Current(stored) \in 0 .. Len(branches)
    BY SteadyFacts
  <1>5. Len(items) \in Nat /\ \A j \in 1 .. Len(items) : items'[j] = items[j]
    <2>1. items' = items \/ \E x : items' = Append(items, x)
      BY TurnEffects DEF TurnAsk, TurnPause, PromptStored
    <2>2. items \in Seq([turn : Turns, role : Role])
      BY DEF TypeOK
    <2>3. ASSUME NEW x, items' = Append(items, x)
          PROVE  \A j \in 1 .. Len(items) : items'[j] = items[j]
      BY <2>2, <2>3
    <2> QED
      BY <2>1, <2>2, <2>3
  <1>6. ASSUME NEW u \in Turns, message'[u] # NoItem
        PROVE  message'[u] \in 1 .. Len(items') /\ items'[message'[u]].role = "user"
    <2>1. CASE u = t /\ TurnAsk(t)
      BY <2>1 DEF TurnAsk, TypeOK
    <2>2. CASE u = t /\ TurnRetry(t)
      <3>1. PICK e \in rows : items[e].role = "user" /\ message' = [message EXCEPT ![t] = e]
        BY <2>2 DEF TurnRetry
      <3> QED
        BY <2>2, <3>1 DEF TurnRetry, TypeOK
    <2>3. CASE ~(u = t /\ (TurnAsk(t) \/ TurnRetry(t)))
      <3>1. message'[u] = message[u]
        BY <2>3, TurnEffects
           DEF Turn, TurnLoad, TurnStep, TurnPause, TurnPauseSaved, TurnWait,
               TurnClear, TurnEnd, TurnStop, PromptStored, tableVars
      <3> QED
        BY <1>3, <1>5, <1>6, <3>1 DEF Roles, Grows, TypeOK
    <2> QED
      BY <2>1, <2>2, <2>3
  <1>7. ASSUME NEW u \in Turns, prompt'[u] # NoItem
        PROVE  items'[prompt'[u]].role = "prompt"
    <2>1. CASE TurnPause(t) /\ u = t
      BY <2>1 DEF TurnPause, TypeOK
    <2>2. CASE ~(TurnPause(t) /\ u = t)
      <3>1. prompt'[u] = prompt[u]
        BY <1>7, <2>2, TurnEffects DEF TurnAsk, PromptStored, TypeOK
      <3> QED
        BY <1>5, <1>7, <3>1 DEF Roles, Written
    <2> QED
      BY <2>1, <2>2
  <1>8. ASSUME NEW u \in Turns, pc'[u] \in {"running", "pausing", "paused", "ending"},
               NEW b \in 0 .. Len(branches), b = Current(stored)
        PROVE  message'[u] \in Lineage(b)'
    <2>1. CASE u = t /\ TurnAsk(t)
      <3>1. PICK n \in 1 .. Len(items') : n = Len(items) + 1
        BY <2>1 DEF TurnAsk, TypeOK
      <3>2. message'[t] = n /\ tag'[n] = b
        BY <1>8, <2>1, <3>1, SteadyFacts DEF TurnAsk, TypeOK, ItemId
      <3>3. n \in Lineage(b)'
        BY <1>1, <1>3, <3>2, LineageOwn
      <3> QED
        BY <2>1, <3>2, <3>3
    <2>2. CASE u = t /\ TurnRetry(t)
      <3>1. PICK e \in rows : /\ items[e].role = "user" /\ e \in View(Current(stored))
                              /\ message' = [message EXCEPT ![t] = e]
        BY <2>2 DEF TurnRetry
      <3>2. View(b) = Lineage(b) \cap rows
        BY ViewHolds
      <3>3. PICK i \in Lineage(b) : i = e
        BY <1>8, <3>1, <3>2
      <3>4. i \in Lineage(b)'
        BY <1>2, <3>1, <3>3, UserKept
      <3> QED
        BY <2>2, <3>1, <3>3, <3>4 DEF TypeOK
    <2>3. CASE ~(u = t /\ (TurnAsk(t) \/ TurnRetry(t)))
      <3>1. message'[u] = message[u]
        BY <2>3, TurnEffects
           DEF Turn, TurnLoad, TurnStep, TurnPause, TurnPauseSaved, TurnWait,
               TurnClear, TurnEnd, TurnStop, PromptStored, tableVars
      <3>2. pc[u] \in {"running", "pausing", "paused", "ending"}
        <4>1. CASE u # t
          BY <1>8, <4>1, TurnEffects
        <4>2. CASE u = t
          BY <1>8, <2>3, <4>2
             DEF Turn, TurnLoad, TurnStep, TurnPause, TurnPauseSaved, TurnWait,
                 TurnClear, TurnEnd, TurnStop, PromptStored, tableVars, TypeOK
        <4> QED
          BY <4>1, <4>2
      <3>3. PICK i \in Lineage(b) : i = message[u]
        BY <1>8, <3>2 DEF Roles
      <3>4. items[i].role = "user"
        BY <3>2, <3>3 DEF Roles, Answering
      <3>5. i \in Lineage(b)'
        BY <1>2, <3>4, UserKept
      <3> QED
        BY <3>1, <3>3, <3>5
    <2> QED
      BY <2>1, <2>2, <2>3
  <1> QED
    BY <1>1, <1>6, <1>7, <1>8 DEF Roles

\* Every prompt after a turn's step was one before, or is the turn's new one.
LEMMA PromptBack ==
  ASSUME TreeInv, NEW t \in Turns, Turn(t), ~MayOverlap,
         NEW i \in ItemId, NEW b \in 0 .. Len(branches), NEW u \in Turns,
         PromptOf(i, b, u)'
  PROVE  \/ i \in 1 .. Len(items) /\ PromptOf(i, b, u)
         \/ /\ TurnPause(t) /\ i = Len(items) + 1
            /\ u = t /\ b = Current(stored)
  <1> USE DEF TreeInv, SerialInv, TypeInv
  <1>1. Current(stored)' = Current(stored)
    BY SerialTurn DEF Current
  <1>2. Len(items) \in Nat /\ items \in Seq([turn : Turns, role : Role])
    BY DEF TypeOK
  <1>3. CASE UNCHANGED <<items, tag, prompt>>
    BY <1>1, <1>3 DEF PromptOf, Unwritten
  <1>4. CASE TurnAsk(t)
    <2>1. /\ items' = Append(items, [turn |-> t, role |-> "user"])
          /\ tag' = [tag EXCEPT ![Len(items) + 1] = RowBranch(t)]
          /\ prompt' = prompt
      BY <1>4 DEF TurnAsk
    <2>2. i \in 1 .. Len(items)
      BY <1>2, <2>1 DEF PromptOf
    <2>3. items'[i] = items[i]
      BY <1>2, <2>1, <2>2
    <2>4. tag'[i] = tag[i]
      BY <2>1, <2>2 DEF TypeOK
    <2> QED
      BY <1>1, <2>1, <2>2, <2>3, <2>4 DEF PromptOf, Unwritten
  <1>5. CASE TurnPause(t)
    <2>1. /\ items' = Append(items, [turn |-> t, role |-> "prompt"])
          /\ tag' = tag /\ prompt' = [prompt EXCEPT ![t] = Len(items) + 1]
      BY <1>5 DEF TurnPause
    <2>2. Unwritten = {} /\ \A v \in Turns : prompt[v] = NoItem
      BY <1>5, NoneUnwritten DEF TurnPause
    <2>3. Unwritten' = {Len(items) + 1}
      BY <1>2, <2>1, <2>2 DEF Unwritten, TypeOK, NoItem
    <2>4. CASE i = Len(items) + 1
      <3>1. items'[i] = [turn |-> t, role |-> "prompt"]
        BY <1>2, <2>1, <2>4
      <3> QED
        BY <1>1, <1>5, <2>3, <2>4, <3>1 DEF PromptOf
    <2>5. CASE i # Len(items) + 1
      <3>1. i \in 1 .. Len(items)
        BY <1>2, <2>1, <2>5 DEF PromptOf
      <3>2. items'[i] = items[i]
        BY <1>2, <2>1, <3>1
      <3> QED
        BY <2>1, <2>2, <2>3, <2>5, <3>1, <3>2 DEF PromptOf
    <2> QED
      BY <2>4, <2>5
  <1>6. CASE PromptStored(t)
    <2>1. /\ prompt[t] # NoItem /\ prompt[t] \in ItemId /\ items' = items
          /\ tag' = [tag EXCEPT ![prompt[t]] = Current(stored)]
      BY <1>6, SteadyFacts DEF PromptStored, TypeOK
    <2>2. Unwritten = {prompt[t]}
      BY <2>1 DEF Unwritten, Steady
    <2>3. Unwritten' = Unwritten \/ Unwritten' = {}
      BY <1>6, <2>1, <2>2 DEF PromptStored, Unwritten, Steady, TypeOK
    <2>4. CASE i = prompt[t]
      <3>1. b = Current(stored)
        BY <1>1, <2>1, <2>4 DEF PromptOf, TypeOK
      <3> QED
        BY <2>1, <2>2, <2>4, <3>1 DEF PromptOf
    <2>5. CASE i # prompt[t]
      <3>1. tag'[i] = tag[i] /\ i \notin Unwritten /\ i \notin Unwritten'
        BY <2>1, <2>2, <2>3, <2>5 DEF TypeOK
      <3> QED
        BY <2>1, <3>1 DEF PromptOf
    <2> QED
      BY <2>4, <2>5
  <1> QED
    BY <1>3, <1>4, <1>5, <1>6, TurnEffects

\* What a step does to the indexes: setting a wait state keeps the anchors.
LEMMA SetWaitIndex ==
  ASSUME NEW m \in Metadata, NEW w \in WaitState, NEW b \in Branch, NEW i
  PROVE  /\ i # w.anchor /\ Indexed(m, i, b) => Indexed(SetWait(m, w), i, b)
         /\ b = Current(m) => Indexed(SetWait(m, w), w.anchor, b)
         /\ b # Current(m) /\ Indexed(m, i, b) => Indexed(ClearWait(m), i, b)
  <1>1. Current(m) \in Branch
    BY CurrentType
  <1>2. SetWait(m, w).index[b] =
          IF b = Current(m) THEN {v \in m.index[b] : v.anchor # w.anchor} \cup {w}
          ELSE m.index[b]
    BY <1>1 DEF SetWait, Metadata
  <1>3. b # Current(m) => ClearWait(m).index[b] = m.index[b]
    BY <1>1 DEF ClearWait, Metadata
  <1> QED
    BY <1>2, <1>3 DEF Indexed

\* A turn that ends or fails while its branch is the current one leaves that
\* branch cleared.
LEMMA EndClears ==
  ASSUME TreeInv, ForksKept, Roles, NEW t \in Turns, Turn(t), ~MayOverlap,
         pc[t] \in {"running", "pausing", "paused", "ending"},
         pc'[t] \in {"ended", "stopped"},
         NEW b \in 0 .. Len(branches), b = Current(stored)
  PROVE  Cleared(b)'
  <1> USE DEF TreeInv, SerialInv, TypeInv
  <1>1. PICK i \in Lineage(b) : i = message[t]
    BY DEF Roles
  <1>2. items[i].role = "user"
    BY <1>1 DEF Roles, Answering
  <1>3. i \in Lineage(b)'
    BY <1>2, UserKept DEF Next
  <1>4. message'[t] = message[t]
    BY DEF Turn, TurnLoad, TurnAsk, TurnRetry, TurnStep, TurnPause, TurnPauseSaved,
           TurnWait, TurnClear, TurnEnd, TurnStop, PromptStored, tableVars, TypeOK
  <1> QED
    BY <1>1, <1>3, <1>4 DEF Cleared

\* Without failures the last save of a turn, and only a turn that is over or
\* dropped leaves the ones in progress.
LEMMA SavedTurn ==
  ASSUME SerialInv, NEW t \in Turns, Turn(t), ~MayOverlap, SaveOutcomes = {TRUE}
  PROVE  /\ InProgress(t) /\ ~InProgress(t)' =>
               \/ pc'[t] = "stopped" /\ stored' = stored
               \/ stored' = meta[t]
         /\ stored' # stored /\ pc[t] = "ending" => pc'[t] = "ended"
         /\ pc[t] = "ending" => pc'[t] \in {"ending", "ended", "stopped"}
         /\ pc[t] \in {"pausing", "paused", "waiting", "stopped"} =>
               pc'[t] \in {"pausing", "paused", "waiting", "stopped"}
  <1> USE DEF SerialInv, TypeInv
  <1>1. InProgress(t) => Saved(meta[t]) = meta[t]
    BY SavedType DEF Together, TypeOK
  <1>2. CASE TurnWait(t) \/ TurnEnd(t)
    <2>1. InProgress(t) /\ LastSave(t)
      BY <1>2 DEF TurnWait, TurnEnd, InProgress
    <2>2. stored' = meta[t]
      BY <1>1, <2>1 DEF LastSave
    <2>3. \/ pc[t] = "paused" /\ pc'[t] = "waiting"
          \/ pc[t] = "ending" /\ pc'[t] = "ended"
      BY <1>2 DEF TurnWait, TurnEnd, TypeOK
    <2> QED
      BY <2>2, <2>3
  <1>3. CASE TurnStop(t)
    <2>1. pc'[t] = "stopped" /\ stored' = stored
      BY <1>3 DEF TurnStop, tableVars, TypeOK
    <2> QED
      BY <2>1
  <1>4. CASE ~(TurnWait(t) \/ TurnEnd(t) \/ TurnStop(t))
    <2>1. \/ pc'[t] = pc[t] /\ (pc[t] = "running" \/ stored' = stored)
          \/ pc[t] = "idle" /\ pc'[t] \in {"loaded", "running"}
          \/ pc[t] = "loaded" /\ pc'[t] = "running"
          \/ pc[t] = "running" /\ pc'[t] \in {"pausing", "ending"}
          \/ pc[t] = "pausing" /\ pc'[t] = "paused"
      BY <1>4 DEF Turn, TurnLoad, TurnAsk, TurnRetry, TurnStep, TurnPause, TurnPauseSaved,
                  TurnClear, PromptStored, TypeOK
    <2> QED
      BY <2>1 DEF InProgress
  <1> QED
    BY <1>2, <1>3, <1>4

\* Every save of a turn keeps the entries of the index.
LEMMA IndexTurn ==
  ASSUME EditInv, NEW t \in Turns, Turn(t), ~MayOverlap, SaveOutcomes = {TRUE}
  PROVE  IndexKept'
  <1> USE DEF EditInv, TreeInv, SerialInv, TypeInv
  <1>1. Current(stored)' = Current(stored) /\ branches' = branches
    BY SerialTurn, TurnEffects DEF Current
  <1>2. SerialInv'
    BY SerialTurn
  <1>3. pc \in [Turns -> TurnState]
    BY DEF TypeOK
  <1>4. ASSUME NEW i \in ItemId, NEW b \in 0 .. Len(branches), NEW u \in Turns,
               PromptOf(i, b, u)', TurnPause(t), i = Len(items) + 1, u = t,
               b = Current(stored)
        PROVE  /\ Indexed(stored', i, b) \/ Cleared(b)' \/ InProgress(u)'
               /\ \A v \in Turns : InProgress(v)' =>
                     \/ Indexed(meta'[v], i, b) \/ Cleared(b)'
                     \/ pc'[v] = "ending" /\ b = Current(stored)'
               /\ pc'[u] \in {"pausing", "paused", "waiting", "stopped"}
               /\ InProgress(u)' => b = Current(stored)'
    <2> DEFINE w == [anchor |-> Len(items) + 1, input |-> message[t]]
    <2>1. pc'[t] = "pausing" /\ InProgress(t)' /\ InProgress(t)
      BY <1>3, <1>4 DEF TurnPause, InProgress
    <2>2. \A v \in Turns : InProgress(v)' => v = t
      BY <1>2, <2>1 DEF Alone
    <2>3. meta'[t] = SetWait(meta[t], w)
      BY <1>4 DEF TurnPause, TypeOK
    <2>4. /\ meta[t] \in Metadata /\ w \in WaitState /\ b \in Branch
          /\ b = Current(meta[t]) /\ w.anchor = i
      <3>1. meta[t] \in Metadata /\ w \in WaitState /\ b \in Branch /\ w.anchor = i
        BY <1>4 DEF TurnPause, TypeOK, Answering, WaitState, ItemId, NoItem, Branch
      <3> QED
        BY <1>4, <2>1, <3>1 DEF Together, Current
    <2> HIDE DEF w
    <2>5. Indexed(meta'[t], i, b)
      BY <2>3, <2>4, SetWaitIndex
    <2> QED
      BY <1>1, <1>4, <2>1, <2>2, <2>5
  <1>5. ASSUME NEW i \in ItemId, NEW b \in 0 .. Len(branches), NEW u \in Turns,
               i \in 1 .. Len(items), PromptOf(i, b, u)
        PROVE  /\ Indexed(stored', i, b) \/ Cleared(b)' \/ InProgress(u)'
               /\ \A v \in Turns : InProgress(v)' =>
                     \/ Indexed(meta'[v], i, b) \/ Cleared(b)'
                     \/ pc'[v] = "ending" /\ b = Current(stored)'
               /\ pc'[u] \in {"pausing", "paused", "waiting", "stopped"}
               /\ InProgress(u)' => b = Current(stored)'
    <2>1. /\ Indexed(stored, i, b) \/ Cleared(b) \/ InProgress(u)
          /\ \A v \in Turns : InProgress(v) =>
                \/ Indexed(meta[v], i, b) \/ Cleared(b)
                \/ pc[v] = "ending" /\ b = Current(stored)
          /\ pc[u] \in {"pausing", "paused", "waiting", "stopped"}
          /\ InProgress(u) => b = Current(stored)
      BY <1>5 DEF IndexKept
    <2>2. Cleared(b) => Cleared(b)'
      BY ClearedKept DEF Next
    <2>3. pc'[u] \in {"pausing", "paused", "waiting", "stopped"}
      BY <2>1, SavedTurn, TurnEffects
    <2>4. InProgress(u)' => InProgress(u)
      <3>1. CASE u = t
        BY <1>3, <2>1, <3>1
           DEF Turn, TurnLoad, TurnAsk, TurnRetry, TurnStep, TurnPause, TurnPauseSaved,
               TurnWait, TurnClear, TurnEnd, TurnStop, PromptStored, InProgress
      <3>2. CASE u # t
        BY <3>2, TurnEffects DEF InProgress
      <3> QED
        BY <3>1, <3>2
    <2>5. Indexed(stored', i, b) \/ Cleared(b)' \/ InProgress(u)'
      <3>1. CASE InProgress(u) /\ ~InProgress(u)'
        <4>1. u = t /\ pc[t] \in {"pausing", "paused"} /\ b = Current(stored)
          BY <2>1, <3>1, TurnEffects DEF InProgress
        <4>2. CASE pc'[t] = "stopped"
          BY <4>1, <4>2, EndClears
        <4>3. CASE stored' = meta[t]
          BY <2>1, <2>2, <3>1, <4>1, <4>3
        <4> QED
          BY <3>1, <4>1, <4>2, <4>3, SavedTurn
      <3>2. CASE stored' = stored /\ ~(InProgress(u) /\ ~InProgress(u)')
        BY <2>1, <2>2, <3>2
      <3>3. CASE InProgress(t) /\ stored' = meta[t] /\ stored' # stored
        <4>1. \/ Indexed(meta[t], i, b) \/ Cleared(b)
              \/ pc[t] = "ending" /\ b = Current(stored)
          BY <2>1, <3>3
        <4>2. CASE pc[t] = "ending" /\ b = Current(stored)
          <5>1. pc'[t] = "ended"
            BY <3>3, <4>2, SavedTurn
          <5> QED
            BY <4>2, <5>1, EndClears
        <4> QED
          BY <2>2, <3>3, <4>1, <4>2
      <3> QED
        BY <3>1, <3>2, <3>3, MetaTurn
    <2>6. ASSUME NEW v \in Turns, InProgress(v)'
          PROVE  \/ Indexed(meta'[v], i, b) \/ Cleared(b)'
                 \/ pc'[v] = "ending" /\ b = Current(stored)'
      <3>1. CASE v # t
        <4>1. InProgress(v) /\ meta'[v] = meta[v] /\ pc'[v] = pc[v]
          BY <2>6, <3>1, TurnEffects DEF InProgress
        <4> QED
          BY <1>1, <2>1, <2>2, <4>1
      <3>2. CASE v = t /\ Quiet /\ meta'[t] = stored
        <4>1. ~InProgress(u)
          BY <3>2 DEF Quiet
        <4> QED
          BY <2>1, <2>2, <3>2, <4>1
      <3>3. CASE v = t /\ InProgress(t) /\ meta'[t] = meta[t]
        <4>1. \/ Indexed(meta[t], i, b) \/ Cleared(b)
              \/ pc[t] = "ending" /\ b = Current(stored)
          BY <2>1, <3>3
        <4>2. pc[t] = "ending" => pc'[t] = "ending"
          BY <2>6, <3>3, SavedTurn DEF InProgress
        <4> QED
          BY <1>1, <2>2, <3>3, <4>1, <4>2
      <3>4. CASE v = t /\ TurnClear(t) /\ meta'[t] = ClearWait(meta[t])
        <4>1. pc[t] = "running" /\ pc'[t] = "ending" /\ InProgress(t)
          BY <1>3, <3>4 DEF TurnClear, InProgress
        <4>2. meta[t] \in Metadata /\ Current(meta[t]) = Current(stored) /\ b \in Branch
          BY <4>1 DEF Together, Current, TypeOK, Branch
        <4>3. b # Current(meta[t]) /\ Indexed(meta[t], i, b) => Indexed(ClearWait(meta[t]), i, b)
          <5>1. [anchor |-> i, input |-> i] \in WaitState
            BY DEF WaitState
          <5> QED
            BY <4>2, <5>1, SetWaitIndex
        <4> QED
          BY <1>1, <2>1, <2>2, <3>4, <4>1, <4>2, <4>3
      <3>5. CASE /\ v = t /\ TurnPause(t)
                 /\ meta'[t] = SetWait(meta[t], [anchor |-> Len(items) + 1,
                                                 input |-> message[t]])
        <4> DEFINE w == [anchor |-> Len(items) + 1, input |-> message[t]]
        <4>1. pc[t] = "running" /\ InProgress(t)
          BY <3>5 DEF TurnPause, InProgress
        <4>2. /\ meta[t] \in Metadata /\ w \in WaitState /\ b \in Branch
              /\ w.anchor # i
          BY <1>5, <3>5 DEF TurnPause, TypeOK, Answering, WaitState, ItemId, NoItem, Branch
        <4>3. Indexed(meta[t], i, b) => Indexed(SetWait(meta[t], w), i, b)
          <5> HIDE DEF w
          <5> QED BY <4>2, SetWaitIndex
        <4> QED
          BY <2>1, <2>2, <3>5, <4>1, <4>3
      <3> QED
        BY <2>6, <3>1, <3>2, <3>3, <3>4, <3>5, MetaTurn
    <2> QED
      BY <1>1, <2>1, <2>3, <2>4, <2>5, <2>6
  <1>6. ASSUME NEW i \in ItemId, NEW b \in 0 .. Len(branches'), NEW u \in Turns,
               PromptOf(i, b, u)'
        PROVE  /\ Indexed(stored', i, b) \/ Cleared(b)' \/ InProgress(u)'
               /\ \A v \in Turns : InProgress(v)' =>
                     \/ Indexed(meta'[v], i, b) \/ Cleared(b)'
                     \/ pc'[v] = "ending" /\ b = Current(stored)'
               /\ pc'[u] \in {"pausing", "paused", "waiting", "stopped"}
               /\ InProgress(u)' => b = Current(stored)'
    <2>1. b \in 0 .. Len(branches)
      BY <1>1
    <2> QED
      BY <1>4, <1>5, <1>6, <2>1, PromptBack
  <1> HIDE DEF EditInv, TreeInv, SerialInv, TypeInv
  <1> QED
    BY <1>6 DEF IndexKept, Indexed

\* Changing branches happens between turns and touches no index.
LEMMA BetweenTurns ==
  ASSUME EditInv, [Next]_vars, ~MayOverlap, Quiet,
         UNCHANGED <<items, tag, turnVars>>, stored'.index = stored.index
  PROVE  Roles' /\ IndexKept'
  <1> USE DEF EditInv, TreeInv, SerialInv, TypeInv
  <1>1. /\ \A t \in Turns : ~InProgress(t) /\ ~InProgress(t)'
        /\ Unwritten = {} /\ Unwritten' = {}
        /\ pc' = pc /\ message' = message /\ prompt' = prompt
    BY NoneUnwritten DEF Quiet, turnVars, InProgress, Unwritten
  <1>2. Roles'
    <2>1. \A t \in Turns : pc'[t] \notin {"running", "pausing", "paused", "ending"}
      BY <1>1 DEF InProgress
    <2> QED
      BY <1>1, <2>1 DEF Roles
  <1>3. ASSUME NEW i \in ItemId, NEW b \in 0 .. Len(branches'), NEW u \in Turns,
               PromptOf(i, b, u)'
        PROVE  /\ Indexed(stored', i, b) \/ Cleared(b)'
               /\ pc'[u] \in {"pausing", "paused", "waiting", "stopped"}
    <2>1. PromptOf(i, b, u) /\ b \in 0 .. Len(branches)
      BY <1>1, <1>3 DEF PromptOf, Tree
    <2>2. Indexed(stored, i, b) \/ Cleared(b)
      BY <1>1, <2>1 DEF IndexKept
    <2>3. Cleared(b) => Cleared(b)'
      BY <2>1, ClearedKept
    <2>4. Indexed(stored, i, b) => Indexed(stored', i, b)
      BY DEF Indexed
    <2> QED
      BY <1>1, <2>1, <2>2, <2>3, <2>4 DEF IndexKept
  <1> HIDE DEF EditInv, TreeInv, SerialInv, TypeInv
  <1>4. IndexKept'
    BY <1>1, <1>3 DEF IndexKept, Indexed
  <1> QED
    BY <1>2, <1>4

\* EditInv is inductive while operations do not overlap and no save fails.
LEMMA EditNext ==
  ASSUME EditInv, [Next]_vars, ~MayOverlap, ~MayCutForks, SaveOutcomes = {TRUE}
  PROVE  EditInv'
  <1>1. TreeInv' /\ ForksKept'
    BY TreeNext, ForksNext DEF EditInv
  <1>2. CASE \E t \in Turns : Turn(t)
    BY <1>1, <1>2, RolesTurn, IndexTurn DEF EditInv
  <1>3. Migrate(stored).index = stored.index /\ Migrate(stored) \in Metadata
    BY InStepFacts, MigrateType DEF EditInv, TreeInv, SerialInv, TypeInv, TypeOK, LegacyInStep
  <1>4. ASSUME NEW b \in Branch, SwitchBranch(b) PROVE EditInv'
    <2>1. /\ Quiet /\ UNCHANGED <<items, tag, turnVars>>
          /\ stored' = [Migrate(stored) EXCEPT !.cur = b]
      BY <1>4 DEF SwitchBranch
    <2>2. stored'.index = stored.index
      BY <1>3, <2>1 DEF Metadata
    <2> QED
      BY <1>1, <2>1, <2>2, BetweenTurns DEF EditInv
  <1>5. ASSUME NEW f \in ItemId, NEW e \in ItemId, CreateBranch(f, e) PROVE EditInv'
    <2>1. /\ Quiet /\ UNCHANGED <<items, tag, turnVars>>
          /\ stored'.index = Migrate(stored).index
      BY <1>5, CreateEffects DEF EditInv
    <2> QED
      BY <1>1, <1>3, <2>1, BetweenTurns DEF EditInv
  <1>6. CASE UNCHANGED vars
    <2>1. UNCHANGED <<branches, items, tag, rows, stored, pc, meta, message, prompt>>
      BY <1>6 DEF vars, tableVars, turnVars
    <2>2. \A b : Cleared(b)' <=> Cleared(b)
      BY <2>1 DEF Cleared, Lineage, Parent, Fork
    <2>3. \A b : Lineage(b)' = Lineage(b)
      BY <2>1 DEF Lineage, Parent, Fork
    <2>4. Roles'
      BY <2>1, <2>3 DEF EditInv, Roles, Current
    <2>5. IndexKept'
      BY <2>1, <2>2 DEF EditInv, IndexKept, PromptOf, Unwritten, Indexed, InProgress, Current
    <2> QED
      BY <1>1, <2>4, <2>5 DEF EditInv
  <1> QED
    BY <1>2, <1>4, <1>5, <1>6 DEF Next

\* Every item belongs to a turn.
LEMMA ItemTurn ==
  ASSUME TypeOK, NEW f \in 1 .. Len(items)
  PROVE  items[f].turn \in Turns
  <1> DEFINE Item == [turn : Turns, role : Role]
  <1>1. items \in Seq(Item)
    BY DEF TypeOK
  <1>2. \A x \in Item : x.turn \in Turns
    OBVIOUS
  <1> HIDE DEF Item
  <1>3. items[f] \in Item
    BY <1>1
  <1> QED
    BY <1>2, <1>3

\* A branch made by editing the answer to a prompt waits at that prompt.
LEMMA EditRestores ==
  ASSUME EditInv, NEW f \in ItemId, NEW e \in ItemId, CreateBranch(f, e), ~MayOverlap,
         items[f].role = "prompt", ~Cleared(tag[f])
  PROVE  stored'.by[Len(branches')].anchor = branches'[Len(branches')].fork
  <1> DEFINE new == Len(branches) + 1
             r   == Restorable(Migrate(stored), tag[f], f)
  <1>1. /\ Quiet /\ f \in rows /\ e \in ItemId
        /\ new \in Branch /\ Len(branches') = new
        /\ branches'[new] = [parent |-> tag[f], fork |-> f]
        /\ \A b \in Branch : stored'.by[b] =
              IF b # new THEN Migrate(stored).by[b]
              ELSE IF r = NoWait THEN NoWait ELSE [r EXCEPT !.input = e]
    BY CreateEffects DEF EditInv
  <1> USE DEF EditInv, TreeInv, SerialInv, TypeInv
  <1>2. Migrate(stored) \in Metadata /\ Migrate(stored).index = stored.index
    BY InStepFacts, MigrateType DEF TypeOK, LegacyInStep
  <1>3. tag[f] \in Branch /\ tag[f] \in 0 .. Len(branches)
    BY DEF TypeOK, Tree
  <1>4. PICK u \in Turns : PromptOf(f, tag[f], u)
    <2>1. Unwritten = {} /\ f \in 1 .. Len(items)
      BY <1>1, NoneUnwritten DEF TypeOK
    <2>4. items[f].turn \in Turns
      BY <2>1, ItemTurn
    <2> QED
      BY <2>1, <2>4 DEF PromptOf
  <1>5. Indexed(stored, f, tag[f])
    <2>1. ~InProgress(u)
      BY <1>1 DEF Quiet
    <2> QED
      BY <1>3, <1>4, <2>1 DEF IndexKept
  <1>6. r.anchor = f
    BY <1>2, <1>3, <1>5, RestorableAnchor DEF Indexed
  <1>7. r \in WaitState \cup {NoWait}
    BY <1>2, <1>3, RestorableType
  <1> HIDE DEF r, new
  <1>8. r # NoWait
    BY <1>6, BranchFacts DEF NoWait
  <1>9. stored'.by[new] = [r EXCEPT !.input = e]
    BY <1>1, <1>8
  <1>10. stored'.by[new].anchor = f
    BY <1>6, <1>7, <1>8, <1>9 DEF WaitState
  <1> QED
    BY <1>1, <1>10

\* While operations on a thread do not overlap, no save fails and no retry
\* deletes a fork point, editing the message that answered a prompt resumes the
\* workflow at that prompt, unless a turn of that branch has failed or ended
\* without waiting: the entry of _set_wait_state_metadata's index survives every
\* later turn, branch change and save.
THEOREM EditingResumes ==
  ~MayOverlap /\ ~MayCutForks /\ SaveOutcomes = {TRUE} => (Spec => EditResumes)
  <1> SUFFICES ASSUME ~MayOverlap, ~MayCutForks, SaveOutcomes = {TRUE}
               PROVE  Spec => EditResumes
    OBVIOUS
  <1>1. EditInv /\ [Next]_vars => EditInv'
    BY EditNext
  <1>2. EditInv /\ [Next]_vars =>
          [Len(branches') > Len(branches) =>
             LET new == Len(branches')
                 f   == branches'[new].fork
             IN  items[f].role = "prompt" /\ ~Cleared(tag[f])
                 => stored'.by[new].anchor = f]_vars
    <2> SUFFICES ASSUME EditInv, [Next]_vars, Len(branches') > Len(branches),
                        items[branches'[Len(branches')].fork].role = "prompt",
                        ~Cleared(tag[branches'[Len(branches')].fork])
                 PROVE  stored'.by[Len(branches')].anchor = branches'[Len(branches')].fork
      OBVIOUS
    <2>1. Len(branches) \in Nat
      BY DEF EditInv, TreeInv, SerialInv, TypeInv, TypeOK
    <2>2. branches' # branches
      BY <2>1
    <2>3. ~ \E t \in Turns : Turn(t)
      BY <2>2, TurnEffects DEF EditInv, TreeInv, SerialInv
    <2>4. PICK f \in ItemId, e \in ItemId : CreateBranch(f, e)
      BY <2>2, <2>3 DEF Next, SwitchBranch, vars, tableVars
    <2>5. branches'[Len(branches')].fork = f
      <3>1. /\ Len(branches') = Len(branches) + 1
            /\ branches'[Len(branches) + 1] = [parent |-> tag[f], fork |-> f]
        BY <2>4, CreateEffects DEF EditInv
      <3> QED
        BY <3>1
    <2> QED
      BY <2>4, <2>5, EditRestores
  <1> QED
    BY EditInit, <1>1, <1>2, PTL DEF Spec, EditResumes
=============================================================================
