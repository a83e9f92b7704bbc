------------------------ MODULE StreamProcessorProofs ------------------------
(***************************************************************************)
(* Proofs about StreamProcessor, for every set of runs and resumers:       *)
(* type correctness, and the inductive invariant behind RegistryLive,      *)
(* OneLiveLoop, SentinelPending and NoOrphanListener.                      *)
(***************************************************************************)
EXTENDS StreamProcessor, SequenceTheorems, FiniteSetTheorems, TLAPS

-----------------------------------------------------------------------------
(* Lemmas about the sentinel in a queue                                    *)

\* Appending keeps a sentinel and adds one exactly when the event is one.
LEMMA HasDoneAppend ==
    ASSUME NEW s \in Seq(Event), NEW e \in Event
    PROVE  HasDone(Append(s, e)) <=> HasDone(s) \/ e.kind = "DONE"
  <1>1. DOMAIN s = 1 .. Len(s) /\ Len(s) \in Nat
    OBVIOUS
  <1>2. DOMAIN Append(s, e) = 1 .. Len(s) + 1
    BY <1>1
  <1>3. \A n \in 1 .. Len(s) : Append(s, e)[n] = s[n]
    BY <1>1
  <1>4. Append(s, e)[Len(s) + 1] = e
    BY <1>1
  <1> QED BY <1>1, <1>2, <1>3, <1>4 DEF HasDone

\* Concatenation keeps the sentinels of both parts.
LEMMA HasDoneConcat ==
    ASSUME NEW s \in Seq(Event), NEW t \in Seq(Event), HasDone(s) \/ HasDone(t)
    PROVE  HasDone(s \o t)
  <1>1. /\ DOMAIN s = 1 .. Len(s) /\ Len(s) \in Nat
        /\ DOMAIN t = 1 .. Len(t) /\ Len(t) \in Nat
        /\ DOMAIN (s \o t) = 1 .. Len(s) + Len(t)
    OBVIOUS
  <1>2. CASE HasDone(s)
    BY <1>1, <1>2 DEF HasDone
  <1>3. CASE HasDone(t)
    <2>1. PICK n \in 1 .. Len(t) : t[n].kind = "DONE"
      BY <1>1, <1>3 DEF HasDone
    <2>2. (s \o t)[Len(s) + n] = t[n] /\ Len(s) + n \in 1 .. Len(s) + Len(t)
      BY <1>1
    <2> QED BY <1>1, <2>1, <2>2 DEF HasDone
  <1> QED BY <1>2, <1>3

\* Taking an event that is not the sentinel loses none.
LEMMA HasDoneTail ==
    ASSUME NEW s \in Seq(Event), s # <<>>, Head(s).kind # "DONE", HasDone(s)
    PROVE  HasDone(Tail(s))
  <1>1. Len(s) \in Nat \ {0} /\ DOMAIN s = 1 .. Len(s) /\ Head(s) = s[1]
    OBVIOUS
  <1>2. /\ DOMAIN Tail(s) = 1 .. Len(s) - 1
        /\ \A n \in 1 .. Len(s) - 1 : Tail(s)[n] = s[n + 1]
    BY <1>1
  <1>3. PICK n \in 1 .. Len(s) : s[n].kind = "DONE"
    BY <1>1 DEF HasDone
  <1>4. n - 1 \in 1 .. Len(s) - 1 /\ Tail(s)[n - 1] = s[n]
    BY <1>1, <1>2, <1>3
  <1> QED BY <1>2, <1>3, <1>4 DEF HasDone

\* A snapshot is a sequence of replaced events.
LEMMA SnapshotType ==
    ASSUME TypeOK, NEW p, NEW s \in Snapshots(p)
    PROVE  [i \in DOMAIN s |-> Ev("replaced", s[i])] \in Seq(Event)
  <1> DEFINE items == {r \in active_items : procOf[r] = p}
             n == Cardinality(items)
  <1>1. items \subseteq Runs /\ IsFiniteSet(items)
    BY RunsAssumption, FS_Subset DEF TypeOK
  <1>2. n \in Nat
    BY <1>1, FS_CardinalityType
  <1>3. s \in [1 .. n -> items]
    BY DEF Snapshots
  <1>4. DOMAIN s = 1 .. n /\ \A i \in 1 .. n : s[i] \in Runs
    BY <1>1, <1>3
  <1>5. \A i \in 1 .. n : Ev("replaced", s[i]) \in Event
    BY <1>4 DEF Ev, Event, EventKind
  <1>6. [i \in 1 .. n |-> Ev("replaced", s[i])] \in [1 .. n -> Event]
    BY <1>5
  <1> QED BY <1>2, <1>4, <1>6, SeqDef

-----------------------------------------------------------------------------
(* The inductive invariant                                                 *)

\* A run that has tasks, or is about to attach, knows its processor.
Assigned == \A r \in Runs :
    (wf[r] # "none" \/ loop[r] # "none" \/ client[r] = "starting")
        => procOf[r] \in Runs

\* Nothing refers to a run that has not been started.
Fresh == \A r \in Runs : client[r] \in {"idle", "loaded"} =>
    /\ wf[r] = "none" /\ loop[r] = "none"
    /\ current[r] = NoRun /\ registry # r
    /\ \A t \in Runs : procOf[t] # r
    /\ \A c \in Clients : attachedTo[c] # r

\* A processor is served when its current run's loop is alive.
ServedByCurrent(p) == /\ current[p] \in Runs
             /\ procOf[current[p]] = p
             /\ Live(current[p])

LiveIsCurrent == \A r \in Runs : Live(r) => current[procOf[r]] = r

RegistryServed == registry # NoRun => ServedByCurrent(registry)

ListenersServed == \A c \in Clients \ AutoStarted :
    attachedTo[c] # NoRun => HasDone(inbox[c]) \/ ServedByCurrent(attachedTo[c])

NobodyLate == \A r \in Runs : client[r] = "starting" => r \in AutoStarted

Linked == /\ Assigned /\ Fresh
          /\ LiveIsCurrent /\ RegistryServed /\ SentinelPending
          /\ ListenersServed /\ NobodyLate

StreamInv == TypeOK /\ Linked

\* A server without tasks, queues or clients satisfies the invariant.
LEMMA InitInv == Init => StreamInv
  <1> SUFFICES ASSUME Init PROVE StreamInv OBVIOUS
  <1> USE RunsAssumption, BoundsAssumption DEF Init
  <1>1. TypeOK
    <2>1. Absent \in Version /\ \A r \in Runs : Ev("end", r) \in Event
      BY DEF Version, Absent, Event, EventKind, Ev
    <2>2. /\ registry \in Runs \cup {NoRun}
          /\ procOf \in [Runs -> Runs \cup {NoRun}]
          /\ current \in [Runs -> Runs \cup {NoRun}]
          /\ event_queue \in [Runs -> Seq(Event)]
          /\ active_items \in SUBSET Runs
          /\ text \in [Runs -> Nat]
          /\ wf \in [Runs -> WfState]
          /\ emitted \in [Runs -> Version]
          /\ loop \in [Runs -> LoopState]
          /\ held \in [Runs -> Event]
      BY <2>1 DEF WfState, LoopState
    <2>3. /\ client \in [Clients -> ClientState]
          /\ attachedTo \in [Clients -> Runs \cup {NoRun}]
          /\ inbox \in [Clients -> Seq(Event)]
          /\ pending \in [Clients -> SUBSET Write]
          /\ view \in [Clients -> [Runs -> Version]]
      BY <2>1 DEF ClientState
    <2>4. /\ db \in [Runs -> Version]
          /\ tempRows \subseteq Runs \X (Clients \cup {NoRun})
          /\ orphans \subseteq Write
          /\ closedMem \subseteq Runs
          /\ statusSeen \subseteq Runs
          /\ dbClosed \in BOOLEAN
      BY <2>1
    <2> QED BY <2>2, <2>3, <2>4 DEF TypeOK
  <1>2. Assigned /\ Fresh /\ LiveIsCurrent /\ RegistryServed /\ SentinelPending
    BY DEF Assigned, Fresh, LiveIsCurrent, RegistryServed, SentinelPending,
           Live, Clients
  <1>3. ListenersServed /\ NobodyLate
    BY DEF ListenersServed, NobodyLate, Clients
  <1> QED BY <1>1, <1>2, <1>3 DEF StreamInv, Linked

-----------------------------------------------------------------------------
(* Type correctness                                                        *)

\* What a loop writes to the store is a write.
LEMMA HeldWriteType ==
    ASSUME TypeOK, NEW r \in Runs
    PROVE  HeldWrite(r) \in Write
  BY BoundsAssumption
  DEF TypeOK, HeldWrite, Write, Event, EventKind, Version, Final

\* Cancelling a task of start() leaves a legal task state.
LEMMA CancelledType ==
    /\ \A x \in WfState : Cancelled(x) \in WfState
    /\ \A x \in LoopState : Cancelled(x) \in LoopState
  BY DEF Cancelled, WfState, LoopState

\* A write that reaches the database leaves well-typed rows.
LEMMA LandType ==
    ASSUME TypeOK, NEW w \in Write, Land(w)
    PROVE  /\ db' \in [Runs -> Version]
           /\ tempRows' \subseteq Runs \X (Clients \cup {NoRun})
  <1>1. w.item \in Runs /\ w.ver \in Version /\ w.by \in Clients \cup {NoRun}
    BY DEF Write, Clients
  <1>2. /\ db \in [Runs -> Version]
        /\ tempRows \subseteq Runs \X (Clients \cup {NoRun})
    BY DEF TypeOK
  <1>3. CASE w.kind = "done" /\ w.item \in TemporaryItems
    <2>1. db' = db /\ tempRows' = tempRows \cup {<<w.item, w.by>>}
      BY <1>3 DEF Land
    <2> QED BY <1>1, <1>2, <2>1
  <1>4. CASE ~ (w.kind = "done" /\ w.item \in TemporaryItems)
    <2>1. db' = [db EXCEPT ![w.item] = w.ver] /\ tempRows' = tempRows
      BY <1>4 DEF Land
    <2> QED BY <1>1, <1>2, <2>1
  <1> QED BY <1>3, <1>4

\* Broadcasting an event keeps every listener queue a sequence of events.
LEMMA BroadcastType ==
    ASSUME TypeOK, NEW p, NEW e \in Event, Broadcast(p, e)
    PROVE  inbox' \in [Clients -> Seq(Event)]
  BY DEF TypeOK, Broadcast

\* What a workflow task puts on its processor's queue keeps it well typed.
LEMMA PutType ==
    ASSUME TypeOK, NEW r \in Runs, NEW es \in Seq(Event), Put(r, es)
    PROVE  event_queue' \in [Runs -> Seq(Event)]
  <1>1. /\ procOf[r] \in Runs \cup {NoRun}
        /\ event_queue \in [Runs -> Seq(Event)]
        /\ event_queue' = [event_queue EXCEPT ![procOf[r]] =
                              event_queue[procOf[r]] \o es]
    BY DEF TypeOK, Put
  <1>2. procOf[r] \in Runs => event_queue[procOf[r]] \o es \in Seq(Event)
    BY <1>1, ConcatProperties
  <1> QED BY <1>1, <1>2

\* The events the tasks build are events.
LEMMA EvType == \A k \in EventKind, r \in Runs : Ev(k, r) \in Event
  BY DEF Ev, Event

\* add_listener keeps the client variables well typed.
LEMMA AddListenerType ==
    ASSUME TypeOK, NEW c \in Clients, NEW p \in Runs \cup {NoRun},
           AddListener(c, p)
    PROVE  /\ client' \in [Clients -> ClientState]
           /\ attachedTo' \in [Clients -> Runs \cup {NoRun}]
           /\ inbox' \in [Clients -> Seq(Event)]
  <1>1. PICK s \in Snapshots(p) :
           inbox' = [inbox EXCEPT ![c] = [i \in DOMAIN s |-> Ev("replaced", s[i])]]
    BY DEF AddListener
  <1>2. [i \in DOMAIN s |-> Ev("replaced", s[i])] \in Seq(Event)
    BY SnapshotType
  <1> QED BY <1>1, <1>2 DEF AddListener, TypeOK, ClientState

\* remove_listener keeps the client variables well typed.
LEMMA LeaveType ==
    ASSUME TypeOK, NEW c \in Clients, NEW st \in ClientState, Leave(c, st)
    PROVE  /\ view' \in [Clients -> [Runs -> Version]]
           /\ client' \in [Clients -> ClientState]
           /\ attachedTo' \in [Clients -> Runs \cup {NoRun}]
           /\ inbox' \in [Clients -> Seq(Event)]
           /\ pending' \in [Clients -> SUBSET Write]
  <1>1. [r \in Runs |-> Absent] \in [Runs -> Version]
    BY DEF Version
  <1> QED BY <1>1 DEF Leave, TypeOK

\* respond() preserves the types.
LEMMA RespondTypeOK ==
    ASSUME TypeOK, Assigned, NEW r \in Runs, Respond(r)
    PROVE  TypeOK'
  <1> r \in Clients
    BY DEF Clients
  <1>1. CASE RespondLoad(r)
    BY <1>1 DEF RespondLoad, TypeOK, ClientState, procVars, itemVars,
                storeVars, statusVars
  <1>2. CASE RespondStart(r)
    <2> DEFINE p   == IF registry = NoRun THEN r ELSE registry
               old == current[p]
    <2>1. p \in Runs /\ old \in Runs \cup {NoRun}
      BY DEF TypeOK
    <2>2. /\ registry' \in Runs \cup {NoRun}
          /\ procOf' \in [Runs -> Runs \cup {NoRun}]
          /\ current' \in [Runs -> Runs \cup {NoRun}]
          /\ event_queue' \in [Runs -> Seq(Event)]
      BY <1>2, <2>1 DEF RespondStart, TypeOK
    <2>3. wf' \in [Runs -> WfState]
      <3>1. wf' = [t \in Runs |-> CASE t = r -> "created"
                                    [] t = old -> Cancelled(wf[t])
                                    [] OTHER -> wf[t]]
        BY <1>2 DEF RespondStart
      <3>2. \A t \in Runs : wf[t] \in WfState /\ Cancelled(wf[t]) \in WfState
        BY CancelledType DEF TypeOK
      <3> QED BY <3>1, <3>2 DEF WfState
    <2>4. loop' \in [Runs -> LoopState]
      <3>1. loop' = [t \in Runs |-> CASE t = r -> "created"
                                      [] t = old -> Cancelled(loop[t])
                                      [] OTHER -> loop[t]]
        BY <1>2 DEF RespondStart
      <3>2. \A t \in Runs : loop[t] \in LoopState /\ Cancelled(loop[t]) \in LoopState
        BY CancelledType DEF TypeOK
      <3> QED BY <3>1, <3>2 DEF LoopState
    <2>5. orphans' \subseteq Write
      <3>1. old # NoRun => HeldWrite(old) \in Write
        BY <2>1, HeldWriteType
      <3> QED BY <1>2, <3>1 DEF RespondStart, TypeOK
    <2>6. /\ client' \in [Clients -> ClientState]
          /\ attachedTo' \in [Clients -> Runs \cup {NoRun}]
          /\ inbox' \in [Clients -> Seq(Event)]
      <3>1. CASE r \in AutoStarted
        BY <1>2, <3>1 DEF RespondStart, TypeOK, ClientState
      <3>2. CASE r \notin AutoStarted
        BY <1>2, <2>1, <3>2, AddListenerType DEF RespondStart
      <3> QED BY <3>1, <3>2
    <2>7. dbClosed' \in BOOLEAN
      BY <1>2 DEF RespondStart, TypeOK
    <2> QED
      BY <1>2, <2>2, <2>3, <2>4, <2>5, <2>6, <2>7
      DEF RespondStart, TypeOK, itemVars
  <1>3. CASE RespondAttach(r)
    <2>1. procOf[r] \in Runs \cup {NoRun}
      BY DEF TypeOK
    <2> QED BY <1>3, <2>1, AddListenerType
            DEF RespondAttach, TypeOK, procVars, itemVars, storeVars, statusVars
  <1> QED BY <1>1, <1>2, <1>3 DEF Respond

\* resume_stream() preserves the types.
LEMMA ResumeTypeOK ==
    ASSUME TypeOK, NEW c \in Resumers, Resume(c)
    PROVE  TypeOK'
  <1> c \in Clients
    BY DEF Clients
  <1>1. CASE registry = NoRun
    BY <1>1 DEF Resume, TypeOK, ClientState, procVars, itemVars, storeVars,
                statusVars
  <1>2. CASE registry # NoRun
    <2>1. registry \in Runs \cup {NoRun}
      BY DEF TypeOK
    <2> QED BY <1>2, <2>1, AddListenerType
            DEF Resume, TypeOK, procVars, itemVars, storeVars, statusVars
  <1> QED BY <1>1, <1>2

\* Every step of a workflow task preserves the types.
LEMMA WorkflowTypeOK ==
    ASSUME TypeOK, NEW r \in Runs, Workflow(r)
    PROVE  TypeOK'
  <1> DEFINE two(a, b) == <<Ev(a, r), Ev(b, r)>>
  <1>1. \A k \in EventKind : <<Ev(k, r)>> \in Seq(Event)
    BY EvType
  <1>2. \A a, b \in EventKind : two(a, b) \in Seq(Event)
    BY EvType
  <1>3. {"added", "updated", "done", "end", "error", "DONE"} \subseteq EventKind
    BY DEF EventKind
  <1> HIDE DEF two
  <1> USE DEF procVars, itemVars, clientVars, storeVars, statusVars
  <1>4. CASE WorkflowBegin(r)
    BY <1>4 DEF WorkflowBegin, TypeOK, WfState
  <1>5. CASE WorkflowStream(r)
    <2>1. event_queue' \in [Runs -> Seq(Event)]
      BY <1>1, <1>3, <1>5, PutType DEF WorkflowStream
    <2>2. emitted' \in [Runs -> Version]
      <3>1. 0 \in Version /\ Final \in Version
        BY BoundsAssumption DEF Version, Final
      <3>2. emitted[r] \in 0 .. MaxDeltas - 1 => emitted[r] + 1 \in Version
        BY BoundsAssumption DEF Version
      <3>3. /\ emitted \in [Runs -> Version]
            /\ \/ emitted' = [emitted EXCEPT ![r] = 0]
               \/ /\ emitted[r] \in 0 .. MaxDeltas - 1
                  /\ emitted' = [emitted EXCEPT ![r] = emitted[r] + 1]
               \/ emitted' = [emitted EXCEPT ![r] = Final]
        BY <1>5 DEF WorkflowStream, TypeOK
      <3> HIDE DEF Version
      <3> QED BY <3>1, <3>2, <3>3
    <2> QED BY <1>5, <2>1, <2>2 DEF WorkflowStream, TypeOK
  <1>6. CASE WorkflowClose(r)
    <2>1. event_queue' \in [Runs -> Seq(Event)]
      BY <1>2, <1>3, <1>6, PutType DEF WorkflowClose, two
    <2> QED BY <1>6, <2>1 DEF WorkflowClose, TypeOK, WfState
  <1>7. CASE WorkflowWait(r)
    <2>1. event_queue' \in [Runs -> Seq(Event)]
      BY <1>1, <1>3, <1>7, PutType DEF WorkflowWait
    <2> QED BY <1>7, <2>1 DEF WorkflowWait, TypeOK, WfState
  <1>8. CASE WorkflowWaitSaved(r)
    <2>1. event_queue' \in [Runs -> Seq(Event)]
      BY <1>1, <1>3, <1>8, PutType DEF WorkflowWaitSaved
    <2> QED BY <1>8, <2>1 DEF WorkflowWaitSaved, TypeOK, WfState
  <1>9. CASE WorkflowFail(r)
    <2>1. event_queue' \in [Runs -> Seq(Event)]
      BY <1>2, <1>3, <1>9, PutType DEF WorkflowFail, two
    <2> QED BY <1>9, <2>1 DEF WorkflowFail, TypeOK, WfState
  <1>10. CASE WorkflowCancelled(r)
    <2>1. event_queue' \in [Runs -> Seq(Event)]
      BY <1>1, <1>3, <1>10, PutType DEF WorkflowCancelled, TypeOK
    <2> QED BY <1>10, <2>1 DEF WorkflowCancelled, TypeOK, WfState
  <1> QED
    BY <1>4, <1>5, <1>6, <1>7, <1>8, <1>9, <1>10 DEF Workflow

\* Every step of _run_loop preserves the types; its run has a processor.
LEMMA LoopTypeOK ==
    ASSUME TypeOK, Assigned, NEW r \in Runs, Loop(r)
    PROVE  TypeOK'
  <1> DEFINE p == procOf[r]
             e == Head(event_queue[p])
  <1>1. p \in Runs
    BY DEF Loop, LoopBegin, LoopTake, LoopSaved, LoopDone, LoopCancelled,
           Assigned
  <1>2. event_queue[p] # <<>> =>
           e \in Event /\ Tail(event_queue[p]) \in Seq(Event)
    BY <1>1, HeadTailProperties DEF TypeOK
  <1>3. /\ held[r] \in Event
        /\ Ev("end", r) \in Event /\ Ev("DONE", r) \in Event
    BY EvType DEF TypeOK, EventKind
  <1>4. registry \in Runs \cup {NoRun}
    BY DEF TypeOK
  <1> USE DEF procVars, itemVars, clientVars, storeVars, statusVars
  <1>5. CASE LoopBegin(r)
    BY <1>5 DEF LoopBegin, TypeOK, LoopState
  <1>6. CASE LoopTake(r)
    <2>1. event_queue' \in [Runs -> Seq(Event)] /\ e \in Event
      BY <1>1, <1>2, <1>6 DEF LoopTake, TypeOK
    <2>2. active_items' \in SUBSET Runs /\ text' \in [Runs -> Nat]
      <3>1. Apply(e) /\ e.item \in Runs
        BY <1>6, <2>1 DEF LoopTake, Event
      <3> QED BY <3>1 DEF Apply, TypeOK
    <2>3. inbox' \in [Clients -> Seq(Event)]
      BY <1>6, <2>1, BroadcastType DEF LoopTake, TypeOK
    <2>4. loop' \in [Runs -> LoopState] /\ held' \in [Runs -> Event]
      <3>1. \/ /\ loop' = [loop EXCEPT ![r] = "saving"]
               /\ held' = [held EXCEPT ![r] = e]
            \/ loop' = loop /\ held' = held
        BY <1>6 DEF LoopTake
      <3>2. /\ loop \in [Runs -> LoopState] /\ "saving" \in LoopState
            /\ held \in [Runs -> Event]
        BY DEF TypeOK, LoopState
      <3> HIDE DEF e
      <3> QED BY <2>1, <3>1, <3>2
    <2> QED BY <1>6, <2>1, <2>2, <2>3, <2>4 DEF LoopTake, TypeOK
  <1>7. CASE LoopSaved(r)
    <2>1. /\ db' \in [Runs -> Version]
          /\ tempRows' \subseteq Runs \X (Clients \cup {NoRun})
      BY <1>7, HeldWriteType, LandType DEF LoopSaved, TypeOK
    <2>2. inbox' \in [Clients -> Seq(Event)]
      BY <1>3, <1>7, BroadcastType DEF LoopSaved
    <2> QED BY <1>3, <1>7, <2>1, <2>2 DEF LoopSaved, TypeOK, LoopState
  <1>8. CASE LoopDone(r)
    <2>1. event_queue' \in [Runs -> Seq(Event)] /\ e \in Event
      BY <1>1, <1>2, <1>8 DEF LoopDone, TypeOK
    <2>2. inbox' \in [Clients -> Seq(Event)]
      BY <1>8, <2>1, BroadcastType DEF LoopDone
    <2>3. registry' \in Runs \cup {NoRun}
      BY <1>4, <1>8 DEF LoopDone, CleanupRegistry
    <2> QED BY <1>8, <2>1, <2>2, <2>3 DEF LoopDone, TypeOK, LoopState
  <1>9. CASE LoopCancelled(r)
    <2>1. inbox' \in [Clients -> Seq(Event)]
      BY <1>3, <1>9, BroadcastType DEF LoopCancelled, TypeOK
    <2>2. registry' \in Runs \cup {NoRun}
      BY <1>4, <1>9 DEF LoopCancelled, CleanupRegistry
    <2> QED BY <1>3, <1>9, <2>1, <2>2 DEF LoopCancelled, TypeOK, LoopState
  <1> QED BY <1>5, <1>6, <1>7, <1>8, <1>9 DEF Loop

\* What a client shows of an item after an event is a version.
LEMMA SeenType ==
    ASSUME TypeOK, NEW c \in Clients, NEW e \in Event
    PROVE  Seen(c, e) \in Version
  <1>1. view[c][e.item] \in Version /\ text[e.item] \in Nat
    BY DEF TypeOK, Event
  <1>2. Final \in Version /\ 0 \in Version
    BY BoundsAssumption DEF Final, Version
  <1>3. view[c][e.item] # Absent => view[c][e.item] + 1 \in Version
    BY <1>1 DEF Version
  <1> QED BY <1>1, <1>2, <1>3 DEF Seen, Version

\* Every step of a client's generator preserves the types.
LEMMA ConsumeTypeOK ==
    ASSUME TypeOK, NEW c \in Clients, Consume(c)
    PROVE  TypeOK'
  <1> DEFINE e == Head(inbox[c])
  <1>1. inbox[c] # <<>> => e \in Event /\ Tail(inbox[c]) \in Seq(Event)
    BY HeadTailProperties DEF TypeOK
  <1>2. {"finished", "gone", "reading", "yielding", "saving"} \subseteq ClientState
    BY DEF ClientState
  <1> USE DEF procVars, itemVars, clientVars, storeVars, statusVars
  <1>3. CASE ClientTake(c)
    <2>1. e \in Event /\ Seen(c, e) \in Version /\ e.item \in Runs
      BY <1>1, <1>3, SeenType DEF ClientTake, Event
    <2>2. view' \in [Clients -> [Runs -> Version]]
      BY <1>3, <2>1 DEF ClientTake, TypeOK
    <2>3. [kind |-> e.kind, item |-> e.item, by |-> c, ver |-> Seen(c, e)] \in Write
      BY <2>1 DEF Write, Event, Clients
    <2>4. pending' \in [Clients -> SUBSET Write]
      <3> DEFINE w == [kind |-> e.kind, item |-> e.item, by |-> c, ver |-> Seen(c, e)]
      <3>1. pending' = [pending EXCEPT ![c] = {w}] \/ pending' = pending
        BY <1>3 DEF ClientTake
      <3>2. pending \in [Clients -> SUBSET Write] /\ {w} \in SUBSET Write
        BY <2>3 DEF TypeOK
      <3> HIDE DEF w
      <3> QED BY <3>1, <3>2
    <2>5. client' \in [Clients -> ClientState] /\ inbox' \in [Clients -> Seq(Event)]
      BY <1>1, <1>2, <1>3 DEF ClientTake, TypeOK
    <2> QED BY <1>3, <2>2, <2>4, <2>5 DEF ClientTake, TypeOK
  <1>4. CASE ClientDone(c)
    BY <1>2, <1>4, LeaveType DEF ClientDone, TypeOK
  <1>5. CASE ClientSaved(c)
    <2>1. PICK w \in pending[c], ok \in BOOLEAN :
             /\ IF ok THEN Land(w) ELSE UNCHANGED <<db, tempRows>>
             /\ IF ok \/ w.kind \in {"done", "replaced"}
                THEN /\ client' = [client EXCEPT ![c] = "yielding"]
                     /\ pending' = [pending EXCEPT ![c] = {}]
                     /\ UNCHANGED <<attachedTo, inbox, view>>
                ELSE Leave(c, "finished")
      BY <1>5 DEF ClientSaved, Outcomes
    <2>2. w \in Write
      BY DEF TypeOK
    <2>3. /\ db' \in [Runs -> Version]
          /\ tempRows' \subseteq Runs \X (Clients \cup {NoRun})
      BY <2>1, <2>2, LandType DEF TypeOK
    <2>4. /\ view' \in [Clients -> [Runs -> Version]]
          /\ client' \in [Clients -> ClientState]
          /\ attachedTo' \in [Clients -> Runs \cup {NoRun}]
          /\ inbox' \in [Clients -> Seq(Event)]
          /\ pending' \in [Clients -> SUBSET Write]
      BY <1>2, <2>1, LeaveType DEF TypeOK
    <2> QED BY <1>5, <2>3, <2>4 DEF ClientSaved, TypeOK
  <1>6. CASE ClientPull(c)
    <2>1. /\ view' \in [Clients -> [Runs -> Version]]
          /\ client' \in [Clients -> ClientState]
          /\ attachedTo' \in [Clients -> Runs \cup {NoRun}]
          /\ inbox' \in [Clients -> Seq(Event)]
          /\ pending' \in [Clients -> SUBSET Write]
      BY <1>2, <1>6, LeaveType DEF ClientPull, TypeOK
    <2>2. statusSeen' \subseteq Runs
      BY <1>6 DEF ClientPull, TypeOK
    <2>3. dbClosed' \in BOOLEAN
      BY <1>6 DEF ClientPull, TypeOK, Outcomes
    <2> QED BY <1>6, <2>1, <2>2, <2>3 DEF ClientPull, TypeOK
  <1> QED BY <1>3, <1>4, <1>5, <1>6 DEF Consume

\* Every step of the specification preserves the types.
LEMMA NextTypeOK ==
    ASSUME TypeOK, Assigned, [Next]_vars
    PROVE  TypeOK'
  <1> USE DEF procVars, itemVars, clientVars, storeVars, statusVars
  <1>1. CASE UNCHANGED vars
    BY <1>1 DEF vars, TypeOK
  <1>2. ASSUME NEW r \in Runs, Respond(r) \/ Workflow(r) \/ Loop(r)
        PROVE  TypeOK'
    BY <1>2, RespondTypeOK, WorkflowTypeOK, LoopTypeOK
  <1>3. ASSUME NEW c \in Resumers, Resume(c)
        PROVE  TypeOK'
    BY <1>3, ResumeTypeOK
  <1>4. ASSUME NEW c \in Clients, Consume(c) \/ Disconnect(c)
        PROVE  TypeOK'
    <2>1. CASE Consume(c)
      BY <2>1, ConsumeTypeOK
    <2>2. CASE Disconnect(c)
      <3>1. orphans' \subseteq Write
        BY <2>2 DEF Disconnect, TypeOK
      <3>2. Leave(c, "gone") /\ "gone" \in ClientState
        BY <2>2 DEF Disconnect, ClientState
      <3> QED BY <2>2, <3>1, <3>2, LeaveType DEF Disconnect, TypeOK
    <2> QED BY <1>4, <2>1, <2>2
  <1>5. ASSUME NEW w \in orphans, OrphanLands(w)
        PROVE  TypeOK'
    <2>1. w \in Write
      BY DEF TypeOK
    <2>2. /\ db' \in [Runs -> Version]
          /\ tempRows' \subseteq Runs \X (Clients \cup {NoRun})
      BY <1>5, <2>1, LandType DEF OrphanLands, TypeOK
    <2> QED BY <1>5, <2>2 DEF OrphanLands, TypeOK
  <1>6. CASE Rest
    BY <1>1, <1>6 DEF Rest
  <1> QED BY <1>1, <1>2, <1>3, <1>4, <1>5, <1>6 DEF Next

-----------------------------------------------------------------------------
(* The links between registry, tasks, queues and listeners                 *)

\* The links read the client states only through "starting", and through
\* whether a run has been started: a step that leaves tasks, queues and registry
\* alone, and attaches nobody to a run not started, keeps the first five.
LEMMA ServerUntouched ==
    ASSUME Linked,
           UNCHANGED <<procVars, event_queue, wf, loop>>,
           \A r \in Runs : /\ client'[r] = "starting" => client[r] = "starting"
                           /\ client'[r] \in {"idle", "loaded"} =>
                                client[r] \in {"idle", "loaded"},
           \A c \in Clients : \/ attachedTo'[c] \in {attachedTo[c], NoRun}
                              \/ attachedTo'[c] = registry
                              \/ \E t \in Runs : attachedTo'[c] = procOf[t]
    PROVE  (Assigned /\ Fresh /\ LiveIsCurrent /\ RegistryServed /\ SentinelPending)'
  <1> USE RunsAssumption DEF procVars
  <1>1. Assigned' /\ LiveIsCurrent' /\ RegistryServed' /\ SentinelPending'
    BY DEF Linked, Assigned, LiveIsCurrent, RegistryServed, ServedByCurrent,
           SentinelPending, Live
  <1>2. Fresh'
    BY DEF Linked, Fresh
  <1> QED BY <1>1, <1>2

\* Under the same conditions nobody is left behind a dead loop: each client
\* keeps its place (and a sentinel it has), leaves, or joins the registered
\* processor, which is served.
LEMMA ListenersUntouched ==
    ASSUME Linked,
           UNCHANGED <<procVars, event_queue, wf, loop>>,
           \A r \in Runs : client'[r] = "starting" => client[r] = "starting",
           \A c \in Clients \ AutoStarted :
              \/ attachedTo'[c] \in {NoRun, registry}
              \/ /\ attachedTo'[c] = attachedTo[c]
                 /\ HasDone(inbox[c]) => HasDone(inbox'[c])
    PROVE  (ListenersServed /\ NobodyLate)'
  <1> USE DEF procVars
  <1>1. NobodyLate'
    BY DEF Linked, NobodyLate
  <1>2. \A p : ServedByCurrent(p) => ServedByCurrent(p)'
    BY DEF ServedByCurrent, Live
  <1>3. ListenersServed'
    BY <1>2 DEF Linked, ListenersServed, RegistryServed
  <1> QED BY <1>1, <1>3

\* Attaching a client to a processor changes nothing for the other clients.
LEMMA AddListenerEffect ==
    ASSUME TypeOK, NEW c \in Clients, NEW p, AddListener(c, p)
    PROVE  /\ attachedTo'[c] = p /\ client'[c] = "reading"
           /\ \A d \in Clients \ {c} : /\ attachedTo'[d] = attachedTo[d]
                                       /\ inbox'[d] = inbox[d]
                                       /\ client'[d] = client[d]
  BY DEF AddListener, TypeOK

\* Leaving detaches the client and changes nothing for the others.
LEMMA LeaveEffect ==
    ASSUME TypeOK, NEW c \in Clients, NEW st, Leave(c, st)
    PROVE  /\ attachedTo'[c] = NoRun /\ client'[c] = st
           /\ \A d \in Clients \ {c} : /\ attachedTo'[d] = attachedTo[d]
                                       /\ inbox'[d] = inbox[d]
                                       /\ client'[d] = client[d]
  BY DEF Leave, TypeOK

\* start() keeps the links: the queue it drains belongs to the run it cancels,
\* whose loop is the only live one of that processor.
LEMMA RespondStartLinked ==
    ASSUME StreamInv, NEW r \in Runs, RespondStart(r)
    PROVE  Linked'
  <1> USE RunsAssumption DEF StreamInv
  <1>0. PICK p \in Runs : p = IF registry = NoRun THEN r ELSE registry
    BY DEF TypeOK
  <1>0a. PICK old \in Runs \cup {NoRun} : old = current[p]
    BY DEF TypeOK
  <1>1. TypeOK /\ Linked /\ r \in Clients
    BY DEF Clients
  <1>2. /\ wf[r] = "none" /\ loop[r] = "none" /\ current[r] = NoRun
        /\ registry # r /\ \A t \in Runs : procOf[t] # r
        /\ \A c \in Clients : attachedTo[c] # r
    BY DEF RespondStart, Linked, Fresh
  <1>3. old # r
    <2>1. registry # NoRun => procOf[current[registry]] = registry
                              /\ Live(current[registry])
      BY DEF Linked, RegistryServed, ServedByCurrent
    <2> QED BY <1>0, <1>0a, <1>2, <2>1 DEF TypeOK, Live
  <1>4. /\ registry' = p
        /\ procOf' = [procOf EXCEPT ![r] = p]
        /\ current' = [current EXCEPT ![p] = r]
        /\ event_queue' = [event_queue EXCEPT ![p] = <<>>]
        /\ wf' = [t \in Runs |-> CASE t = r -> "created"
                                   [] t = old -> Cancelled(wf[t])
                                   [] OTHER -> wf[t]]
        /\ loop' = [t \in Runs |-> CASE t = r -> "created"
                                     [] t = old -> Cancelled(loop[t])
                                     [] OTHER -> loop[t]]
    BY <1>0, <1>0a DEF RespondStart
  <1>5. /\ procOf'[r] = p /\ current'[p] = r /\ wf'[r] = "created"
        /\ loop'[r] = "created"
        /\ \A t \in Runs \ {r} : procOf'[t] = procOf[t]
        /\ \A q \in Runs \ {p} : current'[q] = current[q]
                                 /\ event_queue'[q] = event_queue[q]
        /\ \A t \in Runs \ {r, old} : wf'[t] = wf[t] /\ loop'[t] = loop[t]
    BY <1>1, <1>3, <1>4 DEF TypeOK
  <1>6. /\ old \in Runs => ~Live(old)'
        /\ old \in Runs /\ wf[old] = "none" => wf'[old] = "none"
        /\ old \in Runs /\ loop[old] = "none" => loop'[old] = "none"
    <2>1. old \in Runs => wf'[old] = Cancelled(wf[old])
                          /\ loop'[old] = Cancelled(loop[old])
      BY <1>3, <1>4
    <2>2. \A x \in LoopState : Cancelled(x) \notin {"created", "waiting", "saving"}
      BY DEF Cancelled, LoopState
    <2>3. Cancelled("none") = "none"
      BY DEF Cancelled
    <2>4. old \in Runs => loop[old] \in LoopState
      BY <1>1 DEF TypeOK
    <2> QED BY <2>1, <2>2, <2>3, <2>4 DEF Live
  <1>7. \A t \in Runs \ {r} : Live(t)' => Live(t) /\ t # old /\ procOf[t] # p
    <2> TAKE t \in Runs \ {r}
    <2>1. Live(t)' => t # old /\ Live(t)
      BY <1>5, <1>6 DEF Live
    <2>2. Live(t) => current[procOf[t]] = t
      BY <1>1 DEF Linked, LiveIsCurrent
    <2> QED BY <1>0a, <2>1, <2>2
  <1>8. /\ \A c \in Clients \ {r} : /\ attachedTo'[c] = attachedTo[c]
                                    /\ inbox'[c] = inbox[c]
                                    /\ client'[c] = client[c]
        /\ attachedTo'[r] \in {attachedTo[r], p}
        /\ client'[r] \in {"starting", "reading"}
        /\ r \notin AutoStarted => client'[r] = "reading" /\ attachedTo'[r] = p
    <2>1. CASE r \in AutoStarted
      BY <1>1, <2>1 DEF RespondStart, TypeOK
    <2>2. CASE r \notin AutoStarted
      BY <1>0, <1>1, <2>2, AddListenerEffect DEF RespondStart
    <2> QED BY <2>1, <2>2
  <1>9. Assigned'
    <2>1. Runs \subseteq Clients
      BY DEF Clients
    <2> QED BY <1>1, <1>3, <1>5, <1>6, <1>8, <2>1 DEF Linked, Assigned
  <1>10. Fresh'
    <2> SUFFICES ASSUME NEW t \in Runs, client'[t] \in {"idle", "loaded"}
                 PROVE  /\ wf'[t] = "none" /\ loop'[t] = "none"
                        /\ current'[t] = NoRun /\ registry' # t
                        /\ \A s \in Runs : procOf'[s] # t
                        /\ \A c \in Clients : attachedTo'[c] # t
      BY DEF Fresh
    <2>1. t # r /\ t \in Clients
      BY <1>8 DEF Clients
    <2>2. client[t] \in {"idle", "loaded"}
      BY <1>8, <2>1
    <2>3. /\ wf[t] = "none" /\ loop[t] = "none"
          /\ current[t] = NoRun /\ registry # t
          /\ \A s \in Runs : procOf[s] # t
          /\ \A c \in Clients : attachedTo[c] # t
      BY <1>1, <2>2 DEF Linked, Fresh
    <2>4. p # t
      BY <1>0, <2>1, <2>3
    <2> QED BY <1>1, <1>3, <1>4, <1>5, <1>6, <1>8, <2>1, <2>3, <2>4
  <1>11. LiveIsCurrent'
    <2> SUFFICES ASSUME NEW t \in Runs, Live(t)'
                 PROVE  current'[procOf'[t]] = t
      BY DEF LiveIsCurrent
    <2>1. CASE t = r
      BY <1>5, <2>1
    <2>2. CASE t # r
      <3>1. Live(t) /\ procOf[t] # p /\ procOf'[t] = procOf[t]
        BY <1>5, <1>7, <2>2
      <3>2. procOf[t] \in Runs /\ current[procOf[t]] = t
        BY <1>1, <3>1 DEF Linked, Assigned, LiveIsCurrent, Live
      <3> QED BY <1>5, <3>1, <3>2
    <2> QED BY <2>1, <2>2
  <1>12. RegistryServed' /\ ServedByCurrent(p)'
    BY <1>3, <1>4, <1>5 DEF RegistryServed, ServedByCurrent, Live
  <1>13. SentinelPending'
    <2> SUFFICES ASSUME NEW t \in Runs, Live(t)', wf'[t] \in {"doomed", "done"}
                 PROVE  HasDone(event_queue'[procOf'[t]])
      BY DEF SentinelPending, HasDone
    <2>1. t # r
      BY <1>5
    <2>2. Live(t) /\ t # old /\ procOf[t] # p /\ procOf'[t] = procOf[t]
      BY <1>5, <1>7, <2>1
    <2>3. procOf[t] \in Runs /\ wf'[t] = wf[t]
      BY <1>1, <1>5, <2>1, <2>2 DEF Linked, Assigned, Live
    <2>4. HasDone(event_queue[procOf[t]])
      BY <1>1, <2>2, <2>3 DEF Linked, SentinelPending
    <2> QED BY <1>5, <2>2, <2>3, <2>4
  <1>14. (ListenersServed /\ NobodyLate)'
    <2>1. NobodyLate'
      BY <1>1, <1>8 DEF Linked, NobodyLate, Clients
    <2>2. \A q \in Runs : ServedByCurrent(q) => ServedByCurrent(q)'
      <3> SUFFICES ASSUME NEW q \in Runs, ServedByCurrent(q), q # p PROVE ServedByCurrent(q)'
        BY <1>12
      <3>1. current[q] \in Runs /\ procOf[current[q]] = q /\ Live(current[q])
        BY DEF ServedByCurrent
      <3>2. current[q] # r
        BY <1>2, <3>1 DEF Live
      <3>3. current[q] # old
        <4>1. CASE registry = NoRun
          BY <1>0, <1>0a, <1>2, <3>1, <4>1
        <4>2. CASE registry # NoRun
          <5>1. p = registry /\ procOf[old] = registry
            BY <1>0, <1>0a, <1>1, <4>2 DEF Linked, RegistryServed, ServedByCurrent
          <5> QED BY <3>1, <5>1
        <4> QED BY <4>1, <4>2
      <3> QED BY <1>5, <3>1, <3>2, <3>3 DEF ServedByCurrent, Live
    <2>3. ListenersServed'
      <3> SUFFICES ASSUME NEW c \in Clients \ AutoStarted, NEW q,
                          q = attachedTo'[c], q # NoRun
                   PROVE  HasDone(inbox'[c]) \/ ServedByCurrent(q)'
        BY DEF ListenersServed, HasDone, ServedByCurrent
      <3>1. CASE c = r
        BY <1>8, <1>12, <3>1
      <3>2. CASE c # r
        <4>1. q = attachedTo[c] /\ inbox'[c] = inbox[c]
          BY <1>8, <3>2
        <4>2. HasDone(inbox[c]) \/ ServedByCurrent(q)
          BY <1>1, <4>1 DEF Linked, ListenersServed
        <4>3. q \in Runs
          BY <1>1, <4>1 DEF TypeOK
        <4> QED BY <2>2, <4>1, <4>2, <4>3
      <3> QED BY <3>1, <3>2
    <2> QED BY <2>1, <2>3
  <1> QED BY <1>9, <1>10, <1>11, <1>12, <1>13, <1>14 DEF Linked

\* respond() keeps the links.
LEMMA RespondLinked ==
    ASSUME StreamInv, NEW r \in Runs, Respond(r)
    PROVE  Linked'
  <1> USE RunsAssumption DEF StreamInv, procVars
  <1>1. TypeOK /\ Linked /\ r \in Clients /\ Runs \subseteq Clients
    BY DEF Clients
  <1>2. CASE RespondLoad(r)
    <2>1. /\ UNCHANGED <<procVars, event_queue, wf, loop>>
          /\ attachedTo' = attachedTo /\ inbox' = inbox
          /\ client[r] = "idle"
          /\ client' = [client EXCEPT ![r] = IF dbClosed THEN "finished" ELSE "loaded"]
      BY <1>2 DEF RespondLoad
    <2>2. /\ client'[r] \in {"finished", "loaded"}
          /\ \A t \in Runs \ {r} : client'[t] = client[t]
      BY <1>1, <2>1 DEF TypeOK
    <2>3. (Assigned /\ Fresh /\ LiveIsCurrent /\ RegistryServed /\ SentinelPending)'
      BY <1>1, <2>1, <2>2, ServerUntouched
    <2>4. (ListenersServed /\ NobodyLate)'
      BY <1>1, <2>1, <2>2, ListenersUntouched
    <2> QED BY <2>3, <2>4 DEF Linked
  <1>3. CASE RespondStart(r)
    BY <1>3, RespondStartLinked
  <1>4. CASE RespondAttach(r)
    <2>1. /\ UNCHANGED <<procVars, event_queue, wf, loop>>
          /\ client[r] = "starting" /\ AddListener(r, procOf[r])
      BY <1>4 DEF RespondAttach
    <2>2. r \in AutoStarted
      BY <1>1, <2>1 DEF Linked, NobodyLate
    <2>3. (Assigned /\ Fresh /\ LiveIsCurrent /\ RegistryServed /\ SentinelPending)'
      BY <1>1, <2>1, AddListenerEffect, ServerUntouched
    <2>4. (ListenersServed /\ NobodyLate)'
      BY <1>1, <2>1, <2>2, AddListenerEffect, ListenersUntouched
    <2> QED BY <2>3, <2>4 DEF Linked
  <1> QED BY <1>2, <1>3, <1>4 DEF Respond

\* resume_stream() keeps the links.
LEMMA ResumeLinked ==
    ASSUME StreamInv, NEW c \in Resumers, Resume(c)
    PROVE  Linked'
  <1> USE RunsAssumption DEF StreamInv, procVars
  <1>1. TypeOK /\ Linked /\ c \in Clients /\ Runs \subseteq Clients
    BY DEF Clients
  <1>2. CASE Resume(c) /\ registry = NoRun
    <2>1. /\ UNCHANGED <<procVars, event_queue, wf, loop>>
          /\ attachedTo' = attachedTo /\ inbox' = inbox
          /\ client' = [client EXCEPT ![c] = "finished"]
      BY <1>2 DEF Resume
    <2>2. \A t \in Runs : client'[t] = client[t]
      BY <1>1, <2>1 DEF TypeOK
    <2>3. (Assigned /\ Fresh /\ LiveIsCurrent /\ RegistryServed /\ SentinelPending)'
      BY <1>1, <2>1, <2>2, ServerUntouched
    <2>4. (ListenersServed /\ NobodyLate)'
      BY <1>1, <2>1, <2>2, ListenersUntouched
    <2> QED BY <2>3, <2>4 DEF Linked
  <1>3. CASE Resume(c) /\ registry # NoRun
    <2>1. /\ UNCHANGED <<procVars, event_queue, wf, loop>>
          /\ AddListener(c, registry)
      BY <1>3 DEF Resume
    <2>2. /\ attachedTo'[c] = registry
          /\ \A d \in Clients \ {c} : attachedTo'[d] = attachedTo[d] /\ inbox'[d] = inbox[d]
          /\ \A t \in Runs : client'[t] = client[t]
      BY <1>1, <2>1, AddListenerEffect
    <2>3. (Assigned /\ Fresh /\ LiveIsCurrent /\ RegistryServed /\ SentinelPending)'
      BY <1>1, <2>1, <2>2, ServerUntouched
    <2>4. (ListenersServed /\ NobodyLate)'
      BY <1>1, <2>1, <2>2, ListenersUntouched
    <2> QED BY <2>3, <2>4 DEF Linked
  <1> QED BY <1>2, <1>3 DEF Resume

\* A client's generator, and its end, keep the links: it takes an event that is
\* not the sentinel, or leaves the listeners.
LEMMA ConsumeLinked ==
    ASSUME StreamInv, NEW c \in Clients, Consume(c) \/ Disconnect(c)
    PROVE  Linked'
  <1> USE DEF StreamInv, procVars
  <1>1. TypeOK /\ Linked /\ Runs \subseteq Clients
    BY DEF Clients
  <1>2. UNCHANGED <<procVars, event_queue, wf, loop>>
    BY DEF Consume, Disconnect, ClientTake, ClientDone, ClientSaved, ClientPull
  <1>3. /\ client'[c] \in {"finished", "gone", "yielding", "saving", "reading"}
        /\ \A d \in Clients \ {c} : /\ attachedTo'[d] = attachedTo[d]
                                    /\ inbox'[d] = inbox[d]
                                    /\ client'[d] = client[d]
        /\ \/ attachedTo'[c] = NoRun
           \/ /\ attachedTo'[c] = attachedTo[c]
              /\ HasDone(inbox[c]) => HasDone(inbox'[c])
    <2>1. CASE ClientTake(c)
      <3>1. /\ inbox[c] # <<>> /\ Head(inbox[c]).kind # "DONE"
            /\ inbox' = [inbox EXCEPT ![c] = Tail(inbox[c])]
            /\ attachedTo' = attachedTo
            /\ \/ client' = [client EXCEPT ![c] = "saving"]
               \/ client' = [client EXCEPT ![c] = "yielding"]
        BY <2>1 DEF ClientTake
      <3>2. HasDone(inbox[c]) => HasDone(Tail(inbox[c]))
        BY <1>1, <3>1, HasDoneTail DEF TypeOK
      <3> QED BY <1>1, <3>1, <3>2 DEF TypeOK
    <2>2. CASE \E st \in {"finished", "gone"} : Leave(c, st)
      BY <1>1, <2>2, LeaveEffect
    <2>3. CASE /\ UNCHANGED <<attachedTo, inbox>>
               /\ \/ client' = [client EXCEPT ![c] = "yielding"]
                  \/ client' = [client EXCEPT ![c] = "reading"]
      BY <1>1, <2>3 DEF TypeOK
    <2> QED BY <2>1, <2>2, <2>3
            DEF Consume, Disconnect, ClientDone, ClientSaved, ClientPull
  <1>4. (Assigned /\ Fresh /\ LiveIsCurrent /\ RegistryServed /\ SentinelPending)'
    BY <1>1, <1>2, <1>3, ServerUntouched
  <1>5. (ListenersServed /\ NobodyLate)'
    BY <1>1, <1>2, <1>3, ListenersUntouched
  <1> QED BY <1>4, <1>5 DEF Linked

\* A workflow task only appends to its processor's queue, and its last step
\* appends the sentinel unless the task never began.
LEMMA WorkflowLinked ==
    ASSUME StreamInv, NEW r \in Runs, Workflow(r)
    PROVE  Linked'
  <1> USE RunsAssumption DEF StreamInv
  <1>1. TypeOK /\ Linked /\ Runs \subseteq Clients
    BY DEF Clients
  <1>2. UNCHANGED <<procVars, loop, clientVars>>
    BY DEF Workflow, WorkflowBegin, WorkflowStream, WorkflowClose, WorkflowWait,
           WorkflowWaitSaved, WorkflowFail, WorkflowCancelled
  <1>3. /\ wf[r] # "none" /\ wf'[r] # "none"
        /\ \A t \in Runs \ {r} : wf'[t] = wf[t]
    BY <1>1 DEF TypeOK, Workflow, WorkflowBegin, WorkflowStream, WorkflowClose,
           WorkflowWait, WorkflowWaitSaved, WorkflowFail, WorkflowCancelled
  <1>4. /\ procOf[r] \in Runs
        /\ client[r] \notin {"idle", "loaded"}
    BY <1>1, <1>3 DEF Linked, Assigned, Fresh
  <1>5. \E es \in Seq(Event) :
           /\ event_queue' = [event_queue EXCEPT ![procOf[r]] = event_queue[procOf[r]] \o es]
           /\ wf'[r] \in {"doomed", "done"} => HasDone(es) \/ wf[r] = "doomed"
    <2> DEFINE Puts == \E es \in Seq(Event) :
           /\ event_queue' = [event_queue EXCEPT ![procOf[r]] = event_queue[procOf[r]] \o es]
           /\ wf'[r] \in {"doomed", "done"} => HasDone(es) \/ wf[r] = "doomed"
    <2>1. \A k \in EventKind : <<Ev(k, r)>> \in Seq(Event)
      BY EvType
    <2>2. \A k \in EventKind : <<Ev(k, r), Ev("DONE", r)>> \in Seq(Event)
      BY EvType DEF EventKind
    <2>3. HasDone(<<Ev("DONE", r)>>)
      BY DEF HasDone, Ev
    <2>4. \A k : HasDone(<<Ev(k, r), Ev("DONE", r)>>)
      <3> TAKE k
      <3>1. 2 \in DOMAIN <<Ev(k, r), Ev("DONE", r)>>
        OBVIOUS
      <3> QED BY <3>1 DEF HasDone, Ev
    <2>5. {"added", "updated", "done", "end", "error", "DONE"} \subseteq EventKind
      BY DEF EventKind
    <2>6. ASSUME event_queue' = event_queue, wf'[r] \notin {"doomed", "done"} \/ wf[r] = "doomed"
          PROVE  Puts
      <3>1. <<>> \in Seq(Event) /\ event_queue[procOf[r]] \o <<>> = event_queue[procOf[r]]
        BY <1>1, <1>4 DEF TypeOK
      <3>2. event_queue = [event_queue EXCEPT ![procOf[r]] = event_queue[procOf[r]]]
        BY <1>1 DEF TypeOK
      <3> QED BY <2>6, <3>1, <3>2
    <2>7. ASSUME NEW k \in EventKind, Put(r, <<Ev(k, r)>>),
                 k = "DONE" \/ wf'[r] \notin {"doomed", "done"}
          PROVE  Puts
      BY <2>1, <2>3, <2>7 DEF Put
    <2>8. ASSUME NEW k \in EventKind, Put(r, <<Ev(k, r), Ev("DONE", r)>>)
          PROVE  Puts
      BY <2>2, <2>4, <2>8 DEF Put
    <2>9. CASE WorkflowBegin(r)
      BY <1>1, <2>6, <2>9 DEF WorkflowBegin, TypeOK
    <2>10. CASE WorkflowStream(r)
      <3>1. wf'[r] = "running"
        BY <2>10 DEF WorkflowStream
      <3>2. \E k \in EventKind : Put(r, <<Ev(k, r)>>)
        BY <2>5, <2>10 DEF WorkflowStream
      <3> QED BY <2>7, <3>1, <3>2
    <2>11. CASE WorkflowClose(r) \/ WorkflowFail(r)
      BY <2>5, <2>8, <2>11 DEF WorkflowClose, WorkflowFail
    <2>12. CASE WorkflowWait(r)
      <3>1. wf'[r] = "savingWait" /\ Put(r, <<Ev("end", r)>>)
        BY <1>1, <2>12 DEF WorkflowWait, TypeOK
      <3> QED BY <2>5, <2>7, <3>1
    <2>13. CASE WorkflowWaitSaved(r)
      BY <2>5, <2>7, <2>13 DEF WorkflowWaitSaved
    <2>14. CASE WorkflowCancelled(r)
      <3>1. CASE Put(r, <<Ev("DONE", r)>>)
        BY <2>5, <2>7, <3>1
      <3>2. CASE wf[r] = "doomed" /\ event_queue' = event_queue
        BY <2>6, <3>2
      <3> QED BY <2>14, <3>1, <3>2 DEF WorkflowCancelled
    <2> QED BY <2>9, <2>10, <2>11, <2>12, <2>13, <2>14 DEF Workflow
  <1>6. PICK es \in Seq(Event) :
           /\ event_queue' = [event_queue EXCEPT ![procOf[r]] = event_queue[procOf[r]] \o es]
           /\ wf'[r] \in {"doomed", "done"} => HasDone(es) \/ wf[r] = "doomed"
    BY <1>5
  <1> USE DEF procVars, clientVars
  <1>7. Assigned' /\ LiveIsCurrent' /\ RegistryServed'
    BY <1>1, <1>2, <1>3, <1>4
    DEF Linked, Assigned, LiveIsCurrent, RegistryServed, ServedByCurrent, Live
  <1>8. Fresh'
    BY <1>1, <1>2, <1>3, <1>4 DEF Linked, Fresh
  <1>9. SentinelPending'
    <2> SUFFICES ASSUME NEW t \in Runs, Live(t)', wf'[t] \in {"doomed", "done"}
                 PROVE  HasDone(event_queue'[procOf'[t]])
      BY DEF SentinelPending, HasDone
    <2>1. Live(t) /\ procOf'[t] = procOf[t] /\ procOf[t] \in Runs
      BY <1>1, <1>2 DEF Linked, Assigned, Live
    <2>2. /\ event_queue[procOf[r]] \in Seq(Event) /\ event_queue[procOf[t]] \in Seq(Event)
          /\ event_queue'[procOf[r]] = event_queue[procOf[r]] \o es
          /\ procOf[t] # procOf[r] => event_queue'[procOf[t]] = event_queue[procOf[t]]
      BY <1>1, <1>4, <1>6, <2>1 DEF TypeOK
    <2>3. CASE t = r /\ HasDone(es)
      BY <2>1, <2>2, <2>3, HasDoneConcat
    <2>4. CASE wf[t] \in {"doomed", "done"}
      <3>1. HasDone(event_queue[procOf[t]])
        BY <1>1, <2>1, <2>4 DEF Linked, SentinelPending
      <3> QED BY <2>1, <2>2, <3>1, HasDoneConcat
    <2> QED BY <1>3, <1>6, <2>3, <2>4
  <1>10. (ListenersServed /\ NobodyLate)'
    BY <1>1, <1>2 DEF Linked, ListenersServed, NobodyLate, ServedByCurrent, Live
  <1> QED BY <1>7, <1>8, <1>9, <1>10 DEF Linked

\* _run_loop takes the sentinel only to end, and then every listener of its
\* processor has it and the registry has let go of the processor.
LEMMA LoopLinked ==
    ASSUME StreamInv, NEW r \in Runs, Loop(r)
    PROVE  Linked'
  <1> USE RunsAssumption DEF StreamInv
  <1>1. TypeOK /\ Linked /\ Runs \subseteq Clients
    BY DEF Clients
  <1>2. PICK p \in Runs : p = procOf[r]
    BY <1>1 DEF Loop, LoopBegin, LoopTake, LoopSaved, LoopDone, LoopCancelled,
                Linked, Assigned
  <1>3. /\ UNCHANGED <<procOf, current, wf, client, attachedTo>>
        /\ loop[r] # "none" /\ loop'[r] # "none"
        /\ \A t \in Runs \ {r} : loop'[t] = loop[t]
        /\ registry' = registry \/ registry' = NoRun
    BY <1>1 DEF TypeOK, Loop, LoopBegin, LoopTake, LoopSaved, LoopDone,
                LoopCancelled, CleanupRegistry, procVars, clientVars
  <1>4. client[r] \notin {"idle", "loaded"}
    BY <1>1, <1>3 DEF Linked, Fresh
  <1>5. Assigned' /\ Fresh'
    BY <1>1, <1>3, <1>4 DEF Linked, Assigned, Fresh
  <1>6. Live(r)' => Live(r)
    BY <1>1 DEF TypeOK, Live, Loop, LoopBegin, LoopTake, LoopSaved, LoopDone,
                LoopCancelled
  <1>7. LiveIsCurrent'
    BY <1>1, <1>3, <1>6 DEF Linked, LiveIsCurrent, Live
  <1>8. \A t \in Runs \ {r} : Live(t) => Live(t)' /\ procOf[t] \in Runs
                                         /\ (Live(r) => procOf[t] # p)
    BY <1>1, <1>2, <1>3 DEF Linked, LiveIsCurrent, Assigned, Live
  <1>9. \/ Live(r)'
        \/ ~Live(r)
        \/ Live(r) /\ ~Live(r)' /\ LoopDone(r)
    BY <1>1 DEF TypeOK, Live, Loop, LoopBegin, LoopTake, LoopSaved, LoopCancelled
  <1>10. LoopDone(r) => registry' # p
    BY <1>2 DEF LoopDone, CleanupRegistry
  <1>11. \A q \in Runs : ServedByCurrent(q) => ServedByCurrent(q)' \/ (LoopDone(r) /\ q = p)
    BY <1>1, <1>2, <1>3, <1>9 DEF ServedByCurrent, Live
  <1>12. RegistryServed'
    <2> SUFFICES ASSUME NEW q, q = registry', q # NoRun PROVE ServedByCurrent(q)'
      BY DEF RegistryServed
    <2>1. q = registry /\ q \in Runs
      BY <1>1, <1>3 DEF TypeOK
    <2>2. ServedByCurrent(q)
      BY <1>1, <2>1 DEF Linked, RegistryServed
    <2> QED BY <1>10, <1>11, <2>1, <2>2
  <1>13. \A t \in Runs : Live(t)' =>
            (HasDone(event_queue[procOf[t]]) => HasDone(event_queue'[procOf[t]]))
    <2>1. CASE UNCHANGED event_queue
      BY <2>1
    <2>2. CASE LoopTake(r)
      <3>1. /\ event_queue[p] # <<>> /\ Head(event_queue[p]).kind # "DONE"
            /\ event_queue' = [event_queue EXCEPT ![p] = Tail(event_queue[p])]
        BY <1>2, <2>2 DEF LoopTake
      <3>2. HasDone(event_queue[p]) => HasDone(Tail(event_queue[p]))
        BY <1>1, <3>1, HasDoneTail DEF TypeOK
      <3> QED BY <1>1, <3>1, <3>2 DEF TypeOK
    <2>3. CASE LoopDone(r)
      <3>1. /\ loop[r] = "waiting" /\ loop' = [loop EXCEPT ![r] = "done"]
            /\ event_queue' = [event_queue EXCEPT ![p] = Tail(event_queue[p])]
        BY <1>2, <2>3 DEF LoopDone
      <3>2. Live(r) /\ ~Live(r)'
        BY <1>1, <3>1 DEF TypeOK, Live
      <3>3. \A t \in Runs : Live(t)' => procOf[t] # p
        BY <1>3, <1>8, <3>2 DEF Live
      <3> QED BY <1>1, <3>1, <3>3 DEF TypeOK
    <2> QED BY <2>1, <2>2, <2>3 DEF Loop, LoopBegin, LoopSaved, LoopCancelled, procVars
  <1>14. SentinelPending'
    <2> SUFFICES ASSUME NEW t \in Runs, Live(t)', wf'[t] \in {"doomed", "done"}
                 PROVE  HasDone(event_queue'[procOf[t]])
      BY <1>3 DEF SentinelPending, HasDone
    <2>1. Live(t)
      BY <1>3, <1>6 DEF Live
    <2> QED BY <1>1, <1>3, <1>13, <2>1 DEF Linked, SentinelPending
  <1>15. \A c \in Clients : HasDone(inbox[c]) => HasDone(inbox'[c])
    <2>1. CASE UNCHANGED inbox
      BY <2>1
    <2>2. ASSUME NEW e \in Event, Broadcast(p, e)
          PROVE  \A c \in Clients : HasDone(inbox[c]) => HasDone(inbox'[c])
      BY <1>1, <2>2, HasDoneAppend DEF TypeOK, Broadcast
    <2>3. CASE LoopTake(r) \/ LoopDone(r)
      <3>1. event_queue[p] # <<>> => Head(event_queue[p]) \in Event
        BY <1>1, HeadTailProperties DEF TypeOK
      <3> QED BY <1>2, <2>1, <2>2, <2>3, <3>1 DEF LoopTake, LoopDone
    <2>4. CASE LoopSaved(r) \/ LoopCancelled(r)
      <3>1. held[r] \in Event /\ Ev("DONE", r) \in Event
        BY <1>1, EvType DEF TypeOK, EventKind
      <3> QED BY <1>2, <2>1, <2>2, <2>4, <3>1 DEF LoopSaved, LoopCancelled
    <2>5. CASE LoopBegin(r)
      BY <2>1, <2>5 DEF LoopBegin, clientVars
    <2> QED BY <2>3, <2>4, <2>5 DEF Loop
  <1>16. LoopDone(r) => \A c \in Clients : attachedTo[c] = p => HasDone(inbox'[c])
    <2> SUFFICES ASSUME LoopDone(r), NEW c \in Clients, attachedTo[c] = p
                 PROVE  HasDone(inbox'[c])
      OBVIOUS
    <2> DEFINE e == Head(event_queue[p])
    <2>1. e \in Event /\ e.kind = "DONE" /\ Broadcast(p, e)
      BY <1>1, <1>2, HeadTailProperties DEF LoopDone, TypeOK
    <2>2. inbox'[c] = Append(inbox[c], e) /\ inbox[c] \in Seq(Event)
      BY <1>1, <2>1 DEF Broadcast, TypeOK
    <2> HIDE DEF e
    <2> QED BY <2>1, <2>2, HasDoneAppend
  <1>17. (ListenersServed /\ NobodyLate)'
    <2> SUFFICES ASSUME NEW c \in Clients \ AutoStarted,
                        NEW q, q = attachedTo[c], q # NoRun
                 PROVE  HasDone(inbox'[c]) \/ ServedByCurrent(q)'
      BY <1>1, <1>3 DEF Linked, NobodyLate, ListenersServed, HasDone, ServedByCurrent
    <2>1. q \in Runs /\ (HasDone(inbox[c]) \/ ServedByCurrent(q))
      BY <1>1 DEF TypeOK, Linked, ListenersServed
    <2> QED BY <1>11, <1>15, <1>16, <2>1
  <1> QED BY <1>5, <1>7, <1>12, <1>14, <1>17 DEF Linked

\* Every step keeps the invariant.
LEMMA NextInv ==
    ASSUME StreamInv, [Next]_vars
    PROVE  StreamInv'
  <1>1. TypeOK'
    BY NextTypeOK DEF StreamInv, Linked
  <1>2. Linked'
    <2>1. ASSUME UNCHANGED <<procVars, event_queue, wf, loop, clientVars>>
          PROVE  Linked'
      BY <2>1 DEF StreamInv, Linked, procVars, clientVars, Assigned, Fresh,
         LiveIsCurrent, RegistryServed, ServedByCurrent, SentinelPending, Live,
         ListenersServed, NobodyLate
    <2>2. CASE UNCHANGED vars
      BY <2>1, <2>2 DEF vars
    <2>3. ASSUME NEW r \in Runs, Respond(r) PROVE Linked'
      BY <2>3, RespondLinked
    <2>4. ASSUME NEW c \in Resumers, Resume(c) PROVE Linked'
      BY <2>4, ResumeLinked
    <2>5. ASSUME NEW r \in Runs, Workflow(r) \/ Loop(r) PROVE Linked'
      BY <2>5, WorkflowLinked, LoopLinked
    <2>6. ASSUME NEW c \in Clients, Consume(c) \/ Disconnect(c) PROVE Linked'
      BY <2>6, ConsumeLinked
    <2>7. ASSUME NEW w \in orphans, OrphanLands(w) PROVE Linked'
      BY <2>1, <2>7 DEF OrphanLands
    <2>8. CASE Rest
      BY <2>2, <2>8 DEF Rest
    <2> QED BY <2>2, <2>3, <2>4, <2>5, <2>6, <2>7, <2>8 DEF Next
  <1> QED BY <1>1, <1>2 DEF StreamInv

-----------------------------------------------------------------------------
(* The theorems                                                            *)

\* The invariant holds throughout every execution.
THEOREM Invariance == Spec => []StreamInv
  <1>1. Init => StreamInv
    BY InitInv
  <1>2. StreamInv /\ [Next]_vars => StreamInv'
    BY NextInv
  <1> QED BY <1>1, <1>2, PTL DEF Spec

\* The streaming core is type correct for any number of turns and clients.
THEOREM TypeCorrect == Spec => []TypeOK
  <1>1. StreamInv => TypeOK
    BY DEF StreamInv
  <1> QED BY <1>1, Invariance, PTL

\* _stream_registry never holds a processor whose loop is gone, so a client
\* that reconnects always joins a stream that will end.
THEOREM RegistryIsLive == Spec => []RegistryLive
  <1>1. StreamInv => RegistryLive
    BY RunsAssumption DEF StreamInv, Linked, RegistryServed, ServedByCurrent, RegistryLive
  <1> QED BY <1>1, Invariance, PTL

\* However many messages restart a processor, one live loop reads its queue.
THEOREM LoopIsUnique == Spec => []OneLiveLoop
  <1>1. StreamInv => OneLiveLoop
    BY DEF StreamInv, Linked, LiveIsCurrent, OneLiveLoop
  <1> QED BY <1>1, Invariance, PTL

\* A live loop always has an unfinished workflow or a sentinel ahead of it.
THEOREM SentinelNeverLost == Spec => []SentinelPending
  <1>1. StreamInv => SentinelPending
    BY DEF StreamInv, Linked
  <1> QED BY <1>1, Invariance, PTL

\* No listener is ever left behind a loop that is gone, except that of a
\* respond() that yields pre-stream events before it attaches.
THEOREM ListenersReleased == Spec => []NoOrphanListener
  <1>1. StreamInv => NoOrphanListener
    BY DEF StreamInv, Linked, ListenersServed, ServedByCurrent, Served, NoOrphanListener
  <1> QED BY <1>1, Invariance, PTL
=============================================================================
