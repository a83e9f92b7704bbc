--------------------------- MODULE StreamProcessor ---------------------------
(***************************************************************************)
(* The streaming core of the chat server for one thread:                   *)
(*   - _stream_registry and StreamProcessor (chatkit_server/server.py),    *)
(*   - the workflow task respond() starts (_execute_workflow),             *)
(*   - the HTTP streams that consume a processor: respond() for the user   *)
(*     who sent the message, resume_stream() for everyone who reconnects,  *)
(*     both wrapped in ChatKitServer._process_events.                      *)
(*                                                                         *)
(* Everything runs in one asyncio event loop, so the interleaving points   *)
(* are exactly the awaits that suspend.  An await on the processor's lock  *)
(* or a put on its unbounded queues never suspends (no critical section    *)
(* contains a suspension), hence "update, persist" and "broadcast" are the *)
(* two halves of one loop iteration, separated by the database write that  *)
(* asyncio.to_thread performs.                                             *)
(*                                                                         *)
(* A run is one respond() call.  It owns at most one workflow task, one    *)
(* processor loop and one streamed item, all named by the run; a processor *)
(* is named by the run that created it.  The text of an item is the number *)
(* of deltas applied to it.                                                *)
(***************************************************************************)
EXTENDS Integers, Sequences, FiniteSets

CONSTANTS
    Runs,           \* respond() calls on the thread, one streamed item each
    Resumers,       \* threads.resume requests
    NoRun,          \* stands for None / "no such object"
    MaxDeltas,      \* bound: text deltas per item
    Streaming,      \* runs whose agent streams an item; the others only end
    TemporaryItems, \* runs whose item keeps a placeholder id (__fake_id__)
    AutoStarted,    \* runs whose respond() has pre-stream events to yield first
    MayOverlap,     \* TRUE: a message may be sent while a turn is running
    MayDisconnect,  \* TRUE: an HTTP client may go away at any await
    FailingWrites   \* database writes that may fail: kinds of events, "thread"

ASSUME RunsAssumption ==
    /\ Runs # {} /\ IsFiniteSet(Runs)
    /\ NoRun \notin Runs
    /\ Runs \cap Resumers = {}
    /\ Streaming \subseteq Runs
    /\ TemporaryItems \subseteq Runs
    /\ AutoStarted \subseteq Runs

ASSUME BoundsAssumption ==
    /\ MaxDeltas \in Nat
    /\ MayOverlap \in BOOLEAN
    /\ MayDisconnect \in BOOLEAN

Clients == Runs \cup Resumers

\* Versions of an item: Absent, the deltas applied while it streams, then Final
\* (above anything a client can reach by counting a delta twice).
Absent  == -1
Final   == 2 * MaxDeltas + 1
Version == Nat \cup {Absent}

EventKind == {"added", "updated", "done", "end", "error", "replaced", "DONE"}

\* "DONE" is the _STREAM_DONE sentinel; its item names the run that queued it.
Event == [kind : EventKind, item : Runs]
Ev(k, r) == [kind |-> k, item |-> r]

\* A database write: the event that caused it, the version written, and the
\* client whose _process_events issued it (NoRun: the processor's loop).
Write == [kind : EventKind, item : Runs, ver : Version,
          by : Runs \cup Resumers \cup {NoRun}]

VARIABLES
    registry,     \* _stream_registry[thread.id], or NoRun
    procOf,       \* the processor a run's respond() obtained
    current,      \* per processor: the run whose _task and _workflow_task it holds
    event_queue,  \* per processor: its event_queue
    active_items, \* items in active_items of their processor
    text,         \* deltas applied to the processor's copy of an item
    wf,           \* per run: its workflow task
    emitted,      \* per run: version the workflow has produced so far
    loop,         \* per run: its _run_loop task
    held,         \* per run: the event its loop is persisting
    client,       \* per client: where its generator stands
    attachedTo,   \* per client: the processor whose listeners hold its queue
    inbox,        \* per client: its listener queue
    pending,      \* per client: the write _process_events awaits
    view,         \* per client: what _process_events and the browser hold
    db,           \* per item: the version stored under its own id
    tempRows,     \* rows stored under a fresh id for a temporary item
    orphans,      \* writes still in a worker thread after their task died
    closedMem,    \* runs whose in-memory thread.status was closed
    statusSeen,   \* respond() clients that noticed the change and saved it
    dbClosed      \* thread.status as stored

procVars   == <<registry, procOf, current>>
itemVars   == <<active_items, text>>
clientVars == <<client, attachedTo, inbox, pending, view>>
storeVars  == <<db, tempRows, orphans>>
statusVars == <<closedMem, statusSeen, dbClosed>>
vars == <<procVars, event_queue, itemVars, wf, emitted, loop, held,
          clientVars, storeVars, statusVars>>

WfState   == {"none", "created", "doomed", "running", "savingWait",
              "cancelling", "done"}
LoopState == {"none", "created", "doomed", "waiting", "saving", "cancelling",
              "done"}
ClientState == {"idle", "loaded", "starting", "reading", "saving", "yielding",
                "finished", "gone"}

Init ==
    /\ registry = NoRun
    /\ procOf = [r \in Runs |-> NoRun]
    /\ current = [p \in Runs |-> NoRun]
    /\ event_queue = [p \in Runs |-> <<>>]
    /\ active_items = {}
    /\ text = [r \in Runs |-> 0]
    /\ wf = [r \in Runs |-> "none"]
    /\ emitted = [r \in Runs |-> Absent]
    /\ loop = [r \in Runs |-> "none"]
    /\ held = [r \in Runs |-> Ev("end", r)]
    /\ client = [c \in Clients |-> "idle"]
    /\ attachedTo = [c \in Clients |-> NoRun]
    /\ inbox = [c \in Clients |-> <<>>]
    /\ pending = [c \in Clients |-> {}]
    /\ view = [c \in Clients |-> [r \in Runs |-> Absent]]
    /\ db = [r \in Runs |-> Absent]
    /\ tempRows = {}
    /\ orphans = {}
    /\ closedMem = {}
    /\ statusSeen = {}
    /\ dbClosed = FALSE

\* Possible results of a database write.
Outcomes(kind) == IF kind \in FailingWrites THEN BOOLEAN ELSE {TRUE}

-----------------------------------------------------------------------------
(* StreamProcessor: queue, listeners, registry                             *)

\* The put()s under the lock: every listener of p gets the event.
Broadcast(p, e) ==
    inbox' = [c \in Clients |-> IF attachedTo[c] = p THEN Append(inbox[c], e)
                                                     ELSE inbox[c]]

\* The workflow puts events on the queue of the processor it was started on.
Put(r, events) ==
    event_queue' = [event_queue EXCEPT ![procOf[r]] = @ \o events]

\* add_listener: one ThreadItemReplacedEvent per active item, in some order.
\* The event carries a reference to the live object: its text is read on receipt.
Snapshots(p) ==
    LET items == {r \in active_items : procOf[r] = p}
    IN  {s \in [1 .. Cardinality(items) -> items] :
            \A i, j \in DOMAIN s : s[i] = s[j] => i = j}

\* c joins the listeners of p with the snapshot already in its queue.
AddListener(c, p) ==
    /\ \E s \in Snapshots(p) :
          inbox' = [inbox EXCEPT ![c] = [i \in DOMAIN s |-> Ev("replaced", s[i])]]
    /\ attachedTo' = [attachedTo EXCEPT ![c] = p]
    /\ client' = [client EXCEPT ![c] = "reading"]

\* Variant: the loop leaves its processor in the registry.
CleanupRegistryKept(p) == UNCHANGED registry

\* The finally clause of _run_loop.
CleanupRegistry(p) ==
    registry' = IF registry = p THEN NoRun ELSE registry

\* add_thread_item and save_item upsert the row of the item; the final version
\* of a placeholder item goes to a new row under a freshly generated id.
Land(w) ==
    IF w.kind = "done" /\ w.item \in TemporaryItems
    THEN tempRows' = tempRows \cup {<<w.item, w.by>>} /\ UNCHANGED db
    ELSE db' = [db EXCEPT ![w.item] = w.ver] /\ UNCHANGED tempRows

\* The write a loop awaits for the event it holds.
HeldWrite(r) ==
    [kind |-> held[r].kind, item |-> held[r].item, by |-> NoRun,
     ver  |-> CASE held[r].kind = "added"   -> 0
                [] held[r].kind = "updated" -> text[held[r].item]
                [] OTHER                    -> Final]

-----------------------------------------------------------------------------
(* respond(): from the HTTP request to the running workflow                *)

Quiet == /\ registry = NoRun
         /\ \A r \in Runs : wf[r] \in {"none", "done"}

\* load_thread and the status check: a closed thread is refused at once.
RespondLoad(r) ==
    /\ client[r] = "idle"
    /\ MayOverlap \/ (Quiet /\ \A c \in Runs : client[c] # "loaded")
    /\ client' = [client EXCEPT ![r] = IF dbClosed THEN "finished" ELSE "loaded"]
    /\ UNCHANGED <<procVars, event_queue, itemVars, wf, emitted, loop, held,
                   attachedTo, inbox, pending, view, storeVars, statusVars>>

\* Variant: a loop that is in the middle of a write is not cancelled.
CancelledUnlessSaving(state) ==
    CASE state = "created" -> "doomed"
      [] state \in {"running", "waiting", "savingWait"} -> "cancelling"
      [] OTHER -> state

\* start() on a processor that already runs: the old workflow task and loop
\* are cancelled, a task that never ran its first step dies without running
\* its handlers, and the queue is drained before the new tasks exist.
Cancelled(state) ==
    CASE state = "created" -> "doomed"
      [] state \in {"running", "waiting", "saving", "savingWait"} -> "cancelling"
      [] OTHER -> state

\* _ensure_stream_processor, create_task, StreamProcessor.start and, when no
\* pre-stream event has to be yielded first, add_listener: no await suspends.
\* A write the cancelled tasks were awaiting stays in its worker thread.
RespondStart(r) ==
    /\ client[r] = "loaded"
    /\ LET p   == IF registry = NoRun THEN r ELSE registry
           old == current[p]
       IN  /\ registry' = p
           /\ procOf' = [procOf EXCEPT ![r] = p]
           /\ current' = [current EXCEPT ![p] = r]
           /\ event_queue' = [event_queue EXCEPT ![p] = <<>>]
           /\ wf' = [t \in Runs |-> CASE t = r -> "created"
                                      [] t = old -> Cancelled(wf[t])
                                      [] OTHER -> wf[t]]
           /\ loop' = [t \in Runs |-> CASE t = r -> "created"
                                        [] t = old -> Cancelled(loop[t])
                                        [] OTHER -> loop[t]]
           /\ orphans' = IF old # NoRun /\ loop[old] = "saving"
                         THEN orphans \cup {HeldWrite(old)} ELSE orphans
           /\ IF r \in AutoStarted
              THEN /\ client' = [client EXCEPT ![r] = "starting"]
                   /\ UNCHANGED <<attachedTo, inbox>>
              ELSE AddListener(r, p)
           /\ dbClosed' \in IF old # NoRun /\ wf[old] = "savingWait"
                            THEN {dbClosed, FALSE} ELSE {dbClosed}
    /\ UNCHANGED <<itemVars, emitted, held, pending, view, db, tempRows,
                   closedMem, statusSeen>>

\* The pre-stream events have been delivered; only now does respond() attach.
RespondAttach(r) ==
    /\ client[r] = "starting"
    /\ AddListener(r, procOf[r])
    /\ UNCHANGED <<procVars, event_queue, itemVars, wf, emitted, loop, held,
                   pending, view, storeVars, statusVars>>

\* resume_stream: nothing to resume, or attach to the registered processor.
Resume(c) ==
    /\ client[c] = "idle"
    /\ IF registry = NoRun
       THEN /\ client' = [client EXCEPT ![c] = "finished"]
            /\ UNCHANGED <<attachedTo, inbox>>
       ELSE AddListener(c, registry)
    /\ UNCHANGED <<procVars, event_queue, itemVars, wf, emitted, loop, held,
                   pending, view, storeVars, statusVars>>

-----------------------------------------------------------------------------
(* _execute_workflow: one task per run                                     *)

WorkflowBegin(r) ==
    /\ wf[r] = "created"
    /\ wf' = [wf EXCEPT ![r] = "running"]
    /\ UNCHANGED <<procVars, event_queue, itemVars, emitted, loop, held,
                   clientVars, storeVars, statusVars>>

\* The step of a run that streams its item: added, deltas, done.
WorkflowStream(r) ==
    /\ wf[r] = "running"
    /\ \/ /\ emitted[r] = Absent /\ r \in Streaming
          /\ Put(r, <<Ev("added", r)>>)
          /\ emitted' = [emitted EXCEPT ![r] = 0]
       \/ /\ emitted[r] \in 0 .. MaxDeltas - 1
          /\ Put(r, <<Ev("updated", r)>>)
          /\ emitted' = [emitted EXCEPT ![r] = @ + 1]
       \/ /\ emitted[r] \in 0 .. MaxDeltas
          /\ Put(r, <<Ev("done", r)>>)
          /\ emitted' = [emitted EXCEPT ![r] = Final]
    /\ UNCHANGED <<procVars, itemVars, wf, loop, held, clientVars, storeVars,
                   statusVars>>

\* An end block closed the conversation: thread.status changes in memory, the
\* end of turn is queued, and the finally clause queues _STREAM_DONE.
WorkflowClose(r) ==
    /\ wf[r] = "running"
    /\ emitted[r] \in {Absent, Final}
    /\ Put(r, <<Ev("end", r), Ev("DONE", r)>>)
    /\ wf' = [wf EXCEPT ![r] = "done"]
    /\ closedMem' = closedMem \cup {r}
    /\ UNCHANGED <<procVars, itemVars, emitted, loop, held, clientVars,
                   storeVars, statusSeen, dbClosed>>

\* The run stops to wait for the user: the thread is saved before the finally.
WorkflowWait(r) ==
    /\ wf[r] = "running"
    /\ emitted[r] \in {Absent, Final}
    /\ Put(r, <<Ev("end", r)>>)
    /\ wf' = [wf EXCEPT ![r] = "savingWait"]
    /\ UNCHANGED <<procVars, itemVars, emitted, loop, held, clientVars,
                   storeVars, statusVars>>

\* save_thread writes this run's thread object, whose status is active; its
\* failure is logged and ignored.
WorkflowWaitSaved(r) ==
    /\ wf[r] = "savingWait"
    /\ \E ok \in Outcomes("thread") : dbClosed' = (dbClosed /\ ~ok)
    /\ Put(r, <<Ev("DONE", r)>>)
    /\ wf' = [wf EXCEPT ![r] = "done"]
    /\ UNCHANGED <<procVars, itemVars, emitted, loop, held, clientVars,
                   storeVars, closedMem, statusSeen>>

\* Variant: the sentinel is queued on the normal path only.
WorkflowFailWithoutFinally(r) ==
    /\ wf[r] = "running"
    /\ Put(r, <<Ev("error", r)>>)
    /\ wf' = [wf EXCEPT ![r] = "done"]
    /\ UNCHANGED <<procVars, itemVars, emitted, loop, held, clientVars,
                   storeVars, statusVars>>

\* Any exception becomes an ErrorEvent before the finally clause.
WorkflowFail(r) ==
    /\ wf[r] = "running"
    /\ Put(r, <<Ev("error", r), Ev("DONE", r)>>)
    /\ wf' = [wf EXCEPT ![r] = "done"]
    /\ UNCHANGED <<procVars, itemVars, emitted, loop, held, clientVars,
                   storeVars, statusVars>>

\* CancelledError runs the finally clause only if the task had begun.
WorkflowCancelled(r) ==
    /\ \/ wf[r] = "cancelling" /\ Put(r, <<Ev("DONE", r)>>)
       \/ wf[r] = "doomed" /\ UNCHANGED event_queue
    /\ wf' = [wf EXCEPT ![r] = "done"]
    /\ UNCHANGED <<procVars, itemVars, emitted, loop, held, clientVars,
                   storeVars, statusVars>>

-----------------------------------------------------------------------------
(* _run_loop                                                               *)

LoopBegin(r) ==
    /\ loop[r] = "created"
    /\ loop' = [loop EXCEPT ![r] = "waiting"]
    /\ UNCHANGED <<procVars, event_queue, itemVars, wf, emitted, held,
                   clientVars, storeVars, statusVars>>

\* Variant: the finished item's entry is overwritten with None.
ApplyForgetful(e) ==
    CASE e.kind = "added" ->
            /\ active_items' = active_items \cup {e.item}
            /\ text' = [text EXCEPT ![e.item] = 0]
      [] e.kind = "updated" /\ e.item \in active_items ->
            /\ text' = [text EXCEPT ![e.item] = @ + 1]
            /\ UNCHANGED active_items
      [] e.kind = "done" ->
            /\ active_items' = active_items \ {e.item}
            /\ text' = [text EXCEPT ![e.item] = Absent]
      [] OTHER -> UNCHANGED itemVars

\* What taking e does to the in-memory copy of the item.
Apply(e) ==
    CASE e.kind = "added" ->
            /\ active_items' = active_items \cup {e.item}
            /\ text' = [text EXCEPT ![e.item] = 0]
      [] e.kind = "updated" /\ e.item \in active_items ->
            /\ text' = [text EXCEPT ![e.item] = @ + 1]
            /\ UNCHANGED active_items
      [] e.kind = "done" ->
            /\ active_items' = active_items \ {e.item}
            /\ UNCHANGED text
      [] OTHER -> UNCHANGED itemVars

\* Variant: items are written only while somebody watches the stream.
MustPersistWatched(e) ==
    /\ \E c \in Clients : attachedTo[c] = procOf[e.item]
    /\ e.item \notin TemporaryItems
    /\ e.kind \in {"added", "done"}

\* An event is persisted unless its item has a placeholder id; deltas at most
\* once per SAVE_INTERVAL, the first one always.
MustPersist(e) == /\ e.item \notin TemporaryItems
                  /\ \/ e.kind \in {"added", "done"}
                     \/ e.kind = "updated" /\ text[e.item] = 0
                                           /\ e.item \in active_items
MayPersist(e) == MustPersist(e) \/ /\ e.kind = "updated"
                                   /\ e.item \in active_items \ TemporaryItems

\* Variant: the `continue` is taken for every delta that is not written.
SkippedThrottled(e) == e.kind = "updated" /\ e.item \in active_items

\* The `continue` of the update branch: a delta of a temporary item is applied
\* and then neither persisted nor broadcast.
Skipped(e) == e.kind = "updated" /\ e.item \in active_items \cap TemporaryItems

LoopTake(r) ==
    LET p == procOf[r]
        e == Head(event_queue[p])
    IN  /\ loop[r] = "waiting"
        /\ event_queue[p] # <<>>
        /\ e.kind # "DONE"
        /\ event_queue' = [event_queue EXCEPT ![p] = Tail(@)]
        /\ Apply(e)
        /\ \/ /\ MayPersist(e)
              /\ loop' = [loop EXCEPT ![r] = "saving"]
              /\ held' = [held EXCEPT ![r] = e]
              /\ UNCHANGED inbox
           \/ /\ ~MustPersist(e)
              /\ IF Skipped(e) THEN UNCHANGED inbox ELSE Broadcast(p, e)
              /\ UNCHANGED <<loop, held>>
        /\ UNCHANGED <<procVars, wf, emitted, client, attachedTo, pending,
                       view, storeVars, statusVars>>

\* Variant: a failed write escapes from the loop.
LoopSavedRaising(r) ==
    /\ loop[r] = "saving"
    /\ \E ok \in Outcomes(held[r].kind) :
          IF ok THEN /\ Land(HeldWrite(r))
                     /\ Broadcast(procOf[r], held[r])
                     /\ loop' = [loop EXCEPT ![r] = "waiting"]
                     /\ UNCHANGED registry
                ELSE /\ loop' = [loop EXCEPT ![r] = "done"]
                     /\ CleanupRegistry(procOf[r])
                     /\ UNCHANGED <<db, tempRows, inbox>>
    /\ held' = [held EXCEPT ![r] = Ev("end", r)]
    /\ UNCHANGED <<procOf, current, event_queue, itemVars, wf, emitted, client,
                   attachedTo, pending, view, orphans, statusVars>>

\* The write has landed or failed (failures are logged); then the broadcast.
LoopSaved(r) ==
    /\ loop[r] = "saving"
    /\ \E ok \in Outcomes(held[r].kind) :
          IF ok THEN Land(HeldWrite(r)) ELSE UNCHANGED <<db, tempRows>>
    /\ Broadcast(procOf[r], held[r])
    /\ loop' = [loop EXCEPT ![r] = "waiting"]
    /\ held' = [held EXCEPT ![r] = Ev("end", r)]
    /\ UNCHANGED <<procVars, event_queue, itemVars, wf, emitted, client,
                   attachedTo, pending, view, orphans, statusVars>>

\* Variant: the loop breaks before it tells its listeners.
LoopDoneSilent(r) ==
    LET p == procOf[r]
        e == Head(event_queue[p])
    IN  /\ loop[r] = "waiting"
        /\ event_queue[p] # <<>>
        /\ e.kind = "DONE"
        /\ event_queue' = [event_queue EXCEPT ![p] = Tail(@)]
        /\ CleanupRegistry(p)
        /\ loop' = [loop EXCEPT ![r] = "done"]
        /\ UNCHANGED <<procOf, current, itemVars, wf, emitted, held,
                       clientVars, storeVars, statusVars>>

\* _STREAM_DONE ends the loop whoever queued it.
LoopDone(r) ==
    LET p == procOf[r]
        e == Head(event_queue[p])
    IN  /\ loop[r] = "waiting"
        /\ event_queue[p] # <<>>
        /\ e.kind = "DONE"
        /\ event_queue' = [event_queue EXCEPT ![p] = Tail(@)]
        /\ Broadcast(p, e)
        /\ CleanupRegistry(p)
        /\ loop' = [loop EXCEPT ![r] = "done"]
        /\ UNCHANGED <<procOf, current, itemVars, wf, emitted, held, client,
                       attachedTo, pending, view, storeVars, statusVars>>

\* A cancelled loop tells the listeners of the processor; one that never ran
\* its first step executes neither its handler nor its finally clause.
LoopCancelled(r) ==
    /\ \/ /\ loop[r] = "cancelling"
          /\ Broadcast(procOf[r], Ev("DONE", r))
          /\ CleanupRegistry(procOf[r])
       \/ loop[r] = "doomed" /\ UNCHANGED <<inbox, registry>>
    /\ loop' = [loop EXCEPT ![r] = "done"]
    /\ held' = [held EXCEPT ![r] = Ev("end", r)]
    /\ UNCHANGED <<procOf, current, event_queue, itemVars, wf, emitted, client,
                   attachedTo, pending, view, storeVars, statusVars>>

-----------------------------------------------------------------------------
(* _process_events: what an HTTP client does with the events it is given.  *)
(* It keeps its own copy of the active items and persists them as well.    *)

\* The client's copy after e; a snapshot shows the live object.
Seen(c, e) ==
    CASE e.kind = "added"    -> 0
      [] e.kind = "done"     -> Final
      [] e.kind = "replaced" -> text[e.item]
      [] e.kind = "updated"  -> IF view[c][e.item] \in {Absent, Final}
                                THEN view[c][e.item] ELSE view[c][e.item] + 1
      [] OTHER               -> view[c][e.item]

\* Variant: final items are left to the processor's loop.
ClientMustPersistNewOnly(c, e) ==
    \/ e.kind = "replaced"
    \/ e.kind = "added" /\ e.item \notin TemporaryItems

\* New, final and replaced items are written at once; deltas like in the loop.
ClientMustPersist(c, e) ==
    \/ e.kind \in {"done", "replaced"}
    \/ e.kind = "added" /\ e.item \notin TemporaryItems
    \/ /\ e.kind = "updated" /\ e.item \notin TemporaryItems
       /\ view[c][e.item] = 0
ClientMayPersist(c, e) ==
    \/ ClientMustPersist(c, e)
    \/ /\ e.kind = "updated" /\ e.item \notin TemporaryItems
       /\ view[c][e.item] \notin {Absent, Final}

ClientTake(c) ==
    /\ client[c] = "reading"
    /\ inbox[c] # <<>>
    /\ Head(inbox[c]).kind # "DONE"
    /\ LET e == Head(inbox[c])
       IN  /\ view' = [view EXCEPT ![c][e.item] = Seen(c, e)]
           /\ \/ /\ ClientMayPersist(c, e)
                 /\ client' = [client EXCEPT ![c] = "saving"]
                 /\ pending' = [pending EXCEPT ![c] =
                       {[kind |-> e.kind, item |-> e.item, by |-> c,
                         ver |-> Seen(c, e)]}]
              \/ /\ ~ClientMustPersist(c, e)
                 /\ client' = [client EXCEPT ![c] = "yielding"]
                 /\ UNCHANGED pending
    /\ inbox' = [inbox EXCEPT ![c] = Tail(@)]
    /\ UNCHANGED <<procVars, event_queue, itemVars, wf, emitted, loop, held,
                   attachedTo, storeVars, statusVars>>

\* remove_listener; the generator's queue and copies are garbage from then on.
Leave(c, state) ==
    /\ view' = [view EXCEPT ![c] = [r \in Runs |-> Absent]]
    /\ client' = [client EXCEPT ![c] = state]
    /\ attachedTo' = [attachedTo EXCEPT ![c] = NoRun]
    /\ inbox' = [inbox EXCEPT ![c] = <<>>]
    /\ pending' = [pending EXCEPT ![c] = {}]

ClientDone(c) ==
    /\ client[c] = "reading"
    /\ inbox[c] # <<>>
    /\ Head(inbox[c]).kind = "DONE"
    /\ Leave(c, "finished")
    /\ UNCHANGED <<procVars, event_queue, itemVars, wf, emitted, loop, held,
                   storeVars, statusVars>>

\* A failed write of a final or replaced item is swallowed; of a new or
\* updated item it ends the stream with an error.
ClientSaved(c) ==
    /\ client[c] = "saving"
    /\ \E w \in pending[c] : \E ok \in Outcomes(w.kind) :
          /\ IF ok THEN Land(w) ELSE UNCHANGED <<db, tempRows>>
          /\ IF ok \/ w.kind \in {"done", "replaced"}
             THEN /\ client' = [client EXCEPT ![c] = "yielding"]
                  /\ pending' = [pending EXCEPT ![c] = {}]
                  /\ UNCHANGED <<attachedTo, inbox, view>>
             ELSE Leave(c, "finished")
    /\ UNCHANGED <<procVars, event_queue, itemVars, wf, emitted, loop, held,
                   orphans, statusVars>>

\* Variant: last_thread is refreshed without saving what changed.
ClientPullForgetful(c) ==
    /\ client[c] = "yielding"
    /\ client' = [client EXCEPT ![c] = "reading"]
    /\ statusSeen' = statusSeen \cup (closedMem \cap {c})
    /\ UNCHANGED <<procVars, event_queue, itemVars, wf, emitted, loop, held,
                   attachedTo, inbox, pending, view, storeVars, closedMem,
                   dbClosed>>

\* The transport asked for the next chunk.  The generator first compares the
\* thread with last_thread: a status set by its own run is saved here.
ClientPull(c) ==
    /\ client[c] = "yielding"
    /\ IF c \in closedMem \ statusSeen
       THEN /\ statusSeen' = statusSeen \cup {c}
            /\ \E ok \in Outcomes("thread") :
                  /\ dbClosed' = (dbClosed \/ ok)
                  /\ IF ok THEN /\ client' = [client EXCEPT ![c] = "reading"]
                                /\ UNCHANGED <<attachedTo, inbox, pending, view>>
                           ELSE Leave(c, "finished")
       ELSE /\ client' = [client EXCEPT ![c] = "reading"]
            /\ UNCHANGED <<attachedTo, inbox, pending, view, statusSeen, dbClosed>>
    /\ UNCHANGED <<procVars, event_queue, itemVars, wf, emitted, loop, held,
                   storeVars, closedMem>>

\* The connection is closed: the generator is closed at its await or yield and
\* removes its listener; a write it awaited stays in its worker thread.
Disconnect(c) ==
    /\ MayDisconnect
    /\ client[c] \in {"loaded", "starting", "reading", "saving", "yielding"}
    /\ orphans' = orphans \cup pending[c]
    /\ Leave(c, "gone")
    /\ UNCHANGED <<procVars, event_queue, itemVars, wf, emitted, loop, held,
                   db, tempRows, statusVars>>

\* An abandoned worker thread commits, fails, or never got to run.
OrphanLands(w) ==
    /\ orphans' = orphans \ {w}
    /\ Land(w) \/ UNCHANGED <<db, tempRows>>
    /\ UNCHANGED <<procVars, event_queue, itemVars, wf, emitted, loop, held,
                   clientVars, statusVars>>

-----------------------------------------------------------------------------
Respond(r)  == RespondLoad(r) \/ RespondStart(r) \/ RespondAttach(r)
Workflow(r) == \/ WorkflowBegin(r) \/ WorkflowStream(r) \/ WorkflowClose(r)
               \/ WorkflowWait(r) \/ WorkflowWaitSaved(r) \/ WorkflowFail(r)
               \/ WorkflowCancelled(r)
Loop(r)     == \/ LoopBegin(r) \/ LoopTake(r) \/ LoopSaved(r) \/ LoopDone(r)
               \/ LoopCancelled(r)
Consume(c)  == ClientTake(c) \/ ClientDone(c) \/ ClientSaved(c) \/ ClientPull(c)

\* Every request has been answered and no task is left.
Rest == /\ \A c \in Clients : client[c] \in {"finished", "gone"}
        /\ \A r \in Runs : wf[r] \in {"none", "done"} /\ loop[r] \in {"none", "done"}
        /\ orphans = {}
        /\ UNCHANGED vars

Next == \/ \E r \in Runs : Respond(r) \/ Workflow(r) \/ Loop(r)
        \/ \E c \in Resumers : Resume(c)
        \/ \E c \in Clients : Consume(c) \/ Disconnect(c)
        \/ \E w \in orphans : OrphanLands(w)
        \/ Rest

\* The event loop runs every task that can run, and a client that stays
\* connected keeps reading.  Users need not send anything, and a workflow may
\* stay inside one of its blocks for ever: neither is assumed to progress.
Fairness ==
    /\ \A r \in Runs : /\ WF_vars(Loop(r))
                       /\ WF_vars(RespondAttach(r))
                       /\ WF_vars(WorkflowBegin(r) \/ WorkflowWaitSaved(r)
                                                   \/ WorkflowCancelled(r))
    /\ \A c \in Clients : WF_vars(Consume(c))

Spec == Init /\ [][Next]_vars
FairSpec == Spec /\ Fairness

-----------------------------------------------------------------------------
(* Properties                                                              *)

\* Every variable keeps its type.
TypeOK ==
    /\ registry \in Runs \cup {NoRun}
    /\ procOf \in [Runs -> Runs \cup {NoRun}]
    /\ current \in [Runs -> Runs \cup {NoRun}]
    /\ event_queue \in [Runs -> Seq(Event)]
    /\ active_items \in SUBSET Runs
    /\ text \in [Runs -> Nat]
    /\ wf \in [Runs -> WfState]
    /\ emitted \in [Runs -> Version]
    /\ loop \in [Runs -> LoopState]
    /\ held \in [Runs -> Event]
    /\ client \in [Clients -> ClientState]
    /\ attachedTo \in [Clients -> Runs \cup {NoRun}]
    /\ inbox \in [Clients -> Seq(Event)]
    /\ pending \in [Clients -> SUBSET Write]
    /\ view \in [Clients -> [Runs -> Version]]
    /\ db \in [Runs -> Version]
    /\ tempRows \subseteq Runs \X (Clients \cup {NoRun})
    /\ orphans \subseteq Write
    /\ closedMem \subseteq Runs
    /\ statusSeen \subseteq Runs
    /\ dbClosed \in BOOLEAN

Live(r) == loop[r] \in {"created", "waiting", "saving"}
HasDone(q) == \E n \in DOMAIN q : q[n].kind = "DONE"

\* The registered processor is always served by a loop that will still read
\* its queue.  resume_stream attaches to whatever _stream_registry holds, so a
\* dead processor left there would hang every client that reconnects.
RegistryLive == registry # NoRun =>
    /\ current[registry] # NoRun
    /\ Live(current[registry])

\* However often a running processor is restarted, at most one loop will take
\* from its queue: two would split the events of a turn between them.
OneLiveLoop == \A r, t \in Runs :
    Live(r) /\ Live(t) /\ procOf[r] = procOf[t] => r = t

\* While a loop may still run for a processor, its workflow is unfinished or
\* the sentinel that will stop the loop is in the queue: start() drains the
\* queue without ever losing the sentinel of the run it starts.
SentinelPending == \A r \in Runs :
    Live(r) /\ wf[r] \in {"doomed", "done"} => HasDone(event_queue[procOf[r]])

\* Nobody waits for a stream that is over: a listener still has a live loop
\* behind it or the end-of-stream sentinel in its queue.  (Not so for one that
\* yields pre-stream events before it attaches: NobodyTooLate below.)
Served(p) == \E r \in Runs : procOf[r] = p /\ Live(r)
NoOrphanListener == \A c \in Clients \ AutoStarted :
    attachedTo[c] # NoRun => HasDone(inbox[c]) \/ Served(attachedTo[c])

\* The user who sent the message sees, once the queue is consumed, exactly the
\* text the processor holds: no delta is missed and none is shown twice.  (One
\* who reconnects in the middle may see a delta twice: NoDeltaTwice below.)
CaughtUpView == \A c \in Runs, i \in active_items :
    ( /\ client[c] = "reading" /\ inbox[c] = <<>>
      /\ attachedTo[c] # NoRun /\ attachedTo[c] = procOf[i]
      /\ loop[i] = "waiting" )
    => view[c][i] = text[i]

\* When everything has come to rest, the final version of every finished item
\* is what the database holds, whichever of its writers wrote last.
Settled == /\ \A c \in Clients : client[c] \in {"finished", "gone"}
           /\ \A r \in Runs : loop[r] \in {"none", "done"}
           /\ orphans = {}
FinalStateStored == Settled =>
    \A i \in Runs \ TemporaryItems : emitted[i] = Final => db[i] = Final

\* The stream of the user whose message is being answered does not end before
\* the workflow that answers it has ended.
AnsweredToTheEnd ==
    [][\A r \in Runs : client[r] = "reading" /\ client'[r] = "finished" =>
          current[procOf[r]] # r \/ wf[r] = "done"]_vars

\* Once a turn has closed the conversation and its client has been served, no
\* later message is accepted: the status lives in memory, the check reads the
\* database, and only the client's generator carries it from one to the other.
ClosedRefuses ==
    [][\A r \in Runs : client[r] = "idle" /\ client'[r] = "loaded" =>
          ~ \E t \in closedMem : client[t] \in {"finished", "gone"}]_vars

\* Every connected client is released once the workflow behind its stream has
\* ended, whatever the database did and however often the turn was restarted,
\* unless a newer turn took its processor over.
Follows(c, r) == attachedTo[c] # NoRun /\ current[attachedTo[c]] = r
StreamEnds == \A c \in Clients, r \in Runs :
    (Follows(c, r) /\ wf[r] = "done") ~> ~Follows(c, r)

\* A finished item that was handed to the processor reaches the database even
\* when nobody listens any more.
Queued(e) == \E p \in Runs : \E n \in DOMAIN event_queue[p] : event_queue[p][n] = e
PersistedWithoutListeners == \A i \in Runs \ TemporaryItems :
    Queued(Ev("done", i)) ~> (db[i] = Final)

-----------------------------------------------------------------------------
(* What one would expect, and the code does not guarantee: the README gives    *)
(* the constants under which TLC finds a counterexample to each.               *)

\* A new message replaces the turn that is running: the thread never has two
\* turns whose loops are both alive, on one processor or on two.
OneTurnAtATime == \A r, t \in Runs : Live(r) /\ Live(t) => r = t

\* A client that attaches after its pre-stream events still finds a live loop.
NobodyTooLate == \A c \in AutoStarted :
    attachedTo[c] # NoRun => HasDone(inbox[c]) \/ Served(attachedTo[c])

\* What a client shows of an unfinished item is text the workflow produced:
\* a client that attaches in the middle of a turn gets no delta twice.
NoDeltaTwice == \A c \in Clients, i \in Runs :
    view[c][i] # Final => view[c][i] <= emitted[i]

\* A loop that ends by itself ends on the sentinel of its own run, not on one
\* an earlier run left in the shared queue.
EndsOnOwnSentinel ==
    [][\A r \in Runs : loop[r] = "waiting" /\ loop'[r] = "done" =>
          Head(event_queue[procOf[r]]).item = r]_vars
=============================================================================
