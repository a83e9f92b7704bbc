------------------------ MODULE StreamSequenceProofs ------------------------
(***************************************************************************)
(* Proofs about StreamProcessor when turns do not overlap: the sender's    *)
(* view keeps up with the processor's text (CaughtUpView), and the last    *)
(* write of a finished item is its final version (FinalStateStored).       *)
(***************************************************************************)
EXTENDS StreamProcessorProofs

-----------------------------------------------------------------------------
(* One turn at a time                                                      *)

\* Every turn has a processor of its own, and only the registered one has tasks
\* that still run; no task is ever cancelled.
Sequential ==
    /\ \A r \in Runs : /\ procOf[r] \in {NoRun, r}
                       /\ Live(r) => registry = r
                       /\ wf[r] \notin {"doomed", "cancelling"}
                       /\ loop[r] \notin {"doomed", "cancelling"}
    /\ \A r \in Runs : client[r] = "loaded" =>
         /\ registry = NoRun
         /\ \A t \in Runs : wf[t] \in {"none", "done"}
         /\ \A t \in Runs : client[t] = "loaded" => t = r

\* All events of s are about the item of run p.
About(s, p) == \A n \in DOMAIN s : s[n].item = p

\* A client that is not attached has nothing; one that is follows one turn, which
\* is its own if it has one.
Apart(c) ==
    /\ client[c] \in {"reading", "saving", "yielding"} \/ attachedTo[c] = NoRun
    /\ attachedTo[c] = NoRun => /\ inbox[c] = <<>> /\ pending[c] = {}
                                /\ view[c] = [r \in Runs |-> Absent]
    /\ attachedTo[c] # NoRun =>
         /\ c \in Runs => attachedTo[c] = c
         /\ procOf[attachedTo[c]] = attachedTo[c]
         /\ About(inbox[c], attachedTo[c])
         /\ \A w \in pending[c] : w.item = attachedTo[c]

\* A turn's queue and loop have its own events.
Single(r) ==
    /\ About(event_queue[r], r) /\ held[r].item = r
    /\ r \in active_items => procOf[r] = r
    /\ wf[r] \in {"none", "created"} => emitted[r] = Absent

Solo ==
    /\ Sequential
    /\ \A c \in Clients : Apart(c)
    /\ \A r \in Runs : Single(r)

-----------------------------------------------------------------------------
(* The sender's view                                                       *)

\* The deltas in a queue.
Deltas(s) == Cardinality({n \in DOMAIN s : s[n].kind = "updated"})

Holds(r, kind) == loop[r] = "saving" /\ held[r].kind = kind
Starts(s) == s # <<>> /\ s[1].kind = "added"

\* The client of run r has seen nothing of its item.
Blank(r) == inbox[r] = <<>> /\ view[r][r] = Absent
Untouched(r) ==
    /\ r \notin active_items /\ loop[r] # "saving"
    /\ attachedTo[r] = r => Blank(r)

\* What the queue has of the item, and what the workflow has produced of it.
Produced(r) ==
    /\ \A n \in DOMAIN event_queue[r] :
         /\ event_queue[r][n].kind # "replaced"
         /\ event_queue[r][n].kind = "added" => n = 1
         /\ event_queue[r][n].kind = "done" => emitted[r] = Final
    /\ wf[r] \in {"none", "created", "running"} /\ emitted[r] = Absent =>
         event_queue[r] = <<>> /\ Untouched(r)
    /\ Starts(event_queue[r]) => Untouched(r) /\ Deltas(event_queue[r]) <= MaxDeltas
    /\ wf[r] = "running" /\ emitted[r] \in 0 .. MaxDeltas =>
         \/ r \in active_items /\ text[r] + Deltas(event_queue[r]) = emitted[r]
         \/ Starts(event_queue[r]) /\ Deltas(event_queue[r]) = emitted[r]
    /\ r \in active_items => /\ text[r] + Deltas(event_queue[r]) <= MaxDeltas
                             /\ loop[r] = "saving" => held[r].kind \in {"added", "updated"}

\* What the client has shown, what is in its inbox and what the loop is about to
\* broadcast make up the processor's text.
Shown(r) == IF view[r][r] = Absent THEN 0 ELSE view[r][r]
InStep(r) ==
    IF Holds(r, "added") THEN Blank(r) /\ text[r] = 0
    ELSE /\ view[r][r] = Absent => Starts(inbox[r])
         /\ \A n \in DOMAIN inbox[r] :
              /\ inbox[r][n].kind \notin {"done", "replaced"}
              /\ inbox[r][n].kind = "added" => n = 1 /\ view[r][r] = Absent
         /\ text[r] = Shown(r) + Deltas(inbox[r]) + IF Holds(r, "updated") THEN 1 ELSE 0
Followed(r) == attachedTo[r] = r /\ r \in active_items => InStep(r)

SenderInv == StreamInv /\ Solo /\ \A r \in Runs : Produced(r) /\ Followed(r)

-----------------------------------------------------------------------------
(* The final version                                                       *)

\* The final version is in s; it comes after the n-th event of s.
HasFinal(s) == \E m \in DOMAIN s : s[m].kind = "done"
Later(s, n) == \E m \in DOMAIN s : m > n /\ s[m].kind = "done"
Upstream(i) == HasFinal(event_queue[i]) \/ Holds(i, "done")
Older == {"added", "updated", "replaced"}

\* Somebody will still write the final version.
Owed(i) ==
    \/ Upstream(i)
    \/ \E c \in Clients : /\ attachedTo[c] = i
                          /\ HasFinal(inbox[c]) \/ \E w \in pending[c] : w.kind = "done"

\* Whoever is about to write an older version has the final one behind it: the
\* processor, and the clients of its turn.
Backed(i) == emitted[i] = Final =>
    /\ i \in active_items => HasFinal(event_queue[i])
    /\ \A n \in DOMAIN event_queue[i] :
         event_queue[i][n].kind \in Older => Later(event_queue[i], n)
    /\ loop[i] = "saving" /\ held[i].kind \in Older => HasFinal(event_queue[i])
Informed(c) == attachedTo[c] # NoRun /\ emitted[attachedTo[c]] = Final =>
    /\ \A n \in DOMAIN inbox[c] :
         inbox[c][n].kind \in Older => Later(inbox[c], n) \/ Upstream(attachedTo[c])
    /\ \A w \in pending[c] :
         w.kind \in Older => HasFinal(inbox[c]) \/ Upstream(attachedTo[c])

\* The sentinel is the last event of a queue.
Last(s) == \A n \in DOMAIN s : s[n].kind = "DONE" => n = Len(s)
Ending(i) ==
    /\ Last(event_queue[i]) /\ (HasDone(event_queue[i]) => wf[i] = "done")
    /\ loop[i] = "none" => wf[i] = "none" /\ event_queue[i] = <<>>
    /\ loop[i] = "done" => wf[i] = "done" /\ event_queue[i] = <<>>
    /\ loop[i] = "saving" => held[i].kind \in {"added", "updated", "done"}
Closing(c) ==
    /\ Last(inbox[c])
    /\ attachedTo[c] # NoRun /\ HasDone(inbox[c]) => loop[attachedTo[c]] = "done"
    /\ client[c] # "saving" => pending[c] = {}
    /\ \A w, x \in pending[c] : w = x
    /\ \A w \in pending[c] : /\ w.kind \in {"added", "updated", "replaced", "done"}
                             /\ w.kind = "done" => w.ver = Final

Stored(i) == i \notin TemporaryItems /\ emitted[i] = Final => db[i] = Final \/ Owed(i)

\* The writers of one item, and all of them.
Turn(i) == Ending(i) /\ Backed(i) /\ Stored(i)
Listener(c) == Closing(c) /\ Informed(c)
Writers == /\ orphans = {}
           /\ \A c \in Clients : Listener(c)
           /\ \A i \in Runs : Turn(i)

StoreInv == StreamInv /\ Solo /\ Writers

-----------------------------------------------------------------------------
(* Sequences of events                                                     *)

\* A sequence is a function on the numbers up to its length.
LEMMA EventSeq ==
    ASSUME NEW s \in Seq(Event)
    PROVE  /\ Len(s) \in Nat /\ DOMAIN s = 1 .. Len(s) /\ \A n \in DOMAIN s : s[n] \in Event
           /\ s = <<>> <=> Len(s) = 0
           /\ s # <<>> => 1 \in DOMAIN s /\ Head(s) = s[1]
  OBVIOUS

\* What an event is put behind.
LEMMA Appended ==
    ASSUME NEW s \in Seq(Event), NEW e \in Event
    PROVE  /\ Append(s, e) \in Seq(Event) /\ Append(s, e) # <<>>
           /\ Len(Append(s, e)) = Len(s) + 1
           /\ DOMAIN Append(s, e) = DOMAIN s \cup {Len(s) + 1}
           /\ Append(s, e)[Len(s) + 1] = e
           /\ \A n \in DOMAIN s : Append(s, e)[n] = s[n]
  OBVIOUS

\* What is left when the first event is taken.
LEMMA Taken ==
    ASSUME NEW s \in Seq(Event), s # <<>>
    PROVE  /\ Tail(s) \in Seq(Event) /\ Len(Tail(s)) = Len(s) - 1
           /\ \A n \in DOMAIN Tail(s) : n + 1 \in DOMAIN s /\ Tail(s)[n] = s[n + 1]
           /\ \A n \in DOMAIN s : n # 1 => n - 1 \in DOMAIN Tail(s) /\ Tail(s)[n - 1] = s[n]
  <1>1. Len(s) \in Nat \ {0} /\ DOMAIN s = 1 .. Len(s)
    BY EventSeq
  <1>2. Tail(s) \in Seq(Event) /\ Len(Tail(s)) = Len(s) - 1
    BY <1>1
  <1>3. DOMAIN Tail(s) = 1 .. Len(s) - 1 /\ \A n \in 1 .. Len(s) - 1 : Tail(s)[n] = s[n + 1]
    BY <1>1
  <1> QED BY <1>1, <1>2, <1>3

\* A workflow puts one event on a queue, or two.
LEMMA PutOneOrTwo ==
    ASSUME NEW s \in Seq(Event), NEW e \in Event, NEW f \in Event
    PROVE  s \o <<e>> = Append(s, e) /\ s \o <<e, f>> = Append(Append(s, e), f)
  OBVIOUS

\* The item of every event.
LEMMA AboutSeq ==
    ASSUME NEW s \in Seq(Event), NEW p, About(s, p)
    PROVE  /\ \A e \in Event : e.item = p => About(Append(s, e), p)
           /\ s # <<>> => Head(s).item = p /\ About(Tail(s), p)
  <1>1. ASSUME NEW e \in Event, e.item = p
        PROVE  About(Append(s, e), p)
    BY <1>1, Appended DEF About
  <1>2. ASSUME s # <<>>
        PROVE  Head(s).item = p /\ About(Tail(s), p)
    BY <1>2, EventSeq, Taken DEF About
  <1> QED BY <1>1, <1>2

\* Counting the deltas.
LEMMA DeltasCount ==
    ASSUME NEW s \in Seq(Event)
    PROVE  /\ Deltas(s) \in Nat /\ (s = <<>> => Deltas(s) = 0)
           /\ \A n \in DOMAIN s : s[n].kind = "updated" => Deltas(s) > 0
           /\ \A e \in Event :
                Deltas(Append(s, e)) = Deltas(s) + IF e.kind = "updated" THEN 1 ELSE 0
           /\ s # <<>> => Deltas(s) = Deltas(Tail(s)) + IF s[1].kind = "updated" THEN 1 ELSE 0
  <1> DEFINE D(q) == {n \in DOMAIN q : q[n].kind = "updated"}
  <1>1. \A q \in Seq(Event) : IsFiniteSet(D(q)) /\ Cardinality(D(q)) \in Nat
    <2> TAKE q \in Seq(Event)
    <2>1. IsFiniteSet(1 .. Len(q)) /\ DOMAIN q = 1 .. Len(q)
      BY EventSeq, FS_Interval
    <2>2. D(q) \in SUBSET (1 .. Len(q))
      BY <2>1
    <2> HIDE DEF D
    <2> QED BY <2>1, <2>2, FS_Subset, FS_CardinalityType
  <1>2. s = <<>> => Cardinality(D(s)) = 0
    <2>1. s = <<>> => D(s) = {}
      BY EventSeq
    <2> QED BY <2>1, FS_EmptySet
  <1>3. \A n \in DOMAIN s : s[n].kind = "updated" => Cardinality(D(s)) > 0
    <2>1. D(s) # {} => Cardinality(D(s)) > 0
      <3>1. IsFiniteSet(D(s)) /\ Cardinality(D(s)) \in Nat
        BY <1>1
      <3> HIDE DEF D
      <3> QED BY <3>1, FS_EmptySet
    <2> QED BY <2>1
  <1>4. ASSUME NEW e \in Event
        PROVE  Cardinality(D(Append(s, e))) =
                   Cardinality(D(s)) + IF e.kind = "updated" THEN 1 ELSE 0
    <2>1. Len(s) + 1 \notin D(s)
      BY EventSeq
    <2>2. D(Append(s, e)) = IF e.kind = "updated" THEN D(s) \cup {Len(s) + 1} ELSE D(s)
      BY Appended, EventSeq
    <2>3. Cardinality(D(s) \cup {Len(s) + 1}) = Cardinality(D(s)) + 1
      BY <1>1, <2>1, FS_AddElement
    <2> HIDE DEF D
    <2> QED BY <1>1, <2>2, <2>3
  <1>5. ASSUME s # <<>>
        PROVE  Cardinality(D(s)) =
                   Cardinality(D(Tail(s))) + IF s[1].kind = "updated" THEN 1 ELSE 0
    <2> DEFINE shift == [n \in D(Tail(s)) |-> n + 1]
               rest == D(s) \ {1}
    <2>1. shift \in Bijection(D(Tail(s)), rest)
      <3>1. \A n \in D(Tail(s)) : n \in Int /\ n + 1 \in rest
        BY <1>5, Taken, EventSeq
      <3>2. \A n \in rest : n \in Int /\ n - 1 \in D(Tail(s)) /\ (n - 1) + 1 = n
        BY <1>5, Taken, EventSeq
      <3> HIDE DEF D, rest
      <3>3. shift \in [D(Tail(s)) -> rest]
        BY <3>1
      <3>4. \A m, n \in D(Tail(s)) : shift[m] = shift[n] => m = n
        BY <3>1
      <3>5. \A n \in rest : \E m \in D(Tail(s)) : shift[m] = n
        BY <3>2
      <3> HIDE DEF shift
      <3> QED BY <3>3, <3>4, <3>5 DEF Bijection, Injection, Surjection, IsInjective
    <2>2. Cardinality(rest) = Cardinality(D(Tail(s))) /\ IsFiniteSet(rest)
      <3>1. Tail(s) \in Seq(Event)
        BY <1>5, Taken
      <3> HIDE DEF D, rest, shift
      <3> QED BY <1>1, <2>1, <3>1, FS_Bijection DEF ExistsBijection
    <2>3. D(s) = IF s[1].kind = "updated" THEN rest \cup {1} ELSE rest
      BY <1>5, EventSeq
    <2>4. Cardinality(rest \cup {1}) = Cardinality(rest) + 1
      BY <2>2, FS_AddElement
    <2>5. Cardinality(rest) \in Nat
      BY <2>2, FS_CardinalityType
    <2> HIDE DEF D, rest, shift
    <2> QED BY <2>2, <2>3, <2>4, <2>5
  <1> QED BY <1>1, <1>2, <1>3, <1>4, <1>5 DEF Deltas

-----------------------------------------------------------------------------
(* Turns stay apart                                                        *)

\* What turns one after the other have.
LEMMA SoloFacts ==
    ASSUME StreamInv, Solo
    PROVE  /\ Runs \subseteq Clients /\ NoRun \notin Runs
           /\ \A r \in Runs : wf[r] # "none" \/ loop[r] # "none" \/ client[r] = "starting" =>
                /\ procOf[r] = r /\ client[r] \notin {"idle", "loaded"}
           /\ \A r \in Runs : event_queue[r] \in Seq(Event) /\ held[r] \in Event
           /\ \A c \in Clients : inbox[c] \in Seq(Event) /\ attachedTo[c] \in Runs \cup {NoRun}
  BY RunsAssumption DEF StreamInv, TypeOK, Linked, Assigned, Fresh, Solo, Sequential, Clients

\* A server without tasks, queues or clients.
LEMMA SoloInit == Init => Solo
  <1> SUFFICES ASSUME Init PROVE Solo OBVIOUS
  <1>1. Sequential
    BY RunsAssumption DEF Init, Sequential, Live, Clients
  <1>2. ASSUME NEW c \in Clients PROVE Apart(c)
    BY DEF Init, Apart
  <1>3. ASSUME NEW r \in Runs PROVE Single(r)
    BY DEF Init, Single, About, Ev
  <1> QED BY <1>1, <1>2, <1>3 DEF Solo

\* A new listener: its queue starts with the live object of an unfinished item.
LEMMA Joined ==
    ASSUME StreamInv, NEW c \in Clients, NEW p \in Runs, AddListener(c, p)
    PROVE  /\ client' = [client EXCEPT ![c] = "reading"]
           /\ attachedTo' = [attachedTo EXCEPT ![c] = p]
           /\ \A d \in Clients \ {c} : inbox'[d] = inbox[d]
           /\ \A n \in DOMAIN inbox'[c] :
                /\ inbox'[c][n].kind = "replaced" /\ inbox'[c][n].item \in active_items
                /\ procOf[inbox'[c][n].item] = p
           /\ (\A r \in active_items : procOf[r] # p) => inbox'[c] = <<>>
  <1> DEFINE items == {r \in active_items : procOf[r] = p}
  <1>1. PICK s \in Snapshots(p) :
           inbox' = [inbox EXCEPT ![c] = [i \in DOMAIN s |-> Ev("replaced", s[i])]]
    BY DEF AddListener
  <1>2. [i \in DOMAIN s |-> Ev("replaced", s[i])] \in Seq(Event)
    BY SnapshotType DEF StreamInv
  <1>3. s \in [1 .. Cardinality(items) -> items] /\ DOMAIN s = 1 .. Cardinality(items)
    BY DEF Snapshots
  <1>4. inbox'[c] = [i \in DOMAIN s |-> Ev("replaced", s[i])]
    BY <1>1 DEF StreamInv, TypeOK
  <1>5. \A n \in DOMAIN inbox'[c] : inbox'[c][n] = Ev("replaced", s[n]) /\ s[n] \in items
    BY <1>3, <1>4
  <1>6. items = {} => inbox'[c] = <<>>
    <2>1. items = {} => Cardinality(items) = 0
      BY FS_EmptySet
    <2> HIDE DEF items
    <2>2. items = {} => DOMAIN s = {}
      BY <1>3, <2>1
    <2>3. inbox'[c] \in Seq(Event) /\ DOMAIN inbox'[c] = DOMAIN s
      BY <1>2, <1>4
    <2> QED BY <2>2, <2>3, EventSeq
  <1> QED BY <1>1, <1>5, <1>6 DEF AddListener, Ev, StreamInv, TypeOK

\* A client joins a turn.
LEMMA JoinedSolo ==
    ASSUME StreamInv, Sequential, NEW c \in Clients, Apart(c), attachedTo[c] = NoRun,
           NEW p \in Runs, AddListener(c, p), pending' = pending,
           procOf'[p] = p, c \in Runs => p = c
    PROVE  Apart(c)'
  <1>1. /\ client'[c] = "reading" /\ attachedTo'[c] = p /\ pending'[c] = {}
        /\ \A n \in DOMAIN inbox'[c] :
             inbox'[c][n].item \in active_items /\ procOf[inbox'[c][n].item] = p
    BY Joined DEF StreamInv, TypeOK, Apart
  <1>2. \A r \in active_items : procOf[r] = p => r = p
    BY RunsAssumption DEF Sequential, StreamInv, TypeOK
  <1>3. About(inbox'[c], p)
    BY <1>1, <1>2 DEF About
  <1> QED BY <1>1, <1>3, RunsAssumption DEF Apart, About

\* What one step of respond() does.
LEMMA RespondEffect ==
    ASSUME StreamInv, Solo, ~MayOverlap, NEW r \in Runs, Respond(r)
    PROVE  /\ UNCHANGED <<active_items, text, emitted, held, pending, view, db, orphans>>
           /\ \A t \in Runs \ {r} : /\ procOf'[t] = procOf[t] /\ event_queue'[t] = event_queue[t]
                                    /\ wf'[t] = wf[t] /\ loop'[t] = loop[t]
           /\ \A d \in Clients \ {r} : /\ client'[d] = client[d] /\ inbox'[d] = inbox[d]
                                       /\ attachedTo'[d] = attachedTo[d]
           /\ \/ /\ client[r] = "idle" /\ client'[r] \in {"loaded", "finished"}
                 /\ registry = NoRun /\ \A t \in Runs : wf[t] \in {"none", "done"}
                 /\ \A t \in Runs : client[t] # "loaded"
                 /\ UNCHANGED <<procVars, event_queue, wf, loop, attachedTo, inbox>>
              \/ /\ client[r] = "loaded" /\ client'[r] \in {"starting", "reading"}
                 /\ registry = NoRun /\ wf[r] = "none" /\ loop[r] = "none"
                 /\ attachedTo[r] = NoRun /\ r \notin active_items
                 /\ \A c \in Clients : attachedTo[c] # r
                 /\ registry' = r /\ procOf'[r] = r /\ event_queue'[r] = <<>>
                 /\ wf'[r] = "created" /\ loop'[r] = "created"
                 /\ \/ client'[r] = "starting" /\ attachedTo'[r] = NoRun /\ inbox'[r] = inbox[r]
                    \/ client'[r] = "reading" /\ attachedTo'[r] = r /\ inbox'[r] = <<>>
              \/ /\ client[r] = "starting" /\ client'[r] = "reading" /\ r \in AutoStarted
                 /\ attachedTo[r] = NoRun /\ attachedTo'[r] = r /\ procOf[r] = r
                 /\ AddListener(r, r)
                 /\ UNCHANGED <<procVars, event_queue, wf, loop>>
  <1>0. TypeOK /\ Fresh /\ Assigned /\ NobodyLate /\ r \in Clients
    BY DEF StreamInv, Linked, Clients
  <1>1. CASE RespondLoad(r)
    <2>1. /\ registry = NoRun /\ \A t \in Runs : wf[t] \in {"none", "done"}
          /\ \A t \in Runs : client[t] # "loaded"
      BY <1>1 DEF RespondLoad, Quiet, Clients
    <2>2. /\ \/ client' = [client EXCEPT ![r] = "loaded"]
             \/ client' = [client EXCEPT ![r] = "finished"]
          /\ client[r] = "idle"
          /\ UNCHANGED <<procVars, event_queue, active_items, text, wf, emitted, loop, held,
                         attachedTo, inbox, pending, view, db, orphans>>
      BY <1>1 DEF RespondLoad, itemVars, storeVars
    <2> QED BY <1>0, <2>1, <2>2 DEF TypeOK, procVars
  <1>2. CASE RespondStart(r)
    <2>0. client[r] = "loaded"
      BY <1>2 DEF RespondStart
    <2>1. /\ registry = NoRun /\ current[r] = NoRun
          /\ wf[r] = "none" /\ loop[r] = "none" /\ attachedTo[r] = NoRun
          /\ \A t \in Runs : procOf[t] # r
          /\ \A c \in Clients : attachedTo[c] # r
      <3>1. registry = NoRun
        BY <2>0 DEF Solo, Sequential
      <3>2. Apart(r)
        BY <1>0 DEF Solo
      <3>3. attachedTo[r] = NoRun
        BY <2>0, <3>2 DEF Apart
      <3> QED BY <1>0, <2>0, <3>1, <3>3 DEF Fresh
    <2>2. r \notin active_items /\ \A t \in active_items : procOf[t] # r
      BY <1>0, <2>1 DEF Solo, Single, TypeOK
    <2>3. /\ registry' = r /\ procOf' = [procOf EXCEPT ![r] = r]
          /\ event_queue' = [event_queue EXCEPT ![r] = <<>>]
          /\ wf' = [t \in Runs |-> CASE t = r -> "created"
                                     [] t = NoRun -> Cancelled(wf[t])
                                     [] OTHER -> wf[t]]
          /\ loop' = [t \in Runs |-> CASE t = r -> "created"
                                       [] t = NoRun -> Cancelled(loop[t])
                                       [] OTHER -> loop[t]]
          /\ UNCHANGED <<active_items, text, emitted, held, pending, view, db, orphans>>
      BY <1>2, <2>1 DEF RespondStart, itemVars
    <2>4. wf' = [wf EXCEPT ![r] = "created"] /\ loop' = [loop EXCEPT ![r] = "created"]
      <3>1. NoRun \notin Runs /\ wf \in [Runs -> WfState] /\ loop \in [Runs -> LoopState]
        BY <1>0, RunsAssumption DEF TypeOK
      <3>2. wf' = [wf EXCEPT ![r] = "created"]
        BY <2>3, <3>1
      <3>3. loop' = [loop EXCEPT ![r] = "created"]
        BY <2>3, <3>1
      <3> QED BY <3>2, <3>3
    <2>5. \/ /\ client' = [client EXCEPT ![r] = "starting"] /\ UNCHANGED <<attachedTo, inbox>>
          \/ /\ client' = [client EXCEPT ![r] = "reading"]
             /\ attachedTo' = [attachedTo EXCEPT ![r] = r]
             /\ inbox'[r] = <<>> /\ \A d \in Clients \ {r} : inbox'[d] = inbox[d]
      <3>1. CASE AddListener(r, r)
        BY <1>0, <2>2, <3>1, Joined
      <3> QED BY <1>2, <2>1, <3>1 DEF RespondStart
    <2> QED BY <1>0, <2>0, <2>1, <2>2, <2>3, <2>4, <2>5 DEF TypeOK
  <1>3. CASE RespondAttach(r)
    <2>1. /\ procOf[r] = r /\ client[r] = "starting" /\ AddListener(r, r)
          /\ UNCHANGED <<procVars, event_queue, active_items, text, wf, emitted, loop, held,
                         pending, view, db, orphans>>
      BY <1>0, <1>3, SoloFacts DEF RespondAttach, itemVars, storeVars
    <2>2. attachedTo[r] = NoRun /\ r \in AutoStarted
      BY <1>0, <2>1 DEF Solo, Apart, NobodyLate
    <2>3. /\ client' = [client EXCEPT ![r] = "reading"]
          /\ attachedTo' = [attachedTo EXCEPT ![r] = r]
          /\ \A d \in Clients \ {r} : inbox'[d] = inbox[d]
      BY <1>0, <2>1, Joined
    <2> QED BY <1>0, <2>1, <2>2, <2>3 DEF TypeOK, procVars
  <1> QED BY <1>1, <1>2, <1>3 DEF Respond

\* A message is accepted, or answered.
LEMMA RespondSolo ==
    ASSUME StreamInv, Solo, ~MayOverlap, NEW r \in Runs, Respond(r)
    PROVE  Solo'
  <1>0. TypeOK /\ r \in Clients /\ NoRun \notin Runs
    BY RunsAssumption DEF StreamInv, Clients
  <1> DEFINE Loading == /\ client[r] = "idle" /\ registry = NoRun
                        /\ \A t \in Runs : wf[t] \in {"none", "done"}
                        /\ \A t \in Runs : client[t] # "loaded"
                        /\ UNCHANGED <<procVars, event_queue, wf, loop, attachedTo, inbox>>
             Starting == /\ client[r] = "loaded" /\ client'[r] \in {"starting", "reading"}
                         /\ registry = NoRun /\ wf[r] = "none" /\ attachedTo[r] = NoRun
                         /\ \A c \in Clients : attachedTo[c] # r
                         /\ registry' = r /\ procOf'[r] = r /\ event_queue'[r] = <<>>
                         /\ wf'[r] = "created" /\ loop'[r] = "created"
                         /\ \/ attachedTo'[r] = NoRun /\ inbox'[r] = inbox[r]
                            \/ client'[r] = "reading" /\ attachedTo'[r] = r /\ inbox'[r] = <<>>
             Attaching == /\ client'[r] = "reading" /\ attachedTo[r] = NoRun /\ procOf[r] = r
                          /\ AddListener(r, r) /\ client[r] = "starting"
                          /\ UNCHANGED <<procVars, event_queue, wf, loop>>
  <1>1. /\ UNCHANGED <<active_items, emitted, held, pending, view>>
        /\ \A t \in Runs \ {r} : /\ procOf'[t] = procOf[t] /\ event_queue'[t] = event_queue[t]
                                 /\ wf'[t] = wf[t] /\ loop'[t] = loop[t]
        /\ \A d \in Clients \ {r} : /\ client'[d] = client[d] /\ inbox'[d] = inbox[d]
                                    /\ attachedTo'[d] = attachedTo[d]
    BY RespondEffect
  <1>2. Loading \/ Starting \/ Attaching
    BY RespondEffect
  <1>3. Sequential'
    <2>1. CASE Loading
      <3>1. \A t \in Runs : client'[t] = "loaded" => t = r
        BY <1>1, <2>1 DEF Clients
      <3> QED BY <2>1, <3>1 DEF Solo, Sequential, Live, procVars
    <2>2. CASE Starting
      <3>1. \A t \in Runs : client'[t] # "loaded"
        BY <1>0, <1>1, <2>2 DEF Solo, Sequential, Clients
      <3>2. \A t \in Runs \ {r} : ~Live(t)
        BY <1>0, <2>2 DEF Solo, Sequential
      <3> QED BY <1>1, <2>2, <3>1, <3>2 DEF Solo, Sequential, Live
    <2>3. CASE Attaching
      <3>1. \A t \in Runs : client'[t] = "loaded" => client[t] = "loaded"
        BY <1>1, <2>3 DEF Clients
      <3> QED BY <2>3, <3>1 DEF Solo, Sequential, Live, procVars
    <2> QED BY <1>2, <2>1, <2>2, <2>3
  <1>4. ASSUME NEW c \in Clients PROVE Apart(c)'
    <2>0. Apart(c) /\ attachedTo[c] \in Runs \cup {NoRun}
      BY <1>0 DEF Solo, TypeOK
    <2>1. CASE c # r
      <3>1. attachedTo[c] \in Runs => procOf'[attachedTo[c]] = procOf[attachedTo[c]]
        BY <1>1, <1>2 DEF procVars
      <3> QED BY <1>1, <2>0, <2>1, <3>1 DEF Apart
    <2>2. CASE c = r /\ Loading
      BY <1>1, <2>0, <2>2 DEF Apart, procVars
    <2>3. CASE c = r /\ Starting
      BY <1>0, <1>1, <2>0, <2>3 DEF Apart, About
    <2>4. CASE c = r /\ Attaching
      BY <1>0, <1>1, <2>0, <2>4, JoinedSolo DEF Solo, procVars
    <2> QED BY <1>2, <2>1, <2>2, <2>3, <2>4
  <1>5. ASSUME NEW t \in Runs PROVE Single(t)'
    <2>0. Single(t)
      BY DEF Solo
    <2>1. CASE t # r \/ Loading \/ Attaching
      BY <1>1, <2>0, <2>1 DEF Single, procVars
    <2>2. CASE t = r /\ Starting
      BY <1>1, <2>0, <2>2 DEF Single, About
    <2> QED BY <1>2, <2>1, <2>2
  <1> QED BY <1>3, <1>4, <1>5 DEF Solo

\* Somebody reconnects.
LEMMA ResumeSolo ==
    ASSUME StreamInv, Solo, NEW c \in Resumers, Resume(c)
    PROVE  Solo'
  <1>0. TypeOK /\ RegistryServed /\ c \in Clients /\ c \notin Runs
    BY RunsAssumption DEF StreamInv, Linked, Clients
  <1>1. /\ client[c] = "idle" /\ attachedTo[c] = NoRun
        /\ UNCHANGED <<registry, procOf, event_queue, active_items, wf, emitted, loop, held,
                       pending, view>>
    <2>1. client[c] = "idle" /\ Apart(c)
      BY <1>0 DEF Resume, Solo
    <2> QED BY <2>1 DEF Resume, procVars, itemVars, Apart
  <1>2. \/ client' = [client EXCEPT ![c] = "finished"] /\ UNCHANGED <<attachedTo, inbox>>
        \/ registry \in Runs /\ procOf[registry] = registry /\ AddListener(c, registry)
    <2>1. registry # NoRun => registry \in Runs /\ procOf[registry] = registry
      BY <1>0, RunsAssumption DEF TypeOK, RegistryServed, ServedByCurrent, Solo, Sequential
    <2> QED BY <2>1 DEF Resume
  <1>3. ASSUME NEW d \in Clients \ {c}
        PROVE  client'[d] = client[d] /\ attachedTo'[d] = attachedTo[d] /\ inbox'[d] = inbox[d]
    <2>1. CASE registry \in Runs /\ AddListener(c, registry)
      <3>1. /\ client' = [client EXCEPT ![c] = "reading"]
            /\ attachedTo' = [attachedTo EXCEPT ![c] = registry]
            /\ \A x \in Clients \ {c} : inbox'[x] = inbox[x]
        BY <1>0, <2>1, Joined
      <3> QED BY <1>0, <3>1 DEF TypeOK
    <2> QED BY <1>0, <1>2, <2>1 DEF TypeOK
  <1>4. Sequential'
    <2>1. \A t \in Runs : client'[t] = client[t]
      BY <1>0, <1>3 DEF Clients
    <2> QED BY <1>1, <2>1 DEF Solo, Sequential, Live
  <1>5. ASSUME NEW d \in Clients PROVE Apart(d)'
    <2>1. CASE d = c /\ client' = [client EXCEPT ![c] = "finished"] /\ UNCHANGED <<attachedTo, inbox>>
      BY <1>0, <1>1, <2>1 DEF Solo, Apart
    <2>2. CASE d = c /\ registry \in Runs /\ procOf[registry] = registry /\ AddListener(c, registry)
      <3>1. Apart(c) /\ Sequential
        BY <1>0 DEF Solo
      <3> QED BY <1>0, <1>1, <2>2, <3>1, JoinedSolo
    <2>3. CASE d # c
      BY <1>1, <1>3, <2>3 DEF Solo, Apart
    <2> QED BY <1>2, <2>1, <2>2, <2>3
  <1>6. ASSUME NEW t \in Runs PROVE Single(t)'
    BY <1>1 DEF Solo, Single
  <1> QED BY <1>4, <1>5, <1>6 DEF Solo

\* One of the events that end a turn.
Plain == {"end", "error", "DONE"}

\* What one step of a workflow does.
LEMMA WorkflowEffect ==
    ASSUME StreamInv, Solo, NEW r \in Runs, Workflow(r)
    PROVE  /\ procOf[r] = r /\ wf[r] \in {"created", "running", "savingWait"}
           /\ UNCHANGED <<procVars, itemVars, loop, held, clientVars, storeVars>>
           /\ \A t \in Runs \ {r} : /\ wf'[t] = wf[t] /\ emitted'[t] = emitted[t]
                                    /\ event_queue'[t] = event_queue[t]
           /\ \/ /\ wf[r] = "created" /\ wf'[r] = "running" /\ emitted'[r] = emitted[r]
                 /\ event_queue'[r] = event_queue[r]
              \/ /\ wf[r] = "running" /\ wf'[r] = "running"
                 /\ \/ /\ emitted[r] = Absent /\ emitted'[r] = 0
                       /\ event_queue'[r] = Append(event_queue[r], Ev("added", r))
                    \/ /\ emitted[r] \in 0 .. MaxDeltas - 1 /\ emitted'[r] = emitted[r] + 1
                       /\ event_queue'[r] = Append(event_queue[r], Ev("updated", r))
                    \/ /\ emitted[r] \in 0 .. MaxDeltas /\ emitted'[r] = Final
                       /\ event_queue'[r] = Append(event_queue[r], Ev("done", r))
              \/ /\ wf[r] \in {"running", "savingWait"} /\ emitted'[r] = emitted[r]
                 /\ \/ /\ wf'[r] = "savingWait"
                       /\ event_queue'[r] = Append(event_queue[r], Ev("end", r))
                    \/ /\ wf'[r] = "done"
                       /\ \/ event_queue'[r] = Append(event_queue[r], Ev("DONE", r))
                          \/ \E k \in {"end", "error"} :
                               event_queue'[r] = Append(Append(event_queue[r], Ev(k, r)), Ev("DONE", r))
  <1>1. wf[r] \in {"created", "running", "savingWait"} /\ procOf[r] = r
    <2>1. wf[r] \in {"created", "running", "savingWait"}
      BY DEF Workflow, WorkflowBegin, WorkflowStream, WorkflowClose, WorkflowWait,
             WorkflowWaitSaved, WorkflowFail, WorkflowCancelled, Solo, Sequential
    <2> QED BY <2>1, SoloFacts
  <1>2. /\ wf \in [Runs -> WfState] /\ emitted \in [Runs -> Version]
        /\ event_queue \in [Runs -> Seq(Event)] /\ event_queue[r] \in Seq(Event)
    BY DEF StreamInv, TypeOK
  <1>3. ~WorkflowCancelled(r)
    BY <1>1 DEF WorkflowCancelled
  <1>4. UNCHANGED <<procVars, itemVars, loop, held, clientVars, storeVars>>
    BY <1>3 DEF Workflow, WorkflowBegin, WorkflowStream, WorkflowClose, WorkflowWait,
           WorkflowWaitSaved, WorkflowFail
  <1>5. ASSUME NEW k \in EventKind, Put(r, <<Ev(k, r)>>)
        PROVE  event_queue' = [event_queue EXCEPT ![r] = Append(event_queue[r], Ev(k, r))]
    BY <1>1, <1>2, <1>5, PutOneOrTwo, EvType DEF Put
  <1>6. ASSUME NEW k \in EventKind, Put(r, <<Ev(k, r), Ev("DONE", r)>>)
        PROVE  event_queue' = [event_queue EXCEPT ![r] =
                                 Append(Append(event_queue[r], Ev(k, r)), Ev("DONE", r))]
    <2>1. Ev(k, r) \in Event /\ Ev("DONE", r) \in Event
      BY EvType DEF EventKind
    <2>2. event_queue[r] \o <<Ev(k, r), Ev("DONE", r)>> =
            Append(Append(event_queue[r], Ev(k, r)), Ev("DONE", r))
      BY <1>2, <2>1, PutOneOrTwo
    <2> QED BY <1>1, <1>6, <2>2 DEF Put
  <1>7. {"added", "updated", "done", "end", "error", "DONE"} \subseteq EventKind
    BY DEF EventKind
  <1>8. CASE WorkflowBegin(r)
    BY <1>1, <1>2, <1>4, <1>8 DEF WorkflowBegin
  <1>9. CASE WorkflowStream(r)
    <2>1. wf[r] = "running" /\ wf' = wf
      BY <1>9 DEF WorkflowStream
    <2>2. \/ /\ emitted[r] = Absent /\ emitted' = [emitted EXCEPT ![r] = 0]
             /\ event_queue' = [event_queue EXCEPT ![r] = Append(event_queue[r], Ev("added", r))]
          \/ /\ emitted[r] \in 0 .. MaxDeltas - 1
             /\ emitted' = [emitted EXCEPT ![r] = emitted[r] + 1]
             /\ event_queue' = [event_queue EXCEPT ![r] = Append(event_queue[r], Ev("updated", r))]
          \/ /\ emitted[r] \in 0 .. MaxDeltas /\ emitted' = [emitted EXCEPT ![r] = Final]
             /\ event_queue' = [event_queue EXCEPT ![r] = Append(event_queue[r], Ev("done", r))]
      BY <1>5, <1>7, <1>9 DEF WorkflowStream
    <2> QED BY <1>1, <1>2, <1>4, <2>1, <2>2
  <1>10. CASE WorkflowClose(r) \/ WorkflowFail(r)
    <2>1. /\ wf[r] = "running" /\ wf' = [wf EXCEPT ![r] = "done"] /\ emitted' = emitted
      BY <1>10 DEF WorkflowClose, WorkflowFail
    <2>2. PICK k \in {"end", "error"} :
             event_queue' = [event_queue EXCEPT ![r] =
                               Append(Append(event_queue[r], Ev(k, r)), Ev("DONE", r))]
      BY <1>6, <1>7, <1>10 DEF WorkflowClose, WorkflowFail
    <2> QED BY <1>1, <1>2, <1>4, <2>1, <2>2
  <1>11. CASE WorkflowWait(r)
    <2>1. /\ wf[r] = "running" /\ wf' = [wf EXCEPT ![r] = "savingWait"] /\ emitted' = emitted
          /\ event_queue' = [event_queue EXCEPT ![r] = Append(event_queue[r], Ev("end", r))]
      BY <1>5, <1>7, <1>11 DEF WorkflowWait
    <2> QED BY <1>1, <1>2, <1>4, <2>1
  <1>12. CASE WorkflowWaitSaved(r)
    <2>1. /\ wf[r] = "savingWait" /\ wf' = [wf EXCEPT ![r] = "done"] /\ emitted' = emitted
          /\ event_queue' = [event_queue EXCEPT ![r] = Append(event_queue[r], Ev("DONE", r))]
      BY <1>5, <1>7, <1>12 DEF WorkflowWaitSaved
    <2> QED BY <1>1, <1>2, <1>4, <2>1
  <1> QED BY <1>3, <1>8, <1>9, <1>10, <1>11, <1>12 DEF Workflow

\* Appending events that end a turn.
LEMMA WorkflowSolo ==
    ASSUME StreamInv, Solo, NEW r \in Runs, Workflow(r)
    PROVE  Solo'
  <1>1. /\ procOf[r] = r /\ wf[r] \in {"created", "running", "savingWait"}
        /\ UNCHANGED <<procVars, itemVars, loop, held, clientVars, storeVars>>
        /\ \A t \in Runs \ {r} : /\ wf'[t] = wf[t] /\ emitted'[t] = emitted[t]
                                 /\ event_queue'[t] = event_queue[t]
        /\ wf'[r] \in {"running", "savingWait", "done"}
    BY WorkflowEffect
  <1>2. Sequential'
    BY <1>1 DEF Solo, Sequential, Live, procVars, clientVars
  <1>3. ASSUME NEW c \in Clients PROVE Apart(c)'
    BY <1>1 DEF Solo, Apart, procVars, clientVars
  <1>4. About(event_queue'[r], r)
    <2>1. event_queue[r] \in Seq(Event) /\ About(event_queue[r], r)
      BY SoloFacts DEF Solo, Single
    <2>2. \A k \in EventKind : Ev(k, r) \in Event /\ Ev(k, r).item = r
      BY EvType DEF Ev
    <2>3. ASSUME NEW s \in Seq(Event), About(s, r), NEW k \in EventKind
          PROVE  Append(s, Ev(k, r)) \in Seq(Event) /\ About(Append(s, Ev(k, r)), r)
      <3>1. Ev(k, r) \in Event /\ Ev(k, r).item = r
        BY <2>2
      <3>2. Append(s, Ev(k, r)) \in Seq(Event)
        BY <3>1, Appended
      <3>3. About(Append(s, Ev(k, r)), r)
        BY <2>3, <3>1, AboutSeq
      <3> QED BY <3>2, <3>3
    <2>4. {"added", "updated", "done", "end", "error", "DONE"} \subseteq EventKind
          /\ Plain \subseteq EventKind /\ {"end", "error"} \subseteq EventKind
      BY DEF EventKind, Plain
    <2>5. \/ event_queue'[r] = event_queue[r]
          \/ \E k \in EventKind : event_queue'[r] = Append(event_queue[r], Ev(k, r))
          \/ \E k \in EventKind :
               event_queue'[r] = Append(Append(event_queue[r], Ev(k, r)), Ev("DONE", r))
      <3> DEFINE One(k) == event_queue'[r] = Append(event_queue[r], Ev(k, r))
                 Two(k) == event_queue'[r] = Append(Append(event_queue[r], Ev(k, r)), Ev("DONE", r))
      <3>1. \/ event_queue'[r] = event_queue[r]
            \/ One("added") \/ One("updated") \/ One("done") \/ One("end") \/ One("DONE")
            \/ \E k \in {"end", "error"} : Two(k)
        BY WorkflowEffect
      <3> HIDE DEF One, Two
      <3>2. \/ event_queue'[r] = event_queue[r]
            \/ \E k \in EventKind : One(k)
            \/ \E k \in EventKind : Two(k)
        BY <2>4, <3>1
      <3> QED BY <3>2 DEF One, Two
    <2>6. CASE \E k \in EventKind :
                 event_queue'[r] = Append(Append(event_queue[r], Ev(k, r)), Ev("DONE", r))
      <3>1. PICK k \in EventKind :
                 event_queue'[r] = Append(Append(event_queue[r], Ev(k, r)), Ev("DONE", r))
        BY <2>6
      <3>2. Append(event_queue[r], Ev(k, r)) \in Seq(Event) /\ About(Append(event_queue[r], Ev(k, r)), r)
        BY <2>1, <2>3
      <3> QED BY <2>3, <2>4, <3>1, <3>2
    <2> QED BY <2>1, <2>3, <2>5, <2>6
  <1>5. ASSUME NEW t \in Runs PROVE Single(t)'
    <2>1. About(event_queue'[t], t)
      BY <1>1, <1>4 DEF Solo, Single
    <2> QED BY <1>1, <2>1 DEF Solo, Single, procVars, itemVars
  <1> QED BY <1>2, <1>3, <1>5 DEF Solo

\* What one step of a loop does.
Told(r, e) ==
    \A c \in Clients : inbox'[c] = IF attachedTo[c] = r THEN Append(inbox[c], e) ELSE inbox[c]
LEMMA LoopEffect ==
    ASSUME StreamInv, Solo, NEW r \in Runs, Loop(r)
    PROVE  /\ procOf[r] = r /\ registry = r /\ Live(r)
           /\ registry' \in {registry, NoRun}
           /\ UNCHANGED <<procOf, current, wf, emitted, client, attachedTo, pending, view, orphans>>
           /\ \A t \in Runs \ {r} : /\ loop'[t] = loop[t] /\ held'[t] = held[t]
                                    /\ text'[t] = text[t] /\ event_queue'[t] = event_queue[t]
                                    /\ t \in active_items' <=> t \in active_items
           /\ \/ /\ LoopBegin(r) /\ loop[r] = "created" /\ loop'[r] = "waiting"
                 /\ held'[r] = held[r] /\ inbox' = inbox /\ db' = db
              \/ /\ LoopTake(r) /\ loop[r] = "waiting" /\ event_queue[r] # <<>>
                 /\ event_queue[r][1].kind # "DONE" /\ event_queue[r][1] \in Event
                 /\ event_queue'[r] = Tail(event_queue[r])
                 /\ Apply(event_queue[r][1]) /\ db' = db
                 /\ \/ /\ MayPersist(event_queue[r][1]) /\ inbox' = inbox
                       /\ loop'[r] = "saving" /\ held'[r] = event_queue[r][1]
                    \/ /\ ~MustPersist(event_queue[r][1]) /\ loop'[r] = "waiting"
                       /\ held'[r] = held[r]
                       /\ IF Skipped(event_queue[r][1]) THEN inbox' = inbox
                                                        ELSE Told(r, event_queue[r][1])
              \/ /\ LoopSaved(r) /\ loop[r] = "saving" /\ loop'[r] = "waiting"
                 /\ held'[r] = Ev("end", r) /\ Told(r, held[r])
              \/ /\ LoopDone(r) /\ loop[r] = "waiting" /\ loop'[r] = "done" /\ db' = db
                 /\ event_queue[r] # <<>> /\ event_queue[r][1].kind = "DONE"
                 /\ event_queue[r][1] \in Event /\ held'[r] = held[r]
                 /\ event_queue'[r] = Tail(event_queue[r]) /\ Told(r, event_queue[r][1])
           /\ LoopTake(r) \/ UNCHANGED itemVars
           /\ LoopTake(r) \/ LoopDone(r) \/ UNCHANGED event_queue
  <1>0. TypeOK /\ Solo /\ event_queue[r] \in Seq(Event)
    BY DEF StreamInv, TypeOK
  <1>1. Live(r) /\ ~LoopCancelled(r)
    BY <1>0 DEF Loop, LoopBegin, LoopTake, LoopSaved, LoopDone, LoopCancelled, Solo,
                Sequential, Live
  <1>2. procOf[r] = r /\ registry = r
    <2>1. loop[r] # "none"
      BY <1>1 DEF Live
    <2> QED BY <1>0, <1>1, <2>1, SoloFacts DEF Solo, Sequential
  <1>3. \A e : Broadcast(r, e) => Told(r, e)
    BY DEF Broadcast, Told
  <1>4. event_queue[r] # <<>> => /\ event_queue[r][1] \in Event
                                 /\ Head(event_queue[r]) = event_queue[r][1]
                                 /\ event_queue[r][1].item = r
    BY <1>0, EventSeq DEF Solo, Single, About
  <1>5. CASE LoopBegin(r)
    BY <1>0, <1>1, <1>2, <1>5
    DEF LoopBegin, TypeOK, procVars, itemVars, clientVars, storeVars
  <1>6. CASE LoopTake(r)
    <2> DEFINE e == event_queue[r][1]
    <2>1. event_queue[r] # <<>> /\ loop[r] = "waiting"
      BY <1>2, <1>6 DEF LoopTake
    <2>2. /\ e.kind # "DONE" /\ Apply(e)
          /\ event_queue' = [event_queue EXCEPT ![r] = Tail(event_queue[r])]
          /\ \/ /\ MayPersist(e) /\ inbox' = inbox
                /\ loop' = [loop EXCEPT ![r] = "saving"] /\ held' = [held EXCEPT ![r] = e]
             \/ /\ ~MustPersist(e) /\ loop' = loop /\ held' = held
                /\ IF Skipped(e) THEN inbox' = inbox ELSE Broadcast(r, e)
          /\ UNCHANGED <<procVars, wf, emitted, client, attachedTo, pending,
                         view, storeVars, statusVars>>
      BY <1>2, <1>4, <1>6, <2>1 DEF LoopTake
    <2>3. e.item = r
      BY <1>4, <2>1
    <2>4. \A t \in Runs \ {r} : text'[t] = text[t] /\ (t \in active_items' <=> t \in active_items)
      BY <1>0, <2>2, <2>3 DEF Apply, itemVars, TypeOK
    <2> HIDE DEF e
    <2>5. \A t \in Runs \ {r} : /\ loop'[t] = loop[t] /\ held'[t] = held[t]
                                /\ event_queue'[t] = event_queue[t]
      BY <1>0, <2>2 DEF TypeOK
    <2>6. /\ event_queue'[r] = Tail(event_queue[r])
          /\ \/ /\ MayPersist(e) /\ inbox' = inbox /\ loop'[r] = "saving" /\ held'[r] = e
             \/ /\ ~MustPersist(e) /\ loop'[r] = "waiting" /\ held'[r] = held[r]
                /\ IF Skipped(e) THEN inbox' = inbox ELSE Told(r, e)
      BY <1>0, <1>3, <2>1, <2>2 DEF TypeOK
    <2>7. e \in Event /\ e = event_queue[r][1]
      BY <1>4, <2>1 DEF e
    <2> QED BY <1>1, <1>2, <1>6, <2>1, <2>2, <2>4, <2>5, <2>6, <2>7 DEF procVars, storeVars
  <1>7. CASE LoopSaved(r)
    <2>1. /\ loop[r] = "saving" /\ loop' = [loop EXCEPT ![r] = "waiting"]
          /\ held' = [held EXCEPT ![r] = Ev("end", r)] /\ Broadcast(r, held[r])
          /\ UNCHANGED <<procVars, event_queue, itemVars, wf, emitted, client,
                         attachedTo, pending, view, orphans>>
      BY <1>2, <1>7 DEF LoopSaved
    <2> QED BY <1>0, <1>1, <1>2, <1>3, <1>7, <2>1 DEF TypeOK, procVars, itemVars
  <1>8. CASE LoopDone(r)
    <2>1. /\ loop[r] = "waiting" /\ event_queue[r] # <<>>
          /\ loop' = [loop EXCEPT ![r] = "done"] /\ event_queue[r][1].kind = "DONE"
          /\ event_queue' = [event_queue EXCEPT ![r] = Tail(event_queue[r])]
          /\ Broadcast(r, event_queue[r][1]) /\ CleanupRegistry(r)
          /\ UNCHANGED <<procOf, current, itemVars, wf, emitted, held, client,
                         attachedTo, pending, view, storeVars>>
      BY <1>2, <1>4, <1>8 DEF LoopDone
    <2>2. registry' \in {registry, NoRun}
      BY <2>1 DEF CleanupRegistry
    <2> QED BY <1>0, <1>1, <1>2, <1>3, <1>4, <1>8, <2>1, <2>2 DEF TypeOK, itemVars, storeVars
  <1> QED BY <1>1, <1>5, <1>6, <1>7, <1>8 DEF Loop

\* A loop's events are those of its own turn.
LEMMA LoopSolo ==
    ASSUME StreamInv, Solo, NEW r \in Runs, Loop(r)
    PROVE  Solo'
  <1>0. /\ procOf[r] = r /\ registry = r /\ Live(r) /\ registry' \in {registry, NoRun}
        /\ UNCHANGED <<procOf, current, wf, emitted, client, attachedTo, pending, view>>
        /\ \A t \in Runs \ {r} : /\ loop'[t] = loop[t] /\ held'[t] = held[t]
                                 /\ event_queue'[t] = event_queue[t]
                                 /\ t \in active_items' <=> t \in active_items
    BY LoopEffect
  <1>1. event_queue[r] \in Seq(Event) /\ About(event_queue[r], r) /\ held[r].item = r
        /\ held[r] \in Event
    BY SoloFacts DEF Solo, Single
  <1>2. event_queue[r] # <<>> => event_queue[r][1].item = r
    BY <1>1, EventSeq DEF About
  <1>3. Sequential'
    <2>1. \A t \in Runs : client[t] # "loaded"
      BY <1>0, RunsAssumption DEF Solo, Sequential
    <2>2. ASSUME NEW t \in Runs
          PROVE  (Live(t)' => registry' = t) /\ loop'[t] \notin {"doomed", "cancelling"}
      <3>1. CASE t = r
        <4>1. loop'[r] \in {"waiting", "saving", "done"}
          BY LoopEffect
        <4>2. loop'[r] # "done" => ~LoopDone(r)
          BY LoopEffect DEF LoopDone, StreamInv, TypeOK
        <4>3. ~LoopDone(r) => registry' = registry
          BY <1>0 DEF Loop, LoopBegin, LoopTake, LoopSaved, LoopCancelled, procVars, Solo,
                      Sequential
        <4> QED BY <1>0, <3>1, <4>1, <4>2, <4>3 DEF Live
      <3>2. CASE t # r
        BY <1>0, <3>2 DEF Solo, Sequential, Live
      <3> QED BY <3>1, <3>2
    <2> QED BY <1>0, <2>1, <2>2 DEF Solo, Sequential
  <1>4. ASSUME NEW c \in Clients PROVE Apart(c)'
    <2>1. \A e \in Event : e.item = r /\ Told(r, e) =>
            \/ inbox'[c] = inbox[c]
            \/ attachedTo[c] = r /\ About(inbox'[c], r)
      <3> SUFFICES ASSUME NEW e \in Event, e.item = r, Told(r, e), attachedTo[c] = r
                   PROVE  About(inbox'[c], r)
        BY DEF Told
      <3>1. inbox[c] \in Seq(Event) /\ About(inbox[c], r) /\ inbox'[c] = Append(inbox[c], e)
        <4>1. Apart(c) /\ r # NoRun
          BY RunsAssumption DEF Solo
        <4> QED BY <4>1, SoloFacts DEF Apart, Told
      <3> QED BY <3>1, AboutSeq
    <2>2. \/ inbox'[c] = inbox[c]
          \/ attachedTo[c] = r /\ About(inbox'[c], r)
      <3>1. \/ inbox' = inbox
            \/ Told(r, held[r])
            \/ event_queue[r] # <<>> /\ event_queue[r][1] \in Event /\ Told(r, event_queue[r][1])
        BY LoopEffect
      <3> QED BY <1>1, <1>2, <2>1, <3>1
    <2> QED BY <1>0, <2>2, RunsAssumption DEF Solo, Apart
  <1>5. ASSUME NEW t \in Runs PROVE Single(t)'
    <2>1. About(event_queue'[t], t)
      <3>1. \/ event_queue'[r] = event_queue[r]
            \/ event_queue[r] # <<>> /\ event_queue'[r] = Tail(event_queue[r])
        <4>1. LoopTake(r) \/ LoopDone(r) \/ UNCHANGED event_queue
          BY LoopEffect
        <4>2. LoopTake(r) \/ LoopDone(r) =>
                event_queue[r] # <<>> /\ event_queue' = [event_queue EXCEPT ![r] = Tail(event_queue[r])]
          BY <1>0 DEF LoopTake, LoopDone
        <4> QED BY <4>1, <4>2 DEF StreamInv, TypeOK
      <3>2. About(event_queue'[r], r)
        BY <1>1, <3>1, AboutSeq
      <3> QED BY <1>0, <3>2 DEF Solo, Single
    <2>2. held'[t].item = t
      <3>1. \/ held'[r] \in {held[r], Ev("end", r)}
            \/ event_queue[r] # <<>> /\ held'[r] = event_queue[r][1]
        BY LoopEffect
      <3>2. held'[r].item = r
        BY <1>1, <1>2, <3>1 DEF Ev
      <3> QED BY <1>0, <3>2 DEF Solo, Single
    <2> QED BY <1>0, <2>1, <2>2 DEF Solo, Single
  <1> QED BY <1>3, <1>4, <1>5 DEF Solo

\* What one step of a client does.
LEMMA ConsumeEffect ==
    ASSUME StreamInv, NEW c \in Clients, Consume(c) \/ Disconnect(c)
    PROVE  /\ UNCHANGED <<procVars, event_queue, itemVars, wf, emitted, loop, held>>
           /\ \A d \in Clients \ {c} : /\ client'[d] = client[d] /\ inbox'[d] = inbox[d]
                                       /\ attachedTo'[d] = attachedTo[d]
                                       /\ pending'[d] = pending[d] /\ view'[d] = view[d]
           /\ client[c] \notin {"idle", "finished", "gone"}
           /\ \/ /\ ClientTake(c) /\ client[c] = "reading" /\ inbox[c] # <<>>
                 /\ inbox[c][1] \in Event /\ inbox[c][1].kind # "DONE"
                 /\ inbox'[c] = Tail(inbox[c]) /\ attachedTo'[c] = attachedTo[c]
                 /\ view'[c] = [view[c] EXCEPT ![inbox[c][1].item] = Seen(c, inbox[c][1])]
                 /\ UNCHANGED storeVars
                 /\ \/ /\ ClientMayPersist(c, inbox[c][1]) /\ client'[c] = "saving"
                       /\ pending'[c] = {[kind |-> inbox[c][1].kind, item |-> inbox[c][1].item,
                                          by |-> c, ver |-> Seen(c, inbox[c][1])]}
                    \/ /\ ~ClientMustPersist(c, inbox[c][1]) /\ client'[c] = "yielding"
                       /\ pending'[c] = pending[c]
              \/ /\ \/ ClientDone(c) /\ inbox[c] # <<>> /\ inbox[c][1].kind = "DONE"
                    \/ ClientSaved(c) \/ ClientPull(c) \/ Disconnect(c)
                 /\ client'[c] \in {"finished", "gone"} /\ attachedTo'[c] = NoRun
                 /\ inbox'[c] = <<>> /\ pending'[c] = {} /\ view'[c] = [r \in Runs |-> Absent]
              \/ /\ ClientSaved(c) /\ client[c] = "saving" /\ client'[c] = "yielding"
                 /\ pending'[c] = {} /\ UNCHANGED <<attachedTo, inbox, view>>
              \/ /\ ClientPull(c) /\ client[c] = "yielding" /\ client'[c] = "reading"
                 /\ UNCHANGED <<attachedTo, inbox, pending, view>>
  <1>1. /\ client \in [Clients -> ClientState] /\ attachedTo \in [Clients -> Runs \cup {NoRun}]
        /\ inbox \in [Clients -> Seq(Event)] /\ pending \in [Clients -> SUBSET Write]
        /\ view \in [Clients -> [Runs -> Version]]
    BY DEF StreamInv, TypeOK
  <1>2. inbox[c] # <<>> => inbox[c][1] \in Event /\ Head(inbox[c]) = inbox[c][1]
    BY <1>1, EventSeq
  <1>3. UNCHANGED <<procVars, event_queue, itemVars, wf, emitted, loop, held>>
    BY DEF Consume, ClientTake, ClientDone, ClientSaved, ClientPull, Disconnect
  <1>4. ASSUME NEW st, Leave(c, st)
        PROVE  /\ client'[c] = st /\ attachedTo'[c] = NoRun
               /\ inbox'[c] = <<>> /\ pending'[c] = {} /\ view'[c] = [r \in Runs |-> Absent]
               /\ \A d \in Clients \ {c} : /\ client'[d] = client[d] /\ inbox'[d] = inbox[d]
                                           /\ attachedTo'[d] = attachedTo[d]
                                           /\ pending'[d] = pending[d] /\ view'[d] = view[d]
    BY <1>1, <1>4 DEF Leave
  <1>5. CASE ClientTake(c)
    <2> DEFINE e == inbox[c][1]
    <2>1. /\ client[c] = "reading" /\ inbox[c] # <<>> /\ e.kind # "DONE"
          /\ view' = [view EXCEPT ![c][e.item] = Seen(c, e)]
          /\ \/ /\ ClientMayPersist(c, e) /\ client' = [client EXCEPT ![c] = "saving"]
                /\ pending' = [pending EXCEPT ![c] =
                       {[kind |-> e.kind, item |-> e.item, by |-> c, ver |-> Seen(c, e)]}]
             \/ /\ ~ClientMustPersist(c, e) /\ client' = [client EXCEPT ![c] = "yielding"]
                /\ pending' = pending
          /\ inbox' = [inbox EXCEPT ![c] = Tail(inbox[c])]
          /\ attachedTo' = attachedTo /\ UNCHANGED storeVars
      BY <1>2, <1>5 DEF ClientTake
    <2>2. e \in Event
      BY <1>2, <2>1
    <2> HIDE DEF e
    <2>3. view'[c] = [view[c] EXCEPT ![e.item] = Seen(c, e)]
          /\ \A d \in Clients \ {c} : view'[d] = view[d]
      BY <1>1, <2>1
    <2>4. inbox'[c] = Tail(inbox[c]) /\ \A d \in Clients \ {c} : inbox'[d] = inbox[d]
      BY <1>1, <2>1
    <2>5. \A d \in Clients \ {c} : client'[d] = client[d] /\ pending'[d] = pending[d]
      BY <1>1, <2>1
    <2>6. \/ /\ ClientMayPersist(c, e) /\ client'[c] = "saving"
             /\ pending'[c] = {[kind |-> e.kind, item |-> e.item, by |-> c, ver |-> Seen(c, e)]}
          \/ ~ClientMustPersist(c, e) /\ client'[c] = "yielding" /\ pending'[c] = pending[c]
      BY <1>1, <2>1
    <2> QED BY <1>3, <1>5, <2>1, <2>2, <2>3, <2>4, <2>5, <2>6 DEF e
  <1>6. CASE ClientDone(c)
    <2>1. client[c] = "reading" /\ inbox[c] # <<>> /\ inbox[c][1].kind = "DONE"
          /\ Leave(c, "finished")
      BY <1>2, <1>6 DEF ClientDone
    <2> QED BY <1>3, <1>4, <1>6, <2>1
  <1>7. CASE Disconnect(c)
    <2>1. client[c] \notin {"idle", "finished", "gone"} /\ Leave(c, "gone")
      BY <1>7 DEF Disconnect
    <2> QED BY <1>3, <1>4, <1>7, <2>1
  <1>8. CASE ClientSaved(c)
    <2>1. client[c] = "saving"
      BY <1>8 DEF ClientSaved
    <2>2. CASE Leave(c, "finished")
      BY <1>3, <1>4, <1>8, <2>1, <2>2
    <2>3. CASE /\ client' = [client EXCEPT ![c] = "yielding"]
               /\ pending' = [pending EXCEPT ![c] = {}] /\ UNCHANGED <<attachedTo, inbox, view>>
      BY <1>1, <1>3, <1>8, <2>1, <2>3
    <2> QED BY <1>8, <2>2, <2>3 DEF ClientSaved
  <1>9. CASE ClientPull(c)
    <2>1. client[c] = "yielding"
      BY <1>9 DEF ClientPull
    <2>2. CASE Leave(c, "finished")
      BY <1>3, <1>4, <1>9, <2>1, <2>2
    <2>3. CASE /\ client' = [client EXCEPT ![c] = "reading"]
               /\ UNCHANGED <<attachedTo, inbox, pending, view>>
      BY <1>1, <1>3, <1>9, <2>1, <2>3
    <2> QED BY <1>9, <2>2, <2>3 DEF ClientPull
  <1> QED BY <1>5, <1>6, <1>7, <1>8, <1>9 DEF Consume

\* A client takes its own events, or leaves.
LEMMA ConsumeSolo ==
    ASSUME StreamInv, Solo, NEW c \in Clients, Consume(c) \/ Disconnect(c)
    PROVE  Solo'
  <1>1. /\ UNCHANGED <<procVars, event_queue, itemVars, wf, emitted, loop, held>>
        /\ \A d \in Clients \ {c} : /\ client'[d] = client[d] /\ inbox'[d] = inbox[d]
                                    /\ attachedTo'[d] = attachedTo[d]
                                    /\ pending'[d] = pending[d] /\ view'[d] = view[d]
        /\ client'[c] # "loaded"
    BY ConsumeEffect
  <1>2. Sequential'
    BY <1>1 DEF Solo, Sequential, Live, procVars, Clients
  <1>3. ASSUME NEW d \in Clients PROVE Apart(d)'
    <2>1. CASE d # c
      BY <1>1, <2>1 DEF Solo, Apart, procVars
    <2>2. CASE d = c /\ attachedTo'[c] = NoRun /\ inbox'[c] = <<>> /\ pending'[c] = {}
                     /\ view'[c] = [r \in Runs |-> Absent]
      BY <2>2 DEF Apart
    <2>3. CASE /\ d = c /\ inbox[c] # <<>> /\ client[c] = "reading"
               /\ inbox'[c] = Tail(inbox[c]) /\ attachedTo'[c] = attachedTo[c]
               /\ client'[c] \in {"saving", "yielding"}
               /\ pending'[c] = pending[c] \/ \A w \in pending'[c] : w.item = inbox[c][1].item
      <3>1. /\ Apart(c) /\ inbox[c] \in Seq(Event)
        BY SoloFacts DEF Solo
      <3>2. attachedTo[c] # NoRun /\ About(inbox[c], attachedTo[c])
        BY <2>3, <3>1 DEF Apart
      <3>3. About(inbox'[c], attachedTo[c]) /\ inbox[c][1].item = attachedTo[c]
        BY <2>3, <3>1, <3>2, AboutSeq, EventSeq
      <3> QED BY <1>1, <2>3, <3>1, <3>2, <3>3 DEF Apart, procVars
    <2>4. CASE d = c /\ UNCHANGED <<attachedTo, inbox, view>> /\ pending'[c] \in {pending[c], {}}
               /\ client'[c] \in {"yielding", "reading"}
      <3>1. Apart(c)
        BY DEF Solo
      <3> QED BY <1>1, <2>4, <3>1 DEF Apart, procVars
    <2>5. ASSUME pending'[c] = {[kind |-> inbox[c][1].kind, item |-> inbox[c][1].item,
                                 by |-> c, ver |-> Seen(c, inbox[c][1])]}
          PROVE  \A w \in pending'[c] : w.item = inbox[c][1].item
      BY <2>5
    <2>6. CASE /\ inbox[c] # <<>> /\ client[c] = "reading"
               /\ inbox'[c] = Tail(inbox[c]) /\ attachedTo'[c] = attachedTo[c]
               /\ \/ /\ client'[c] = "saving"
                     /\ pending'[c] = {[kind |-> inbox[c][1].kind, item |-> inbox[c][1].item,
                                        by |-> c, ver |-> Seen(c, inbox[c][1])]}
                  \/ client'[c] = "yielding" /\ pending'[c] = pending[c]
      BY <2>1, <2>3, <2>5, <2>6
    <2>7. CASE /\ attachedTo'[c] = NoRun /\ inbox'[c] = <<>> /\ pending'[c] = {}
               /\ view'[c] = [r \in Runs |-> Absent]
      BY <2>1, <2>2, <2>7
    <2>8. CASE /\ UNCHANGED <<attachedTo, inbox, view>> /\ pending'[c] \in {pending[c], {}}
               /\ client'[c] \in {"yielding", "reading"}
      BY <2>1, <2>4, <2>8
    <2> QED BY <2>6, <2>7, <2>8, ConsumeEffect
  <1>4. ASSUME NEW t \in Runs PROVE Single(t)'
    BY <1>1 DEF Solo, Single, procVars, itemVars
  <1> QED BY <1>2, <1>3, <1>4 DEF Solo

\* Turns stay apart as long as messages wait for the end of the turn.
LEMMA NextSolo ==
    ASSUME StreamInv, Solo, ~MayOverlap, [Next]_vars
    PROVE  Solo'
  <1>1. ASSUME UNCHANGED <<procVars, event_queue, itemVars, wf, emitted, loop, held, clientVars>>
        PROVE  Solo'
    BY <1>1 DEF Solo, Sequential, Apart, Single, About, Live, procVars, itemVars, clientVars
  <1>2. CASE UNCHANGED vars
    BY <1>1, <1>2 DEF vars
  <1>3. CASE \E w \in orphans : OrphanLands(w)
    BY <1>1, <1>3 DEF OrphanLands
  <1>4. CASE \E r \in Runs : Respond(r) \/ Workflow(r) \/ Loop(r)
    BY <1>4, RespondSolo, WorkflowSolo, LoopSolo
  <1>5. CASE \/ \E c \in Resumers : Resume(c)
             \/ \E c \in Clients : Consume(c) \/ Disconnect(c)
    BY <1>5, ResumeSolo, ConsumeSolo
  <1> QED BY <1>2, <1>3, <1>4, <1>5 DEF Next, Rest

-----------------------------------------------------------------------------
(* The sender keeps up                                                     *)

\* Nothing of turn r changes.
Idle(r) ==
    /\ event_queue'[r] = event_queue[r] /\ wf'[r] = wf[r] /\ emitted'[r] = emitted[r]
    /\ loop'[r] = loop[r] /\ held'[r] = held[r] /\ text'[r] = text[r]
    /\ r \in active_items' <=> r \in active_items
    /\ attachedTo'[r] = attachedTo[r] /\ inbox'[r] = inbox[r] /\ view'[r] = view[r]
LEMMA IdleSender ==
    ASSUME NEW r \in Runs, Produced(r), Followed(r), Idle(r)
    PROVE  (Produced(r) /\ Followed(r))'
  <1>1. /\ Deltas(event_queue'[r]) = Deltas(event_queue[r])
        /\ Deltas(inbox'[r]) = Deltas(inbox[r])
        /\ Starts(event_queue'[r]) <=> Starts(event_queue[r])
        /\ Starts(inbox'[r]) <=> Starts(inbox[r])
    BY DEF Idle
  <1>2. /\ Untouched(r)' <=> Untouched(r)
        /\ Blank(r)' <=> Blank(r)
        /\ Shown(r)' = Shown(r)
        /\ Holds(r, "added")' <=> Holds(r, "added")
        /\ Holds(r, "updated")' <=> Holds(r, "updated")
    BY DEF Idle, Untouched, Blank, Shown, Holds
  <1>3. InStep(r)' <=> InStep(r)
    BY <1>1, <1>2 DEF Idle, InStep
  <1>4. Produced(r)'
    BY <1>1, <1>2 DEF Idle, Produced
  <1> QED BY <1>3, <1>4 DEF Idle, Followed

\* A turn starts with nothing to show.
LEMMA RespondSender ==
    ASSUME SenderInv, ~MayOverlap, AutoStarted = {}, NEW r \in Runs, Respond(r), NEW t \in Runs
    PROVE  (Produced(t) /\ Followed(t))'
  <1>0. StreamInv /\ Solo /\ Produced(t) /\ Followed(t)
    BY DEF SenderInv
  <1>1. CASE t # r
    <2>1. Idle(t)
      BY <1>0, <1>1, RespondEffect DEF Idle, Clients
    <2> QED BY <1>0, <2>1, IdleSender
  <1>2. CASE t = r /\ client[r] # "loaded"
    <2>1. Idle(t)
      BY <1>0, <1>2, RespondEffect DEF Idle
    <2> QED BY <1>0, <2>1, IdleSender
  <1>3. CASE t = r /\ client[r] = "loaded"
    <2>1. /\ wf[r] = "none" /\ attachedTo[r] = NoRun /\ r \notin active_items
          /\ event_queue'[r] = <<>> /\ wf'[r] = "created" /\ loop'[r] = "created"
          /\ \/ attachedTo'[r] = NoRun
             \/ attachedTo'[r] = r /\ inbox'[r] = <<>>
      BY <1>0, <1>3, RespondEffect
    <2>2. UNCHANGED <<active_items, emitted, view>>
      BY <1>0, <1>3, RespondEffect
    <2>3. emitted[r] = Absent /\ view[r][r] = Absent
      <3>1. Single(r) /\ Apart(r)
        BY <1>0 DEF Solo, Clients
      <3> QED BY <2>1, <3>1 DEF Single, Apart
    <2>4. Untouched(r)'
      BY <2>1, <2>2, <2>3, RunsAssumption DEF Untouched, Blank
    <2>5. Produced(r)'
      BY <2>1, <2>2, <2>4 DEF Produced, Starts
    <2>6. Followed(r)'
      BY <2>1, <2>2 DEF Followed
    <2> QED BY <1>3, <2>5, <2>6
  <1> QED BY <1>1, <1>2, <1>3

\* The workflow produces what the queue then has.
LEMMA WorkflowSender ==
    ASSUME SenderInv, NEW r \in Runs, Workflow(r), NEW t \in Runs
    PROVE  (Produced(t) /\ Followed(t))'
  <1>0. StreamInv /\ Solo /\ Produced(t) /\ Followed(t)
    BY DEF SenderInv
  <1>1. UNCHANGED <<procVars, itemVars, loop, held, clientVars, storeVars>>
    BY <1>0, WorkflowEffect
  <1>2. CASE t # r
    <2>1. event_queue'[t] = event_queue[t] /\ wf'[t] = wf[t] /\ emitted'[t] = emitted[t]
      BY <1>0, <1>2, WorkflowEffect
    <2>2. Idle(t)
      BY <1>1, <2>1 DEF Idle, itemVars, clientVars
    <2> QED BY <1>0, <2>2, IdleSender
  <1>3. CASE t = r
    <2> DEFINE q == event_queue[r]
               s == event_queue'[r]
    <2>0. /\ q \in Seq(Event) /\ Deltas(q) \in Nat /\ text[r] \in Nat /\ emitted[r] \in Version
          /\ MaxDeltas \in Nat
      BY <1>0, SoloFacts, DeltasCount, BoundsAssumption DEF StreamInv, TypeOK
    <2>1. Produced(r) /\ Followed(r)
      BY <1>0, <1>3
    <2>2. Followed(r)'
      <3>1. /\ InStep(r)' <=> InStep(r)
        BY <1>1 DEF InStep, Holds, Shown, Blank, itemVars, clientVars
      <3> QED BY <1>1, <2>1, <3>1 DEF Followed, itemVars, clientVars
    <2>3. Untouched(r)' <=> Untouched(r)
      BY <1>1 DEF Untouched, Blank, itemVars, clientVars
    <2>4. ASSUME NEW k \in EventKind, s = Append(q, Ev(k, r))
          PROVE  /\ s \in Seq(Event) /\ s # <<>>
                 /\ \A n \in DOMAIN s : (n \in DOMAIN q /\ s[n] = q[n]) \/ s[n].kind = k
                 /\ Deltas(s) = Deltas(q) + IF k = "updated" THEN 1 ELSE 0
                 /\ Starts(q) => Starts(s)
                 /\ Starts(s) => Starts(q) \/ k = "added"
                 /\ q = <<>> => \A n \in DOMAIN s : n = 1
      <3>0. Ev(k, r) \in Event /\ Ev(k, r).kind = k
        BY EvType DEF Ev
      <3>1. /\ s \in Seq(Event) /\ s # <<>> /\ DOMAIN s = DOMAIN q \cup {Len(q) + 1}
            /\ s[Len(q) + 1] = Ev(k, r) /\ \A n \in DOMAIN q : s[n] = q[n]
        BY <2>0, <2>4, <3>0, Appended
      <3>2. /\ Deltas(s) = Deltas(q) + IF k = "updated" THEN 1 ELSE 0
        BY <2>0, <2>4, <3>0, DeltasCount
      <3>3. Len(q) \in Nat /\ DOMAIN q = 1 .. Len(q) /\ (q = <<>> <=> Len(q) = 0)
        BY <2>0, EventSeq
      <3> HIDE DEF q, s
      <3> QED BY <3>0, <3>1, <3>2, <3>3 DEF Starts
    <2>5. "added" \in EventKind /\ "updated" \in EventKind /\ "done" \in EventKind
      BY DEF EventKind
    <2>6. CASE wf[r] = "created" /\ wf'[r] = "running" /\ emitted'[r] = emitted[r] /\ s = q
      <3>1. emitted[r] = Absent
        BY <1>0, <2>6 DEF Solo, Single
      <3> QED BY <1>1, <1>3, <2>1, <2>2, <2>3, <2>6, <3>1 DEF Produced, Absent, itemVars
    <2>7. CASE /\ wf[r] = "running" /\ wf'[r] = "running" /\ emitted[r] = Absent
               /\ emitted'[r] = 0 /\ s = Append(q, Ev("added", r))
      <3>1. q = <<>> /\ Untouched(r)
        BY <2>1, <2>7 DEF Produced
      <3>2. Deltas(s) = 0 /\ Starts(s) /\ \A n \in DOMAIN s : n = 1 /\ s[n].kind = "added"
        <4>1. Ev("added", r) \in Event /\ Ev("added", r).kind = "added" /\ Deltas(q) = 0
          BY <2>0, <2>5, <3>1, EvType, DeltasCount DEF Ev
        <4>2. s = <<Ev("added", r)>>
          BY <2>7, <3>1
        <4>3. Deltas(s) = 0
          BY <2>4, <2>5, <2>7, <4>1
        <4>4. Starts(s)
          BY <4>1, <4>2 DEF Starts
        <4>5. \A n \in DOMAIN s : n = 1 /\ s[n].kind = "added"
          BY <4>1, <4>2
        <4> QED BY <4>3, <4>4, <4>5
      <3> QED BY <1>1, <1>3, <2>0, <2>2, <2>3, <2>7, <3>1, <3>2 DEF Produced, Absent, Untouched, itemVars
    <2>8. CASE /\ wf[r] = "running" /\ wf'[r] = "running" /\ emitted[r] \in 0 .. MaxDeltas - 1
               /\ emitted'[r] = emitted[r] + 1 /\ s = Append(q, Ev("updated", r))
      <3>1. /\ Deltas(s) = Deltas(q) + 1
            /\ Starts(s) <=> Starts(q)
            /\ \A n \in DOMAIN s : (n \in DOMAIN q /\ s[n] = q[n]) \/ s[n].kind = "updated"
        BY <2>4, <2>5, <2>8
      <3>2. \/ r \in active_items /\ text[r] + Deltas(q) = emitted[r] /\ ~Starts(q)
            \/ Starts(q) /\ Deltas(q) = emitted[r] /\ Untouched(r)
        <4>1. emitted[r] \in 0 .. MaxDeltas
          BY <2>0, <2>8
        <4> QED BY <2>1, <2>8, <4>1 DEF Produced, Untouched
      <3>3. emitted'[r] \in 1 .. MaxDeltas /\ emitted'[r] # Absent /\ emitted[r] # Final
        BY <2>0, <2>8 DEF Absent, Final
      <3> HIDE DEF q, s
      <3>4. \A n \in DOMAIN s : /\ s[n].kind # "replaced" /\ s[n].kind # "done"
                                /\ s[n].kind = "added" => n = 1
        BY <2>1, <3>1, <3>3 DEF Produced, q
      <3>5. emitted[r] \in Int /\ emitted'[r] = emitted[r] + 1 /\ emitted'[r] <= MaxDeltas
        BY <2>0, <2>8
      <3>6. \/ r \in active_items /\ ~Starts(s) /\ text[r] + Deltas(s) = emitted'[r]
            \/ r \notin active_items /\ Starts(s) /\ Untouched(r) /\ Deltas(s) = emitted'[r]
        <4>1. CASE r \in active_items /\ text[r] + Deltas(q) = emitted[r] /\ ~Starts(q)
          BY <2>0, <3>1, <3>5, <4>1
        <4>2. CASE Starts(q) /\ Deltas(q) = emitted[r] /\ Untouched(r)
          BY <2>0, <3>1, <3>5, <4>2 DEF Untouched
        <4> QED BY <3>2, <4>1, <4>2
      <3>7. /\ Starts(s) => Untouched(r) /\ Deltas(s) <= MaxDeltas
            /\ r \in active_items => text[r] + Deltas(s) <= MaxDeltas
        BY <3>5, <3>6
      <3> QED BY <1>1, <1>3, <2>1, <2>2, <2>3, <3>3, <3>4, <3>6, <3>7
              DEF Produced, itemVars, s
    <2>9. CASE /\ wf[r] = "running" /\ wf'[r] = "running" /\ emitted[r] \in 0 .. MaxDeltas
               /\ emitted'[r] = Final /\ s = Append(q, Ev("done", r))
      <3>1. /\ Deltas(s) = Deltas(q) + 0
            /\ Starts(s) <=> Starts(q)
            /\ \A n \in DOMAIN s : (n \in DOMAIN q /\ s[n] = q[n]) \/ s[n].kind = "done"
        BY <2>4, <2>5, <2>9
      <3>2. emitted'[r] \notin 0 .. MaxDeltas /\ emitted'[r] # Absent /\ Deltas(s) = Deltas(q)
        BY <2>0, <2>9, <3>1 DEF Absent, Final
      <3> HIDE DEF q, s
      <3> QED BY <1>1, <1>3, <2>1, <2>2, <2>3, <2>9, <3>1, <3>2 DEF Produced, itemVars, q, s
    <2>10. CASE /\ wf'[r] # "running" /\ wf'[r] \in {"savingWait", "done"}
                /\ emitted'[r] = emitted[r]
                /\ \/ \E k \in Plain : s = Append(q, Ev(k, r))
                   \/ \E k \in Plain : s = Append(Append(q, Ev(k, r)), Ev("DONE", r))
      <3> DEFINE More(x, y) == /\ y \in Seq(Event) /\ Deltas(y) = Deltas(x)
                               /\ Starts(y) => Starts(x)
                               /\ \A n \in DOMAIN y : \/ n \in DOMAIN x /\ y[n] = x[n]
                                                    \/ y[n].kind \in Plain
      <3>1. ASSUME NEW x \in Seq(Event), NEW k \in Plain
            PROVE  More(x, Append(x, Ev(k, r)))
        <4>0. Ev(k, r) \in Event /\ Ev(k, r).kind = k
          BY EvType DEF Ev, Plain, EventKind
        <4> DEFINE y == Append(x, Ev(k, r))
        <4>1. /\ y \in Seq(Event) /\ DOMAIN y = DOMAIN x \cup {Len(x) + 1}
              /\ y[Len(x) + 1] = Ev(k, r) /\ \A n \in DOMAIN x : y[n] = x[n]
          BY <4>0, Appended
        <4>2. Deltas(y) = Deltas(x)
          BY <4>0, DeltasCount DEF Plain
        <4>3. Len(x) \in Nat /\ DOMAIN x = 1 .. Len(x) /\ (x = <<>> <=> Len(x) = 0)
          BY EventSeq
        <4> HIDE DEF y
        <4>4. Starts(y) => Starts(x)
          BY <4>0, <4>1, <4>3 DEF Starts, Plain
        <4> QED BY <4>0, <4>1, <4>2, <4>4 DEF y
      <3>2. More(q, s)
        <4>1. CASE \E k \in Plain : s = Append(q, Ev(k, r))
          BY <2>0, <3>1, <4>1
        <4>2. CASE \E k \in Plain : s = Append(Append(q, Ev(k, r)), Ev("DONE", r))
          <5>1. PICK k \in Plain : s = Append(Append(q, Ev(k, r)), Ev("DONE", r))
            BY <4>2
          <5>2. More(q, Append(q, Ev(k, r)))
            BY <2>0, <3>1
          <5>3. More(Append(q, Ev(k, r)), s)
            BY <3>1, <5>1, <5>2 DEF Plain
          <5> QED BY <5>2, <5>3
        <4> QED BY <2>10, <4>1, <4>2
      <3>3. \A k \in Plain : k \notin {"added", "done", "replaced"}
        BY DEF Plain
      <3> HIDE DEF q, s
      <3> QED BY <1>1, <1>3, <2>1, <2>2, <2>3, <2>10, <3>2, <3>3 DEF Produced, itemVars, q, s
    <2>11. "end" \in Plain /\ "DONE" \in Plain /\ {"end", "error"} \subseteq Plain
      BY DEF Plain
    <2> QED BY <1>0, <2>6, <2>7, <2>8, <2>9, <2>10, <2>11, WorkflowEffect
  <1> QED BY <1>2, <1>3

\* What is left of a queue when its head is taken.
LEMMA QueueTaken ==
    ASSUME NEW r \in Runs, event_queue[r] \in Seq(Event), event_queue[r] # <<>>, Produced(r)
    PROVE  LET q == event_queue[r]
               s == Tail(event_queue[r])
           IN  /\ Deltas(q) \in Nat /\ Deltas(s) \in Nat
               /\ Deltas(q) = Deltas(s) + IF q[1].kind = "updated" THEN 1 ELSE 0
               /\ ~Starts(s)
               /\ \A n \in DOMAIN s : /\ s[n].kind \notin {"replaced", "added"}
                                      /\ s[n].kind = "done" => emitted[r] = Final
               /\ q[1].kind # "replaced"
               /\ q[1].kind = "done" => emitted[r] = Final
  <1> DEFINE q == event_queue[r]
             s == Tail(event_queue[r])
  <1>1. /\ s \in Seq(Event) /\ 1 \in DOMAIN q
        /\ \A n \in DOMAIN s : n + 1 \in DOMAIN q /\ s[n] = q[n + 1] /\ n \in Nat \ {0}
        /\ s # <<>> => 1 \in DOMAIN s
    BY Taken, EventSeq
  <1>2. /\ Deltas(q) \in Nat /\ Deltas(s) \in Nat
        /\ Deltas(q) = Deltas(s) + IF q[1].kind = "updated" THEN 1 ELSE 0
    BY <1>1, DeltasCount
  <1>3. /\ \A n \in DOMAIN q : /\ q[n].kind # "replaced"
                               /\ q[n].kind = "added" => n = 1
                               /\ q[n].kind = "done" => emitted[r] = Final
    BY DEF Produced
  <1> HIDE DEF q, s
  <1>4. \A n \in DOMAIN s : /\ s[n].kind \notin {"replaced", "added"}
                            /\ s[n].kind = "done" => emitted[r] = Final
    BY <1>1, <1>3
  <1>5. ~Starts(s)
    BY <1>1, <1>4 DEF Starts
  <1> QED BY <1>1, <1>2, <1>3, <1>4, <1>5 DEF q, s

\* An event other than a new or finished item is put behind those in the inbox.
LEMMA Heard ==
    ASSUME NEW r \in Runs, inbox[r] \in Seq(Event), NEW e \in Event,
           e.kind \notin {"added", "done", "replaced"}, inbox'[r] = Append(inbox[r], e)
    PROVE  /\ Deltas(inbox[r]) \in Nat
           /\ Deltas(inbox'[r]) = Deltas(inbox[r]) + IF e.kind = "updated" THEN 1 ELSE 0
           /\ Starts(inbox[r]) => Starts(inbox'[r])
           /\ \A n \in DOMAIN inbox'[r] :
                \/ n \in DOMAIN inbox[r] /\ inbox'[r][n] = inbox[r][n]
                \/ inbox'[r][n].kind \notin {"added", "done", "replaced"}
  <1> DEFINE b == inbox[r]
             d == inbox'[r]
  <1>1. /\ DOMAIN d = DOMAIN b \cup {Len(b) + 1} /\ d # <<>>
        /\ d[Len(b) + 1] = e /\ \A n \in DOMAIN b : d[n] = b[n]
    BY Appended
  <1>2. b # <<>> => 1 \in DOMAIN b
    BY EventSeq
  <1>3. Deltas(b) \in Nat /\ Deltas(d) = Deltas(b) + IF e.kind = "updated" THEN 1 ELSE 0
    BY DeltasCount
  <1> HIDE DEF b, d
  <1>4. Starts(b) => Starts(d)
    BY <1>1, <1>2 DEF Starts
  <1>5. \A n \in DOMAIN d : \/ n \in DOMAIN b /\ d[n] = b[n]
                            \/ d[n].kind \notin {"added", "done", "replaced"}
    BY <1>1
  <1> QED BY <1>3, <1>4, <1>5 DEF b, d

\* The inbox and the text grow together.
LEMMA HeardInStep ==
    ASSUME NEW r \in Runs, inbox[r] \in Seq(Event), NEW e \in Event,
           e.kind \notin {"added", "done", "replaced"}, inbox'[r] = Append(inbox[r], e),
           view'[r] = view[r], view[r] \in [Runs -> Version], text[r] \in Nat, InStep(r),
           ~Holds(r, "added"), loop'[r] # "saving",
           text'[r] = text[r] + IF e.kind = "updated" /\ ~Holds(r, "updated") THEN 1 ELSE 0,
           Holds(r, "updated") => e.kind = "updated"
    PROVE  InStep(r)'
  <1>1. /\ Deltas(inbox[r]) \in Nat
        /\ Deltas(inbox'[r]) = Deltas(inbox[r]) + IF e.kind = "updated" THEN 1 ELSE 0
        /\ Starts(inbox[r]) => Starts(inbox'[r])
        /\ \A n \in DOMAIN inbox'[r] :
             \/ n \in DOMAIN inbox[r] /\ inbox'[r][n] = inbox[r][n]
             \/ inbox'[r][n].kind \notin {"added", "done", "replaced"}
    BY Heard
  <1>2. /\ view[r][r] = Absent => Starts(inbox[r])
        /\ \A n \in DOMAIN inbox[r] :
              /\ inbox[r][n].kind \notin {"done", "replaced"}
              /\ inbox[r][n].kind = "added" => n = 1 /\ view[r][r] = Absent
        /\ text[r] = Shown(r) + Deltas(inbox[r]) + IF Holds(r, "updated") THEN 1 ELSE 0
    BY DEF InStep
  <1>3. ~Holds(r, "added")' /\ ~Holds(r, "updated")' /\ Shown(r)' = Shown(r)
    BY DEF Holds, Shown
  <1>4. Shown(r) \in Nat
    BY DEF Shown, Version, Absent
  <1>5. text'[r] = Shown(r) + Deltas(inbox'[r]) + 0
    BY <1>1, <1>2, <1>4
  <1> QED BY <1>1, <1>2, <1>3, <1>5 DEF InStep

\* The loop hands on what it takes.
LEMMA LoopSender ==
    ASSUME SenderInv, TemporaryItems = {}, NEW r \in Runs, Loop(r), NEW t \in Runs
    PROVE  (Produced(t) /\ Followed(t))'
  <1>0. StreamInv /\ Solo /\ Produced(t) /\ Followed(t) /\ Apart(t)
    BY DEF SenderInv, Solo, Clients
  <1>1. /\ UNCHANGED <<wf, emitted, attachedTo, view>>
        /\ \A x \in Runs \ {r} : /\ loop'[x] = loop[x] /\ held'[x] = held[x]
                                 /\ text'[x] = text[x] /\ event_queue'[x] = event_queue[x]
                                 /\ x \in active_items' <=> x \in active_items
    BY <1>0, LoopEffect
  <1>2. CASE t # r
    <2>1. attachedTo[t] # r
      BY <1>0, <1>2, RunsAssumption DEF Apart
    <2>2. \/ inbox' = inbox
          \/ \E e : Told(r, e)
      BY <1>0, LoopEffect
    <2>3. inbox'[t] = inbox[t]
      BY <2>1, <2>2 DEF Told, Clients
    <2> QED BY <1>0, <1>1, <1>2, <2>3, IdleSender DEF Idle
  <1>3. CASE t = r
    <2> DEFINE q == event_queue[r]
               e == event_queue[r][1]
    <2>0. /\ q \in Seq(Event) /\ inbox[r] \in Seq(Event) /\ text[r] \in Nat
          /\ view[r] \in [Runs -> Version] /\ MaxDeltas \in Nat /\ held[r] \in Event
          /\ text \in [Runs -> Nat]
      BY <1>0, BoundsAssumption DEF StreamInv, TypeOK, Clients
    <2>1. Produced(r) /\ Followed(r)
      BY <1>0, <1>3
    <2>2. ASSUME NEW x, Told(r, x), attachedTo[r] = r
          PROVE  inbox'[r] = Append(inbox[r], x)
      BY <2>2 DEF Told, Clients
    <2>3. CASE LoopBegin(r)
      <3>1. /\ loop[r] = "created" /\ loop'[r] = "waiting"
            /\ UNCHANGED <<event_queue, active_items, text, inbox>>
        BY <1>0, <2>3 DEF LoopBegin, StreamInv, TypeOK, itemVars, clientVars
      <3>2. /\ ~Holds(r, "added") /\ ~Holds(r, "updated") /\ ~Holds(r, "added")'
            /\ ~Holds(r, "updated")'
            /\ Untouched(r)' <=> Untouched(r)
        BY <1>1, <3>1 DEF Holds, Untouched, Blank
      <3>3. InStep(r) <=> InStep(r)'
        BY <1>1, <3>1, <3>2 DEF InStep, Shown
      <3> QED BY <1>1, <1>3, <2>1, <3>1, <3>2, <3>3 DEF Produced, Followed
    <2>4. CASE LoopSaved(r)
      <3>1. /\ loop[r] = "saving" /\ loop'[r] = "waiting" /\ Told(r, held[r])
            /\ UNCHANGED <<event_queue, active_items, text>>
        <4>1. /\ loop[r] = "saving" /\ loop' = [loop EXCEPT ![r] = "waiting"]
              /\ UNCHANGED <<event_queue, active_items, text>> /\ Broadcast(procOf[r], held[r])
          BY <2>4 DEF LoopSaved, itemVars
        <4>2. procOf[r] = r
          BY <1>0, LoopEffect
        <4> QED BY <1>0, <4>1, <4>2 DEF Broadcast, Told, StreamInv, TypeOK
      <3>2. Produced(r)'
        BY <1>1, <2>1, <3>1 DEF Produced, Untouched
      <3>3. ASSUME attachedTo[r] = r, r \in active_items
            PROVE  InStep(r)'
        <4>1. InStep(r) /\ held[r].kind \in {"added", "updated"}
          BY <2>1, <3>1, <3>3 DEF Followed, Produced
        <4>2. inbox'[r] = Append(inbox[r], held[r])
          BY <2>2, <3>1, <3>3
        <4>3. CASE held[r].kind = "updated"
          <5>1. /\ ~Holds(r, "added") /\ Holds(r, "updated")
                /\ loop'[r] # "saving" /\ text'[r] = text[r] + 0
            BY <2>0, <3>1, <4>3 DEF Holds
          <5>2. held[r].kind \notin {"added", "done", "replaced"}
            BY <4>3
          <5> QED BY <1>1, <2>0, <4>1, <4>2, <4>3, <5>1, <5>2, HeardInStep
        <4>4. CASE held[r].kind = "added"
          <5>1. inbox[r] = <<>> /\ view[r][r] = Absent /\ text[r] = 0
            BY <3>1, <4>1, <4>4 DEF InStep, Holds, Blank
          <5>2. inbox'[r] = <<held[r]>>
            BY <4>2, <5>1
          <5>3. Starts(inbox'[r]) /\ \A n \in DOMAIN inbox'[r] : n = 1 /\ inbox'[r][n].kind = "added"
            BY <4>4, <5>2 DEF Starts
          <5>4. Deltas(inbox'[r]) = 0
            <6>1. inbox'[r] = Append(<<>>, held[r]) /\ <<>> \in Seq(Event)
              BY <4>2, <5>1
            <6>2. Deltas(Append(<<>>, held[r])) = Deltas(<<>>) + 0 /\ Deltas(<<>>) = 0
              BY <2>0, <4>4, <6>1, DeltasCount
            <6> QED BY <6>1, <6>2
          <5>5. ~Holds(r, "added")' /\ ~Holds(r, "updated")' /\ Shown(r)' = 0
            BY <1>1, <3>1, <5>1 DEF Holds, Shown
          <5> QED BY <1>1, <3>1, <5>1, <5>3, <5>4, <5>5 DEF InStep
        <4> QED BY <4>1, <4>3, <4>4
      <3> QED BY <1>1, <1>3, <3>1, <3>2, <3>3 DEF Followed
    <2>5. CASE LoopTake(r) \/ LoopDone(r)
      <3>0. /\ q # <<>> /\ loop[r] = "waiting" /\ loop'[r] # "created"
            /\ event_queue'[r] = Tail(q) /\ e.item = r /\ e \in Event
            /\ LoopDone(r) => e.kind = "DONE"
        <4>1. procOf[r] = r
          BY <1>0, LoopEffect
        <4>2. q # <<>> /\ loop[r] = "waiting" /\ event_queue' = [event_queue EXCEPT ![r] = Tail(q)]
          BY <2>5, <4>1 DEF LoopTake, LoopDone
        <4>3. e = Head(q) /\ e \in Event /\ e.item = r
          BY <1>0, <2>0, <4>2, EventSeq DEF Solo, Single, About
        <4>4. loop'[r] # "created"
          BY <1>0, LoopEffect
        <4>5. LoopDone(r) => e.kind = "DONE"
          BY <4>1, <4>3 DEF LoopDone
        <4> QED BY <1>0, <4>2, <4>3, <4>4, <4>5 DEF StreamInv, TypeOK
      <3> DEFINE s == Tail(event_queue[r])
      <3>1. /\ Deltas(q) \in Nat /\ Deltas(s) \in Nat
            /\ Deltas(q) = Deltas(s) + IF e.kind = "updated" THEN 1 ELSE 0
            /\ ~Starts(s)
            /\ \A n \in DOMAIN s : /\ s[n].kind \notin {"replaced", "added"}
                                   /\ s[n].kind = "done" => emitted[r] = Final
            /\ e.kind # "replaced"
            /\ e.kind = "done" => emitted[r] = Final
        BY <2>0, <2>1, <3>0, QueueTaken
      <3>2. Starts(q) <=> e.kind = "added"
        BY <3>0 DEF Starts
      <3>3. ~(wf[r] \in {"none", "created", "running"} /\ emitted[r] = Absent)
        BY <2>1, <3>0 DEF Produced
      <3> HIDE DEF q, s, e
      <3>4. ASSUME r \in active_items' => text'[r] + Deltas(s) <= MaxDeltas
                                         /\ (loop'[r] = "saving" => held'[r].kind \in {"added", "updated"}),
                   wf[r] = "running" /\ emitted[r] \in 0 .. MaxDeltas =>
                      r \in active_items' /\ text'[r] + Deltas(s) = emitted[r]
            PROVE  Produced(r)'
        BY <1>1, <3>0, <3>1, <3>3, <3>4 DEF Produced, s, q
      <3>5. ASSUME LoopTake(r)
            PROVE  /\ Apply(e) /\ e.kind # "DONE"
                   /\ \/ MayPersist(e) /\ inbox' = inbox /\ loop'[r] = "saving" /\ held'[r] = e
                      \/ /\ ~MustPersist(e) /\ loop'[r] = "waiting"
                         /\ Told(r, e)
        <4>1. ~Skipped(e) /\ procOf[r] = r /\ e = Head(q)
          BY <1>0, <2>0, <3>0, EventSeq, LoopEffect DEF Skipped, e, q
        <4>2. /\ Apply(e) /\ e.kind # "DONE"
              /\ \/ MayPersist(e) /\ inbox' = inbox /\ loop' = [loop EXCEPT ![r] = "saving"]
                    /\ held' = [held EXCEPT ![r] = e]
                 \/ /\ ~MustPersist(e) /\ loop' = loop
                    /\ Broadcast(r, e)
          BY <3>5, <4>1 DEF LoopTake, q
        <4> QED BY <1>0, <3>0, <4>2 DEF Broadcast, Told, StreamInv, TypeOK
      <3>6. CASE e.kind = "added"
        <4>1. LoopTake(r) /\ MustPersist(e)
          BY <2>5, <3>0, <3>6 DEF MustPersist
        <4>2. /\ r \in active_items' /\ text'[r] = 0 /\ inbox' = inbox
              /\ loop'[r] = "saving" /\ held'[r].kind = "added"
          BY <2>0, <3>0, <3>5, <3>6, <4>1 DEF Apply
        <4>3. Untouched(r) /\ Deltas(q) <= MaxDeltas /\ Deltas(q) = Deltas(s)
          BY <2>1, <3>1, <3>2, <3>6 DEF Produced, q
        <4>4. wf[r] = "running" /\ emitted[r] \in 0 .. MaxDeltas => Deltas(q) = emitted[r]
          BY <2>1, <4>3 DEF Produced, Untouched, q
        <4>5. Produced(r)'
          BY <3>1, <3>4, <4>2, <4>3, <4>4
        <4>6. attachedTo[r] = r => Blank(r)'
          BY <1>1, <4>2, <4>3 DEF Untouched, Blank
        <4>7. attachedTo[r] = r => InStep(r)'
          BY <4>2, <4>6 DEF InStep, Holds
        <4> QED BY <1>1, <1>3, <4>5, <4>7 DEF Followed
      <3>7. CASE e.kind = "done"
        <4>1. LoopTake(r) /\ r \notin active_items'
          BY <2>0, <2>5, <3>0, <3>5, <3>7 DEF Apply
        <4>2. emitted[r] \notin 0 .. MaxDeltas
          BY <2>0, <3>1, <3>7 DEF Final
        <4> QED BY <1>3, <3>4, <4>1, <4>2 DEF Followed
      <3>8. CASE e.kind \notin {"added", "done"}
        <4>1. /\ r \in active_items' <=> r \in active_items
              /\ text'[r] = text[r] + IF e.kind = "updated" /\ r \in active_items THEN 1 ELSE 0
          <5>1. CASE LoopTake(r)
            <6>1. Apply(e)
              BY <3>5, <5>1
            <6> QED BY <2>0, <3>0, <3>8, <6>1 DEF Apply, itemVars
          <5>2. CASE LoopDone(r)
            BY <2>0, <3>0, <5>2 DEF LoopDone, itemVars
          <5> QED BY <2>5, <5>1, <5>2
        <4>2. \/ /\ r \in active_items /\ e.kind = "updated" /\ inbox' = inbox
                 /\ loop'[r] = "saving" /\ held'[r] = e
              \/ loop'[r] # "saving" /\ Told(r, e)
          <5>1. CASE LoopTake(r)
            <6>1. MayPersist(e) => e.kind = "updated" /\ r \in active_items
              BY <3>0, <3>8 DEF MayPersist, MustPersist
            <6> QED BY <3>5, <5>1, <6>1
          <5>2. CASE LoopDone(r)
            <6>1. loop'[r] = "done"
              BY <1>0, <5>2 DEF LoopDone, StreamInv, TypeOK
            <6>2. Told(r, e)
              <7>1. procOf[r] = r /\ e = Head(q)
                BY <1>0, <2>0, <3>0, EventSeq, LoopEffect DEF e, q
              <7> QED BY <5>2, <7>1 DEF LoopDone, Broadcast, Told, q
            <6> QED BY <6>1, <6>2
          <5> QED BY <2>5, <5>1, <5>2
        <4>3. ~Starts(q)
          BY <3>2, <3>8
        <4>4. r \in active_items => /\ text[r] + Deltas(q) <= MaxDeltas
                                    /\ text'[r] + Deltas(s) = text[r] + Deltas(q)
          <5>1. r \in active_items => text[r] + Deltas(q) <= MaxDeltas
            BY <2>1 DEF Produced, q
          <5> QED BY <2>0, <3>1, <4>1, <5>1
        <4>5. wf[r] = "running" /\ emitted[r] \in 0 .. MaxDeltas =>
                 r \in active_items /\ text[r] + Deltas(q) = emitted[r]
          BY <2>1, <4>3 DEF Produced, q
        <4>6. Produced(r)'
          BY <3>4, <4>1, <4>2, <4>4, <4>5
        <4>7. ASSUME attachedTo[r] = r, r \in active_items
              PROVE  InStep(r)'
          <5>1. InStep(r) /\ ~Holds(r, "added") /\ ~Holds(r, "updated")
            BY <2>1, <3>0, <4>7 DEF Followed, Holds
          <5>2. CASE loop'[r] # "saving" /\ Told(r, e)
            <6>1. inbox'[r] = Append(inbox[r], e)
              BY <2>2, <4>7, <5>2
            <6> QED BY <1>1, <2>0, <3>0, <3>1, <3>8, <4>1, <4>7, <5>1, <5>2, <6>1, HeardInStep
          <5>3. CASE /\ e.kind = "updated" /\ inbox' = inbox
                     /\ loop'[r] = "saving" /\ held'[r] = e
            <6>1. ~Holds(r, "added")' /\ Holds(r, "updated")' /\ Shown(r)' = Shown(r)
              BY <1>1, <5>3 DEF Holds, Shown
            <6>2. Shown(r) \in Nat /\ Deltas(inbox[r]) \in Nat
              BY <2>0, DeltasCount DEF Shown, Version, Absent
            <6>3. text'[r] = Shown(r) + Deltas(inbox[r]) + 1
              BY <2>0, <4>1, <4>7, <5>1, <5>3, <6>2 DEF InStep
            <6> QED BY <1>1, <5>1, <5>3, <6>1, <6>3 DEF InStep
          <5> QED BY <4>2, <5>2, <5>3
        <4> QED BY <1>1, <1>3, <4>1, <4>6, <4>7 DEF Followed
      <3> QED BY <3>6, <3>7, <3>8
    <2> QED BY <1>0, <2>3, <2>4, <2>5, LoopEffect
  <1> QED BY <1>2, <1>3

\* The client shows what it takes from its inbox.
LEMMA ConsumeSender ==
    ASSUME SenderInv, NEW c \in Clients, Consume(c) \/ Disconnect(c), NEW r \in Runs
    PROVE  (Produced(r) /\ Followed(r))'
  <1>0. StreamInv /\ Solo /\ Produced(r) /\ Followed(r)
    BY DEF SenderInv
  <1>1. /\ UNCHANGED <<event_queue, active_items, text, wf, emitted, loop, held>>
        /\ \A d \in Clients \ {c} : /\ inbox'[d] = inbox[d] /\ attachedTo'[d] = attachedTo[d]
                                    /\ view'[d] = view[d]
    BY <1>0, ConsumeEffect DEF itemVars
  <1>2. CASE r # c \/ UNCHANGED <<attachedTo, inbox, view>>
    <2>1. Idle(r)
      BY <1>1, <1>2 DEF Idle, Clients
    <2> QED BY <1>0, <2>1, IdleSender
  <1>3. CASE r = c /\ attachedTo'[c] = NoRun
    <2>1. Untouched(r)' <=> r \notin active_items /\ loop[r] # "saving"
      BY <1>1, <1>3, RunsAssumption DEF Untouched
    <2> QED BY <1>0, <1>1, <1>3, <2>1, RunsAssumption DEF Produced, Followed, Untouched
  <1>4. CASE /\ r = c /\ inbox[r] # <<>> /\ inbox'[r] = Tail(inbox[r])
             /\ attachedTo'[r] = attachedTo[r] /\ inbox[r][1] \in Event
             /\ view'[r] = [view[r] EXCEPT ![inbox[r][1].item] = Seen(r, inbox[r][1])]
    <2> DEFINE b == inbox[r]
               d == Tail(inbox[r])
               e == inbox[r][1]
    <2>0. /\ b \in Seq(Event) /\ view[r] \in [Runs -> Version] /\ text[r] \in Nat
          /\ MaxDeltas \in Nat
      BY <1>0, BoundsAssumption DEF StreamInv, TypeOK, Clients
    <2>1. attachedTo[r] = r /\ e.item = r
      <3>1. Apart(r)
        BY <1>0 DEF Solo, Clients
      <3> QED BY <1>4, <2>0, <3>1, EventSeq DEF Apart, About
    <2>2. ~Untouched(r)
      BY <1>4, <2>1 DEF Untouched, Blank
    <2>3. Produced(r)'
      BY <1>0, <1>1, <2>2 DEF Produced
    <2>4. ASSUME r \in active_items
          PROVE  InStep(r)'
      <3>1. InStep(r) /\ ~Holds(r, "added") /\ ~Holds(r, "added")'
            /\ text[r] + Deltas(event_queue[r]) <= MaxDeltas
        BY <1>0, <1>1, <1>4, <2>1, <2>4 DEF Followed, Produced, InStep, Blank, Holds
      <3>2. /\ view[r][r] = Absent => Starts(b)
            /\ \A n \in DOMAIN b :
                 /\ b[n].kind \notin {"done", "replaced"}
                 /\ b[n].kind = "added" => n = 1 /\ view[r][r] = Absent
            /\ text[r] = Shown(r) + Deltas(b) + IF Holds(r, "updated") THEN 1 ELSE 0
        BY <3>1 DEF InStep
      <3>3. /\ 1 \in DOMAIN b /\ d \in Seq(Event)
            /\ \A n \in DOMAIN d : n + 1 \in DOMAIN b /\ d[n] = b[n + 1] /\ n \in Nat \ {0}
        BY <1>4, <2>0, Taken, EventSeq
      <3>4. /\ Deltas(b) \in Nat /\ Deltas(d) \in Nat
            /\ Deltas(b) = Deltas(d) + IF e.kind = "updated" THEN 1 ELSE 0
        BY <1>4, <2>0, <3>3, DeltasCount
      <3>5. Deltas(event_queue[r]) \in Nat
        BY <1>0, SoloFacts, DeltasCount
      <3>6. Starts(b) <=> e.kind = "added"
        BY <1>4 DEF Starts
      <3> HIDE DEF b, d, e
      <3>7. \A n \in DOMAIN d : d[n].kind \notin {"done", "replaced", "added"}
        BY <3>2, <3>3
      <3>8. e.kind \notin {"done", "replaced"}
        BY <3>2, <3>3 DEF e, b
      <3>9. e.kind = "added" => view[r][r] = Absent
        BY <3>2, <3>3 DEF e, b
      <3>10. view'[r][r] = Seen(r, e)
        BY <1>4, <2>0, <2>1 DEF e
      <3>11. view[r][r] # Final
        <4>1. Shown(r) \in Nat
          BY <2>0 DEF Shown, Version, Absent
        <4>2. text[r] <= MaxDeltas
          BY <2>0, <3>1, <3>5
        <4>3. Shown(r) <= MaxDeltas
          BY <2>0, <3>2, <3>4, <4>1, <4>2
        <4> QED BY <2>0, <4>3 DEF Shown, Final, Absent
      <3>12. view'[r][r] # Absent
             /\ Shown(r)' = Shown(r) + IF e.kind = "updated" THEN 1 ELSE 0
        <4>0. view[r][r] \in Nat \cup {Absent}
          BY <2>0 DEF Version
        <4>1. CASE e.kind = "added"
          BY <3>9, <3>10, <4>1 DEF Seen, Shown, Absent
        <4>2. CASE e.kind = "updated"
          <5>1. view[r][r] \in Nat /\ view[r][r] # Absent
            BY <3>2, <3>6, <4>0, <4>2
          <5>2. view'[r][r] = view[r][r] + 1
            BY <2>1, <3>10, <3>11, <4>2, <5>1 DEF Seen
          <5> QED BY <4>2, <5>1, <5>2 DEF Shown, Absent
        <4>3. CASE e.kind \notin {"added", "updated"}
          <5>1. view[r][r] \in Nat /\ view[r][r] # Absent
            BY <3>2, <3>6, <4>0, <4>3
          <5>2. view'[r][r] = view[r][r]
            BY <2>1, <3>8, <3>10, <4>3 DEF Seen
          <5> QED BY <4>3, <5>1, <5>2 DEF Shown, Absent
        <4> QED BY <4>1, <4>2, <4>3
      <3>13. Shown(r) \in Nat
        BY <2>0 DEF Shown, Version, Absent
      <3>14. text[r] = Shown(r)' + Deltas(d) + IF Holds(r, "updated") THEN 1 ELSE 0
        BY <3>2, <3>4, <3>12, <3>13
      <3>15. Holds(r, "updated")' <=> Holds(r, "updated")
        BY <1>1 DEF Holds
      <3> QED BY <1>1, <1>4, <3>1, <3>7, <3>12, <3>14, <3>15 DEF InStep, d
    <2> QED BY <1>1, <2>3, <2>4 DEF Followed
  <1> QED BY <1>0, <1>2, <1>3, <1>4, ConsumeEffect

\* A turn whose sender keeps up goes on like that.
LEMMA NextSender ==
    ASSUME SenderInv, ~MayOverlap, AutoStarted = {}, TemporaryItems = {}, [Next]_vars
    PROVE  SenderInv'
  <1>0. StreamInv /\ Solo /\ StreamInv' /\ Solo'
    BY NextInv, NextSolo DEF SenderInv
  <1> SUFFICES ASSUME NEW r \in Runs PROVE (Produced(r) /\ Followed(r))'
    BY <1>0 DEF SenderInv
  <1>1. ASSUME UNCHANGED <<event_queue, itemVars, wf, emitted, loop, held, clientVars>>
        PROVE  (Produced(r) /\ Followed(r))'
    <2>1. Idle(r)
      BY <1>1 DEF Idle, itemVars, clientVars
    <2> QED BY <2>1, IdleSender DEF SenderInv
  <1>2. CASE UNCHANGED vars
    BY <1>1, <1>2 DEF vars
  <1>3. CASE \E w \in orphans : OrphanLands(w)
    BY <1>1, <1>3 DEF OrphanLands
  <1>4. CASE \E t \in Runs : Respond(t) \/ Workflow(t) \/ Loop(t)
    BY <1>4, RespondSender, WorkflowSender, LoopSender
  <1>5. CASE \E c \in Clients : Consume(c) \/ Disconnect(c)
    BY <1>5, ConsumeSender
  <1>6. CASE \E c \in Resumers : Resume(c)
    <2>1. PICK c \in Resumers : Resume(c)
      BY <1>6
    <2>2. c \in Clients /\ r \in Clients /\ c # r
      BY RunsAssumption DEF Clients
    <2>3. UNCHANGED <<event_queue, itemVars, wf, emitted, loop, held, view>>
      BY <2>1 DEF Resume
    <2>4. attachedTo'[r] = attachedTo[r] /\ inbox'[r] = inbox[r]
      BY <1>0, <2>1, <2>2 DEF Resume, AddListener, StreamInv, TypeOK
    <2>5. Idle(r)
      BY <2>3, <2>4 DEF Idle, itemVars
    <2> QED BY <2>5, IdleSender DEF SenderInv
  <1> QED BY <1>2, <1>3, <1>4, <1>5, <1>6 DEF Next, Rest

\* When messages wait for the end of the turn, no turn has pre-stream events and
\* no item a placeholder id, a sender who has consumed the queue sees exactly the
\* text the processor holds, however clients come and go and writes fail.
THEOREM SenderCaughtUp ==
    ~MayOverlap /\ AutoStarted = {} /\ TemporaryItems = {} => (Spec => []CaughtUpView)
  <1> SUFFICES ASSUME ~MayOverlap, AutoStarted = {}, TemporaryItems = {}
               PROVE  Spec => []CaughtUpView
    OBVIOUS
  <1>1. Init => SenderInv
    <2> SUFFICES ASSUME Init, NEW r \in Runs PROVE Produced(r) /\ Followed(r)
      BY InitInv, SoloInit DEF SenderInv
    <2>1. /\ event_queue[r] = <<>> /\ active_items = {} /\ wf[r] = "none" /\ loop[r] = "none"
          /\ attachedTo[r] = NoRun
      BY DEF Init, Clients
    <2> QED BY <2>1, RunsAssumption DEF Produced, Followed, Untouched, Starts
  <1>2. SenderInv /\ [Next]_vars => SenderInv'
    BY NextSender
  <1>3. SenderInv => CaughtUpView
    <2> SUFFICES ASSUME SenderInv, NEW c \in Runs, NEW i \in active_items,
                        client[c] = "reading", inbox[c] = <<>>, attachedTo[c] # NoRun,
                        attachedTo[c] = procOf[i], loop[i] = "waiting"
                 PROVE  view[c][i] = text[i]
      BY DEF CaughtUpView
    <2>1. i \in Runs /\ procOf[i] = i /\ attachedTo[c] = c /\ c \in Clients
      BY DEF SenderInv, StreamInv, TypeOK, Solo, Single, Apart, Clients
    <2>2. InStep(c) /\ c = i /\ inbox[c] \in Seq(Event) /\ view[c] \in [Runs -> Version]
      BY <2>1 DEF SenderInv, Followed, StreamInv, TypeOK
    <2>3. ~Starts(inbox[c]) /\ Deltas(inbox[c]) = 0
      BY <2>2, DeltasCount DEF Starts
    <2>4. view[c][c] # Absent /\ text[c] = Shown(c) + 0 + 0
      BY <2>2, <2>3 DEF InStep, Holds
    <2> QED BY <2>2, <2>4 DEF Shown, Version
  <1> QED BY <1>1, <1>2, <1>3, PTL DEF Spec

-----------------------------------------------------------------------------
(* The final version is written last                                       *)

\* What an event put behind a sequence changes.
LEMMA BehindAppend ==
    ASSUME NEW s \in Seq(Event), NEW e \in Event
    PROVE  LET t == Append(s, e)
           IN  /\ HasFinal(t) <=> HasFinal(s) \/ e.kind = "done"
               /\ HasDone(t) <=> HasDone(s) \/ e.kind = "DONE"
               /\ \A n \in DOMAIN t : \/ /\ n \in DOMAIN s /\ t[n] = s[n]
                                         /\ Later(s, n) \/ e.kind = "done" => Later(t, n)
                                      \/ t[n] = e
               /\ Last(s) /\ ~HasDone(s) => Last(t)
  <1> DEFINE t == Append(s, e)
  <1>1. /\ Len(t) = Len(s) + 1 /\ DOMAIN t = DOMAIN s \cup {Len(s) + 1}
        /\ t[Len(s) + 1] = e /\ \A n \in DOMAIN s : t[n] = s[n]
    BY Appended
  <1>2. Len(s) \in Nat /\ \A n \in DOMAIN s : n \in Nat /\ n < Len(s) + 1
    BY EventSeq
  <1>3. HasDone(t) <=> HasDone(s) \/ e.kind = "DONE"
    BY HasDoneAppend
  <1> HIDE DEF t
  <1>4. HasFinal(t) <=> HasFinal(s) \/ e.kind = "done"
    BY <1>1 DEF HasFinal
  <1>5. ASSUME NEW n \in DOMAIN s, Later(s, n) \/ e.kind = "done"
        PROVE  Later(t, n)
    BY <1>1, <1>2, <1>5 DEF Later
  <1>6. Last(s) /\ ~HasDone(s) => Last(t)
    BY <1>1, <1>2 DEF Last, HasDone
  <1> QED BY <1>1, <1>3, <1>4, <1>5, <1>6 DEF t

\* What is left when the head of a sequence is taken.
LEMMA BehindTail ==
    ASSUME NEW s \in Seq(Event), s # <<>>
    PROVE  LET t == Tail(s)
           IN  /\ HasFinal(s) <=> s[1].kind = "done" \/ HasFinal(t)
               /\ Later(s, 1) => HasFinal(t)
               /\ HasDone(t) => HasDone(s)
               /\ \A n \in DOMAIN t : /\ n + 1 \in DOMAIN s /\ t[n] = s[n + 1]
                                      /\ Later(s, n + 1) => Later(t, n)
               /\ Last(s) => Last(t) /\ (s[1].kind = "DONE" => t = <<>>)
  <1> DEFINE t == Tail(s)
  <1>1. /\ t \in Seq(Event) /\ Len(t) = Len(s) - 1 /\ 1 \in DOMAIN s
        /\ \A n \in DOMAIN t : n + 1 \in DOMAIN s /\ t[n] = s[n + 1]
        /\ \A n \in DOMAIN s : n # 1 => n - 1 \in DOMAIN t /\ t[n - 1] = s[n]
    BY Taken, EventSeq
  <1>2. /\ Len(s) \in Nat \ {0} /\ Len(t) \in Nat /\ (t = <<>> <=> Len(t) = 0)
        /\ \A n \in DOMAIN s : n \in Nat \ {0}
        /\ \A n \in DOMAIN t : n \in Nat \ {0}
    BY <1>1, EventSeq
  <1> HIDE DEF t
  <1>3. HasFinal(s) <=> s[1].kind = "done" \/ HasFinal(t)
    BY <1>1, <1>2 DEF HasFinal
  <1>4. Later(s, 1) => HasFinal(t)
    BY <1>1, <1>2 DEF Later, HasFinal
  <1>5. HasDone(t) => HasDone(s)
    BY <1>1 DEF HasDone
  <1>6. ASSUME NEW n \in DOMAIN t, Later(s, n + 1)
        PROVE  Later(t, n)
    <2>1. PICK m \in DOMAIN s : m > n + 1 /\ s[m].kind = "done"
      BY <1>6 DEF Later
    <2>2. m - 1 \in DOMAIN t /\ t[m - 1].kind = "done" /\ m - 1 > n
      BY <1>1, <1>2, <2>1
    <2> QED BY <2>2 DEF Later
  <1>7. Last(s) => Last(t)
    BY <1>1, <1>2 DEF Last
  <1>8. Last(s) /\ s[1].kind = "DONE" => t = <<>>
    BY <1>1, <1>2 DEF Last
  <1> QED BY <1>1, <1>3, <1>4, <1>5, <1>6, <1>7, <1>8 DEF t

\* A turn that only hears of steps of others.
LEMMA SameTurn ==
    ASSUME NEW i \in Runs, Turn(i), event_queue'[i] = event_queue[i], wf'[i] = wf[i],
           emitted'[i] = emitted[i], loop'[i] = loop[i], held'[i] = held[i],
           i \in active_items' <=> i \in active_items, db'[i] = db[i], Owed(i) => Owed(i)'
    PROVE  Turn(i)'
  <1>1. Ending(i)'
    BY DEF Turn, Ending, Last, HasDone
  <1>2. Backed(i)'
    BY DEF Turn, Backed, HasFinal, Later
  <1>3. Stored(i)'
    BY DEF Turn, Stored
  <1> QED BY <1>1, <1>2, <1>3 DEF Turn

\* A client that only hears of steps of others.
LEMMA SameListener ==
    ASSUME NEW c \in Clients, Listener(c), attachedTo[c] \in Runs \cup {NoRun},
           client'[c] = client[c], attachedTo'[c] = attachedTo[c],
           inbox'[c] = inbox[c], pending'[c] = pending[c],
           attachedTo[c] # NoRun =>
              /\ emitted'[attachedTo[c]] = emitted[attachedTo[c]] \/ Upstream(attachedTo[c])'
              /\ loop[attachedTo[c]] = "done" => loop'[attachedTo[c]] = "done"
              /\ Upstream(attachedTo[c]) => Upstream(attachedTo[c])'
    PROVE  Listener(c)'
  <1>1. Closing(c)'
    BY DEF Listener, Closing, Last, HasDone
  <1>2. Informed(c)'
    <2>1. ASSUME NEW a, a = attachedTo[c], a # NoRun, emitted'[a] = Final
          PROVE  /\ \A n \in DOMAIN inbox[c] :
                      inbox[c][n].kind \in Older => Later(inbox[c], n) \/ Upstream(a)'
                 /\ \A w \in pending[c] :
                      w.kind \in Older => HasFinal(inbox[c]) \/ Upstream(a)'
      BY <2>1 DEF Listener, Informed
    <2> QED BY <2>1 DEF Informed, Later, HasFinal
  <1> QED BY <1>1, <1>2 DEF Listener

\* Whoever owes the final version still does.
LEMMA SameOwed ==
    ASSUME NEW i \in Runs, Owed(i), Upstream(i) => Upstream(i)',
           \A c \in Clients : attachedTo[c] = i =>
              /\ attachedTo'[c] = i /\ pending'[c] = pending[c]
              /\ HasFinal(inbox[c]) => HasFinal(inbox'[c])
    PROVE  Owed(i)'
  BY DEF Owed, HasFinal

\* A new listener is told of an item whose final version is still in the queue.
LEMMA JoinedStore ==
    ASSUME StoreInv, NEW c \in Clients, NEW p \in Runs, attachedTo[c] = NoRun, AddListener(c, p),
           UNCHANGED <<event_queue, emitted, loop, held, pending>>
    PROVE  Listener(c)'
  <1>0. StreamInv /\ Solo /\ Backed(p) /\ Apart(c)
    BY DEF StoreInv, Solo, Writers, Turn
  <1>1. /\ attachedTo'[c] = p /\ client'[c] = "reading" /\ pending'[c] = {}
        /\ \A n \in DOMAIN inbox'[c] : /\ inbox'[c][n].kind = "replaced"
                                       /\ inbox'[c][n].item \in active_items
                                       /\ procOf[inbox'[c][n].item] = p
    <2>1. /\ client' = [client EXCEPT ![c] = "reading"]
          /\ attachedTo' = [attachedTo EXCEPT ![c] = p]
          /\ \A n \in DOMAIN inbox'[c] : /\ inbox'[c][n].kind = "replaced"
                                         /\ inbox'[c][n].item \in active_items
                                         /\ procOf[inbox'[c][n].item] = p
      BY <1>0, Joined
    <2> QED BY <1>0, <2>1 DEF StreamInv, TypeOK, Apart
  <1>2. Closing(c)'
    BY <1>1 DEF Closing, Last, HasDone
  <1>3. ASSUME NEW n \in DOMAIN inbox'[c], emitted[p] = Final
        PROVE  Upstream(p)
    <2>1. p \in active_items
      BY <1>0, <1>1, RunsAssumption DEF Solo, Sequential, StreamInv, TypeOK
    <2> QED BY <1>0, <1>3, <2>1 DEF Backed, Upstream
  <1>4. Upstream(p)' <=> Upstream(p)
    BY DEF Upstream, Holds, HasFinal
  <1>5. Informed(c)'
    BY <1>1, <1>3, <1>4 DEF Informed
  <1> QED BY <1>2, <1>5 DEF Listener

\* A message is accepted, or answered.
LEMMA RespondStore ==
    ASSUME StoreInv, ~MayOverlap, NEW r \in Runs, Respond(r)
    PROVE  Writers'
  <1>0. /\ StreamInv /\ Solo /\ r \in Clients /\ NoRun \notin Runs
        /\ \A c \in Clients : attachedTo[c] \in Runs \cup {NoRun}
    BY RunsAssumption DEF StoreInv, Clients, StreamInv, TypeOK
  <1>1. /\ UNCHANGED <<active_items, emitted, held, pending, db, orphans>>
        /\ \A t \in Runs \ {r} : /\ event_queue'[t] = event_queue[t]
                                 /\ wf'[t] = wf[t] /\ loop'[t] = loop[t]
        /\ \A d \in Clients \ {r} : /\ client'[d] = client[d] /\ inbox'[d] = inbox[d]
                                    /\ attachedTo'[d] = attachedTo[d]
    BY <1>0, RespondEffect
  <1> DEFINE Quietly == UNCHANGED <<event_queue, wf, loop>>
             Starting == /\ wf[r] = "none" /\ attachedTo[r] = NoRun
                         /\ \A c \in Clients : attachedTo[c] # r
                         /\ event_queue'[r] = <<>> /\ wf'[r] = "created" /\ loop'[r] = "created"
  <1>2. /\ attachedTo[r] = NoRun /\ client[r] # "saving" /\ client'[r] # "saving"
        /\ Quietly \/ Starting
    <2>1. client[r] = "idle" => attachedTo[r] = NoRun
      BY <1>0 DEF Solo, Apart
    <2> QED BY <1>0, <2>1, RespondEffect
  <1>3. ASSUME NEW i \in Runs, i # r \/ Quietly
        PROVE  Upstream(i) => Upstream(i)'
    BY <1>1, <1>3 DEF Upstream, Holds, HasFinal
  <1>4. ASSUME NEW i \in Runs PROVE Turn(i)'
    <2>0. Turn(i)
      BY DEF StoreInv, Writers
    <2>1. CASE i # r \/ Quietly
      <3>1. \A c \in Clients : attachedTo[c] = i => /\ attachedTo'[c] = i
                                                    /\ inbox'[c] = inbox[c]
                                                    /\ pending'[c] = pending[c]
        BY <1>0, <1>1, <1>2
      <3>2. Owed(i) => Owed(i)'
        BY <1>3, <2>1, <3>1, SameOwed
      <3> QED BY <1>1, <2>0, <2>1, <3>2, SameTurn
    <2>2. CASE i = r /\ Starting
      <3>1. emitted'[r] # Final
        BY <1>0, <1>1, <2>2, BoundsAssumption DEF Solo, Single, Absent, Final
      <3>2. Ending(r)'
        BY <2>2 DEF Ending, Last, HasDone
      <3> QED BY <2>2, <3>1, <3>2 DEF Turn, Backed, Stored
    <2> QED BY <1>2, <2>1, <2>2
  <1>5. ASSUME NEW c \in Clients PROVE Listener(c)'
    <2>0. Listener(c)
      BY DEF StoreInv, Writers
    <2>1. CASE c # r
      <3>1. attachedTo[c] # NoRun => attachedTo[c] # r \/ Quietly
        BY <1>2
      <3>2. attachedTo[c] # NoRun =>
              /\ emitted'[attachedTo[c]] = emitted[attachedTo[c]]
              /\ loop[attachedTo[c]] = "done" => loop'[attachedTo[c]] = "done"
              /\ Upstream(attachedTo[c]) => Upstream(attachedTo[c])'
        <4> SUFFICES ASSUME NEW a \in Runs, a = attachedTo[c]
                     PROVE  /\ emitted'[a] = emitted[a]
                            /\ loop[a] = "done" => loop'[a] = "done"
                            /\ Upstream(a) => Upstream(a)'
          BY <1>0, <1>1, <2>1
        <4> QED BY <1>0, <1>1, <1>3, <2>1, <3>1
      <3> QED BY <1>0, <1>1, <2>0, <2>1, <3>2, SameListener
    <2>2. CASE c = r /\ attachedTo'[r] = NoRun
      <3>1. Apart(r)' /\ Apart(r)
        BY <1>0, RespondSolo DEF Solo
      <3> QED BY <1>1, <2>2, <3>1 DEF Apart, Listener, Closing, Informed, Last, HasDone
    <2>3. CASE c = r /\ attachedTo'[r] # NoRun
      <3>1. \/ attachedTo'[r] = r /\ inbox'[r] = <<>> /\ pending[r] = {}
            \/ Quietly /\ AddListener(r, r)
        <4>1. pending[r] = {}
          BY <1>0, <1>2 DEF Solo, Apart
        <4> QED BY <1>0, <1>2, <2>3, <4>1, RespondEffect
      <3>2. CASE Quietly /\ AddListener(r, r)
        BY <1>0, <1>1, <1>2, <2>3, <3>2, JoinedStore
      <3>3. CASE attachedTo'[r] = r /\ inbox'[r] = <<>> /\ pending[r] = {}
        BY <1>1, <2>3, <3>3 DEF Listener, Closing, Informed, Last, HasDone
      <3> QED BY <3>1, <3>2, <3>3
    <2> QED BY <2>1, <2>2, <2>3
  <1>6. orphans' = {}
    BY <1>1 DEF StoreInv, Writers
  <1> QED BY <1>4, <1>5, <1>6 DEF Writers

\* Somebody reconnects.
LEMMA ResumeStore ==
    ASSUME StoreInv, NEW c \in Resumers, Resume(c)
    PROVE  Writers'
  <1>0. /\ StreamInv /\ Solo /\ c \in Clients /\ Apart(c)
        /\ \A d \in Clients : attachedTo[d] \in Runs \cup {NoRun}
    BY DEF StoreInv, Clients, StreamInv, TypeOK, Solo
  <1>1. /\ UNCHANGED <<event_queue, active_items, wf, emitted, loop, held, pending, db, orphans>>
        /\ client[c] = "idle" /\ attachedTo[c] = NoRun /\ pending[c] = {} /\ inbox[c] = <<>>
    BY <1>0 DEF Resume, itemVars, storeVars, Apart
  <1>2. \A i \in Runs : Upstream(i)' <=> Upstream(i)
    BY <1>1 DEF Upstream, Holds, HasFinal
  <1>3. \/ registry \in Runs /\ AddListener(c, registry)
        \/ client' = [client EXCEPT ![c] = "finished"] /\ UNCHANGED <<attachedTo, inbox>>
    BY <1>0 DEF Resume, StreamInv, TypeOK
  <1>4. \A d \in Clients \ {c} : /\ client'[d] = client[d] /\ inbox'[d] = inbox[d]
                                 /\ attachedTo'[d] = attachedTo[d]
    BY <1>0, <1>3 DEF AddListener, StreamInv, TypeOK
  <1>5. ASSUME NEW i \in Runs PROVE Turn(i)'
    <2>1. \A d \in Clients : attachedTo[d] = i => /\ attachedTo'[d] = i /\ inbox'[d] = inbox[d]
                                                  /\ pending'[d] = pending[d]
      BY <1>1, <1>4, RunsAssumption
    <2>2. Owed(i) => Owed(i)'
      BY <1>2, <2>1, SameOwed
    <2> QED BY <1>1, <2>2, SameTurn DEF StoreInv, Writers
  <1>6. ASSUME NEW d \in Clients PROVE Listener(d)'
    <2>0. Listener(d)
      BY DEF StoreInv, Writers
    <2>1. CASE d # c
      <3>1. attachedTo[d] # NoRun =>
              /\ emitted'[attachedTo[d]] = emitted[attachedTo[d]]
              /\ loop[attachedTo[d]] = "done" => loop'[attachedTo[d]] = "done"
              /\ Upstream(attachedTo[d]) => Upstream(attachedTo[d])'
        <4> SUFFICES ASSUME NEW a \in Runs, a = attachedTo[d]
                     PROVE  Upstream(a) => Upstream(a)'
          BY <1>0, <1>1, <1>4, <2>1
        <4> QED BY <1>2
      <3> QED BY <1>0, <1>1, <1>4, <2>0, <2>1, <3>1, SameListener
    <2>2. CASE d = c /\ registry \in Runs /\ AddListener(c, registry)
      BY <1>0, <1>1, <2>2, JoinedStore
    <2>3. CASE d = c /\ UNCHANGED <<attachedTo, inbox>>
      BY <1>1, <2>3 DEF Listener, Closing, Informed, Last, HasDone
    <2> QED BY <1>3, <2>1, <2>2, <2>3
  <1>7. orphans' = {}
    BY <1>1 DEF StoreInv, Writers
  <1> QED BY <1>5, <1>6, <1>7 DEF Writers

\* The final version is queued behind every older one, the sentinel behind all.
LEMMA WorkflowStore ==
    ASSUME StoreInv, NEW r \in Runs, Workflow(r)
    PROVE  Writers'
  <1>0. /\ StreamInv /\ Solo /\ Turn(r)
        /\ \A c \in Clients : attachedTo[c] \in Runs \cup {NoRun}
    BY DEF StoreInv, StreamInv, TypeOK, Writers
  <1>1. /\ UNCHANGED <<procVars, itemVars, loop, held, clientVars, storeVars>>
        /\ \A t \in Runs \ {r} : /\ wf'[t] = wf[t] /\ emitted'[t] = emitted[t]
                                 /\ event_queue'[t] = event_queue[t]
        /\ wf[r] \in {"created", "running", "savingWait"}
    BY <1>0, WorkflowEffect
  <1> DEFINE q == event_queue[r]
             s == event_queue'[r]
  <1>2. q \in Seq(Event) /\ Last(q) /\ ~HasDone(q) /\ loop[r] \notin {"none", "done"}
    BY <1>0, <1>1, SoloFacts DEF Turn, Ending
  <1>3. ASSUME NEW k \in EventKind
        PROVE  Ev(k, r) \in Event /\ Ev(k, r).kind = k
    BY EvType DEF Ev
  <1>4. \/ wf'[r] = "running" /\ emitted'[r] = emitted[r] /\ s = q
        \/ /\ wf'[r] = "running"
           /\ \E k \in {"added", "updated"} : emitted'[r] # Final /\ s = Append(q, Ev(k, r))
        \/ wf'[r] = "running" /\ s = Append(q, Ev("done", r))
        \/ /\ emitted'[r] = emitted[r]
           /\ \/ wf'[r] = "savingWait" /\ s = Append(q, Ev("end", r))
              \/ wf'[r] = "done" /\ s = Append(q, Ev("DONE", r))
              \/ wf'[r] = "done" /\ \E k \in {"end", "error"} : s = Append(Append(q, Ev(k, r)), Ev("DONE", r))
    <2>1. 0 # Final /\ \A n \in 0 .. MaxDeltas - 1 : n + 1 # Final
      BY BoundsAssumption DEF Final
    <2>2. "added" \in {"added", "updated"} /\ "updated" \in {"added", "updated"}
      OBVIOUS
    <2> HIDE DEF q, s
    <2> QED BY <1>0, <2>1, <2>2, WorkflowEffect DEF q, s
  <1>5. {"added", "updated", "done", "end", "DONE"} \cup Plain \subseteq EventKind
    BY DEF EventKind, Plain
  <1> DEFINE More(x, y) ==
               /\ y \in Seq(Event)
               /\ HasFinal(x) => HasFinal(y)
               /\ \A n \in DOMAIN y : \/ /\ n \in DOMAIN x /\ y[n] = x[n]
                                         /\ Later(x, n) => Later(y, n)
                                      \/ y[n].kind \notin Older
  <1>6. ASSUME NEW x \in Seq(Event), NEW k \in Plain
        PROVE  /\ More(x, Append(x, Ev(k, r)))
               /\ HasDone(Append(x, Ev(k, r))) <=> HasDone(x) \/ k = "DONE"
               /\ Last(x) /\ ~HasDone(x) => Last(Append(x, Ev(k, r)))
    <2>1. Ev(k, r) \in Event /\ Ev(k, r).kind = k
      BY <1>3, <1>5
    <2>2. Append(x, Ev(k, r)) \in Seq(Event)
      BY <2>1, Appended
    <2> QED BY <2>1, <2>2, BehindAppend DEF Plain, Older
  <1>7. /\ Last(s)
        /\ HasDone(s) => wf'[r] = "done"
        /\ HasFinal(q) => HasFinal(s)
        /\ emitted'[r] = Final =>
             \/ HasFinal(s) /\ \A n \in DOMAIN s : s[n].kind \in Older => Later(s, n)
             \/ emitted[r] = Final /\ More(q, s)
    <2>1. CASE s = q /\ wf'[r] = "running" /\ emitted'[r] = emitted[r]
      BY <1>2, <2>1
    <2>2. CASE wf'[r] = "running" /\
               \E k \in {"added", "updated"} : emitted'[r] # Final /\ s = Append(q, Ev(k, r))
      <3>1. PICK k \in {"added", "updated"} : emitted'[r] # Final /\ s = Append(q, Ev(k, r))
        BY <2>2
      <3>2. Ev(k, r) \in Event /\ Ev(k, r).kind \notin {"done", "DONE"}
        BY <1>3, <1>5
      <3> HIDE DEF q, s
      <3> QED BY <1>2, <3>1, <3>2, BehindAppend
    <2>3. CASE wf'[r] = "running" /\ s = Append(q, Ev("done", r))
      <3>1. Ev("done", r) \in Event /\ Ev("done", r).kind = "done"
        BY <1>3, <1>5
      <3> HIDE DEF q, s
      <3>2. /\ HasFinal(s) /\ Last(s) /\ ~HasDone(s)
            /\ \A n \in DOMAIN s : Later(s, n) \/ s[n].kind = "done"
        BY <1>2, <2>3, <3>1, BehindAppend
      <3> QED BY <3>2 DEF Older
    <2>4. CASE \/ wf'[r] = "savingWait" /\ s = Append(q, Ev("end", r))
               \/ wf'[r] = "done" /\ s = Append(q, Ev("DONE", r))
      <3>1. \E k \in Plain : s = Append(q, Ev(k, r)) /\ (k = "DONE" => wf'[r] = "done")
        BY <2>4 DEF Plain
      <3>2. PICK k \in Plain : s = Append(q, Ev(k, r)) /\ (k = "DONE" => wf'[r] = "done")
        BY <3>1
      <3>3. More(q, s) /\ Last(s) /\ (HasDone(s) => wf'[r] = "done")
        BY <1>2, <1>6, <3>2
      <3>4. emitted'[r] = emitted[r]
        BY <1>0, <2>4, WorkflowEffect
      <3> QED BY <3>3, <3>4
    <2>5. CASE /\ wf'[r] = "done" /\ emitted'[r] = emitted[r]
               /\ \E k \in {"end", "error"} : s = Append(Append(q, Ev(k, r)), Ev("DONE", r))
      <3>1. PICK k \in {"end", "error"} : s = Append(Append(q, Ev(k, r)), Ev("DONE", r))
        BY <2>5
      <3>0. k \in Plain /\ k # "DONE"
        BY DEF Plain
      <3> DEFINE m == Append(q, Ev(k, r))
      <3>2. More(q, m)
        BY <1>2, <1>6, <3>0
      <3>3. More(m, s) /\ More(q, s)
        <4>1. m \in Seq(Event) /\ "DONE" \in Plain /\ s = Append(m, Ev("DONE", r))
          BY <3>1, <3>2 DEF Plain
        <4>2. More(m, s)
          BY <1>6, <4>1
        <4> HIDE DEF q, s, m
        <4> QED BY <3>2, <4>2
      <3>4. Last(s)
        <4>1. Last(m) /\ ~HasDone(m) /\ m \in Seq(Event)
          BY <1>2, <1>6, <3>0, <3>2
        <4>2. "DONE" \in Plain /\ s = Append(m, Ev("DONE", r))
          BY <3>1 DEF Plain
        <4>3. Last(Append(m, Ev("DONE", r)))
          BY <1>6, <4>1, <4>2
        <4> HIDE DEF q, s, m
        <4> QED BY <4>2, <4>3
      <3> QED BY <2>5, <3>3, <3>4
    <2> QED BY <1>4, <2>1, <2>2, <2>3, <2>4, <2>5
  <1>8. \A i \in Runs : Upstream(i) => Upstream(i)'
    <2>1. \A i \in Runs : HasFinal(event_queue[i]) => HasFinal(event_queue'[i])
      BY <1>1, <1>7
    <2> QED BY <1>1, <2>1 DEF Upstream, Holds, HasFinal
  <1>9. \A i \in Runs : Owed(i) => Owed(i)'
    BY <1>1, <1>8, SameOwed DEF clientVars
  <1>10. \A i \in Runs : emitted'[i] = emitted[i] \/ emitted'[i] # Final \/ Upstream(i)'
    <2>1. emitted'[r] = Final => emitted'[r] = emitted[r] \/ HasFinal(s)
      BY <1>7
    <2>2. HasFinal(s) => Upstream(r)'
      BY DEF Upstream, HasFinal
    <2> QED BY <1>1, <2>1, <2>2
  <1>11. ASSUME NEW i \in Runs PROVE Turn(i)'
    <2>1. CASE i # r
      BY <1>1, <1>9, <2>1, SameTurn DEF StoreInv, Writers, itemVars, storeVars
    <2>2. CASE i = r
      <3>1. Ending(r)'
        <4>1. /\ Last(s) /\ (HasDone(s) => wf'[r] = "done")
              /\ loop'[r] = loop[r] /\ held'[r] = held[r]
          BY <1>1, <1>7
        <4> QED BY <1>0, <1>2, <4>1 DEF Turn, Ending, Last, HasDone
      <3>2. Backed(r)'
        <4> SUFFICES ASSUME emitted'[r] = Final
                     PROVE  /\ r \in active_items => HasFinal(s)
                            /\ \A n \in DOMAIN s : s[n].kind \in Older => Later(s, n)
                            /\ loop[r] = "saving" /\ held[r].kind \in Older => HasFinal(s)
          BY <1>1 DEF Backed, HasFinal, Later, itemVars
        <4>1. CASE HasFinal(s) /\ \A n \in DOMAIN s : s[n].kind \in Older => Later(s, n)
          BY <4>1
        <4>2. CASE emitted[r] = Final /\ More(q, s)
          <5> HIDE DEF s
          <5> QED BY <1>0, <4>2 DEF Turn, Backed
        <4> QED BY <1>7, <4>1, <4>2
      <3>3. Stored(r)'
        <4>1. db' = db
          BY <1>1 DEF storeVars
        <4>2. emitted'[r] = Final => emitted[r] = Final \/ Upstream(r)'
          BY <1>10
        <4>3. Upstream(r)' => Owed(r)'
          BY DEF Owed
        <4> QED BY <1>0, <1>9, <4>1, <4>2, <4>3 DEF Turn, Stored
      <3> QED BY <2>2, <3>1, <3>2, <3>3 DEF Turn
    <2> QED BY <2>1, <2>2
  <1>12. ASSUME NEW c \in Clients PROVE Listener(c)'
    <2>1. Listener(c)
      BY DEF StoreInv, Writers
    <2>2. Closing(c)'
      BY <1>1, <2>1 DEF Listener, Closing, Last, HasDone, clientVars
    <2>3. ASSUME NEW a \in Runs, a = attachedTo[c], emitted'[a] = Final
          PROVE  /\ \A n \in DOMAIN inbox[c] :
                      inbox[c][n].kind \in Older => Later(inbox[c], n) \/ Upstream(a)'
                 /\ \A w \in pending[c] :
                      w.kind \in Older => HasFinal(inbox[c]) \/ Upstream(a)'
      BY <1>0, <1>8, <1>10, <2>1, <2>3, RunsAssumption DEF Listener, Informed
    <2>4. Informed(c)'
      BY <1>0, <1>1, <2>3 DEF Informed, Later, HasFinal, clientVars
    <2> QED BY <2>2, <2>4 DEF Listener
  <1>13. orphans' = {}
    BY <1>1 DEF StoreInv, Writers, storeVars
  <1> QED BY <1>11, <1>12, <1>13 DEF Writers

\* A client that is told of an event, or of none.
LEMMA ToldListener ==
    ASSUME NEW c \in Clients, NEW r \in Runs, attachedTo[c] = r, Listener(c),
           inbox[c] \in Seq(Event), NEW e \in Event, loop[r] # "done", r # NoRun,
           inbox'[c] \in {inbox[c], Append(inbox[c], e)},
           client'[c] = client[c], attachedTo'[c] = r, pending'[c] = pending[c],
           emitted'[r] = emitted[r],
           inbox'[c] = Append(inbox[c], e) =>
              /\ e.kind = "DONE" => loop'[r] = "done"
              /\ e.kind \in Older /\ emitted[r] = Final => Upstream(r)',
           Upstream(r) => \/ Upstream(r)'
                          \/ inbox'[c] = Append(inbox[c], e) /\ e.kind = "done"
    PROVE  /\ Listener(c)'
           /\ HasFinal(inbox[c]) => HasFinal(inbox'[c])
  <1>1. Last(inbox[c]) /\ ~HasDone(inbox[c])
    BY DEF Listener, Closing
  <1> DEFINE b == inbox[c]
             d == inbox'[c]
  <1>2. /\ HasFinal(b) \/ (d = Append(b, e) /\ e.kind = "done") => HasFinal(d)
        /\ Last(d)
        /\ HasDone(d) => d = Append(b, e) /\ e.kind = "DONE"
        /\ \A n \in DOMAIN d :
             \/ /\ n \in DOMAIN b /\ d[n] = b[n]
                /\ Later(b, n) \/ (d = Append(b, e) /\ e.kind = "done") => Later(d, n)
             \/ d = Append(b, e) /\ d[n] = e
    <2>1. CASE d = Append(b, e)
      <3>1. /\ HasFinal(d) <=> HasFinal(b) \/ e.kind = "done"
            /\ HasDone(d) <=> HasDone(b) \/ e.kind = "DONE"
            /\ \A n \in DOMAIN d : \/ /\ n \in DOMAIN b /\ d[n] = b[n]
                                      /\ Later(b, n) \/ e.kind = "done" => Later(d, n)
                                   \/ d[n] = e
            /\ Last(d)
        BY <1>1, <2>1, BehindAppend
      <3> HIDE DEF b, d
      <3> QED BY <1>1, <2>1, <3>1 DEF b
    <2>2. CASE d = b
      <3> HIDE DEF b
      <3>1. Last(b) /\ ~HasDone(b)
        BY <1>1 DEF b
      <3> QED
        <4>1. HasFinal(d) \/ ~(HasFinal(b) \/ (d = Append(b, e) /\ e.kind = "done"))
          <5>1. e.kind = "done" /\ d = Append(b, e) => HasFinal(d)
            BY BehindAppend DEF b
          <5> QED BY <2>2, <5>1
        <4>2. Len(Append(b, e)) # Len(b)
          BY Appended, EventSeq DEF b
        <4> HIDE DEF d
        <4> QED BY <2>2, <3>1, <4>1, <4>2
    <2> QED BY <2>1, <2>2
  <1> HIDE DEF b, d
  <1>3. Closing(c)'
    BY <1>2 DEF Listener, Closing, Last, HasDone, b, d
  <1>4. ASSUME emitted[r] = Final
        PROVE  /\ \A n \in DOMAIN d : d[n].kind \in Older => Later(d, n) \/ Upstream(r)'
               /\ \A w \in pending[c] : w.kind \in Older => HasFinal(d) \/ Upstream(r)'
    <2>1. /\ \A n \in DOMAIN b : b[n].kind \in Older => Later(b, n) \/ Upstream(r)
          /\ \A w \in pending[c] : w.kind \in Older => HasFinal(b) \/ Upstream(r)
      BY <1>4 DEF Listener, Informed, b
    <2> QED BY <1>2, <1>4, <2>1 DEF b, d
  <1>5. Informed(c)'
    BY <1>4 DEF Informed, HasFinal, Later, d
  <1> QED BY <1>2, <1>3, <1>5 DEF Listener, b, d

\* The loop writes, and tells its listeners, in the order of the queue.
LEMMA LoopStore ==
    ASSUME StoreInv, FailingWrites \subseteq {"replaced"}, NEW r \in Runs, Loop(r)
    PROVE  Writers'
  <1>0. /\ StreamInv /\ Solo /\ Turn(r) /\ r # NoRun
        /\ \A c \in Clients : /\ attachedTo[c] \in Runs \cup {NoRun}
                              /\ inbox[c] \in Seq(Event) /\ Listener(c)
        /\ event_queue[r] \in Seq(Event) /\ held[r] \in Event /\ held[r].item = r
        /\ loop[r] \notin {"none", "done"} /\ db \in [Runs -> Version]
    <2>1. StreamInv /\ Solo
      BY DEF StoreInv
    <2>2. loop[r] \notin {"none", "done"}
      BY <2>1, LoopEffect DEF Live
    <2> QED BY <2>1, <2>2, RunsAssumption DEF StoreInv, StreamInv, TypeOK, Writers, Solo, Single
  <1>1. /\ UNCHANGED <<wf, emitted, client, attachedTo, pending, orphans>>
        /\ \A t \in Runs \ {r} : /\ loop'[t] = loop[t] /\ held'[t] = held[t]
                                 /\ event_queue'[t] = event_queue[t]
                                 /\ t \in active_items' <=> t \in active_items
    BY <1>0, LoopEffect
  <1>2. \A i \in Runs \ {r} : db'[i] = db[i]
    <2>1. ASSUME Land(HeldWrite(r))
          PROVE  \A i \in Runs \ {r} : db'[i] = db[i]
      BY <1>0, <2>1 DEF Land, HeldWrite
    <2>2. LoopSaved(r) => Land(HeldWrite(r)) \/ db' = db
      BY DEF LoopSaved
    <2> QED BY <1>0, <2>1, <2>2, LoopEffect
  <1>3. \A c \in Clients : attachedTo[c] # r => inbox'[c] = inbox[c]
    <2>1. inbox' = inbox \/ \E e : Told(r, e)
      BY <1>0, LoopEffect
    <2> QED BY <2>1 DEF Told
  <1>4. ASSUME NEW i \in Runs \ {r} PROVE Turn(i)' /\ (Upstream(i) => Upstream(i)')
    <2>1. Upstream(i) => Upstream(i)'
      BY <1>1 DEF Upstream, Holds, HasFinal
    <2>2. Owed(i) => Owed(i)'
      BY <1>1, <1>3, <2>1, SameOwed
    <2> QED BY <1>1, <1>2, <2>1, <2>2, SameTurn DEF StoreInv, Writers
  <1>5. ASSUME NEW c \in Clients, attachedTo[c] # r PROVE Listener(c)'
    <2>1. attachedTo[c] # NoRun =>
            /\ emitted'[attachedTo[c]] = emitted[attachedTo[c]]
            /\ loop[attachedTo[c]] = "done" => loop'[attachedTo[c]] = "done"
            /\ Upstream(attachedTo[c]) => Upstream(attachedTo[c])'
      <3> SUFFICES ASSUME NEW a \in Runs \ {r}, a = attachedTo[c]
                   PROVE  /\ loop[a] = "done" => loop'[a] = "done"
                          /\ Upstream(a) => Upstream(a)'
        BY <1>0, <1>1, <1>5
      <3> QED BY <1>1, <1>4
    <2> QED BY <1>0, <1>1, <1>3, <1>5, <2>1, SameListener
  <1> DEFINE q == event_queue[r]
             s == Tail(event_queue[r])
             e == event_queue[r][1]
             Told1(x) == \A c \in Clients : attachedTo[c] = r => inbox'[c] = Append(inbox[c], x)
             Mute == \A c \in Clients : attachedTo[c] = r => inbox'[c] = inbox[c]
  <1>6. ASSUME NEW x \in Event,
               Mute \/ /\ Told1(x)
                       /\ x.kind = "DONE" => loop'[r] = "done"
                       /\ x.kind \in Older /\ emitted[r] = Final => Upstream(r)',
               Upstream(r) => Upstream(r)' \/ (Told1(x) /\ x.kind = "done")
        PROVE  /\ \A c \in Clients : attachedTo[c] = r =>
                    Listener(c)' /\ (HasFinal(inbox[c]) => HasFinal(inbox'[c]))
               /\ (Upstream(r) => Upstream(r)') => (Owed(r) => Owed(r)')
    <2>1. ASSUME NEW c \in Clients, attachedTo[c] = r
          PROVE  Listener(c)' /\ (HasFinal(inbox[c]) => HasFinal(inbox'[c]))
      <3>1. \/ inbox'[c] = inbox[c]
            \/ /\ inbox'[c] = Append(inbox[c], x)
               /\ x.kind = "DONE" => loop'[r] = "done"
               /\ x.kind \in Older /\ emitted[r] = Final => Upstream(r)'
        BY <1>6, <2>1
      <3>2. Append(inbox[c], x) # inbox[c]
        <4>1. Len(Append(inbox[c], x)) = Len(inbox[c]) + 1 /\ Len(inbox[c]) \in Nat
          BY <1>0, Appended, EventSeq
        <4> QED BY <4>1
      <3>3. Upstream(r) => \/ Upstream(r)'
                           \/ inbox'[c] = Append(inbox[c], x) /\ x.kind = "done"
        BY <1>6, <2>1
      <3> QED BY <1>0, <1>1, <2>1, <3>1, <3>2, <3>3, ToldListener
    <2> QED BY <1>1, <2>1, SameOwed
  <1>7. ASSUME Turn(r)', \A c \in Clients : attachedTo[c] = r => Listener(c)'
        PROVE  Writers'
    <2>1. orphans' = {}
      BY <1>1 DEF StoreInv, Writers
    <2> QED BY <1>4, <1>5, <1>7, <2>1 DEF Writers
  <1>8. /\ Ending(r) /\ Backed(r) /\ Stored(r)
        /\ q # <<>> => /\ e \in Event /\ s \in Seq(Event) /\ 1 \in DOMAIN q /\ e.item = r
                       /\ HasFinal(q) <=> e.kind = "done" \/ HasFinal(s)
                       /\ Later(q, 1) => HasFinal(s)
                       /\ HasDone(s) => HasDone(q)
                       /\ \A n \in DOMAIN s : /\ n + 1 \in DOMAIN q /\ s[n] = q[n + 1]
                                              /\ Later(q, n + 1) => Later(s, n)
                       /\ Last(s) /\ (e.kind = "DONE" => s = <<>>)
    <2>1. q # <<>> => e \in Event /\ s \in Seq(Event) /\ 1 \in DOMAIN q /\ e.item = r
      BY <1>0, EventSeq DEF Solo, Single, About
    <2>2. Last(q)
      BY <1>0 DEF Turn, Ending
    <2> QED BY <1>0, <2>1, <2>2, BehindTail DEF Turn
  <1>9. CASE LoopBegin(r)
    <2>1. /\ Mute /\ event_queue'[r] = q /\ held'[r] = held[r] /\ loop'[r] = "waiting"
          /\ loop[r] = "created" /\ active_items' = active_items /\ db' = db
      BY <1>0, <1>9, LoopEffect DEF LoopBegin, itemVars
    <2>2. Upstream(r) => Upstream(r)'
      BY <2>1 DEF Upstream, Holds, HasFinal
    <2>3. (\A c \in Clients : attachedTo[c] = r => Listener(c)') /\ (Owed(r) => Owed(r)')
      BY <1>0, <1>6, <2>1, <2>2
    <2>4. Ending(r)' /\ Backed(r)'
      BY <1>1, <1>8, <2>1 DEF Ending, Backed, Last, HasDone, HasFinal, Later
    <2>5. Stored(r)'
      BY <1>1, <1>8, <2>1, <2>3 DEF Stored
    <2> QED BY <1>7, <2>3, <2>4, <2>5 DEF Turn
  <1>10. CASE LoopTake(r)
    <2>1. /\ loop[r] = "waiting" /\ q # <<>> /\ e.kind # "DONE" /\ event_queue'[r] = s
          /\ Apply(e) /\ db' = db
          /\ \/ MayPersist(e) /\ inbox' = inbox /\ loop'[r] = "saving" /\ held'[r] = e
             \/ /\ ~MustPersist(e) /\ loop'[r] = "waiting" /\ held'[r] = held[r]
                /\ IF Skipped(e) THEN inbox' = inbox ELSE Told(r, e)
      BY <1>0, <1>10, LoopEffect DEF LoopBegin, LoopTake, LoopSaved, LoopDone
    <2>2. /\ e \in Event /\ e.item = r
          /\ HasFinal(q) <=> e.kind = "done" \/ HasFinal(s)
          /\ HasDone(s) => HasDone(q)
          /\ \A n \in DOMAIN s : /\ n + 1 \in DOMAIN q /\ s[n] = q[n + 1]
                                 /\ Later(q, n + 1) => Later(s, n)
          /\ Last(s)
      BY <1>8, <2>1
    <2>3. /\ emitted[r] = Final /\ e.kind \in Older => HasFinal(s)
          /\ emitted[r] = Final /\ r \in active_items => HasFinal(q)
          /\ emitted[r] = Final => \A n \in DOMAIN q : q[n].kind \in Older => Later(q, n)
          /\ HasDone(q) => wf[r] = "done"
      BY <1>8, <2>1 DEF Backed, Ending
    <2>4. emitted[r] = Final =>
            \A n \in DOMAIN s : s[n].kind \in Older => Later(s, n)
      <3> HIDE DEF q, s, e
      <3> QED BY <2>2, <2>3
    <2>5. /\ Told(r, e) => Told1(e)
          /\ inbox' = inbox => Mute
      BY DEF Told
    <2>6. /\ e.kind = "done" => r \notin active_items'
          /\ e.kind \in {"added", "done"} \/ (r \in active_items' <=> r \in active_items)
      <3> HIDE DEF e
      <3> QED BY <2>1, <2>2 DEF Apply, itemVars
    <2>7. MayPersist(e) => e.kind \in {"added", "updated", "done"}
      BY DEF MayPersist, MustPersist
    <2>8. r \notin TemporaryItems /\ e.kind = "done" => MustPersist(e)
      BY <2>2 DEF MustPersist
    <2>9. Skipped(e) => e.kind = "updated"
      BY DEF Skipped
    <2>10. Upstream(r) <=> HasFinal(q)
      BY <2>1 DEF Upstream, Holds
    <2>11. Upstream(r)' <=> HasFinal(s) \/ (loop'[r] = "saving" /\ held'[r].kind = "done")
      BY <2>1 DEF Upstream, Holds, HasFinal
    <2> HIDE DEF q, s, e, Mute, Told1
    <2>12. Mute \/ /\ Told1(e)
                   /\ e.kind = "DONE" => loop'[r] = "done"
                   /\ e.kind \in Older /\ emitted[r] = Final => Upstream(r)'
      BY <2>1, <2>3, <2>5, <2>11
    <2>13. Upstream(r) => Upstream(r)' \/ (Told1(e) /\ e.kind = "done")
      BY <2>1, <2>2, <2>5, <2>9, <2>10, <2>11
    <2>14. r \notin TemporaryItems => (Upstream(r) => Upstream(r)')
      BY <2>1, <2>2, <2>8, <2>10, <2>11
    <2>15. /\ \A c \in Clients : attachedTo[c] = r => Listener(c)'
           /\ (Upstream(r) => Upstream(r)') => (Owed(r) => Owed(r)')
      BY <1>6, <2>2, <2>12, <2>13
    <2>16. Ending(r)'
      <3>1. HasDone(s) => wf'[r] = "done"
        BY <1>1, <2>2, <2>3
      <3> QED BY <2>1, <2>2, <2>7, <3>1 DEF Ending, Last, HasDone
    <2>17. Backed(r)'
      <3> SUFFICES ASSUME emitted[r] = Final
                   PROVE  /\ r \in active_items' => HasFinal(s)
                          /\ \A n \in DOMAIN s : s[n].kind \in Older => Later(s, n)
                          /\ loop'[r] = "saving" /\ held'[r].kind \in Older => HasFinal(s)
        BY <1>1, <2>1 DEF Backed, HasFinal, Later
      <3>1. r \in active_items' => HasFinal(s)
        BY <2>2, <2>3, <2>6 DEF Older
      <3> QED BY <2>1, <2>3, <2>4, <3>1
    <2>18. Stored(r)'
      BY <1>1, <1>8, <2>1, <2>14, <2>15 DEF Stored
    <2> QED BY <1>7, <2>15, <2>16, <2>17, <2>18 DEF Turn
  <1>11. CASE LoopSaved(r)
    <2>1. /\ loop[r] = "saving" /\ loop'[r] = "waiting" /\ Told1(held[r])
          /\ event_queue'[r] = q /\ active_items' = active_items
      <3>1. loop[r] = "saving" /\ event_queue' = event_queue /\ active_items' = active_items
        BY <1>11 DEF LoopSaved, itemVars
      <3>2. loop'[r] = "waiting" /\ Told(r, held[r])
        BY <1>0, <3>1, LoopEffect
      <3> QED BY <3>1, <3>2 DEF Told
    <2>2. held[r].kind \in {"added", "updated", "done"}
      BY <1>8, <2>1 DEF Ending
    <2>3. Land(HeldWrite(r))
      BY <1>11, <2>2 DEF LoopSaved, Outcomes
    <2>4. held[r].kind = "done" /\ r \notin TemporaryItems => db'[r] = Final
      BY <1>0, <2>3 DEF Land, HeldWrite
    <2>5. /\ Upstream(r) <=> HasFinal(q) \/ held[r].kind = "done"
          /\ Upstream(r)' <=> HasFinal(q)
      BY <2>1 DEF Upstream, Holds, HasFinal
    <2>6. emitted[r] = Final /\ held[r].kind \in Older => HasFinal(q)
      BY <1>8, <2>1 DEF Backed
    <2>7. /\ \A c \in Clients : attachedTo[c] = r => Listener(c)'
          /\ (Upstream(r) => Upstream(r)') => (Owed(r) => Owed(r)')
      <3>1. held[r].kind # "DONE"
        BY <2>2
      <3> HIDE DEF Told1, Mute, q
      <3> QED BY <1>0, <1>6, <2>1, <2>5, <2>6, <3>1
    <2>8. Ending(r)'
      BY <1>1, <1>8, <2>1 DEF Ending, Last, HasDone
    <2>9. Backed(r)'
      BY <1>1, <1>8, <2>1 DEF Backed, HasFinal, Later
    <2>10. Stored(r)'
      <3> SUFFICES ASSUME r \notin TemporaryItems, emitted[r] = Final
                   PROVE  db'[r] = Final \/ Owed(r)'
        BY <1>1 DEF Stored
      <3>1. held[r].kind = "done" \/ HasFinal(q)
        BY <2>2, <2>6 DEF Older
      <3>2. HasFinal(q) => Owed(r)'
        BY <2>5 DEF Owed
      <3> QED BY <2>4, <3>1, <3>2
    <2> QED BY <1>7, <2>7, <2>8, <2>9, <2>10 DEF Turn
  <1>12. CASE LoopDone(r)
    <2>1. /\ loop[r] = "waiting" /\ loop'[r] = "done" /\ q # <<>> /\ e.kind = "DONE"
          /\ event_queue'[r] = s /\ Told1(e) /\ active_items' = active_items
          /\ held'[r] = held[r] /\ db' = db
      <3>1. /\ loop[r] = "waiting" /\ q # <<>> /\ e.kind = "DONE"
            /\ active_items' = active_items
        <4>1. procOf[r] = r
          BY <1>0, LoopEffect
        <4> QED BY <1>0, <1>12, <4>1, EventSeq DEF LoopDone, itemVars
      <3>2. /\ loop'[r] = "done" /\ event_queue'[r] = s /\ Told(r, e)
            /\ held'[r] = held[r] /\ db' = db
        BY <1>0, <3>1, LoopEffect
      <3> QED BY <3>1, <3>2 DEF Told
    <2>2. e \in Event /\ s = <<>> /\ ~HasFinal(q) /\ HasDone(q)
      BY <1>8, <2>1 DEF HasFinal, HasDone
    <2>3. ~Upstream(r)
      BY <2>1, <2>2 DEF Upstream, Holds
    <2>4. (\A c \in Clients : attachedTo[c] = r => Listener(c)') /\ (Owed(r) => Owed(r)')
      <3>1. e.kind \notin Older
        BY <2>1 DEF Older
      <3> HIDE DEF Told1, Mute, q, e
      <3> QED BY <1>6, <2>1, <2>2, <2>3, <3>1
    <2>5. Ending(r)'
      BY <1>1, <1>8, <2>1, <2>2 DEF Ending, Last, HasDone
    <2>6. Backed(r)'
      BY <1>1, <1>8, <2>1, <2>2 DEF Backed
    <2>7. Stored(r)'
      BY <1>1, <1>8, <2>1, <2>4 DEF Stored
    <2> QED BY <1>7, <2>4, <2>5, <2>6, <2>7 DEF Turn
  <1> QED BY <1>0, <1>9, <1>10, <1>11, <1>12, LoopEffect

\* A client that stays to the end writes in the order of its events, and leaves
\* when there is nothing left to write.
LEMMA ConsumeStore ==
    ASSUME StoreInv, ~MayDisconnect, FailingWrites \subseteq {"replaced"},
           NEW c \in Clients, Consume(c)
    PROVE  Writers'
  <1>0. /\ StreamInv /\ Solo /\ Apart(c) /\ NoRun \notin Runs
        /\ \A d \in Clients : attachedTo[d] \in Runs \cup {NoRun} /\ Listener(d)
        /\ inbox[c] \in Seq(Event) /\ db \in [Runs -> Version] /\ ~Disconnect(c)
        /\ orphans = {} /\ \A i \in Runs : Turn(i)
    BY RunsAssumption DEF StoreInv, StreamInv, TypeOK, Writers, Solo, Disconnect
  <1>1. /\ UNCHANGED <<event_queue, active_items, wf, emitted, loop, held>>
        /\ \A d \in Clients \ {c} : /\ client'[d] = client[d] /\ inbox'[d] = inbox[d]
                                    /\ attachedTo'[d] = attachedTo[d]
                                    /\ pending'[d] = pending[d]
    BY <1>0, ConsumeEffect DEF itemVars
  <1>2. \A i \in Runs : Upstream(i)' <=> Upstream(i)
    BY <1>1 DEF Upstream, Holds, HasFinal
  <1>3. ASSUME NEW d \in Clients \ {c} PROVE Listener(d)'
    <2>1. attachedTo[d] # NoRun =>
            /\ emitted'[attachedTo[d]] = emitted[attachedTo[d]]
            /\ loop[attachedTo[d]] = "done" => loop'[attachedTo[d]] = "done"
            /\ Upstream(attachedTo[d]) => Upstream(attachedTo[d])'
      <3> SUFFICES ASSUME NEW a \in Runs, a = attachedTo[d]
                   PROVE  Upstream(a) => Upstream(a)'
        BY <1>0, <1>1
      <3> QED BY <1>2
    <2> QED BY <1>0, <1>1, <2>1, SameListener
  <1> DEFINE Has == HasFinal(inbox[c]) \/ \E w \in pending[c] : w.kind = "done"
             Has1 == HasFinal(inbox'[c]) \/ \E w \in pending'[c] : w.kind = "done"
  <1>4. ASSUME NEW i \in Runs, Owed(i),
               attachedTo[c] = i /\ Has => attachedTo'[c] = i /\ Has1
        PROVE  Owed(i)'
    BY <1>1, <1>2, <1>4 DEF Owed, HasFinal
  <1>5. ASSUME Listener(c)', orphans' = {}, \A i \in Runs : Stored(i)'
        PROVE  Writers'
    <2>1. ASSUME NEW i \in Runs PROVE Ending(i)' /\ Backed(i)'
      BY <1>0, <1>1 DEF Turn, Ending, Backed, Last, HasDone, HasFinal, Later
    <2> QED BY <1>3, <1>5, <2>1 DEF Writers, Turn
  <1>6. ASSUME UNCHANGED <<db, orphans>>, Listener(c)',
               attachedTo[c] # NoRun /\ Has => attachedTo'[c] = attachedTo[c] /\ Has1
        PROVE  Writers'
    <2>1. ASSUME NEW i \in Runs PROVE Stored(i)'
      <3>1. Owed(i) => Owed(i)'
        BY <1>0, <1>4, <1>6
      <3> QED BY <1>0, <1>1, <1>6, <3>1 DEF Turn, Stored
    <2> QED BY <1>0, <1>5, <1>6, <2>1
  <1>7. CASE ClientTake(c)
    <2> DEFINE q == inbox[c]
               s == Tail(inbox[c])
               e == inbox[c][1]
               x == [kind |-> e.kind, item |-> e.item, by |-> c, ver |-> Seen(c, e)]
    <2>1. /\ client[c] = "reading" /\ q # <<>> /\ e \in Event /\ e.kind # "DONE"
          /\ inbox'[c] = s /\ attachedTo'[c] = attachedTo[c] /\ UNCHANGED storeVars
          /\ \/ ClientMayPersist(c, e) /\ client'[c] = "saving" /\ pending'[c] = {x}
             \/ /\ ~ClientMustPersist(c, e) /\ client'[c] = "yielding"
                /\ pending'[c] = pending[c]
      <3>1. client[c] = "reading" /\ client'[c] \in {"saving", "yielding"} /\ inbox[c] # <<>>
            /\ inbox[c][1].kind # "DONE"
        BY <1>0, <1>7, EventSeq DEF ClientTake, StreamInv, TypeOK
      <3> QED BY <1>0, <3>1, ConsumeEffect
    <2>2. /\ HasFinal(q) <=> e.kind = "done" \/ HasFinal(s)
          /\ Later(q, 1) => HasFinal(s)
          /\ HasDone(s) => HasDone(q)
          /\ \A n \in DOMAIN s : /\ n + 1 \in DOMAIN q /\ s[n] = q[n + 1]
                                 /\ Later(q, n + 1) => Later(s, n)
          /\ Last(s) /\ 1 \in DOMAIN q
      <3>1. Last(q) /\ 1 \in DOMAIN q
        BY <1>0, <2>1, EventSeq DEF Listener, Closing
      <3> QED BY <1>0, <2>1, <3>1, BehindTail
    <2>3. attachedTo[c] # NoRun /\ pending[c] = {}
      BY <1>0, <2>1 DEF Apart, Listener, Closing
    <2>4. /\ e.kind = "done" => ClientMustPersist(c, e)
          /\ ClientMayPersist(c, e) => e.kind \in {"added", "updated", "replaced", "done"}
          /\ e.kind = "done" => x.ver = Final
      BY DEF ClientMustPersist, ClientMayPersist, Seen
    <2>5. x.kind = e.kind
      OBVIOUS
    <2>6. HasDone(q) => loop[attachedTo[c]] = "done"
      BY <1>0, <2>3 DEF Listener, Closing
    <2>7. ASSUME emitted[attachedTo[c]] = Final
          PROVE  \A n \in DOMAIN q : q[n].kind \in Older => Later(q, n) \/ Upstream(attachedTo[c])
      BY <1>0, <2>3, <2>7 DEF Listener, Informed
    <2> HIDE DEF q, s, x
    <2>8. Closing(c)'
      BY <1>1, <2>1, <2>2, <2>3, <2>4, <2>5, <2>6 DEF Closing, Last, HasDone
    <2>9. Informed(c)'
      <3> SUFFICES ASSUME NEW a \in Runs, a = attachedTo[c], emitted[a] = Final
                   PROVE  /\ \A n \in DOMAIN s : s[n].kind \in Older => Later(s, n) \/ Upstream(a)
                          /\ \A w \in pending'[c] : w.kind \in Older => HasFinal(s) \/ Upstream(a)
        BY <1>0, <1>1, <1>2, <2>1, <2>3 DEF Informed, HasFinal, Later
      <3>1. \A n \in DOMAIN s : s[n].kind \in Older => Later(s, n) \/ Upstream(a)
        BY <2>2, <2>7
      <3>2. e.kind \in Older => HasFinal(s) \/ Upstream(a)
        BY <2>2, <2>7 DEF q
      <3> QED BY <2>1, <2>3, <2>5, <3>1, <3>2
    <2>10. Has => Has1
      <3>1. Has => HasFinal(q)
        BY <2>3 DEF q
      <3> QED BY <2>1, <2>2, <2>4, <2>5, <3>1
    <2> QED BY <1>6, <2>1, <2>8, <2>9, <2>10 DEF Listener, storeVars
  <1>8. CASE ClientDone(c)
    <2>1. /\ client[c] = "reading" /\ inbox[c] # <<>> /\ inbox[c][1].kind = "DONE"
          /\ UNCHANGED storeVars
          /\ attachedTo'[c] = NoRun /\ inbox'[c] = <<>> /\ pending'[c] = {}
      <3>1. client[c] = "reading" /\ inbox[c] # <<>> /\ inbox[c][1].kind = "DONE"
            /\ UNCHANGED storeVars
        BY <1>0, <1>8, EventSeq DEF ClientDone
      <3> QED BY <1>0, <3>1, ConsumeEffect
    <2>2. ~HasFinal(inbox[c]) /\ pending[c] = {}
      <3>1. Last(inbox[c]) /\ pending[c] = {}
        BY <1>0, <2>1 DEF Listener, Closing
      <3>2. Tail(inbox[c]) = <<>>
            /\ (HasFinal(inbox[c]) <=> inbox[c][1].kind = "done" \/ HasFinal(Tail(inbox[c])))
        BY <1>0, <2>1, <3>1, BehindTail
      <3> QED BY <2>1, <3>1, <3>2 DEF HasFinal
    <2>3. Listener(c)'
      BY <2>1 DEF Listener, Closing, Informed, Last, HasDone
    <2> QED BY <1>6, <2>1, <2>2, <2>3 DEF storeVars
  <1>9. CASE ClientSaved(c)
    <2>1. PICK w \in pending[c] :
            \E ok \in Outcomes(w.kind) :
              /\ IF ok THEN Land(w) ELSE UNCHANGED <<db, tempRows>>
              /\ ok \/ w.kind = "replaced"
              /\ client' = [client EXCEPT ![c] = "yielding"]
              /\ pending' = [pending EXCEPT ![c] = {}]
              /\ UNCHANGED <<attachedTo, inbox>>
      <3>1. \A k : FALSE \in Outcomes(k) => k = "replaced"
        BY DEF Outcomes
      <3>2. \A k : Outcomes(k) \subseteq BOOLEAN
        BY DEF Outcomes
      <3> QED BY <1>9, <3>1, <3>2 DEF ClientSaved
    <2>2. /\ Land(w) \/ (db' = db /\ w.kind = "replaced")
          /\ client'[c] = "yielding" /\ pending'[c] = {}
          /\ attachedTo' = attachedTo /\ inbox' = inbox /\ orphans' = orphans
      BY <1>0, <1>9, <2>1 DEF StreamInv, TypeOK, ClientSaved
    <2>3. /\ attachedTo[c] # NoRun /\ w.item = attachedTo[c] /\ \A y \in pending[c] : y = w
          /\ w.kind = "done" => w.ver = Final
          /\ w.kind \in Older \cup {"done"}
          /\ emitted[w.item] = Final /\ w.kind \in Older => HasFinal(inbox[c]) \/ Upstream(w.item)
      <3>1. Closing(c) /\ Informed(c)
        BY <1>0 DEF Listener
      <3>2. attachedTo[c] # NoRun /\ w.item = attachedTo[c]
        BY <1>0, <2>1 DEF Apart
      <3> QED BY <2>1, <3>1, <3>2 DEF Closing, Informed, Older
    <2>4. Listener(c)'
      <3>1. Closing(c)'
        BY <1>0, <1>1, <2>2 DEF Listener, Closing, Last, HasDone
      <3>2. Informed(c)'
        <4> SUFFICES ASSUME NEW a \in Runs, a = attachedTo[c], emitted[a] = Final
                     PROVE  \A n \in DOMAIN inbox[c] :
                              inbox[c][n].kind \in Older => Later(inbox[c], n) \/ Upstream(a)
          BY <1>0, <1>1, <1>2, <2>2, <2>3 DEF Informed, HasFinal, Later
        <4> QED BY <1>0, <2>3 DEF Listener, Informed
      <3> QED BY <3>1, <3>2 DEF Listener
    <2>5. ASSUME NEW i \in Runs PROVE Stored(i)'
      <3> SUFFICES ASSUME i \notin TemporaryItems, emitted[i] = Final
                   PROVE  db'[i] = Final \/ Owed(i)'
        BY <1>1 DEF Stored
      <3>0. db[i] = Final \/ Owed(i)
        BY <1>0 DEF Turn, Stored
      <3>1. CASE i # w.item
        <4>1. db'[i] = db[i]
          BY <1>0, <2>2, <3>1 DEF Land
        <4>2. Owed(i) => Owed(i)'
          BY <1>4, <2>3, <3>1
        <4> QED BY <3>0, <4>1, <4>2
      <3>2. CASE i = w.item /\ w.kind = "done"
        BY <1>0, <2>2, <2>3, <3>2 DEF Land
      <3>3. CASE i = w.item /\ w.kind \in Older
        <4>1. HasFinal(inbox[c]) \/ Upstream(i)
          BY <2>3, <3>3
        <4>2. attachedTo'[c] = i /\ inbox'[c] = inbox[c]
          BY <2>2, <2>3, <3>3
        <4> QED BY <1>2, <4>1, <4>2 DEF Owed, HasFinal
      <3> QED BY <2>3, <3>1, <3>2, <3>3
    <2> QED BY <1>0, <1>5, <2>2, <2>4, <2>5
  <1>10. CASE ClientPull(c)
    <2>1. client[c] = "yielding" /\ client'[c] = "reading"
          /\ UNCHANGED <<attachedTo, inbox, pending, storeVars>>
      <3>1. "thread" \notin FailingWrites
        OBVIOUS
      <3>2. Outcomes("thread") = {TRUE}
        BY <3>1 DEF Outcomes
      <3>3. client' = [client EXCEPT ![c] = "reading"] /\ client[c] = "yielding"
            /\ UNCHANGED <<attachedTo, inbox, pending, storeVars>>
        BY <1>10, <3>2 DEF ClientPull
      <3> QED BY <1>0, <3>3 DEF StreamInv, TypeOK
    <2>2. Listener(c)'
      <3>1. Closing(c)'
        BY <1>0, <1>1, <2>1 DEF Listener, Closing, Last, HasDone
      <3>2. Informed(c)'
        <4>1. ASSUME NEW a \in Runs, a = attachedTo[c], emitted[a] = Final
              PROVE  /\ \A n \in DOMAIN inbox[c] :
                          inbox[c][n].kind \in Older => Later(inbox[c], n) \/ Upstream(a)
                     /\ \A w \in pending[c] : w.kind \in Older => HasFinal(inbox[c]) \/ Upstream(a)
          BY <1>0, <4>1 DEF Listener, Informed
        <4> QED BY <1>0, <1>1, <1>2, <2>1, <4>1 DEF Informed, HasFinal, Later
      <3> QED BY <3>1, <3>2 DEF Listener
    <2> QED BY <1>6, <2>1, <2>2 DEF storeVars
  <1> QED BY <1>7, <1>8, <1>9, <1>10 DEF Consume

\* Every step keeps the final version last.
LEMMA NextStore ==
    ASSUME StoreInv, ~MayOverlap, ~MayDisconnect, FailingWrites \subseteq {"replaced"},
           [Next]_vars
    PROVE  StoreInv'
  <1>0. StreamInv' /\ Solo'
    BY NextInv, NextSolo DEF StoreInv
  <1>1. CASE UNCHANGED vars
    <2>0. UNCHANGED <<event_queue, active_items, wf, emitted, loop, held, client,
                      attachedTo, inbox, pending, db, orphans>>
      BY <1>1 DEF vars, itemVars, clientVars, storeVars
    <2>1. \A i \in Runs : Upstream(i)' <=> Upstream(i)
      BY <2>0 DEF Upstream, Holds, HasFinal
    <2>2. ASSUME NEW i \in Runs PROVE Turn(i)'
      <3>1. Owed(i) => Owed(i)'
        BY <2>0, <2>1, SameOwed
      <3> QED BY <2>0, <3>1, SameTurn DEF StoreInv, Writers
    <2>3. ASSUME NEW c \in Clients PROVE Listener(c)'
      <3>1. attachedTo[c] \in Runs \cup {NoRun} /\ Listener(c)
        BY DEF StoreInv, StreamInv, TypeOK, Writers
      <3>2. attachedTo[c] # NoRun =>
              /\ emitted'[attachedTo[c]] = emitted[attachedTo[c]]
              /\ loop[attachedTo[c]] = "done" => loop'[attachedTo[c]] = "done"
              /\ Upstream(attachedTo[c]) => Upstream(attachedTo[c])'
        <4> SUFFICES ASSUME NEW a \in Runs, a = attachedTo[c]
                     PROVE  Upstream(a) => Upstream(a)'
          BY <2>0, <3>1
        <4> QED BY <2>1
      <3> QED BY <2>0, <3>1, <3>2, SameListener
    <2> QED BY <1>0, <2>0, <2>2, <2>3 DEF StoreInv, Writers
  <1>2. CASE \E r \in Runs : Respond(r) \/ Workflow(r) \/ Loop(r)
    BY <1>0, <1>2, RespondStore, WorkflowStore, LoopStore DEF StoreInv
  <1>3. CASE \E c \in Resumers : Resume(c)
    BY <1>0, <1>3, ResumeStore DEF StoreInv
  <1>4. CASE \E c \in Clients : Consume(c) \/ Disconnect(c)
    <2>1. \A c \in Clients : ~Disconnect(c)
      BY DEF Disconnect
    <2> QED BY <1>0, <1>4, <2>1, ConsumeStore DEF StoreInv
  <1>5. ~ \E w \in orphans : OrphanLands(w)
    BY DEF StoreInv, Writers
  <1> QED BY <1>1, <1>2, <1>3, <1>4, <1>5 DEF Next, Rest

\* When messages wait for the end of the turn, clients stay to the end and only
\* writes of replaced items may fail, the database holds the final version of
\* every finished item once all has come to rest, however the loop's writes and
\* those of the clients are interleaved.
THEOREM FinalStored ==
    ~MayOverlap /\ ~MayDisconnect /\ FailingWrites \subseteq {"replaced"} =>
        (Spec => []FinalStateStored)
  <1> SUFFICES ASSUME ~MayOverlap, ~MayDisconnect, FailingWrites \subseteq {"replaced"}
               PROVE  Spec => []FinalStateStored
    OBVIOUS
  <1>1. Init => StoreInv
    <2> SUFFICES ASSUME Init PROVE Writers
      BY InitInv, SoloInit DEF StoreInv
    <2>1. /\ orphans = {}
          /\ \A i \in Runs : /\ event_queue[i] = <<>> /\ i \notin active_items /\ wf[i] = "none"
                             /\ loop[i] = "none" /\ emitted[i] = Absent
          /\ \A c \in Clients : /\ client[c] = "idle" /\ attachedTo[c] = NoRun
                                /\ inbox[c] = <<>> /\ pending[c] = {}
      BY DEF Init
    <2>2. Absent # Final
      BY BoundsAssumption DEF Absent, Final
    <2>3. \A i \in Runs : Turn(i)
      BY <2>1, <2>2 DEF Turn, Ending, Backed, Stored, Last, HasDone
    <2>4. \A c \in Clients : Listener(c)
      BY <2>1 DEF Listener, Closing, Informed, Last, HasDone
    <2> QED BY <2>1, <2>3, <2>4 DEF Writers
  <1>2. StoreInv /\ [Next]_vars => StoreInv'
    BY NextStore
  <1>3. StoreInv => FinalStateStored
    <2> SUFFICES ASSUME StoreInv, Settled, NEW i \in Runs \ TemporaryItems, emitted[i] = Final
                 PROVE  db[i] = Final
      BY DEF FinalStateStored
    <2>1. Ending(i) /\ Stored(i) /\ loop[i] \in {"none", "done"}
      BY DEF StoreInv, Writers, Turn, Settled
    <2>2. ~Upstream(i)
      BY <2>1 DEF Ending, Upstream, Holds, HasFinal
    <2>3. \A c \in Clients : attachedTo[c] # i
      BY RunsAssumption DEF StoreInv, Solo, Apart, Settled
    <2> QED BY <2>1, <2>2, <2>3 DEF Stored, Owed
  <1> QED BY <1>1, <1>2, <1>3, PTL DEF Spec
=============================================================================
