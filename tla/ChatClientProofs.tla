-------------------------- MODULE ChatClientProofs --------------------------
(***************************************************************************)
(* Theorems about the chat window: every step of the users, the server and *)
(* the network keeps the invariant of ChatScreenProofs, and a new          *)
(* conversation stays while nobody chooses another.                        *)
(***************************************************************************)
EXTENDS ChatScreenProofs

-----------------------------------------------------------------------------
(* The server changes                                                      *)

\* x has what w has, and maybe more.
Grows(w, x) ==
    /\ Named(w) \subseteq Named(x) /\ w.edited <= x.edited
    /\ \A id \in Ids : Facts(w, id) \subseteq Facts(x, id)

\* What was good stays good.
LEMMA GoodGrows ==
    ASSUME NEW uses, NEW w, NEW x, Grows(w, x)
    PROVE  /\ \A v : Good(v, w) => Good(v, x)
           /\ \A st : StreamGood(uses, st, w) => StreamGood(uses, st, x)
           /\ \A cache : CacheGood(cache, w) => CacheGood(cache, x)
  <1>1. ASSUME NEW v, Good(v, w)
        PROVE  Good(v, x)
    BY <1>1 DEF Good, Grows, ViewType
  <1>2. ASSUME NEW st, StreamGood(uses, st, w)
        PROVE  StreamGood(uses, st, x)
    <2>1. Conv(st.target) \in Ids
      BY DEF Conv, Ids
    <2>2. \A e : EventGood(e, st, w) => EventGood(e, st, x)
      BY <2>1 DEF EventGood, Grows
    <2>3. About(st.view, st, w) => About(st.view, st, x)
      BY <1>1 DEF About
    <2>4. st.asked \in Named(x) \cup {None}
      BY <1>2 DEF StreamGood, Grows
    <2> QED BY <1>2, <2>2, <2>3, <2>4 DEF StreamGood
  <1>3. ASSUME NEW cache, CacheGood(cache, w)
        PROVE  CacheGood(cache, x)
    BY <1>1, <1>3 DEF CacheGood
  <1> QED BY <1>1, <1>2, <1>3

\* So do the calls.
LEMMA CallGrows ==
    ASSUME NEW w, NEW x, Grows(w, x), w.edited \in Nat, x.edited \in Nat,
           NEW call, CallGood(call, w)
    PROVE  CallGood(call, x)
  <1>1. ReplyGood(call, w) => ReplyGood(call, x)
    <2>1. Good(call.reply, w) => Good(call.reply, x)
      BY GoodGrows
    <2>2. call.reply \in 0..w.edited => call.reply \in 0..x.edited
      BY DEF Grows
    <2> QED BY <2>1, <2>2 DEF ReplyGood, Grows
  <1> QED BY <1>1 DEF CallGood, Grows

\* The client's invariant when the server has more.
LEMMA GrowInv ==
    ASSUME NEW uses, NEW w, NEW x, Grows(w, x), w.edited \in Nat, x.edited \in Nat,
           NEW k, Inv(uses, k, w), ForksGood(k.calls, x)
    PROVE  Inv(uses, k, x)
  <1>1. k \in ClientType /\ k.since \in Nat
    BY DEF Inv, ClientType
  <1>2. Names(k, x)
    BY <1>1 DEF Inv, Names, Grows
  <1>3. Screen(uses, k, x)
    <2>1. k.thread # None => Good(k.thread, x)
      BY GoodGrows DEF Inv, Screen
    <2>2. CacheGood(k.cache, x)
      BY GoodGrows DEF Inv, Screen
    <2> QED BY <2>1, <2>2 DEF Inv, Screen
  <1>4. StreamsGood(uses, k.streams, x)
    BY GoodGrows DEF Inv, StreamsGood
  <1>5. CallsGood(k.calls, x)
    BY CallGrows DEF Inv, CallsGood
  <1> QED BY <1>1, <1>2, <1>3, <1>4, <1>5 DEF Inv

\* What the server's invariant says of types.
LEMMA ServerFacts ==
    ASSUME NEW w, ServerInv(w)
    PROVE  /\ w.edited \in Nat /\ w.items \in Nat /\ 0 <= w.edited
           /\ Named(w) \subseteq Branches /\ Main \in Named(w)
           /\ w \in ServerType /\ w.facts \in [Ids -> [Branches -> SUBSET Int]]
           /\ w.branches \in [Ids -> SUBSET Branches] /\ w.cur \in [Ids -> Branches]
           /\ \A id \in Ids : w.cur[id] \in Named(w) /\ w.branches[id] \subseteq Named(w)
  BY DEF ServerInv, ServerType, Named

\* One more chance of the users or the network is used.
LEMMA OnceInv ==
    ASSUME NEW uses, left \in [Bounded -> Nat], uses = 0 => left["clicks"] = 0,
           NEW what \in Bounded, May(what), Once(what)
    PROVE  /\ left' \in [Bounded -> Nat] /\ (uses = 0 => left'["clicks"] = 0)
           /\ uses = 0 => what # "clicks"
  BY DEF May, Once

-----------------------------------------------------------------------------
(* What the users do                                                       *)

\* A message is sent.
LEMMA SendUserMessageInv ==
    ASSUME NEW uses, ChatInv(uses), SendUserMessage
    PROVE  ChatInv(uses)'
  <1>1. Inv(uses, Sent(c), srv)
    BY SentInv DEF ChatInv, SendUserMessage
  <1>2. Inv(uses, c', srv)
    BY <1>1, ClientInv, ServerFacts DEF ChatInv, SendUserMessage
  <1>3. left' \in [Bounded -> Nat] /\ (uses = 0 => left'["clicks"] = 0)
    BY OnceInv DEF ChatInv, SendUserMessage, Bounded
  <1> QED BY <1>2, <1>3 DEF ChatInv, SendUserMessage

\* A message is edited.
LEMMA EditMessageInv ==
    ASSUME NEW uses, ChatInv(uses), NEW b \in Branches, EditMessage(b)
    PROVE  ChatInv(uses)'
  <1>1. c.thread.id \in Ids
    BY DEF ChatInv, Inv, Screen, Good, ViewType, EditMessage
  <1>2. b \notin Named(srv) /\ \A i \in Forks(c.calls) : c.calls[i].asked # b
    BY DEF EditMessage, Unused, Named, Forks
  <1>3. Askable(c, "fork", c.thread.id, b, srv)
    BY <1>1, <1>2 DEF Askable, Ops
  <1>4. Inv(uses, Ask(c, "fork", c.thread.id, b), srv)
    BY <1>3, AskInv DEF ChatInv
  <1>5. Inv(uses, c', srv)
    BY <1>4, ClientInv, ServerFacts DEF ChatInv, EditMessage
  <1>6. left' \in [Bounded -> Nat] /\ (uses = 0 => left'["clicks"] = 0)
    BY OnceInv DEF ChatInv, EditMessage, Bounded
  <1> QED BY <1>5, <1>6 DEF ChatInv, EditMessage

\* A widget is used.
LEMMA CustomActionInv ==
    ASSUME NEW uses, ChatInv(uses), CustomAction
    PROVE  ChatInv(uses)'
  <1>1. /\ left' \in [Bounded -> Nat] /\ (uses = 0 => left'["clicks"] = 0) /\ uses # 0
    BY OnceInv DEF ChatInv, CustomAction, Bounded
  <1>2. /\ c \in ClientType /\ Good(c.thread, srv) /\ c.thread \in ViewType
        /\ c.thread.id \in Ids /\ <<>> \in Seq(EventType)
    BY DEF ChatInv, Inv, Screen, Good, ViewType, CustomAction
  <1>3. PICK s \in Streams : s = NextSlot(c)
    BY SlotType DEF CustomAction
  <1>4. PICK st \in StreamType :
          st = [NoStream EXCEPT !.state = "posting", !.kind = "click",
                                !.target = c.thread.id, !.view = c.thread]
    BY <1>2 DEF NoStream, StreamType
  <1>5. /\ st.asked = None /\ st.kind = "click" /\ st.target = c.thread.id /\ st.hears = None
        /\ st.view = c.thread /\ st.inbox = <<>> /\ st.got = FALSE
    BY <1>4 DEF NoStream
  <1>6. About(st.view, st, srv)
    BY <1>2, <1>5 DEF About, Conv
  <1>7. StreamGood(uses, st, srv)
    BY <1>1, <1>2, <1>5, <1>6 DEF StreamGood
  <1>8. PICK r \in ClientType : r = [c EXCEPT !.streams[s] = st]
    BY <1>2 DEF ClientType
  <1>9. /\ r.streams = [c.streams EXCEPT ![s] = st]
        /\ r.thread = c.thread /\ r.visible = c.visible /\ r.cache = c.cache
        /\ r.calls = c.calls /\ r.ref = c.ref /\ r.current = c.current /\ r.since = c.since
    BY <1>2, <1>8 DEF ClientType
  <1>10. Inv(uses, r, srv)
    BY <1>7, <1>9, RestreamedInv DEF ChatInv
  <1>11. c' = r
    BY <1>3, <1>4, <1>8 DEF CustomAction
  <1> QED BY <1>1, <1>10, <1>11 DEF ChatInv, CustomAction

\* A conversation is chosen.
LEMMA ThreadSelectInv ==
    ASSUME NEW uses, ChatInv(uses), NEW id \in Ids, ThreadSelect(id)
    PROVE  ChatInv(uses)'
  <1>1. id \in Ids \cup {None}
    OBVIOUS
  <1>2. Inv(uses, [c EXCEPT !.draft = FALSE, !.wanted = id], srv)
    BY <1>1, ChosenInv DEF ChatInv
  <1>3. Inv(uses, c', srv)
    BY <1>2, ClientInv, ServerFacts DEF ChatInv, ThreadSelect
  <1>4. left' \in [Bounded -> Nat] /\ (uses = 0 => left'["clicks"] = 0)
    BY OnceInv DEF ChatInv, ThreadSelect, Bounded
  <1> QED BY <1>3, <1>4 DEF ChatInv, ThreadSelect

\* A new conversation in a new instance of the hook.
LEMMA NewConversationInv ==
    ASSUME NEW uses, ChatInv(uses), NewConversation
    PROVE  ChatInv(uses)'
  <1>1. PICK r : r = [c EXCEPT !.draft = TRUE, !.newStreaming = FALSE] /\ Inv(uses, r, srv)
    BY DraftInv DEF ChatInv
  <1>2. Inv(uses, Remount(r), srv)
    BY <1>1, RemountInv, ServerFacts DEF ChatInv
  <1>3. left' \in [Bounded -> Nat] /\ (uses = 0 => left'["clicks"] = 0)
    BY OnceInv DEF ChatInv, NewConversation, Bounded
  <1> QED BY <1>1, <1>2, <1>3 DEF ChatInv, NewConversation

\* A new conversation in the same instance.
LEMMA NewThreadInv ==
    ASSUME NEW uses, ChatInv(uses), NewThread
    PROVE  ChatInv(uses)'
  <1>1. None \in Ids \cup {None}
    OBVIOUS
  <1>2. Inv(uses, [c EXCEPT !.wanted = None], srv)
    BY <1>1, WantedInv DEF ChatInv
  <1>3. Inv(uses, c', srv)
    BY <1>2, ClientInv, ServerFacts DEF ChatInv, NewThread
  <1>4. left' \in [Bounded -> Nat] /\ (uses = 0 => left'["clicks"] = 0)
    BY OnceInv DEF ChatInv, NewThread, Bounded
  <1> QED BY <1>3, <1>4 DEF ChatInv, NewThread

\* Another branch is chosen.
LEMMA SwitchBranchInv ==
    ASSUME NEW uses, ChatInv(uses), NEW b \in Branches, SwitchBranch(b)
    PROVE  ChatInv(uses)'
  <1>1. c.thread.id \in Ids /\ b \in Named(srv) /\ b \in Branches \cup {None}
    BY DEF ChatInv, Inv, Screen, Good, ViewType, SwitchBranch, Named
  <1>2. Askable(c, "switch", c.thread.id, b, srv)
    BY <1>1 DEF Askable, Ops
  <1>3. PICK r : r = Ask(c, "switch", c.thread.id, b) /\ Inv(uses, r, srv)
    BY <1>2, AskInv DEF ChatInv
  <1>4. Inv(uses, [r EXCEPT !.current = b], srv)
    BY <1>1, <1>3, NowCurrentInv
  <1>5. Inv(uses, c', srv)
    BY <1>3, <1>4, ClientInv, ServerFacts DEF ChatInv, SwitchBranch
  <1>6. left' \in [Bounded -> Nat] /\ (uses = 0 => left'["clicks"] = 0)
    BY OnceInv DEF ChatInv, SwitchBranch, Bounded
  <1> QED BY <1>5, <1>6 DEF ChatInv, SwitchBranch

\* The window is looked at again.
LEMMA FocusInv ==
    ASSUME NEW uses, ChatInv(uses), Focus
    PROVE  ChatInv(uses)'
  <1>1. Inv(uses, FetchUpdates(c), srv)
    BY FetchInv DEF ChatInv
  <1>2. Inv(uses, c', srv)
    BY <1>1, ClientInv, ServerFacts DEF ChatInv, Focus
  <1>3. left' \in [Bounded -> Nat] /\ (uses = 0 => left'["clicks"] = 0)
    BY OnceInv DEF ChatInv, Focus, Bounded
  <1> QED BY <1>2, <1>3 DEF ChatInv, Focus

\* Older items are asked for.
LEMMA LoadOlderInv ==
    ASSUME NEW uses, ChatInv(uses), LoadOlder
    PROVE  ChatInv(uses)'
  <1>1. c.thread.id \in Ids
    BY DEF ChatInv, Inv, Screen, Good, ViewType, LoadOlder
  <1>2. Askable(c, "older", c.thread.id, None, srv)
    BY <1>1 DEF Askable, Ops
  <1>3. Inv(uses, Ask(c, "older", c.thread.id, None), srv)
    BY <1>2, AskInv DEF ChatInv
  <1>4. left' \in [Bounded -> Nat] /\ (uses = 0 => left'["clicks"] = 0)
    BY OnceInv DEF ChatInv, LoadOlder, Bounded
  <1> QED BY <1>3, <1>4 DEF ChatInv, LoadOlder

-----------------------------------------------------------------------------
(* The server                                                              *)

\* One stream is another one that is as good.
LEMMA StreamInv ==
    ASSUME NEW uses, NEW w, NEW k, Inv(uses, k, w), NEW s \in Streams,
           NEW st \in StreamType, StreamGood(uses, st, w)
    PROVE  Inv(uses, [k EXCEPT !.streams[s] = st], w)
  <1>1. k \in ClientType
    BY DEF Inv
  <1>2. PICK r \in ClientType : r = [k EXCEPT !.streams[s] = st]
    BY <1>1 DEF ClientType
  <1>3. /\ r.streams = [k.streams EXCEPT ![s] = st]
        /\ r.thread = k.thread /\ r.visible = k.visible /\ r.cache = k.cache
        /\ r.calls = k.calls /\ r.ref = k.ref /\ r.current = k.current /\ r.since = k.since
    BY <1>1, <1>2 DEF ClientType
  <1> QED BY <1>2, <1>3, RestreamedInv

\* A stream's request has reached the server.
LEMMA OpenedInv ==
    ASSUME NEW uses, NEW w, Inv(uses, c, w), NEW s \in Streams,
           c.streams[s].kind # "none",
           NEW id \in Ids \cup {None}, id = None \/ id = Conv(c.streams[s].target),
           NEW inbox \in Seq(EventType),
           \A i \in DOMAIN inbox : EventGood(inbox[i], c.streams[s], w)
    PROVE  Inv(uses, Opened(s, id, inbox), w)
  <1>1. c \in ClientType /\ c.streams[s] \in StreamType /\ StreamGood(uses, c.streams[s], w)
    BY DEF Inv, ClientType, StreamsGood
  <1>0. "open" \in {"idle", "posting", "open", "aborted"}
    OBVIOUS
  <1>a. [c.streams[s] EXCEPT !.state = "open", !.hears = id, !.inbox = inbox] \in StreamType
    BY <1>0, <1>1 DEF StreamType
  <1>2. PICK st \in StreamType :
          st = [c.streams[s] EXCEPT !.state = "open", !.hears = id, !.inbox = inbox]
    BY <1>a
  <1>3. /\ st.asked = c.streams[s].asked /\ st.kind = c.streams[s].kind
        /\ st.target = c.streams[s].target /\ st.hears = id
        /\ st.first = c.streams[s].first /\ st.key = c.streams[s].key
        /\ st.view = c.streams[s].view /\ st.inbox = inbox /\ st.got = c.streams[s].got
    BY <1>1, <1>2 DEF StreamType
  <1>4. StreamGood(uses, st, w)
    BY <1>1, <1>3 DEF StreamGood, Keyed, EventGood, About
  <1>5. Inv(uses, [c EXCEPT !.streams[s] = st], w)
    BY <1>4, StreamInv
  <1>6. [c EXCEPT !.streams[s] = st] = Opened(s, id, inbox)
    BY <1>1, <1>2 DEF Opened, ClientType
  <1> QED BY <1>5, <1>6

\* Only turns, or what exists, change.
OnlyTurns(w, x) ==
    /\ x \in ServerType
    /\ x.facts = w.facts /\ x.branches = w.branches /\ x.cur = w.cur
    /\ x.items = w.items /\ x.edited = w.edited /\ x.old = w.old /\ x.strays = w.strays
    /\ \A id \in Ids : x.turn[id] # None => x.turn[id].branch \in Named(w) \cup {None}

\* Then the server has what it had.
LEMMA SameServer ==
    ASSUME NEW uses, NEW w, NEW x, ServerInv(w), OnlyTurns(w, x)
    PROVE  ServerInv(x) /\ \A k : Inv(uses, k, w) => Inv(uses, k, x)
  <1>1. Named(x) = Named(w) /\ \A id : Facts(x, id) = Facts(w, id)
    BY DEF Named, Facts, OnlyTurns
  <1>2. ServerInv(x)
    BY <1>1 DEF ServerInv, OnlyTurns
  <1>3. w.edited \in Nat /\ x.edited \in Nat /\ Grows(w, x)
    BY <1>1, ServerFacts DEF Grows, OnlyTurns
  <1>4. ASSUME NEW k, Inv(uses, k, w)
        PROVE  Inv(uses, k, x)
    <2>1. ForksGood(k.calls, x)
      BY <1>1, <1>4 DEF Inv, ForksGood
    <2> QED BY <1>3, <1>4, <2>1, GrowInv
  <1> QED BY <1>2, <1>4

\* A turn is started for a stream.
LEMMA StartedServer ==
    ASSUME NEW w, ServerInv(w), NEW id \in Ids, NEW b \in Branches \cup {None},
           b \in Named(w) \cup {None}, NEW e \in BOOLEAN
    PROVE  OnlyTurns(w, [w EXCEPT !.exists[id] = e, !.turn[id] = Turn(b)])
  <1>1. w \in ServerType
    BY ServerFacts
  <1>a. 0 \in Nat /\ Turn(b) = [branch |-> b, items |-> 0]
    BY DEF Turn
  <1>b. [branch |-> b, items |-> 0] \in [branch : Branches \cup {None}, items : Nat]
    BY <1>a
  <1>2. PICK t \in [branch : Branches \cup {None}, items : Nat] : t = Turn(b) /\ t.branch = b
    BY <1>a, <1>b
  <1>3. PICK turn \in [Ids -> [branch : Branches \cup {None}, items : Nat] \cup {None}] :
          turn = [w.turn EXCEPT ![id] = t]
    BY <1>1 DEF ServerType
  <1>4. PICK exists \in [Ids -> BOOLEAN] : exists = [w.exists EXCEPT ![id] = e]
    BY <1>1 DEF ServerType
  <1>5. PICK x \in ServerType : x = [w EXCEPT !.exists = exists, !.turn = turn]
    BY <1>1 DEF ServerType
  <1>6. x = [w EXCEPT !.exists[id] = e, !.turn[id] = Turn(b)]
    BY <1>1, <1>2, <1>3, <1>4, <1>5 DEF ServerType
  <1>7. /\ x.facts = w.facts /\ x.branches = w.branches /\ x.cur = w.cur
        /\ x.items = w.items /\ x.edited = w.edited /\ x.turn = turn
        /\ x.old = w.old /\ x.strays = w.strays
    BY <1>1, <1>5 DEF ServerType
  <1>8. \A i \in Ids : turn[i] # None => turn[i].branch \in Named(w) \cup {None}
    BY <1>1, <1>2, <1>3 DEF ServerInv, ServerType
  <1> QED BY <1>3, <1>5, <1>6, <1>7, <1>8 DEF OnlyTurns

\* A stream's request is accepted.
LEMMA AcceptInv ==
    ASSUME NEW uses, ChatInv(uses), NEW s \in Streams, Accept(s)
    PROVE  ChatInv(uses)'
  <1>1. PICK st \in StreamType : st = c.streams[s] /\ StreamGood(uses, st, srv)
    BY DEF ChatInv, Inv, ClientType, StreamsGood
  <1>2. /\ Inv(uses, c, srv) /\ ServerInv(srv) /\ srv \in ServerType
        /\ <<>> \in Seq(EventType) /\ DOMAIN <<>> = {}
    BY ServerFacts DEF ChatInv
  <1>3. st.target \in Ids => st.target = Conv(st.target)
    BY DEF Conv
  <1>4. UNCHANGED <<left, net>>
    BY DEF Accept
  <1>5. ASSUME NEW id \in Ids \cup {None}, id = None \/ id = Conv(st.target),
               NEW inbox \in Seq(EventType), \A i \in DOMAIN inbox : EventGood(inbox[i], st, srv),
               st.kind # "none"
        PROVE  Inv(uses, Opened(s, id, inbox), srv)
    BY <1>1, <1>2, <1>5, OpenedInv
  <1>6. CASE st.kind = "resume" /\ c' = Opened(s, st.target, <<>>) /\ UNCHANGED srv
    <2>1. st.target \in Ids
      BY <1>1, <1>6 DEF StreamGood
    <2>2. Inv(uses, c', srv)
      BY <1>2, <1>3, <1>5, <1>6, <2>1
    <2> QED BY <1>4, <1>6, <2>2 DEF ChatInv
  <1>7. CASE st.kind \in {"resume", "click"} /\ c' = Opened(s, None, <<Done>>) /\ UNCHANGED srv
    <2>1. Done \in EventType /\ Done.type = "done"
      BY DEF Done, EventType
    <2>a. <<Done>> \in Seq(EventType)
      BY <2>1
    <2>2. PICK inbox \in Seq(EventType) : inbox = <<Done>>
      BY <2>a
    <2>3. \A i \in DOMAIN inbox : EventGood(inbox[i], st, srv)
      BY <2>1, <2>2 DEF EventGood
    <2>4. None \in Ids \cup {None} /\ st.kind # "none"
      BY <1>7
    <2>5. Inv(uses, c', srv)
      BY <1>5, <1>7, <2>2, <2>3, <2>4
    <2> QED BY <1>4, <1>7, <2>5 DEF ChatInv
  <1>8. CASE /\ st.kind \in {"message", "click"} /\ st.target \in Ids
             /\ c' = Opened(s, st.target, <<>>)
             /\ srv' = [srv EXCEPT !.turn[st.target] = Turn(st.asked)]
    <2>1. st.asked \in Named(srv) \cup {None} /\ st.asked \in Branches \cup {None}
      BY <1>1 DEF StreamGood, StreamType
    <2>2. Inv(uses, c', srv)
      BY <1>2, <1>3, <1>5, <1>8
    <2>3. srv.exists[st.target] \in BOOLEAN
      BY <1>2, <1>8 DEF ServerType
    <2>4. PICK e \in BOOLEAN : e = srv.exists[st.target]
      BY <2>3
    <2>5. srv' = [srv EXCEPT !.exists[st.target] = e, !.turn[st.target] = Turn(st.asked)]
      BY <1>2, <1>8, <2>4 DEF ServerType
    <2>a. OnlyTurns(srv, [srv EXCEPT !.exists[st.target] = e, !.turn[st.target] = Turn(st.asked)])
      <3>1. ServerInv(srv) /\ st.target \in Ids
        BY <1>2, <1>8
      <3> QED BY <2>1, <3>1, StartedServer
    <2>6. OnlyTurns(srv, srv')
      BY <2>5, <2>a
    <2>7. ServerInv(srv') /\ Inv(uses, c', srv')
      BY <1>2, <2>2, <2>6, SameServer
    <2> QED BY <1>4, <2>7 DEF ChatInv, ServerInv, Inv
  <1>9. CASE /\ st.kind = "message" /\ st.target \notin Ids
             /\ c' = Opened(s, Born, <<New(Born)>>)
             /\ srv' = [srv EXCEPT !.exists[Born] = TRUE, !.turn[Born] = Turn(None)]
    <2>1. /\ Born \in Ids /\ Conv(st.target) = Born /\ TRUE \in BOOLEAN
          /\ None \in Named(srv) \cup {None} /\ None \in Branches \cup {None}
      BY <1>9 DEF Ids, Conv
    <2>2. New(Born) \in EventType /\ New(Born).type = "created" /\ New(Born).id = Born
      BY <2>1 DEF New, EventType
    <2>a. <<New(Born)>> \in Seq(EventType)
      BY <2>2
    <2>3. PICK inbox \in Seq(EventType) : inbox = <<New(Born)>>
      BY <2>a
    <2>4. \A i \in DOMAIN inbox : EventGood(inbox[i], st, srv)
      BY <1>9, <2>2, <2>3 DEF EventGood
    <2>5. Inv(uses, c', srv)
      BY <1>5, <1>9, <2>1, <2>3, <2>4
    <2>6. OnlyTurns(srv, srv')
      BY <1>2, <1>9, <2>1, StartedServer
    <2>7. ServerInv(srv') /\ Inv(uses, c', srv')
      BY <1>2, <2>5, <2>6, SameServer
    <2> QED BY <1>4, <2>7 DEF ChatInv, ServerInv, Inv
  <1>10. st.kind = "click" => st.target \in Ids
    BY <1>1 DEF StreamGood
  <1> QED BY <1>1, <1>6, <1>7, <1>8, <1>9, <1>10 DEF Accept

\* An event is sent to the streams that listen to a conversation.
Sendable(events, id, w) ==
    /\ events \in Seq(EventType)
    /\ \A i \in DOMAIN events : /\ events[i].type # "created"
                                /\ events[i].type = "item" => events[i].fact \in Facts(w, id)

\* One stream hears of it.
LEMMA HeardInv ==
    ASSUME NEW uses, NEW w, NEW st \in StreamType, StreamGood(uses, st, w),
           NEW id \in Ids, st.hears = id,
           NEW events, Sendable(events, id, w)
    PROVE  /\ [st EXCEPT !.inbox = @ \o events] \in StreamType
           /\ StreamGood(uses, [st EXCEPT !.inbox = @ \o events], w)
  <1>1. st.inbox \in Seq(EventType) /\ events \in Seq(EventType)
    BY DEF StreamType, Sendable
  <1>2. /\ st.inbox \o events \in Seq(EventType)
        /\ Len(st.inbox \o events) = Len(st.inbox) + Len(events)
        /\ \A i \in 1 .. Len(st.inbox) + Len(events) :
             (st.inbox \o events)[i] =
                IF i <= Len(st.inbox) THEN st.inbox[i] ELSE events[i - Len(st.inbox)]
    BY <1>1, ConcatProperties
  <1>3. PICK inbox \in Seq(EventType) : inbox = st.inbox \o events
    BY <1>2
  <1>4. \A i \in DOMAIN inbox : \/ \E j \in DOMAIN st.inbox : inbox[i] = st.inbox[j]
                                \/ \E j \in DOMAIN events : inbox[i] = events[j]
    <2>1. /\ Len(st.inbox) \in Nat /\ Len(events) \in Nat
          /\ DOMAIN st.inbox = 1 .. Len(st.inbox) /\ DOMAIN events = 1 .. Len(events)
          /\ DOMAIN inbox = 1 .. Len(st.inbox) + Len(events)
      BY <1>1, <1>2, <1>3, LenProperties
    <2>2. ASSUME NEW i \in DOMAIN inbox, i <= Len(st.inbox)
          PROVE  i \in DOMAIN st.inbox /\ inbox[i] = st.inbox[i]
      BY <1>2, <1>3, <2>1, <2>2
    <2>3. ASSUME NEW i \in DOMAIN inbox, ~(i <= Len(st.inbox))
          PROVE  /\ i - Len(st.inbox) \in DOMAIN events
                 /\ inbox[i] = events[i - Len(st.inbox)]
      BY <1>2, <1>3, <2>1, <2>3
    <2> QED BY <2>2, <2>3
  <1>5. PICK r \in StreamType : r = [st EXCEPT !.inbox = inbox]
    BY DEF StreamType
  <1>6. /\ r.asked = st.asked /\ r.kind = st.kind /\ r.target = st.target /\ r.hears = st.hears
        /\ r.first = st.first /\ r.key = st.key /\ r.view = st.view /\ r.inbox = inbox
        /\ r.got = st.got
    BY <1>5 DEF StreamType
  <1>7. None \notin Ids
    BY ClientAssumption DEF Ids
  <1>8. st.kind # "none" /\ Conv(st.target) = id
    BY <1>7 DEF StreamGood
  <1>9. \A i \in DOMAIN inbox : EventGood(inbox[i], r, w)
    <2>1. \A j \in DOMAIN st.inbox : EventGood(st.inbox[j], r, w)
      BY <1>6 DEF StreamGood, EventGood
    <2>2. \A j \in DOMAIN events : EventGood(events[j], r, w)
      BY <1>6, <1>8 DEF Sendable, EventGood
    <2> QED BY <1>4, <2>1, <2>2
  <1>10. StreamGood(uses, r, w)
    BY <1>6, <1>8, <1>9 DEF StreamGood, Keyed, About
  <1> QED BY <1>3, <1>5, <1>10

\* All that listen do.
LEMMA PushInv ==
    ASSUME NEW uses, NEW w, NEW k, Inv(uses, k, w), NEW id \in Ids, NEW events,
           Sendable(events, id, w)
    PROVE  Inv(uses, Push(k, id, events), w)
  <1>1. k \in ClientType /\ k.streams \in [Streams -> StreamType] /\ StreamsGood(uses, k.streams, w)
    BY DEF Inv, ClientType
  <1>2. PICK streams : streams = [s \in Streams |-> Hear(k.streams[s], id, events)]
    OBVIOUS
  <1>3. ASSUME NEW s \in Streams
        PROVE  streams[s] \in StreamType /\ StreamGood(uses, streams[s], w)
    <2>1. k.streams[s] \in StreamType /\ StreamGood(uses, k.streams[s], w)
      BY <1>1 DEF StreamsGood
    <2>2. CASE k.streams[s].state = "open" /\ k.streams[s].hears = id
      <3>1. /\ [k.streams[s] EXCEPT !.inbox = @ \o events] \in StreamType
            /\ StreamGood(uses, [k.streams[s] EXCEPT !.inbox = @ \o events], w)
        BY <2>1, <2>2, HeardInv
      <3> QED BY <1>2, <2>2, <3>1 DEF Hear
    <2>3. CASE ~(k.streams[s].state = "open" /\ k.streams[s].hears = id)
      BY <1>2, <2>1, <2>3 DEF Hear
    <2> QED BY <2>2, <2>3
  <1>4. streams \in [Streams -> StreamType] /\ StreamsGood(uses, streams, w)
    BY <1>2, <1>3 DEF StreamsGood
  <1>5. PICK r \in ClientType : r = [k EXCEPT !.streams = streams]
    BY <1>1, <1>4 DEF ClientType
  <1>6. /\ r.thread = k.thread /\ r.visible = k.visible /\ r.cache = k.cache
        /\ r.streams = streams /\ r.calls = k.calls
        /\ r.ref = k.ref /\ r.current = k.current /\ r.since = k.since
    BY <1>1, <1>5 DEF ClientType
  <1>7. Inv(uses, r, w)
    BY <1>4, <1>6 DEF Inv, Names, Screen
  <1> QED BY <1>2, <1>5, <1>7 DEF Push

\* Whatever is right with the server w is right with x.
Keeps(uses, w, x) == \A k : Inv(uses, k, w) => Inv(uses, k, x)

\* The branches are those it has; the conversations have what they had.
LEMMA SameNames ==
    ASSUME NEW uses, NEW w, NEW x, ServerInv(w), w.edited <= x.edited, x.edited \in Nat,
           x.branches = w.branches, x.old = w.old, \A id \in Ids : w.strays[id] \subseteq x.strays[id],
           \A id \in Ids, b \in Branches : w.facts[id][b] \subseteq x.facts[id][b]
    PROVE  Named(x) = Named(w) /\ Grows(w, x) /\ Keeps(uses, w, x)
  <1>1. Named(x) = Named(w)
    BY DEF Named
  <1>2. Grows(w, x)
    BY <1>1 DEF Grows, Facts
  <1>3. ASSUME NEW k, Inv(uses, k, w)
        PROVE  Inv(uses, k, x)
    <2>1. ForksGood(k.calls, x)
      BY <1>1, <1>3 DEF Inv, ForksGood
    <2> QED BY <1>2, <1>3, <2>1, GrowInv, ServerFacts
  <1> QED BY <1>1, <1>2, <1>3 DEF Keeps

\* An item is stored on a branch that has a name.
LEMMA StoredServer ==
    ASSUME NEW uses, NEW w, ServerInv(w), NEW id \in Ids, NEW b \in Branches,
           b \in Named(w),
           NEW t \in [branch : Branches \cup {None}, items : Nat] \cup {None},
           t # None => t.branch \in Named(w) \cup {None}, NEW x,
           x = [w EXCEPT !.items = @ + 1, !.facts[id][b] = @ \cup {w.items + 1},
                         !.turn[id] = t]
    PROVE  ServerInv(x) /\ w.items + 1 \in Facts(x, id) /\ Keeps(uses, w, x)
  <1>1. /\ w \in ServerType /\ w.items \in Nat /\ w.edited \in Nat
        /\ w.facts \in [Ids -> [Branches -> SUBSET Int]]
    BY ServerFacts
  <1>2. PICK n \in Nat : n = w.items + 1
    BY <1>1
  <1>a. w.facts[id][b] \cup {n} \in SUBSET Int
    BY <1>1
  <1>3. PICK new \in SUBSET Int : new = w.facts[id][b] \cup {n}
    BY <1>a
  <1>4. PICK row \in [Branches -> SUBSET Int] : row = [w.facts[id] EXCEPT ![b] = new]
    BY <1>1
  <1>5. PICK facts \in [Ids -> [Branches -> SUBSET Int]] : facts = [w.facts EXCEPT ![id] = row]
    BY <1>1
  <1>6. PICK turn \in [Ids -> [branch : Branches \cup {None}, items : Nat] \cup {None}] :
          turn = [w.turn EXCEPT ![id] = t]
    BY <1>1 DEF ServerType
  <1>7. facts = [w.facts EXCEPT ![id][b] = @ \cup {w.items + 1}]
    BY <1>1, <1>2, <1>3, <1>4, <1>5
  <1>8. x = [w EXCEPT !.items = n, !.facts = facts, !.turn = turn]
    BY <1>1, <1>2, <1>6, <1>7 DEF ServerType
  <1>9. x \in ServerType
    BY <1>1, <1>8 DEF ServerType
  <1>10. /\ x.facts = facts /\ x.branches = w.branches /\ x.cur = w.cur
         /\ x.items = n /\ x.edited = w.edited /\ x.turn = turn
         /\ x.old = w.old /\ x.strays = w.strays
    BY <1>1, <1>8 DEF ServerType
  <1>11. \A i \in Ids, d \in Branches :
           /\ facts[i][d] = IF i = id /\ d = b THEN w.facts[i][d] \cup {n} ELSE w.facts[i][d]
    BY <1>1, <1>3, <1>4, <1>5
  <1>12. Named(x) = Named(w) /\ Keeps(uses, w, x)
    <2>1. w.edited <= x.edited /\ x.edited \in Nat
      BY <1>1, <1>10
    <2>2. \A i \in Ids, d \in Branches : w.facts[i][d] \subseteq x.facts[i][d]
      BY <1>10, <1>11
    <2> QED BY <1>10, <2>1, <2>2, SameNames
  <1>13. n \in Facts(x, id)
    BY <1>10, <1>11 DEF Facts
  <1>14. \A i \in Ids : turn[i] # None => turn[i].branch \in Named(w) \cup {None}
    BY <1>1, <1>6 DEF ServerInv, ServerType
  <1>15. \A i \in Ids, d \in Branches : facts[i][d] \subseteq -w.edited .. n
    <2>1. ASSUME NEW i \in Ids, NEW d \in Branches, NEW f \in facts[i][d]
          PROVE  f \in -w.edited .. n
      <3>1. f \in w.facts[i][d] \/ f = n
        BY <1>11
      <3>2. w.facts[i][d] \subseteq -w.edited .. w.items
        BY DEF ServerInv
      <3>3. f \in -w.edited .. w.items \/ f = n
        BY <3>1, <3>2
      <3> QED BY <1>1, <1>2, <3>3
    <2> QED BY <2>1
  <1>16. \A i \in Ids : \A e \in Branches : e \notin Named(w) =>
           \A d \in Branches : facts[i][e] \subseteq facts[i][d] \cap -w.edited..-1
    <2>1. ASSUME NEW i \in Ids, NEW e \in Branches, e \notin Named(w), NEW d \in Branches
          PROVE  facts[i][e] \subseteq facts[i][d] \cap -w.edited..-1
      <3>1. facts[i][e] = w.facts[i][e] /\ w.facts[i][d] \subseteq facts[i][d]
        BY <1>11, <2>1
      <3>2. w.facts[i][e] \subseteq w.facts[i][d] \cap -w.edited..-1
        BY <2>1 DEF ServerInv
      <3> QED BY <3>1, <3>2
    <2> QED BY <2>1
  <1>17. ServerInv(x)
    BY <1>9, <1>10, <1>12, <1>14, <1>15, <1>16 DEF ServerInv
  <1> QED BY <1>2, <1>12, <1>13, <1>17

\* A turn produces an item.
LEMMA ProduceInv ==
    ASSUME NEW uses, ChatInv(uses), NEW id \in Ids, Produce(id)
    PROVE  ChatInv(uses)'
  <1>1. ServerInv(srv) /\ Inv(uses, c, srv) /\ srv \in ServerType
    BY ServerFacts DEF ChatInv
  <1>2. PICK turn \in [branch : Branches \cup {None}, items : Nat] :
          turn = srv.turn[id] /\ turn.branch \in Named(srv) \cup {None}
    BY <1>1 DEF Produce, ServerType, ServerInv
  <1>3. PICK b \in Branches : /\ b = (IF turn.branch = None THEN srv.cur[id] ELSE turn.branch)
                              /\ b \in Named(srv)
    BY <1>1, <1>2, ServerFacts
  <1>4. PICK last \in BOOLEAN : last = (turn.items + 1 = TurnLength)
    OBVIOUS
  <1>5. [turn EXCEPT !.items = @ + 1] \in [branch : Branches \cup {None}, items : Nat]
    BY <1>2
  <1>6. [turn EXCEPT !.items = @ + 1].branch = turn.branch
    BY <1>2
  <1>7. PICK t \in [branch : Branches \cup {None}, items : Nat] \cup {None} :
          /\ t = (IF last THEN None ELSE [turn EXCEPT !.items = @ + 1])
          /\ t # None => t.branch \in Named(srv) \cup {None}
    BY <1>2, <1>5, <1>6
  <1>8. PICK x : /\ x = [srv EXCEPT !.items = @ + 1, !.facts[id][b] = @ \cup {srv.items + 1},
                                   !.turn[id] = t]
                 /\ srv' = x
    BY <1>2, <1>3, <1>4, <1>7 DEF Produce
  <1>a. ServerInv(x) /\ srv.items + 1 \in Facts(x, id) /\ Keeps(uses, srv, x)
    BY <1>1, <1>3, <1>7, <1>8, StoredServer
  <1>9. ServerInv(srv') /\ srv.items + 1 \in Facts(srv', id) /\ Inv(uses, c, srv')
    BY <1>1, <1>8, <1>a DEF Keeps
  <1>10. PICK n \in Int : n = srv.items + 1
    BY <1>1, ServerFacts
  <1>11. PICK one \in EventType : one = Item(n) /\ one.type = "item" /\ one.fact = n
    <2>1. Item(n) \in EventType /\ Item(n).type = "item" /\ Item(n).fact = n
      BY DEF Item, EventType
    <2> QED BY <2>1
  <1>12. PICK done \in EventType : done = Done /\ done.type = "done"
    <2>1. Done \in EventType /\ Done.type = "done"
      BY DEF Done, EventType
    <2> QED BY <2>1
  <1>13. Sendable(<<one>>, id, srv')
    <2>1. <<one>> \in Seq(EventType)
      OBVIOUS
    <2>2. DOMAIN <<one>> = {1} /\ <<one>>[1] = one
      OBVIOUS
    <2> QED BY <1>9, <1>10, <1>11, <2>1, <2>2 DEF Sendable
  <1>14. Sendable(<<one, done>>, id, srv')
    <2>1. <<one, done>> \in Seq(EventType)
      OBVIOUS
    <2>2. DOMAIN <<one, done>> = {1, 2} /\ <<one, done>>[1] = one /\ <<one, done>>[2] = done
      OBVIOUS
    <2> QED BY <1>9, <1>10, <1>11, <1>12, <2>1, <2>2 DEF Sendable
  <1>15. PICK events : /\ events = (IF last THEN <<one, done>> ELSE <<one>>)
                       /\ Sendable(events, id, srv')
    BY <1>13, <1>14
  <1>16. c' = Push(c, id, events)
    BY <1>2, <1>4, <1>10, <1>11, <1>12, <1>15 DEF Produce
  <1>17. Inv(uses, c', srv')
    BY <1>9, <1>15, <1>16, PushInv
  <1> QED BY <1>9, <1>17 DEF ChatInv, Produce, Inv, ServerInv

\* An administrator edits a step.
LEMMA LiveEditInv ==
    ASSUME NEW uses, ChatInv(uses), LiveEdit
    PROVE  ChatInv(uses)'
  <1>1. /\ ServerInv(srv) /\ Inv(uses, c, srv) /\ srv \in ServerType /\ srv.items \in Nat
        /\ srv.edited \in Nat /\ srv.facts \in [Ids -> [Branches -> SUBSET Int]]
    BY ServerFacts DEF ChatInv
  <1>2. PICK n \in Nat : n = srv.edited + 1
    BY <1>1
  <1>3. PICK facts : facts = [id \in Ids |-> [b \in Branches |->
                        IF srv.exists[id] THEN srv.facts[id][b] \cup {-n} ELSE srv.facts[id][b]]]
    OBVIOUS
  <1>4. facts \in [Ids -> [Branches -> SUBSET Int]]
    BY <1>1, <1>3
  <1>5. PICK x \in ServerType : x = [srv EXCEPT !.edited = n, !.facts = facts]
    BY <1>1, <1>4 DEF ServerType
  <1>6. srv' = x
    BY <1>1, <1>2, <1>3, <1>5 DEF LiveEdit, ServerType
  <1>7. /\ x.facts = facts /\ x.branches = srv.branches /\ x.cur = srv.cur
        /\ x.items = srv.items /\ x.edited = n /\ x.turn = srv.turn
        /\ x.old = srv.old /\ x.strays = srv.strays
    BY <1>1, <1>5 DEF ServerType
  <1>8. \A id \in Ids, b \in Branches :
          /\ facts[id][b] = IF srv.exists[id] THEN srv.facts[id][b] \cup {-n} ELSE srv.facts[id][b]
    BY <1>3
  <1>9. \A id \in Ids, b \in Branches : srv.facts[id][b] \subseteq facts[id][b]
    BY <1>8
  <1>10. Named(x) = Named(srv) /\ Keeps(uses, srv, x)
    <2>1. srv.edited <= x.edited /\ x.edited \in Nat
      BY <1>1, <1>2, <1>7
    <2>2. \A id \in Ids, b \in Branches : srv.facts[id][b] \subseteq x.facts[id][b]
      BY <1>7, <1>9
    <2> QED BY <1>1, <1>7, <2>1, <2>2, SameNames
  <1>11. \A id \in Ids, b \in Branches : facts[id][b] \subseteq -n .. srv.items
    <2>1. ASSUME NEW id \in Ids, NEW b \in Branches, NEW f \in facts[id][b]
          PROVE  f \in -n .. srv.items
      <3>1. f \in srv.facts[id][b] \/ f = -n
        BY <1>8
      <3>2. srv.facts[id][b] \subseteq -srv.edited .. srv.items
        BY <1>1 DEF ServerInv
      <3>3. f \in -srv.edited .. srv.items \/ f = -n
        BY <3>1, <3>2
      <3> QED BY <1>1, <1>2, <3>3
    <2> QED BY <2>1
  <1>12. \A id \in Ids : \A b \in Branches : b \notin Named(srv) =>
           \A d \in Branches : facts[id][b] \subseteq facts[id][d] \cap -n..-1
    <2>1. ASSUME NEW id \in Ids, NEW b \in Branches, b \notin Named(srv), NEW d \in Branches
          PROVE  facts[id][b] \subseteq facts[id][d] \cap -n..-1
      <3>1. srv.facts[id][b] \subseteq srv.facts[id][d] \cap -srv.edited..-1
        BY <1>1, <2>1 DEF ServerInv
      <3>2. -srv.edited..-1 \subseteq -n..-1 /\ -n \in -n..-1
        BY <1>1, <1>2
      <3>3. facts[id][b] = (IF srv.exists[id] THEN srv.facts[id][b] \cup {-n}
                            ELSE srv.facts[id][b])
            /\ facts[id][d] = (IF srv.exists[id] THEN srv.facts[id][d] \cup {-n}
                              ELSE srv.facts[id][d])
        BY <1>8
      <3> QED BY <3>1, <3>2, <3>3
    <2> QED BY <2>1
  <1>13. ServerInv(x)
    BY <1>1, <1>5, <1>7, <1>10, <1>11, <1>12 DEF ServerInv
  <1>14. left' \in [Bounded -> Nat] /\ (uses = 0 => left'["clicks"] = 0)
    BY OnceInv DEF ChatInv, LiveEdit, Bounded
  <1>15. Inv(uses, c', srv') /\ ServerInv(srv')
    BY <1>1, <1>6, <1>10, <1>13 DEF LiveEdit, Keeps
  <1> QED BY <1>14, <1>15 DEF ChatInv, LiveEdit, Inv, ServerInv

-----------------------------------------------------------------------------
(* Calls                                                                   *)

\* A call is another one, that is served.
LEMMA RecallInv ==
    ASSUME NEW uses, NEW w, NEW k, Inv(uses, k, w), NEW i \in DOMAIN k.calls,
           NEW q \in CallType,
           CallGood(q, w), q.op = k.calls[i].op, q.asked = k.calls[i].asked, q.state # "asked"
    PROVE  Inv(uses, [k EXCEPT !.calls[i] = q], w)
  <1>1. k \in ClientType /\ k.calls \in Seq(CallType)
    BY DEF Inv, ClientType
  <1>2. [k.calls EXCEPT ![i] = q] \in Seq(CallType)
    BY <1>1
  <1>3. PICK calls \in Seq(CallType) : calls = [k.calls EXCEPT ![i] = q]
    BY <1>2
  <1>4. /\ DOMAIN calls = DOMAIN k.calls /\ calls[i] = q
        /\ \A j \in DOMAIN calls : j # i => calls[j] = k.calls[j]
    BY <1>1, <1>3
  <1>5. CallsGood(calls, w)
    BY <1>4 DEF Inv, CallsGood
  <1>6. Forks(calls) = Forks(k.calls)
    BY <1>4 DEF Forks
  <1>7. \A j \in Forks(calls) : calls[j].asked = k.calls[j].asked
    BY <1>4, <1>6 DEF Forks
  <1>8. \A j \in Forks(calls) : calls[j].state = "asked" => calls[j] = k.calls[j]
    BY <1>4 DEF Forks
  <1>9. ForksGood(calls, w)
    BY <1>6, <1>7, <1>8 DEF Inv, ForksGood
  <1>10. PICK r \in ClientType : r = [k EXCEPT !.calls = calls]
    BY <1>1 DEF ClientType
  <1>11. /\ r.thread = k.thread /\ r.visible = k.visible /\ r.cache = k.cache
         /\ r.streams = k.streams /\ r.calls = calls
         /\ r.ref = k.ref /\ r.current = k.current /\ r.since = k.since
    BY <1>1, <1>10 DEF ClientType
  <1>12. Inv(uses, r, w)
    BY <1>5, <1>9, <1>11 DEF Inv, Names, Screen
  <1>13. r = [k EXCEPT !.calls[i] = q]
    BY <1>1, <1>3, <1>10 DEF ClientType
  <1> QED BY <1>12, <1>13

\* What a call does to the names: a fork adds one.
NamesAfter(w, x, call) ==
    Named(x) = IF call.op = "fork" THEN Named(w) \cup {call.asked} ELSE Named(w)

\* A branch is made of another one, without its newest item.
Forked(w, x, id, a) ==
    x = [w EXCEPT !.cur[id] = a, !.branches[id] = @ \cup {a},
                  !.facts[id][a] = w.facts[id][w.cur[id]] \ {w.items}]
LEMMA ForkedServer ==
    ASSUME NEW w, ServerInv(w), NEW id \in Ids, NEW a \in Branches, a \notin Named(w),
           NEW x, Forked(w, x, id, a)
    PROVE  ServerInv(x) /\ Grows(w, x) /\ Named(x) = Named(w) \cup {a}
  <1>1. /\ w \in ServerType /\ w.items \in Nat /\ w.edited \in Nat
        /\ w.facts \in [Ids -> [Branches -> SUBSET Int]]
        /\ w.branches \in [Ids -> SUBSET Branches] /\ w.cur \in [Ids -> Branches]
    BY ServerFacts
  <1>2. PICK b \in Branches : b = w.cur[id] /\ b \in Named(w) /\ b # a
    BY <1>1, ServerFacts
  <1>3. PICK new \in SUBSET Int : new = w.facts[id][b] \ {w.items}
    <2>1. w.facts[id][b] \in SUBSET Int
      BY <1>1
    <2>2. w.facts[id][b] \ {w.items} \in SUBSET Int
      BY <2>1
    <2> QED BY <2>2
  <1>4. PICK row \in [Branches -> SUBSET Int] : row = [w.facts[id] EXCEPT ![a] = new]
    BY <1>1
  <1>5. PICK facts \in [Ids -> [Branches -> SUBSET Int]] : facts = [w.facts EXCEPT ![id] = row]
    BY <1>1
  <1>6. facts = [w.facts EXCEPT ![id][a] = w.facts[id][w.cur[id]] \ {w.items}]
    BY <1>1, <1>2, <1>3, <1>4, <1>5
  <1>7. PICK branches \in [Ids -> SUBSET Branches] :
          branches = [w.branches EXCEPT ![id] = @ \cup {a}]
    BY <1>1
  <1>8. PICK cur \in [Ids -> Branches] : cur = [w.cur EXCEPT ![id] = a]
    BY <1>1
  <1>9. x = [w EXCEPT !.cur = cur, !.branches = branches, !.facts = facts]
    BY <1>1, <1>6, <1>7, <1>8 DEF ServerType, Forked
  <1>10. x \in ServerType
    BY <1>1, <1>9 DEF ServerType
  <1>11. /\ x.facts = facts /\ x.branches = branches /\ x.cur = cur
         /\ x.items = w.items /\ x.edited = w.edited /\ x.turn = w.turn
         /\ x.old = w.old /\ x.strays = w.strays
    BY <1>1, <1>9 DEF ServerType
  <1>12. \A i \in Ids : branches[i] = IF i = id THEN w.branches[i] \cup {a} ELSE w.branches[i]
    BY <1>1, <1>7
  <1>13. Named(x) = Named(w) \cup {a}
    <2>1. \A d : d \in Named(x) <=> \E i \in Ids : d \in branches[i]
      BY <1>11 DEF Named
    <2>2. \A d : d \in Named(w) <=> \E i \in Ids : d \in w.branches[i]
      BY DEF Named
    <2>3. \A d : d \in Named(x) <=> d \in Named(w) \cup {a}
      BY <1>12, <2>1, <2>2
    <2> QED BY <2>3
  <1>14. \A i \in Ids, d \in Branches :
           facts[i][d] = IF i = id /\ d = a THEN new ELSE w.facts[i][d]
    <2>1. \A i \in Ids : facts[i] = IF i = id THEN row ELSE w.facts[i]
      BY <1>1, <1>5
    <2>2. \A d \in Branches : row[d] = IF d = a THEN new ELSE w.facts[id][d]
      BY <1>1, <1>4
    <2> QED BY <2>1, <2>2
  <1>15. \A i \in Ids : \A e \in Branches : e \notin Named(w) =>
           \A d \in Branches : w.facts[i][e] \subseteq w.facts[i][d] \cap -w.edited..-1
    BY DEF ServerInv
  <1>16. \A i \in Ids : Facts(w, i) \subseteq Facts(x, i)
    <2>1. ASSUME NEW i \in Ids, NEW d \in Branches, NEW f \in w.facts[i][d]
          PROVE  f \in Facts(x, i)
      <3>1. CASE i = id /\ d = a
        <4>1. f \in w.facts[i][b]
          BY <1>15, <2>1, <3>1
        <4>2. f \in facts[i][b]
          BY <1>2, <1>14, <4>1
        <4> QED BY <1>11, <4>2 DEF Facts
      <3>2. CASE ~(i = id /\ d = a)
        BY <1>11, <1>14, <3>2 DEF Facts
      <3> QED BY <3>1, <3>2
    <2> QED BY <1>11, <2>1 DEF Facts
  <1>17. Grows(w, x)
    BY <1>1, <1>11, <1>13, <1>16 DEF Grows
  <1>18. \A i \in Ids, d \in Branches : facts[i][d] \subseteq -w.edited .. w.items
    <2>1. \A i \in Ids, d \in Branches : w.facts[i][d] \subseteq -w.edited .. w.items
      BY DEF ServerInv
    <2> QED BY <1>3, <1>14, <2>1
  <1>19. ASSUME NEW i \in Ids, NEW e \in Branches, e \notin Named(x), NEW d \in Branches
         PROVE  facts[i][e] \subseteq facts[i][d] \cap -w.edited..-1
    <2>1. e # a /\ e \notin Named(w) /\ facts[i][e] = w.facts[i][e]
      BY <1>13, <1>14, <1>19
    <2>2. w.facts[i][e] \subseteq w.facts[i][d] \cap -w.edited..-1
      BY <1>15, <2>1
    <2>3. CASE i = id /\ d = a
      <3>1. w.facts[i][e] \subseteq w.facts[i][b] \cap -w.edited..-1
        BY <1>15, <2>1
      <3>2. w.items \notin -w.edited..-1
        BY <1>1
      <3>3. facts[i][d] = w.facts[i][b] \ {w.items}
        BY <1>3, <1>14, <2>3
      <3> QED BY <2>1, <3>1, <3>2, <3>3
    <2>4. CASE ~(i = id /\ d = a)
      BY <1>14, <2>1, <2>2, <2>4
    <2> QED BY <2>3, <2>4
  <1>20. \A i \in Ids : /\ cur[i] \in Named(x)
                        /\ w.turn[i] # None => w.turn[i].branch \in Named(x) \cup {None}
    BY <1>1, <1>8, <1>13 DEF ServerInv
  <1>21. Main \in Named(x)
    BY <1>13 DEF ServerInv
  <1>22. ServerInv(x)
    BY <1>10, <1>11, <1>18, <1>19, <1>20, <1>21 DEF ServerInv
  <1> QED BY <1>13, <1>17, <1>22

\* Another branch of a conversation is the current one.
LEMMA SwitchedServer ==
    ASSUME NEW w, ServerInv(w), NEW id \in Ids, NEW a \in Branches, a \in Named(w),
           NEW x,
           x = [w EXCEPT !.cur[id] = a]
    PROVE  ServerInv(x) /\ Grows(w, x) /\ Named(x) = Named(w)
  <1>1. w \in ServerType /\ w.cur \in [Ids -> Branches] /\ w.edited \in Nat
    BY ServerFacts
  <1>2. PICK cur \in [Ids -> Branches] : cur = [w.cur EXCEPT ![id] = a]
    BY <1>1
  <1>3. x \in ServerType
    BY <1>1, <1>2 DEF ServerType
  <1>4. /\ x.facts = w.facts /\ x.branches = w.branches /\ x.cur = cur
        /\ x.items = w.items /\ x.edited = w.edited /\ x.turn = w.turn
        /\ x.old = w.old /\ x.strays = w.strays
    BY <1>1, <1>2 DEF ServerType
  <1>5. Named(x) = Named(w)
    BY <1>4 DEF Named
  <1>6. Grows(w, x)
    BY <1>1, <1>4, <1>5 DEF Grows, Facts
  <1>7. \A i \in Ids : cur[i] \in Named(w)
    BY <1>1, <1>2 DEF ServerInv
  <1>8. ServerInv(x)
    BY <1>3, <1>4, <1>5, <1>7 DEF ServerInv
  <1> QED BY <1>5, <1>6, <1>8

\* What a call does to the server.
LEMMA EffectServer ==
    ASSUME ServerInv(srv), NEW call \in CallType, CallGood(call, srv),
           call.op = "fork" => call.asked \notin Named(srv)
    PROVE  /\ ServerInv(Effect(call)) /\ Grows(srv, Effect(call))
           /\ NamesAfter(srv, Effect(call), call)
  <1>1. call.id \in Ids /\ None \notin Branches
    BY ClientAssumption DEF CallType
  <1>2. CASE call.op = "switch"
    <2>1. call.asked \in Branches /\ call.asked \in Named(srv)
      BY <1>1, <1>2 DEF CallGood
    <2>2. PICK x : x = [srv EXCEPT !.cur[call.id] = call.asked]
      OBVIOUS
    <2>3. ServerInv(x) /\ Grows(srv, x) /\ Named(x) = Named(srv)
      BY <1>1, <2>1, <2>2, SwitchedServer
    <2> QED BY <1>2, <2>2, <2>3 DEF Effect, NamesAfter
  <1>3. CASE call.op = "fork"
    <2>1. call.asked \in Branches /\ call.asked \notin Named(srv)
      BY <1>3 DEF CallGood
    <2>2. PICK x : Forked(srv, x, call.id, call.asked)
      BY DEF Forked
    <2>3. ServerInv(x) /\ Grows(srv, x) /\ Named(x) = Named(srv) \cup {call.asked}
      BY <1>1, <2>1, <2>2, ForkedServer
    <2>4. x = Effect(call)
      BY <1>3, <2>2 DEF Effect, Content, Forked
    <2> QED BY <1>3, <2>3, <2>4 DEF NamesAfter
  <1>4. CASE call.op \notin {"switch", "fork"}
    <2>1. Effect(call) = srv
      BY <1>4 DEF Effect
    <2>2. Grows(srv, srv)
      BY ServerFacts DEF Grows
    <2> QED BY <1>4, <2>1, <2>2 DEF NamesAfter
  <1> QED BY <1>2, <1>3, <1>4

\* What the server answers.
LEMMA ReplyInv ==
    ASSUME ServerInv(srv), NEW call \in CallType, CallGood(call, srv),
           call.op = "fork" => call.asked \notin Named(srv),
           NEW q, q.op = call.op, q.id = call.id, q.reply = Reply(call)
    PROVE  ReplyGood(q, Effect(call)) /\ Reply(call) \in ViewType \cup Branches \cup Nat \cup {None}
  <1>1. /\ call.id \in Ids /\ None \notin Branches /\ srv.edited \in Nat
        /\ srv.cur[call.id] \in Branches /\ srv.cur[call.id] \in Named(srv)
        /\ Named(srv) \subseteq Branches /\ srv.facts \in [Ids -> [Branches -> SUBSET Int]]
    BY ClientAssumption, ServerFacts DEF CallType
  <1>2. Grows(srv, Effect(call)) /\ NamesAfter(srv, Effect(call), call)
    BY EffectServer
  <1>3. CASE call.op \in Fetches \ {"older"}
    <2>1. call.asked \in Branches \cup {None}
      BY DEF CallType
    <2>2. PICK b \in Branches : b = IF call.asked = None THEN srv.cur[call.id] ELSE call.asked
      BY <1>1, <2>1
    <2>3. PICK v \in ViewType : v = View(call.id, srv.cur[call.id], srv.facts[call.id][b])
      BY <1>1 DEF View, ViewType
    <2>4. /\ v.id = call.id /\ v.branch = srv.cur[call.id]
          /\ v.has = srv.facts[call.id][b]
      BY <2>3 DEF View
    <2>5. Good(v, srv)
      BY <1>1, <2>4 DEF Good, Facts
    <2>6. Good(v, Effect(call))
      BY <1>2, <2>5, GoodGrows
    <2>7. Reply(call) = v
      BY <1>3, <2>2, <2>3 DEF Reply, Content, Fetches
    <2> QED BY <1>3, <2>4, <2>6, <2>7 DEF ReplyGood, Fetches
  <1>4. CASE call.op = "branches"
    BY <1>1, <1>2, <1>4 DEF Reply, ReplyGood, Fetches, NamesAfter
  <1>5. CASE call.op = "switch"
    BY <1>1, <1>2, <1>5 DEF Reply, ReplyGood, Fetches, NamesAfter, CallGood
  <1>6. CASE call.op = "fork"
    BY <1>1, <1>2, <1>6 DEF Reply, ReplyGood, Fetches, NamesAfter, CallGood
  <1>7. CASE call.op = "poll"
    <2>1. Effect(call) = srv /\ Reply(call) = srv.edited
      BY <1>7 DEF Effect, Reply
    <2> QED BY <1>1, <1>7, <2>1 DEF ReplyGood, Fetches
  <1>8. CASE call.op = "older"
    <2>1. srv.old[call.id] \in SUBSET Int
      BY <1>1, ServerFacts DEF ServerType
    <2>2. PICK v \in ViewType : v = View(call.id, srv.cur[call.id], srv.old[call.id])
      BY <1>1, <2>1 DEF View, ViewType
    <2>3. v.id = call.id /\ v.branch = srv.cur[call.id] /\ v.has = srv.old[call.id]
      BY <2>2 DEF View
    <2>4. Good(v, srv)
      BY <1>1, <2>3 DEF Good, Facts
    <2>5. Good(v, Effect(call))
      BY <1>2, <2>4, GoodGrows
    <2>6. Reply(call) = v
      BY <1>8, <2>2 DEF Reply
    <2> QED BY <1>8, <2>3, <2>5, <2>6 DEF ReplyGood, Fetches
  <1> QED BY <1>3, <1>4, <1>5, <1>6, <1>7, <1>8 DEF CallType, Ops, Fetches

\* A call is served.
LEMMA ServeInv ==
    ASSUME NEW uses, ChatInv(uses), NEW i \in DOMAIN c.calls, Serve(i)
    PROVE  ChatInv(uses)'
  <1>1. PICK call \in CallType : call = c.calls[i] /\ CallGood(call, srv) /\ call.state = "asked"
    BY DEF ChatInv, Inv, ClientType, CallsGood, Serve
  <1>2. /\ ServerInv(srv) /\ Inv(uses, c, srv) /\ c \in ClientType /\ c.calls \in Seq(CallType)
        /\ ForksGood(c.calls, srv)
    BY DEF ChatInv, Inv, ClientType
  <1>3. PICK q0 \in CallType : q0 = [call EXCEPT !.state = "refused"]
    BY DEF CallType
  <1>4. /\ q0.op = call.op /\ q0.asked = call.asked /\ q0.was = call.was
        /\ q0.id = call.id /\ q0.state = "refused"
    BY <1>3 DEF CallType
  <1>5. CallGood(q0, srv)
    BY <1>1, <1>4 DEF CallGood
  <1>6. PICK k : k = [c EXCEPT !.calls[i] = q0] /\ Inv(uses, k, srv)
    BY <1>1, <1>2, <1>4, <1>5, RecallInv
  <1>7. k = [c EXCEPT !.calls[i].state = "refused"]
    BY <1>1, <1>2, <1>3, <1>6 DEF ClientType
  <1>8. net' = net
    BY DEF Serve
  <1>9. CASE /\ srv' = Effect(call) /\ UNCHANGED left
             /\ c' = [c EXCEPT !.calls[i].state = "answered", !.calls[i].reply = Reply(call)]
    <2>1. call.op = "fork" => call.asked \notin Named(srv)
      BY <1>1, <1>2 DEF ForksGood, Forks
    <2>2. PICK x : /\ x = Effect(call) /\ ServerInv(x) /\ Grows(srv, x)
                   /\ NamesAfter(srv, x, call)
      BY <1>1, <1>2, <2>1, EffectServer
    <2>3. [call EXCEPT !.state = "answered", !.reply = Reply(call)] \in CallType
      <3>1. Reply(call) \in ViewType \cup Branches \cup Nat \cup {None}
        <4>1. PICK q : q = [op |-> call.op, id |-> call.id, reply |-> Reply(call)]
          OBVIOUS
        <4>2. q.op = call.op /\ q.id = call.id /\ q.reply = Reply(call)
          BY <4>1
        <4> QED BY <1>1, <1>2, <2>1, <4>2, ReplyInv
      <3>2. PICK reply \in ViewType \cup Branches \cup Nat \cup {None} : reply = Reply(call)
        BY <3>1
      <3>3. [call EXCEPT !.state = "answered", !.reply = reply] \in CallType
        BY DEF CallType
      <3> QED BY <3>2, <3>3
    <2>4. PICK q \in CallType : q = [call EXCEPT !.state = "answered", !.reply = Reply(call)]
      BY <2>3
    <2>5. /\ q.op = call.op /\ q.asked = call.asked /\ q.was = call.was
          /\ q.id = call.id /\ q.state = "answered" /\ q.reply = Reply(call)
      BY <2>4 DEF CallType
    <2>6. ReplyGood(q, x)
      BY <1>1, <1>2, <2>1, <2>2, <2>5, ReplyInv
    <2>7. CallGood(q, x)
      BY <1>1, <2>2, <2>5, <2>6 DEF CallGood, Grows
    <2>8. /\ DOMAIN k.calls = DOMAIN c.calls /\ k.calls[i] = q0
          /\ \A j \in DOMAIN c.calls : j # i => k.calls[j] = c.calls[j]
      BY <1>2, <1>6 DEF ClientType
    <2>9. ForksGood(k.calls, x)
      <3>1. ASSUME NEW j \in Forks(k.calls), k.calls[j].state = "asked"
            PROVE  k.calls[j].asked \notin Named(x)
        <4>1. j # i /\ j \in Forks(c.calls) /\ k.calls[j] = c.calls[j]
          BY <1>4, <2>8, <3>1 DEF Forks
        <4>2. k.calls[j].asked \notin Named(srv)
          BY <1>2, <3>1, <4>1 DEF ForksGood
        <4>3. call.op = "fork" => c.calls[j].asked # call.asked
          BY <1>1, <1>2, <4>1 DEF ForksGood, Forks
        <4> QED BY <2>2, <4>1, <4>2, <4>3 DEF NamesAfter
      <3> QED BY <1>6, <3>1 DEF Inv, ForksGood
    <2>10. Inv(uses, k, x)
      BY <1>2, <1>6, <2>2, <2>9, GrowInv, ServerFacts
    <2>11. i \in DOMAIN k.calls /\ k.calls[i].op = q.op /\ k.calls[i].asked = q.asked
      BY <1>4, <2>5, <2>8
    <2>12. Inv(uses, [k EXCEPT !.calls[i] = q], x)
      BY <2>5, <2>7, <2>10, <2>11, RecallInv
    <2>13. c' = [k EXCEPT !.calls[i] = q]
      BY <1>1, <1>2, <1>6, <1>9, <2>4 DEF ClientType
    <2> QED BY <1>8, <1>9, <2>2, <2>12, <2>13 DEF ChatInv, Inv, ServerInv
  <1>10. CASE c' = k /\ UNCHANGED <<srv, left>>
    BY <1>6, <1>8, <1>10 DEF ChatInv
  <1>11. CASE c' = k /\ May("failures") /\ Once("failures") /\ UNCHANGED srv
    <2>1. left' \in [Bounded -> Nat] /\ (uses = 0 => left'["clicks"] = 0)
      BY <1>11, OnceInv DEF ChatInv, Bounded
    <2> QED BY <1>6, <1>8, <1>11, <2>1 DEF ChatInv
  <1> QED BY <1>1, <1>7, <1>9, <1>10, <1>11 DEF Serve

\* What strays with an answer is noted.
LEMMA StrayedServer ==
    ASSUME NEW uses, Inv(uses, c, srv), ServerInv(srv), NEW call \in CallType,
           CallGood(call, srv), call.state = "answered"
    PROVE  /\ ServerInv(Strayed(call)) /\ Grows(srv, Strayed(call))
           /\ Keeps(uses, srv, Strayed(call))
           /\ call.op = "older" /\ c.thread # None /\ c.thread.id # call.id =>
                 call.reply.has \subseteq Strayed(call).strays[c.thread.id]
  <1>1. srv \in ServerType /\ srv.edited \in Nat /\ srv.strays \in [Ids -> SUBSET Int]
    BY ServerFacts DEF ServerType
  <1>2. CASE call.op = "older" /\ c.thread # None /\ c.thread.id # call.id
    <2>1. call.reply.has \in SUBSET Int
      BY <1>2 DEF CallGood, ReplyGood, Good, ViewType, Fetches
    <2>a. c.thread.id \in Ids
      BY <1>2 DEF Inv, Screen, Good, ViewType
    <2>b. PICK has \in SUBSET Int : has = srv.strays[c.thread.id] \cup call.reply.has
      BY <1>1, <2>1, <2>a
    <2>2. PICK strays \in [Ids -> SUBSET Int] : strays = [srv.strays EXCEPT ![c.thread.id] = has]
      BY <1>1, <2>a, <2>b
    <2>3. PICK x \in ServerType : x = [srv EXCEPT !.strays = strays]
      BY <1>1 DEF ServerType
    <2>4. /\ x.facts = srv.facts /\ x.branches = srv.branches /\ x.cur = srv.cur
          /\ x.items = srv.items /\ x.edited = srv.edited /\ x.turn = srv.turn
          /\ x.old = srv.old /\ x.strays = strays
      BY <1>1, <2>3 DEF ServerType
    <2>5. x = Strayed(call)
      BY <1>1, <1>2, <2>b, <2>2, <2>3 DEF Strayed, ServerType
    <2>6. srv.edited <= x.edited /\ x.edited \in Nat
          /\ \A id \in Ids : srv.strays[id] \subseteq x.strays[id]
      BY <1>1, <2>a, <2>b, <2>2, <2>4
    <2>7. Named(x) = Named(srv) /\ Grows(srv, x) /\ Keeps(uses, srv, x)
      BY <2>4, <2>6, SameNames
    <2>8. ServerInv(x)
      BY <2>4, <2>7 DEF ServerInv
    <2>9. call.reply.has \subseteq x.strays[c.thread.id]
      BY <1>1, <2>a, <2>b, <2>2, <2>4
    <2> QED BY <2>5, <2>7, <2>8, <2>9
  <1>3. CASE ~(call.op = "older" /\ c.thread # None /\ c.thread.id # call.id)
    <2>1. Strayed(call) = srv
      BY <1>3 DEF Strayed
    <2>2. Grows(srv, srv) /\ Keeps(uses, srv, srv)
      BY <1>1 DEF Grows, Keeps
    <2> QED BY <1>3, <2>1, <2>2
  <1> QED BY <1>2, <1>3

\* An answer reaches the client.
LEMMA ReturnInv ==
    ASSUME NEW uses, ChatInv(uses), NEW i \in DOMAIN c.calls, Return(i)
    PROVE  ChatInv(uses)'
  <1>1. /\ Inv(uses, c, srv) /\ ServerInv(srv) /\ Main \in Named(srv) /\ srv.edited \in Nat
        /\ 0 <= srv.edited /\ Named(srv) \subseteq Branches
    BY ServerFacts DEF ChatInv
  <1>2. PICK call \in CallType : /\ call = c.calls[i] /\ CallGood(call, srv)
                                 /\ call.state # "asked"
    BY <1>1 DEF Inv, ClientType, CallsGood, Return
  <1>3. PICK k : k = Dropped(c, i) /\ Inv(uses, k, srv) /\ KeepsStreams(c, k)
    BY <1>1, DroppedInv
  <1>4. call.op \in {"fork", "rewrite"} => Free(k) # {}
    BY <1>2, <1>3, SameFree DEF Return, Room
  <1>5. CASE call.state # "refused"
    <2>1. call.state = "answered"
      BY <1>2, <1>5 DEF CallType
    <2>2. PICK x : /\ x = Strayed(call) /\ ServerInv(x) /\ Grows(srv, x) /\ Keeps(uses, srv, x)
                   /\ call.op = "older" /\ c.thread # None /\ c.thread.id # call.id =>
                         call.reply.has \subseteq x.strays[c.thread.id]
      BY <1>1, <1>2, <2>1, StrayedServer
    <2>3. x.edited \in Nat /\ Named(x) \subseteq Branches /\ Main \in Named(x) /\ 0 <= x.edited
      BY <2>2, ServerFacts
    <2>4. CallGood(call, x) /\ Inv(uses, k, x) /\ Inv(uses, c, x)
      BY <1>1, <1>2, <1>3, <2>2, <2>3, CallGrows DEF Keeps
    <2>5. k.thread = c.thread
      BY <1>1, <1>3 DEF Dropped, Inv, ClientType
    <2>6. Inv(uses, Answered(k, call), x)
      BY <1>4, <2>1, <2>2, <2>3, <2>4, <2>5, AnsweredInv
    <2>7. Client(Answered(k, call)) /\ srv' = x /\ UNCHANGED <<left, net>>
      BY <1>2, <1>3, <1>5, <2>2 DEF Return
    <2>8. Inv(uses, c', x)
      BY <2>3, <2>4, <2>6, <2>7, ClientInv
    <2>9. Inv(uses, c', srv') /\ ServerInv(srv')
      BY <2>2, <2>7, <2>8
    <2> QED BY <2>7, <2>9 DEF ChatInv
  <1>6. CASE call.state = "refused"
    <2>1. Refused(k, call) /\ UNCHANGED srv
      BY <1>2, <1>3, <1>6 DEF Return
    <2>2. CASE call.op = "load"
      <3>1. c' = OnThreadNotFound(k)
        BY <2>1, <2>2 DEF Refused
      <3>2. Inv(uses, c', srv)
        BY <1>1, <1>3, <3>1, OnThreadNotFoundInv
      <3> QED BY <2>1, <3>2 DEF ChatInv, Return
    <2>3. CASE call.op = "switch"
      <3>1. call.was \in Branches /\ call.was \in Named(srv)
        BY <1>2 DEF CallType, CallGood
      <3>2. Inv(uses, [k EXCEPT !.current = call.was], srv)
        BY <1>3, <3>1, NowCurrentInv
      <3>3. Client([k EXCEPT !.current = call.was])
        BY <2>1, <2>3 DEF Refused
      <3>4. Inv(uses, c', srv)
        BY <1>1, <3>2, <3>3, ClientInv
      <3> QED BY <2>1, <3>4 DEF ChatInv, Return
    <2>4. CASE call.op \notin {"load", "switch"}
      <3>1. Inv(uses, Broken(k, call), srv)
        BY <1>1, <1>3, <1>4, BrokenInv
      <3>2. Client(Broken(k, call))
        BY <2>1, <2>4 DEF Refused
      <3>3. Inv(uses, c', srv)
        BY <1>1, <3>1, <3>2, ClientInv
      <3> QED BY <2>1, <3>3 DEF ChatInv, Return
    <2> QED BY <2>2, <2>3, <2>4
  <1> QED BY <1>5, <1>6

\* What a replaced instance asked for does not exist.
LEMMA LateNotFoundInv ==
    ASSUME NEW uses, ChatInv(uses), NEW id \in Ids, LateNotFound(id)
    PROVE  ChatInv(uses)'
  <1>1. /\ Inv(uses, c, srv) /\ c \in ClientType /\ c.orphans \ {id} \in SUBSET Ids
        /\ Main \in Named(srv) /\ 0 <= srv.edited
    BY ServerFacts DEF ChatInv, Inv, ClientType
  <1>2. PICK r \in ClientType : r = [c EXCEPT !.orphans = @ \ {id}]
    BY <1>1 DEF ClientType
  <1>3. Same(c, r)
    BY <1>1, <1>2 DEF ClientType, Same
  <1>4. Inv(uses, OnThreadNotFound(r), srv)
    BY <1>1, <1>3, SameInv, OnThreadNotFoundInv
  <1> QED BY <1>2, <1>4 DEF ChatInv, LateNotFound

\* A call fails.
LEMMA CallFailsInv ==
    ASSUME NEW uses, ChatInv(uses), NEW i \in DOMAIN c.calls, CallFails(i)
    PROVE  ChatInv(uses)'
  <1>1. Inv(uses, c, srv) /\ ServerInv(srv) /\ Main \in Named(srv)
    BY ServerFacts DEF ChatInv
  <1>2. PICK call \in CallType : call = c.calls[i]
    BY <1>1 DEF Inv, ClientType
  <1>3. PICK k : k = Dropped(c, i) /\ Inv(uses, k, srv) /\ KeepsStreams(c, k)
    BY <1>1, DroppedInv
  <1>4. call.op = "rewrite" => Free(k) # {}
    BY <1>2, <1>3, SameFree DEF CallFails, Room
  <1>5. Inv(uses, Broken(k, call), srv)
    BY <1>1, <1>3, <1>4, BrokenInv
  <1>6. Client(Broken(k, call))
    BY <1>2, <1>3 DEF CallFails
  <1>7. Inv(uses, c', srv)
    BY <1>1, <1>5, <1>6, ClientInv
  <1>8. left' \in [Bounded -> Nat] /\ (uses = 0 => left'["clicks"] = 0)
    BY OnceInv DEF ChatInv, CallFails, Bounded
  <1> QED BY <1>7, <1>8 DEF ChatInv, CallFails

\* The poll is sent.
LEMMA PollInv ==
    ASSUME NEW uses, ChatInv(uses), Poll
    PROVE  ChatInv(uses)'
  <1>1. c.thread.id \in Ids
    BY DEF ChatInv, Inv, Screen, Good, ViewType, Poll
  <1>2. Askable(c, "poll", c.thread.id, None, srv)
    BY <1>1 DEF Askable, Ops
  <1>3. Inv(uses, Ask(c, "poll", c.thread.id, None), srv)
    BY <1>2, AskInv DEF ChatInv
  <1> QED BY <1>3 DEF ChatInv, Poll

-----------------------------------------------------------------------------
(* Streams                                                                 *)

\* k is the client without the oldest event e of a stream.
Heard(uses, k, s, e) ==
    /\ k = [c EXCEPT !.streams[s].inbox = Tail(@)] /\ Inv(uses, k, srv)
    /\ e \in EventType /\ e = c.streams[s].inbox[1]
    /\ EventGood(e, k.streams[s], srv) /\ k.streams[s].kind # "none"
    /\ k.streams[s] = [c.streams[s] EXCEPT !.inbox = Tail(@)]
    /\ \A r \in Streams \ {s} : k.streams[r] = c.streams[r]

\* What arrives.
LEMMA ReceivedEvent ==
    ASSUME NEW uses, ChatInv(uses), NEW s \in Streams, Receive(s)
    PROVE  \E k, e : Heard(uses, k, s, e) /\ Client(Event(k, s, e))
  <1>1. Inv(uses, c, srv) /\ Main \in Named(srv) /\ c \in ClientType
    BY ServerFacts DEF ChatInv, Inv
  <1>2. PICK st \in StreamType : st = c.streams[s] /\ StreamGood(uses, st, srv) /\ st.inbox # <<>>
    BY <1>1 DEF Inv, ClientType, StreamsGood, Receive
  <1>3. st.kind # "none" /\ st.inbox \in Seq(EventType)
    BY <1>2 DEF StreamGood, StreamType
  <1>4. /\ Head(st.inbox) \in EventType /\ Tail(st.inbox) \in Seq(EventType)
        /\ Len(Tail(st.inbox)) = Len(st.inbox) - 1
        /\ \A i \in 1 .. Len(Tail(st.inbox)) : Tail(st.inbox)[i] = st.inbox[i + 1]
    BY <1>2, <1>3, HeadTailProperties
  <1>5. PICK rest \in Seq(EventType) : rest = Tail(st.inbox)
    BY <1>4
  <1>6. /\ Len(st.inbox) \in Nat /\ DOMAIN st.inbox = 1 .. Len(st.inbox)
        /\ DOMAIN rest = 1 .. Len(rest) /\ Len(rest) = Len(st.inbox) - 1
    BY <1>3, <1>4, <1>5
  <1>7. \A i \in DOMAIN rest : EventGood(rest[i], st, srv)
    <2>1. ASSUME NEW i \in DOMAIN rest
          PROVE  i + 1 \in DOMAIN st.inbox /\ rest[i] = st.inbox[i + 1]
      BY <1>4, <1>5, <1>6
    <2> QED BY <1>2, <2>1 DEF StreamGood
  <1>8. EventGood(Head(st.inbox), st, srv)
    <2>1. 1 \in DOMAIN st.inbox /\ Head(st.inbox) = st.inbox[1]
      BY <1>2, <1>3
    <2> QED BY <1>2, <2>1 DEF StreamGood
  <1>9. PICK z \in StreamType : z = [st EXCEPT !.inbox = rest]
    BY DEF StreamType
  <1>10. /\ z.asked = st.asked /\ z.kind = st.kind /\ z.target = st.target
         /\ z.hears = st.hears /\ z.first = st.first /\ z.key = st.key /\ z.view = st.view
         /\ z.inbox = rest /\ z.got = st.got
    BY <1>9 DEF StreamType
  <1>11. StreamGood(uses, z, srv)
    BY <1>2, <1>3, <1>7, <1>10 DEF StreamGood, Keyed, EventGood, About
  <1>12. PICK k : k = [c EXCEPT !.streams[s] = z] /\ Inv(uses, k, srv)
    BY <1>1, <1>11, StreamInv
  <1>13. k.streams[s] = z
    BY <1>1, <1>12 DEF ClientType
  <1>14. k = [c EXCEPT !.streams[s].inbox = Tail(@)]
    BY <1>1, <1>2, <1>5, <1>9, <1>12 DEF ClientType
  <1>15. EventGood(Head(st.inbox), k.streams[s], srv) /\ k.streams[s].kind # "none"
    BY <1>3, <1>8, <1>10, <1>13 DEF EventGood
  <1>16. Client(Event(k, s, Head(st.inbox)))
    BY <1>2, <1>14 DEF Receive
  <1>17. Head(st.inbox) = st.inbox[1]
    BY <1>2, <1>3
  <1>18. /\ k.streams[s] = [c.streams[s] EXCEPT !.inbox = Tail(@)]
         /\ \A r \in Streams \ {s} : k.streams[r] = c.streams[r]
    BY <1>1, <1>2, <1>5, <1>9, <1>12 DEF ClientType, StreamType
  <1>19. Heard(uses, k, s, Head(st.inbox))
    BY <1>2, <1>4, <1>12, <1>14, <1>15, <1>17, <1>18 DEF Heard
  <1> QED BY <1>16, <1>19

\* An event arrives.
LEMMA ReceiveInv ==
    ASSUME NEW uses, ChatInv(uses), NEW s \in Streams, Receive(s)
    PROVE  ChatInv(uses)'
  <1>1. Main \in Named(srv)
    BY ServerFacts DEF ChatInv
  <1>2. PICK k, e : Heard(uses, k, s, e) /\ Client(Event(k, s, e))
    BY ReceivedEvent
  <1>3. Inv(uses, Event(k, s, e), srv)
    BY <1>1, <1>2, StreamEventInv DEF Heard
  <1>4. Inv(uses, c', srv)
    BY <1>1, <1>2, <1>3, ClientInv
  <1> QED BY <1>4 DEF ChatInv, Receive

\* An aborted stream ends.
LEMMA AbortInv ==
    ASSUME NEW uses, ChatInv(uses), NEW s \in Streams, Abort(s)
    PROVE  ChatInv(uses)'
  <1>1. Inv(uses, Finally(c, s), srv)
    BY FinallyInv DEF ChatInv
  <1>2. Inv(uses, c', srv)
    BY <1>1, ClientInv, ServerFacts DEF ChatInv, Abort
  <1> QED BY <1>2 DEF ChatInv, Abort

\* A stream fails.
LEMMA StreamFailsInv ==
    ASSUME NEW uses, ChatInv(uses), NEW s \in Streams, StreamFails(s)
    PROVE  ChatInv(uses)'
  <1>1. Inv(uses, Over(c, s), srv) /\ Inv(uses, Finally(c, s), srv)
    BY OverInv, FinallyInv DEF ChatInv
  <1>2. Inv(uses, c', srv)
    BY <1>1, ClientInv, ServerFacts DEF ChatInv, StreamFails
  <1>3. left' \in [Bounded -> Nat] /\ (uses = 0 => left'["clicks"] = 0)
    BY OnceInv DEF ChatInv, StreamFails, Bounded
  <1> QED BY <1>2, <1>3 DEF ChatInv, StreamFails

\* A turn waits for the user of a widget.
LEMMA AwaitActionInv ==
    ASSUME NEW uses, ChatInv(uses), NEW s \in Streams, AwaitAction(s)
    PROVE  ChatInv(uses)'
  <1>1. PICK id : Client(NotLoading(c, id))
    BY DEF AwaitAction
  <1>2. Inv(uses, NotLoading(c, id), srv)
    BY NotLoadingInv DEF ChatInv
  <1>3. Inv(uses, c', srv)
    BY <1>1, <1>2, ClientInv, ServerFacts DEF ChatInv
  <1>4. left' \in [Bounded -> Nat] /\ (uses = 0 => left'["clicks"] = 0)
    BY OnceInv DEF ChatInv, AwaitAction, Bounded
  <1> QED BY <1>3, <1>4 DEF ChatInv, AwaitAction

\* The streams of instances that were replaced are aborted.
LEMMA UnmountTimeoutInv ==
    ASSUME NEW uses, ChatInv(uses), UnmountTimeout
    PROVE  ChatInv(uses)'
  <1>1. c \in ClientType /\ StreamsGood(uses, c.streams, srv) /\ <<>> \in Seq(EventType)
    BY DEF ChatInv, Inv
  <1>2. NoStream \in StreamType /\ StreamGood(uses, NoStream, srv)
    BY <1>1 DEF NoStream, StreamType, StreamGood
  <1>3. PICK streams : streams = [s \in Streams |->
            IF c.streams[s].dead /\ c.streams[s].kind # "click" THEN NoStream ELSE c.streams[s]]
    OBVIOUS
  <1>4. streams \in [Streams -> StreamType] /\ StreamsGood(uses, streams, srv)
    BY <1>1, <1>2, <1>3 DEF StreamsGood, ClientType
  <1>5. PICK r \in ClientType : r = [c EXCEPT !.streams = streams]
    BY <1>1, <1>4 DEF ClientType
  <1>6. /\ r.thread = c.thread /\ r.visible = c.visible /\ r.cache = c.cache
        /\ r.streams = streams /\ r.calls = c.calls
        /\ r.ref = c.ref /\ r.current = c.current /\ r.since = c.since
    BY <1>1, <1>5 DEF ClientType
  <1>7. Inv(uses, r, srv)
    BY <1>4, <1>6 DEF ChatInv, Inv, Names, Screen
  <1>8. c' = r
    BY <1>3, <1>5 DEF UnmountTimeout
  <1> QED BY <1>7, <1>8 DEF ChatInv, UnmountTimeout

-----------------------------------------------------------------------------
(* The theorems                                                            *)

\* The window is opened in one of the situations of Starts.
LEMMA InitInv ==
    ASSUME NEW uses, Init, uses = 0 => left["clicks"] = 0
    PROVE  ChatInv(uses)
  <1>1. PICK start \in Starts :
          /\ c = IF start.wanted = None THEN Instance(None, 1)
                 ELSE Load(Instance(start.wanted, 1))
          /\ srv = [exists |-> [id \in Ids |-> id \in start.exists],
                    branches |-> [id \in Ids |->
                        IF id \in start.exists THEN start.branches ELSE {Main}],
                    cur |-> start.cur, facts |-> NoFacts, edited |-> 0,
                    items |-> start.items, old |-> start.old, strays |-> [id \in Ids |-> {}],
                    turn |-> [id \in Ids |-> IF id \in start.running THEN Turn(None) ELSE None]]
          /\ left = start.left /\ net = start.net
    BY DEF Init
  <1>2. /\ start.wanted \in Ids \cup {None} /\ start.branches \in SUBSET Branches
        /\ start.cur \in [Ids -> Branches] /\ start.left \in [Bounded -> Nat]
        /\ start.items \in Nat /\ start.old \in [Ids -> SUBSET Nat]
        /\ start.net \in {"reliable", "wild"} /\ Main \in start.branches /\ Main \in Branches
        /\ \A id \in Ids :
             start.cur[id] \in IF id \in start.exists THEN start.branches ELSE {Main}
    BY StartsAssumption, ClientAssumption DEF Situation
  <1>3. [branch |-> None, items |-> 0] \in [branch : Branches \cup {None}, items : Nat]
    OBVIOUS
  <1>4. /\ srv.branches = [id \in Ids |-> IF id \in start.exists THEN start.branches ELSE {Main}]
        /\ srv.cur = start.cur /\ srv.facts = NoFacts /\ srv.items \in Nat /\ srv.edited = 0
        /\ srv.turn = [id \in Ids |-> IF id \in start.running THEN Turn(None) ELSE None]
    BY <1>1, <1>2
  <1>5. /\ [id \in Ids |-> id \in start.exists] \in [Ids -> BOOLEAN]
        /\ srv.branches \in [Ids -> SUBSET Branches]
        /\ srv.turn \in [Ids -> [branch : Branches \cup {None}, items : Nat] \cup {None}]
        /\ srv.facts \in [Ids -> [Branches -> SUBSET Int]]
    BY <1>2, <1>3, <1>4 DEF Turn, NoFacts
  <1>6. srv \in ServerType
    BY <1>1, <1>2, <1>4, <1>5 DEF ServerType
  <1>7. Born \in Ids
    BY DEF Ids
  <1>8. Main \in Named(srv)
    BY <1>2, <1>4, <1>7 DEF Named
  <1>9. \A id \in Ids : srv.cur[id] \in Named(srv)
    <2>1. \A id \in Ids : srv.cur[id] \in srv.branches[id]
      BY <1>2, <1>4
    <2> QED BY <2>1 DEF Named
  <1>10. \A id \in Ids : srv.turn[id] # None => srv.turn[id].branch \in Named(srv) \cup {None}
    BY <1>4 DEF Turn
  <1>11. \A id \in Ids, b \in Branches : srv.facts[id][b] = {}
    BY <1>4 DEF NoFacts
  <1>12. ServerInv(srv)
    BY <1>6, <1>8, <1>9, <1>10, <1>11 DEF ServerInv
  <1>13. 0 <= srv.edited /\ 1 \in Nat /\ None \in Ids \cup {None}
    BY <1>4
  <1>14. Inv(uses, Instance(None, 1), srv) /\ Inv(uses, Instance(start.wanted, 1), srv)
    BY <1>2, <1>8, <1>13, InstanceInv
  <1>15. Inv(uses, c, srv)
    BY <1>1, <1>14, LoadInv
  <1> QED BY <1>1, <1>2, <1>12, <1>15 DEF ChatInv

\* Every step keeps the invariant.
LEMMA NextInv ==
    ASSUME NEW uses, ChatInv(uses), [Next]_vars
    PROVE  ChatInv(uses)'
  <1>1. CASE SendUserMessage
    BY <1>1, SendUserMessageInv
  <1>2. CASE NewConversation
    BY <1>2, NewConversationInv
  <1>3. CASE NewThread
    BY <1>3, NewThreadInv
  <1>4. CASE Focus
    BY <1>4, FocusInv
  <1>5. CASE CustomAction
    BY <1>5, CustomActionInv
  <1>6. CASE LiveEdit \/ LoadOlder
    BY <1>6, LiveEditInv, LoadOlderInv
  <1>7. CASE \E id \in Ids : ThreadSelect(id)
    BY <1>7, ThreadSelectInv
  <1>8. CASE \E b \in Branches : SwitchBranch(b) \/ EditMessage(b)
    BY <1>8, SwitchBranchInv, EditMessageInv
  <1>9. CASE \E s \in Streams : StreamFails(s) \/ AwaitAction(s)
    BY <1>9, StreamFailsInv, AwaitActionInv
  <1>10. CASE \E i \in DOMAIN c.calls : CallFails(i)
    BY <1>10, CallFailsInv
  <1>11. CASE System
    <2>1. CASE Poll
      BY <2>1, PollInv
    <2>2. CASE UnmountTimeout
      BY <2>2, UnmountTimeoutInv
    <2>3. CASE \E id \in Ids : Produce(id) \/ LateNotFound(id)
      BY <2>3, ProduceInv, LateNotFoundInv
    <2>4. CASE \E s \in Streams : Accept(s) \/ Receive(s) \/ Abort(s)
      BY <2>4, AcceptInv, ReceiveInv, AbortInv
    <2>5. CASE \E i \in DOMAIN c.calls : Serve(i) \/ Return(i)
      BY <2>5, ServeInv, ReturnInv
    <2> QED BY <1>11, <2>1, <2>2, <2>3, <2>4, <2>5 DEF System
  <1>12. CASE UNCHANGED vars
    BY <1>12 DEF vars, ChatInv, Inv, ServerInv
  <1> QED BY <1>1, <1>2, <1>3, <1>4, <1>5, <1>6, <1>7, <1>8, <1>9, <1>10, <1>11, <1>12 DEF Next

\* The invariant holds of the window in whatever situation it is opened, however
\* many streams and calls are under way.
THEOREM Invariance == Spec => []ChatInv(1)
  <1>1. Init => ChatInv(1)
    BY InitInv
  <1>2. ChatInv(1) /\ [Next]_vars => ChatInv(1)'
    BY NextInv
  <1> QED BY <1>1, <1>2, PTL DEF Spec

\* The window's and the server's state always have their types.
THEOREM TypeCorrect == Spec => []TypeOK
  <1>1. ASSUME ChatInv(1)
        PROVE  TypeOK
    <2>1. c \in ClientType /\ srv \in ServerType /\ srv.edited \in Nat
      BY <1>1, ServerFacts DEF ChatInv, Inv
    <2>2. \A x \in DOMAIN c.cache : x \in Keys /\ c.cache[x] \in ViewType /\ c.cache[x].id = x[1]
      <3>1. c.cache \in Caches /\ CacheGood(c.cache, srv)
        BY <1>1, <2>1 DEF ClientType, ChatInv, Inv, Screen
      <3>2. DOMAIN c.cache \subseteq Keys /\ \A x \in DOMAIN c.cache : c.cache[x] \in ViewType
        BY <3>1, MapFacts DEF Caches
      <3> QED BY <3>1, <3>2 DEF CacheGood
    <2>3. \A x \in DOMAIN c.controllers : x \in Keys /\ c.controllers[x] \in Streams \cup {None}
      <3>1. c.controllers \in Controllers
        BY <2>1 DEF ClientType
      <3> QED BY <3>1, MapFacts DEF Controllers
    <2>4. c.since \in 0..srv.edited
      BY <1>1, <2>1 DEF ChatInv, Inv, Names, ClientType
    <2>5. \A i \in DOMAIN c.calls : /\ c.calls[i].id \in Ids /\ c.calls[i].was \in Branches
                                    /\ c.calls[i].asked \in Branches \cup {None}
      <3>1. c.calls \in Seq(CallType)
        BY <2>1 DEF ClientType
      <3>2. \A i \in DOMAIN c.calls : c.calls[i] \in CallType
        BY <3>1
      <3> QED BY <3>2 DEF CallType
    <2> QED BY <1>1, <2>1, <2>2, <2>3, <2>4, <2>5 DEF TypeOK, ClientType, ChatInv
  <1> QED BY <1>1, Invariance, PTL

\* No conversation shows or caches an item of another, whatever streams, refreshes,
\* switches and edits overlap, and whatever the network loses, but for older items
\* that came when the conversation they were asked for was not the one on the screen.
THEOREM NoForeign == Spec => []NoForeignItem
  <1>1. ASSUME ChatInv(1)
        PROVE  NoForeignItem
    BY <1>1 DEF ChatInv, Inv, Screen, CacheGood, Good, Facts, NoForeignItem, Holds, Content
  <1> QED BY <1>1, Invariance, PTL

\* Where the users may use no widget, the conversation on the screen is always the
\* one that the next message goes to.
THEOREM ScreenIsVisible == Spec /\ left["clicks"] = 0 => []ShownIsVisible
  <1>1. Init /\ left["clicks"] = 0 => ChatInv(0)
    BY InitInv
  <1>2. ChatInv(0) /\ [Next]_vars => ChatInv(0)'
    BY NextInv
  <1>3. ChatInv(0) => ShownIsVisible
    BY DEF ChatInv, Inv, Screen, ShownIsVisible
  <1> QED BY <1>1, <1>2, <1>3, PTL DEF Spec

-----------------------------------------------------------------------------
(* A new conversation stays                                                *)

\* Some conversation is wanted.
Wanting(k) == "wanted" \in DOMAIN k /\ k.wanted # None

\* A client that wants a conversation still does after other fields changed,
LEMMA FieldWanting ==
    ASSUME NEW k, Wanting(k)
    PROVE  /\ \A v : Wanting([k EXCEPT !.thread = v]) /\ Wanting([k EXCEPT !.ref = v])
           /\ \A v : Wanting([k EXCEPT !.cache = v]) /\ Wanting([k EXCEPT !.loading = v])
           /\ \A v : Wanting([k EXCEPT !.calls = v]) /\ Wanting([k EXCEPT !.current = v])
           /\ \A v : Wanting([k EXCEPT !.draft = v]) /\ Wanting([k EXCEPT !.newStreaming = v])
           /\ \A v : Wanting([k EXCEPT !.streams = v]) /\ Wanting([k EXCEPT !.since = v])
           /\ \A v : Wanting([k EXCEPT !.resumed = v]) /\ Wanting([k EXCEPT !.branchesOf = v])
           /\ \A v, x : Wanting([k EXCEPT !.thread = v, !.visible = x])
           /\ \A v, x : Wanting([k EXCEPT !.current = v, !.loaded = x])
  BY DEF Wanting

\* after calls and answers, and what they do to the screen and the cache,
LEMMA AskWanting ==
    ASSUME NEW k, Wanting(k)
    PROVE  /\ \A op, id, b : Wanting(Ask(k, op, id, b))
           /\ \A v : Wanting(Show(k, v)) /\ Wanting(Cache(k, v))
           /\ \A id : Wanting(NotLoading(k, id))
           /\ \A i : Wanting(Dropped(k, i))
           /\ Wanting(SyncDraft(k)) /\ Wanting(FetchUpdates(k)) /\ Wanting(Load(k))
  <1>1. ASSUME NEW r, Wanting(r), NEW op, NEW id, NEW b
        PROVE  Wanting(Ask(r, op, id, b))
    BY <1>1, FieldWanting DEF Ask
  <1>2. ASSUME NEW r, Wanting(r), NEW v
        PROVE  Wanting(Show(r, v)) /\ Wanting(Cache(r, v))
    BY <1>2, FieldWanting DEF Show, Cache
  <1>3. \A id : Wanting(NotLoading(k, id))
    BY FieldWanting DEF NotLoading
  <1>4. \A i : Wanting(Dropped(k, i))
    BY FieldWanting DEF Dropped
  <1>5. Wanting(SyncDraft(k))
    BY FieldWanting DEF SyncDraft
  <1>6. Wanting(FetchUpdates(k))
    BY <1>1, FieldWanting DEF FetchUpdates
  <1>7. Wanting(Load(k))
    <2>1. PICK r : r = [k EXCEPT !.ref = None]
      OBVIOUS
    <2>2. Wanting(r)
      BY <2>1, FieldWanting
    <2>3. Wanting([r EXCEPT !.loading = @ \cup {Key(r, r.wanted)}])
      BY <2>2, FieldWanting
    <2> QED BY <1>1, <1>2, <2>1, <2>2, <2>3 DEF Load, Wanting
  <1> QED BY <1>1, <1>2, <1>3, <1>4, <1>5, <1>6, <1>7

\* after streams were begun,
LEMMA SentWanting ==
    ASSUME NEW k, Wanting(k)
    PROVE  /\ \A s, id, kind : Wanting(HandleStream(k, s, id, kind))
           /\ \A id : Wanting(ResumeStream(k, id))
           /\ Wanting(Sent(k))
  <1>1. ASSUME NEW r, Wanting(r), NEW s, NEW id, NEW kind
        PROVE  Wanting(HandleStream(r, s, id, kind))
    <2>1. PICK x : x = [r EXCEPT !.loading = @ \cup {Key(r, id)},
                !.controllers = Put(@, Key(r, id), s),
                !.streams[s] = [NoStream EXCEPT
                    !.state = "posting", !.kind = kind, !.target = id,
                    !.asked = r.ref, !.first = Key(r, id), !.key = Key(r, id),
                    !.view = IF id \in Ids THEN Cached(r, id) ELSE None,
                    !.from = ShownId(r)]]
      OBVIOUS
    <2>2. Wanting(x)
      BY <1>1, <2>1 DEF Wanting
    <2> QED BY <2>1, <2>2, FieldWanting DEF HandleStream, OnResponseStart
  <1>2. \A id : Wanting(ResumeStream(k, id))
    BY <1>1 DEF ResumeStream
  <1>3. Wanting(Sent(k))
    <2>1. \A s : Wanting([k EXCEPT !.streams[s].state = "aborted"])
      BY DEF Wanting
    <2> QED BY <1>1, <2>1 DEF Sent
  <1> QED BY <1>1, <1>2, <1>3

\* after the effects of its hooks,
LEMMA ClientWanting ==
    ASSUME NEW k, Wanting(k), Client(k)
    PROVE  c'.wanted # None
  <1>1. PICK opened : /\ opened = IF k.wanted = c.wanted THEN k ELSE Load(SyncDraft(k))
                      /\ c' = FollowBranch(c, LoadBranches(AutoResume(opened)))
    BY DEF Client
  <1>2. Wanting(opened)
    BY <1>1, AskWanting
  <1>3. Wanting(AutoResume(opened))
    BY <1>2, FieldWanting, SentWanting DEF AutoResume
  <1>4. PICK r : r = AutoResume(opened) /\ Wanting(r)
    BY <1>3
  <1>5. Wanting(LoadBranches(r))
    <2>1. Wanting([r EXCEPT !.branchesOf = None, !.current = Main, !.loaded = FALSE])
      BY <1>4 DEF Wanting
    <2>2. Wanting([r EXCEPT !.branchesOf = ShownId(r)])
      BY <1>4, FieldWanting
    <2> QED BY <1>4, <2>1, <2>2, AskWanting DEF LoadBranches
  <1>6. \A x : Wanting(x) => Wanting(FollowBranch(c, x))
    BY FieldWanting DEF FollowBranch
  <1> QED BY <1>1, <1>4, <1>5, <1>6 DEF Wanting

\* after the end of a stream and what is said of a response,
LEMMA OverWanting ==
    ASSUME NEW k, Wanting(k)
    PROVE  /\ \A s : Wanting(Over(k, s)) /\ Wanting(Finally(k, s)) /\ Wanting(Ended(k, s))
           /\ Wanting(OnResponseEnd(k))
           /\ \A id : id # None => Wanting(OnThreadChange(k, id))
  <1>1. ASSUME NEW r, Wanting(r), NEW s
        PROVE  Wanting(Over(r, s))
    BY <1>1 DEF Wanting, Over
  <1>2. ASSUME NEW r, Wanting(r), NEW s
        PROVE  Wanting(Finally(r, s))
    <2>1. \A x, y : Wanting([r EXCEPT !.loading = x, !.controllers = y])
      BY <1>2 DEF Wanting
    <2> QED BY <1>1, <2>1 DEF Finally
  <1>3. ASSUME NEW r, Wanting(r)
        PROVE  Wanting(OnResponseEnd(r))
    BY <1>3, FieldWanting, AskWanting DEF OnResponseEnd
  <1>4. ASSUME NEW s
        PROVE  Wanting(Ended(k, s))
    <2>1. \A v : Wanting([k EXCEPT !.thread = v])
      BY FieldWanting
    <2> QED BY <1>2, <1>3, <2>1 DEF Ended
  <1>5. ASSUME NEW id, id # None
        PROVE  Wanting(OnThreadChange(k, id))
    <2>1. Wanting([k EXCEPT !.draft = FALSE, !.wanted = id])
      BY <1>5 DEF Wanting
    <2> QED BY <2>1 DEF OnThreadChange
  <1> QED BY <1>1, <1>2, <1>3, <1>4, <1>5

\* after what arrives on a stream, where no widget is used,
LEMMA EventWanting ==
    ASSUME NEW k, Wanting(k), NEW s \in Streams, NEW event, k.streams[s].kind # "click",
           event.type # "done" /\ Applied(k, s, event) # None => Applied(k, s, event).id # None
    PROVE  Wanting(Event(k, s, event))
  <1>1. Wanting(DeadEvent(k, s, event))
    <2>1. \A v : Wanting([k EXCEPT !.streams[s].view = v])
      BY DEF Wanting
    <2>2. PICK seen : seen = [k EXCEPT !.streams[s].view = Applied(k, s, event)] /\ Wanting(seen)
      BY <2>1
    <2>3. event.type # "done" /\ Applied(k, s, event) # None
            => Wanting(OnThreadChange(seen, Applied(k, s, event).id))
      BY <2>2, OverWanting
    <2>4. Wanting(Over(k, s)) /\ Wanting(Over(OnResponseEnd(k), s))
      BY OverWanting
    <2> QED BY <2>2, <2>3, <2>4 DEF DeadEvent
  <1>2. ASSUME NEW view, view.id # None
        PROVE  Wanting(OnThreadUpdate(k, s, view))
    <2>1. PICK x : x = [k EXCEPT !.streams[s].view = view, !.streams[s].got = TRUE]
                   /\ Wanting(x)
      <3>1. Wanting([k EXCEPT !.streams[s].view = view, !.streams[s].got = TRUE])
        BY DEF Wanting
      <3> QED BY <3>1
    <2>2. \A y, id : Wanting(y) => Wanting(Rekey(y, s, id))
      BY DEF Wanting, Rekey
    <2>3. PICK kept : kept = Rekey(Cache(x, view), s, view.id) /\ Wanting(kept)
      BY <2>1, <2>2, AskWanting
    <2>4. Wanting(Show(kept, view)) /\ Wanting(OnThreadChange(Show(kept, view), view.id))
      BY <1>2, <2>3, AskWanting, OverWanting
    <2> QED BY <2>1, <2>3, <2>4 DEF OnThreadUpdate
  <1> QED BY <1>1, <1>2, OverWanting DEF Event

\* and after what the calls come back with.
LEMMA AnsweredWanting ==
    ASSUME NEW k, Wanting(k), NEW call, call.op \in Ops
    PROVE  Wanting(Answered(k, call)) /\ Wanting(Broken(k, call))
  <1>1. ASSUME NEW r, Wanting(r), NEW view
        PROVE  /\ Wanting(NotLoading(Cache(Show(NotLoading(r, view.id), view), view), call.id))
               /\ Wanting(Refreshed(r, call, view))
    BY <1>1, AskWanting DEF Refreshed
  <1>2. \A view : Wanting(Loaded(k, call, view))
    BY <1>1, FieldWanting DEF Loaded
  <1>3. \A view : Wanting(Sent(Refreshed(k, call, view)))
    BY <1>1, SentWanting
  <1>4. ASSUME NEW r, Wanting(r), NEW b
        PROVE  Wanting(OnBranchChange(r, b))
    BY <1>4, FieldWanting, AskWanting DEF OnBranchChange
  <1>5. ASSUME NEW r, Wanting(r)
        PROVE  Wanting(Rewrite(r))
    <2>1. Wanting([r EXCEPT !.loading = @ \cup {Key(r, r.visible)}])
      BY <1>5, FieldWanting
    <2> QED BY <1>5, <2>1, AskWanting, SentWanting DEF Rewrite
  <1>6. \A b : Wanting(Rewrite(OnBranchChange([k EXCEPT !.current = b], b)))
    BY <1>4, <1>5, FieldWanting
  <1>7. \A time : Wanting(Polled(k, time))
    BY FieldWanting, AskWanting DEF Polled
  <1>8. \A b : Wanting([k EXCEPT !.current = b, !.loaded = TRUE])
    BY FieldWanting
  <1>a. Wanting(Older(k, call))
    <2>1. \A has : Wanting([k EXCEPT !.thread.has = has])
      BY DEF Wanting
    <2>2. PICK shown : /\ shown = IF k.thread = None THEN k
                                  ELSE [k EXCEPT !.thread.has = @ \cup call.reply.has]
                       /\ Wanting(shown)
      BY <2>1
    <2> QED BY <2>2, AskWanting DEF Older
  <1>9. Wanting(Answered(k, call))
    BY <1>1, <1>2, <1>3, <1>4, <1>6, <1>7, <1>8, <1>a DEF Answered, Ops
  <1>10. Wanting(Broken(k, call))
    BY AskWanting, SentWanting, FieldWanting DEF Broken, Ops
  <1> QED BY <1>9, <1>10

\* A stream of this instance that is under way: it carries the first message of the
\* conversation without an identifier, and hears the identifier before anything.
Live(st) == st.state \in {"posting", "open"} /\ ~st.dead
First(st, temp) ==
    /\ st.kind = "message" /\ st.target = temp /\ st.from = None
    /\ st.first = <<temp, None>> /\ st.key = st.first /\ ~st.got /\ st.view = None
    /\ st.state = "open" => st.inbox # <<>> /\ st.inbox[1].type = "created"
\* Streams of an instance that was replaced go on only in a draft of which nothing
\* streams.
Firsts(streams, temp, draft, new) ==
    /\ \A s \in Streams : Live(streams[s]) => First(streams[s], temp)
    /\ (\E s \in Streams : streams[s].dead) => draft /\ ~new
    /\ draft /\ (\E s \in Streams : Live(streams[s])) => new

\* No conversation is wanted: nothing is shown, asked for or listened to.
Empty(k) ==
    /\ k.thread = None /\ k.visible = k.temps /\ k.ref = None /\ k.calls = <<>>
    /\ k.current = Main /\ ~k.loaded /\ k.branchesOf = None
Blank(k) == Empty(k) /\ Firsts(k.streams, k.visible, k.draft, k.newStreaming)

\* A new instance is blank, whatever the one it replaces was doing.
LEMMA RemountBlank ==
    ASSUME NEW k \in ClientType, k.draft, ~k.newStreaming
    PROVE  Blank(Remount(k)) /\ Remount(k).wanted = None
  <1>1. PICK streams : streams = [s \in Streams |-> Replaced(k, s)]
    OBVIOUS
  <1>2. PICK r : r = Remount(k)
    OBVIOUS
  <1>3. /\ r.thread = None /\ r.visible = r.temps /\ r.ref = None /\ r.calls = <<>>
        /\ r.current = Main /\ ~r.loaded /\ r.branchesOf = None /\ r.wanted = None
        /\ r.streams = streams /\ r.draft = k.draft /\ r.newStreaming = k.newStreaming
    BY <1>1, <1>2 DEF Remount, Instance
  <1>4. ASSUME NEW s \in Streams
        PROVE  ~Live(Replaced(k, s))
    <2>1. k.streams[s] \in StreamType
      BY DEF ClientType
    <2>2. CASE ~Under(k, s)
      BY <2>2 DEF Replaced, NoStream, Live
    <2>3. CASE Under(k, s) /\ k.streams[s].dead
      BY <2>3 DEF Replaced, Live
    <2>4. CASE Under(k, s) /\ ~k.streams[s].dead
      <3>1. \A b : [k.streams[s] EXCEPT !.dead = TRUE, !.front = b].dead
        BY <2>1 DEF StreamType
      <3> QED BY <2>4, <3>1 DEF Replaced, Live
    <2> QED BY <2>2, <2>3, <2>4
  <1>5. \A s \in Streams : ~Live(streams[s])
    BY <1>1, <1>4
  <1>6. Firsts(streams, r.visible, k.draft, k.newStreaming)
    BY <1>5 DEF Firsts
  <1> QED BY <1>2, <1>3, <1>6 DEF Blank, Empty

\* What was used has no effect on what else may be used.
LEMMA OnceKeeps ==
    ASSUME left \in [Bounded -> Nat], left["blanks"] = 0, NEW what \in Bounded,
           May(what), Once(what)
    PROVE  left'["blanks"] = 0 /\ what # "blanks"
  BY DEF May, Once, Bounded

\* While some conversation is wanted, only a new instance of the hook wants none.
LEMMA WantingStep ==
    ASSUME ChatInv(0), left["blanks"] = 0, c.wanted # None, Next
    PROVE  c'.wanted # None \/ (c'.wanted = None /\ Blank(c'))
  <1>1. c \in ClientType /\ left \in [Bounded -> Nat] /\ Main \in Named(srv)
    BY ServerFacts DEF ChatInv, Inv
  <1>2. Wanting(c)
    BY <1>1 DEF Wanting, ClientType
  <1>3. \A k : Wanting(k) /\ Client(k) => c'.wanted # None
    BY ClientWanting
  <1>4. \A v : Wanting([c EXCEPT !.streams = v])
    BY <1>2, FieldWanting
  <1>5. CASE SendUserMessage
    BY <1>2, <1>3, <1>5, SentWanting DEF SendUserMessage
  <1>6. CASE NewConversation
    <2>1. PICK r : r = [c EXCEPT !.draft = TRUE, !.newStreaming = FALSE]
      OBVIOUS
    <2>2. r \in ClientType /\ r.draft /\ ~r.newStreaming
      BY <1>1, <2>1 DEF ClientType
    <2> QED BY <1>6, <2>1, <2>2, RemountBlank DEF NewConversation
  <1>7. CASE NewThread
    BY <1>1, <1>7, OnceKeeps DEF NewThread, Bounded
  <1>8. CASE Focus
    BY <1>2, <1>3, <1>8, AskWanting DEF Focus
  <1>9. CASE CustomAction
    BY <1>1, <1>9, OnceInv DEF CustomAction, ChatInv, Bounded
  <1>10. CASE LiveEdit
    BY <1>10 DEF LiveEdit
  <1>11. CASE \E id \in Ids : ThreadSelect(id)
    <2>1. PICK id \in Ids : Client([c EXCEPT !.draft = FALSE, !.wanted = id])
      BY <1>11 DEF ThreadSelect
    <2>2. id # None
      BY ClientAssumption DEF Ids
    <2>3. Wanting([c EXCEPT !.draft = FALSE, !.wanted = id])
      BY <1>2, <2>2 DEF Wanting
    <2> QED BY <1>3, <2>1, <2>3
  <1>12. CASE \E b \in Branches : SwitchBranch(b)
    <2>1. PICK b \in Branches : Client([Ask(c, "switch", c.thread.id, b) EXCEPT !.current = b])
      BY <1>12 DEF SwitchBranch
    <2>2. Wanting([Ask(c, "switch", c.thread.id, b) EXCEPT !.current = b])
      BY <1>2, AskWanting, FieldWanting
    <2> QED BY <1>3, <2>1, <2>2
  <1>13. CASE \E b \in Branches : EditMessage(b)
    BY <1>2, <1>3, <1>13, AskWanting DEF EditMessage
  <1>14. CASE \E s \in Streams : StreamFails(s) \/ AwaitAction(s)
    BY <1>2, <1>3, <1>14, OverWanting, AskWanting DEF StreamFails, AwaitAction
  <1>15. CASE \E i \in DOMAIN c.calls : CallFails(i)
    <2>1. PICK i \in DOMAIN c.calls : Client(Broken(Dropped(c, i), c.calls[i]))
      BY <1>15 DEF CallFails
    <2>2. c.calls[i].op \in Ops
      <3>1. PICK call \in CallType : call = c.calls[i]
        BY <1>1 DEF ClientType
      <3> QED BY <3>1 DEF CallType
    <2>3. Wanting(Dropped(c, i))
      BY <1>2, AskWanting
    <2> QED BY <1>3, <2>1, <2>2, <2>3, AnsweredWanting
  <1>16. CASE Poll
    BY <1>2, <1>16, AskWanting DEF Poll, Wanting
  <1>17. CASE UnmountTimeout
    BY <1>4, <1>17 DEF UnmountTimeout, Wanting
  <1>18. CASE \E id \in Ids : Produce(id)
    <2>1. PICK id \in Ids : Produce(id)
      BY <1>18
    <2>2. PICK events : c' = Push(c, id, events)
      BY <2>1 DEF Produce
    <2> QED BY <1>4, <2>2 DEF Push, Wanting
  <1>19. CASE \E s \in Streams : Accept(s)
    <2>1. PICK s \in Streams : Accept(s)
      BY <1>19
    <2>2. PICK id, inbox : c' = Opened(s, id, inbox)
      BY <2>1 DEF Accept
    <2>3. Wanting([c EXCEPT !.streams[s].state = "open", !.streams[s].hears = id,
                            !.streams[s].inbox = inbox])
      BY <1>2 DEF Wanting
    <2> QED BY <2>2, <2>3 DEF Opened, Wanting
  <1>20. CASE \E s \in Streams : Abort(s)
    BY <1>2, <1>3, <1>20, OverWanting DEF Abort
  <1>21. CASE \E i \in DOMAIN c.calls : Serve(i)
    <2>1. \A i, v : Wanting([c EXCEPT !.calls[i].state = v])
      BY <1>2 DEF Wanting
    <2>2. \A i, v, x : Wanting([c EXCEPT !.calls[i].state = v, !.calls[i].reply = x])
      BY <1>2 DEF Wanting
    <2> QED BY <1>21, <2>1, <2>2 DEF Serve, Wanting
  <1>22. CASE \E i \in DOMAIN c.calls : Return(i)
    <2>1. PICK i \in DOMAIN c.calls : Return(i)
      BY <1>22
    <2>2. PICK call \in CallType : call = c.calls[i]
      BY <1>1 DEF ClientType
    <2>a. call.op \in Ops
      BY <2>2 DEF CallType
    <2>3. PICK k : k = Dropped(c, i) /\ Wanting(k) /\ k \in ClientType
      BY <1>2, AskWanting, DroppedInv DEF ChatInv, Inv
    <2>4. \/ Client(Answered(k, call)) \/ Client(Broken(k, call))
          \/ Client([k EXCEPT !.current = call.was]) \/ c' = OnThreadNotFound(k)
      BY <2>1, <2>2, <2>3 DEF Return, Refused
    <2>5. CASE c' = OnThreadNotFound(k)
      <3>1. PICK r : r = [k EXCEPT !.draft = TRUE, !.newStreaming = FALSE]
        OBVIOUS
      <3>2. r \in ClientType /\ r.draft /\ ~r.newStreaming
        BY <2>3, <3>1 DEF ClientType
      <3> QED BY <2>5, <3>1, <3>2, RemountBlank DEF OnThreadNotFound
    <2> QED BY <1>3, <2>a, <2>3, <2>4, <2>5, AnsweredWanting, FieldWanting
  <1>24. CASE \E id \in Ids : LateNotFound(id)
    <2>1. PICK id \in Ids : c' = OnThreadNotFound([c EXCEPT !.orphans = @ \ {id}])
      BY <1>24 DEF LateNotFound
    <2>2. PICK r : r = [[c EXCEPT !.orphans = @ \ {id}] EXCEPT !.draft = TRUE,
                                                             !.newStreaming = FALSE]
      OBVIOUS
    <2>3. r \in ClientType /\ r.draft /\ ~r.newStreaming
      BY <1>1, <2>2 DEF ClientType
    <2> QED BY <2>1, <2>2, <2>3, RemountBlank DEF OnThreadNotFound
  <1>25. CASE LoadOlder
    BY <1>2, <1>25, AskWanting DEF LoadOlder, Wanting
  <1>23. CASE \E s \in Streams : Receive(s)
    <2>1. PICK s \in Streams : Receive(s)
      BY <1>23
    <2>2. PICK k, e : Heard(0, k, s, e) /\ Client(Event(k, s, e))
      BY <2>1, ReceivedEvent
    <2>3. Wanting(k)
      BY <1>2, <2>2 DEF Heard, Wanting
    <2>4. k.streams[s].kind # "click"
      BY <2>2 DEF Heard, Inv, StreamsGood, StreamGood
    <2>5. e.type # "done" => Applied(k, s, e) = None \/ Good(Applied(k, s, e), srv)
      BY <1>1, <2>2, AppliedGood DEF Heard, About
    <2>6. e.type # "done" /\ Applied(k, s, e) # None => Applied(k, s, e).id # None
      BY <2>5, ClientAssumption DEF Good, ViewType, Ids
    <2> QED BY <1>3, <2>2, <2>3, <2>4, <2>6, EventWanting
  <1> QED BY <1>5, <1>6, <1>7, <1>8, <1>9, <1>10, <1>11, <1>12, <1>13, <1>14, <1>15, <1>16, <1>17,
             <1>18, <1>19, <1>20, <1>21, <1>22, <1>23, <1>24, <1>25 DEF Next, System

\* r is as empty as k, and wants what k wants.
SameEmpty(k, r) ==
    /\ r.wanted = k.wanted /\ r.thread = k.thread /\ r.visible = k.visible
    /\ r.temps = k.temps /\ r.ref = k.ref /\ r.calls = k.calls /\ r.current = k.current
    /\ r.loaded = k.loaded /\ r.branchesOf = k.branchesOf /\ r.draft = k.draft

\* Streams that are as far as they were, or over, leave it so.
Quieter(k, r) ==
    /\ SameEmpty(k, r)
    /\ \A s \in Streams :
         /\ r.streams[s].dead => k.streams[s].dead
         /\ Live(r.streams[s]) => Live(k.streams[s]) /\ First(r.streams[s], k.visible)
    /\ \/ r.newStreaming = k.newStreaming
       \/ (\E s \in Streams : k.streams[s].dead) /\ r.newStreaming = FALSE
LEMMA QuieterBlank ==
    ASSUME NEW k, Blank(k), NEW r, Quieter(k, r)
    PROVE  Blank(r) /\ r.wanted = k.wanted
  <1>1. Empty(r) /\ r.wanted = k.wanted
    BY DEF Blank, Quieter, SameEmpty, Empty
  <1>2. \A s \in Streams : Live(r.streams[s]) => First(r.streams[s], r.visible)
    BY DEF Quieter, SameEmpty
  <1>3. (\E s \in Streams : r.streams[s].dead) => r.draft /\ ~r.newStreaming
    BY DEF Blank, Firsts, Quieter, SameEmpty
  <1>4. r.draft /\ (\E s \in Streams : Live(r.streams[s])) => r.newStreaming
    BY DEF Blank, Firsts, Quieter, SameEmpty
  <1> QED BY <1>1, <1>2, <1>3, <1>4 DEF Blank, Firsts

\* One stream is another one.
LEMMA RestreamedBlank ==
    ASSUME NEW k \in ClientType, Blank(k), NEW r \in ClientType, SameEmpty(k, r),
           r.newStreaming = k.newStreaming,
           NEW s \in Streams, NEW st, r.streams = [k.streams EXCEPT ![s] = st],
           st.dead => k.streams[s].dead,
           Live(st) => Live(k.streams[s]) /\ First(st, k.visible)
    PROVE  Blank(r) /\ r.wanted = k.wanted
  <1>1. \A x \in Streams : r.streams[x] = IF x = s THEN st ELSE k.streams[x]
    BY DEF ClientType
  <1>2. Quieter(k, r)
    BY <1>1 DEF Quieter, Blank, Firsts
  <1> QED BY <1>2, QuieterBlank

\* A stream ends.
LEMMA OverBlank ==
    ASSUME NEW k, Inv(0, k, srv), Blank(k), NEW s \in Streams
    PROVE  /\ Blank(Over(k, s)) /\ Over(k, s).wanted = k.wanted
           /\ Blank(Finally(k, s)) /\ Finally(k, s).wanted = k.wanted
  <1>1. ASSUME NEW x, Inv(0, x, srv), Blank(x)
        PROVE  Blank(Over(x, s)) /\ Over(x, s).wanted = x.wanted
    <2>1. PICK r \in ClientType : r = Over(x, s)
      BY <1>1, OverInv DEF Inv
    <2>2. x \in ClientType
      BY <1>1 DEF Inv
    <2>3. /\ SameEmpty(x, r) /\ r.newStreaming = x.newStreaming
          /\ r.streams = [x.streams EXCEPT ![s] = NoStream]
      BY <2>1, <2>2 DEF ClientType, Over, SameEmpty
    <2>4. ~NoStream.dead /\ ~Live(NoStream)
      BY DEF NoStream, Live
    <2>5. Blank(r) /\ r.wanted = x.wanted
      BY <1>1, <2>2, <2>3, <2>4, RestreamedBlank
    <2> QED BY <2>1, <2>5
  <1>2. k \in ClientType
    BY DEF Inv
  <1>3. PICK keys : keys = {Key(k, k.streams[s].target)} \cup
                             (IF k.streams[s].got THEN {Key(k, k.streams[s].view.id)} ELSE {})
    OBVIOUS
  <1>4. Without(k.controllers, keys) \in Controllers /\ k.loading \ keys \in SUBSET Keys
    <2>1. Main \in Branches /\ <<Born, Main>> \in Keys
      BY ClientAssumption DEF Keys, Ids
    <2> QED BY <1>2, <2>1, PutController DEF ClientType
  <1>5. PICK r \in ClientType : r = [k EXCEPT !.loading = @ \ keys,
                                            !.controllers = Without(@, keys)]
    BY <1>2, <1>4 DEF ClientType
  <1>6. Same(k, r) /\ SameEmpty(k, r) /\ r.newStreaming = k.newStreaming
        /\ r.streams = k.streams
    BY <1>2, <1>5 DEF ClientType, Same, SameEmpty
  <1>7. Quieter(k, r)
    BY <1>6 DEF Quieter, Blank, Firsts
  <1>8. Inv(0, r, srv) /\ Blank(r) /\ r.wanted = k.wanted
    BY <1>5, <1>6, <1>7, SameInv, QuieterBlank
  <1>9. Finally(k, s) = Over(r, s)
    BY <1>3, <1>5 DEF Finally
  <1> QED BY <1>1, <1>8, <1>9

\* The effects leave a blank client as it is.
LEMMA ClientBlank ==
    ASSUME NEW k \in ClientType, Blank(k), k.wanted = None,
           c \in ClientType, Blank(c), c.wanted = None, Client(k)
    PROVE  Blank(c') /\ c'.wanted = None
  <1>1. c' = FollowBranch(c, LoadBranches(AutoResume(k)))
    BY DEF Client
  <1>2. ShownId(k) = None /\ AutoResume(k) = k
    BY DEF Blank, Empty, ShownId, AutoResume
  <1>3. PICK r : r = [k EXCEPT !.branchesOf = None, !.current = Main, !.loaded = FALSE]
    OBVIOUS
  <1>4. LoadBranches(k) = r
    BY <1>2, <1>3 DEF LoadBranches
  <1>5. SameEmpty(k, r) /\ r.streams = k.streams /\ r.newStreaming = k.newStreaming
    BY <1>3 DEF ClientType, Blank, Empty, SameEmpty
  <1>6. Blank(r) /\ r.wanted = None
    <2>1. Quieter(k, r)
      BY <1>5 DEF Quieter, Blank, Firsts
    <2> QED BY <2>1, QuieterBlank
  <1>7. r.loaded = c.loaded /\ r.current = c.current
    <2>1. r.loaded = FALSE
      BY <1>3 DEF ClientType
    <2>2. c.loaded = FALSE
      BY DEF ClientType, Blank, Empty
    <2> QED BY <1>6, <2>1, <2>2 DEF Blank, Empty
  <1> QED BY <1>1, <1>2, <1>4, <1>6, <1>7 DEF FollowBranch

\* A first message is sent when no stream of a replaced instance is left.
LEMMA SentBlank ==
    ASSUME NEW k, Inv(0, k, srv), Blank(k), Free(k) # {},
           \A s \in Streams : ~k.streams[s].dead
    PROVE  Blank(Sent(k)) /\ Sent(k).wanted = k.wanted
  <1>1. /\ k \in ClientType /\ k.temps \in Nat /\ k.visible = k.temps /\ k.ref = None
        /\ k.thread = None /\ k.controllers \in Controllers
        /\ k.streams \in [Streams -> StreamType]
    BY DEF Inv, ClientType, Blank, Empty
  <1>2. k.visible \notin Ids
    BY <1>1, ClientAssumption DEF Ids
  <1>3. PICK key : key = Key(k, k.visible) /\ key = <<k.visible, None>>
    BY <1>1 DEF Key
  <1>4. PICK s \in Streams : s = NextSlot(k)
    BY SlotType
  <1>5. PICK q : /\ q \in ClientType /\ Blank(q) /\ q.wanted = k.wanted
                 /\ q.visible = k.visible /\ q.ref = None /\ q.thread = None
                 /\ \A x \in Streams : ~q.streams[x].dead
                 /\ Sent(k) = HandleStream(q, s, k.visible, "message")
    <2>1. CASE key \in DOMAIN k.controllers /\ k.controllers[key] # None
      <3>1. PICK x \in Streams : x = k.controllers[key]
        BY <1>1, <2>1, MapFacts DEF Controllers
      <3>a. k.streams[x] \in StreamType
        BY <1>1
      <3>2. PICK st \in StreamType : st = [k.streams[x] EXCEPT !.state = "aborted"]
        BY <3>a DEF StreamType
      <3>b. st.dead = k.streams[x].dead /\ st.state = "aborted"
        BY <3>a, <3>2 DEF StreamType
      <3>c. ~Live(st)
        BY <3>b DEF Live
      <3>3. PICK q \in ClientType : q = [k EXCEPT !.streams[x] = st]
        BY <1>1 DEF ClientType
      <3>4. q.streams = [k.streams EXCEPT ![x] = st] /\ SameEmpty(k, q)
            /\ q.newStreaming = k.newStreaming
        BY <1>1, <3>3 DEF ClientType, SameEmpty
      <3>5. Blank(q) /\ q.wanted = k.wanted
        BY <1>1, <3>b, <3>c, <3>4, RestreamedBlank
      <3>6. q = [k EXCEPT !.streams[k.controllers[key]].state = "aborted"]
        BY <1>1, <3>1, <3>2, <3>3 DEF ClientType
      <3>7. Sent(k) = HandleStream(q, s, k.visible, "message")
        BY <1>3, <1>4, <2>1, <3>6 DEF Sent
      <3>8. \A y \in Streams : ~q.streams[y].dead
        BY <1>1, <3>b, <3>4
      <3> QED BY <1>1, <3>4, <3>5, <3>7, <3>8 DEF SameEmpty
    <2>2. CASE ~(key \in DOMAIN k.controllers /\ k.controllers[key] # None)
      BY <1>1, <1>3, <1>4, <2>2 DEF Sent
    <2> QED BY <2>1, <2>2
  <1>6. PICK st : st = [NoStream EXCEPT
                    !.state = "posting", !.kind = "message", !.target = k.visible,
                    !.asked = None, !.first = key, !.key = key,
                    !.view = None, !.from = None]
    OBVIOUS
  <1>7. First(st, k.visible) /\ ~st.dead /\ Live(st)
    BY <1>3, <1>6 DEF First, Live, NoStream
  <1>8. PICK r : r = HandleStream(q, s, k.visible, "message")
    OBVIOUS
  <1>9. Key(q, k.visible) = key /\ ShownId(q) = None
    BY <1>3, <1>5 DEF Key, ShownId
  <1>10. r = [q EXCEPT !.loading = @ \cup {key}, !.controllers = Put(@, key, s),
                       !.streams[s] = st, !.newStreaming = TRUE]
    <2>1. PICK y : y = [q EXCEPT !.loading = @ \cup {key}, !.controllers = Put(@, key, s),
                       !.streams[s] = st]
      OBVIOUS
    <2>2. r = OnResponseStart(y, k.visible)
      BY <1>2, <1>5, <1>6, <1>8, <1>9, <2>1 DEF HandleStream
    <2>3. r = [y EXCEPT !.newStreaming = TRUE]
      BY <1>2, <2>2 DEF OnResponseStart
    <2> QED BY <1>5, <2>1, <2>3 DEF ClientType
  <1>11. /\ SameEmpty(q, r) /\ r.newStreaming = TRUE
         /\ \A x \in Streams : r.streams[x] = IF x = s THEN st ELSE q.streams[x]
    BY <1>5, <1>10 DEF ClientType, SameEmpty
  <1>12. Empty(r) /\ r.wanted = k.wanted /\ r.visible = k.visible
    BY <1>5, <1>11 DEF SameEmpty, Blank, Empty
  <1>13. Firsts(r.streams, r.visible, r.draft, r.newStreaming)
    BY <1>5, <1>7, <1>11, <1>12 DEF Firsts, Blank
  <1> QED BY <1>5, <1>8, <1>12, <1>13 DEF Blank

\* An event of a stream of a replaced instance changes nothing here.
LEMMA DeadEventBlank ==
    ASSUME NEW k, Inv(0, k, srv), Blank(k), NEW s \in Streams, k.streams[s].dead, NEW e
    PROVE  Blank(Event(k, s, e)) /\ Event(k, s, e).wanted = k.wanted
  <1>1. k \in ClientType /\ k.streams[s] \in StreamType /\ k.streams[s].kind # "click"
    BY DEF Inv, ClientType, StreamsGood, StreamGood
  <1>2. k.draft /\ ~k.newStreaming
    BY DEF Blank, Firsts
  <1>3. k.visible \notin Ids
    BY <1>1, ClientAssumption DEF Ids, ClientType, Blank, Empty
  <1>4. CASE e.type = "done"
    <2>1. PICK y : y = [k EXCEPT !.newStreaming = FALSE] /\ Inv(0, y, srv)
      BY StreamingInv
    <2>2. SameEmpty(k, y) /\ y.streams = k.streams /\ y.newStreaming = FALSE
      BY <1>1, <2>1 DEF ClientType, SameEmpty
    <2>3. Quieter(k, y)
      BY <2>2 DEF Quieter, Blank, Firsts
    <2>4. Blank(y) /\ y.wanted = k.wanted
      BY <2>3, QuieterBlank
    <2>5. OnResponseEnd(k) = y
      BY <1>3, <2>1, <2>2 DEF OnResponseEnd, FetchUpdates, SameEmpty
    <2>6. Event(k, s, e) = Over(y, s)
      BY <1>1, <1>4, <2>5 DEF Event, DeadEvent
    <2> QED BY <2>1, <2>4, <2>6, OverBlank
  <1>5. CASE e.type # "done"
    <2>1. PICK seen : seen = [k EXCEPT !.streams[s].view = Applied(k, s, e)]
      OBVIOUS
    <2>2. /\ SameEmpty(k, seen) /\ seen.newStreaming = k.newStreaming
          /\ seen.streams[s].dead
          /\ \A x \in Streams \ {s} : seen.streams[x] = k.streams[x]
      BY <1>1, <2>1 DEF ClientType, StreamType, SameEmpty
    <2>3. Quieter(k, seen)
      BY <2>2 DEF Quieter, Blank, Firsts, Live
    <2>4. Blank(seen) /\ seen.wanted = k.wanted
      BY <2>3, QuieterBlank
    <2>5. \A id : OnThreadChange(seen, id) = seen
      BY <1>2, <2>2 DEF OnThreadChange, SameEmpty
    <2>6. Event(k, s, e) = seen
      BY <1>1, <1>5, <2>1, <2>5 DEF Event, DeadEvent
    <2> QED BY <2>4, <2>6
  <1> QED BY <1>4, <1>5

\* The conversation that is wanted and a stream that is under way.
Held(k, id, s, st) ==
    /\ "wanted" \in DOMAIN k /\ "streams" \in DOMAIN k /\ k.wanted = id
    /\ k.streams[s] = st
LEMMA FieldHeld ==
    ASSUME NEW k, NEW id, NEW s, NEW st, Held(k, id, s, st)
    PROVE  /\ \A v : Held([k EXCEPT !.ref = v], id, s, st)
           /\ \A v : Held([k EXCEPT !.calls = v], id, s, st)
           /\ \A v : Held([k EXCEPT !.draft = v], id, s, st)
           /\ \A v : Held([k EXCEPT !.loading = v], id, s, st)
           /\ \A v : Held([k EXCEPT !.resumed = v], id, s, st)
           /\ \A v : Held([k EXCEPT !.branchesOf = v], id, s, st)
           /\ \A v : Held([k EXCEPT !.newStreaming = v], id, s, st)
           /\ \A v, x : Held([k EXCEPT !.thread = v, !.visible = x], id, s, st)
           /\ \A u, v, x : Held([k EXCEPT !.branchesOf = u, !.current = v, !.loaded = x], id, s, st)
  BY DEF Held

\* The effects keep both.
LEMMA ClientHeld ==
    ASSUME NEW k, NEW id, id # None, NEW s \in Streams, NEW st, st.state # "idle",
           Held(k, id, s, st), Client(k)
    PROVE  Held(c', id, s, st)
  <1>1. PICK opened : /\ opened = IF k.wanted = c.wanted THEN k ELSE Load(SyncDraft(k))
                      /\ c' = FollowBranch(c, LoadBranches(AutoResume(opened)))
    BY DEF Client
  <1>2. \A r, op, x, b : Held(r, id, s, st) => Held(Ask(r, op, x, b), id, s, st)
    BY FieldHeld DEF Ask
  <1>3. ASSUME NEW r, Held(r, id, s, st)
        PROVE  Held(Load(r), id, s, st)
    <2>1. PICK x : x = [r EXCEPT !.ref = None] /\ Held(x, id, s, st)
      BY <1>3, FieldHeld
    <2>2. x.wanted # None
      BY <2>1 DEF Held
    <2>3. \A v : Held(Show(x, v), id, s, st)
      BY <2>1, FieldHeld DEF Show
    <2>4. Held([x EXCEPT !.loading = @ \cup {Key(x, x.wanted)}], id, s, st)
      BY <2>1, FieldHeld
    <2> QED BY <1>2, <2>1, <2>2, <2>3, <2>4 DEF Load
  <1>4. Held(opened, id, s, st)
    BY <1>1, <1>3, FieldHeld DEF SyncDraft
  <1>5. ASSUME NEW r, Held(r, id, s, st), NEW x
        PROVE  Held(ResumeStream(r, x), id, s, st)
    <2>1. CASE Free(r) # {}
      <3>1. PICK z \in Streams : z = NextSlot(r) /\ z # s
        <4>1. NextSlot(r) \in Free(r)
          BY <2>1 DEF NextSlot
        <4> QED BY <1>5, <4>1 DEF Free, Held
      <3>2. PICK y : y = [r EXCEPT !.loading = @ \cup {Key(r, x)},
                !.controllers = Put(@, Key(r, x), z),
                !.streams[z] = [NoStream EXCEPT
                    !.state = "posting", !.kind = "resume", !.target = x,
                    !.asked = r.ref, !.first = Key(r, x), !.key = Key(r, x),
                    !.view = IF x \in Ids THEN Cached(r, x) ELSE None,
                    !.from = ShownId(r)]]
        OBVIOUS
      <3>3. Held(y, id, s, st)
        BY <1>5, <3>1, <3>2 DEF Held
      <3>4. HandleStream(r, z, x, "resume") = [y EXCEPT !.newStreaming = x \notin Ids]
        BY <3>2 DEF HandleStream, OnResponseStart
      <3>5. PICK n : n = (x \notin Ids)
        OBVIOUS
      <3>6. Held([y EXCEPT !.newStreaming = n], id, s, st)
        BY <3>3, FieldHeld
      <3>7. Held(HandleStream(r, NextSlot(r), x, "resume"), id, s, st)
        BY <3>1, <3>4, <3>5, <3>6
      <3> QED BY <1>5, <3>7 DEF ResumeStream
    <2>2. CASE Free(r) = {}
      BY <1>5, <2>2 DEF ResumeStream
    <2> QED BY <2>1, <2>2
  <1>6. PICK r : r = AutoResume(opened) /\ Held(r, id, s, st)
    <2>1. Held([opened EXCEPT !.resumed = @ \cup {ShownId(opened)}], id, s, st)
      BY <1>4, FieldHeld
    <2>2. Held(ResumeStream([opened EXCEPT !.resumed = @ \cup {ShownId(opened)}],
                            ShownId(opened)), id, s, st)
      BY <1>5, <2>1
    <2>3. Held(AutoResume(opened), id, s, st)
      BY <1>4, <2>2 DEF AutoResume
    <2> QED BY <2>3
  <1>7. Held(LoadBranches(r), id, s, st)
    BY <1>2, <1>6, FieldHeld DEF LoadBranches
  <1>8. \A x : Held(x, id, s, st) => Held(FollowBranch(c, x), id, s, st)
    BY FieldHeld DEF FollowBranch
  <1> QED BY <1>1, <1>6, <1>7, <1>8

\* A stream that was told which conversation it is about.
Told(k, s, view, draft, new) ==
    /\ "wanted" \in DOMAIN k /\ "streams" \in DOMAIN k
    /\ k.streams[s].view = view /\ k.streams[s].state = "open"
    /\ k.draft = draft /\ k.newStreaming = new
LEMMA FieldTold ==
    ASSUME NEW k, NEW s, NEW view, NEW draft, NEW new, Told(k, s, view, draft, new)
    PROVE  /\ \A v : Told([k EXCEPT !.cache = v], s, view, draft, new)
           /\ \A v, x : Told([k EXCEPT !.thread = v, !.visible = x], s, view, draft, new)
           /\ \A u, v, x : Told([k EXCEPT !.controllers = u, !.loading = v,
                                         !.streams[s].key = x], s, view, draft, new)
  <1>1. \A v : Told([k EXCEPT !.cache = v], s, view, draft, new)
    BY DEF Told
  <1>2. \A v, x : Told([k EXCEPT !.thread = v, !.visible = x], s, view, draft, new)
    BY DEF Told
  <1>3. ASSUME NEW u, NEW v, NEW x
        PROVE  Told([k EXCEPT !.controllers = u, !.loading = v, !.streams[s].key = x],
                    s, view, draft, new)
    <2>1. PICK r : r = [k EXCEPT !.controllers = u, !.loading = v, !.streams[s].key = x]
      OBVIOUS
    <2>2. /\ DOMAIN r = DOMAIN k /\ r.draft = k.draft /\ r.newStreaming = k.newStreaming
          /\ r.streams = [k.streams EXCEPT ![s].key = x]
      BY <2>1 DEF Told
    <2>3. PICK f : f = k.streams
      OBVIOUS
    <2>4. /\ [f EXCEPT ![s].key = x][s].view = f[s].view
          /\ [f EXCEPT ![s].key = x][s].state = f[s].state
      OBVIOUS
    <2> QED BY <2>1, <2>2, <2>3, <2>4 DEF Told
  <1> QED BY <1>1, <1>2, <1>3

\* The first event of the first message of a new conversation makes its conversation
\* the wanted one.
LEMMA FirstEvent ==
    ASSUME ChatInv(0), Blank(c), NEW s \in Streams, Live(c.streams[s]), Receive(s)
    PROVE  /\ c'.wanted # None /\ ~c.streams[s].dead /\ c.streams[s].target = c.visible
           /\ c'.streams[s].view # None /\ c'.streams[s].view.id = c'.wanted
  <1>1. c \in ClientType /\ c.streams[s] \in StreamType
    BY DEF ChatInv, Inv, ClientType
  <1>2. /\ First(c.streams[s], c.visible) /\ c.streams[s].state = "open"
        /\ c.draft => c.newStreaming
    BY DEF Blank, Firsts, Receive
  <1>3. PICK k, e : Heard(0, k, s, e) /\ Client(Event(k, s, e))
    BY ReceivedEvent
  <1>4. e.type = "created" /\ e.id = Born
    BY <1>2, <1>3 DEF First, Heard, EventGood
  <1>5. /\ k \in ClientType /\ k.streams[s] \in StreamType
        /\ k.visible = c.visible /\ k.ref = None /\ k.draft = c.draft
        /\ k.newStreaming = c.newStreaming
    <2>1. k \in ClientType /\ k = [c EXCEPT !.streams[s].inbox = Tail(@)]
      BY <1>3 DEF Heard, Inv
    <2>2. k.visible = c.visible /\ k.ref = c.ref /\ k.draft = c.draft
          /\ k.newStreaming = c.newStreaming
      BY <1>1, <2>1 DEF ClientType
    <2> QED BY <2>1, <2>2 DEF ClientType, Blank, Empty
  <1>6. /\ k.streams[s].kind = "message" /\ ~k.streams[s].dead /\ k.streams[s].from = None
        /\ k.streams[s].key = <<c.visible, None>> /\ k.streams[s].state = "open"
    <2>1. k.streams[s] = [c.streams[s] EXCEPT !.inbox = Tail(@)]
      BY <1>3 DEF Heard
    <2>2. /\ k.streams[s].kind = c.streams[s].kind /\ k.streams[s].dead = c.streams[s].dead
          /\ k.streams[s].from = c.streams[s].from /\ k.streams[s].key = c.streams[s].key
          /\ k.streams[s].state = c.streams[s].state
      BY <1>1, <2>1 DEF StreamType
    <2> QED BY <1>2, <2>2 DEF First, Live
  <1>7. PICK view : view = View(Born, Main, {}) /\ view # None /\ view.id = Born
    <2>1. View(Born, Main, {}) # None
      BY NoneAssumption DEF Ids
    <2>2. View(Born, Main, {}).id = Born
      BY DEF View
    <2> QED BY <2>1, <2>2
  <1>8. Event(k, s, e) = OnThreadUpdate(k, s, view)
    BY <1>4, <1>6, <1>7 DEF Event, Applied
  <1>9. PICK x : /\ x = [k EXCEPT !.streams[s].view = view, !.streams[s].got = TRUE]
                 /\ Told(x, s, view, c.draft, c.newStreaming)
    <2>1. Told([k EXCEPT !.streams[s].view = view, !.streams[s].got = TRUE],
               s, view, c.draft, c.newStreaming)
      BY <1>5, <1>6 DEF Told, ClientType, StreamType
    <2> QED BY <2>1
  <1>10. PICK y : y = Cache(x, view) /\ Told(y, s, view, c.draft, c.newStreaming)
    <2>1. Told(Cache(x, view), s, view, c.draft, c.newStreaming)
      BY <1>9, FieldTold DEF Cache
    <2> QED BY <2>1
  <1>11. PICK z : z = Rekey(y, s, view.id) /\ Told(z, s, view, c.draft, c.newStreaming)
    <2>1. Told(Rekey(y, s, view.id), s, view, c.draft, c.newStreaming)
      BY <1>10, FieldTold DEF Rekey
    <2> QED BY <2>1
  <1>12. PICK h : h = Show(z, view) /\ Told(h, s, view, c.draft, c.newStreaming)
    <2>1. Told(Show(z, view), s, view, c.draft, c.newStreaming)
      BY <1>11, FieldTold DEF Show
    <2> QED BY <2>1
  <1>13. Event(k, s, e) = OnThreadChange(h, Born)
    <2>1. k.streams[s].key = Key(k, k.visible)
      BY <1>5, <1>6 DEF Key
    <2>2. k.streams[s].from # view.id
      BY <1>6, <1>7, ClientAssumption DEF Ids
    <2> QED BY <1>7, <1>8, <1>9, <1>10, <1>11, <1>12, <2>1, <2>2 DEF OnThreadUpdate
  <1>14. PICK r : r = [h EXCEPT !.draft = FALSE, !.wanted = Born]
    OBVIOUS
  <1>15. Event(k, s, e) = r
    BY <1>2, <1>12, <1>13, <1>14 DEF OnThreadChange, Told
  <1>16. Held(r, Born, s, h.streams[s]) /\ h.streams[s].state # "idle"
    BY <1>12, <1>14 DEF Told, Held
  <1>17. Born # None
    BY ClientAssumption
  <1>18. Held(c', Born, s, h.streams[s])
    BY <1>3, <1>15, <1>16, <1>17, ClientHeld
  <1> QED BY <1>2, <1>7, <1>12, <1>17, <1>18 DEF Held, Told, First, Live

\* What happens to the streams while no conversation is wanted.
LEMMA StreamsBlank ==
    ASSUME ChatInv(0), Blank(c), NEW streams, c' = [c EXCEPT !.streams = streams],
           \A s \in Streams :
              /\ streams[s].dead => c.streams[s].dead
              /\ Live(streams[s]) => Live(c.streams[s]) /\ First(streams[s], c.visible)
    PROVE  Blank(c') /\ c'.wanted = c.wanted
  <1>1. c \in ClientType
    BY DEF ChatInv, Inv
  <1>2. PICK r : r = [c EXCEPT !.streams = streams]
    OBVIOUS
  <1>3. SameEmpty(c, r) /\ r.newStreaming = c.newStreaming /\ r.streams = streams
    BY <1>1, <1>2 DEF ClientType, SameEmpty
  <1>4. Quieter(c, r)
    BY <1>3 DEF Quieter
  <1> QED BY <1>2, <1>4, QuieterBlank

\* A first message reaches the server, which makes its conversation.
LEMMA AcceptBlank ==
    ASSUME ChatInv(0), Blank(c), NEW s \in Streams, Accept(s)
    PROVE  Blank(c') /\ c'.wanted = c.wanted
  <1>1. /\ c \in ClientType /\ c.streams[s] \in StreamType /\ c.streams \in [Streams -> StreamType]
        /\ c.visible \notin Ids
    BY ClientAssumption DEF ChatInv, Inv, ClientType, Blank, Empty, Ids
  <1>2. PICK id, inbox : /\ c' = Opened(s, id, inbox)
                         /\ c.streams[s].state = "posting"
                         /\ (c.streams[s].kind = "message" /\ c.streams[s].target \notin Ids)
                               => inbox = <<New(Born)>>
    BY DEF Accept
  <1>3. PICK st : st = [c.streams[s] EXCEPT !.state = "open", !.hears = id, !.inbox = inbox]
    OBVIOUS
  <1>4. /\ st.dead = c.streams[s].dead /\ st.kind = c.streams[s].kind
        /\ st.target = c.streams[s].target /\ st.from = c.streams[s].from
        /\ st.first = c.streams[s].first /\ st.key = c.streams[s].key
        /\ st.got = c.streams[s].got /\ st.view = c.streams[s].view
        /\ st.inbox = inbox
    BY <1>1, <1>3 DEF StreamType
  <1>5. Live(st) => Live(c.streams[s]) /\ First(st, c.visible)
    <2>1. ASSUME Live(st)
          PROVE  Live(c.streams[s]) /\ First(c.streams[s], c.visible)
      BY <1>2, <1>4, <2>1 DEF Live, Blank, Firsts
    <2>2. ASSUME Live(st)
          PROVE  inbox # <<>> /\ inbox[1].type = "created"
      BY <1>1, <1>2, <2>1, <2>2 DEF First, New
    <2> QED BY <1>4, <2>1, <2>2 DEF First
  <1>6. PICK streams : streams = [c.streams EXCEPT ![s] = st]
    OBVIOUS
  <1>7. c' = [c EXCEPT !.streams = streams]
    BY <1>1, <1>2, <1>3, <1>6 DEF Opened, ClientType
  <1>8. \A x \in Streams : streams[x] = IF x = s THEN st ELSE c.streams[x]
    BY <1>1, <1>6
  <1>9. \A x \in Streams : Live(c.streams[x]) => First(c.streams[x], c.visible)
    BY DEF Blank, Firsts
  <1> QED BY <1>4, <1>5, <1>7, <1>8, <1>9, StreamsBlank

\* What a turn produces comes after what a stream has not received yet.
LEMMA PushBlank ==
    ASSUME ChatInv(0), Blank(c), NEW id, NEW events \in Seq(EventType), c' = Push(c, id, events)
    PROVE  Blank(c') /\ c'.wanted = c.wanted
  <1>1. c \in ClientType /\ c.streams \in [Streams -> StreamType]
    BY DEF ChatInv, Inv, ClientType
  <1>2. ASSUME NEW s \in Streams
        PROVE  /\ Hear(c.streams[s], id, events).dead => c.streams[s].dead
               /\ Live(Hear(c.streams[s], id, events)) =>
                    Live(c.streams[s]) /\ First(Hear(c.streams[s], id, events), c.visible)
    <2>1. PICK st \in StreamType : st = c.streams[s]
      BY <1>1
    <2>2. Live(st) => First(st, c.visible)
      BY <2>1 DEF Blank, Firsts
    <2>3. CASE ~(st.state = "open" /\ st.hears = id)
      BY <2>1, <2>2, <2>3 DEF Hear
    <2>4. CASE st.state = "open" /\ st.hears = id
      <3>1. PICK inbox \in Seq(EventType) : inbox = st.inbox
        BY DEF StreamType
      <3>2. inbox # <<>> => inbox \o events # <<>> /\ (inbox \o events)[1] = inbox[1]
        OBVIOUS
      <3>3. PICK r : r = [st EXCEPT !.inbox = @ \o events]
        OBVIOUS
      <3>4. /\ r.dead = st.dead /\ r.kind = st.kind /\ r.state = st.state
            /\ r.target = st.target /\ r.from = st.from
            /\ r.first = st.first /\ r.key = st.key
            /\ r.got = st.got /\ r.view = st.view
            /\ r.inbox = inbox \o events
        BY <3>1, <3>3 DEF StreamType
      <3>5. Live(r) => Live(st) /\ First(r, c.visible)
        BY <2>2, <3>1, <3>2, <3>4 DEF Live, First
      <3> QED BY <2>1, <2>4, <3>3, <3>4, <3>5 DEF Hear
    <2> QED BY <2>3, <2>4
  <1>3. PICK streams : streams = [s \in Streams |-> Hear(c.streams[s], id, events)]
    OBVIOUS
  <1>4. \A s \in Streams : /\ streams[s].dead => c.streams[s].dead
                           /\ Live(streams[s]) => /\ Live(c.streams[s])
                                                  /\ First(streams[s], c.visible)
    BY <1>2, <1>3
  <1> QED BY <1>3, <1>4, StreamsBlank DEF Push

\* A stream of a replaced instance hears something.
LEMMA ReceiveBlank ==
    ASSUME ChatInv(0), Blank(c), c.wanted = None, NEW s \in Streams, c.streams[s].dead, Receive(s)
    PROVE  Blank(c') /\ c'.wanted = None
  <1>1. c \in ClientType /\ Main \in Named(srv) /\ c.streams[s] \in StreamType
    BY ServerFacts DEF ChatInv, Inv, ClientType
  <1>2. PICK k, e : Heard(0, k, s, e) /\ Client(Event(k, s, e))
    BY ReceivedEvent
  <1>3. k.streams[s].dead
    <2>1. k.streams[s] = [c.streams[s] EXCEPT !.inbox = Tail(@)]
      BY <1>2 DEF Heard
    <2> QED BY <1>1, <2>1 DEF StreamType
  <1>4. SameEmpty(c, k) /\ k.newStreaming = c.newStreaming
    <2>1. k = [c EXCEPT !.streams[s].inbox = Tail(@)]
      BY <1>2 DEF Heard
    <2> QED BY <1>1, <2>1 DEF ClientType, SameEmpty
  <1>5. \A x \in Streams \ {s} : k.streams[x] = c.streams[x]
    BY <1>2 DEF Heard
  <1>6. Quieter(c, k)
    BY <1>3, <1>4, <1>5 DEF Quieter, Blank, Firsts, Live
  <1>7. Blank(k) /\ k.wanted = None /\ Inv(0, k, srv)
    BY <1>2, <1>6, QuieterBlank DEF Heard
  <1>8. Blank(Event(k, s, e)) /\ Event(k, s, e).wanted = None
    BY <1>3, <1>7, DeadEventBlank
  <1>9. Event(k, s, e) \in ClientType
    BY <1>1, <1>2, StreamEventInv DEF Heard, Inv
  <1> QED BY <1>1, <1>2, <1>8, <1>9, ClientBlank

\* While no conversation is wanted, only the user and the first message change that.
LEMMA BlankStep ==
    ASSUME ~AutoStart, ChatInv(0), left["blanks"] = 0, c.wanted = None, Blank(c), Next
    PROVE  \/ c'.wanted = None /\ Blank(c')
           \/ c'.wanted # None /\ \E id \in Ids : ThreadSelect(id)
           \/ /\ c'.wanted # None
              /\ \E s \in Streams :
                   /\ ~c.streams[s].dead /\ c.streams[s].target = c.visible
                   /\ c'.streams[s].view # None /\ c'.streams[s].view.id = c'.wanted
  <1>1. /\ c \in ClientType /\ left \in [Bounded -> Nat] /\ Inv(0, c, srv)
        /\ c.streams \in [Streams -> StreamType] /\ left["clicks"] = 0
    BY DEF ChatInv, Inv, ClientType
  <1>2. /\ c.thread = None /\ c.calls = <<>> /\ c.visible \notin Ids
        /\ \A i : i \notin DOMAIN c.calls
    BY <1>1, ClientAssumption DEF Blank, Empty, ClientType, Ids
  <1>3. \A k \in ClientType : Blank(k) /\ k.wanted = None /\ Client(k)
                                => Blank(c') /\ c'.wanted = None
    BY <1>1, ClientBlank
  <1>4. \A s \in Streams : c.streams[s].kind # "click"
    BY DEF ChatInv, Inv, StreamsGood, StreamGood
  <1>5. CASE SendUserMessage
    <2>1. \A s \in Streams : ~c.streams[s].dead
      BY <1>4, <1>5 DEF SendUserMessage
    <2>2. Blank(Sent(c)) /\ Sent(c).wanted = None /\ Sent(c) \in ClientType
      BY <1>1, <1>5, <2>1, SentBlank, SentInv DEF SendUserMessage, Inv
    <2> QED BY <1>3, <1>5, <2>2 DEF SendUserMessage
  <1>6. CASE NewConversation
    <2>1. PICK r : r = [c EXCEPT !.draft = TRUE, !.newStreaming = FALSE]
      OBVIOUS
    <2>2. r \in ClientType /\ r.draft /\ ~r.newStreaming
      BY <1>1, <2>1 DEF ClientType
    <2> QED BY <1>6, <2>1, <2>2, RemountBlank DEF NewConversation
  <1>7. CASE Focus
    <2>1. FetchUpdates(c) = c
      BY <1>2 DEF FetchUpdates
    <2> QED BY <1>1, <1>3, <1>7, <2>1 DEF Focus
  <1>8. CASE LiveEdit
    BY <1>8 DEF LiveEdit
  <1>9. CASE \E id \in Ids : ThreadSelect(id)
    <2>1. PICK id \in Ids : ThreadSelect(id)
      BY <1>9
    <2>2. id # None
      BY ClientAssumption DEF Ids
    <2>3. Wanting([c EXCEPT !.draft = FALSE, !.wanted = id])
      BY <1>1, <2>2 DEF Wanting, ClientType
    <2>4. c'.wanted # None
      BY <2>1, <2>3, ClientWanting DEF ThreadSelect
    <2> QED BY <1>9, <2>4
  <1>10. CASE \E s \in Streams : StreamFails(s)
    <2>1. PICK s \in Streams : StreamFails(s)
      BY <1>10
    <2>2. Client(Finally(c, s))
      BY <1>4, <2>1 DEF StreamFails
    <2>3. Finally(c, s) \in ClientType
      BY <1>1, FinallyInv DEF Inv
    <2> QED BY <1>1, <1>3, <2>2, <2>3, OverBlank
  <1>11. CASE \E s \in Streams : Abort(s)
    <2>1. PICK s \in Streams : Client(Finally(c, s))
      BY <1>11 DEF Abort
    <2>2. Finally(c, s) \in ClientType
      BY <1>1, FinallyInv DEF Inv
    <2> QED BY <1>1, <1>3, <2>1, <2>2, OverBlank
  <1>12. CASE UnmountTimeout
    <2>1. PICK streams : streams = [s \in Streams |->
             IF c.streams[s].dead /\ c.streams[s].kind # "click" THEN NoStream ELSE c.streams[s]]
      OBVIOUS
    <2>2. ~NoStream.dead /\ ~Live(NoStream)
      BY DEF NoStream, Live
    <2>3. c' = [c EXCEPT !.streams = streams]
      BY <1>12, <2>1 DEF UnmountTimeout
    <2>4. \A s \in Streams : /\ streams[s].dead => c.streams[s].dead
                             /\ Live(streams[s]) => /\ Live(c.streams[s])
                                                    /\ First(streams[s], c.visible)
      BY <2>1, <2>2 DEF Blank, Firsts
    <2> QED BY <2>3, <2>4, StreamsBlank
  <1>13. CASE \E id \in Ids : Produce(id)
    <2>1. PICK id \in Ids : Produce(id)
      BY <1>13
    <2>2. PICK f : f = srv.items + 1 /\ f \in Int
      BY ServerFacts DEF ChatInv
    <2>3. Item(f) \in EventType /\ Done \in EventType
      BY <2>2 DEF Item, Done, EventType
    <2>4. <<Item(f), Done>> \in Seq(EventType) /\ <<Item(f)>> \in Seq(EventType)
      BY <2>3
    <2>5. PICK events \in Seq(EventType) : c' = Push(c, id, events)
      BY <2>1, <2>2, <2>4 DEF Produce
    <2> QED BY <2>5, PushBlank
  <1>14. CASE \E s \in Streams : Accept(s)
    BY <1>14, AcceptBlank
  <1>15. CASE \E s \in Streams : Receive(s)
    <2>1. PICK s \in Streams : Receive(s)
      BY <1>15
    <2>2. CASE c.streams[s].dead
      BY <2>1, <2>2, ReceiveBlank
    <2>3. CASE ~c.streams[s].dead
      <3>1. Live(c.streams[s])
        BY <2>1, <2>3 DEF Receive, Live
      <3> QED BY <2>1, <3>1, FirstEvent
    <2> QED BY <2>2, <2>3
  <1>16. ~CustomAction /\ ~Poll /\ ~NewThread /\ ~LoadOlder
    BY <1>1, <1>2 DEF CustomAction, Poll, NewThread, LoadOlder, May
  <1>17. ~\E b \in Branches : SwitchBranch(b) \/ EditMessage(b)
    BY <1>2 DEF SwitchBranch, EditMessage
  <1>18. ~\E i \in DOMAIN c.calls : CallFails(i) \/ Serve(i) \/ Return(i)
    BY <1>2
  <1>19. CASE \E id \in Ids : LateNotFound(id)
    <2>1. PICK id \in Ids : c' = OnThreadNotFound([c EXCEPT !.orphans = @ \ {id}])
      BY <1>19 DEF LateNotFound
    <2>2. PICK r : r = [[c EXCEPT !.orphans = @ \ {id}] EXCEPT !.draft = TRUE,
                                                             !.newStreaming = FALSE]
      OBVIOUS
    <2>3. r \in ClientType /\ r.draft /\ ~r.newStreaming
      BY <1>1, <2>2 DEF ClientType
    <2> QED BY <2>1, <2>2, <2>3, RemountBlank DEF OnThreadNotFound
  <1>20. CASE \E s \in Streams : AwaitAction(s)
    <2>1. PICK id : Client(NotLoading(c, id))
      BY <1>20 DEF AwaitAction
    <2>2. PICK r : r = NotLoading(c, id) /\ r \in ClientType
      BY <1>1, NotLoadingInv DEF Inv
    <2>3. SameEmpty(c, r) /\ r.streams = c.streams /\ r.newStreaming = c.newStreaming
      BY <1>1, <2>2 DEF NotLoading, ClientType, SameEmpty
    <2>4. Quieter(c, r)
      BY <2>3 DEF Quieter, Blank, Firsts
    <2>5. Blank(r) /\ r.wanted = None
      BY <2>4, QuieterBlank
    <2> QED BY <1>3, <2>1, <2>2, <2>5
  <1> QED BY <1>5, <1>6, <1>7, <1>8, <1>9, <1>10, <1>11, <1>12, <1>13, <1>14, <1>15, <1>16, <1>17,
             <1>18, <1>19, <1>20 DEF Next, System

\* The window is as ChatInv says, and blank while no conversation is wanted.
StaysInv == ChatInv(0) /\ left["blanks"] = 0 /\ (c.wanted = None => Blank(c))

\* The header's button, unused, stays so.
LEMMA BlanksLeft ==
    ASSUME ChatInv(0), left["blanks"] = 0, [Next]_vars
    PROVE  left'["blanks"] = 0
  <1>1. left \in [Bounded -> Nat]
    BY DEF ChatInv
  <1>2. \/ left' = left
        \/ \E what \in Bounded : May(what) /\ Once(what)
    <2>1. CASE System
      BY <2>1 DEF System, Poll, UnmountTimeout, Produce, Accept, Receive, Abort, Serve, Return,
                  LateNotFound, Bounded
    <2>2. CASE \/ SendUserMessage \/ NewConversation \/ NewThread \/ Focus \/ CustomAction
               \/ LiveEdit \/ LoadOlder
      BY <2>2 DEF SendUserMessage, NewConversation, NewThread, Focus, CustomAction, LiveEdit,
                  LoadOlder, Bounded
    <2>3. CASE \/ \E id \in Ids : ThreadSelect(id)
               \/ \E b \in Branches : SwitchBranch(b) \/ EditMessage(b)
               \/ \E s \in Streams : StreamFails(s) \/ AwaitAction(s)
               \/ \E i \in DOMAIN c.calls : CallFails(i)
      BY <2>3 DEF ThreadSelect, SwitchBranch, EditMessage, StreamFails, AwaitAction, CallFails,
                  Bounded
    <2>4. CASE UNCHANGED vars
      BY <2>4 DEF vars
    <2> QED BY <2>1, <2>2, <2>3, <2>4 DEF Next
  <1> QED BY <1>1, <1>2, OnceKeeps

\* A window is opened on a conversation or blank.
LEMMA InitStays ==
    ASSUME Init, left["clicks"] = 0, left["blanks"] = 0
    PROVE  StaysInv
  <1>1. ChatInv(0)
    BY InitInv
  <1>2. PICK start \in Starts : c = IF start.wanted = None THEN Instance(None, 1)
                                    ELSE Load(Instance(start.wanted, 1))
    BY DEF Init
  <1>3. CASE start.wanted = None
    <2>1. Empty(c) /\ c.streams = [s \in Streams |-> NoStream]
      BY <1>2, <1>3 DEF Instance, Empty
    <2>2. ~NoStream.dead /\ ~Live(NoStream)
      BY DEF NoStream, Live
    <2>3. Blank(c)
      BY <2>1, <2>2 DEF Blank, Firsts
    <2> QED BY <1>1, <2>3 DEF StaysInv
  <1>4. CASE start.wanted # None
    <2>1. Wanting(Instance(start.wanted, 1))
      BY <1>4 DEF Wanting, Instance
    <2>2. c.wanted # None
      BY <1>2, <1>4, <2>1, AskWanting DEF Wanting
    <2> QED BY <1>1, <2>2 DEF StaysInv
  <1> QED BY <1>3, <1>4

\* Every step keeps this.
LEMMA NextStays ==
    ASSUME ~AutoStart, StaysInv, [Next]_vars
    PROVE  StaysInv'
  <1>1. ChatInv(0)' /\ left'["blanks"] = 0
    BY NextInv, BlanksLeft DEF StaysInv
  <1>2. CASE UNCHANGED vars
    BY <1>1, <1>2 DEF StaysInv, vars, Blank, Empty, Firsts
  <1>3. CASE Next /\ c.wanted = None
    <2>1. c'.wanted = None => Blank(c')
      BY <1>3, BlankStep DEF StaysInv
    <2> QED BY <1>1, <2>1 DEF StaysInv, Blank, Empty, Firsts
  <1>4. CASE Next /\ c.wanted # None
    <2>1. c'.wanted = None => Blank(c')
      BY <1>4, WantingStep DEF StaysInv
    <2> QED BY <1>1, <2>1 DEF StaysInv, Blank, Empty, Firsts
  <1> QED BY <1>2, <1>3, <1>4

\* Where no workflow sends a message within 100 ms of "+", and the users use neither a
\* widget nor the button of the header, a new conversation stays until another one is
\* chosen or its own first message gives it an identifier.  Each hypothesis is needed.
THEOREM NewStays ==
    ~AutoStart => (Spec /\ left["clicks"] = 0 /\ left["blanks"] = 0 => NewConversationKept)
  <1> SUFFICES ASSUME ~AutoStart
               PROVE  Spec /\ left["clicks"] = 0 /\ left["blanks"] = 0 => NewConversationKept
    OBVIOUS
  <1>1. Init /\ left["clicks"] = 0 /\ left["blanks"] = 0 => StaysInv
    BY InitStays
  <1>2. StaysInv /\ [Next]_vars => StaysInv'
    BY NextStays
  <1>3. StaysInv /\ [Next]_vars =>
          [(c.wanted = None /\ c'.wanted # None) =>
             \/ \E id \in Ids : ThreadSelect(id)
             \/ \E s \in Streams :
                   /\ ~c.streams[s].dead /\ c.streams[s].target = c.visible
                   /\ c'.streams[s].view # None /\ c'.streams[s].view.id = c'.wanted]_vars
    <2> SUFFICES ASSUME StaysInv, Next, c.wanted = None, c'.wanted # None
                 PROVE  \/ \E id \in Ids : ThreadSelect(id)
                        \/ \E s \in Streams :
                              /\ ~c.streams[s].dead /\ c.streams[s].target = c.visible
                              /\ c'.streams[s].view # None /\ c'.streams[s].view.id = c'.wanted
      OBVIOUS
    <2> QED BY BlankStep DEF StaysInv
  <1> QED BY <1>1, <1>2, <1>3, PTL DEF Spec, NewConversationKept

=============================================================================
