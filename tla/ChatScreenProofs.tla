-------------------------- MODULE ChatScreenProofs --------------------------
(***************************************************************************)
(* Proofs about the chat window: the inductive invariant of the client and *)
(* what each of the hooks' operations does to it.  The theorems are in     *)
(* ChatClientProofs.                                                       *)
(***************************************************************************)
EXTENDS ChatClient, SequenceTheorems, TLAPS

-----------------------------------------------------------------------------
(* The inductive invariant                                                 *)

Ops == {"load", "refresh", "rewrite", "branches", "switch", "fork", "poll", "older"}
Fetches == {"load", "refresh", "rewrite", "older"}
CallType ==
    [op : Ops, id : Ids, asked : Branches \cup {None}, was : Branches,
     state : {"asked", "answered", "refused"},
     reply : ViewType \cup Branches \cup Nat \cup {None}]

\* Maps from some keys to views, and to streams.
Caches == UNION {[D -> ViewType] : D \in SUBSET Keys}
Controllers == UNION {[D -> Streams \cup {None}] : D \in SUBSET Keys}

ClientType ==
    [wanted : Ids \cup {None}, thread : ViewType \cup {None}, visible : Ids \cup Nat,
     ref : Branches \cup {None}, cache : Caches, loading : SUBSET Keys,
     controllers : Controllers, current : Branches, loaded : BOOLEAN,
     branchesOf : Ids \cup {None}, resumed : SUBSET Ids, since : Nat, temps : Nat,
     draft : BOOLEAN, newStreaming : BOOLEAN, streams : [Streams -> StreamType],
     orphans : SUBSET Ids, calls : Seq(CallType)]

\* What the server w has of a conversation on any branch, with the items before the
\* newest page and those that strayed, the branches it made, and the conversation that
\* a stream to x is about.
Facts(w, id) == (UNION {w.facts[id][b] : b \in Branches}) \cup w.old[id] \cup w.strays[id]
Named(w) == UNION {w.branches[id] : id \in Ids}
Conv(x) == IF x \in Ids THEN x ELSE Born

\* A view of what the server has.
Good(v, w) == v \in ViewType /\ v.branch \in Named(w) /\ v.has \subseteq Facts(w, v.id)

EventGood(e, st, w) ==
    /\ e.type = "item" => e.fact \in Facts(w, Conv(st.target))
    /\ e.type = "created" => e.id = Born /\ st.target \notin Ids

\* A stream is about one conversation, whatever it is called meanwhile.
About(v, st, w) == Good(v, w) /\ v.id = Conv(st.target)
Keyed(st) ==
    /\ st.first \in Keys /\ st.first[1] = st.target
    /\ st.key \in Keys /\ st.key[1] = IF st.got THEN Conv(st.target) ELSE st.target
\* uses = 0 says that no widget is ever used.
StreamGood(uses, st, w) ==
    /\ st.asked \in Named(w) \cup {None}
    /\ st.kind = "none" => /\ st.view = None /\ ~st.got
                           /\ st.hears = None /\ st.inbox = <<>>
    /\ st.hears \in {None, Conv(st.target)}
    /\ st.kind \in {"resume", "click"} => st.target \in Ids
    /\ st.kind \in {"message", "resume"} => Keyed(st)
    /\ st.view # None \/ st.got \/ st.kind = "click" => About(st.view, st, w)
    /\ \A i \in DOMAIN st.inbox : EventGood(st.inbox[i], st, w)
    /\ uses = 0 => st.kind # "click"

ReplyGood(call, w) ==
    /\ call.op \in Fetches => Good(call.reply, w) /\ call.reply.id = call.id
    /\ call.op \in {"branches", "switch", "fork"} => call.reply \in Named(w)
    /\ call.op = "poll" => call.reply \in 0..w.edited
CallGood(call, w) ==
    /\ call.was \in Named(w)
    /\ call.op # "fork" => call.asked \in Named(w) \cup {None}
    /\ call.op \in {"switch", "fork"} => call.asked \in Branches
    /\ call.state = "answered" => ReplyGood(call, w)

\* A fork asks for a branch that nobody has.
Forks(calls) == {i \in DOMAIN calls : calls[i].op = "fork"}
ForksGood(calls, w) ==
    /\ \A i \in Forks(calls) : calls[i].state = "asked" => calls[i].asked \notin Named(w)
    /\ \A i, j \in Forks(calls) : i # j => calls[i].asked # calls[j].asked

Names(k, w) ==
    k.ref \in Named(w) \cup {None} /\ k.current \in Named(w) /\ k.since <= w.edited
CacheGood(cache, w) == \A x \in DOMAIN cache : Good(cache[x], w) /\ cache[x].id = x[1]
Screen(uses, k, w) ==
    /\ k.thread # None => Good(k.thread, w)
    /\ uses = 0 /\ k.thread # None => k.thread.id = k.visible
    /\ CacheGood(k.cache, w)
StreamsGood(uses, streams, w) == \A s \in Streams : StreamGood(uses, streams[s], w)
CallsGood(calls, w) == \A i \in DOMAIN calls : CallGood(calls[i], w)

\* The client.  Forks are apart, since a new branch takes a fork off the list.
Inv(uses, k, w) ==
    /\ k \in ClientType /\ Names(k, w) /\ Screen(uses, k, w)
    /\ StreamsGood(uses, k.streams, w) /\ CallsGood(k.calls, w) /\ ForksGood(k.calls, w)

ServerInv(w) ==
    /\ w \in ServerType /\ Main \in Named(w)
    /\ \A id \in Ids :
         /\ w.cur[id] \in Named(w)
         /\ w.turn[id] # None => w.turn[id].branch \in Named(w) \cup {None}
         /\ \A b \in Branches : w.facts[id][b] \subseteq -w.edited..w.items
         /\ \A b \in Branches : b \notin Named(w) =>
              \A d \in Branches : w.facts[id][b] \subseteq w.facts[id][d] \cap -w.edited..-1

ChatInv(uses) ==
    /\ Inv(uses, c, srv) /\ ServerInv(srv)
    /\ left \in [Bounded -> Nat] /\ (uses = 0 => left["clicks"] = 0)
    /\ net \in {"reliable", "wild"}

-----------------------------------------------------------------------------
(* Maps                                                                    *)

\* What a map to V has on some keys.
LEMMA MapFacts ==
    ASSUME NEW V, NEW f \in UNION {[D -> V] : D \in SUBSET Keys}
    PROVE  DOMAIN f \subseteq Keys /\ (\A x \in DOMAIN f : f[x] \in V)
  OBVIOUS

\* A view is put into a cache.
LEMMA PutCache ==
    ASSUME NEW w, NEW f \in Caches, CacheGood(f, w), NEW x \in Keys, NEW v, Good(v, w),
           x[1] = v.id
    PROVE  Put(f, x, v) \in Caches /\ CacheGood(Put(f, x, v), w)
  <1>1. DOMAIN f \cup {x} \in SUBSET Keys /\ \A y \in DOMAIN f : f[y] \in ViewType
    BY MapFacts DEF Caches
  <1>2. Put(f, x, v) \in [DOMAIN f \cup {x} -> ViewType]
    BY <1>1 DEF Put, Good
  <1>3. Put(f, x, v) \in Caches
    BY <1>1, <1>2 DEF Caches
  <1>4. CacheGood(Put(f, x, v), w)
    BY DEF Put, CacheGood
  <1> QED BY <1>3, <1>4

\* A stream is put among the controllers, or some are removed.
LEMMA PutController ==
    ASSUME NEW f \in Controllers, NEW x \in Keys, NEW s \in Streams, NEW xs
    PROVE  Put(f, x, s) \in Controllers /\ Without(f, xs) \in Controllers
  <1>1. DOMAIN f \cup {x} \in SUBSET Keys /\ \A y \in DOMAIN f : f[y] \in Streams \cup {None}
    BY MapFacts DEF Controllers
  <1>2. Put(f, x, s) \in [DOMAIN f \cup {x} -> Streams \cup {None}]
    BY <1>1 DEF Put
  <1>3. DOMAIN f \ xs \in SUBSET Keys /\ Without(f, xs) \in [DOMAIN f \ xs -> Streams \cup {None}]
    BY <1>1 DEF Without
  <1> QED BY <1>1, <1>2, <1>3 DEF Controllers

\* So are the controllers when a stream is no more.
LEMMA ClearMap ==
    ASSUME NEW f \in Controllers, NEW s
    PROVE  [x \in DOMAIN f |-> IF f[x] = s THEN None ELSE f[x]] \in Controllers
  <1>1. DOMAIN f \in SUBSET Keys /\ \A y \in DOMAIN f : f[y] \in Streams \cup {None}
    BY MapFacts DEF Controllers
  <1>2. [x \in DOMAIN f |-> IF f[x] = s THEN None ELSE f[x]] \in [DOMAIN f -> Streams \cup {None}]
    BY <1>1
  <1> QED BY <1>1, <1>2 DEF Controllers

\* The key of a conversation.
LEMMA KeyType ==
    ASSUME NEW uses, NEW w, NEW k, Inv(uses, k, w), NEW id \in Ids \cup Nat
    PROVE  Key(k, id) \in Keys /\ Key(k, id)[1] = id
  BY DEF Inv, ClientType, Key, Keys

\* What is cached is what the server has of that conversation.
LEMMA CachedGood ==
    ASSUME NEW uses, NEW w, NEW k, Inv(uses, k, w), NEW id, Cached(k, id) # None
    PROVE  Good(Cached(k, id), w) /\ Cached(k, id) \in ViewType /\ Cached(k, id).id = id
  BY DEF Inv, Screen, CacheGood, Cached, Key, Good

-----------------------------------------------------------------------------
(* Parts of the client that only have a type                               *)

\* r streams what k streams.
KeepsStreams(k, r) == r.streams = k.streams

\* The conversation, streams and calls of r are those of k.
Same(k, r) ==
    /\ r.thread = k.thread /\ r.visible = k.visible /\ r.cache = k.cache
    /\ r.streams = k.streams /\ r.calls = k.calls
    /\ r.ref = k.ref /\ r.current = k.current /\ r.since = k.since

\* A client that differs in the other fields.
LEMMA SameInv ==
    ASSUME NEW uses, NEW w, NEW k, Inv(uses, k, w), NEW r \in ClientType, Same(k, r)
    PROVE  Inv(uses, r, w)
  BY DEF Inv, Same, Names, Screen

\* Another conversation is wanted.
LEMMA WantedInv ==
    ASSUME NEW uses, NEW w, NEW k, Inv(uses, k, w), NEW id \in Ids \cup {None}
    PROVE  Inv(uses, [k EXCEPT !.wanted = id], w)
  <1>1. k \in ClientType
    BY DEF Inv
  <1>2. [k EXCEPT !.wanted = id] \in ClientType
    BY <1>1 DEF ClientType
  <1>3. Same(k, [k EXCEPT !.wanted = id])
    BY <1>1 DEF ClientType, Same
  <1> QED BY <1>2, <1>3, SameInv

\* Another conversation is chosen.
LEMMA ChosenInv ==
    ASSUME NEW uses, NEW w, NEW k, Inv(uses, k, w), NEW id \in Ids \cup {None}
    PROVE  Inv(uses, [k EXCEPT !.draft = FALSE, !.wanted = id], w)
  <1>1. k \in ClientType
    BY DEF Inv
  <1>2. [k EXCEPT !.draft = FALSE, !.wanted = id] \in ClientType
    BY <1>1 DEF ClientType
  <1>3. Same(k, [k EXCEPT !.draft = FALSE, !.wanted = id])
    BY <1>1 DEF ClientType, Same
  <1> QED BY <1>2, <1>3, SameInv

\* A new conversation streams, or not.
LEMMA StreamingInv ==
    ASSUME NEW uses, NEW w, NEW k, Inv(uses, k, w), NEW n \in BOOLEAN
    PROVE  Inv(uses, [k EXCEPT !.newStreaming = n], w)
  <1>1. k \in ClientType
    BY DEF Inv
  <1>2. [k EXCEPT !.newStreaming = n] \in ClientType
    BY <1>1 DEF ClientType
  <1>3. Same(k, [k EXCEPT !.newStreaming = n])
    BY <1>1 DEF ClientType, Same
  <1> QED BY <1>2, <1>3, SameInv

\* A new conversation is asked for.
LEMMA DraftInv ==
    ASSUME NEW uses, NEW w, NEW k, Inv(uses, k, w)
    PROVE  Inv(uses, [k EXCEPT !.draft = TRUE, !.newStreaming = FALSE], w)
  <1>1. k \in ClientType
    BY DEF Inv
  <1>2. [k EXCEPT !.draft = TRUE, !.newStreaming = FALSE] \in ClientType
    BY <1>1 DEF ClientType
  <1>3. Same(k, [k EXCEPT !.draft = TRUE, !.newStreaming = FALSE])
    BY <1>1 DEF ClientType, Same
  <1> QED BY <1>2, <1>3, SameInv

\* The page notes whether it is on a draft.
LEMMA SyncDraftInv ==
    ASSUME NEW uses, NEW w, NEW k, Inv(uses, k, w)
    PROVE  Inv(uses, SyncDraft(k), w)
  <1>1. k \in ClientType
    BY DEF Inv
  <1>2. SyncDraft(k) \in ClientType
    BY <1>1 DEF ClientType, SyncDraft
  <1>3. Same(k, SyncDraft(k))
    BY <1>1 DEF ClientType, Same, SyncDraft
  <1> QED BY <1>2, <1>3, SameInv

\* What is loading, and the streams that can be aborted.
LEMMA LoadingInv ==
    ASSUME NEW uses, NEW w, NEW k, Inv(uses, k, w), NEW loading \in SUBSET Keys
    PROVE  Inv(uses, [k EXCEPT !.loading = loading], w)
  <1>1. k \in ClientType
    BY DEF Inv
  <1>2. [k EXCEPT !.loading = loading] \in ClientType
    BY <1>1 DEF ClientType
  <1>3. Same(k, [k EXCEPT !.loading = loading])
    BY <1>1 DEF ClientType, Same
  <1> QED BY <1>2, <1>3, SameInv

-----------------------------------------------------------------------------
(* Calls                                                                   *)

\* A list of calls and one more.
LEMMA OneMoreCall ==
    ASSUME NEW w, NEW calls \in Seq(CallType), CallsGood(calls, w), ForksGood(calls, w),
           NEW q \in CallType, CallGood(q, w),
           q.op = "fork" => /\ q.asked \notin Named(w)
                            /\ \A i \in Forks(calls) : calls[i].asked # q.asked
    PROVE  /\ Append(calls, q) \in Seq(CallType)
           /\ CallsGood(Append(calls, q), w) /\ ForksGood(Append(calls, q), w)
  <1>0. Append(calls, q) \in Seq(CallType)
    OBVIOUS
  <1>1. PICK more \in Seq(CallType) : more = Append(calls, q)
    BY <1>0
  <1>a. Len(calls) \in Nat /\ DOMAIN calls = 1 .. Len(calls)
    OBVIOUS
  <1>2. /\ DOMAIN more = 1 .. Len(calls) + 1 /\ more[Len(calls) + 1] = q
        /\ \A i \in DOMAIN calls : more[i] = calls[i]
    BY <1>1, <1>a
  <1>3. \A i \in DOMAIN more : i \in DOMAIN calls \/ (more[i] = q /\ i = Len(calls) + 1)
    BY <1>2, <1>a
  <1>4. CallsGood(more, w)
    BY <1>2, <1>3 DEF CallsGood
  <1>5. \A i \in Forks(more) : i \in Forks(calls) \/ (more[i] = q /\ i = Len(calls) + 1)
    BY <1>2, <1>3 DEF Forks
  <1>6. \A i \in Forks(calls) : i \in DOMAIN calls /\ more[i] = calls[i]
    BY <1>2 DEF Forks
  <1>7. \A i \in Forks(more) : more[i].op = "fork"
    BY DEF Forks
  <1>8. ForksGood(more, w)
    BY <1>5, <1>6, <1>7 DEF ForksGood
  <1> QED BY <1>1, <1>4, <1>8

\* What the client may ask for.
Askable(k, op, id, branch, w) ==
    /\ op \in Ops /\ id \in Ids /\ branch \in Branches \cup {None}
    /\ op # "fork" => branch \in Named(w) \cup {None}
    /\ op \in {"switch", "fork"} => branch \in Branches
    /\ op = "fork" => /\ branch \notin Named(w)
                      /\ \A i \in Forks(k.calls) : k.calls[i].asked # branch

\* A call is made.
LEMMA AskInv ==
    ASSUME NEW uses, NEW w, NEW k, Inv(uses, k, w), NEW op, NEW id, NEW branch,
           Askable(k, op, id, branch, w)
    PROVE  Inv(uses, Ask(k, op, id, branch), w) /\ KeepsStreams(k, Ask(k, op, id, branch))
  <1>1. k \in ClientType
    BY DEF Inv
  <1>2. PICK q \in CallType : q = [op |-> op, id |-> id, asked |-> branch, was |-> k.current,
                                  state |-> "asked", reply |-> None]
    BY <1>1 DEF Askable, CallType, ClientType
  <1>3. CallGood(q, w)
    BY <1>2 DEF Askable, CallGood, Inv, Names
  <1>4. k.calls \in Seq(CallType) /\ CallsGood(k.calls, w) /\ ForksGood(k.calls, w)
    BY <1>1 DEF Inv, ClientType
  <1>5. /\ Append(k.calls, q) \in Seq(CallType)
        /\ CallsGood(Append(k.calls, q), w) /\ ForksGood(Append(k.calls, q), w)
    BY <1>2, <1>3, <1>4, OneMoreCall DEF Askable
  <1>6. PICK r \in ClientType : r = [k EXCEPT !.calls = Append(@, q)]
    BY <1>1, <1>5 DEF ClientType
  <1>7. /\ r.thread = k.thread /\ r.visible = k.visible /\ r.cache = k.cache
        /\ r.streams = k.streams /\ r.calls = Append(k.calls, q)
        /\ r.ref = k.ref /\ r.current = k.current /\ r.since = k.since
    BY <1>1, <1>6 DEF ClientType
  <1>8. Inv(uses, r, w)
    BY <1>5, <1>7 DEF Inv, Names, Screen
  <1> QED BY <1>2, <1>6, <1>7, <1>8 DEF Ask, KeepsStreams

-----------------------------------------------------------------------------
(* The screen and the cache                                                *)

\* A view comes on the screen.
LEMMA ShowInv ==
    ASSUME NEW uses, NEW w, NEW k, Inv(uses, k, w), NEW v, Good(v, w)
    PROVE  Inv(uses, Show(k, v), w) /\ KeepsStreams(k, Show(k, v))
  <1>1. k \in ClientType /\ v \in ViewType /\ v.id \in Ids
    BY DEF Inv, Good, ViewType
  <1>2. PICK r \in ClientType : r = Show(k, v)
    BY <1>1 DEF ClientType, Show
  <1>3. /\ r.thread = v /\ r.visible = v.id /\ r.cache = k.cache
        /\ r.streams = k.streams /\ r.calls = k.calls
        /\ r.ref = k.ref /\ r.current = k.current /\ r.since = k.since
    BY <1>1, <1>2 DEF ClientType, Show
  <1>4. Inv(uses, r, w)
    BY <1>3 DEF Inv, Names, Screen
  <1> QED BY <1>2, <1>3, <1>4 DEF KeepsStreams

\* A view stays on the screen, with what came since.
LEMMA ScreenInv ==
    ASSUME NEW uses, NEW w, NEW k, Inv(uses, k, w), NEW v, Good(v, w),
           uses = 0 => v.id = k.visible
    PROVE  Inv(uses, [k EXCEPT !.thread = v], w) /\ KeepsStreams(k, [k EXCEPT !.thread = v])
  <1>1. k \in ClientType /\ v \in ViewType
    BY DEF Inv, Good
  <1>2. PICK r \in ClientType : r = [k EXCEPT !.thread = v]
    BY <1>1 DEF ClientType
  <1>3. /\ r.thread = v /\ r.visible = k.visible /\ r.cache = k.cache
        /\ r.streams = k.streams /\ r.calls = k.calls
        /\ r.ref = k.ref /\ r.current = k.current /\ r.since = k.since
    BY <1>1, <1>2 DEF ClientType
  <1>4. Inv(uses, r, w)
    BY <1>3 DEF Inv, Names, Screen
  <1> QED BY <1>2, <1>3, <1>4 DEF KeepsStreams

\* No conversation is on the screen.
LEMMA TempThreadInv ==
    ASSUME NEW uses, NEW w, NEW k, Inv(uses, k, w)
    PROVE  Inv(uses, TempThread(k), w)
  <1>1. k \in ClientType /\ k.temps + 1 \in Nat
    BY DEF Inv, ClientType
  <1>2. PICK r \in ClientType : r = TempThread(k)
    BY <1>1 DEF ClientType, TempThread
  <1>3. /\ r.thread = None /\ r.cache = k.cache
        /\ r.streams = k.streams /\ r.calls = k.calls
        /\ r.ref = k.ref /\ r.current = k.current /\ r.since = k.since
    BY <1>1, <1>2 DEF ClientType, TempThread
  <1>4. Inv(uses, r, w)
    BY <1>3 DEF Inv, Names, Screen
  <1> QED BY <1>2, <1>4

\* A view is kept for its conversation.
LEMMA CacheInv ==
    ASSUME NEW uses, NEW w, NEW k, Inv(uses, k, w), NEW v, Good(v, w)
    PROVE  Inv(uses, Cache(k, v), w) /\ KeepsStreams(k, Cache(k, v))
  <1>1. k \in ClientType /\ v \in ViewType /\ v.id \in Ids /\ k.cache \in Caches
    BY DEF Inv, Good, ViewType, ClientType
  <1>b. Key(k, v.id) \in Keys /\ Key(k, v.id)[1] = v.id
    BY <1>1, KeyType
  <1>2. PICK x \in Keys : x = Key(k, v.id) /\ x[1] = v.id
    BY <1>b
  <1>3. CacheGood(k.cache, w)
    BY DEF Inv, Screen
  <1>4. Put(k.cache, x, v) \in Caches /\ CacheGood(Put(k.cache, x, v), w)
    BY <1>1, <1>2, <1>3, PutCache
  <1>5. PICK cache \in Caches : cache = Put(k.cache, x, v) /\ CacheGood(cache, w)
    BY <1>4
  <1>6. PICK r \in ClientType : r = [k EXCEPT !.cache = cache]
    BY <1>1 DEF ClientType
  <1>7. /\ r.thread = k.thread /\ r.visible = k.visible /\ r.cache = cache
        /\ r.streams = k.streams /\ r.calls = k.calls
        /\ r.ref = k.ref /\ r.current = k.current /\ r.since = k.since
    BY <1>1, <1>6 DEF ClientType
  <1>8. Inv(uses, r, w)
    BY <1>5, <1>7 DEF Inv, Names, Screen
  <1>9. r = Cache(k, v)
    BY <1>2, <1>5, <1>6 DEF Cache
  <1> QED BY <1>7, <1>8, <1>9 DEF KeepsStreams

\* The branch that the refs name.
LEMMA RefInv ==
    ASSUME NEW uses, NEW w, NEW k, Inv(uses, k, w), NEW b \in Named(w) \cup {None},
           b \in Branches \cup {None}
    PROVE  Inv(uses, [k EXCEPT !.ref = b], w) /\ KeepsStreams(k, [k EXCEPT !.ref = b])
  <1>1. k \in ClientType
    BY DEF Inv
  <1>2. PICK r \in ClientType : r = [k EXCEPT !.ref = b]
    BY <1>1 DEF ClientType
  <1>3. /\ r.thread = k.thread /\ r.visible = k.visible /\ r.cache = k.cache
        /\ r.streams = k.streams /\ r.calls = k.calls
        /\ r.ref = b /\ r.current = k.current /\ r.since = k.since
    BY <1>1, <1>2 DEF ClientType
  <1>4. Inv(uses, r, w)
    BY <1>3 DEF Inv, Names, Screen
  <1> QED BY <1>2, <1>3, <1>4 DEF KeepsStreams

\* A conversation is wanted, and shown if it can be.
LEMMA LoadInv ==
    ASSUME NEW uses, NEW w, NEW k, Inv(uses, k, w)
    PROVE  Inv(uses, Load(k), w)
  <1>1. None \in Named(w) \cup {None} /\ None \in Branches \cup {None}
    OBVIOUS
  <1>2. PICK r : r = [k EXCEPT !.ref = None] /\ Inv(uses, r, w)
    BY <1>1, RefInv
  <1>3. r \in ClientType /\ r.wanted \in Ids \cup {None} /\ r.ref \in Named(w) \cup {None}
        /\ r.ref \in Branches \cup {None} /\ r.loading \in SUBSET Keys
    BY <1>2 DEF Inv, ClientType, Names
  <1>4. CASE r.wanted = None
    <2>1. Load(k) = TempThread(r)
      BY <1>2, <1>4 DEF Load
    <2> QED BY <1>2, <2>1, TempThreadInv
  <1>5. CASE r.wanted # None /\ Cached(r, r.wanted) # None
    <2>1. Load(k) = Show(r, Cached(r, r.wanted))
      BY <1>2, <1>5 DEF Load
    <2> QED BY <1>2, <1>5, <2>1, CachedGood, ShowInv
  <1>6. CASE r.wanted # None /\ ~(Cached(r, r.wanted) # None)
    <2>1. r.wanted \in Ids /\ Key(r, r.wanted) \in Keys
      BY <1>2, <1>3, <1>6, KeyType
    <2>2. r.loading \cup {Key(r, r.wanted)} \in SUBSET Keys
      BY <1>3, <2>1
    <2>3. PICK q : q = [r EXCEPT !.loading = @ \cup {Key(r, r.wanted)}] /\ Inv(uses, q, w)
      BY <1>2, <1>3, <2>2, LoadingInv
    <2>4. Load(k) = Ask(q, "load", r.wanted, r.ref)
      BY <1>2, <1>6, <2>3 DEF Load
    <2>5. Askable(q, "load", r.wanted, r.ref, w)
      BY <1>3, <2>1 DEF Askable, Ops
    <2> QED BY <2>3, <2>4, <2>5, AskInv
  <1> QED BY <1>4, <1>5, <1>6

\* The conversation on the screen is asked for again.
LEMMA FetchInv ==
    ASSUME NEW uses, NEW w, NEW k, Inv(uses, k, w)
    PROVE  Inv(uses, FetchUpdates(k), w) /\ KeepsStreams(k, FetchUpdates(k))
  <1>1. k \in ClientType /\ k.ref \in Named(w) \cup {None} /\ k.ref \in Branches \cup {None}
        /\ k.loading \in SUBSET Keys
    BY DEF Inv, ClientType, Names
  <1>2. CASE k.visible \in Ids
    <2>1. Key(k, k.visible) \in Keys
      BY <1>2, KeyType
    <2>2. k.loading \cup {Key(k, k.visible)} \in SUBSET Keys
      BY <1>1, <2>1
    <2>3. PICK q : q = [k EXCEPT !.loading = @ \cup {Key(k, k.visible)}] /\ Inv(uses, q, w)
      BY <1>1, <2>2, LoadingInv
    <2>4. q.streams = k.streams
      BY <1>1, <2>3 DEF ClientType
    <2>5. FetchUpdates(k) = Ask(q, "refresh", k.visible, k.ref)
      BY <1>2, <2>3 DEF FetchUpdates
    <2>6. Askable(q, "refresh", k.visible, k.ref, w)
      BY <1>1, <1>2 DEF Askable, Ops
    <2>7. /\ Inv(uses, Ask(q, "refresh", k.visible, k.ref), w)
          /\ KeepsStreams(q, Ask(q, "refresh", k.visible, k.ref))
      BY <2>3, <2>6, AskInv
    <2> QED BY <2>4, <2>5, <2>7 DEF KeepsStreams
  <1>3. CASE k.visible \notin Ids
    BY <1>3 DEF FetchUpdates, KeepsStreams
  <1> QED BY <1>2, <1>3

\* A fetch has come to its end.
LEMMA NotLoadingInv ==
    ASSUME NEW uses, NEW w, NEW k, Inv(uses, k, w), NEW id
    PROVE  Inv(uses, NotLoading(k, id), w) /\ KeepsStreams(k, NotLoading(k, id))
  <1>1. k \in ClientType /\ k.loading \ {Key(k, id)} \in SUBSET Keys
    BY DEF Inv, ClientType
  <1>2. PICK q : q = [k EXCEPT !.loading = @ \ {Key(k, id)}] /\ Inv(uses, q, w)
    BY <1>1, LoadingInv
  <1>3. q.streams = k.streams
    BY <1>1, <1>2 DEF ClientType
  <1> QED BY <1>2, <1>3 DEF NotLoading, KeepsStreams

-----------------------------------------------------------------------------
(* Streams                                                                 *)

\* One stream of the client is another one.
LEMMA RestreamedInv ==
    ASSUME NEW uses, NEW w, NEW k, Inv(uses, k, w), NEW s \in Streams, NEW st,
           StreamGood(uses, st, w),
           NEW r \in ClientType, r.streams = [k.streams EXCEPT ![s] = st],
           r.thread = k.thread, r.visible = k.visible, r.cache = k.cache,
           r.calls = k.calls, r.ref = k.ref, r.current = k.current, r.since = k.since
    PROVE  Inv(uses, r, w)
  <1>1. StreamsGood(uses, r.streams, w)
    BY DEF Inv, ClientType, StreamsGood
  <1> QED BY <1>1 DEF Inv, Names, Screen

\* A slot that is free is a stream.
LEMMA SlotType ==
    ASSUME NEW k, Free(k) # {}
    PROVE  NextSlot(k) \in Streams
  BY DEF NextSlot, Free

\* A stream is begun.
LEMMA HandleStreamInv ==
    ASSUME NEW uses, NEW w, NEW k, Inv(uses, k, w), NEW s \in Streams,
           NEW id \in Ids \cup Nat,
           NEW kind \in {"message", "resume"}, kind = "resume" => id \in Ids
    PROVE  Inv(uses, HandleStream(k, s, id, kind), w)
  <1>1. k \in ClientType /\ k.loading \in SUBSET Keys /\ k.controllers \in Controllers
        /\ k.streams \in [Streams -> StreamType]
        /\ k.ref \in Branches \cup {None} /\ k.ref \in Named(w) \cup {None}
    BY DEF Inv, ClientType, Names
  <1>2. Key(k, id) \in Keys /\ Key(k, id)[1] = id
    BY KeyType
  <1>3. PICK key \in Keys : key = Key(k, id) /\ key[1] = id
    BY <1>2
  <1>4. /\ k.loading \cup {key} \in SUBSET Keys
        /\ Put(k.controllers, key, s) \in Controllers
    BY <1>1, <1>3, PutController
  <1>5. PICK view \in ViewType \cup {None} :
            /\ view = IF id \in Ids THEN Cached(k, id) ELSE None
            /\ view # None => Good(view, w) /\ view.id = Conv(id)
    BY CachedGood DEF Conv
  <1>6. /\ ShownId(k) \in Ids \cup {None} /\ <<>> \in Seq(EventType)
        /\ kind \in {"none", "message", "resume", "click"}
        /\ "posting" \in {"idle", "posting", "open", "aborted"}
    BY <1>1 DEF ShownId, ClientType, ViewType
  <1>7. PICK st \in StreamType :
            st = [NoStream EXCEPT
                    !.state = "posting", !.kind = kind, !.target = id,
                    !.asked = k.ref, !.first = key, !.key = key,
                    !.view = view, !.from = ShownId(k)]
    BY <1>1, <1>6 DEF NoStream, StreamType
  <1>8. /\ st.asked = k.ref /\ st.kind = kind /\ st.target = id /\ st.hears = None
        /\ st.first = key /\ st.key = key /\ st.view = view /\ st.inbox = <<>>
        /\ st.got = FALSE
    BY <1>7 DEF NoStream
  <1>9. StreamGood(uses, st, w)
    BY <1>1, <1>3, <1>5, <1>8 DEF StreamGood, Keyed, About
  <1>10. PICK n \in BOOLEAN : n = (id \notin Ids)
    OBVIOUS
  <1>11. PICK r \in ClientType :
            r = [k EXCEPT !.loading = @ \cup {key}, !.controllers = Put(@, key, s),
                          !.streams[s] = st, !.newStreaming = n]
    BY <1>1, <1>4 DEF ClientType
  <1>12. r = HandleStream(k, s, id, kind)
    BY <1>1, <1>3, <1>5, <1>7, <1>10, <1>11 DEF HandleStream, OnResponseStart, ClientType
  <1>13. /\ r.streams = [k.streams EXCEPT ![s] = st]
         /\ r.thread = k.thread /\ r.visible = k.visible /\ r.cache = k.cache
         /\ r.calls = k.calls /\ r.ref = k.ref /\ r.current = k.current /\ r.since = k.since
    BY <1>1, <1>11 DEF ClientType
  <1> QED BY <1>9, <1>12, <1>13, RestreamedInv

\* A stream is about the same, with what it was told.
LEMMA StreamGoodAs ==
    ASSUME NEW uses, NEW w, NEW st, StreamGood(uses, st, w), NEW r,
           r.asked = st.asked, r.kind = st.kind, r.target = st.target, r.hears = st.hears,
           r.first = st.first, r.key = st.key, r.view = st.view, r.inbox = st.inbox,
           r.got = st.got
    PROVE  StreamGood(uses, r, w)
  BY DEF StreamGood, Keyed, EventGood, About

\* A stream is aborted.
LEMMA AbortedInv ==
    ASSUME NEW uses, NEW w, NEW k, Inv(uses, k, w), NEW s \in Streams
    PROVE  Inv(uses, [k EXCEPT !.streams[s].state = "aborted"], w)
  <1>1. k \in ClientType /\ k.streams[s] \in StreamType /\ StreamGood(uses, k.streams[s], w)
    BY DEF Inv, ClientType, StreamsGood
  <1>2. PICK st \in StreamType : st = [k.streams[s] EXCEPT !.state = "aborted"]
    BY <1>1 DEF StreamType
  <1>3. StreamGood(uses, st, w)
    BY <1>1, <1>2, StreamGoodAs DEF StreamType
  <1>4. PICK r \in ClientType : r = [k EXCEPT !.streams[s] = st]
    BY <1>1 DEF ClientType
  <1>5. /\ r.streams = [k.streams EXCEPT ![s] = st]
        /\ r.thread = k.thread /\ r.visible = k.visible /\ r.cache = k.cache
        /\ r.calls = k.calls /\ r.ref = k.ref /\ r.current = k.current /\ r.since = k.since
    BY <1>1, <1>4 DEF ClientType
  <1>6. r = [k EXCEPT !.streams[s].state = "aborted"]
    BY <1>1, <1>2, <1>4 DEF ClientType
  <1>7. Inv(uses, r, w)
    BY <1>3, <1>5, RestreamedInv
  <1> QED BY <1>6, <1>7

\* A turn that runs is listened to.
LEMMA ResumeStreamInv ==
    ASSUME NEW uses, NEW w, NEW k, Inv(uses, k, w), NEW id \in Ids
    PROVE  Inv(uses, ResumeStream(k, id), w)
  <1>1. CASE Key(k, id) \in DOMAIN k.controllers \/ Free(k) = {}
    BY <1>1 DEF ResumeStream
  <1>2. CASE ~(Key(k, id) \in DOMAIN k.controllers \/ Free(k) = {})
    <2>1. PICK s \in Streams : s = NextSlot(k)
      BY <1>2, SlotType
    <2>2. Inv(uses, HandleStream(k, s, id, "resume"), w)
      BY HandleStreamInv
    <2> QED BY <1>2, <2>1, <2>2 DEF ResumeStream
  <1> QED BY <1>1, <1>2

\* A message is sent.
LEMMA SentInv ==
    ASSUME NEW uses, NEW w, NEW k, Inv(uses, k, w), Free(k) # {}
    PROVE  Inv(uses, Sent(k), w)
  <1> DEFINE key == Key(k, k.visible)
             aborts == key \in DOMAIN k.controllers /\ k.controllers[key] # None
             quiet == IF aborts THEN [k EXCEPT !.streams[k.controllers[key]].state = "aborted"]
                      ELSE k
  <1>1. k.visible \in Ids \cup Nat
    BY DEF Inv, ClientType
  <1>2. ASSUME aborts
        PROVE  k.controllers[key] \in Streams
    BY <1>2, MapFacts DEF Inv, ClientType, Controllers
  <1>3. PICK q : q = quiet /\ Inv(uses, q, w)
    BY <1>2, AbortedInv
  <1>4. PICK s \in Streams : s = NextSlot(k)
    BY SlotType
  <1>5. Inv(uses, HandleStream(q, s, k.visible, "message"), w)
    BY <1>1, <1>3, HandleStreamInv
  <1> QED BY <1>3, <1>4, <1>5 DEF Sent

-----------------------------------------------------------------------------
(* Effects                                                                 *)

\* A turn of the conversation on the screen is listened to, once.
LEMMA AutoResumeInv ==
    ASSUME NEW uses, NEW w, NEW k, Inv(uses, k, w)
    PROVE  Inv(uses, AutoResume(k), w)
  <1>1. k \in ClientType /\ k.resumed \in SUBSET Ids /\ ShownId(k) \in Ids \cup {None}
    BY DEF Inv, ClientType, ShownId, ViewType
  <1>2. CASE ShownId(k) = None \/ ShownId(k) \in k.resumed
    BY <1>2 DEF AutoResume
  <1>3. CASE ~(ShownId(k) = None \/ ShownId(k) \in k.resumed)
    <2>1. PICK id \in Ids : id = ShownId(k)
      BY <1>1, <1>3
    <2>2. PICK r \in ClientType : r = [k EXCEPT !.resumed = @ \cup {id}]
      BY <1>1 DEF ClientType
    <2>3. Same(k, r)
      BY <1>1, <2>2 DEF ClientType, Same
    <2>4. Inv(uses, ResumeStream(r, id), w)
      BY <2>3, SameInv, ResumeStreamInv
    <2> QED BY <1>3, <2>1, <2>2, <2>4 DEF AutoResume
  <1> QED BY <1>2, <1>3

\* The branch hook says which branch is current.
LEMMA CurrentInv ==
    ASSUME NEW uses, NEW w, NEW k, Inv(uses, k, w), NEW b \in Named(w), b \in Branches,
           NEW of \in Ids \cup {None}, NEW loaded \in BOOLEAN
    PROVE  Inv(uses, [k EXCEPT !.branchesOf = of, !.current = b, !.loaded = loaded], w)
  <1>1. k \in ClientType
    BY DEF Inv
  <1>2. PICK r \in ClientType : r = [k EXCEPT !.branchesOf = of, !.current = b, !.loaded = loaded]
    BY <1>1 DEF ClientType
  <1>3. /\ r.thread = k.thread /\ r.visible = k.visible /\ r.cache = k.cache
        /\ r.streams = k.streams /\ r.calls = k.calls
        /\ r.ref = k.ref /\ r.current = b /\ r.since = k.since
    BY <1>1, <1>2 DEF ClientType
  <1>4. Inv(uses, r, w)
    BY <1>3 DEF Inv, Names, Screen
  <1> QED BY <1>2, <1>4

\* The branches of the conversation on the screen are asked for.
LEMMA LoadBranchesInv ==
    ASSUME NEW uses, NEW w, NEW k, Inv(uses, k, w), Main \in Named(w)
    PROVE  Inv(uses, LoadBranches(k), w)
  <1>1. /\ k \in ClientType /\ ShownId(k) \in Ids \cup {None} /\ Main \in Branches
        /\ None \in Ids \cup {None} /\ FALSE \in BOOLEAN
    BY ClientAssumption DEF Inv, ClientType, ShownId, ViewType
  <1>2. CASE ShownId(k) = None
    <2>1. Inv(uses, [k EXCEPT !.branchesOf = None, !.current = Main, !.loaded = FALSE], w)
      BY <1>1, CurrentInv
    <2> QED BY <1>2, <2>1 DEF LoadBranches
  <1>3. CASE ShownId(k) # None /\ ShownId(k) = k.branchesOf
    BY <1>3 DEF LoadBranches
  <1>4. CASE ShownId(k) # None /\ ShownId(k) # k.branchesOf
    <2>1. PICK id \in Ids : id = ShownId(k)
      BY <1>1, <1>4
    <2>2. PICK r \in ClientType : r = [k EXCEPT !.branchesOf = id]
      BY <1>1 DEF ClientType
    <2>3. Same(k, r)
      BY <1>1, <2>2 DEF ClientType, Same
    <2>4. Inv(uses, r, w)
      BY <2>3, SameInv
    <2>5. Askable(r, "branches", id, None, w)
      BY DEF Askable, Ops
    <2>6. Inv(uses, Ask(r, "branches", id, None), w)
      BY <2>4, <2>5, AskInv
    <2> QED BY <1>4, <2>1, <2>2, <2>6 DEF LoadBranches
  <1> QED BY <1>2, <1>3, <1>4

\* The branch of the refs follows.
LEMMA FollowBranchInv ==
    ASSUME NEW uses, NEW w, NEW k, Inv(uses, k, w), NEW old
    PROVE  Inv(uses, FollowBranch(old, k), w)
  <1>1. PICK b : b = IF k.loaded THEN k.current ELSE None
    OBVIOUS
  <1>2. b \in Named(w) \cup {None} /\ b \in Branches \cup {None}
    BY <1>1 DEF Inv, Names, ClientType
  <1>3. Inv(uses, [k EXCEPT !.ref = b], w)
    BY <1>2, RefInv
  <1> QED BY <1>1, <1>3 DEF FollowBranch

\* What a handler leaves keeps the invariant, and so do the effects.
LEMMA ClientInv ==
    ASSUME NEW uses, NEW w, NEW k, Inv(uses, k, w), Main \in Named(w), Client(k)
    PROVE  Inv(uses, c', w)
  <1>1. PICK opened : /\ opened = IF k.wanted = c.wanted THEN k
                                  ELSE Load(SyncDraft(k))
                      /\ c' = FollowBranch(c, LoadBranches(AutoResume(opened)))
    BY DEF Client
  <1>2. Inv(uses, opened, w)
    BY <1>1, SyncDraftInv, LoadInv
  <1>3. Inv(uses, AutoResume(opened), w)
    BY <1>2, AutoResumeInv
  <1>4. Inv(uses, LoadBranches(AutoResume(opened)), w)
    BY <1>3, LoadBranchesInv
  <1> QED BY <1>1, <1>4, FollowBranchInv

\* There is nothing in a new instance.
LEMMA InstanceInv ==
    ASSUME NEW uses, NEW w, Main \in Named(w), NEW id \in Ids \cup {None},
           NEW temp \in Nat,
           0 <= w.edited
    PROVE  Inv(uses, Instance(id, temp), w)
  <1>1. /\ Main \in Branches /\ <<>> \in Seq(CallType) /\ <<>> \in Seq(EventType)
        /\ DOMAIN <<>> = {}
    BY ClientAssumption
  <1>2. <<>> \in [{} -> ViewType] /\ <<>> \in [{} -> Streams \cup {None}]
    BY <1>1
  <1>3. <<>> \in Caches /\ <<>> \in Controllers
    BY <1>2 DEF Caches, Controllers
  <1>4. NoStream \in StreamType
    BY <1>1 DEF NoStream, StreamType
  <1>5. StreamGood(uses, NoStream, w)
    BY <1>1 DEF NoStream, StreamGood
  <1>6. PICK visible \in Ids \cup Nat : visible = IF id = None THEN temp ELSE id
    OBVIOUS
  <1>7. PICK streams \in [Streams -> StreamType] : streams = [s \in Streams |-> NoStream]
    BY <1>4
  <1>8. PICK r : r = Instance(id, temp)
    OBVIOUS
  <1>9. r \in ClientType
    BY <1>1, <1>3, <1>6, <1>7, <1>8 DEF Instance, ClientType
  <1>10. /\ r.thread = None /\ r.cache = <<>> /\ r.streams = streams /\ r.calls = <<>>
         /\ r.ref = None /\ r.current = Main /\ r.since = 0
    BY <1>7, <1>8 DEF Instance
  <1>11. StreamsGood(uses, r.streams, w)
    BY <1>5, <1>7, <1>10 DEF StreamsGood
  <1>12. CallsGood(<<>>, w) /\ ForksGood(<<>>, w) /\ CacheGood(<<>>, w)
    BY <1>1 DEF CallsGood, ForksGood, Forks, CacheGood
  <1> QED BY <1>8, <1>9, <1>10, <1>11, <1>12 DEF Inv, Names, Screen

\* What a replaced instance leaves to the new one keeps the type of the client.
LEMMA BroughtType ==
    ASSUME NEW k \in ClientType, NEW streams \in [Streams -> StreamType],
           NEW orphans \in SUBSET Ids
    PROVE  [k EXCEPT !.streams = streams, !.orphans = orphans] \in ClientType
  BY DEF ClientType

LEMMA KeptType ==
    ASSUME NEW k \in ClientType, NEW draft \in BOOLEAN, NEW new \in BOOLEAN
    PROVE  [k EXCEPT !.draft = draft, !.newStreaming = new] \in ClientType
  BY DEF ClientType

\* An instance is replaced: its streams live on.
LEMMA RemountInv ==
    ASSUME NEW uses, NEW w, NEW k, Inv(uses, k, w), Main \in Named(w), 0 <= w.edited
    PROVE  Inv(uses, Remount(k), w)
  <1>1. k \in ClientType /\ k.temps + 1 \in Nat /\ k.streams \in [Streams -> StreamType]
        /\ k.draft \in BOOLEAN /\ k.newStreaming \in BOOLEAN /\ None \in Ids \cup {None}
    BY DEF Inv, ClientType
  <1>2. PICK new : new = Instance(None, k.temps + 1)
    OBVIOUS
  <1>3. Inv(uses, new, w)
    BY <1>1, <1>2, InstanceInv
  <1>4. <<>> \in Seq(EventType)
    OBVIOUS
  <1>5. ASSUME NEW s \in Streams
        PROVE  Replaced(k, s) \in StreamType /\ StreamGood(uses, Replaced(k, s), w)
    <2>1. k.streams[s] \in StreamType /\ StreamGood(uses, k.streams[s], w)
      BY <1>1 DEF Inv, StreamsGood
    <2>2. CASE ~Under(k, s)
      BY <1>4, <2>2 DEF Replaced, NoStream, StreamType, StreamGood
    <2>3. CASE Under(k, s) /\ k.streams[s].dead
      BY <2>1, <2>3 DEF Replaced
    <2>4. CASE Under(k, s) /\ ~k.streams[s].dead
      <3>1. PICK b \in BOOLEAN : b = (k.streams[s].key = Key(k, k.visible))
        OBVIOUS
      <3>2. PICK st \in StreamType : st = [k.streams[s] EXCEPT !.dead = TRUE, !.front = b]
        BY <2>1 DEF StreamType
      <3>3. StreamGood(uses, st, w)
        BY <2>1, <3>2, StreamGoodAs DEF StreamType
      <3> QED BY <2>4, <3>1, <3>2, <3>3 DEF Replaced
    <2> QED BY <2>2, <2>3, <2>4
  <1>6. PICK streams \in [Streams -> StreamType] : streams = [s \in Streams |-> Replaced(k, s)]
    BY <1>5
  <1>a. PICK orphans \in SUBSET Ids : orphans = k.orphans \cup Loads(k)
    <2>1. k.orphans \in SUBSET Ids /\ k.calls \in Seq(CallType)
      BY <1>1 DEF ClientType
    <2>2. \A i \in DOMAIN k.calls : k.calls[i] \in CallType
      BY <2>1
    <2>3. Loads(k) \in SUBSET Ids
      BY <2>2 DEF Loads, CallType
    <2> QED BY <2>1, <2>3
  <1>7. PICK r \in ClientType : r = [new EXCEPT !.streams = streams, !.draft = k.draft,
                                              !.newStreaming = k.newStreaming,
                                              !.orphans = orphans]
    <2>1. new \in ClientType /\ orphans \in SUBSET Ids
      BY <1>3, <1>a DEF Inv
    <2>2. PICK q \in ClientType : q = [new EXCEPT !.streams = streams, !.orphans = orphans]
      BY <2>1, <1>6, BroughtType
    <2>3. PICK r \in ClientType : r = [q EXCEPT !.draft = k.draft,
                                                 !.newStreaming = k.newStreaming]
      BY <1>1, <2>2, KeptType
    <2>4. r = [new EXCEPT !.streams = streams, !.draft = k.draft,
                          !.newStreaming = k.newStreaming, !.orphans = orphans]
      BY <2>1, <2>2, <2>3 DEF ClientType
    <2> QED BY <2>3, <2>4
  <1>8. StreamsGood(uses, streams, w)
    BY <1>5, <1>6 DEF StreamsGood
  <1>9. /\ r.thread = new.thread /\ r.visible = new.visible /\ r.cache = new.cache
        /\ r.streams = streams /\ r.calls = new.calls
        /\ r.ref = new.ref /\ r.current = new.current /\ r.since = new.since
    BY <1>3, <1>7 DEF Inv, ClientType
  <1>10. Inv(uses, r, w)
    BY <1>3, <1>8, <1>9 DEF Inv, Names, Screen
  <1> QED BY <1>2, <1>6, <1>7, <1>10, <1>a DEF Remount

-----------------------------------------------------------------------------
(* Callbacks of the page                                                   *)

\* A stream says which conversation it is about.
LEMMA OnThreadChangeInv ==
    ASSUME NEW uses, NEW w, NEW k, Inv(uses, k, w), NEW id \in Ids
    PROVE  Inv(uses, OnThreadChange(k, id), w)
  <1>1. id \in Ids \cup {None}
    OBVIOUS
  <1>2. Inv(uses, [k EXCEPT !.draft = FALSE, !.wanted = id], w)
    BY <1>1, ChosenInv
  <1> QED BY <1>2 DEF OnThreadChange

\* A response is over.
LEMMA OnResponseEndInv ==
    ASSUME NEW uses, NEW w, NEW k, Inv(uses, k, w)
    PROVE  Inv(uses, OnResponseEnd(k), w) /\ KeepsStreams(k, OnResponseEnd(k))
  <1>1. k \in ClientType /\ FALSE \in BOOLEAN
    BY DEF Inv
  <1>2. PICK q : q = [k EXCEPT !.newStreaming = FALSE] /\ Inv(uses, q, w)
    BY <1>1, StreamingInv
  <1>3. q.streams = k.streams
    BY <1>1, <1>2 DEF ClientType
  <1>4. Inv(uses, FetchUpdates(q), w) /\ KeepsStreams(q, FetchUpdates(q))
    BY <1>2, FetchInv
  <1> QED BY <1>2, <1>3, <1>4 DEF OnResponseEnd, KeepsStreams

\* The conversation does not exist.
LEMMA OnThreadNotFoundInv ==
    ASSUME NEW uses, NEW w, NEW k, Inv(uses, k, w), Main \in Named(w), 0 <= w.edited
    PROVE  Inv(uses, OnThreadNotFound(k), w)
  <1>1. Inv(uses, [k EXCEPT !.draft = TRUE, !.newStreaming = FALSE], w)
    BY DraftInv
  <1> QED BY <1>1, RemountInv DEF OnThreadNotFound

-----------------------------------------------------------------------------
(* Events of a stream                                                      *)

\* A stream is no more.
LEMMA OverInv ==
    ASSUME NEW uses, NEW w, NEW k, Inv(uses, k, w), NEW s \in Streams
    PROVE  Inv(uses, Over(k, s), w)
  <1>1. k \in ClientType /\ k.controllers \in Controllers
    BY DEF Inv, ClientType
  <1>2. <<>> \in Seq(EventType)
    OBVIOUS
  <1>3. PICK st \in StreamType : st = NoStream
    BY <1>2 DEF NoStream, StreamType
  <1>4. StreamGood(uses, st, w)
    BY <1>3 DEF NoStream, StreamGood
  <1>5. [x \in DOMAIN k.controllers |-> IF k.controllers[x] = s THEN None ELSE k.controllers[x]]
          \in Controllers
    BY <1>1, ClearMap
  <1>6. PICK f \in Controllers :
          f = [x \in DOMAIN k.controllers |->
                 IF k.controllers[x] = s THEN None ELSE k.controllers[x]]
    BY <1>5
  <1>7. PICK r \in ClientType : r = [k EXCEPT !.streams[s] = st, !.controllers = f]
    BY <1>1 DEF ClientType
  <1>8. /\ r.streams = [k.streams EXCEPT ![s] = st]
        /\ r.thread = k.thread /\ r.visible = k.visible /\ r.cache = k.cache
        /\ r.calls = k.calls /\ r.ref = k.ref /\ r.current = k.current /\ r.since = k.since
    BY <1>1, <1>7 DEF ClientType
  <1>9. r = Over(k, s)
    BY <1>1, <1>3, <1>6, <1>7 DEF Over, ClientType
  <1> QED BY <1>4, <1>8, <1>9, RestreamedInv

\* The end of a stream.
LEMMA FinallyInv ==
    ASSUME NEW uses, NEW w, NEW k, Inv(uses, k, w), NEW s \in Streams
    PROVE  Inv(uses, Finally(k, s), w)
  <1>1. k \in ClientType /\ k.controllers \in Controllers /\ k.loading \in SUBSET Keys
    BY DEF Inv, ClientType
  <1>2. PICK keys : keys = {Key(k, k.streams[s].target)} \cup
                             (IF k.streams[s].got THEN {Key(k, k.streams[s].view.id)} ELSE {})
    OBVIOUS
  <1>3. Without(k.controllers, keys) \in Controllers /\ k.loading \ keys \in SUBSET Keys
    <2>1. Main \in Branches /\ <<Born, Main>> \in Keys
      BY ClientAssumption DEF Keys, Ids
    <2> QED BY <1>1, <2>1, PutController
  <1>4. PICK r \in ClientType : r = [k EXCEPT !.loading = @ \ keys,
                                            !.controllers = Without(@, keys)]
    BY <1>1, <1>3 DEF ClientType
  <1>5. Same(k, r)
    BY <1>1, <1>4 DEF ClientType, Same
  <1>6. Inv(uses, Over(r, s), w)
    BY <1>5, SameInv, OverInv
  <1> QED BY <1>2, <1>4, <1>6 DEF Finally

\* What an event makes of the conversation of its stream.
LEMMA AppliedGood ==
    ASSUME NEW uses, NEW w, NEW k, Inv(uses, k, w), Main \in Named(w),
           NEW s \in Streams, NEW e \in EventType,
           EventGood(e, k.streams[s], w), e.type # "done"
    PROVE  /\ Applied(k, s, e) # None => About(Applied(k, s, e), k.streams[s], w)
           /\ k.streams[s].got \/ k.streams[s].kind = "click" =>
                 About(Applied(k, s, e), k.streams[s], w)
           /\ Applied(k, s, e) \in ViewType \cup {None}
  <1>1. PICK st \in StreamType : st = k.streams[s] /\ StreamGood(uses, st, w) /\ EventGood(e, st, w)
    BY DEF Inv, ClientType, StreamsGood
  <1>2. CASE e.type = "created"
    <2>1. e.id = Born /\ Conv(st.target) = Born /\ Born \in Ids /\ Main \in Branches
      BY <1>1, <1>2, ClientAssumption DEF EventGood, Conv, Ids
    <2>2. PICK v \in ViewType : v = View(e.id, Main, {})
      BY <2>1 DEF View, ViewType
    <2>3. v.id = Born /\ v.branch = Main /\ v.has = {}
      BY <2>1, <2>2 DEF View
    <2>4. About(v, st, w)
      BY <2>1, <2>3 DEF About, Good
    <2> QED BY <1>1, <1>2, <2>2, <2>4 DEF Applied
  <1>3. CASE e.type # "created" /\ st.view = None
    <2>1. Applied(k, s, e) = None
      BY <1>1, <1>3 DEF Applied
    <2> QED BY <1>1, <1>3, <2>1 DEF StreamGood
  <1>4. CASE e.type # "created" /\ st.view # None
    <2>1. e.type = "item" /\ e.fact \in Int /\ e.fact \in Facts(w, Conv(st.target))
      BY <1>1, <1>4 DEF EventType, EventGood
    <2>2. st.view \in ViewType /\ About(st.view, st, w)
      BY <1>1, <1>4 DEF StreamType, StreamGood
    <2>3. PICK v \in ViewType : v = [st.view EXCEPT !.has = @ \cup {e.fact}]
      BY <2>1, <2>2 DEF ViewType
    <2>4. v.id = st.view.id /\ v.branch = st.view.branch /\ v.has = st.view.has \cup {e.fact}
      BY <2>2, <2>3 DEF ViewType
    <2>5. About(v, st, w)
      BY <2>1, <2>2, <2>4 DEF About, Good
    <2>6. Applied(k, s, e) = v
      BY <1>1, <1>4, <2>3 DEF Applied
    <2> QED BY <1>1, <2>5, <2>6
  <1> QED BY <1>2, <1>3, <1>4

\* The view of a stream changes, and is kept.
LEMMA ViewInv ==
    ASSUME NEW uses, NEW w, NEW k, Inv(uses, k, w), NEW s \in Streams,
           NEW v \in ViewType \cup {None},
           v # None \/ k.streams[s].got \/ k.streams[s].kind = "click" =>
               About(v, k.streams[s], w),
           k.streams[s].kind # "none"
    PROVE  Inv(uses, [k EXCEPT !.streams[s].view = v], w)
  <1>1. k \in ClientType /\ k.streams[s] \in StreamType /\ StreamGood(uses, k.streams[s], w)
    BY DEF Inv, ClientType, StreamsGood
  <1>2. PICK st \in StreamType : st = [k.streams[s] EXCEPT !.view = v]
    BY <1>1 DEF StreamType
  <1>3. /\ st.asked = k.streams[s].asked /\ st.kind = k.streams[s].kind
        /\ st.target = k.streams[s].target /\ st.hears = k.streams[s].hears
        /\ st.first = k.streams[s].first /\ st.key = k.streams[s].key /\ st.view = v
        /\ st.inbox = k.streams[s].inbox /\ st.got = k.streams[s].got
    BY <1>1, <1>2 DEF StreamType
  <1>4. StreamGood(uses, st, w)
    BY <1>1, <1>3 DEF StreamGood, Keyed, EventGood, About
  <1>5. PICK r \in ClientType : r = [k EXCEPT !.streams[s] = st]
    BY <1>1 DEF ClientType
  <1>6. /\ r.streams = [k.streams EXCEPT ![s] = st]
        /\ r.thread = k.thread /\ r.visible = k.visible /\ r.cache = k.cache
        /\ r.calls = k.calls /\ r.ref = k.ref /\ r.current = k.current /\ r.since = k.since
    BY <1>1, <1>5 DEF ClientType
  <1>7. r = [k EXCEPT !.streams[s].view = v]
    BY <1>1, <1>2, <1>5 DEF ClientType
  <1> QED BY <1>4, <1>6, <1>7, RestreamedInv

\* The client keeps its type when a controller is registered under another key.
LEMMA RegisteredType ==
    ASSUME NEW k \in ClientType, NEW f \in Controllers, NEW loading \in SUBSET Keys
    PROVE  [k EXCEPT !.controllers = f, !.loading = loading] \in ClientType
  BY DEF ClientType

LEMMA StreamsType ==
    ASSUME NEW k \in ClientType, NEW streams \in [Streams -> StreamType]
    PROVE  [k EXCEPT !.streams = streams] \in ClientType
  BY DEF ClientType

\* A stream of a message or a resumption has news: they are kept under the key of
\* their conversation, and so is the stream.
LEMMA KeptInv ==
    ASSUME NEW uses, NEW w, NEW k, Inv(uses, k, w), NEW s \in Streams, NEW v,
           About(v, k.streams[s], w),
           k.streams[s].kind \in {"message", "resume"}
    PROVE  Inv(uses, Rekey(Cache([k EXCEPT !.streams[s].view = v, !.streams[s].got = TRUE], v),
                     s, v.id), w)
  <1>1. PICK st \in StreamType : st = k.streams[s] /\ StreamGood(uses, st, w)
    BY DEF Inv, ClientType, StreamsGood
  <1>2. /\ k \in ClientType /\ v \in ViewType /\ v.id \in Ids /\ v.id = Conv(st.target)
        /\ Good(v, w) /\ Keyed(st) /\ st \in StreamType
        /\ k.cache \in Caches /\ CacheGood(k.cache, w)
        /\ k.controllers \in Controllers /\ k.loading \in SUBSET Keys
    BY <1>1 DEF Inv, ClientType, About, Good, ViewType, StreamGood, Screen
  <1>3. PICK st1 \in StreamType : st1 = [st EXCEPT !.view = v, !.got = TRUE]
    BY <1>2 DEF StreamType
  <1>a. PICK a \in ClientType : a = [k EXCEPT !.streams[s] = st1]
    BY <1>2 DEF ClientType
  <1>4. a = [k EXCEPT !.streams[s].view = v, !.streams[s].got = TRUE]
    BY <1>1, <1>2, <1>3, <1>a DEF ClientType
  <1>5. /\ a.streams = [k.streams EXCEPT ![s] = st1]
        /\ a.thread = k.thread /\ a.visible = k.visible /\ a.cache = k.cache
        /\ a.calls = k.calls /\ a.ref = k.ref /\ a.current = k.current /\ a.since = k.since
        /\ a.controllers = k.controllers /\ a.loading = k.loading
    BY <1>2, <1>a DEF ClientType
  <1>6. Key(k, v.id) \in Keys /\ Key(k, v.id)[1] = v.id
    BY <1>2, KeyType
  <1>7. PICK x \in Keys : x = Key(a, v.id) /\ x[1] = v.id
    BY <1>5, <1>6 DEF Key
  <1>b. CacheGood(k.cache, w)
    BY <1>2
  <1>c. Good(v, w) /\ k.cache \in Caches
    BY <1>2
  <1>8. Put(k.cache, x, v) \in Caches /\ CacheGood(Put(k.cache, x, v), w)
    BY <1>7, <1>b, <1>c, PutCache
  <1>9. PICK b \in ClientType : b = Cache(a, v)
    BY <1>5, <1>7, <1>8 DEF Cache, ClientType
  <1>10. /\ b.streams = [k.streams EXCEPT ![s] = st1]
         /\ b.thread = k.thread /\ b.visible = k.visible /\ b.cache = Put(k.cache, x, v)
         /\ b.calls = k.calls /\ b.ref = k.ref /\ b.current = k.current /\ b.since = k.since
         /\ b.controllers = k.controllers /\ b.loading = k.loading
    BY <1>5, <1>7, <1>9 DEF Cache, ClientType
  <1>11. b.streams[s] = st1 /\ Key(b, v.id) = x
    BY <1>1, <1>2, <1>5, <1>7, <1>10 DEF Key, ClientType
  <1>12. /\ st1.asked = st.asked /\ st1.kind = st.kind /\ st1.target = st.target
         /\ st1.hears = st.hears /\ st1.first = st.first /\ st1.key = st.key /\ st1.view = v
         /\ st1.inbox = st.inbox /\ st1.got = TRUE
    BY <1>3 DEF StreamType
  <1>13. About(v, st1, w)
    BY <1>2, <1>12 DEF About
  <1>14. ASSUME NEW z \in StreamType, NEW r \in ClientType, StreamGood(uses, z, w),
                r.streams = [k.streams EXCEPT ![s] = z],
                r.thread = k.thread, r.visible = k.visible, r.cache = Put(k.cache, x, v),
                r.calls = k.calls, r.ref = k.ref, r.current = k.current, r.since = k.since
         PROVE  Inv(uses, r, w)
    <2>1. StreamsGood(uses, r.streams, w)
      BY <1>2, <1>14 DEF Inv, ClientType, StreamsGood
    <2> QED BY <1>8, <1>14, <2>1 DEF Inv, Names, Screen
  <1>15. CASE st.first = x
    <2>0. st.target = v.id /\ Conv(st.target) = v.id
      BY <1>2, <1>7, <1>15 DEF Keyed
    <2>1. st.key[1] = v.id
      BY <1>2, <2>0 DEF Keyed
    <2>2. StreamGood(uses, st1, w)
      BY <1>1, <1>2, <1>12, <1>13, <2>0, <2>1 DEF StreamGood, Keyed, EventGood
    <2>3. Rekey(b, s, v.id) = b
      BY <1>11, <1>12, <1>15 DEF Rekey
    <2>4. Inv(uses, b, w)
      BY <1>10, <1>14, <2>2
    <2> QED BY <1>4, <1>9, <2>3, <2>4
  <1>16. CASE st.first # x
    <2>0. [st1 EXCEPT !.key = x] \in StreamType
      BY DEF StreamType
    <2>1. PICK st2 \in StreamType : st2 = [st1 EXCEPT !.key = x]
      BY <2>0
    <2>2. /\ st2.asked = st.asked /\ st2.kind = st.kind /\ st2.target = st.target
          /\ st2.hears = st.hears /\ st2.first = st.first /\ st2.key = x /\ st2.view = v
          /\ st2.inbox = st.inbox /\ st2.got = TRUE
      BY <1>12, <2>1 DEF StreamType
    <2>3. About(v, st2, w)
      BY <1>2, <2>2 DEF About
    <2>4. StreamGood(uses, st2, w)
      BY <1>1, <1>2, <1>7, <2>2, <2>3 DEF StreamGood, Keyed, EventGood
    <2>5. /\ Put(Without(k.controllers, {st.first}), x, s) \in Controllers
          /\ (k.loading \ {Key(b, st.target)}) \cup {x} \in SUBSET Keys
      <3>1. Without(k.controllers, {st.first}) \in Controllers
        BY <1>2, PutController
      <3> QED BY <1>2, <3>1, PutController
    <2>a. PICK f \in Controllers : f = Put(Without(k.controllers, {st.first}), x, s)
      BY <2>5
    <2>b. PICK loading \in SUBSET Keys : loading = (k.loading \ {Key(b, st.target)}) \cup {x}
      BY <2>5
    <2>c. b.streams \in [Streams -> StreamType]
      BY DEF ClientType
    <2>d. PICK z \in [Streams -> StreamType] : z = [b.streams EXCEPT ![s] = st2]
      BY <2>c
    <2>6. PICK r \in ClientType :
            r = [b EXCEPT !.controllers = f, !.loading = loading, !.streams = z]
      <3>1. PICK q \in ClientType : q = [b EXCEPT !.controllers = f, !.loading = loading]
        BY RegisteredType
      <3>2. [q EXCEPT !.streams = z] \in ClientType
        BY StreamsType
      <3>3. [q EXCEPT !.streams = z]
              = [b EXCEPT !.controllers = f, !.loading = loading, !.streams = z]
        BY <3>1 DEF ClientType
      <3> QED BY <3>2, <3>3
    <2>7. Rekey(b, s, v.id) = [b EXCEPT !.controllers = Put(Without(@, {st1.first}), x, s),
                          !.loading = (@ \ {Key(b, st1.target)}) \cup {x},
                          !.streams[s].key = x]
      BY <1>11, <1>12, <1>16 DEF Rekey
    <2>8. r = Rekey(b, s, v.id)
      <3>1. z = [b.streams EXCEPT ![s].key = x]
        BY <1>11, <2>1, <2>c, <2>d
      <3>2. r = [b EXCEPT !.controllers = f, !.loading = loading, !.streams[s].key = x]
        BY <2>6, <3>1 DEF ClientType
      <3> QED BY <1>10, <1>12, <2>a, <2>b, <2>7, <3>2 DEF ClientType
    <2>9. /\ r.streams = [k.streams EXCEPT ![s] = st2]
          /\ r.thread = k.thread /\ r.visible = k.visible /\ r.cache = Put(k.cache, x, v)
          /\ r.calls = k.calls /\ r.ref = k.ref /\ r.current = k.current /\ r.since = k.since
      BY <1>2, <1>10, <2>d, <2>6 DEF ClientType
    <2>10. Inv(uses, r, w)
      BY <1>14, <2>4, <2>9
    <2> QED BY <1>4, <1>9, <2>8, <2>10
  <1> QED BY <1>15, <1>16

\* What a conversation's view is, apart from its branch.
LEMMA AboutFacts ==
    ASSUME NEW w, NEW v, NEW st, About(v, st, w)
    PROVE  Good(v, w) /\ v \in ViewType /\ v.id \in Ids /\ v.id = Conv(st.target)
  BY DEF About, Good, ViewType

\* A stream of a message or a resumption has news.
LEMMA OnThreadUpdateInv ==
    ASSUME NEW uses, NEW w, NEW k, Inv(uses, k, w), NEW s \in Streams, NEW v,
           About(v, k.streams[s], w),
           k.streams[s].kind \in {"message", "resume"}
    PROVE  Inv(uses, OnThreadUpdate(k, s, v), w)
  <1>1. PICK kept : /\ kept = Rekey(Cache([k EXCEPT !.streams[s].view = v,
                                                  !.streams[s].got = TRUE], v), s, v.id)
                    /\ Inv(uses, kept, w)
    BY KeptInv
  <1>2. Good(v, w) /\ v.id \in Ids
    BY AboutFacts
  <1>3. Inv(uses, Show(kept, v), w)
    BY <1>1, <1>2, ShowInv
  <1>4. Inv(uses, OnThreadChange(Show(kept, v), v.id), w)
    BY <1>2, <1>3, OnThreadChangeInv
  <1> QED BY <1>1, <1>3, <1>4 DEF OnThreadUpdate

\* A response is complete: the last view is shown where its conversation is.
LEMMA EndedInv ==
    ASSUME NEW uses, NEW w, NEW k, Inv(uses, k, w), NEW s \in Streams,
           k.streams[s].kind \in {"message", "resume"}
    PROVE  Inv(uses, Ended(k, s), w)
  <1>1. PICK st \in StreamType : st = k.streams[s] /\ StreamGood(uses, st, w)
    BY DEF Inv, ClientType, StreamsGood
  <1>2. PICK last : last = IF st.got /\ st.key = Key(k, k.visible)
                           THEN [k EXCEPT !.thread = st.view] ELSE k
    OBVIOUS
  <1>3. Inv(uses, last, w)
    <2>1. CASE st.got /\ st.key = Key(k, k.visible)
      <3>1. About(st.view, st, w) /\ st.key[1] = Conv(st.target)
        BY <1>1, <2>1 DEF StreamGood, Keyed
      <3>2. Good(st.view, w) /\ st.view.id = Conv(st.target)
        BY <3>1, AboutFacts
      <3>3. st.view.id = k.visible
        BY <2>1, <3>1, <3>2 DEF Key
      <3>4. Inv(uses, [k EXCEPT !.thread = st.view], w)
        BY <3>2, <3>3, ScreenInv
      <3> QED BY <1>2, <2>1, <3>4
    <2>2. CASE ~(st.got /\ st.key = Key(k, k.visible))
      BY <1>2, <2>2
    <2> QED BY <2>1, <2>2
  <1>4. Inv(uses, OnResponseEnd(last), w)
    BY <1>3, OnResponseEndInv
  <1>5. Inv(uses, Finally(OnResponseEnd(last), s), w)
    BY <1>4, FinallyInv
  <1> QED BY <1>1, <1>2, <1>5 DEF Ended

\* An event of a stream whose instance was replaced.
LEMMA DeadEventInv ==
    ASSUME NEW uses, NEW w, NEW k, Inv(uses, k, w), Main \in Named(w),
           NEW s \in Streams, NEW e \in EventType,
           EventGood(e, k.streams[s], w), k.streams[s].kind # "none"
    PROVE  Inv(uses, DeadEvent(k, s, e), w)
  <1>1. CASE e.type = "done"
    <2>1. PICK r : /\ r = IF k.streams[s].kind = "click" THEN k ELSE OnResponseEnd(k)
                   /\ Inv(uses, r, w)
      BY OnResponseEndInv
    <2>2. Inv(uses, Over(r, s), w)
      BY <2>1, OverInv
    <2> QED BY <1>1, <2>1, <2>2 DEF DeadEvent
  <1>2. CASE e.type # "done"
    <2>1. PICK v \in ViewType \cup {None} :
            /\ v = Applied(k, s, e)
            /\ v # None => About(v, k.streams[s], w)
            /\ k.streams[s].got \/ k.streams[s].kind = "click" => About(v, k.streams[s], w)
      BY <1>2, AppliedGood
    <2>2. PICK seen : seen = [k EXCEPT !.streams[s].view = v] /\ Inv(uses, seen, w)
      BY <2>1, ViewInv
    <2>3. ASSUME k.streams[s].kind = "click" \/ v # None
          PROVE  Inv(uses, OnThreadChange(seen, v.id), w)
      <3>1. v.id \in Ids
        BY <2>1, <2>3, AboutFacts
      <3> QED BY <2>2, <3>1, OnThreadChangeInv
    <2> QED BY <1>2, <2>1, <2>2, <2>3 DEF DeadEvent
  <1> QED BY <1>1, <1>2

\* An event of a widget's action.
LEMMA ClickEventInv ==
    ASSUME NEW uses, NEW w, NEW k, Inv(uses, k, w), Main \in Named(w),
           NEW s \in Streams, NEW e \in EventType,
           EventGood(e, k.streams[s], w), k.streams[s].kind = "click"
    PROVE  Inv(uses, ClickEvent(k, s, e), w)
  <1>1. k \in ClientType /\ StreamGood(uses, k.streams[s], w) /\ uses # 0
    BY DEF Inv, StreamsGood, StreamGood
  <1>2. PICK v : /\ v = IF e.type = "done" THEN k.streams[s].view ELSE Applied(k, s, e)
                 /\ About(v, k.streams[s], w)
    BY <1>1, AppliedGood DEF StreamGood
  <1>3. Good(v, w) /\ v.id \in Ids /\ v \in ViewType
    BY <1>2, AboutFacts
  <1>4. PICK a : a = [k EXCEPT !.thread = v] /\ Inv(uses, a, w)
    BY <1>1, <1>3, ScreenInv
  <1>5. a.streams = k.streams
    BY <1>1, <1>4 DEF ClientType
  <1>6. v \in ViewType \cup {None} /\ a.streams[s].kind # "none" /\ About(v, a.streams[s], w)
    BY <1>2, <1>3, <1>5
  <1>7. PICK b : b = [a EXCEPT !.streams[s].view = v] /\ Inv(uses, b, w)
    BY <1>4, <1>6, ViewInv
  <1>8. b = [k EXCEPT !.thread = v, !.streams[s].view = v]
    BY <1>4, <1>7
  <1>9. PICK shown : shown = Cache(b, v) /\ Inv(uses, shown, w)
    BY <1>3, <1>7, CacheInv
  <1>10. Inv(uses, Over(shown, s), w) /\ Inv(uses, OnThreadChange(shown, v.id), w)
    BY <1>3, <1>9, OverInv, OnThreadChangeInv
  <1> QED BY <1>2, <1>8, <1>9, <1>10 DEF ClickEvent

\* An event of any stream.
LEMMA StreamEventInv ==
    ASSUME NEW uses, NEW w, NEW k, Inv(uses, k, w), Main \in Named(w),
           NEW s \in Streams, NEW e \in EventType,
           EventGood(e, k.streams[s], w), k.streams[s].kind # "none"
    PROVE  Inv(uses, Event(k, s, e), w)
  <1>1. k.streams[s].kind \in {"message", "resume", "click"}
    BY DEF Inv, ClientType, StreamType
  <1>2. CASE k.streams[s].dead
    BY <1>2, DeadEventInv DEF Event
  <1>3. CASE ~k.streams[s].dead /\ k.streams[s].kind = "click"
    BY <1>3, ClickEventInv DEF Event
  <1>4. CASE ~k.streams[s].dead /\ k.streams[s].kind # "click" /\ e.type = "done"
    <2>1. Inv(uses, Ended(k, s), w)
      BY <1>1, <1>4, EndedInv
    <2> QED BY <1>4, <2>1 DEF Event
  <1>5. CASE /\ ~k.streams[s].dead /\ k.streams[s].kind # "click" /\ e.type # "done"
             /\ Applied(k, s, e) = None
    BY <1>5 DEF Event
  <1>6. CASE /\ ~k.streams[s].dead /\ k.streams[s].kind # "click" /\ e.type # "done"
             /\ Applied(k, s, e) # None
    <2>1. About(Applied(k, s, e), k.streams[s], w)
      BY <1>6, AppliedGood
    <2>2. Inv(uses, OnThreadUpdate(k, s, Applied(k, s, e)), w)
      BY <1>1, <1>6, <2>1, OnThreadUpdateInv
    <2> QED BY <1>6, <2>2 DEF Event
  <1> QED BY <1>2, <1>3, <1>4, <1>5, <1>6

-----------------------------------------------------------------------------
(* Answers                                                                 *)

\* The same streams leave the same slots.
LEMMA SameFree ==
    ASSUME NEW k, NEW r, KeepsStreams(k, r)
    PROVE  Free(r) = Free(k)
  BY DEF KeepsStreams, Free

\* A conversation comes on the screen and into the cache.
LEMMA ShownAndCached ==
    ASSUME NEW uses, NEW w, NEW k, Inv(uses, k, w), NEW v, Good(v, w), NEW id
    PROVE  /\ Inv(uses, NotLoading(Cache(Show(k, v), v), id), w)
           /\ KeepsStreams(k, NotLoading(Cache(Show(k, v), v), id))
  <1>1. PICK a : a = Show(k, v) /\ Inv(uses, a, w) /\ KeepsStreams(k, a)
    BY ShowInv
  <1>2. PICK b : b = Cache(a, v) /\ Inv(uses, b, w) /\ KeepsStreams(a, b)
    BY <1>1, CacheInv
  <1>3. Inv(uses, NotLoading(b, id), w) /\ KeepsStreams(b, NotLoading(b, id))
    BY <1>2, NotLoadingInv
  <1> QED BY <1>1, <1>2, <1>3 DEF KeepsStreams

\* A conversation that was asked for.
LEMMA LoadedInv ==
    ASSUME NEW uses, NEW w, NEW k, Inv(uses, k, w), NEW call, NEW v, Good(v, w)
    PROVE  Inv(uses, Loaded(k, call, v), w)
  <1>1. v.branch \in Named(w) \cup {None} /\ v.branch \in Branches \cup {None}
    BY DEF Good, ViewType
  <1>2. Inv(uses, [k EXCEPT !.ref = v.branch], w)
    BY <1>1, RefInv
  <1>3. PICK r : r = (IF k.ref = None THEN k ELSE [k EXCEPT !.ref = v.branch]) /\ Inv(uses, r, w)
    BY <1>2
  <1>4. Inv(uses, NotLoading(r, v.id), w)
    BY <1>3, NotLoadingInv
  <1>5. Inv(uses, NotLoading(Cache(Show(NotLoading(r, v.id), v), v), call.id), w)
    BY <1>4, ShownAndCached
  <1> QED BY <1>3, <1>5 DEF Loaded

\* A refresh.
LEMMA RefreshedInv ==
    ASSUME NEW uses, NEW w, NEW k, Inv(uses, k, w), NEW call, NEW v, Good(v, w)
    PROVE  Inv(uses, Refreshed(k, call, v), w) /\ KeepsStreams(k, Refreshed(k, call, v))
  <1>1. /\ Inv(uses, NotLoading(k, call.id), w)
        /\ KeepsStreams(k, NotLoading(k, call.id))
    BY NotLoadingInv
  <1>2. /\ Inv(uses, NotLoading(Cache(Show(k, v), v), call.id), w)
        /\ KeepsStreams(k, NotLoading(Cache(Show(k, v), v), call.id))
    BY ShownAndCached
  <1> QED BY <1>1, <1>2 DEF Refreshed

\* The time of the last edit.
LEMMA SinceInv ==
    ASSUME NEW uses, NEW w, NEW k, Inv(uses, k, w), NEW time \in Nat, time <= w.edited
    PROVE  Inv(uses, [k EXCEPT !.since = time], w)
  <1>1. k \in ClientType
    BY DEF Inv
  <1>2. PICK r \in ClientType : r = [k EXCEPT !.since = time]
    BY <1>1 DEF ClientType
  <1>3. /\ r.thread = k.thread /\ r.visible = k.visible /\ r.cache = k.cache
        /\ r.streams = k.streams /\ r.calls = k.calls
        /\ r.ref = k.ref /\ r.current = k.current /\ r.since = time
    BY <1>1, <1>2 DEF ClientType
  <1>4. Inv(uses, r, w)
    BY <1>3 DEF Inv, Names, Screen
  <1> QED BY <1>2, <1>4

\* The poll.
LEMMA PolledInv ==
    ASSUME NEW uses, NEW w, NEW k, Inv(uses, k, w), NEW time \in Nat, time <= w.edited
    PROVE  Inv(uses, Polled(k, time), w)
  <1>1. Inv(uses, [k EXCEPT !.since = time], w)
    BY SinceInv
  <1>2. Inv(uses, FetchUpdates([k EXCEPT !.since = time]), w)
    BY <1>1, FetchInv
  <1> QED BY <1>2 DEF Polled

\* The branch is another one.
LEMMA OnBranchChangeInv ==
    ASSUME NEW uses, NEW w, NEW k, Inv(uses, k, w), NEW b \in Branches, b \in Named(w)
    PROVE  Inv(uses, OnBranchChange(k, b), w) /\ KeepsStreams(k, OnBranchChange(k, b))
  <1>1. b \in Named(w) \cup {None} /\ b \in Branches \cup {None}
    OBVIOUS
  <1>2. PICK r : r = [k EXCEPT !.ref = b] /\ Inv(uses, r, w) /\ KeepsStreams(k, r)
    BY <1>1, RefInv
  <1>3. Inv(uses, FetchUpdates(r), w) /\ KeepsStreams(r, FetchUpdates(r))
    BY <1>2, FetchInv
  <1> QED BY <1>2, <1>3 DEF OnBranchChange, KeepsStreams

\* The branch hook names another branch.
LEMMA NowCurrentInv ==
    ASSUME NEW uses, NEW w, NEW k, Inv(uses, k, w), NEW b \in Branches, b \in Named(w)
    PROVE  /\ Inv(uses, [k EXCEPT !.current = b], w)
           /\ \A loaded \in BOOLEAN : Inv(uses, [k EXCEPT !.current = b, !.loaded = loaded], w)
           /\ KeepsStreams(k, [k EXCEPT !.current = b])
  <1>1. k \in ClientType /\ k.branchesOf \in Ids \cup {None} /\ k.loaded \in BOOLEAN
    BY DEF Inv, ClientType
  <1>2. ASSUME NEW loaded \in BOOLEAN
        PROVE  Inv(uses, [k EXCEPT !.current = b, !.loaded = loaded], w)
    <2>1. Inv(uses, [k EXCEPT !.branchesOf = k.branchesOf, !.current = b, !.loaded = loaded], w)
      BY <1>1, CurrentInv
    <2>2. [k EXCEPT !.branchesOf = k.branchesOf, !.current = b, !.loaded = loaded]
            = [k EXCEPT !.current = b, !.loaded = loaded]
      BY <1>1 DEF ClientType
    <2> QED BY <2>1, <2>2
  <1>3. [k EXCEPT !.current = b, !.loaded = k.loaded] = [k EXCEPT !.current = b]
    BY <1>1 DEF ClientType
  <1>4. Inv(uses, [k EXCEPT !.current = b], w)
    BY <1>1, <1>2, <1>3
  <1>5. KeepsStreams(k, [k EXCEPT !.current = b])
    BY <1>1 DEF ClientType, KeepsStreams
  <1> QED BY <1>2, <1>4, <1>5

\* After a branch was made the conversation is asked for, or the message sent.
LEMMA RewriteInv ==
    ASSUME NEW uses, NEW w, NEW k, Inv(uses, k, w), Free(k) # {}
    PROVE  Inv(uses, Rewrite(k), w)
  <1>1. /\ k.ref \in Named(w) \cup {None} /\ k.ref \in Branches \cup {None}
        /\ k.loading \in SUBSET Keys
    BY DEF Inv, ClientType, Names
  <1>2. CASE k.visible \in Ids
    <2>1. Key(k, k.visible) \in Keys
      BY <1>2, KeyType
    <2>2. k.loading \cup {Key(k, k.visible)} \in SUBSET Keys
      BY <1>1, <2>1
    <2>3. PICK q : q = [k EXCEPT !.loading = @ \cup {Key(k, k.visible)}] /\ Inv(uses, q, w)
      BY <2>2, LoadingInv
    <2>4. Askable(q, "rewrite", k.visible, k.ref, w)
      BY <1>1, <1>2 DEF Askable, Ops
    <2>5. Inv(uses, Ask(q, "rewrite", k.visible, k.ref), w)
      BY <2>3, <2>4, AskInv
    <2> QED BY <1>2, <2>3, <2>5 DEF Rewrite
  <1>3. CASE k.visible \notin Ids
    BY <1>3, SentInv DEF Rewrite
  <1> QED BY <1>2, <1>3

\* Older items come: what strays on the way is known to have strayed.
LEMMA OlderInv ==
    ASSUME NEW uses, NEW w, NEW k, Inv(uses, k, w), NEW call \in CallType,
           Good(call.reply, w), call.reply.id = call.id,
           k.thread # None /\ k.thread.id # call.id => call.reply.has \subseteq w.strays[k.thread.id]
    PROVE  Inv(uses, Older(k, call), w)
  <1>1. k \in ClientType /\ call.id \in Ids
    BY DEF Inv, CallType
  <1>2. PICK has \in SUBSET Int : has = call.reply.has /\ has \subseteq Facts(w, call.id)
    BY DEF Good, ViewType
  <1>3. ASSUME NEW v, Good(v, w), has \subseteq Facts(w, v.id)
        PROVE  Good([v EXCEPT !.has = @ \cup has], w) /\ [v EXCEPT !.has = @ \cup has].id = v.id
    <2>1. v \in ViewType
      BY <1>3 DEF Good
    <2>2. PICK x \in ViewType : x = [v EXCEPT !.has = @ \cup has]
      BY <2>1 DEF ViewType
    <2>3. x.id = v.id /\ x.branch = v.branch /\ x.has = v.has \cup has
      BY <2>1, <2>2 DEF ViewType
    <2> QED BY <1>3, <2>2, <2>3 DEF Good
  <1>4. PICK shown : /\ shown = IF k.thread = None THEN k
                                ELSE [k EXCEPT !.thread.has = @ \cup has]
                     /\ Inv(uses, shown, w)
    <2>1. CASE k.thread = None
      BY <2>1
    <2>2. CASE k.thread # None
      <3>1. Good(k.thread, w) /\ (uses = 0 => k.thread.id = k.visible)
        BY <2>2 DEF Inv, Screen
      <3>2. has \subseteq Facts(w, k.thread.id)
        BY <1>2, <2>2 DEF Facts
      <3>3. PICK v : v = [k.thread EXCEPT !.has = @ \cup has] /\ Good(v, w) /\ v.id = k.thread.id
        BY <1>3, <3>1, <3>2
      <3>4. Inv(uses, [k EXCEPT !.thread = v], w)
        BY <3>1, <3>3, ScreenInv
      <3>5. [k EXCEPT !.thread = v] = [k EXCEPT !.thread.has = @ \cup has]
        BY <1>1, <3>3 DEF ClientType
      <3> QED BY <2>2, <3>4, <3>5
    <2> QED BY <2>1, <2>2
  <1>5. CASE Cached(k, call.id) = None
    BY <1>2, <1>4, <1>5 DEF Older
  <1>6. CASE Cached(k, call.id) # None
    <2>1. PICK v : v = Cached(k, call.id) /\ Good(v, w) /\ v.id = call.id
      BY <1>6, CachedGood
    <2>2. Good([v EXCEPT !.has = @ \cup has], w)
      BY <1>2, <1>3, <2>1
    <2>3. Inv(uses, Cache(shown, [v EXCEPT !.has = @ \cup has]), w)
      BY <1>4, <2>2, CacheInv
    <2> QED BY <1>2, <1>4, <1>6, <2>1, <2>3 DEF Older
  <1> QED BY <1>5, <1>6

\* An answer.
LEMMA AnsweredInv ==
    ASSUME NEW uses, NEW w, NEW k, Inv(uses, k, w), NEW call \in CallType,
           CallGood(call, w),
           call.op = "older" /\ k.thread # None /\ k.thread.id # call.id =>
               call.reply.has \subseteq w.strays[k.thread.id],
           call.state = "answered", call.op \in {"fork", "rewrite"} => Free(k) # {},
           w.edited \in Nat, Named(w) \subseteq Branches
    PROVE  Inv(uses, Answered(k, call), w)
  <1>1. ReplyGood(call, w)
    BY DEF CallGood
  <1>2. CASE call.op = "load"
    <2>1. Good(call.reply, w)
      BY <1>1, <1>2 DEF ReplyGood, Fetches
    <2>2. Inv(uses, Loaded(k, call, call.reply), w)
      BY <2>1, LoadedInv
    <2> QED BY <1>2, <2>2 DEF Answered
  <1>3. CASE call.op = "refresh"
    <2>1. Good(call.reply, w)
      BY <1>1, <1>3 DEF ReplyGood, Fetches
    <2>2. Inv(uses, Refreshed(k, call, call.reply), w)
      BY <2>1, RefreshedInv
    <2> QED BY <1>3, <2>2 DEF Answered
  <1>4. CASE call.op = "branches"
    <2>1. call.reply \in Named(w) /\ call.reply \in Branches /\ TRUE \in BOOLEAN
      BY <1>1, <1>4 DEF ReplyGood
    <2>2. Inv(uses, [k EXCEPT !.current = call.reply, !.loaded = TRUE], w)
      BY <2>1, NowCurrentInv
    <2> QED BY <1>4, <2>2 DEF Answered
  <1>5. CASE call.op = "switch"
    <2>1. call.reply \in Named(w) /\ call.reply \in Branches
      BY <1>1, <1>5 DEF ReplyGood
    <2>2. Inv(uses, OnBranchChange(k, call.reply), w)
      BY <2>1, OnBranchChangeInv
    <2> QED BY <1>5, <2>2 DEF Answered
  <1>6. CASE call.op = "fork"
    <2>1. call.reply \in Named(w) /\ call.reply \in Branches
      BY <1>1, <1>6 DEF ReplyGood
    <2>2. PICK a : a = [k EXCEPT !.current = call.reply] /\ Inv(uses, a, w) /\ KeepsStreams(k, a)
      BY <2>1, NowCurrentInv
    <2>3. PICK b : b = OnBranchChange(a, call.reply) /\ Inv(uses, b, w) /\ KeepsStreams(a, b)
      BY <2>1, <2>2, OnBranchChangeInv
    <2>4. Free(b) # {}
      BY <1>6, <2>2, <2>3, SameFree
    <2>5. Inv(uses, Rewrite(b), w)
      BY <2>3, <2>4, RewriteInv
    <2> QED BY <1>6, <2>2, <2>3, <2>5 DEF Answered
  <1>7. CASE call.op = "rewrite"
    <2>1. Good(call.reply, w)
      BY <1>1, <1>7 DEF ReplyGood, Fetches
    <2>2. PICK a : a = Refreshed(k, call, call.reply) /\ Inv(uses, a, w) /\ KeepsStreams(k, a)
      BY <2>1, RefreshedInv
    <2>3. Free(a) # {}
      BY <1>7, <2>2, SameFree
    <2>4. Inv(uses, Sent(a), w)
      BY <2>2, <2>3, SentInv
    <2> QED BY <1>7, <2>2, <2>4 DEF Answered
  <1>8. CASE call.op = "poll"
    <2>1. call.reply \in Nat /\ call.reply <= w.edited
      BY <1>1, <1>8 DEF ReplyGood
    <2>2. Inv(uses, Polled(k, call.reply), w)
      BY <2>1, PolledInv
    <2> QED BY <1>8, <2>2 DEF Answered
  <1>9. CASE call.op = "older"
    <2>1. Good(call.reply, w) /\ call.reply.id = call.id
      BY <1>1, <1>9 DEF ReplyGood, Fetches
    <2>2. Inv(uses, Older(k, call), w)
      BY <1>9, <2>1, OlderInv
    <2> QED BY <1>9, <2>2 DEF Answered
  <1> QED BY <1>2, <1>3, <1>4, <1>5, <1>6, <1>7, <1>8, <1>9 DEF CallType, Ops

\* A call that failed.
LEMMA BrokenInv ==
    ASSUME NEW uses, NEW w, NEW k, Inv(uses, k, w), NEW call \in CallType,
           Main \in Named(w),
           call.op = "rewrite" => Free(k) # {}
    PROVE  Inv(uses, Broken(k, call), w)
  <1>1. Inv(uses, NotLoading(k, call.id), w) /\ KeepsStreams(k, NotLoading(k, call.id))
    BY NotLoadingInv
  <1>2. CASE call.op \in {"load", "refresh"}
    BY <1>1, <1>2 DEF Broken
  <1>3. CASE call.op = "branches"
    <2>1. Main \in Branches /\ FALSE \in BOOLEAN
      BY ClientAssumption
    <2>2. Inv(uses, [k EXCEPT !.current = Main, !.loaded = FALSE], w)
      BY <2>1, NowCurrentInv
    <2> QED BY <1>3, <2>2 DEF Broken
  <1>4. CASE call.op = "rewrite"
    <2>1. Free(NotLoading(k, call.id)) # {}
      BY <1>1, <1>4, SameFree
    <2>2. Inv(uses, Sent(NotLoading(k, call.id)), w)
      BY <1>1, <2>1, SentInv
    <2> QED BY <1>4, <2>2 DEF Broken
  <1>5. CASE call.op \in {"switch", "fork", "poll", "older"}
    BY <1>5 DEF Broken
  <1> QED BY <1>2, <1>3, <1>4, <1>5 DEF CallType, Ops

\* The calls of rest are some of these, each at most once.
Among(rest, calls) ==
    \E f \in [DOMAIN rest -> DOMAIN calls] :
       /\ \A m \in DOMAIN rest : rest[m] = calls[f[m]]
       /\ \A m, n \in DOMAIN rest : m # n => f[m] # f[n]

\* A list of calls without one.
LEMMA OneCallLess ==
    ASSUME NEW calls \in Seq(CallType), NEW i \in DOMAIN calls
    PROVE  LET rest == SubSeq(calls, 1, i - 1) \o SubSeq(calls, i + 1, Len(calls))
           IN  rest \in Seq(CallType) /\ Among(rest, calls)
  <1>1. /\ Len(calls) \in Nat /\ DOMAIN calls = 1 .. Len(calls) /\ i \in 1 .. Len(calls)
        /\ \A j \in 1 .. Len(calls) : calls[j] \in CallType
    OBVIOUS
  <1>2. PICK len \in Nat : len = Len(calls)
    BY <1>1
  <1>3. i - 1 \in Int /\ i + 1 \in Int /\ 1 \in Int /\ len \in Int
    BY <1>1, <1>2
  <1>4. /\ \A j \in 1 .. i - 1 : calls[j] \in CallType
        /\ \A j \in i + 1 .. len : calls[j] \in CallType
    BY <1>1, <1>2
  <1>5. /\ SubSeq(calls, 1, i - 1) \in Seq(CallType)
        /\ Len(SubSeq(calls, 1, i - 1)) = i - 1
        /\ \A j \in 1 .. i - 1 : SubSeq(calls, 1, i - 1)[j] = calls[j]
    <2>1. /\ SubSeq(calls, 1, i - 1) \in Seq(CallType)
          /\ Len(SubSeq(calls, 1, i - 1)) = IF 1 <= i - 1 THEN i - 1 - 1 + 1 ELSE 0
          /\ \A j \in 1 .. i - 1 - 1 + 1 : SubSeq(calls, 1, i - 1)[j] = calls[1 + j - 1]
      BY <1>3, <1>4, SubSeqProperties
    <2> QED BY <1>1, <2>1
  <1>6. /\ SubSeq(calls, i + 1, len) \in Seq(CallType)
        /\ Len(SubSeq(calls, i + 1, len)) = len - i
        /\ \A j \in 1 .. len - i : SubSeq(calls, i + 1, len)[j] = calls[i + j]
    <2>1. /\ SubSeq(calls, i + 1, len) \in Seq(CallType)
          /\ Len(SubSeq(calls, i + 1, len)) = IF i + 1 <= len THEN len - (i + 1) + 1 ELSE 0
          /\ \A j \in 1 .. len - (i + 1) + 1 :
               SubSeq(calls, i + 1, len)[j] = calls[i + 1 + j - 1]
      BY <1>3, <1>4, SubSeqProperties
    <2> QED BY <1>1, <1>2, <2>1
  <1>7. PICK a \in Seq(CallType) : /\ a = SubSeq(calls, 1, i - 1) /\ Len(a) = i - 1
                                   /\ \A j \in 1 .. i - 1 : a[j] = calls[j]
    BY <1>5
  <1>8. PICK b \in Seq(CallType) : /\ b = SubSeq(calls, i + 1, len) /\ Len(b) = len - i
                                   /\ \A j \in 1 .. len - i : b[j] = calls[i + j]
    BY <1>6
  <1>9. /\ a \o b \in Seq(CallType) /\ Len(a \o b) = len - 1
        /\ \A j \in 1 .. len - 1 : (a \o b)[j] = IF j <= i - 1 THEN a[j] ELSE b[j - (i - 1)]
    <2>1. /\ a \o b \in Seq(CallType) /\ Len(a \o b) = Len(a) + Len(b)
          /\ \A j \in 1 .. Len(a) + Len(b) :
               (a \o b)[j] = IF j <= Len(a) THEN a[j] ELSE b[j - Len(a)]
      BY ConcatProperties
    <2>2. Len(a) = i - 1 /\ Len(b) = len - i /\ Len(a) + Len(b) = len - 1
      BY <1>1, <1>2, <1>7, <1>8
    <2> QED BY <2>1, <2>2
  <1>10. \A j \in 1 .. len - 1 : (a \o b)[j] = IF j <= i - 1 THEN calls[j] ELSE calls[j + 1]
    <2>1. ASSUME NEW j \in 1 .. len - 1, j <= i - 1
          PROVE  (a \o b)[j] = calls[j]
      <3>1. j \in 1 .. i - 1
        BY <1>1, <1>2, <2>1
      <3>2. (a \o b)[j] = a[j]
        BY <1>9, <2>1
      <3> QED BY <1>7, <3>1, <3>2
    <2>2. ASSUME NEW j \in 1 .. len - 1, ~(j <= i - 1)
          PROVE  (a \o b)[j] = calls[j + 1]
      <3>1. j - (i - 1) \in 1 .. len - i /\ i + (j - (i - 1)) = j + 1
        BY <1>1, <1>2, <2>2
      <3>2. (a \o b)[j] = b[j - (i - 1)]
        BY <1>9, <2>2
      <3>3. b[j - (i - 1)] = calls[i + (j - (i - 1))]
        BY <1>8, <3>1
      <3> QED BY <3>1, <3>2, <3>3
    <2> QED BY <2>1, <2>2
  <1>11. DOMAIN (a \o b) = 1 .. len - 1
    BY <1>9, LenProperties
  <1>12. Among(a \o b, calls)
    <2> DEFINE f == [j \in 1 .. len - 1 |-> IF j <= i - 1 THEN j ELSE j + 1]
    <2>1. f \in [1 .. len - 1 -> 1 .. len]
      BY <1>1, <1>2
    <2>2. \A m \in 1 .. len - 1 : (a \o b)[m] = calls[f[m]]
      BY <1>10
    <2>3. \A m, n \in 1 .. len - 1 : m # n => f[m] # f[n]
      BY <1>1, <1>2
    <2> HIDE DEF f
    <2> QED BY <1>1, <1>2, <1>11, <2>1, <2>2, <2>3 DEF Among
  <1> QED BY <1>2, <1>7, <1>8, <1>9, <1>12

\* A call has come back.
LEMMA DroppedInv ==
    ASSUME NEW uses, NEW w, NEW k, Inv(uses, k, w), NEW i \in DOMAIN k.calls
    PROVE  Inv(uses, Dropped(k, i), w) /\ KeepsStreams(k, Dropped(k, i))
  <1>1. /\ k \in ClientType /\ k.calls \in Seq(CallType)
        /\ CallsGood(k.calls, w) /\ ForksGood(k.calls, w)
    BY DEF Inv, ClientType
  <1>2. PICK rest \in Seq(CallType) :
          /\ rest = SubSeq(k.calls, 1, i - 1) \o SubSeq(k.calls, i + 1, Len(k.calls))
          /\ Among(rest, k.calls)
    BY <1>1, OneCallLess
  <1>3. PICK f \in [DOMAIN rest -> DOMAIN k.calls] :
          /\ \A m \in DOMAIN rest : rest[m] = k.calls[f[m]]
          /\ \A m, n \in DOMAIN rest : m # n => f[m] # f[n]
    BY <1>2 DEF Among
  <1>5. CallsGood(rest, w)
    BY <1>1, <1>3 DEF CallsGood
  <1>4. \A j \in Forks(rest) : j \in DOMAIN rest /\ f[j] \in Forks(k.calls)
    BY <1>3 DEF Forks
  <1>6. ForksGood(rest, w)
    BY <1>1, <1>3, <1>4 DEF ForksGood
  <1>7. PICK r \in ClientType : r = [k EXCEPT !.calls = rest]
    BY <1>1 DEF ClientType
  <1>8. /\ r.thread = k.thread /\ r.visible = k.visible /\ r.cache = k.cache
        /\ r.streams = k.streams /\ r.calls = rest
        /\ r.ref = k.ref /\ r.current = k.current /\ r.since = k.since
    BY <1>1, <1>7 DEF ClientType
  <1>9. Inv(uses, r, w)
    BY <1>5, <1>6, <1>8 DEF Inv, Names, Screen
  <1>10. r = Dropped(k, i)
    BY <1>2, <1>7 DEF Dropped
  <1> QED BY <1>8, <1>9, <1>10 DEF KeepsStreams

=============================================================================
