----------------------------- MODULE ChatClient -----------------------------
(***************************************************************************)
(* The chat front end of one browser window: the hook useChatKit with the  *)
(* hooks it is made of (useThreadState, useThreadLoader,                   *)
(* useMessageStreaming, useBranches, useLiveUpdates) and the callbacks     *)
(* (useChatkitCallbacks) through which it talks to the page around it.     *)
(*                                                                         *)
(* A conversation is what the server holds of it: a set of facts per       *)
(* branch.  A positive fact is an item of a turn, a negative one the text  *)
(* an administrator gave a step of the workflow.  The items before the     *)
(* newest page are apart: they are the same on every branch.  What the     *)
(* client holds is a view: the conversation, the branch the server called  *)
(* current, the facts.  The server is modelled as far as the client uses   *)
(* it.                                                                     *)
(***************************************************************************)
EXTENDS Integers, Sequences, FiniteSets

CONSTANTS
    Threads,     \* the conversations the server may hold at the start
    Born,        \* the conversation that a first message creates
    Branches,    \* the branches of a conversation
    Main,        \* the branch every conversation has
    None,        \* the absence of a value
    Slots,       \* bound: the streams one window can have at a time
    TurnLength,  \* bound: the items of one turn
    Starts,      \* the situations the window may be opened in, with the bounds
    AutoStart    \* may a workflow send its first message within 100 ms of "+"?

ASSUME ClientAssumption ==
    /\ Born \notin Threads
    /\ Main \in Branches
    /\ None \notin Threads \cup {Born} \cup Branches
    /\ \A id \in Threads \cup {Born} : id \notin Nat
    /\ Slots \in Nat \ {0} /\ TurnLength \in Nat \ {0}
    /\ AutoStart \in BOOLEAN

Ids == Threads \cup {Born}
Streams == 1..Slots
Bounded == {"sends", "moves", "news", "blanks", "switches", "looks", "rewrites",
            "clicks", "edits", "failures", "olders", "waits"}
Situation ==
    [wanted : Ids \cup {None}, exists : SUBSET Threads, running : SUBSET Threads,
     branches : SUBSET Branches, cur : [Ids -> Branches],
     items : Nat, old : [Ids -> SUBSET Nat],
     left : [Bounded -> Nat], net : {"reliable", "wild"}]

\* Only a conversation that exists has branches besides the main one, and older
\* items, of its own.
ASSUME StartsAssumption ==
    \A start \in Starts :
      /\ start \in Situation /\ Main \in start.branches
      /\ \A id \in Ids :
           /\ start.cur[id] \in IF id \in start.exists THEN start.branches ELSE {Main}
           /\ start.old[id] \subseteq IF id \in start.exists THEN 1..start.items ELSE {}
           /\ \A other \in Ids \ {id} : start.old[id] \cap start.old[other] = {}

VARIABLES
    c,      \* the client: state, refs, cache, streams and calls under way
    srv,    \* the server: conversations, running turns, last live update; and, kept
            \* for NoForeignItem only, the foreign older items that each has been given
    left,   \* bound: what users and the network may still do
    net     \* "reliable": calls are answered in order; "wild": not, or fail

vars == <<c, srv, left, net>>

View(id, branch, has) == [id |-> id, branch |-> branch, has |-> has]

ASSUME NoneAssumption == \A id \in Ids : View(id, Main, {}) # None

-----------------------------------------------------------------------------
(* Keys, cache and controllers.                                            *)

\* The key of the maps: the conversation and the branch the ref names now.
Key(k, id) == <<id, k.ref>>

Put(f, x, v) == [y \in DOMAIN f \cup {x} |-> IF y = x THEN v ELSE f[y]]
Without(f, xs) == [y \in DOMAIN f \ xs |-> f[y]]
Cached(k, id) == IF Key(k, id) \in DOMAIN k.cache THEN k.cache[Key(k, id)] ELSE None
ShownId(k) == IF k.thread = None THEN None ELSE k.thread.id

NoStream ==
    [state |-> "idle", dead |-> FALSE, kind |-> "none", target |-> None,
     asked |-> None, first |-> None, key |-> None, view |-> None, got |-> FALSE,
     from |-> None, front |-> FALSE, hears |-> None, inbox |-> <<>>]

Under(k, s) == k.streams[s].state \in {"posting", "open"}
Free(k) == {s \in Streams : k.streams[s].state = "idle"}
NextSlot(k) == CHOOSE s \in Free(k) : TRUE

\* A new instance of the hook, opened on a conversation or on none.
Instance(id, temp) ==
    [wanted |-> id, thread |-> None, visible |-> IF id = None THEN temp ELSE id,
     ref |-> None, cache |-> <<>>, loading |-> {}, controllers |-> <<>>,
     current |-> Main, loaded |-> FALSE, branchesOf |-> None, resumed |-> {},
     since |-> 0, temps |-> temp, draft |-> FALSE, newStreaming |-> FALSE, orphans |-> {},
     streams |-> [s \in Streams |-> NoStream], calls |-> <<>>]

-----------------------------------------------------------------------------
(* What the hooks do.                                                      *)

Ask(k, op, id, branch) ==
    [k EXCEPT !.calls = Append(@, [op |-> op, id |-> id, asked |-> branch,
                                 was |-> k.current, state |-> "asked", reply |-> None])]

\* Variant: new conversations share one temporary identifier.
OneTempThread(k) == [k EXCEPT !.thread = None, !.visible = 0]
\* No conversation is wanted any more: an empty one with an identifier of its own.
TempThread(k) == [k EXCEPT !.thread = None, !.temps = @ + 1, !.visible = k.temps + 1]

Show(k, view) == [k EXCEPT !.thread = view, !.visible = view.id]
\* Variant: a view is cached for the conversation the refs name.
CacheShown(k, view) == [k EXCEPT !.cache = Put(@, Key(k, k.visible), view)]
\* A view is cached for its own conversation.
Cache(k, view) == [k EXCEPT !.cache = Put(@, Key(k, view.id), view)]

\* Another conversation is wanted: the branch is forgotten, the conversation
\* is shown from the cache or asked for.
Load(k) ==
    LET r == [k EXCEPT !.ref = None] IN
    IF r.wanted = None THEN TempThread(r)
    ELSE IF Cached(r, r.wanted) # None THEN Show(r, Cached(r, r.wanted))
    ELSE Ask([r EXCEPT !.loading = @ \cup {Key(r, r.wanted)}], "load", r.wanted, r.ref)

\* Ask again for the conversation on the screen.
FetchUpdates(k) ==
    IF k.visible \in Ids
    THEN Ask([k EXCEPT !.loading = @ \cup {Key(k, k.visible)}], "refresh", k.visible, k.ref)
    ELSE k

OnResponseStart(k, id) == [k EXCEPT !.newStreaming = id \notin Ids]

\* Begin to stream: for a message or to listen to a turn that already runs.
HandleStream(k, s, id, kind) ==
    LET key == Key(k, id) IN
    OnResponseStart(
      [k EXCEPT !.loading = @ \cup {key},
                !.controllers = Put(@, key, s),
                !.streams[s] = [NoStream EXCEPT
                    !.state = "posting", !.kind = kind, !.target = id,
                    !.asked = k.ref, !.first = key, !.key = key,
                    !.view = IF id \in Ids THEN Cached(k, id) ELSE None,
                    !.from = ShownId(k)]], id)

ResumeStream(k, id) ==
    IF Key(k, id) \in DOMAIN k.controllers \/ Free(k) = {} THEN k
    ELSE HandleStream(k, NextSlot(k), id, "resume")

\* A message to the conversation the refs name; what streams there is aborted.
Sent(k) ==
    LET key == Key(k, k.visible)
        quiet == IF key \in DOMAIN k.controllers /\ k.controllers[key] # None
                 THEN [k EXCEPT !.streams[k.controllers[key]].state = "aborted"] ELSE k
    IN HandleStream(quiet, NextSlot(k), k.visible, "message")

AutoResume(k) ==
    IF ShownId(k) = None \/ ShownId(k) \in k.resumed THEN k
    ELSE ResumeStream([k EXCEPT !.resumed = @ \cup {ShownId(k)}], ShownId(k))

LoadBranches(k) ==
    IF ShownId(k) = None
    THEN [k EXCEPT !.branchesOf = None, !.current = Main, !.loaded = FALSE]
    ELSE IF ShownId(k) = k.branchesOf THEN k
    ELSE Ask([k EXCEPT !.branchesOf = ShownId(k)], "branches", ShownId(k), None)

\* The branch of the ref follows what the branch hook says, when that changes.
FollowBranch(old, k) ==
    IF <<k.current, k.loaded>> = <<old.current, old.loaded>> THEN k
    ELSE [k EXCEPT !.ref = IF k.loaded THEN k.current ELSE None]

\* The page: it is on a draft whenever it comes to want no conversation.
SyncDraft(k) == [k EXCEPT !.draft = k.wanted = None]

\* A handler leaves k; React runs the effects, until nothing changes.
Client(k) ==
    \E handled \in {k} :
    \E opened  \in {IF handled.wanted = c.wanted THEN handled ELSE Load(SyncDraft(handled))} :
    \E resumed \in {AutoResume(opened)} :
    \E listed  \in {LoadBranches(resumed)} : c' = FollowBranch(c, listed)

\* A second instance of the hook, with no conversation, replaces the first: its
\* streams live on for 100 ms, its calls answer to nobody, but that a conversation
\* it loads does not exist the page is told all the same.
Replaced(k, s) ==
    IF ~Under(k, s) THEN NoStream
    ELSE IF k.streams[s].dead THEN k.streams[s]
    ELSE [k.streams[s] EXCEPT !.dead = TRUE, !.front = k.streams[s].key = Key(k, k.visible)]
Loads(k) == {k.calls[i].id : i \in {j \in DOMAIN k.calls : k.calls[j].op = "load"}}
Remount(k) ==
    [Instance(None, k.temps + 1) EXCEPT !.streams = [s \in Streams |-> Replaced(k, s)],
                                        !.draft = k.draft, !.newStreaming = k.newStreaming,
                                        !.orphans = k.orphans \cup Loads(k)]

-----------------------------------------------------------------------------
(* The callbacks of the page.                                              *)

\* Variant: every conversation that streams becomes the wanted one.
ThreadChangeAlways(k, id) == [k EXCEPT !.draft = FALSE, !.wanted = id]
\* A stream says which conversation it is about: ignored in a draft, unless
\* the draft itself is what streams.
OnThreadChange(k, id) ==
    IF k.draft /\ ~k.newStreaming THEN k
    ELSE [k EXCEPT !.draft = FALSE, !.wanted = id]

OnResponseEnd(k) == FetchUpdates([k EXCEPT !.newStreaming = FALSE])

\* The conversation does not exist: the page goes to a new one.
OnThreadNotFound(k) == Remount([k EXCEPT !.draft = TRUE, !.newStreaming = FALSE])

-----------------------------------------------------------------------------
(* The stream of a response.                                               *)

\* Variant: events are applied to the conversation on the screen.
AppliedToScreen(k, s, event) ==
    IF event.type = "created" THEN View(event.id, Main, {})
    ELSE IF k.thread = None THEN None
    ELSE [k.thread EXCEPT !.has = @ \cup {event.fact}]
\* Events are applied to what the stream began with; without that, only a new
\* conversation gives them something to apply to.
Applied(k, s, event) ==
    IF event.type = "created" THEN View(event.id, Main, {})
    ELSE IF k.streams[s].view = None THEN None
    ELSE [k.streams[s].view EXCEPT !.has = @ \cup {event.fact}]

\* The stream goes under the key its conversation has now.
Rekey(k, s, id) ==
    LET st == k.streams[s] IN
    IF st.first = Key(k, id) THEN k
    ELSE [k EXCEPT !.controllers = Put(Without(@, {st.first}), Key(k, id), s),
                   !.loading = (@ \ {Key(k, st.target)}) \cup {Key(k, id)},
                   !.streams[s].key = Key(k, id)]

\* Cached always, shown only if the stream's conversation is the visible one.
OnThreadUpdate(k, s, view) ==
    LET st == k.streams[s]
        front == st.key = Key(k, k.visible)
        kept == Rekey(Cache([k EXCEPT !.streams[s].view = view, !.streams[s].got = TRUE], view),
                      s, view.id)
    IN IF ~front THEN kept
       ELSE IF st.from = view.id THEN Show(kept, view)
       ELSE OnThreadChange(Show(kept, view), view.id)

\* A stream is no more; what still names its controller aborts nothing.
Over(k, s) ==
    [k EXCEPT !.streams[s] = NoStream,
              !.controllers = [x \in DOMAIN @ |-> IF @[x] = s THEN None ELSE @[x]]]

\* The end of every stream of a message or a resumption, whatever ended it.
Finally(k, s) ==
    LET st == k.streams[s]
        keys == {Key(k, st.target)} \cup (IF st.got THEN {Key(k, st.view.id)} ELSE {})
    IN Over([k EXCEPT !.loading = @ \ keys, !.controllers = Without(@, keys)], s)

\* Variant: the conversation is not asked for again after a response.
EndedWithoutRefresh(k, s) == Finally([k EXCEPT !.newStreaming = FALSE], s)
\* Variant: the last view is shown whatever is on the screen.
EndedOnScreen(k, s) ==
    LET st == k.streams[s] IN
    Finally(OnResponseEnd([k EXCEPT !.thread = IF st.got THEN st.view ELSE @]), s)
\* The response is complete: the last view stays, the server is asked again.
Ended(k, s) ==
    LET st == k.streams[s]
        last == IF st.got /\ st.key = Key(k, k.visible) THEN [k EXCEPT !.thread = st.view] ELSE k
    IN Finally(OnResponseEnd(last), s)

\* A stream of the instance that was replaced reaches only the page.
DeadEvent(k, s, event) ==
    LET st == k.streams[s]
        view == Applied(k, s, event)
        seen == [k EXCEPT !.streams[s].view = view]
    IN IF event.type = "done" THEN Over(IF st.kind = "click" THEN k ELSE OnResponseEnd(k), s)
       ELSE IF st.kind = "click" \/ (view # None /\ st.front /\ st.from # view.id)
       THEN OnThreadChange(seen, view.id)
       ELSE seen

\* The stream of a widget's action takes the screen at every event.
ClickEvent(k, s, event) ==
    LET view == IF event.type = "done" THEN k.streams[s].view ELSE Applied(k, s, event)
        shown == Cache([k EXCEPT !.thread = view, !.streams[s].view = view], view)
    IN IF event.type = "done" THEN Over(shown, s) ELSE OnThreadChange(shown, view.id)

Event(k, s, event) ==
    IF k.streams[s].dead THEN DeadEvent(k, s, event)
    ELSE IF k.streams[s].kind = "click" THEN ClickEvent(k, s, event)
    ELSE IF event.type = "done" THEN Ended(k, s)
    ELSE IF Applied(k, s, event) = None THEN k
    ELSE OnThreadUpdate(k, s, Applied(k, s, event))

-----------------------------------------------------------------------------
(* What the users do.                                                      *)

May(what) == left[what] > 0
Once(what) == left' = [left EXCEPT ![what] = @ - 1]
Busy == Key(c, IF c.thread = None THEN c.visible ELSE c.thread.id) \in c.loading

\* A message is typed and sent.
SendUserMessage ==
    /\ May("sends") /\ ~Busy /\ Free(c) # {}
    /\ AutoStart \/ \A s \in Streams : c.streams[s].dead => c.streams[s].kind = "click"
    /\ c.visible \in Ids \/ ~srv.exists[Born]
    /\ Client(Sent(c))
    /\ Once("sends") /\ UNCHANGED <<srv, net>>

\* b names no branch yet.
Unused(b) ==
    /\ \A id \in Ids : b \notin srv.branches[id]
    /\ \A i \in DOMAIN c.calls : c.calls[i].op = "fork" => c.calls[i].asked # b

\* A message of the conversation is edited: a branch is made for it first.
EditMessage(b) ==
    /\ May("rewrites") /\ ~Busy /\ c.thread # None /\ c.thread.has # {}
    /\ Unused(b)
    /\ Client(Ask(c, "fork", c.thread.id, b))
    /\ Once("rewrites") /\ UNCHANGED <<srv, net>>

\* A widget of the conversation on the screen is used.
CustomAction ==
    /\ May("clicks") /\ c.thread # None /\ Free(c) # {}
    /\ c' = [c EXCEPT !.streams[NextSlot(c)] =
               [NoStream EXCEPT !.state = "posting", !.kind = "click",
                                !.target = c.thread.id, !.view = c.thread]]
    /\ Once("clicks") /\ UNCHANGED <<srv, net>>

\* A conversation is chosen in the sidebar.
ThreadSelect(id) ==
    /\ May("moves") /\ id # c.wanted /\ srv.exists[id]
    /\ Client([c EXCEPT !.draft = FALSE, !.wanted = id])
    /\ Once("moves") /\ UNCHANGED <<srv, net>>

\* The page of items before those on the screen is asked for, one at a time.
LoadOlder ==
    /\ May("olders") /\ c.thread # None /\ ~(srv.old[c.thread.id] \subseteq c.thread.has)
    /\ \A i \in DOMAIN c.calls : c.calls[i].op # "older"
    /\ c' = Ask(c, "older", c.thread.id, None)
    /\ Once("olders") /\ UNCHANGED <<srv, net>>

\* "+" in the sidebar: a new conversation in a new instance.
NewConversation ==
    /\ May("news")
    /\ c' = Remount([c EXCEPT !.draft = TRUE, !.newStreaming = FALSE])
    /\ Once("news") /\ UNCHANGED <<srv, net>>

\* The button of the header: a new conversation in the same instance.
NewThread ==
    /\ May("blanks") /\ c.wanted # None
    /\ Client([c EXCEPT !.wanted = None])
    /\ Once("blanks") /\ UNCHANGED <<srv, net>>

\* Another branch is chosen: shown at once, then asked for.
SwitchBranch(b) ==
    /\ May("switches") /\ c.thread # None /\ c.loaded
    /\ b \in srv.branches[c.thread.id] \ {c.current}
    /\ Client([Ask(c, "switch", c.thread.id, b) EXCEPT !.current = b])
    /\ Once("switches") /\ UNCHANGED <<srv, net>>

\* The window is looked at again: a refresh, unless something streams.
Focus ==
    /\ May("looks") /\ ~Busy
    /\ Client(FetchUpdates(c))
    /\ Once("looks") /\ UNCHANGED <<srv, net>>

-----------------------------------------------------------------------------
(* The server, as the client uses it.                                      *)

Content(id, b) == srv.facts[id][b]
Hear(st, id, events) ==
    IF st.state = "open" /\ st.hears = id THEN [st EXCEPT !.inbox = @ \o events] ELSE st
Push(k, id, events) ==
    [k EXCEPT !.streams = [s \in Streams |-> Hear(k.streams[s], id, events)]]
Item(f)  == [type |-> "item", id |-> None, fact |-> f]
New(id)  == [type |-> "created", id |-> id, fact |-> 0]
Done     == [type |-> "done", id |-> None, fact |-> 0]
Turn(b)  == [branch |-> b, items |-> 0]
Opened(s, id, inbox) == [c EXCEPT !.streams[s].state = "open", !.streams[s].hears = id,
                                  !.streams[s].inbox = inbox]

\* A stream's request reaches the server.  A turn that runs is listened to; a
\* message takes its place; an action is for the turn that waits for it, or
\* starts one.
Accept(s) ==
    LET st == c.streams[s] IN
    /\ st.state = "posting"
    /\ \/ /\ st.kind = "resume" /\ srv.turn[st.target] # None
          /\ c' = Opened(s, st.target, <<>>) /\ UNCHANGED srv
       \/ /\ \/ st.kind = "resume" /\ srv.turn[st.target] = None
             \/ st.kind = "click" /\ srv.turn[st.target] # None
          /\ c' = Opened(s, None, <<Done>>) /\ UNCHANGED srv
       \/ /\ \/ st.kind = "message" /\ st.target \in Ids
             \/ st.kind = "click" /\ srv.turn[st.target] = None
          /\ c' = Opened(s, st.target, <<>>)
          /\ srv' = [srv EXCEPT !.turn[st.target] = Turn(st.asked)]
       \/ /\ st.kind = "message" /\ st.target \notin Ids /\ ~srv.exists[Born]
          /\ c' = Opened(s, Born, <<New(Born)>>)
          /\ srv' = [srv EXCEPT !.exists[Born] = TRUE, !.turn[Born] = Turn(None)]
    /\ UNCHANGED <<left, net>>

\* A turn produces an item, stores it on the branch its message named or else on
\* the current one, and sends it to who listens.
Produce(id) ==
    LET turn == srv.turn[id]
        last == turn.items + 1 = TurnLength
        next == IF last THEN None ELSE [turn EXCEPT !.items = @ + 1]
        branch == IF turn.branch = None THEN srv.cur[id] ELSE turn.branch
    IN /\ turn # None
       /\ srv' = [srv EXCEPT !.items = @ + 1,
                     !.facts[id][branch] = @ \cup {srv.items + 1},
                     !.turn[id] = next]
       /\ c' = Push(c, id, IF last THEN <<Item(srv.items + 1), Done>> ELSE <<Item(srv.items + 1)>>)
       /\ UNCHANGED <<left, net>>

\* An administrator edits a step: stored items change, the time is noted.
LiveEdit ==
    /\ May("edits")
    /\ srv' = [srv EXCEPT !.edited = @ + 1,
                  !.facts = [id \in Ids |-> [b \in Branches |->
                      IF srv.exists[id] THEN @[id][b] \cup {-(srv.edited + 1)} ELSE @[id][b]]]]
    /\ Once("edits") /\ UNCHANGED <<c, net>>

\* What the server answers to a call, if it does what it asks.
Reply(call) ==
    CASE call.op \in {"load", "refresh", "rewrite"} ->
            View(call.id, srv.cur[call.id],
                 Content(call.id, IF call.asked = None THEN srv.cur[call.id] ELSE call.asked))
      [] call.op = "older"    -> View(call.id, srv.cur[call.id], srv.old[call.id])
      [] call.op = "branches" -> srv.cur[call.id]
      [] call.op \in {"switch", "fork"} -> call.asked
      [] call.op = "poll"     -> srv.edited

\* What it does: a switch names the branch, a fork makes it of all but the newest item.
Effect(call) ==
    CASE call.op = "switch" -> [srv EXCEPT !.cur[call.id] = call.asked]
      [] call.op = "fork"   -> [srv EXCEPT !.cur[call.id] = call.asked,
                                   !.branches[call.id] = @ \cup {call.asked},
                                   !.facts[call.id][call.asked] =
                                       Content(call.id, srv.cur[call.id]) \ {srv.items}]
      [] OTHER -> srv

\* Calls are served, and their answers arrive, in order when the net is reliable.
InOrder(i, pending) == net = "wild" \/ \A j \in 1..(i - 1) : ~pending[j]
Serve(i) ==
    LET call == c.calls[i] IN
    /\ call.state = "asked"
    /\ InOrder(i, [j \in DOMAIN c.calls |-> c.calls[j].state = "asked"])
    /\ \/ /\ srv.exists[call.id]
          /\ c' = [c EXCEPT !.calls[i].state = "answered", !.calls[i].reply = Reply(call)]
          /\ srv' = Effect(call) /\ UNCHANGED left
       \/ /\ ~srv.exists[call.id]
          /\ c' = [c EXCEPT !.calls[i].state = "refused"] /\ UNCHANGED <<srv, left>>
       \/ /\ call.op = "switch" /\ net = "wild" /\ May("failures")
          /\ c' = [c EXCEPT !.calls[i].state = "refused"] /\ Once("failures") /\ UNCHANGED srv
    /\ UNCHANGED net

-----------------------------------------------------------------------------
(* What the calls come back with.                                          *)

Dropped(k, i) == [k EXCEPT !.calls = SubSeq(@, 1, i - 1) \o SubSeq(@, i + 1, Len(@))]
NotLoading(k, id) == [k EXCEPT !.loading = @ \ {Key(k, id)}]

\* Variant: the first answer is ignored when it names another branch.
LoadedStrictly(k, call, view) ==
    IF k.ref # None /\ view.branch # k.ref THEN NotLoading(k, call.id)
    ELSE NotLoading(Cache(Show(NotLoading(k, view.id), view), view), call.id)
\* A conversation asked for: shown whatever has happened since; its branch wins.
Loaded(k, call, view) ==
    LET r == IF k.ref = None THEN k ELSE [k EXCEPT !.ref = view.branch]
    IN NotLoading(Cache(Show(NotLoading(r, view.id), view), view), call.id)

\* A refresh: ignored when it names another branch.
Refreshed(k, call, view) ==
    IF k.ref # None /\ view.branch # k.ref THEN NotLoading(k, call.id)
    ELSE NotLoading(Cache(Show(k, view), view), call.id)

\* Variant: the poll notes the time and leaves the refresh to the next one.
PolledOnly(k, time) == [k EXCEPT !.since = time]
\* The poll saw a later edit.
Polled(k, time) == IF time > k.since THEN FetchUpdates([k EXCEPT !.since = time]) ELSE k

OnBranchChange(k, b) == FetchUpdates([k EXCEPT !.ref = b])

\* After the branch was made: another refresh, after which the message is sent.
Rewrite(k) ==
    IF k.visible \in Ids
    THEN Ask([k EXCEPT !.loading = @ \cup {Key(k, k.visible)}], "rewrite", k.visible, k.ref)
    ELSE Sent(k)

\* The older items go to whatever conversation is on the screen by now, and to what
\* is cached of their own.
Older(k, call) ==
    LET shown == IF k.thread = None THEN k
                 ELSE [k EXCEPT !.thread.has = @ \cup call.reply.has]
    IN IF Cached(k, call.id) = None THEN shown
       ELSE Cache(shown, [Cached(k, call.id) EXCEPT !.has = @ \cup call.reply.has])
Strayed(call) ==
    IF call.op = "older" /\ c.thread # None /\ c.thread.id # call.id
    THEN [srv EXCEPT !.strays[c.thread.id] = @ \cup call.reply.has] ELSE srv

Answered(k, call) ==
    CASE call.op = "load"     -> Loaded(k, call, call.reply)
      [] call.op = "refresh"  -> Refreshed(k, call, call.reply)
      [] call.op = "branches" -> [k EXCEPT !.current = call.reply, !.loaded = TRUE]
      [] call.op = "switch"   -> OnBranchChange(k, call.reply)
      [] call.op = "fork"     -> Rewrite(OnBranchChange([k EXCEPT !.current = call.reply],
                                                        call.reply))
      [] call.op = "rewrite"  -> Sent(Refreshed(k, call, call.reply))
      [] call.op = "poll"     -> Polled(k, call.reply)
      [] call.op = "older"    -> Older(k, call)

\* The network failed: a switch is not taken back.
Broken(k, call) ==
    CASE call.op \in {"load", "refresh"} -> NotLoading(k, call.id)
      [] call.op = "branches"            -> [k EXCEPT !.current = Main, !.loaded = FALSE]
      [] call.op = "rewrite"             -> Sent(NotLoading(k, call.id))
      [] call.op \in {"switch", "fork", "poll", "older"} -> k

\* The server refused: the conversation does not exist, or a switch failed there.
Refused(k, call) ==
    CASE call.op = "load"   -> c' = OnThreadNotFound(k)
      [] call.op = "switch" -> Client([k EXCEPT !.current = call.was])
      [] OTHER              -> Client(Broken(k, call))

\* An edited message is sent when there is a slot for its stream (bound).
Room(call) == call.op \in {"fork", "rewrite"} => Free(c) # {}

Return(i) ==
    LET call == c.calls[i] IN
    /\ call.state # "asked" /\ InOrder(i, [j \in DOMAIN c.calls |-> TRUE]) /\ Room(call)
    /\ IF call.state = "refused" THEN Refused(Dropped(c, i), call) /\ UNCHANGED srv
       ELSE Client(Answered(Dropped(c, i), call)) /\ srv' = Strayed(call)
    /\ UNCHANGED <<left, net>>

\* What an instance that was replaced asked for does not exist.
LateNotFound(id) ==
    /\ id \in c.orphans /\ ~srv.exists[id]
    /\ c' = OnThreadNotFound([c EXCEPT !.orphans = @ \ {id}])
    /\ UNCHANGED <<srv, left, net>>

\* The bytes of a stream arrive, event by event.
Receive(s) ==
    LET st == c.streams[s]
        k == [c EXCEPT !.streams[s].inbox = Tail(@)]
    IN /\ st.state = "open" /\ st.inbox # <<>>
       /\ Client(Event(k, s, Head(st.inbox)))
       /\ UNCHANGED <<srv, left, net>>

\* The turn waits for the user of a widget: its stream goes on, and the composer
\* is free all the same.
AwaitAction(s) ==
    LET st == c.streams[s] IN
    /\ May("waits") /\ st.state = "open" /\ st.hears # None /\ ~st.dead /\ st.kind # "click"
    /\ Client(NotLoading(c, IF st.got THEN st.view.id ELSE st.target))
    /\ Once("waits") /\ UNCHANGED <<srv, net>>

\* An aborted stream comes to its end.
Abort(s) ==
    /\ c.streams[s].state = "aborted"
    /\ Client(Finally(c, s)) /\ UNCHANGED <<srv, left, net>>

\* 100 ms after an instance was replaced its streams are aborted.
UnmountTimeout ==
    /\ \E s \in Streams : c.streams[s].dead /\ c.streams[s].kind # "click"
    /\ c' = [c EXCEPT !.streams = [s \in Streams |->
                 IF @[s].dead /\ @[s].kind # "click" THEN NoStream ELSE @[s]]]
    /\ UNCHANGED <<srv, left, net>>

\* The poll of the conversation on the screen, when it would see an edit.
Poll ==
    /\ c.thread # None /\ srv.edited > c.since
    /\ \A i \in DOMAIN c.calls : c.calls[i].op # "poll" \/ c.calls[i].id # c.thread.id
    /\ c' = Ask(c, "poll", c.thread.id, None)
    /\ UNCHANGED <<srv, left, net>>

\* A call or a stream fails on a wild network.
CallFails(i) ==
    /\ net = "wild" /\ May("failures") /\ Room(c.calls[i])
    /\ Client(Broken(Dropped(c, i), c.calls[i]))
    /\ Once("failures") /\ UNCHANGED <<srv, net>>

StreamFails(s) ==
    /\ net = "wild" /\ May("failures") /\ Under(c, s) /\ ~c.streams[s].dead
    /\ Client(IF c.streams[s].kind = "click" THEN Over(c, s) ELSE Finally(c, s))
    /\ Once("failures") /\ UNCHANGED <<srv, net>>

-----------------------------------------------------------------------------
NoFacts == [id \in Ids |-> [b \in Branches |-> {}]]
Init ==
    \E start \in Starts :
      /\ c = IF start.wanted = None THEN Instance(None, 1) ELSE Load(Instance(start.wanted, 1))
      /\ srv = [exists |-> [id \in Ids |-> id \in start.exists],
                branches |-> [id \in Ids |-> IF id \in start.exists THEN start.branches ELSE {Main}],
                cur |-> start.cur, facts |-> NoFacts, edited |-> 0,
                items |-> start.items, old |-> start.old, strays |-> [id \in Ids |-> {}],
                turn |-> [id \in Ids |-> IF id \in start.running THEN Turn(None) ELSE None]]
      /\ left = start.left /\ net = start.net

\* What goes on without the users: the server answers and produces, what was
\* sent arrives, timers fire.
System ==
    \/ Poll \/ UnmountTimeout
    \/ \E id \in Ids : Produce(id) \/ LateNotFound(id)
    \/ \E s \in Streams : Accept(s) \/ Receive(s) \/ Abort(s)
    \/ \E i \in DOMAIN c.calls : Serve(i) \/ Return(i)

Next ==
    \/ System
    \/ SendUserMessage \/ NewConversation \/ NewThread \/ Focus \/ CustomAction \/ LiveEdit \/ LoadOlder
    \/ \E id \in Ids : ThreadSelect(id)
    \/ \E b \in Branches : SwitchBranch(b) \/ EditMessage(b)
    \/ \E s \in Streams : StreamFails(s) \/ AwaitAction(s)
    \/ \E i \in DOMAIN c.calls : CallFails(i)

\* No step of the system is owed on its own; together they never stop early.
Spec == Init /\ [][Next]_vars /\ WF_vars(System)

-----------------------------------------------------------------------------
(* Properties.                                                             *)

Keys == (Ids \cup Nat) \X (Branches \cup {None})
ViewType == [id : Ids, branch : Branches, has : SUBSET Int]
EventType == [type : {"item", "created", "done"}, id : Ids \cup {None}, fact : Int]
StreamType ==
    [state : {"idle", "posting", "open", "aborted"}, dead : BOOLEAN,
     kind : {"none", "message", "resume", "click"}, target : Ids \cup Nat \cup {None},
     asked : Branches \cup {None}, first : Keys \cup {None}, key : Keys \cup {None},
     view : ViewType \cup {None}, got : BOOLEAN, from : Ids \cup {None},
     front : BOOLEAN, hears : Ids \cup {None}, inbox : Seq(EventType)]
ServerType ==
    [exists : [Ids -> BOOLEAN], branches : [Ids -> SUBSET Branches], cur : [Ids -> Branches],
     facts : [Ids -> [Branches -> SUBSET Int]], items : Nat, edited : Nat,
     old : [Ids -> SUBSET Nat], strays : [Ids -> SUBSET Int],
     turn : [Ids -> [branch : Branches \cup {None}, items : Nat] \cup {None}]]

\* The client's state is what its hooks declare, and what is cached under a key
\* is a view of the conversation of that key.
TypeOK ==
    /\ c.wanted \in Ids \cup {None} /\ c.visible \in Ids \cup Nat /\ c.temps \in Nat
    /\ c.thread \in ViewType \cup {None} /\ c.ref \in Branches \cup {None}
    /\ c.current \in Branches /\ c.loaded \in BOOLEAN /\ c.branchesOf \in Ids \cup {None}
    /\ \A x \in DOMAIN c.cache :
         x \in Keys /\ c.cache[x] \in ViewType /\ c.cache[x].id = x[1]
    /\ \A x \in DOMAIN c.controllers : x \in Keys /\ c.controllers[x] \in Streams \cup {None}
    /\ c.loading \subseteq Keys /\ c.resumed \subseteq Ids /\ c.since \in 0..srv.edited
    /\ c.draft \in BOOLEAN /\ c.newStreaming \in BOOLEAN /\ c.orphans \subseteq Ids
    /\ c.streams \in [Streams -> StreamType]
    /\ \A i \in DOMAIN c.calls : /\ c.calls[i].id \in Ids /\ c.calls[i].was \in Branches
                                /\ c.calls[i].asked \in Branches \cup {None}
    /\ srv \in ServerType /\ left \in [Bounded -> Nat] /\ net \in {"reliable", "wild"}

\* The conversation on the screen is the one the refs name: the next message
\* goes to the conversation the user sees.  (Of the streams only a widget's
\* action shows its conversation without the refs; where Starts lets a widget be
\* used, no other conversation is chosen in the same instance of the hook.)
ShownIsVisible == c.thread # None => c.thread.id = c.visible

\* No conversation shows or caches an item of another, whatever streams, refreshes
\* and switches overlap, but for older items that were asked for in one conversation
\* and came when another was on the screen: the code adds them to that one.
Holds(v) ==
    v.has \subseteq (UNION {Content(v.id, b) : b \in Branches})
                  \cup srv.old[v.id] \cup srv.strays[v.id]
NoForeignItem ==
    /\ c.thread # None => Holds(c.thread)
    /\ \A x \in DOMAIN c.cache : Holds(c.cache[x])

\* A new conversation that was asked for stays until the user chooses another
\* one or its own first message gives it an identifier: no stream that was
\* already running brings its conversation back ("prevents ChatKit from
\* restoring an old thread after clicking +").
NewConversationKept ==
    [][(c.wanted = None /\ c'.wanted # None) =>
          \/ \E id \in Ids : ThreadSelect(id)
          \/ \E s \in Streams :
                /\ ~c.streams[s].dead /\ c.streams[s].target = c.visible
                /\ c'.streams[s].view # None /\ c'.streams[s].view.id = c'.wanted]_vars

OnScreen(id) == c.thread # None /\ c.thread.id = id
Current(id) == Content(id, srv.cur[id])
Followed(id) == \E s \in Streams :
    Under(c, s) /\ ~c.streams[s].dead /\ c.streams[s].kind # "click" /\ c.streams[s].hears = id

Awaited(id) == c.wanted = id /\ \E i \in DOMAIN c.calls : c.calls[i].op = "load" /\ c.calls[i].id = id

\* A conversation that was chosen and has to be asked for comes on the screen,
\* whatever branch the window is on by then, unless the choice changes.
ChosenIsShown ==
    \A id \in Ids : (net = "reliable" /\ Awaited(id)) ~> (OnScreen(id) \/ c.wanted # id)

\* While a conversation is on the screen and one of its streams is under way,
\* the screen catches up with the server, unless the user leaves.
TurnReachesScreen ==
    \A id \in Ids : (net = "reliable" /\ OnScreen(id) /\ Followed(id))
                      ~> (~OnScreen(id) \/ Current(id) \subseteq c.thread.has)

\* A live edit that the window has not noticed reaches the conversation on
\* the screen, unless the user leaves.
EditReachesScreen ==
    \A id \in Ids :
        (net = "reliable" /\ OnScreen(id) /\ c.since < srv.edited)
            ~> (~OnScreen(id) \/ -srv.edited \in c.thread.has)
=============================================================================
