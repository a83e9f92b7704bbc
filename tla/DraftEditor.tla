----------------------------- MODULE DraftEditor -----------------------------
(***************************************************************************)
(* The workflow builder of the front end: one page that shows a version of *)
(* one workflow, the server that stores the versions, and other windows    *)
(* that change them.  It models loading (useWorkflowLoader.ts), saving     *)
(* (useWorkflowPersistence.ts), polling (useRemoteVersionPolling.ts),      *)
(* deployment (useWorkflowDeployment.ts), the creation of a draft and the  *)
(* history effects (WorkflowBuilderPage.tsx).                              *)
(*                                                                         *)
(* A step is one callback (a DOM event, a timer, the continuation of an    *)
(* await) together with the rendering and the effects that follow it; an   *)
(* asynchronous function is a task that stands at one of its requests.     *)
(* Graphs are numbers.  Every edit makes a new one and leaves a gap before *)
(* it, for what is left of that graph if a snapshot restores it with loss. *)
(* The versions of the workflow are numbered in the order of their creation*)
(***************************************************************************)
EXTENDS UndoHistory, FiniteSets

CONSTANTS
    Tasks,       \* asynchronous functions that may run at the same time
    FirstTask,   \* the one that loads the versions when the page opens
    MaxVersions, \* bound: versions on the server
    MaxGraph,    \* bound: graphs that are made
    Invalid,     \* graphs that do not pass the validation
    Lossy,       \* graphs that a snapshot does not restore as they were
    Situations   \* what the server may hold when the page opens, and the bounds
                 \* on how often users act and requests fail

EmptyGraph == 1
Graph      == 1 .. MaxGraph
None       == 0
Version    == 1 .. MaxVersions

ASSUME EditorAssumption ==
    /\ FirstTask \in Tasks
    /\ MaxVersions \in Nat /\ MaxGraph \in Nat \ {0}
    /\ Invalid \subseteq Graph \ {EmptyGraph}
    /\ Lossy \subseteq Graph \ {EmptyGraph} /\ \A g \in Lossy : g - 1 \notin Lossy

\* The stored versions; prod is the version that is_active, rev[v] stands for
\* its updated_at, which a new graph leaves alone and a promotion moves.
Stored == [graph : Seq(Graph), rev : Seq(Nat), prod : Version \cup {None}]
Consistent(s) == /\ DOMAIN s.rev = DOMAIN s.graph /\ Len(s.graph) <= MaxVersions
                 /\ s.prod \in DOMAIN s.graph \cup {None}
NoStored == [graph |-> <<>>, rev |-> <<>>, prod |-> None]

UserAction == {"edits", "panels", "undos", "views", "creates", "deploys", "failures", "others"}

\* What the server holds at first is older than anything an editor makes.
ASSUME SituationAssumption ==
    \A s \in Situations :
        /\ s.server \in Stored /\ Consistent(s.server)
        /\ \A v \in DOMAIN s.server.graph : s.server.graph[v] <= MaxVersions + 1
        /\ s.budget \in [UserAction -> Nat]

VARIABLES
    server, \* the stored versions
    ui,     \* the page: React state and refs
    tasks,  \* the asynchronous functions that run
    fresh,  \* the graphs made so far
    budget  \* what users and the network may still do

vars == <<server, ui, tasks, fresh, budget>>

Idle == [kind |-> "none", step |-> "none", version |-> None, made |-> None,
         post |-> FALSE, graph |-> NoGraph, sel |-> None, bg |-> FALSE,
         answer |-> "none", got |-> NoStored]

\* Variables of the contexts and refs of the page.  NoGraph as baseline stands
\* for the empty string lastSavedSnapshotRef.
FirstPage ==
    [list |-> [rev |-> <<>>, prod |-> None], selected |-> None, detail |-> None,
     shown |-> EmptyGraph, loading |-> FALSE, loadError |-> FALSE,
     pending |-> FALSE, baseline |-> EmptyGraph, hydrating |-> FALSE, save |-> "idle",
     draftRef |-> None, creating |-> FALSE, deploying |-> FALSE,
     panel |-> FALSE, hist |-> Reset(EmptyGraph),
     loadTimers |-> 0, savedTimers |-> 0]

Init ==
    /\ \E s \in Situations : server = s.server /\ budget = s.budget
    /\ fresh = MaxVersions + 1
    /\ ui = FirstPage
    /\ tasks = [t \in Tasks |->
                   IF t = FirstTask THEN [Idle EXCEPT !.kind = "view", !.step = "list"]
                   ELSE Idle]

-----------------------------------------------------------------------------
(* Derived from the state at each rendering                                *)

\* resolveDraftCandidate and computedDraftId: the newest version after the one
\* in production.
Draft(list) ==
    LET later == {v \in DOMAIN list.rev : v > list.prod}
    IN  IF later = {} THEN None ELSE CHOOSE v \in later : \A w \in later : w <= v

\* editingLocked: the version on the screen is not the draft.
Locked(u) == u.selected # None /\ u.selected # Draft(u.list)

SaveDisabled(u) == Locked(u) \/ u.shown \in Invalid

\* The condition of both saving effects, without the panel.
WantsSave(u) == u.pending /\ ~SaveDisabled(u) /\ u.save # "saving" /\ ~u.loading

\* The panel edits texts and prompts of locked versions, too; the canvas edits
\* drafts, unless a load or its error hides it.
Editable(u) == u.panel \/ (~Locked(u) /\ ~u.loading /\ ~u.loadError)

-----------------------------------------------------------------------------
(* React                                                                   *)

WorkflowState(u) == <<u.list, u.selected, u.detail, u.loading, u.loadError>>

\* Providers copy their state into their refs whenever they render.  The
\* states behind lastSavedSnapshotRef and draftVersionIdRef are never set.
Rendered(old, new, reloaded) ==
    [new EXCEPT
        !.baseline = IF new.save = old.save THEN @ ELSE NoGraph,
        !.draftRef = IF ~reloaded /\ WorkflowState(new) = WorkflowState(old) THEN @
                     ELSE None]

\* Variant: what was pending stays so.
MarkPendingSticky(u) ==
    IF u.hydrating THEN [u EXCEPT !.hydrating = FALSE]
    ELSE IF u.baseline = NoGraph THEN [u EXCEPT !.baseline = u.shown, !.pending = FALSE]
    ELSE [u EXCEPT !.pending = @ \/ u.shown # u.baseline]

\* The effect on graphSnapshot in useWorkflowPersistence.
MarkPending(u) ==
    IF u.hydrating THEN [u EXCEPT !.hydrating = FALSE]
    ELSE IF u.baseline = NoGraph THEN [u EXCEPT !.baseline = u.shown, !.pending = FALSE]
    ELSE [u EXCEPT !.pending = u.shown # u.baseline]

\* The effect on conditionGraphError.
ReportInvalid(u) ==
    [u EXCEPT !.save = IF @ = "saving" THEN @ ELSE "error", !.baseline = NoGraph]

\* What follows a callback that turns old into new: the rendering, then the
\* effects of what changed.
React(old, new, reloaded) ==
    LET r        == Rendered(old, new, reloaded)
        changed  == r.shown # old.shown
        observed == IF changed \/ r.panel # old.panel
                    THEN [r EXCEPT !.hist = Observe(@, r.shown, r.hydrating, r.panel)]
                    ELSE r
        marked   == IF changed THEN MarkPending(observed) ELSE observed
    IN  IF r.shown \in Invalid /\ old.shown \notin Invalid
        THEN ReportInvalid(marked) ELSE marked

-----------------------------------------------------------------------------
(* Users' bounds                                                           *)

Spend(what) == budget[what] > 0 /\ budget' = [budget EXCEPT ![what] = @ - 1]

Begin(t, task) ==
    tasks' = [tasks EXCEPT ![t] = [task EXCEPT !.answer = "none", !.got = NoStored]]
Free(t) == tasks[t] = Idle

-----------------------------------------------------------------------------
(* handleSave                                                              *)

SaveTarget(u) == IF u.draftRef # None THEN u.draftRef ELSE Draft(u.list)

\* It returns at once: errors in the graph, or another call creates the draft.
SaveRefused(u) == u.shown \in Invalid \/ (SaveTarget(u) = None /\ u.creating)

\* Up to the request: the draft is overwritten, or created if there is none.
SaveTask(u, kind) ==
    [Idle EXCEPT !.kind = kind, !.graph = u.shown, !.sel = u.selected,
                 !.version = SaveTarget(u), !.post = SaveTarget(u) = None,
                 !.step = IF SaveTarget(u) = None THEN "post" ELSE "put"]

\* Variant: the flag that a draft is being created is not set.
SavingUnguarded(u) ==
    React(u, [u EXCEPT !.draftRef = SaveTarget(u), !.save = "saving"], FALSE)

Saving(u) ==
    React(u, [u EXCEPT !.draftRef = SaveTarget(u), !.save = "saving",
                       !.creating = @ \/ SaveTarget(u) = None], FALSE)

\* The debounced effect; its delay is not modelled.
AutoSave(t) ==
    /\ Free(t) /\ WantsSave(ui) /\ ~ui.panel /\ ~SaveRefused(ui)
    /\ ui' = Saving(ui)
    /\ Begin(t, SaveTask(ui, "save"))
    /\ UNCHANGED <<server, fresh, budget>>

\* The page becomes u.  If its panel has just closed on pending changes, they
\* are saved in the same breath.
Become(u, t) ==
    IF ui.panel /\ ~u.panel /\ WantsSave(u) /\ ~SaveRefused(u)
    THEN /\ Free(t)
         /\ ui' = Saving(u)
         /\ Begin(t, SaveTask(u, "save"))
    ELSE ui' = u /\ UNCHANGED tasks

\* Variant: a save that failed is not marked as pending again.
SaveFailedSilently(u, task) ==
    [u EXCEPT !.save = "saving", !.pending = TRUE,
              !.creating = IF task.post THEN FALSE ELSE @]

SaveFailed(u, task) ==
    [u EXCEPT !.save = "error", !.pending = TRUE,
              !.creating = IF task.post THEN FALSE ELSE @]

\* The graph that is stored counts as saved, whatever is shown by then.
SaveDone(u, task) ==
    [u EXCEPT !.baseline = task.graph, !.pending = FALSE, !.save = "saved",
              !.savedTimers = @ + 1, !.creating = IF task.post THEN FALSE ELSE @]

-----------------------------------------------------------------------------
(* handleConfirmDeploy                                                     *)

\* After its handleSave.  hasPendingChangesRef still holds what was rendered
\* last, before handleSave's own updates.  Without a draft or a selection by now,
\* what was selected at the click is promoted.
DeployAfterSave(t, u, task) ==
    IF ui.pending
    THEN /\ ui' = React(ui, [u EXCEPT !.deploying = FALSE, !.save = "error"], FALSE)
         /\ Begin(t, Idle)
    ELSE LET id == IF u.draftRef # None THEN u.draftRef
                   ELSE IF ui.selected # None THEN ui.selected ELSE task.sel
         IN  /\ ui' = React(ui, [u EXCEPT !.save = "saving", !.baseline = NoGraph], FALSE)
             /\ Begin(t, [task EXCEPT !.kind = "deploy", !.step = "promote",
                                      !.version = id, !.post = FALSE])

Deploy(t) ==
    /\ Free(t) /\ Spend("deploys")
    /\ ~ui.deploying
    /\ LET target == IF ui.selected # None THEN ui.selected ELSE ui.draftRef
           u      == [ui EXCEPT !.deploying = TRUE]
       IN  /\ target \in DOMAIN ui.list.rev
           /\ IF SaveRefused(u)
              THEN DeployAfterSave(t, IF u.shown \in Invalid THEN [u EXCEPT !.save = "error"]
                                      ELSE u,
                                   [Idle EXCEPT !.graph = u.shown, !.sel = u.selected])
              ELSE /\ ui' = Saving(u)
                   /\ Begin(t, SaveTask(u, "deploySave"))
    /\ UNCHANGED <<server, fresh>>

-----------------------------------------------------------------------------
(* Users                                                                   *)

\* An edit on the canvas or in the panel.  Adding, connecting, removing and
\* updating say so themselves (marks); moving and resizing do not.
Edit(marks) ==
    /\ Spend("edits") /\ fresh + 2 <= MaxGraph
    /\ Editable(ui)
    /\ ui' = React(ui, [ui EXCEPT !.shown = fresh + 2, !.pending = @ \/ marks], FALSE)
    /\ fresh' = fresh + 2
    /\ UNCHANGED <<server, tasks>>

\* handleNodeDragStop.  (isNodeDragInProgressRef is reset by the first move.)
StopDragging ==
    /\ ui.hist.held # NoGraph
    /\ ui' = [ui EXCEPT !.hist = DragStop(@)]
    /\ UNCHANGED <<server, tasks, fresh, budget>>

\* Selecting an element opens its panel.
OpenPanel ==
    /\ Spend("panels")
    /\ ~ui.panel /\ ~ui.loading /\ ~ui.loadError
    /\ ui' = React(ui, [ui EXCEPT !.panel = TRUE], FALSE)
    /\ UNCHANGED <<server, tasks, fresh>>

ClosePanel(t) ==
    /\ ui.panel
    /\ Become(React(ui, [ui EXCEPT !.panel = FALSE], FALSE), t)
    /\ UNCHANGED <<server, fresh, budget>>

\* restoreGraphFromSnapshot: a snapshot keeps less than the page reads from it.
\* The key of a voice agent goes, a label or name left empty is filled in, nodes
\* of unknown kinds are dropped; what has lost this once loses nothing more.
Restore(g) == IF g \in Lossy THEN g - 1 ELSE g

\* undoHistory and redoHistory: the selection, and with it the panel, goes.
UndoEdit(t) ==
    /\ Spend("undos")
    /\ ~ui.loading /\ ~Locked(ui) /\ CanUndo(ui.hist)
    /\ Become(React(ui, [ui EXCEPT !.shown = Restore(UndoTarget(ui.hist)),
                                   !.hist = Undo(@), !.panel = FALSE], FALSE), t)
    /\ UNCHANGED <<server, fresh>>

RedoEdit(t) ==
    /\ Spend("undos")
    /\ ~ui.loading /\ ~Locked(ui) /\ CanRedo(ui.hist)
    /\ Become(React(ui, [ui EXCEPT !.shown = Restore(RedoTarget(ui.hist)),
                                   !.hist = Redo(@), !.panel = FALSE], FALSE), t)
    /\ UNCHANGED <<server, fresh>>

\* handleVersionChange
ChooseVersion(t, v) ==
    /\ Free(t) /\ Spend("views")
    /\ ~ui.loading /\ v \in DOMAIN ui.list.rev /\ v # ui.selected
    /\ ui' = React(ui, [ui EXCEPT !.selected = v, !.loading = TRUE,
                                  !.loadError = FALSE], FALSE)
    /\ Begin(t, [Idle EXCEPT !.kind = "view", !.step = "detail", !.version = v])
    /\ UNCHANGED <<server, fresh>>

\* handleCreateDraft, up to its request
CreateDraft(t) ==
    /\ Free(t) /\ Spend("creates")
    /\ Locked(ui) /\ ~ui.loading
    /\ Begin(t, [Idle EXCEPT !.kind = "create", !.step = "post", !.graph = ui.shown,
                             !.sel = ui.selected])
    /\ UNCHANGED <<server, ui, fresh>>

-----------------------------------------------------------------------------
(* Timers                                                                  *)

\* A save, once done, shows "saved" for a while; the timer does not ask
\* whether another save has begun.
SavedTimeout ==
    /\ ui.savedTimers > 0
    /\ ui' = React(ui, [ui EXCEPT !.savedTimers = @ - 1, !.save = "idle"], FALSE)
    /\ UNCHANGED <<server, tasks, fresh, budget>>

LoadTimeout ==
    /\ ui.loadTimers > 0
    /\ ui' = React(ui, [ui EXCEPT !.loadTimers = @ - 1, !.loading = FALSE], FALSE)
    /\ UNCHANGED <<server, tasks, fresh, budget>>

HydrationTimeout ==
    /\ ui.hydrating
    /\ ui' = [ui EXCEPT !.hydrating = FALSE]
    /\ UNCHANGED <<server, tasks, fresh, budget>>

\* triggerPoll.  isPolling belongs to one run of the effect, which many renderings
\* start anew: polls overlap.
CanPoll(u) == u.selected # None /\ ~u.pending /\ u.save = "idle"
Poll(t) ==
    /\ Free(t) /\ CanPoll(ui)
    /\ Begin(t, [Idle EXCEPT !.kind = "poll", !.step = "pollList", !.bg = TRUE,
                             !.version = ui.selected, !.sel = ui.selected])
    /\ UNCHANGED <<server, ui, fresh, budget>>

-----------------------------------------------------------------------------
(* The server                                                              *)

\* Variant: the new version has no updated_at.
CreateUnstamped(s, g) == [s EXCEPT !.graph = Append(@, g)]

\* create_version
Create(s, g) == [s EXCEPT !.graph = Append(@, g), !.rev = Append(@, 0)]

\* Variant: a version in production is overwritten like any other.
PutOverwriting(s, v, g) == {[s EXCEPT !.graph[v] = g]}

\* update_version: a version in production is not overwritten, the graph
\* becomes a new draft (if the name it inherits is not taken).
Put(s, v, g) ==
    IF v = s.prod THEN {Create(s, g)} ELSE {[s EXCEPT !.graph[v] = g]}

\* set_production_version touches every row.
Promote(s, v) ==
    [s EXCEPT !.prod = v, !.rev = [w \in DOMAIN @ |-> @[w] + 1]]

Writes == {"put", "post"}

\* What a request may do to the stored versions.
Effects(s, task) ==
    CASE task.step \in Writes /\ task.graph \in Invalid -> {}
      [] task.step = "put" /\ task.graph \notin Invalid -> Put(s, task.version, task.graph)
      [] task.step = "post" /\ task.graph \notin Invalid -> {Create(s, task.graph)}
      [] task.step = "promote" -> {Promote(s, task.version)}
      [] OTHER -> {s}

\* The version a write answers with.
Written(task, s) ==
    IF task.step = "post" \/ (task.step = "put" /\ task.version = server.prod)
    THEN Len(s.graph) ELSE task.version

Waiting(t) == tasks[t].step # "none" /\ tasks[t].answer = "none"
HasRoom(s) == Len(s.graph) <= MaxVersions

Answer(t) ==
    /\ Waiting(t)
    /\ \E s \in Effects(server, tasks[t]) :
          /\ HasRoom(s)
          /\ server' = s
          /\ tasks' = [tasks EXCEPT ![t].answer = "ok",
                         ![t].made = IF tasks[t].step \in Writes
                                     THEN Written(tasks[t], s) ELSE @,
                         ![t].got = IF tasks[t].step \in {"list", "pollList", "detail"}
                                    THEN s ELSE @]
    /\ UNCHANGED <<ui, fresh, budget>>

\* The server refuses: an invalid graph, or the name of the version in
\* production is taken by itself.
Refuse(t) ==
    /\ Waiting(t)
    /\ tasks[t].step \in Writes
    /\ tasks[t].graph \in Invalid \/ (tasks[t].step = "put" /\ tasks[t].version = server.prod)
    /\ tasks' = [tasks EXCEPT ![t].answer = "failed"]
    /\ UNCHANGED <<server, ui, fresh, budget>>

\* The request, or the answer to what it has done, is lost; then the next of
\* makeApiEndpointCandidates is tried, if there is one.
Fail(t) ==
    /\ Waiting(t) /\ Spend("failures")
    /\ \E s \in {server} \cup Effects(server, tasks[t]) : HasRoom(s) /\ server' = s
    /\ \/ tasks' = [tasks EXCEPT ![t].answer = "failed"]
       \/ tasks[t].kind # "create" /\ UNCHANGED tasks
    /\ UNCHANGED <<ui, fresh>>

\* The next graph that others make; the server has validated it.
NewGraphs == {g \in Graph \ Invalid : \/ g = fresh + 2
                                      \/ g = fresh + 4 /\ fresh + 2 \in Invalid}

\* Another window saves its draft, creates one, or promotes a version.
OtherWindow ==
    /\ Spend("others")
    /\ \/ \E g \in NewGraphs :
             /\ fresh' = g
             /\ \E s \in {Create(server, g)}
                         \cup (IF Draft(server) = None THEN {}
                               ELSE Put(server, Draft(server), g)) :
                   HasRoom(s) /\ server' = s
       \/ /\ \E v \in DOMAIN server.graph \ {server.prod} : server' = Promote(server, v)
          /\ UNCHANGED fresh
    /\ UNCHANGED <<ui, tasks>>

\* update_step_message_live and update_step_field_live: an administrator edits a
\* text of the version in production, in place.  The version is not stamped.
LiveEdit ==
    /\ Spend("others")
    /\ server.prod # None
    /\ \E g \in NewGraphs : fresh' = g /\ server' = [server EXCEPT !.graph[server.prod] = g]
    /\ UNCHANGED <<ui, tasks>>

-----------------------------------------------------------------------------
(* Continuations                                                           *)

Answered(t, step) == tasks[t].step = step /\ tasks[t].answer # "none"
Ok(t) == tasks[t].answer = "ok"

\* loadVersions begins.
LoadList(u) == [u EXCEPT !.loadError = FALSE]
ListTask(task, preferred) == [task EXCEPT !.step = "list", !.version = preferred]

\* Variant: the end of a deployment is not noted.
DeployedStill(u, task) == SaveDone(u, task)

\* handleConfirmDeploy after its reloads
Deployed(u, task) == [SaveDone(u, task) EXCEPT !.deploying = FALSE]

\* A load is over, successfully or not: its caller goes on in the same step.
Finish(t, u, reloaded) ==
    LET task == tasks[t]
    IN  CASE task.kind \in {"view", "poll"} ->
               /\ ui' = React(ui, u, reloaded) /\ Begin(t, Idle)
          [] task.kind = "save" ->
               /\ ui' = React(ui, SaveDone(u, task), reloaded) /\ Begin(t, Idle)
          [] task.kind = "create" ->
               /\ ui' = React(ui, [u EXCEPT !.selected = task.made], reloaded)
               /\ Begin(t, Idle)
          [] task.kind = "deploySave" ->
               DeployAfterSave(t, SaveDone(u, task), task)
          [] task.kind = "deploy" ->
               /\ ui' = React(ui, [u EXCEPT !.loading = TRUE, !.loadError = FALSE], reloaded)
               /\ Begin(t, [task EXCEPT !.kind = "redeploy", !.step = "library"])
          [] OTHER ->
               /\ ui' = React(ui, Deployed(u, task), reloaded)
               /\ Begin(t, Idle)

\* handleSave and handleCreateDraft after their POST or PUT
SaveAnswered(t) ==
    LET task == tasks[t]
    IN  /\ task.step \in Writes /\ task.answer # "none"
        /\ CASE task.kind = "create" /\ Ok(t) ->
                  /\ ui' = React(ui, LoadList([ui EXCEPT !.draftRef = task.made]), FALSE)
                  /\ Begin(t, ListTask(task, None))
             [] task.kind = "create" /\ ~Ok(t) ->
                  /\ UNCHANGED ui /\ Begin(t, Idle)
             [] task.kind # "create" /\ Ok(t) ->
                  /\ ui' = React(ui, LoadList(IF ~task.post THEN ui
                                   ELSE [ui EXCEPT !.draftRef = task.made,
                                                   !.selected = task.made]), FALSE)
                  /\ Begin(t, ListTask([task EXCEPT !.bg = TRUE], task.made))
             [] task.kind = "save" /\ ~Ok(t) ->
                  /\ ui' = React(ui, SaveFailed(ui, task), FALSE) /\ Begin(t, Idle)
             [] OTHER ->
                  DeployAfterSave(t, SaveFailed(ui, task), task)
        /\ UNCHANGED <<server, fresh, budget>>

\* The list as the page keeps it: a draft it has just created and does not find
\* is added.
ListOf(u, got) ==
    LET all == [rev |-> got.rev, prod |-> got.prod]
    IN  IF Draft(all) = None /\ u.draftRef = Len(got.rev) + 1
        THEN [all EXCEPT !.rev = Append(@, 0)] ELSE all

\* Which version loadVersions selects.
Selection(list, task) ==
    IF task.version \in DOMAIN list.rev THEN task.version
    ELSE IF task.sel \in DOMAIN list.rev THEN task.sel
    ELSE IF list.prod # None THEN list.prod
    ELSE Draft(list)

\* loadVersions without any version: an empty graph.
NothingStored(u, task) ==
    [u EXCEPT !.selected = None, !.shown = EmptyGraph, !.hydrating = TRUE,
              !.baseline = EmptyGraph, !.hist = Reset(EmptyGraph),
              !.pending = FALSE, !.loading = task.bg /\ @]

Listed(t) ==
    LET task == tasks[t]
        list == ListOf(ui, task.got)
        u    == [ui EXCEPT !.list = list]
        next == Selection(list, task)
    IN  /\ Answered(t, "list")
        /\ CASE ~Ok(t) ->
                  Finish(t, [ui EXCEPT !.loadError = TRUE, !.loading = task.bg /\ @], FALSE)
             [] Ok(t) /\ list.rev = <<>> ->
                  Finish(t, NothingStored(u, task), TRUE)
             [] OTHER ->
                  /\ ui' = React(ui, [u EXCEPT !.selected = next, !.loadError = FALSE,
                                               !.loading = @ \/ ~task.bg], TRUE)
                  /\ Begin(t, [task EXCEPT !.step = "detail", !.version = next])
        /\ UNCHANGED <<server, fresh, budget>>

\* Variant: the page stays covered.
ShowVersionCovered(u, task) ==
    [u EXCEPT !.detail = task.version, !.shown = task.got.graph[task.version],
              !.hydrating = TRUE, !.pending = FALSE,
              !.baseline = task.got.graph[task.version],
              !.hist = Reset(task.got.graph[task.version]), !.save = "idle",
              !.panel = task.bg /\ @]

\* loadVersionDetail: whatever is on the screen gives way to the answer.
ShowVersion(u, task) ==
    [u EXCEPT !.detail = task.version, !.shown = task.got.graph[task.version],
              !.hydrating = TRUE, !.pending = FALSE,
              !.baseline = task.got.graph[task.version],
              !.hist = Reset(task.got.graph[task.version]), !.save = "idle",
              !.panel = task.bg /\ @,
              !.loadTimers = IF task.bg THEN @ ELSE @ + 1]

Detailed(t) ==
    /\ Answered(t, "detail")
    /\ IF Ok(t) THEN Finish(t, ShowVersion(ui, tasks[t]), TRUE)
       ELSE Finish(t, [ui EXCEPT !.loadError = TRUE, !.detail = None,
                                 !.loading = tasks[t].bg /\ @], FALSE)
    /\ UNCHANGED <<server, fresh, budget>>

\* Variant: only versions the page does not know count as a change.
ChangedByNew(got, u) == ~(DOMAIN got.rev \subseteq DOMAIN u.list.rev)

\* checkVersionChanges
Changed(got, u) ==
    \/ \E v \in DOMAIN got.rev :
          v \notin DOMAIN u.list.rev \/ got.rev[v] # u.list.rev[v]
    \/ ~(DOMAIN u.list.rev \subseteq DOMAIN got.rev \cup {u.draftRef})

Polled(t) ==
    /\ Answered(t, "pollList")
    /\ IF Ok(t) /\ Changed(tasks[t].got, ui) /\ CanPoll(ui)
          /\ ui.selected = tasks[t].version
       THEN /\ ui' = React(ui, LoadList(ui), FALSE)
            /\ Begin(t, ListTask(tasks[t], tasks[t].version))
       ELSE UNCHANGED ui /\ Begin(t, Idle)
    /\ UNCHANGED <<server, fresh, budget>>

\* handleConfirmDeploy after the promotion
Promoted(t) ==
    LET task == tasks[t]
    IN  /\ Answered(t, "promote")
        /\ IF Ok(t)
           THEN /\ ui' = React(ui, LoadList([ui EXCEPT !.selected = task.version,
                                 !.draftRef = IF @ = task.version THEN None ELSE @]), FALSE)
                /\ Begin(t, [ListTask(task, task.version)
                               EXCEPT !.made = task.version, !.bg = FALSE])
           ELSE /\ ui' = React(ui, [ui EXCEPT !.deploying = FALSE, !.save = "error"], FALSE)
                /\ Begin(t, Idle)
        /\ UNCHANGED <<server, fresh, budget>>

\* loadWorkflows after the first reload of a deployment
LibraryLoaded(t) ==
    /\ Answered(t, "library")
    /\ IF Ok(t)
       THEN /\ ui' = React(ui, LoadList(ui), FALSE)
            /\ Begin(t, ListTask(tasks[t], tasks[t].made))
       ELSE Finish(t, [ui EXCEPT !.loadError = TRUE, !.loading = FALSE], FALSE)
    /\ UNCHANGED <<server, fresh, budget>>

-----------------------------------------------------------------------------

Continue(t) == \/ SaveAnswered(t) \/ Listed(t) \/ Detailed(t) \/ Polled(t)
               \/ Promoted(t) \/ LibraryLoaded(t)

User(t) == \/ ClosePanel(t) \/ UndoEdit(t) \/ RedoEdit(t) \/ CreateDraft(t) \/ Deploy(t)
           \/ \E v \in Version : ChooseVersion(t, v)

Next ==
    \/ \E t \in Tasks : AutoSave(t) \/ Poll(t) \/ Answer(t) \/ Refuse(t) \/ Fail(t)
                        \/ Continue(t) \/ User(t)
    \/ \E marks \in BOOLEAN : Edit(marks)
    \/ StopDragging \/ OpenPanel \/ OtherWindow \/ LiveEdit
    \/ SavedTimeout \/ LoadTimeout \/ HydrationTimeout

\* Requests are answered, continuations and timers run; nobody has to act.
Fairness ==
    /\ \A t \in Tasks : WF_vars(Answer(t) \/ Refuse(t) \/ Continue(t))
    /\ WF_vars(\E t \in Tasks : AutoSave(t))
    /\ WF_vars(\E t \in Tasks : Poll(t))
    /\ WF_vars(SavedTimeout \/ LoadTimeout \/ HydrationTimeout)

Spec == Init /\ [][Next]_vars /\ Fairness

-----------------------------------------------------------------------------
(* Properties                                                              *)

TaskType ==
    [kind : {"none", "view", "save", "deploySave", "deploy", "redeploy", "create", "poll"},
     step : {"none", "list", "detail", "put", "post", "promote", "library", "pollList"},
     version : Version \cup {None}, made : Version \cup {None}, post : BOOLEAN,
     graph : Graph \cup {NoGraph}, sel : Version \cup {None}, bg : BOOLEAN,
     answer : {"none", "ok", "failed"}, got : Stored]

PageType ==
    [list : [rev : Seq(Nat), prod : Version \cup {None}],
     selected : Version \cup {None}, detail : Version \cup {None}, shown : Graph,
     loading : BOOLEAN, loadError : BOOLEAN, pending : BOOLEAN,
     baseline : Graph \cup {NoGraph}, hydrating : BOOLEAN,
     save : {"idle", "saving", "saved", "error"}, draftRef : Version \cup {None},
     creating : BOOLEAN, deploying : BOOLEAN, panel : BOOLEAN, hist : History(Graph),
     loadTimers : Nat, savedTimers : Nat]

\* The variables have their types: every version the page or one of its functions
\* names can be one of the server, whose three columns agree.
TypeOK ==
    /\ server \in Stored /\ Consistent(server)
    /\ ui \in PageType
    /\ tasks \in [Tasks -> TaskType]
    /\ fresh \in Nat
    /\ budget \in [UserAction -> Nat]

\* The builder never changes a version that is in production: an update of it
\* makes a new draft, whichever window asks for it and whenever the version was
\* promoted.  Only the live edit of a step changes one in place.
PublishedKept ==
    [][\/ server.prod = None
       \/ server'.graph[server.prod] = server.graph[server.prod]
       \/ LiveEdit]_vars

\* While the page knows what was saved last, pending changes are real ones:
\* an edit that undo takes back without loss, or another version on the screen,
\* leaves nothing to save.  (After a save that failed they may be none: a second save,
\* which overlapped it, fails later and marks whatever is shown by then.)
PendingDiffers ==
    ui.pending /\ ui.baseline # NoGraph /\ ui.save # "error" => ui.shown # ui.baseline

Creating == {t \in Tasks : /\ tasks[t].kind \in {"save", "deploySave"}
                           /\ tasks[t].step = "post"}

\* Saving a workflow that has no draft creates one: two saves in flight never
\* both create it.
SingleCreation == Cardinality(Creating) <= 1

DeployTasks == {t \in Tasks : tasks[t].kind \in {"deploySave", "deploy", "redeploy"}}

\* The page says that it deploys exactly as long as one function does: no path
\* of a deployment, refused, failed or overtaken by a load, an edit or another
\* window, leaves the flag behind, and no second one begins meanwhile.
DeploymentRuns == Cardinality(DeployTasks) = IF ui.deploying THEN 1 ELSE 0

\* A deployment that was confirmed is over some day, whichever of its requests
\* fails.
DeploymentEnds == ui.deploying ~> ~ui.deploying

\* Changes that are pending are saved, or thrown away with the version they
\* were made in, unless the page may not save them: the panel stays open, the
\* graph is not valid or the version is locked.
PendingSettles == ui.pending ~> (~ui.pending \/ ui.panel \/ SaveDisabled(ui))

\* A load never leaves the page covered: it shows the version or an error.
LoadingEnds == ui.loading ~> ~ui.loading

\* What is on the screen is in the end known to be the list of the server, as
\* long as the page polls.
ListCatchesUp ==
    <>[](CanPoll(ui) => ui.list.rev = server.rev /\ ui.list.prod = server.prod)

Timeline ==
    INSTANCE UndoTimeline WITH
        timeline <- ui.hist.past \o <<ui.hist.last>> \o ui.hist.future,
        cursor   <- Len(ui.hist.past) + 1,
        shown    <- ui.shown,
        Restored <- [g \in Graph |-> Restore(g)]

\* Undo and redo walk one timeline of graphs: none is skipped or comes back out
\* of order, and what they show is the entry at the cursor as far as its snapshot
\* restores it.  What is lost is lost in the entry, too.
TimelineSpec == Timeline!Spec
=============================================================================
