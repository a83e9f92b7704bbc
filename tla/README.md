# A verification project for edxo

edxo is a FastAPI backend with a React front end and a locally maintained copy
of the chatkit-python library.  Users talk to *workflows*: graphs of blocks
(agents, waits, loops, splits, widgets) that the backend runs, one turn per
message, while it streams what they produce to browsers and stores it in
PostgreSQL.  This directory holds TLA+ models of the parts where several actors
meet (the stream of a turn, the branches of a conversation, the chat window, the
workflow editor), TLC configurations that check them on small instances, and
proofs that TLAPS checks for every instance.

Paths below are relative to `src/`; "server.py" is
`backend/app/chatkit_server/server.py` unless it is written `chatkit-python/...`.

    tlasany M.tla                              parse
    tlc -workers 2 -config X.cfg M             run a configuration
    tlapm M.tla                                check the proofs of StreamProcessorProofs,
                                               StreamSequenceProofs, ThreadBranchesProofs, UndoHistoryProofs,
                                               DraftPageProofs, DraftEditorProofs,
                                               ChatScreenProofs, ChatClientProofs

The modules that TLC runs are the `MC...` modules (`MCDraftEditor` with
`draft_editor.cfg`); each only gives values to the constants.

`PROJECT.json` lists the components, the runs, the mutants that each property
detects, the lines every definition stands for, the findings and the hazards.

## 1. Inventory

| Component | State | Operations | Meets | What is hard | What makes it correct |
|---|---|---|---|---|---|
| **Conversation streaming**: `chatkit_server/server.py`, `chatkit-python/chatkit/server.py` | `_stream_registry` (thread to processor); per processor `event_queue`, `listeners`, `active_items`, two tasks; per HTTP request a generator with its own copy of the items | `respond`, `resume_stream`, `start`, `add_listener`, `_run_loop`, `_execute_workflow`, `_process_events` | thread store, workflow engine, browsers | tasks cancelled at any await, clients that come and go, three writers of each row, failing writes | every listener is released, the registry points to a live loop, the final item is stored, nobody sees a delta twice |
| **Thread store**: `chatkit_store.py` | rows of threads (one JSON payload), items, branches | `add_thread_item`, `save_item`, `save_thread`, `load_thread`, `load_thread_items`, deletes | everything above and below | upserts in any order, whole-payload overwrite, branch tag read at write time | last write of an item is its final version, no update of another actor is lost |
| **Wait state and branches**: `chatkit_server/context.py`, `services/branch_service.py` | in `thread.metadata`: current branch, wait state per branch, index by anchor, legacy global wait state | `_get/_set_wait_state_metadata`, `create_branch`, `switch_branch`, migration of the legacy state | turns that carry their own copy of the metadata | overwrite by a turn in flight, legacy state of another branch | a branch resumes its own conversation only |
| **Branch view**: `chatkit_store.py:690-791` | none (pure) | fork chain, filter over all rows | thread store | nested forks, forks at the same item | a branch shows its lineage |
| **Workflow engine**: `workflows/runtime`, `workflows/handlers`, `workflows/executor_v2.py` | execution context: current block, loop counters, parallel outputs, steps, wait state | one handler per kind of block | streaming, wait state | parallel splits run sub-workflows, resumption from a wait, loops, the guard of 1000 steps | a resumed turn continues where it stopped; a join runs once |
| **Widget waiters**: `chatkit_server/widget_waiters.py` | one waiter per thread | `wait_for_action`, `signal` | the HTTP request that clicks, the workflow that waits | one slot, late and duplicate clicks | every waiter is released or replaced knowingly |
| **Workflow versions**: `workflows/service.py` | draft, production and history of each workflow | save draft, publish, deploy | builder, engine | publish while a draft is edited | one production version |
| **Live updates**: `live_updates.py` | subscribers per workflow | subscribe, publish | builder, WebSockets | slow or gone subscribers | no missed update |
| **Telephony**: `telephony/*` | SIP accounts, calls, RTP ports, adapters | register, invite, bridge, hang up | realtime voice, pjsua threads | callbacks on foreign threads, time outs | a call ends once, its port returns |
| **Realtime voice**: `realtime_gateway.py`, `realtime_runner.py` | sessions, WebSocket listeners | open, relay, close | telephony, engine | closing while opening | no session survives its last user |
| **Computer use**: `computer/hosted_*.py` | browsers, SSH and VNC sessions per thread | start, attach, close | engine | caches keyed by thread | one session per thread |
| **GitHub synchronisation**: `github/sync_service.py` | mapping of workflows to files, hashes | push, pull, webhook | workflow versions, Celery | concurrent edits on both sides | no edit lost |
| **MCP servers and OAuth**: `mcp/oauth.py` | OAuth sessions with expiry | start, callback, poll | browser | callback after expiry | a session completes once |
| **LTI and grades**: `lti/service.py`, `lti/ags.py` | nonces, deployments, line items | launch, submit score | LMS | replayed launch, failed submission | each launch once |
| **Vector store**: `vector_store/*` | documents, chunks | ingest, search | widgets, agents | partial ingestion | search sees complete documents |
| **Chat front end**: `frontend/src/chatkit/hooks`, `features/chat` | wanted, shown and visible conversation, branch reference, cache of views, controllers, loading flags, streams and calls under way | send, resume, choose, new, switch branch, edit a message, widget action, live edits, remount | streaming, wait state and branches, live updates | several streams at a time, closures that see an old state, answers of a conversation that was left, replaced instances of the hook | no conversation shows another's items, the choice of the user wins, what the server has reaches the screen |
| **Workflow builder front end**: `frontend/src/features/workflow-builder` | shown graph, history, panel, list of versions, selection, pending flag, baseline, save state, refs beside React state, timers | edit, undo, redo, autosave, load, poll, create a draft, deploy | workflow versions | asynchronous functions with old closures, refs that rendering resets, timers, lost answers, other windows | undo walks one timeline, published versions stay, pending edits are saved, loads and deployments end |
| Routes, agents and tools, administration, labs and docs, background tasks, watch application | SQL rows or nothing | CRUD, configuration, user interface | | plain request/response | |

Modelled here: streaming, thread store, wait state and branches, branch view and
the two front ends, with as much of workflow versions and live updates as the
front ends meet.  The rest is listed in `PROJECT.json` with the reason, or with
what is left to do.

How they interact: a browser posts a message; `respond()` loads the thread,
starts the workflow as a task that emits events into the processor's queue, and
attaches a listener.  The processor's loop applies each event, writes the item
and broadcasts it; each HTTP generator (the sender's and those of browsers that
reconnect) applies it again to its own copy, writes the item again and yields it.
The workflow updates the wait state in the thread's metadata and saves the whole
thread; the branch service updates the same metadata from other requests.

In the browser the chat window keeps views of conversations in a cache, opens
streams and calls for the one that is shown, and applies what arrives to the
screen, the cache or neither.  The workflow builder loads a version, saves edits
into the draft after a delay, polls the list of versions, and deploys by saving
and promoting; production versions are what the workflow engine runs.

## 2. Modules and plan

| Module | Models | Run by | Proved in |
|---|---|---|---|
| `StreamProcessor` | streaming and the rows it writes | `MCStreamProcessor`, 6 runs | `StreamProcessorProofs`, `StreamSequenceProofs` |
| `ThreadBranches` | wait state, branches, view of a branch | `MCThreadBranches`, 3 runs | `ThreadBranchesProofs` |
| `UndoTimeline` | what undo and redo promise (abstract) | property of `draft_editor` | |
| `UndoHistory` | history of the editor as operators on `past`, `last`, `future` | within `DraftEditor` | `UndoHistoryProofs` |
| `DraftEditor` | the editor page, the server's versions, other windows; extends `UndoHistory`, implements `UndoTimeline` | `MCDraftEditor`, 2 runs | `DraftPageProofs`, `DraftEditorProofs` |
| `ChatClient` | one chat window and the server as it sees it | `MCChatClient`, 1 run | `ChatScreenProofs`, `ChatClientProofs` |

What is left, in order:

1. Proofs: `CaughtUpView` of `StreamProcessor` with overlapping turns.
2. `WidgetWaiters`: the slot of a thread, composed with the wait state that
   survives in the database when the waiter does not
   (`_maybe_resume_from_persisted_wait`); promise: a wait is answered at most once.
3. `WorkflowEngine`: state machine, wait, while, split and join over a small
   graph, with turns as messages arrive.
4. Outbound calls, the realtime gateway, OAuth sessions, GitHub synchronisation.

## 3. StreamProcessor

### State and actions

Everything in the chat server runs in one asyncio event loop, so tasks interleave
exactly where an `await` suspends.  An `await` on the processor's lock never
suspends, because no critical section contains a suspension, and a `put` on an
unbounded queue never suspends either.  What does suspend is `queue.get()` on an
empty queue, a database write (`asyncio.to_thread`) and a `yield` to the HTTP
transport.  The actions are cut there and nowhere else.

| Model | Code |
|---|---|
| `registry`, `procOf`, `current` | `_stream_registry`; the processor object a `respond()` holds; `_task`, `_workflow_task` |
| `event_queue`, `active_items`, `text` | attributes of `StreamProcessor` |
| `wf`, `loop`, `held` | where the workflow task and the loop task stand; the event being persisted |
| `client`, `attachedTo`, `inbox`, `pending`, `view` | an HTTP generator, its listener queue, its write in progress, its copy of the items |
| `db`, `tempRows`, `dbClosed`, `closedMem`, `statusSeen` | rows, rows under regenerated identifiers, thread status in the database, in memory, and as compared with `last_thread` |
| `orphans` | writes whose task was cancelled: `to_thread` goes on in its worker |
| `RespondLoad`, `RespondStart`, `RespondAttach`, `Resume` | `respond()` and `resume_stream()` between two suspensions |
| `Workflow*` | `_execute_workflow` and its `finally` clause; the engine inside is free to stream, fail, wait or close |
| `Loop*` | `_run_loop` and its handlers |
| `Client*`, `Leave` | `_process_events` and the generator around it |
| `Disconnect`, `OrphanLands` | a closed connection; the commit of an abandoned write |

An item's text is the number of deltas applied to it; each run streams at most
one item.  A cancelled task that has not begun (`doomed`) dies without its
`finally` clause, as asyncio does it; a begun one (`cancelling`) runs it.

### Runs

| Run | Instance | Distinct states | Shows |
|---|---|---|---|
| `stream_turn` | 1 turn, 1 reconnecting client, 1 delta, disconnections, every write but the final may fail | 48,272 | types; every connected client is released once the workflow has ended (`StreamEnds`); a finished item is stored though nobody listens (`PersistedWithoutListeners`) |
| `stream_overlap` | 2 overlapping turns, one auto-started, disconnections | 621,754 | `RegistryLive`, `OneLiveLoop`, `SentinelPending`, `NoOrphanListener` |
| `stream_sequence` | 2 turns in sequence, 2 deltas, 1 reconnecting client, nobody leaves | 1,226,155 | `CaughtUpView`, `FinalStateStored`, `ClosedRefuses` |
| `stream_cut_off` | 2 overlapping turns | violation | `AnsweredToTheEnd`: the loop that a restart cancelled tells the new listener that the stream is over |
| `stream_slow_client` | 1 turn, disconnections | violation | `FinalStateStored`: a lagging client writes the new item over the final one and leaves |
| `stream_closed` | 2 turns, disconnections | violation | `ClosedRefuses`: the closing turn's client leaves and the closed status never reaches the database |

Two turns are enough for the registry and the restart: a restart relates the
processor's current run to the new one, and a third run repeats the relation
(the proofs cover any number).  One delta is enough to be lost or doubled; the
sequence run has two so that a delta can be skipped by the save interval.
Failures are limited to `added`, `updated`, `replaced` and `thread` where the
property is that the final version is stored: a failing final write is lost by
design (it is logged).  The violation runs are cut down to what the
counterexample needs, so that it is short.

**Fairness** (`FairSpec`): the event loop runs every task that can run (the
loop's actions, the first step and the `finally` of a workflow task, and its
database save), a client that stays connected reads, and a `respond()` that
yields pre-stream events attaches.  Neither users nor workflows are assumed to
make progress: a workflow may stay in a block for ever, so the liveness
properties start from "the workflow has ended".  A client may always disconnect.

### Counterexamples beyond the runs

The last section of the module states what one would expect and the code does
not guarantee.  TLC finds a counterexample with the constants given (`Streaming = {r1}` where a delta matters, everything
else as in `stream_cut_off`):

* `OneTurnAtATime`: `Runs = {r1, r2, r3}`, overlap.  The cancelled loop's
  `finally` removes the shared processor from the registry; a third message creates a second
  processor.
* `EndsOnOwnSentinel`: two overlapping runs.  The cancelled workflow queues its
  sentinel after `start()` drained the queue and the new loop ends on it.
* `NobodyTooLate`: one run in `AutoStarted`.  The turn is over before its
  listener is attached.
* `NoDeltaTwice`: one run, one resumer, `MaxDeltas = 1`.  A delta is applied,
  the snapshot of a new listener shows it, and it is then broadcast as well.
* `CaughtUpView` with `TemporaryItems = {r1}`: the early `continue` for
  placeholder identifiers skips the broadcast; and with `AutoStarted = {r1}`: the
  sender attaches late, as anybody who reconnects.
* `FinalStateStored` on the instance of `stream_sequence` with `FailingWrites` any of
  `{"added"}`, `{"updated"}`, `{"done"}`, `{"thread"}`: the write that fails is the
  final one, or ends the generator of a client whose older write landed last.
* `FinalStateStored` with two overlapping turns: `start()` drains the final version of
  the first turn's item from the queue before its loop has taken it.
* `ClosedRefuses` with `Runs = {r1, r2, r3}`, `Streaming = {}`, no overlap and no
  disconnection: `r1` closes while its client is slow; `r2` is accepted, and the
  save of its wait state (`save_thread` writes the whole payload) overwrites the
  closed status that `r1`'s client has saved meanwhile; `r3` is accepted.
  `stream_sequence` is about the second message only.

### Proofs (`StreamProcessorProofs`, `StreamSequenceProofs`)

For any sets of runs and clients and any bound on deltas, from the assumptions
`RunsAssumption` and `BoundsAssumption`:
`TypeCorrect`, `RegistryIsLive`, `LoopIsUnique`, `SentinelNeverLost`,
`ListenersReleased`.

All rest on `Invariance`: `StreamInv` is inductive.  `StreamInv` is `TypeOK` and
`Linked`, which says that a run with tasks knows its processor (`Assigned`),
that nothing refers to a run that has not begun (`Fresh`), that a live loop is
the current one of its processor (`LiveIsCurrent`), that the registered
processor is served (`RegistryServed`), that a live loop whose workflow has ended
has a sentinel ahead (`SentinelPending`), that every listener is served or has a
sentinel in its inbox (`ListenersServed`), and that only auto-started runs attach
late (`NobodyLate`).  None of the listed properties is inductive alone:
`OneLiveLoop` needs `LiveIsCurrent` (a restart cancels the *current* loop only),
`LiveIsCurrent` needs `Fresh`, `NoOrphanListener` needs `SentinelPending` (the
loop that ends must still broadcast) and `RegistryServed` (a new listener joins
the registered processor).  The proof has one lemma per group of actions for the
types and one for the links.

`StreamSequenceProofs` is about one turn at a time (`~MayOverlap`: a message is
sent when the previous turn has ended; any number of turns, clients and deltas).
Its base is `Solo`: every turn has a processor of its own, no task is ever
cancelled (`Sequential`), a client follows one turn, its own if it has one
(`Apart`), and a turn's queue and loop hold events of its own item only (`Single`).

* `SenderCaughtUp`: `AutoStarted = {} /\ TemporaryItems = {}` imply `CaughtUpView`,
  with disconnections and failing writes.  The invariant counts deltas: those
  applied plus those queued are those the workflow emitted (`Produced`); those the
  sender has seen, those in its inbox and the one the loop is about to broadcast are
  those applied (`Followed`).  "added" is the first event of a queue, so the count
  starts from zero on both sides.  That the two hypotheses on the constants are
  needed is shown above.  That turns do not overlap is what the argument
  needs: TLC finds no counterexample with two overlapping turns.
* `FinalStored`: `~MayDisconnect` and `FailingWrites \subseteq {"replaced"}` imply
  `FinalStateStored`.  Three parties write a row, each from a copy of its own, and
  the invariant says that whoever is about to write an older version still has the
  final one behind it: the loop in its queue (`Backed`), a client in its inbox or
  further up (`Informed`); so once the final version has been emitted the row has it
  or somebody owes it (`Stored`, `Owed`).  A client leaves only on the sentinel, which
  is last in every queue (`Ending`, `Closing`), so nobody who owes a write
  leaves.  The counterexamples above and `stream_slow_client` show that
  each hypothesis is needed.

## 4. ThreadBranches

### State and actions

One thread, its items in order of creation, its branches in order of creation
(`main` is 0).  A database transaction is one step.

| Model | Code |
|---|---|
| `branches`, `items`, `tag`, `rows` | the tables `ChatThreadBranch` and `ChatThreadItem`; `branch_id` in an item's payload |
| `stored`, `meta` | `thread.metadata` in the database and in a turn's own `ThreadMetadata` |
| `ctx`, `message`, `pending`, `prompt` | the request's `branch_id`, the message answered, the wait state restored by `initialize`, the prompt whose row is to be written |
| `GetWait`, `SetWait`, `ClearWait` | `_get_wait_state_metadata`, `_set_wait_state_metadata` |
| `Migrate`, `SwitchBranch`, `CreateBranch`, `Restorable` | `BranchService` |
| `Chain`, `ReadRow`, `View`, `RowBranch`, `Saved` | `_get_branch_fork_chain`, `_filter_items_for_branch`, the branch tag in `add_thread_item`, `save_thread` |
| `TurnLoad`, `TurnAsk`, `TurnRetry` | `load_thread`, the new message, `threads.retry_after_item` |
| `TurnStep`, `TurnPause`, `TurnPauseSaved`, `TurnWait`, `TurnClear`, `TurnEnd`, `TurnStop` | the saves of a running workflow, the wait block, the end of the workflow, a failure |
| `PromptStored` | the rows written by the processor's loop and the clients |

A wait state is reduced to the prompt it was saved under and the message that led
to it: the conversation history inside it is what precedes the prompt.  Users
create a branch by editing a message of the branch they see, the fork point being
the item shown before it, as the front end does.

### Runs

| Run | Instance | Distinct states | Shows |
|---|---|---|---|
| `branches` | 4 turns one after the other, 6 items, 2 branches, retries | 305,769 (up to symmetry of the turns) | types; `ViewIsLineage`, `WaitStateVisible`, `LegacyInStep`, `ResumesOwnBranch`, `EditResumes` |
| `branches_leak` | 3 turns, 4 items, 1 branch, overlap | violation | `WaitStateVisible`: a branch created while a turn of main runs takes the turn's prompt but not its wait state |
| `branches_retry` | 2 turns, 3 items, retries | violation | `RetryForgets`: a retried message is answered from the wait state that was saved after it |

Six items and two branches are the least with which a branch forks below a branch
at a prompt and both have waited: prompt, edit, prompt in the new branch, edit of
that answer.  TLC reaches these states (two nested branches, both with restored
wait states).  `branches` runs with `MayOverlap = FALSE`: operations of one user
in one browser come one after the other.  With overlap the first property to fail
is the finding of `branches_leak`.  The system may stop (turns and items run
out), hence `CHECK_DEADLOCK FALSE`.  There is no liveness claim here: nothing in
this component waits for another part of it.

`ViewIsLineage` compares the single pass of `_filter_items_for_branch` over the
rows with a definition that starts from the parent: what the parent shows up to
the fork point, then the branch's own items.

### Counterexamples beyond the runs

* `SwitchSticks` with overlap (3 turns, 4 items, 1 branch): a turn's
  `save_thread` writes the branch it loaded over the one the user has switched to.
* `LegacyInStep` with overlap: the same write leaves a legacy state of another
  branch.
* `OwnItemsShown` with `MayCutForks = TRUE` (3 turns, 5 items, 1 branch): a retry
  deletes the fork point of a branch, whose items are then never shown.

### Proofs (`ThreadBranchesProofs`)

For any turns, items and branches, from `ParametersAssumption`:

* `TypeCorrect`: types, whatever overlaps, fails or is retried.  `TypeOK` is not
  inductive: a wait state is typed because a turn that pauses has a message
  (`Answering`), a row exists only for an item that exists because a prompt still
  to be written does (`Written`).
* `LegacyStaysInStep` and `ChosenBranchSticks`: if operations do not overlap, the
  global wait state is always the current branch's own, and no save of a turn
  changes the user's branch, although it overwrites the whole metadata.  The
  inductive invariant adds that at most one turn runs (`Alone`) and that its copy
  names the stored branch and is itself in step (`Together`).
* `WaitsAreVisible` (`WaitStateVisible`) and `ResumesInPlace`
  (`ResumesOwnBranch`), if operations do not overlap: no branch waits at a prompt
  it does not show, and a turn resumes only in a branch that shows the prompt it
  resumes from.  This holds with failing saves, and with retries that delete fork
  points.  The overlap is excluded because `branches_leak` refutes the first.
* `ViewShowsLineage` (`ViewIsLineage`), if in addition no retry deletes a fork
  point (with one deleted, the filter never opens the segment that begins there):
  the single pass over the rows agrees with the definition that starts from the
  parent, for every depth of nesting and several forks at one item.
* `EditingResumes` (`EditResumes`), if in addition no save fails (a failed save
  loses the entry of the index that the edit is resumed from).

The last four rest on three invariants, each needed for the next.

* `Tree`: a parent is older than its branches, the fork point of a branch carries
  its parent's tag, and a branch's items are newer than its fork point.  `Steady`
  makes it inductive: a turn reads the branch for a row when it writes the row, so
  the current branch must be one of the tree, and a prompt whose row is still to
  be written must be newer than every fork point and belong to the only turn in
  progress.
* `WaitsPlaced`: the prompt of a wait state is in the lineage of the branch the
  state is kept for.  It speaks of the database and of the copies in turns, whose
  save replaces the metadata as a whole, and of a prompt without a row, which is
  in no lineage yet and must be the current branch's.
* `Roles` and `IndexKept`: an edited prompt is in the index of its branch, in the
  database and in every copy that may be saved, unless a turn of the branch has
  ended or failed.  That this exception lasts needs that the message a turn
  answers stays in the branch (`Roles`).

`Lineage`, `Chain` and `View` are recursive functions.  Each is a `CHOOSE` of a
function that satisfies an equation, so that it has its values only if such a
function exists.  `Recursion` constructs one, from `Induction` over sets of
natural numbers, which the library's `NatLessThanWellFounded` and `WFMin` give.
`LineageLaw`, `ChainLaw` and `Reads` then state the equations, and what is
proved of all branches (`LineageFrame`, `PathHolds`, `ViewHolds`) is proved for a
least branch or row that breaks it.  `Path` is what `ViewHolds` needs of a chain
of fork points: the fork points rise, and an item is in the lineage if one
segment holds it before all later fork points.  It is here that a new branch must
hang below the branch of its fork item (`branch_service.py:254-262` takes it from
the item's tag): with the current branch as parent, fork points would not rise.

## 5. DraftEditor, UndoHistory and UndoTimeline

### State and actions

A step is one callback (DOM event, timer, continuation of an `await`) together
with the rendering and the effects that follow it (`React`).  An asynchronous
function is a task that stands at one of its requests; what it captured when it
began (graph, version, selection) is in the task, what it reads through a ref is
read when it continues.  Graphs are numbers and each edit makes a new one; it leaves
a gap before it, for what is left of that graph if a snapshot restores it with
loss (`Restore`, `Lossy`).

| Model | Code |
|---|---|
| `server.graph`, `.rev`, `.prod` | the versions in order of creation, their `updated_at`, the one with `is_active` (`workflows/service.py`) |
| `ui.list`, `.selected`, `.detail`, `.loading`, `.loadError` | `WorkflowContext` |
| `ui.shown`, `.pending`, `.hydrating` | nodes and edges, `hasPendingChanges`, `isHydratingRef` |
| `ui.save`, `.baseline`, `.draftRef` | `saveState`, `lastSavedSnapshotRef`, `draftVersionIdRef`; both refs are overwritten by a state that is never set whenever their provider renders (`Rendered`) |
| `ui.hist` (`UndoHistory`) | `historyRef` of `useWorkflowHistory`, with its limit and the drag that groups edits |
| `AutoSave`, `SaveAnswered` | `useWorkflowPersistence` |
| `ChooseVersion`, `Listed`, `Detailed` | `useWorkflowLoader` |
| `Poll`, `Polled` | `useRemoteVersionPolling` |
| `Deploy`, `Promoted`, `LibraryLoaded` | `useWorkflowDeployment` |
| `CreateDraft`, `Edit`, `OpenPanel`, `ClosePanel`, `UndoEdit`, `RedoEdit`, `StopDragging` | `WorkflowBuilderPage.tsx`, `useNodeInteractions` |
| `Restore` | `restoreGraphFromSnapshot` (`useWorkflowHistory.ts:70-140`): undo and redo read a snapshot back with less than a load reads from the server |
| `Answer`, `Refuse`, `Fail`, `OtherWindow` | the server answers or refuses; a request or its answer is lost, after which the next URL of `makeApiEndpointCandidates` is tried; another window saves, creates or promotes |
| `LiveEdit` | `update_step_message_live` and `update_step_field_live` (`workflows/service.py:2889-3049`): an administrator edits a text of the version in production, in place |
| `SavedTimeout`, `LoadTimeout`, `HydrationTimeout` | the timers of 1500 ms, 250 ms and 100 ms |

### Runs

| Run | Shows |
|---|---|
| `draft_editor` (2,075,663 distinct states) | types; `PublishedKept`: only a live edit changes a version in production; `PendingDiffers`; `SingleCreation`; `DeploymentRuns`: the page deploys exactly as long as one function does; `TimelineSpec`: the editor implements `UndoTimeline` under the mapping `timeline = past + last + future`, `cursor = Len(past) + 1` |
| `draft_settles` (109,350) | `PendingSettles`, `LoadingEnds`, `DeploymentEnds`, `ListCatchesUp`, a deployment among failures included |

`Init` chooses a situation: a server (empty, an unpublished draft, a production version, both)
and one of several *budgets*, each a small combination of what users and the
network may do (for instance two edits, one panel, two undos; or one edit, one
version chosen, one change by another window, which includes live edits; or one deployment
and one failure): the mechanisms meet pairwise, and no state space holds all of them at once.  Two tasks are the
least that can overlap.  `HistoryLimit` is 2 and `DragLimit` 3, so that the
history forgets entries within the three edits.  `MaxVersions` and `MaxGraph`
are large enough never to block an action that the budget still allows.  The second
graph that is made is invalid, and the first, as the graph that is stored at the beginning,
is restored with loss.

`TimelineSpec` says that undo and redo show the entry at the cursor *as far as its
snapshot restores it*, and that what is lost is lost in the entry, too; an abstract
timeline that is restored as it was is refuted by the code (below).  `PublishedKept`
excepts `LiveEdit`, which changes a version in production by design ("It modifies the published
version directly", `service.py:2899`).

**Fairness**: every request is answered or refused and every continuation runs, for
each function; some timer runs as long as one is set, and the autosave effect and the
polling interval fire as long as they can.  `isPolling` is local to one run of the
polling effect (`useRemoteVersionPolling.ts:95`), so that polls overlap.  Nobody has to edit,
choose or deploy, and requests fail only while the budget lasts.  `PendingSettles`
excepts what the page itself refuses to save: an open panel, an invalid graph, a
locked version.

### Counterexamples beyond the runs

Each was found with TLC, with the property that one would expect in place of the one that
holds.

* The first edit after a change of the save state is not marked as pending: the
  baseline ref has just been reset by the provider
  (`SaveContext.tsx:47-56`, `useWorkflowPersistence.ts:141-166`); an edit within
  the 100 ms of hydration likewise.  This is why `PendingDiffers` is conditioned
  on a known baseline, and why there is no converse ("what differs is pending").
* Of two overlapping saves both fail: the first failure changes the save state, so
  its rendering resets the baseline, which the next edit sets to itself; the second
  failure leaves the state at "error" and marks that edit as pending
  (`useWorkflowPersistence.ts:317-320, 377-380`).  This is why `PendingDiffers`
  excepts a failed save.
* Undo does not always bring back the graph that was recorded.
  `restoreGraphFromSnapshot` keeps `agent_key` for blocks of kind `agent` only
  (`useWorkflowHistory.ts:88`), although a voice agent's key is in the snapshot, drops
  nodes of unknown kinds (`:81-83`), and does not set the size and type of a while block as
  a load does.  With the graph in place of what can be restored of it,
  `TimelineSpec` is violated.  Undoing back to the saved graph may thus leave
  something pending, and the autosave then stores the loss.
* (By reading.)  A live edit is taken back by the promotion of a draft that was made before it, since the draft
  has the older text; `PublishedKept` is about versions, not about what is in
  production after a promotion.  The version is not stamped by it: no poll of an open page sees it.
* Two saves overlap: the second begins when a reload has reset the save state.
* A background reload that began before another version was chosen shows its
  version under the selection of the other.
* Deploying while an older or published version is shown puts the viewed graph
  over the draft.
* A deployment goes on to the promotion although its save failed, and refuses
  after one that succeeded: it reads `hasPendingChangesRef` before React has
  rendered.
* With another window, a save goes to a version that is older than production
  (stale `draftVersionIdRef`); a POST repeated after a lost answer makes a second
  draft; a PUT leaves `updated_at` alone, so that a poll does not see it and the
  next save overwrites it; an edit made while a reload is on its way is replaced.

### Proofs (`UndoHistoryProofs`, `DraftPageProofs`, `DraftEditorProofs`)

For any set of tasks, any limits of history and drag, any bounds on versions and
graphs, any servers and budgets to begin with, from `EditorAssumption`,
`SituationAssumption` (what the server holds at first is consistent: as many
update times as graphs, production one of them, every graph older than those the page
makes), both for any set of graphs that are restored with loss (the gap before them is
no such graph), and `LimitsAssumption`:

* `TypeCorrect` ([]`TypeOK`), `PendingIsReal` ([]`PendingDiffers`), `OneDraft`
  ([]`SingleCreation`) and `ProductionKept` (`PublishedKept`);
* `HistoryIsTimeline`: `Spec => TimelineSpec`, the refinement of `UndoTimeline`.

All rest on `Invariance`: `EditorInv` is inductive.  None of the properties is
inductive alone, since every function of the page continues with what it captured
before its request.  The parts of `EditorInv`:

* `ServerInv` and `PageKnown`: versions that the page lists, selects or refers to
  are stored.  Versions are never deleted, so what was stored once stays.
* `TaskKnown`: what a function captured, made or was answered is stored too, and
  which functions write what.  `PublishedKept` needs it: a PUT is refused for the
  version in production, and a promotion only ever names another version that
  exists.
* `Tidy`: past, last and future are one line of increasing graphs, none newer than
  the newest; what is shown is the last entry, or newer than the line and held back
  by an open panel; while a version is being loaded the line has one entry.  The
  refinement needs it: what `Record` appends differs from every entry, so the
  history effect never takes an edit for the entry it is at.  A restored graph takes
  its entry's place and the number just below it, which no other graph has, so that
  the line still increases.
* `PendingInv`: the condition of `PendingDiffers`, with the baseline no newer than
  the newest graph (a fresh edit differs from every baseline).
* `OneCreates`: at most one function is between its POST and its last
  continuation, and `ui.creating` holds until then.  `SingleCreation` alone forgets
  the function once its POST is answered.

`UndoHistoryProofs` has what `Record`, `Undo`, `Redo` and `Reset` do to the line and
to the timeline.  `DraftPageProofs` has what each callback does to the page: one
lemma for rendering and effects (`React`) carries all of them.
`DraftEditorProofs` has one lemma per action, each of which shows three things at
once (`Stepped`): the invariant, what is in production, and the step of the
timeline.

Stating the invariant corrected the model: `PendingDiffers` held for a failed save
only because no budget allowed two failures, and a deployment falls back to
the selection of its click, not of its last continuation.

### Not in these models

The library of workflows, inspectors, keyboard, canvas; the content of graphs
beyond valid or not and restored with loss or not; an edit that makes a graph that
existed before (undone by hand, or equal to what a restoration left: the history effect then
has nothing to record, and its `isRestoring` may stay set until the next edit, which it
swallows); unmounting the page.  By reading the code only: a drag keeps up to
100 positions while the history keeps 50 (`useNodeInteractions.ts:87`); undo with
an open panel drops what the panel has not committed.

## 6. ChatClient

### State and actions

The client is one record `c` of React state, refs, cache, streams and calls under
way.  Handlers are operators from such a record to the next one, composed as the
code calls them; `Client` then applies the effects that follow the rendering, in
their order.  A view is `[id, branch, has]`: which conversation, which branch the
server called current, which facts (a positive one is an item of a turn, a
negative one a live edit by an administrator).

| Model | Code |
|---|---|
| `wanted`, `thread`, `visible`, `ref` | `initialThread`, `thread` and the current thread and branch refs of `useThreadState` / `useChatKit` |
| `cache`, `loading`, `controllers` | the maps keyed by conversation and branch; a controller of an ended stream is mapped to `None` |
| `current`, `loaded`, `branchesOf` | `useBranches` |
| `streams[s]` | one call of `streamChatKitEvents` with the closure it was made in: target, branch, key (rekeyed when the server names the conversation), the view it accumulates |
| `calls` | fetches under way: load, refresh, branches, switch, fork, rewrite, poll, older; each is asked, then answered or refused by the server, then returns |
| `Unused` | a new branch has a fresh identifier: it differs from every branch and from those that forks under way ask for |
| `draft`, `newStreaming` | the page's `isNewConversationDraftRef`, which `SyncDraft` sets by what is wanted whenever that changes, and `wasNewConversationStreamingRef` |
| `dead` | the stream belongs to an instance of the hook that was replaced; it is aborted 100 ms later, unless it is a widget's action, which has no controller |
| `orphans`, `LateNotFound` | conversations that a replaced instance was loading: its load still tells the page that one does not exist (`useThreadLoader.ts:116-123`) |
| `srv.old`, `LoadOlder`, `Older` | the items before the newest page; `loadOlderItems` (`useChatKit.ts:292-330`), whose answer is added to what is on the screen *by then* and to what is cached of the conversation it was asked in |
| `AwaitAction` | an `awaiting_action` event clears the loading flag in mid-stream (`useMessageStreaming.ts:83-85`), so that a message can be sent while the stream goes on |
| `srv.strays` | no state of the code: which older items each conversation was given by an answer of another one; only `NoForeignItem` reads it |
| `SendUserMessage`, `CustomAction`, `EditMessage`, `SwitchBranch`, `ThreadSelect`, `NewConversation`, `NewThread`, `Focus` | what the user does |
| `Receive`, `Abort`, `Return`, `Poll`, `UnmountTimeout` | events, end of an aborted stream, answers, the poll of live updates |
| `Accept`, `Serve`, `Produce`, `LiveEdit` | the server: it takes a message (which takes the place of a running turn), answers calls, produces the items of a turn, and is edited |
| `StreamFails`, `CallFails` | a lost connection |

The server is external to these hooks and is modelled as they use it.  How it
really ends a turn that a second message replaces is `StreamProcessor`'s subject.

Two bounds: a message or an edit is sent while a stream's slot is free (`Room` for
the message of an edit, whose call returns once there is one), and each user action
may be taken as often as the start says (`left`).  `StartsAssumption` says what every start is: a situation with the main branch, where
a conversation that does not exist is on it and has no older items, and older items belong to one
conversation each.

With `AutoStart = FALSE` no message is sent while a stream of a replaced instance
waits for its 100 ms: a user is slower than that, a workflow that starts on its own
is not (below).  The stream of a widget's action lives longer and does not hold the
user up.

### Run

`chat_client` (68,195 distinct states) checks types, `ShownIsVisible`,
`NoForeignItem`, `NewConversationKept` and the liveness properties
`ChosenIsShown`, `TurnReachesScreen`, `EditReachesScreen`.  `Init` opens the
window in one of twenty-seven starts, each a situation (nothing runs, a draft, a running
turn, another branch, a conversation that does not exist, conversations with older
items) with a few user actions; together they pair the actions that meet.  Three
slots are never used up by these starts, and two items per turn are the least with which
a turn can be interrupted between items.  Each conversation has one page of older
items, the least that can stray.  The older page may be asked for as long as the
screen does not have it, which covers the real cursor (a stray answer overwrites it,
an update of the thread drops it; a cursor the server does not know gives the newest page
of its own conversation); it is the same on every branch, because `listItems` names none.

`NoForeignItem` says that a conversation shows and caches nothing of another, *except* a
page of older items that was asked for in one and came when the other was on the
screen, which the code adds to that one; even these stay where they strayed to
(`srv.strays[id]`).  Without the exception the property is violated (below).

On a *reliable* net calls are served and answered in order and nothing fails; on a *wild*
one order is free, a call or a stream may fail and the server may refuse a
switch.  The safety properties hold on both, the liveness properties are stated
for the reliable net.

**Fairness** is one `WF_vars(System)`: the browser and the server do not stop
while one of their steps is possible.  Nothing stronger is needed, because
between two user actions the system has only finitely many steps.  Users owe
nothing.

### Proofs (`ChatScreenProofs`, `ChatClientProofs`)

Proved for any conversations, branches, slots, starts, and any number of actions,
turns and failures, on either net, from `StartsAssumption`, `ClientAssumption`
(the conversations, branches and `None` differ, no conversation is a number, which is
what temporary identifiers are here, the bounds are positive) and `NoneAssumption`
(`None` is no view):

* `TypeCorrect`: `[]TypeOK`.
* `NoForeign`: `[]NoForeignItem`, with the exception above.
* `ScreenIsVisible`: `[]ShownIsVisible` in a window opened with no widget to use.  The
  condition is needed: a widget's stream puts its conversation on the screen
  without moving the refs (below).  The run has clicks, in starts where nobody moves.
* `NewStays`: `NewConversationKept` where no workflow starts on its own
  (`~AutoStart`), no widget is used and the header's button is not used.  Each of the
  three is needed: the first three counterexamples below are what happens without it.

None of them is inductive.  For the first three, what a late event or answer does to the screen
depends on what was true when its stream or call began.  `ChatInv(uses)` says

* of every view, wherever it is kept: it is of one conversation, on a branch that
  the server made, and has only facts that the server has of *that* conversation
  on some branch, or in the pages before, or that have strayed to it (`Good`);
* of a stream: it is about one conversation (`Conv`), the one it was sent to or the
  one that is born from it; its key, the key it began under, the events in its
  inbox, what it hears and what it has accumulated all belong to that conversation
  (`Keyed`, `About`, `EventGood`), before and after it is rekeyed;
* of the cache: what is under a key belongs to the key's conversation;
* of a call: an answer is of the conversation that was asked for, a branch in it is one the
  server made, a time in it has passed; the branches that forks
  ask for are made by nobody yet and differ;
* of the server: an item in a branch has been produced, and a branch that is not made yet holds
  nothing but edits that every branch holds.  Without this a fork, which copies what its
  parent has, could shrink what a view was checked against;
* with `uses = 0`: no stream is a widget's, and what is on the screen is what is visible.

`ChatScreenProofs` proves, of each operation of the hooks, that it keeps the
client's part against a fixed server; handlers compose these lemmas as the code
composes the operations.  `ChatClientProofs` adds that the server only grows
(`Grows`), that what was good stays good, and one lemma per action.

For `NewStays`, `StaysInv` adds what a window is while no conversation is wanted (`Blank`):
it shows nothing, asks for nothing and is on no branch; every stream of its own
(`Live`) carries the first message of the visible temporary conversation, and what it hears
first is that conversation's identifier (`First`); and while a
stream of a replaced instance is left, the page is on a draft of which nothing
streams, so that `onThreadChange` ignores it.  From such a state only a choice in
the sidebar or the first message's own first event makes a conversation wanted
(`BlankStep`), and from any other only a new instance, which is blank, wants
none (`WantingStep`, `RemountBlank`).

### Counterexamples beyond the run

Found with TLC by widening the starts or a constant:

* `AutoStart = TRUE` violates `NewConversationKept`: a first message sent within
  100 ms of "+" while an old stream is still being read brings the old
  conversation back.
* From `Idle([Still EXCEPT !.clicks = 1, !.news = 1, !.sends = 1])`, a start with a
  widget, "+" and a first message, `NewConversationKept` is violated (within 718
  states).  The comment above the test in `onThreadChange` says it "prevents ChatKit
  from restoring an old thread after clicking "+""; but a stream of the conversation
  being born is let through, by a flag that any first message sets and that says
  nothing of whose event it is.  The action's stream outlives its instance of the
  hook; once the first message is under way, its next event makes the old
  conversation the wanted one, and the window leaves the conversation whose first
  message was just sent.
* The header's "new thread" keeps the instance, its streams and its calls.  From
  `Draft([Still EXCEPT !.sends = 1, !.blanks = 1, !.edits = 1])` it violates
  `NewConversationKept`: pressed in a conversation that was just born, while the refresh of a
  poll is on its way, it is undone by the refresh and the next event of the first message.
* Items of a foreign conversation: the user scrolls up in one conversation, which asks for
  its older items, and chooses another; the answer is prepended to what is on the
  screen by then (`useChatKit.ts:311-319`: `setThread` takes `prevThread`, whichever it is).
  With `srv.strays[v.id]` dropped from `Holds`, TLC finds it in the starts with `olders`
  and `moves`.  The items are there until the conversation is shown anew from the cache or
  the server, and the pagination cursor is that of the wrong conversation.
* A load that is answered late shows its conversation after another one was
  chosen.  `ChosenIsShown` says that a choice comes on the screen, not that it
  stays there.
* A widget's action shows its conversation without moving the refs: with moves
  in the same start `ShownIsVisible` fails, for good, and the next message goes
  to a conversation that is not on the screen; during a turn the snapshot of the click wipes the items
  that arrived since; and its stream is not aborted when the hook is replaced.
* Switching branches during a response, when the server refuses the switch,
  leaves the last items of the response unshown.

By reading only: a view cached under an unknown branch is shown on return until
a refresh; a conversation that was born keeps its first loading key for ever; the
`finally` of an aborted stream deletes the controller and flag of its successor;
`sinceRef` is shared by the conversations and moves before the refresh succeeds; a
switch answered after the user left sets the branch of another conversation; a
message that is edited is sent to whatever conversation is visible after its
awaits, also by an instance that was replaced meanwhile (`useChatKit.ts:257-271`).

### Not in the model

What a replaced instance has under way besides streams and loads: an edited
message that is still between its fork and its sending, a switch or a fork that reaches the
server later (no start combines those with a new instance).  Client tools, retry, feedback, titles, the deltas inside an item,
selecting a conversation of another workflow (which remounts everything), the
direct browser event of the administrator's voice panel, `thread.updated`,
rendering, realtime voice.

## 7. What is only model-checked, and what is not modelled

* Only checked by TLC: the liveness properties, because the prover handles
  neither fairness nor `ENABLED` (`StreamEnds` and `PersistedWithoutListeners` of
  the stream, `PendingSettles`, `LoadingEnds`, `DeploymentEnds` and
  `ListCatchesUp` of the editor, `ChosenIsShown`, `TurnReachesScreen` and
  `EditReachesScreen` of the chat window); and `ClosedRefuses`, which is false for
  three turns (section 3).
* In `StreamProcessor`: the title task, `threads.cancel`, more than one item per
  run, the widget and resume-from-wait paths (they run a workflow without a
  processor), the duplicate rows of placeholder items beyond `tempRows`.
* In `ThreadBranches`: wait blocks without a prompt, widget, voice and telephony
  blocks that write the same metadata, late saves by the clients' generators, and
  forks at arbitrary items through the API.  The deletes of a retry are one step.
* A database transaction is one step everywhere.
* What sections 5 and 6 leave out of the front ends is listed there.
* The remaining components of section 1.  Widget waiters and the workflow engine
  have hazards that are listed in `PROJECT.json` and no model yet; telephony,
  voice, computer use and the vector store are mostly I/O at their boundary; the
  administration pages, labs, inspectors and translations, by far the largest part of the
  front end by lines, are forms over single requests and keep no state that two
  actors share.
