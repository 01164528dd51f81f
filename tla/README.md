# Verification of coder-studio

TLA+ modules, TLC configurations and TLAPS proofs about the server of coder-studio
(`packages/server`) and the parts of the web client that share a protocol with it.
Every definition is translated from the TypeScript; `PROJECT.json` maps each to its lines.

## The system

coder-studio runs coding agents in terminals. A browser talks over one WebSocket to a
Node.js server; the server owns workspaces, sessions (an agent in a terminal),
terminals (a pty), and supervisors (a second agent that judges a session's turns and
writes guidance into it). The server is one thread. Nothing happens between two
awaits, and nearly everything that can go wrong happens across one: a function reads
state, suspends on a file, a subprocess or a socket, and continues when others have
changed what it read.

| Component | State it keeps | Operations | Talks to | What is hard, what makes it correct |
|---|---|---|---|---|
| Supervisor manager (`supervisor/manager.ts`) | snapshot map, repository, `inFlight`, abort controllers, completions, pending delete/pause/objective flags, `meta.json` | create, restore, update, pause, resume, delete, evaluate | session events, evaluator, target store, injector, scheduler, bus | three sources of triggers and five calls interleave at about twenty awaits; one evaluation at a time, a cancelled one writes nothing, each call's effect survives, everybody who waits is woken |
| Supervisor evaluator (`supervisor/evaluator.ts`) | a child process per attempt | run a pass, abort, time out | manager | a kill races a result; one outcome per attempt |
| Target store (`supervisor/target-store.ts`) | files of a target | create, reset, clone, append, delete | manager | staging and backup renames; a crash between two of them |
| Plan tree, context builder, settings | none | pure functions | manager | the selected node is executable, the plan stays a tree |
| Session manager (`session/manager.ts`) and turn detection (`session/pty-state-detector.ts`) | session records, turn tracking, resume bookkeeping, two timers, rows and tokens | create, input, output, resume, stop, remove, hydrate, stop or delete for a workspace | terminal events, bus, supervisor | a turn completes exactly once and only when answered; echoes, repaints and late timers do not complete it; no session without a terminal |
| Terminal manager (`terminal/`) | terminals, ring buffers, snapshot buffers, waiters of explicit closes | create, write, resize, close, replay, finalize | pty, hub, session | output sequence numbers are contiguous; close, kill, exit, a second close and a cleanup timer race |
| WebSocket hub, client, stream buffer (`ws/`) | connected clients, subscriptions, buffered frames, binary waiters | broadcast, enqueue, drain, dispatch | every manager, browser | backpressure drops frames; a dropped frame must be announced |
| Activation lease (`ws/activation.ts`, `hooks/use-activation.ts`) | the lease, its generation; in the page, status and claim | claim, release, lose a socket, revoke; claim, retry, be gated | hub, client | what a tab sent on an old socket arrives after what it sends on the new one; one page drives the server |
| Controller fencing (`ws/fencing.ts`) | controller leases | acquire, take over, expire | dispatch | no command asks for a controller |
| Terminal recovery (`web/.../terminal-panel`) | applied sequence number, hydration phase | reconcile, replay, snapshot | hub | the screen ends up equal to the terminal |
| Background fetches and the network gate (`git/auto-fetch.ts`) | per workspace: viewers, last fetch, cooldown, next fetch, failures, block, gate with waiters | register and unregister a viewer, open, tick, fetch, `runExclusive`, stop | hub, workspace manager, git commands | a gate that is released to nobody, a viewer counted twice, a schedule that falls asleep |
| Git commands (`commands/git.ts`) | the repository | push, pull, fetch and local commands | gate | exclusive with the fetches in the background |
| LSP (`lsp/`) | a session per workspace and language, idle timers, child processes, open documents | ensure, open, change, close, query, dispose, switch off | tool manager, child processes, process registry | a session is disposed, a server exits or times out at any await; no process is lost, a restarted server knows the documents |
| Event bus | subscriptions | emit | all | synchronous; no ordering of its own |
| Storage repositories | maps, JSON files | get, put, delete | managers | durable after the manager's await |
| Workspace manager | open workspaces | open, close, delete | sessions, terminals, LSP, fetches | a close cascades |
| Install managers, updates | child processes, job queues | one per command | dispatch | concurrent jobs, timeouts |
| File services, work analysis, canvas, skills, tasks, auth, monitoring, uploads, preview | little or none | request and response | dispatch | sequential |
| Web application, desktop, CLI | view state, processes | user interface, start and stop | server | pane layout tree; update and restart of the desktop |

`PROJECT.json` lists the components with their sources and status, and the hazards
each is exposed to with the line where they bite.

## Modules and plan

| Module | Models | Proved about in | Status |
|---|---|---|---|
| `SupervisorCycle` (`MCSupervisorCycle` for TLC), `EvaluationSlot` | supervisor evaluations and the calls that race with them; the abstract slot they implement | `SupervisorCycle_proofs`, `SupervisorOutcomes_proofs` | done, but for `create()` and hydration |
| `TerminalStream` | output of a terminal under backpressure, and recovery in the browser | `TerminalStream_proofs` | done for one live terminal and one browser |
| `SessionTurns` | turns of a session under input, output and timers | `SessionTurns_proofs` | done |
| `SessionLifecycle` | sessions with their terminals and rows, from creation to close, failed writes and crashes | `SessionLifecycle_proofs` | done |
| `ActivationLease` | which browser tab drives the server | `ActivationLease_proofs` | done |
| `GitGate` | background fetches, network commands and their gate | `GitGate_proofs` | done |
| `LanguageServer` | language server sessions, their processes and documents | `LanguageServer_proofs` | done for one language and document |

The modules meet at the interfaces they abstract: the supervisor's `TurnCompletes` is what
`SessionTurns` counts in `turns`, its `SessionRemoved` the end of a session in
`SessionLifecycle`; "live" there is the whole of `SessionTurns`; the teardown of a
workspace is `TeardownBegins` there, `CloseWorkspace` in `GitGate` and `DisposeWorkspace`
in `LanguageServer`; the activation gate in front of `TerminalStream`'s commands is the
lease of `ActivationLease`.

What is left of the plan: `create()` and hydration of supervisors, the target store's
renames, the shared connection probe, the hub's binary waiters.

## SupervisorCycle

### State and code

One supervisor, the evaluations running for it, the calls made on it, the session it
drives and a coarse clock. A function of `manager.ts` that awaits is a record in a slot
(`run[k]` for an evaluation, `call[c]` for a client call) whose `pc` names the await it is
suspended at; the action for a `pc` is the code from that await to the next. Continuations
of promises that are already resolved run in the same step.

| TLA+ | TypeScript |
|---|---|
| `repo`, `snap` | the entry in `SupervisorRepo` and in `supervisors`; both exist because updates go to the repository first and to the snapshot after another await |
| `inFlight`, `aborted` | membership of `inFlight`; the signal of its controller |
| `pendingDelete`, `pendingPause`, `pendingObjective` | the three sets of ids |
| `run[k].rec`, `call[c].rec`, `call[c].cur` | the supervisor, patch and `current` a suspended function captured |
| `Trigger` ... `FlipEvaluating` | `beginCycle` |
| `EvaluatorAborts` ... `FlipInjecting` | `executeCycleWithRetry`, one outcome of the passes per action |
| `SaveOutcome`, `FlipFinal`, `AttachFinal` | `finalizeSuccessfulCycle` |
| `AbortRecord`, `FlipAborted`, `FlipFailed`, `AttachFailed`, `Finally` | `finishCycle` |
| `MarkError`, `AttachError` | `markSupervisorError` |
| `Pause`, `Resume`, `Delete`, `Update`, `Restore` and their continuations | the methods of these names |

`updatePersistedSupervisor` is one await: it throws if the repository has no entry when
called, may throw on a file operation (`IoFails`), and merges its patch into whatever the
repository holds when the file has been written. A patch field that is `undefined` keeps
the repository's value; that is why a schedule of 0 in some patches keeps the stored one.

Abstracted: objective, evaluator and model names, memory, plan and texts; a supervisor is
its state, completed count and schedule. The evaluator is its outcomes: verdict, guidance,
error, timeout, abort. Not reachable in the code and left out: the duplicate-turn exit of
`beginCycle` (the context builder never sets `lastTurnId`), branches on a changed
`targetId` (it never changes), the state `inactive`. A retry delay is at least a second,
so `sleep` never returns at once. Not modelled: `create()`, `hydrate()`, restore into a
session without supervisor, `deleteForWorkspace()`.

History variables (`asked`, `injections`, `intent`, `deleteAsked`, `fires`, `finalized`)
record what was promised or done; no guard reads them. `intent` and `deleteAsked` also
record at which await a pause or delete arrived, because the promise the code keeps
depends on it.

### Runs

| Run | Question | Instance |
|---|---|---|
| `cycle_control` | do evaluations exclude each other, own their supervisor and stop when told; do they implement `EvaluationSlot` | 2 evaluations, 2 calls among pause, resume, delete, restore; manual triggers; any file operation may fail; 1.8 million states |
| `cycle_outcomes` | what does a cycle leave behind: state, count, schedule, flags | 3 evaluations in 2 slots, all triggers, cap 1, one retry, clock to 2; pause, resume, delete; no file failures; 280 000 states |
| `cycle_updates` | does everyone who waits return (liveness) | 1 evaluation, one retry, 2 calls among objective, edit, delete; file failures; 230 000 states; no symmetry |
| `cycle_lost_pause` | is a pause final whenever it arrives | expected violation |

Bounds. Two slots of each kind show every pairwise race; a second evaluation shows what a
first one leaves behind; `MaxRuns` and `MaxCalls` stop the counters. In
`cycle_outcomes` three evaluations are needed for a failure, a resumed success and one
more that must meet the cap. `MaxTime = 2` gives a schedule that is in the future, due,
and past. Deadlock is not checked: clients and sessions may stop for good. Operations are
divided among the runs: `update()` and `restore()` write captured state back, which breaks
the properties of `cycle_outcomes` (see below), so those state what holds without them.

Fairness, in `cycle_updates` only: weak fairness of every suspended function. Evaluators are
killed at their timeout, file operations settle, and the event loop runs every settled
promise. Nothing obliges a client to call, a session to work or a clock to tick.

### What the violation shows, and three known limits

- `cycle_lost_pause`: the final patch, the attach after it and the snapshot it stores come
  from the captured supervisor, so a pause that is persisted in between is overwritten and
  the supervisor ends idle. `PauseHoldsBeforeOutcome` is the part that holds.
- A delete is heard only where the cycle looks at `pendingDeletes`, and there are two awaits
  behind which it does not. One that arrives while a cycle is being prepared is lost when the
  preparation fails: `beginCycle` releases and marks the error. One that arrives while a
  cancelled cycle persists its flip back (`flipAborted`, `finishCycle` 968-1032) is lost always.
  The call returns, with nothing deleted. The supervisor stays and its delete stays pending, so
  that the next cycle, if anything ever starts one, ends with it. `DeletesAreKept` says exactly
  this: a delete accepted anywhere else (`"final"`) is done when all is quiet, one accepted in
  these two windows (`"preparing"`, `"aborting"`) is done or pending. A delete that is carried
  out while the failed preparation is being marked can be undone by the mark, which shows the
  supervisor's error again; that one is excepted (`"marking"`).
- `update()` writes back what it captured: an edit that does not mention the schedule, and
  began before a cycle consumed it, makes it due again. `ScheduleFiresOnce` is checked
  without edits.

### Proofs

`SupervisorCycle_proofs` proves for every number of slots, set of operations, cap, retry
budget and bound:

- `TypeCorrect`: `Spec => []TypeOK`.
- `MutualExclusion`: `Spec => []OneCycle`. The inductive part is `OneCycle` with the types: an
  action that releases is one at a cycle `pc`, which by uniqueness is the holder.
- `NoLostWaiter`: `Spec => []WaitersHaveCycle`; needs that every step that clears `inFlight`
  goes through `ReleaseInFlight`, which wakes all calls.
- `NoLateInjection`: `Spec => CancelledNeverInjects`; needs the invariant that a cancellation
  asked for is still set in `aborted`, up to the release.

- `SlotRefinement`: `Spec => SlotSpec`. Initial states map to initial states of
  `EvaluationSlot`, and every step to a step of the slot or a stutter: beginning, being
  cancelled, writing and releasing are the only ones that move it. `SlotSafety` follows for
  `injections`: an evaluation writes to the session at most once.
- `SupervisorOutlivesCycle`: `Spec => []CycleOwnsSupervisor`, with racing calls and failing
  files. `CycleOwnsSupervisor` is not inductive, because evaluations and calls store what
  they captured before an await; `Captured` says that this is a supervisor that exists.
  `OwnInv == Typed /\ Captured /\ CycleOwnsSupervisor` is inductive.

These rest on `CycleAssumption` alone. `SupervisorOutcomes_proofs` is about what cycles leave
behind, under the hypotheses of the run `cycle_outcomes`, which its theorems state: `Plain`
says that only pauses, resumes and deletes are called and that no file operation fails
(updates and restores write captured state back, and a failed write loses an outcome).

- `NothingLeftBehind`, `SchedulesFireOnce`, `CountIsExact`, `EarlyPausesHold`:
  `Plain => (Spec => []P)` for `NothingOutlivesCycle`, `ScheduleFiresOnce`, `CountExact` and
  `PauseHoldsBeforeOutcome`.
- `DeletesKept`: `DeletesAreKept` holds with updates as well, as long as there is no restore
  and no failing file. Its invariant is of its own: `Deleting` follows a delete that is heard
  (done, or pending with a cycle in flight that has not passed its last look), `Delaying` one
  that is not (pending, or done with nobody left to show an error), and both need `Marked`.

The inductive invariant is `PlainInv`, whose parts need each other. `Recorded` and `Calling`
say what the captured records can hold. `Marked` and `Entries` describe the one path on which
repository and snapshot part: the session is removed while an evaluation is prepared, and
`markError` may show the error of a supervisor that a delete has taken away. `Counting`
places the count between the persist of an outcome and its attach, `Scheduling` says that a
schedule still stored, or captured by an evaluation that has not begun, has not fired,
`Clearing` and `Showing` that flags and the states shown belong to the holder of `inFlight`,
and `Pausing` follows an accepted pause through the cancelled evaluation to its end. The proof
first reduces every step of an evaluation to one of eleven (`Amounts`), and shows each part
for those. `PlainInv` was checked by TLC on the instance of `cycle_outcomes` and on one with
a higher cap before it was proved.

Model-checked only: the liveness properties `CycleEnds` and `CallsReturn`.

## TerminalStream

### State and code

One live terminal and one browser, from the pty's data event to the screen. A chunk of
output is one unit of the sequence number (the code counts bytes, and the ring buffer's
head only ever stands at the end of a chunk). Server and browser are a thread each; an
action is a message, a timer or an xterm callback handled up to the next await.

| TLA+ | TypeScript |
|---|---|
| `head` | `RingBuffer.totalBytes`; `Retained(n)` is `replayFrom` not answering `too_old` |
| `bucket` | the topic's frames in the client's `StreamBuffer` |
| `up`, `down` | the WebSocket's two directions; `down` carries stream frames, control events and answers in the order they were given to the socket |
| `recovery`, `queued` | `state.running` of `queueRecovery`, by the await it is suspended at, and `state.queued` |
| `reconcileDue`, `reclaimDue` | `pendingSocketReconcile`, `pendingActivationReclaim` |
| `live`, `replayed`, `rendered`, `anchor`, `pending` | `replayCompletedRef`, `replayedSeqRef`, `latestRenderedSeqRef`, `recoveryReplayAnchorSeqRef`, `pendingReplayChunksRef` |
| `chunks`, `writes` | `outputAtom.chunks`; what `terminal.write` has taken and not yet parsed |
| `Output`, `SendStream`, `FlushStream`, `EvictTopic` | `wireEvents`, `sendStream`, `flushStream`, the LRU eviction of `enqueue` |
| `ServerReceives` with `Decision`, `Replay`, `Snapshot` | `recovery.reconcile`, `terminal.replay`, `terminal.snapshot` behind the activation gate of `dispatch` |
| `ClientReceives` | the continuations of `applyDecision` and `requestSnapshot`, the live handler, the continuity and activation handlers |
| `FinishBaseline`, `FlushHeld`, `Held` | `flushHistoricalRecovery` and `collectPendingReplayChunks` |
| `WriteLive`, `Parse` | the effect that hands chunks to xterm, and xterm's write callbacks |
| `Disconnect`, `Reconnect`, `Claim`, `Mount`, `Resume` | the socket's close and open handlers, `useActivation`, the mount effect, `notifyReason` |

Abstracted: byte sizes (the socket's free space and the moment another topic evicts this
one are nondeterministic), text, and the choice of the other topics' frames. A snapshot is
an atomic answer, because `snapshot()` waits until its mirror has parsed all that was
written and nothing runs before the answer is sent. A probe is taken to find the
connection as it is. The React effect is one step. Left out: exit and close, error
displays, command timeouts on an open connection, a snapshot buffer that is disabled, and
the recovery of hosts without coordinator. `painted` and `skipped` are history variables.
A live chunk that waits in xterm's queue when a reconcile is asked for is in the replay
as well and is painted twice; no property forbids that.

### Runs

| Run | Question | Instance |
|---|---|---|
| `stream_delivery` | is anything forgotten, is the reported position honest, does the live path ever move back, does the browser catch up (liveness) | 4 chunks, ring of 2, bucket of 2, one disconnection, one return to the foreground; 410 000 states |
| `stream_hole` | does a quiet terminal show all of its output | expected violation |

Bounds. With four chunks the ring of two loses what a reconcile was promised, the bucket
of two drops and evicts, and a drop is followed by a frame that shows the gap and by one
that continues it. One disconnection meets every state of a recovery, and the foreground
gives a recovery that no loss asks for. The violation needs three chunks. Deadlock is
allowed in `stream_delivery`: when the bounds are used up, the quiet terminal is the end.

Fairness: weak, of everything that is a running thread (server, browser, xterm, flush
timer), and of `Mount`, `Reconnect` and `Claim`: `CatchesUp` is about a connection that
comes back, while the client gives up after a maximum of attempts. Output, evictions,
disconnections and the foreground are not fair.

### What the violation shows

- `stream_hole`: chunk 1 is the snapshot baseline; while it is written, chunk 2 is dropped from
  the bucket and chunk 3 is held back. The flush writes 3 and reports position 3. The
  reconcile that `continuity_lost` asks for is answered `noop`, and 2 is never fetched.
  `HonestPosition` is what holds: `skipped` names this flush as the only way a chunk below the
  reported position can be missing.

### Proofs

From `StreamAssumption` alone, for every size of the ring and the bucket, any output and any
number of disconnections, `TerminalStream_proofs` shows `TypeCorrect`, `NothingForgotten`
(`Accounted`), `PositionHonest` (`HonestPosition`) and the action property `LivePathAdvances`
(`NeverRewinds`). What the browser can conclude from one message depends on what else is on
its way, so the inductive invariant `IInv` speaks of queues as well as of states:

- `Bounded`: each direction carries its own messages, about output that was written;
- `InOrder`: chunks held back are older than those on the socket, and these than the bucket's;
- `Tokens`: a recovery has one command or its reply on the socket, and awaits it;
- `Fresh`: an answer is as new as all the browser has or receives before it, although it
  overtakes the frames in the bucket;
- `Queued`, `Continued`: a baseline in xterm's queue belongs to the recovery that waits for it;
  at all other times what xterm was given continues what it shows;
- `Positions`: no request asks for less than what is rendered;
- `Claims`: a page without the lease will reclaim, and the server forwards output from the time on
  that it answers.

TLC checked `IInv` on the instance of `stream_delivery` first. `CatchesUp` is liveness and
model-checked only; that a quiet terminal shows everything is refuted (`stream_hole`).

## GitGate

### State and code

| TLA+ | TypeScript |
|---|---|
| `viewing`, `state[w]` | `clientWorkspaceMap`; the `WorkspaceFetchState` of a workspace with the queue of its gate |
| `fetch[w]` | the scheduler's own fetch: `granted` behind `runExclusive`, before its tests; `running` inside `runFetch`; `stale` after `stop()` or a close |
| `call[o]` | a push, pull or fetch of a user, by the await it is suspended at |
| `openTimers[w]` | the zero timers of `triggerOpenTimeFetch` |
| `RegisterViewer`, `UnregisterViewer` | the methods, reached from `workspace.activity` and from the close of a socket |
| `Acquire`, `Released`, `TakeWaiter` | `acquireWorkspaceOperation` and the function it returns |
| `OpenWorkspace`, `OpenTimer`, `Tick`, `FetchRuns`, `FetchGivesUp`, `FetchEnds` | the open-time fetch, the tick and the stretches of `fetchWorkspace` |
| `Elapse`, `CoolDown`, `BecomesDue` | what the comparisons with the clock say |

Time is what the code compares: whether anything elapsed since the last fetch, whether
the cooldown lasts, whether the next fetch is due. The workspaces of one tick do not
touch each other, so a tick is an action per workspace. A command takes the gate only
when its context carries `autoFetch` (`Contexts`): `"gated"` is the context the tests
build, `"bare"` the one the server builds.

### Runs

| Run | Question | Instance |
|---|---|---|
| `git_gate` | is the gate exclusive and never left to nobody, are viewers counted, do commands end, does the schedule of a viewed workspace stay awake (liveness) | 2 clients, 2 workspaces of which 1 can be opened, 2 commands in either context, a limit of 2 failures, 1 waiting timer; 325 780 states |
| `git_overlap` | are the network operations of the server serialised | contexts as the server builds them; expected violation |

Bounds. Two commands and the scheduler give a gate with a holder, one that waits and one
that comes. A workspace that cannot be opened is what clients may name and the server
does not know. A limit of two failures has a first failure, the blocking one, and a
success between them; the code's limit is three. Deadlock is not checked: users stop.

Fairness: git commands end (`execGit` has a timeout), timers fire, and time passes. Nobody
has to look at a workspace, open it or give a command.

`git_overlap` shows that a push runs beside a fetch: no context of the server carries the
field from which `runGitNetworkOperation` takes the gate, so its fallback is what runs.

### Proofs

From `GateAssumption` alone, for any finite set of clients and any workspaces, commands and
limits, `GitGate_proofs` shows `TypeCorrect`, `GateExcludes`, `ViewersCounted` and
`BlocksAtLimit` (a workspace is blocked exactly at the limit of failures, which no run
repeats). The inductive invariant is `IInv == Typed /\ Unblocked /\ Counted /\ Gate`.
`GateExclusive` alone is not inductive: that a release hands the gate on needs to know
that the queue holds waiting commands of this workspace, each once (`Queued`), that at
most one operation is inside (`OneHolder`) and that the mark says so (`Marked`).

## SessionTurns

### State and code

A session is the record `r`; the helpers take the record that a function of
`session/manager.ts` finds and give the one it leaves, and an action composes them in the
order of the calls.

| TLA+ | TypeScript |
|---|---|
| `state`, `awaiting`, `saw` | `session.state`, `awaitingTurnCompletion`, `sawOutputSinceTurnStart` |
| `lately`, `pending` | `recentInputEchoes`; `pendingResumeAggregation` with its timer of 75 ms |
| `detector`, `debounce` | `PtyStateDetector` and its timer of 3 or 4 s |
| `turns` | `turn_completed` events, which wake the supervisor |
| `SendInput`, `SendInputFails` | `sendInput`, around the write |
| `Output`, `OutputCollected`, `OutputAppended`, `WindowCloses` | the handler of `terminal.output` and the window in which output is kept back |
| `DebounceFires`, `Forget`, `Exit` | the detector's timer, `pruneRecentInputEchoes`, `onTerminalExit` |

What a chunk is (`counts`: it is not an echo, not a repaint, and visible; `prompt`: it ends in
the prompt) is a choice, limited by what the code can conclude from `lately`. `submit` and
`internal_submit` differ only in sessions that are not idle; `control` does what `typing`
does. `completedSynchronously` of `sendInput` cannot become true, because output is an
event of its own. A hydrated session has no detector and ends at once. `owed`,
`answered` and `collected` are history variables.

`session_turns`: 4 inputs and 5 chunks, 2 509 states. Four inputs are a submit, one that
fails or is typed, a second submit and one more behind it; five chunks are an echo, an
answer, a prompt, and two kept back. Deadlock is not checked: an ended session rests.
Fairness: both timers fire. `TurnsComplete` is the liveness property; `QuietIsIdle` and
`AwaitedIsOwed` are what the supervisor relies on.

`QuietIsIdle` names the one way a session stays running on a quiet pty: output that was
kept back resumes it after the detector had matched the prompt.

### Proofs

From `TurnsAssumption`, for any number of inputs and chunks: `TypeCorrect`, `TurnsOwed`,
`QuietSessionsIdle`, and the action property `TurnsAnswered`. The inductive invariant is
`TypeOK /\ Turn /\ QuietIsIdle`; `Turn` adds to `AwaitedIsOwed` that an awaited turn is of a
running session and that output was seen only when an answer was.

## SessionLifecycle

A record `agent[s]` describes a session and the terminal that is created with it: the
session in the manager's map, its row, metadata and token, the entry in
`terminalToSession`, the terminal with its process, and the waiter of an explicit close. Rows
and metadata are different files, written one after the other, and a write may throw.
`making`, `call` and `tear` say at which await a `session.create`, a stop or close, and the
teardown of a workspace stand.

| TLA+ | TypeScript |
|---|---|
| `CreateChecks`, `CreateRegisters`, `CreateFails`, `CreateRecords` | `session.create` with `SessionManager.create` and `TerminalManager.create` |
| `Dies`, `KillCompletes`, `ExitEvent`, `CloseSettles`, `CleanupTimer` | the process, `escalateKillWithPolling`, `pty.onExit` and what it leaves to a promise or a timer |
| `StopCall`, `CloseCall`, `CallContinues`, `CallRemoves`, `RemoveCall` | `session.stop`, `session.close`, `terminal.close`, `session.remove` |
| `TeardownBegins` ... `TeardownEnds` | `WorkspaceManager.close` and `teardown` of `server.ts` |
| `ExitEvent` with `saved` | whether `finishSession` could write the row; the event bus catches what it throws |
| `Removes` with `Removed` | how far `session.remove` comes: out of the map, its row, its metadata |
| `TeardownRefused`, `TeardownFails` | something in `teardown` throws: the close is rejected, the workspace stays open, what was deleted is deleted |
| `Halfway` with `Cleared` | how far the deletions of `server.ts` 444-451 came when one throws or the server dies |
| `Crash`, `CrashRemoving`, `CrashClosing` with `Hydrated` | the process dies between two awaits, or between two of these writes; `hydrate` runs |

`hydrate` takes only rows without an end time. It puts their sessions back as ended and writes
that state, but no end time, so that such a row (`"lost"`) is hydrated again at each start. A
row that has its end time stays on disk: its session is not in the map, `session.remove` does
not find it, and only the close of its workspace, which lists rows, deletes it.

`session_lifecycle`: two sessions, one workspace, one client, one fault (`MaxFaults` bounds
crashes and throwing writes together), 953 980 states. Two sessions are what a teardown needs
to await one while the other exits; one fault at every place shows what is left for a second
close, which the model always offers. The order in which `stopForWorkspace` stops is arbitrary;
a workspace is torn down once at a time. `starting`, `running` and `idle` are "live". Deadlock
is not checked: clients stop. Fairness: a process that is killed dies (SIGTERM is followed by
SIGKILL), exits are delivered, promises and timers run.

Left out: orderly shutdown; the supervisor's and the language servers' parts of the teardown,
but for their failure; rows that are `archived`, which the session manager never writes; terminal rows, whose
writes are taken to succeed except at creation; a write that `hydrate` itself makes and that
throws, after which the server does not start (which is one more crash).

The properties name what the code leaves behind, and prove that there is nothing else:

- `OnlyTheLiving` excepts a session whose end could not be written (`unsaved`): its row says it
  runs until the server starts again.
- `CloseLeavesNothing` excepts a session whose creation was still awaiting when the rows of its
  workspace were listed (`late`): `session.create` looks the workspace up before its awaits and
  not after, so such a session may appear in a workspace that is gone, with a terminal that runs.
- It excepts metadata whose row was deleted without it (`stray`): `session.remove` and
  `teardown` delete the row first, both find metadata through sessions or rows, and so a crash
  or a write that throws between the two leaves metadata that no later close finds. The same
  goes for metadata that `session.create` writes after its session was removed. Rows have no
  such exception: those that a close leaves half way are found by the next.

### Proofs

From `LifecycleAssumption`, for any finite set of sessions, any workspaces and callers and any
number of faults, `SessionLifecycle_proofs` shows `TypeCorrect`, `LiveSessionsHaveTerminals`,
`TokensOfTheLiving` and `ClosedWorkspacesEmpty`. The inductive invariant is
`IInv == TypeOK /\ AllSound /\ Saved /\ Recorded /\ Torn /\ NoneComes /\ Placed /\ CloseLeavesNothing`.
`Sound` is what holds of one session by itself, with the reasons why a terminal that is gone
cannot come back (`died`, `disposed`). `CloseLeavesNothing` needs to know what a teardown knows
at each of its awaits: which sessions are stored and which closes it still waits for (`Torn`);
that metadata, written or to be written, has its row unless it is stray (`Recorded`); and that
no creation is under way in a closed workspace but the late ones (`NoneComes`). The liveness
property of the run is model-checked only.

## ActivationLease

Two browser tabs, the server and the sockets between them. `tab[t]` is the page (status,
connection, number of its socket, the claim it awaits, the generation it was told),
`sock[s]` what is left of each socket with the messages in both directions, `lease` and
`generation` are the manager's.

| TLA+ | TypeScript |
|---|---|
| `Load`, `Leave`, `Opens`, `Redials`, `NoticesLoss`, `GivesUp` | the pages and `WsClient` |
| `Claim`, `ClaimTimesOut`, `ClientReceives` | `useActivation`, `handleEvent` of `providers.tsx` |
| `ServerReceives` with `Claims`, `Releases`, `Displaced` | the two commands and `ActivationManager` |
| `DoomedCloses`, `ServerLoses`, `Restart` | `revokeAndCloseClient`, `handleClose`, a new process |

The instance id lives in `sessionStorage`: a reload keeps it and a duplicated tab shares it.
A release is sent only by the clean-up of an effect, when the generation changes or the
page goes. The grace period decides whom a claim displaces, not who gets the lease.
Messages of one socket keep their order, those of two sockets of a tab do not. A probe
that times out is `GivesUp`. The close code 4001 behind a revocation is never needed,
because the revocation gates the page first.

`activation_lease`: two tabs with two connections each, two faults; 420 247 states. Two
connections are what a late claim needs, two faults a lost socket and a restart. Deadlock
is not checked: pages rest. Fairness: timers fire, both sides read, a client notices that
its server is gone.

`Settles` counts a page at the gate as settled. One order gates the only page there is: its
claim on a socket it had given up is read after the claim on the next one, and displaces
it. The property that only another tab may gate a page would be violated by it.

### Proofs

From `LeaseAssumption` (`None` is not a tab, a socket or a lease), for any number of tabs,
connections and faults, `ActivationLease_proofs` shows `TypeCorrect`, `ActiveTabOwnsLease` and
its consequence `OneDriver`: two active tabs whose sockets stand are the same tab. The
inductive invariant describes the messages on the way: the socket of a page carries only
claims that the page has made and releases of generations before the one it drives with
(`Carries`), an answer to the claim it waits for tells the truth when it is read
(`Answered`), and nothing is left on sockets that were given up (`SocketSound`). `Drives` is
`ActiveOwnsLease` by sockets, `LeaseSound` and `PageSound` say what lease and page hold by
themselves. `Settles` is model-checked only.

## LanguageServer

### State and code

One workspace, one language, one document. `LspManager` and `LspSession` suspend while a tool
is resolved (twice for Vue), while a start is pending and while a query is unanswered. At each of them the session may be disposed, by its idle timer, the runtime
mode, the workspace or the failure of another command, and its processes may exit.

| TLA+ | TypeScript |
|---|---|
| `current`, `idle` | the entry of `sessions` for the key, and whether it has a timer |
| `session[s]` | a `LspSession`: `child`, the start it awaits (`startPromise`), `summary.status` ready, the document in its store |
| `server[c]` | the processes of one start and the document they were sent last; `ended` is exited, or sent SIGTERM |
| `registered` | the root that the managed process registry knows |
| `call[k]` | a command, by its await; `due` when its start has settled |
| `Command`, `ToolMissing`, `ToolResolved`, `SessionObtained` | `ensureSession` up to `start()`, with the await of `composeVueSpecParts` between the last two |
| `EnsureReady`, `EnsureDisabled`, `EnsureFails` | behind it, and `getSessionForPath` |
| `OpStarts`, `OpUnwanted`, `Edits`, `Queries`, `OpFails`, `QueryAnswered`, `QueryTimesOut` | `openDocument`, `changeDocument`, `locationsAcrossConnections` and the other queries |
| `Spawn`, `StartAnswered`, `StartRefused`, `StartTimesOut` | `startConnection` around its await |
| `CloseDocument`, `IdleTimer`, `SetRuntimeMode`, `DisposeWorkspace` | the manager's methods of these names, `bumpActivity` |
| `MainExits`, `MateExits` | `handleChildTermination` |

Those who await a `startPromise` all continue before the next timer, message or exit:
their continuations are `due`, and every other action waits until there are none
(`Quiet`). A spawn gives a pid; that a companion's spawn throws at once is left out.
`Companion` is the Vue server with its bridge on and the TypeScript tool found: `ensureSession`
then awaits a second tool behind its only look at the runtime mode, and starts a session also
when the mode went off meanwhile (`SessionObtained`); what follows `start()` looks again and
disposes it. `abandoned` is a history variable: servers that a session lets go of without telling them,
when their companion exits (`handleChildTermination` ends the companion with the server, and
not the other way round) and when `start` follows a refused `initialize`.

### Run

`lsp_sessions`: 2 callers, 3 commands, up to 6 starts, 2 texts, a companion, one exit;
2 251 506 states, about 150 s. Three commands are an open, an edit that waits for a restart and
a query that times out beside them; `MaxStarts = 2 * MaxCalls` is never met. Deadlock is not
checked: everything ends. Fairness: promises settle or time out, and the idle timer fires; no process
has to exit and nobody has to call.

- `ProcessesAccounted`: except for the abandoned, a process that runs belongs to the session
  of the map, although a failed start disposes by key, whichever session is there, and a late
  timeout kills the server of the moment; and the registry agrees.
- `ServerInStep`: after any number of restarts and edits during them a ready server knows
  exactly the document.
- `AllEnds`: every command returns and no session is left without timer, start or caller.

What no property covers: the idle timer disposes the documents with the session; later
changes throw "LSP document not open" until the browser opens the document again.

### Proofs

From `ServerAssumption`, for any callers, texts and bounds: `TypeCorrect`, `ProcessesHeld` and
`InStep`. The inductive invariant adds to the three properties `Fresh` (sessions and
servers that were not made are untouched), `OnlyCurrent` (a session that left the map has
no child, so a late answer or timeout of it finds nothing) and `Placed` (a command between
two awaits holds the session of the map, and what is due agrees). `StepCore` is the lemma
that all steps on one session share. `AllEnds` is model-checked only.

## What is proved and what is only checked

Proved, for every value of the constants, from the named assumption of the module: the
theorems listed in `PROJECT.json`. They state every invariant and every safety property of
steps that a passing run checks, and the refinement of `EvaluationSlot`. Those of
`SupervisorOutcomes_proofs` carry the hypotheses of the run that checks their properties, in
their statements.

Only model-checked: the liveness properties (the prover has no fairness), and the three
expected violations, which are counterexamples.

## Not modelled

The models map a few thousand of some 170 000 lines. Most of the rest has no state that a
step of another actor could disturb, and a module about it would repeat it line by line:

- React views, styles, the settings and preview scenes, the editor's actions: what they
  share with the server goes through the client, the recovery and the activation, which
  are modelled.
- Work analysis, search, parsers of git and agent output, prompts, the plan tree and the
  composition of command lines: sequential functions of their input, which unit tests
  reach. Where they matter they are a choice here (does a chunk match a prompt, how does
  an evaluation end).
- File services, canvas, uploads, tasks, skills, auth, monitoring: a request and its
  response on files.
- Install managers and updates: job queues around external programs; one job each.
- Controller fencing: no command but its own two asks for a controller.
- `create()` and hydration of supervisors, the target store's renames and the binary
  waiters of the hub: hazards with a note in `PROJECT.json`, next in the plan.

Each component's status and reason is in `PROJECT.json`.
