# A verification of the 星协 (XingXie) delivery core

XingXie runs a delivery of software in stages, carried out by language-model agents under the
control of one user. A Python backend (`src/backend`) keeps everything in one SQLite
database, starts worker processes for projects and serves REST and WebSocket to an Electron
desktop (`src/frontend`). This directory holds TLA+ modules of its core, the TLC
configurations that check them, and proofs for the TLA+ proof system.

Paths below are relative to `src/backend/src/agent_platform/` unless they start with `src/`.

## What makes one step

One process at a time owns the database (`ApplicationInstanceLock`). All writes go through
`SqlAlchemyUnitOfWork` under one `asyncio.Lock`, so a write unit of work is one atomic action;
a raised `DomainError` rolls it back, so every condition a command checks is a guard. A
unit of work appends its events to `event_log`, `outbox_events` and `outbox_deliveries` in
the same transaction. Everything runs on one event loop, so what a coroutine does between two
awaits is atomic as well. What is not atomic, and what the models interleave, is the rest:

- what lies between two units of work of one command: a claim and its publication, the read and
  the write of a control command, the call of a model, the work of a tool, the files of a restore;
- coroutines against each other: several streams of a stage, two requests on one project, the
  callers, stop tasks, readers and watchdog of the workers;
- threads, which a cancelled coroutine does not stop: those of the checkpoint store exclude each
  other by a lock of the process, those of the file tools take no lock;
- a transaction and the coroutine that ran it: a cancellation that arrives during a commit is
  raised after it, so the row is written and the coroutine does not know;
- the client of a stream. Agent runs and stage deliveries execute inside an async generator their
  client reads. It can end them by a cancellation while the generator awaits something, which the
  code handles, or drop the generator while it is suspended at a `yield`, which no handler sees;
- the worker processes, whose pipes are sequences of numbered messages;
- the user's editor, and the process itself, which can end between any two steps.

## Inventory

| Component | State | Operations | Talks to | What is hard | What makes it correct |
|---|---|---|---|---|---|
| Reliable outbox (`application/events/outbox_dispatcher.py`, `infrastructure/database/outbox_store.py`, `local_audit.py`) | delivery rows with lease, token and attempt count; aggregate rows; audit projection; the dispatcher's locals | append (inside a business transaction), claim, publish, record failure, recover leases, clean up, stop | every service (rows), broker and audit (publishers) | leases outliving a process, timeout after a commit, two writers of the aggregate, attempt limits | receipt and effect together, aggregate true, no row out of reach, first attempts in the order of time, every row settled |
| Event stream (`application/events/streaming.py`, `interfaces/api/routes/events.py`, `src/frontend/electron/event-proxy.ts`) | subscriptions, bounded queues, recent ids, tickets; per socket a cursor; the proxy's cursor, socket and generation | publish, subscribe, replay, take from the queue, overflow, ticket issue and use, reconnect, observe | outbox (publisher), event log (replay), renderer | replay racing live events, overflow during replay, tickets lost, restart | the renderer gets the log of the observed workflow in order and without repetition, missing at most events of the same clock tick as a later one |
| Workflow stages and rooms (`application/workflows/service.py`, `infrastructure/database/workflow_repository.py`, `domain/workflows/`) | workflow row, one run per stage and attempt, rooms, task queue | create, start, transition, reopen, enqueue/start/complete/cancel task | governance, orchestration, agent runtime | rework while work is under way, commands naming old attempts, status and state in two rows | later stages untouched whatever attempt a command names, nobody works for a superseded attempt, the status backed by rows |
| Governance (`application/governance/service.py`, `infrastructure/database/governance_repository.py`) | artifact versions, gates, approvals, handoff packets, change requests, recovery records, execution mode | create version, evaluate gate, decide, change request, pause/resume/stop/abandon, recover, resolve | workflows, projects (checkpoint), agent and tool registries, workers | control in two transactions, late decisions, crash in any state | packets of earlier stages backed by their locked version, packets voided by rework, control hits the current run |
| Agent runtime (`application/model_runtime/runner.py`) | agent runs, model calls, registry of cancel events | create, stream, cancel, finish | rooms (messages), adapters, output store | cancel racing finish, rows left active by a crash | an answer is kept and backed by its calls, a generator that ends settles its run, one active run in an open room |
| Orchestration (`application/orchestration/service.py`) | one task per stage stream | plan, tool actions, artifact, reviews, gate | all of the above | a stream cut in the middle of a dozen commits | no planned call works twice, no error path forgets the running task, only finished work passes the gate |
| Tools and capabilities (`application/tooling/service.py`, `infrastructure/tooling/`) | capability requests, tool calls, process registry | request, decide, execute, cancel | workflows (tasks), processes, files | cancel racing completion, grants outliving their task, repeated idempotency keys | the status of a call is decided once, a grant is used only for a running task |
| Worker supervisor and IPC (`infrastructure/workers/supervisor.py`, `interfaces/ipc/`) | handles, pending requests, sequence numbers, replay window, stop tasks | start, request, heartbeat, watch, stop | worker processes | stop, reader failure and timeout racing | no process outside the registry, every stop ends, every request settled once and by its own answer |
| Projects and checkpoints (`application/projects/`, `infrastructure/projects/`) | registrations, manifests, checkpoints, detected changes, conflicts | create/open/close, preflight, checkpoint, restore, scan, resolve | files, governance | restore file by file, files changing under a scan | metadata belongs to its registration, nothing the user wrote is lost, a restore leaves no mixture, a closed project stays closed |
| Database lifecycle (`infrastructure/database/backup.py`, `maintenance.py`, `instance_lock.py`) | backups and manifests, health snapshot, lock file | backup, verify, prune, restore, run once | file system | pruning racing creation, cancelled threads | the newest valid backup survives |
| Process lifecycle (`bootstrap/lifespan.py`) | resources in order of creation | start, drain, shut down | everything | failure in the middle of startup or shutdown | what was started is stopped, the first error is kept |
| Adapters, secrets, file tools, REST routes, settings, renderer | configuration and wording | | | little state of their own | out of scope, see below |

`PROJECT.json` lists the components with their source files, and under `hazards` the places
where a test would hardly reach, with the properties that watch them.

## Modules

| Module | Models | Abstract specification | MC module | Proofs |
|---|---|---|---|---|
| `Outbox` | the reliable outbox and its dispatcher | `OutboxContract` | `MCOutbox` | `Outbox_proofs` |
| `StageDelivery` | one workflow: stages, tasks, artifacts, gates, handoffs, control, recovery | `DeliveryContract` | `MCStageDelivery` | `StageDelivery_proofs` |
| `EventStream` | broker, tickets, socket handlers and the desktop's event proxy | `FeedContract` | `MCEventStream` | `EventStream_proofs` |
| `AgentRun` | the agent runs of a room: creation, stream, calls, cancellation, control, recovery | | `MCAgentRun` | `AgentRun_proofs` |
| `ToolCalls` | tasks, tool calls and grants of a stage run | | with `Orchestration` | with `Orchestration` |
| `Orchestration` | the stage streams, from the request to the gate; extends `ToolCalls` | | `MCOrchestration` | `Orchestration_proofs` |
| `WorkerSupervisor` | worker processes, their requests, pipes, stops and watchdog | `RequestContract` | `MCWorkerSupervisor` | `WorkerSupervisor_proofs` |
| `ProjectFiles` | one directory: registration, checkpoints, restore, scans, conflicts | | `MCProjectFiles` | `ProjectFiles_proofs` |

Definitions that start with "Mutation of" are wrong variants of a definition, used to see
that the properties notice them; no action uses them.

### Outbox

| Code | Model |
|---|---|
| `outbox_deliveries` | `delivery`, `attempts`, `due` (rows in `ORDER BY next_attempt_at, created_at, id`), `born` (`created_at`), `expired` |
| `outbox_events.delivery_state`, `local_audit_events` | `aggregate`, `audit` |
| `OutboxDispatcher.run` | `pc`, `claims`, `recoveryDue`, `cleanupDue`, `stop`; one action between two awaits that write |
| `EventLogRepository.append` | `AppendEvent`; several events of one transaction are several `AppendEvent`s in a row |
| `recover_expired_leases` | a batch read outside the lock (`BeginIteration`, `BeginMaintenance`), then one `SweepOne` per claim |
| `claim_next`, `record_failure`, `cleanup_delivered` | `Claim`/`ClaimNothing`, `RecordFailure` in `SweepOne` and `FailPublish`, `CleanUp` |
| publishers | `PublishAudit` (with the timeout after the commit), `PublishWebSocket`, `PublishFails` |
| errors, shutdown, restart | `DbErrorCaught`, `DispatcherDies`, `RequestStop`, `CancelTask`, `Restart` |

Time is what the code compares with it. `created_at` is read inside the write lock; the events of
one transaction, and those of one tick of the clock, may share it, and among rows that share it
the random id of the delivery row decides. So `born` counts clock readings, an append takes the
tick of the event before or the next one, and `Selected` takes any of the first rows of one tick
(`Tied`). A row whose retry falls due joins the end of `due`: that its `next_attempt_at` may equal
the creation time of a row never tried is left out. The lease token is drawn anew with each
attempt, so the attempt number stands for it. The loop's `now`, read at its head and used a few
lines later, only makes a row fall due or expire a little later, which `RetryFallsDue` and
`LeaseExpires` may do anyway.

### StageDelivery

The variables are the columns of the tables (`status`, `mode`, `cur`, `attempt`, `state`,
`started`, `completedAt`, `room`, `tasks`, `agent`, `artifact`, `gates`, `handoff`, `recovery`)
and `ctl`, the command `control_workflow` holds between its two transactions. Each public
method of the services that writes is one action: `StartWorkflow`, `SetMode`, `TransitionStage`,
`ReopenStage`, `EnqueueTask`, `StartTask`, `CompleteTask`, `CancelTask`, `CreateAgentRun`,
`FinishAgentRun`, `CreateArtifactVersion`, `EvaluateGate`, `DecideApproval`,
`CreateChangeRequest`, `ControlRead`/`ControlWrite`/`ControlRejected`, `CrashAndRecover`,
`ResumeRecovery`, `DiscardRecovery`. `Completing`, `Finalizing`, `Voided` and `CancelTasks`
are the helpers the methods share.

Optimistic versions are left out where a client reads and sends in one breath; the one that
matters, held across the two transactions of control, is `ctl.fresh`. Clients name runs, approvals
and recovery records by id, and may name any attempt: `create_artifact_version` and the gate
commands ask whether the run is of the current stage (`OfCurrentStage`), `resolve_recovery` not
even that, and none whether it is the current attempt. `TransitionStage` takes every target the
endpoint accepts, `completed` among them. A command that reads a run whose row the `StageRun`
model refuses fails (`Readable`). `MaxAgentRooms` bounds the rooms in which formal agent runs are
created. The stage state `EXTERNAL_CONFLICT` and the workflow status `PREFLIGHT_FAILED` are never
set.

### EventStream

The broker and the ticket store hold their locks without awaiting, so their operations are atomic
and a publication cannot block or time out. Each connection has a handler that consumes the ticket
and subscribes (`Handshake`), sends pages until one is short (`ReplayPage`; `Pages` is the set of
the one page `list_after` returns), then takes from its queue (`TakeQueued`); it notices a client
that left only when it sends (`HandlerEnds`), as in the code, which never reads from the socket.
The proxy is `phase`, `socket`, `active` and `cursor`; a new generation makes the tickets of the
earlier one `stale`. `PublishNext` publishes for the first time any event of the earliest tick
that is not yet `released`, which is what `FirstAttemptsInTimeOrder` of `Outbox` shows: events of
one tick (`born`) come in any order, and the handler skips one whose id is below the last it sent.
`PublishAgain` repeats any event, as the outbox does with each websocket row, which nobody marks
delivered. The end of the desktop (`EventProxy.stop`) is left out: it ends the promise.

### AgentRun

| Code | Model |
|---|---|
| `agent_runs`, `model_calls` | `run` (status, and the phase whose output it keeps), `call` (one row of each phase) |
| the generator of `stream_run` | `at`: preparing, in the call of a phase, between two calls, failing, cancelling, done; registered in the runner unless "off" |
| the steps of the generator | `Prepare`, `OpenCall`, `EndCall`, `CancelCall`, `Finish` (with what `Ending` says), and on its error paths `PrepareFails`, `CallBreaks`, `Fail`, `FinishCancelled`; then `CloseStream` |
| cancellation events | `event`; heard by the adapter (`CancelCall`) or when the generator looks at it |
| the client | `LeaveInAwait` (a cancellation), `LeaveAtYield` (no trace), `CancelRun` and `CancelPending` (two transactions) |
| `control_workflow`, `recover_incomplete` | `ControlReads` and `ControlWrites`; `Restart`, `ResumeRecovery` |

The drafting call (P0), one call per reviewer assigned to the room and the reconciling call (P2R)
come in this order; a formal run needs every review, an informal one any. A generator that is
cancelled outside the adapter (`LeaveInAwait`, second branch) leaves the row of its call as it is
and goes on to end its run. `RunsEndSettled` names the ends that leave a run active: the client
leaves at a `yield` or while a failure is recorded, or the process restarts and the workflow is
not running. The answers speak of runs streamed at most once, because a second stream of a
finished run rewrites it (see "Observed while modelling"). Stage and room appear as what the room
takes.

### ToolCalls and Orchestration

A stage stream is a record of its place and locals. `Open` starts one; `Prepare` and `Move` take
the stage to production, `Enqueue`, `StartTask`, `CreateRun`, `StreamRun`, `RunEnds` and
`CheckPlan` get a plan, `Execute`, `ToolWorks`, `ToolFinished` and `NextSlot` carry it out,
`Complete`, `CreateVersion`, `Submit` and `EvaluateGate` deliver it; `FailTask` and
`CancelOwnTask` are its error paths; the places in `AtYield` are those where a client can drop it.
`Cancelled` is a cancellation in an await, `CancelledStarting` the one that arrives while
`start_task` commits: the row says running, the stream still holds the queued copy, and its
handler leaves the task alone. `adrift` collects the tasks that lost their stream in one of the
three ways `TaskHeld` names; a later request with the same key takes such a task up again. Calls
are named by task and slot: the slots `PlanSlots` belong to the plan, in its order, `extra` to a
client of the tool API. `at` is the coroutine that executes a call, `live` the thread or process
that works for it, so that a coroutine can be cancelled while its thread goes on writing. Control
commands hold the registry of processes and the rows in two transactions; `fresh` says whose copy
of the workflow row still has the current version.

Abstractions: whether the path guard lets a planned call pass is nondeterministic (the artifact
is always in scope); a time limit of a tool is a failure; the version of a task stands for its
status, which each change of the version changes; agent runs are those of `AgentRun`, seen from
outside. Left out: a client that completes tasks by hand or streams an agent run of the
orchestrator itself; reads, deletions and new directories; grants that expire by time.

### WorkerSupervisor

One action per stretch between two awaits. `starting` is the registry lock, held by `start` while
the process is created; the write lock of a handle is `writeLock`. Each handle has a stop task
(`stop`: its shutdown request, waiting for the exit, kill, draining, unregistering), a reader
(`reader`) and pipes (`stdin`, `stdout`); the worker takes consecutive numbers only (`lastIn`) and
exits on any other. A request waits for the write lock, drains, waits for its future, or waits for
a stop; it can be abandoned at each of these places. `watch_once` stops the overdue workers one
after the other. `MaxFaults` bounds crashes, bad frames, refused starts and failed kills together:
a process that survives every kill of a stop, which the code then also takes out of its registry,
would need more faults than one and is left out. The Windows job object and the capture of stderr
are part of a kill that may fail.

### ProjectFiles

A request is a record: what it is, where it is, the checkpoint it restores or compares with, and
the files it has read. `BeginCapture`, `CaptureFile` and `Publish` capture the project file by
file under the lock of the store; `StartRestore`, `RestoreFile`, `FinishRestore` and
`CommitRestore` restore it; `Scan` and `RecordScan` find what changed on both sides;
`CompareFile`, `ReplaceFile` and `CommitResolution` resolve a conflict. Edits from outside
(`Edit`) and the end of the process (`Crash`) come between any two of them, and `Ends` is every
refusal, failure and cancellation of a request. `fresh` are the requests that name the current
version of the project. Path 1 stands for `AGENTS.md`, which the manifest may list. Two ghosts
delimit what the program can promise: `raced`, the paths edited from outside since a request
looked at them, and `undone`, a registration cancelled at its commit. A resolution looks at the
status of its conflict only when it commits, after the file was replaced. `RestoreComplete`
compares the files with the checkpoint at the end of the writing. Left out: managed workspaces,
excluded paths and size limits, damaged snapshot files, and the rows that report external changes
which are no conflict.

## Runs

| Run | Bounds | Shows |
|---|---|---|
| `outbox_safety` | 2 events of one or two ticks, 2 consumers, 2 attempts, batch 1, 1 restart, 1 database error | types, `AuditReceipt`, `AggregateSound`, `NoStrandedRow`, `LeaseHeldWhilePublishing`, `FirstAttemptsInTimeOrder`, `OutboxContract` |
| `outbox_liveness` | 1 event, 3 attempts, 2 restarts, 2 errors | `EventuallySettled` |
| `delivery_gates` | 2 stages, 2 attempts, 2 versions, 1 approval, 2 rooms with agents | `HandoffBacked`, `LaterStagesUntouched`, `StatusBacked`, `DeliveryContract` |
| `delivery_control` | 2 stages, 2 attempts, 1 task, 1 room with agents, 1 control command, 1 crash | types, `SupersededInert`, `ControlHitsCurrentRun` |
| `event_stream` | 2 events, 2 workflows, 3 connections, queue, page, memory and ticket store of 1, 1 repeat, 1 switch, 1 disturbance | `FeedContract`, `EventuallyFed` |
| `agent_run` | a formal and an informal run, 1 stream each, 2 disturbances | types, `ActiveInOpenRoom`, `RunsEndSettled`, `AnswersBacked`, `AnswerKept` |
| `agent_cancellation` (violation) | 1 run, 1 stream, 1 disturbance | `CancellationPersists` fails, see Findings |
| `orchestration` | 2 request keys, 2 streams, 2 tasks, 2 requests, 2 disturbances | types, `RanOnce`, `TaskHeld`, `DeliveryBacked`, `CallFinal` |
| `orchestration_twins` (violation) | 1 key, 2 streams, no disturbance | `OneTaskPerKey` fails, see Findings |
| `workers` | 1 project, 2 workers, 1 request, 1 fault | `ProcessOwned`, `ClosedMeansStopped`, `StopEnds`, `DeadWorkerReleasesCallers` |
| `worker_requests` | 1 project, 2 workers, 2 requests, 1 fault | `NobodyForgotten`, `RequestContract` |
| `project_files` | 2 requests, 2 files, 3 edits, 4 checkpoints, 1 conflict, 2 registrations, where `Focus` says | types, `RegisteredBacked`, `UserContentKept`, `RestoreComplete`, `ClosedStays` |

Why these bounds. Outbox: two events give an earlier and a later one; two attempts give a
first, a last and a limit; a batch of one leaves something for the next sweep; a restart puts
a lease without an owner next to one with. Rows of different events meet only in `due`,
where two are enough to overtake. Delivery: two stages give a predecessor and a successor, two
attempts a superseded and a current one, between which commands may choose. Gates, approvals,
rework and results interleave in one run, control, crash, recovery, tasks and rework in the
other; together they are too large, and the theorems of `StageDelivery_proofs` cover what the split
leaves out. Event stream: with capacities of one, the second event overflows a
queue, needs a second page and evicts the first id from the memory, and three connections
are as many as one switch and one disturbance can leave in use.

Agent runs meet each other only in the room and in a control command, so two are enough; two
disturbances put a control command or a restart on top of a client that leaves. Larger instances
(three disturbances, or two streams of each run) hold as well and take some minutes more.
Orchestration: two streams are a request and its retry, or two requests that compete for the
task queue and the gate; two tasks let one wait for the other. Workers: two handles of one
project are an old worker that is being stopped and its successor; one fault is a crash, a bad
frame, a refused start or a kill that fails; two requests compete for the write lock and for each
other's answers, but the liveness needs only one, because each request waits by itself. Project
files: two files make a mixture possible, three edits are one before a checkpoint, one after it
and one that races, the third and fourth checkpoint are those of a scan and of a protection. This
instance is too large to enumerate, so the constraint `Focus` in `MCProjectFiles` spends the
states on the overlaps that matter and says which they are; instances without it (fewer edits
and checkpoints) hold as well. Symmetry is declared only for identities the properties
quantify over, and in no run with a liveness property.

Deadlock checking is off where a system may stop: a stopped dispatcher, an ended workflow, a
closed supervisor, a quiet feed or room, or used-up bounds.

### Fairness

`outbox_liveness` assumes that the event loop keeps running the dispatcher task (weak fairness
of `Dispatch` as a whole: the task is sequential) and that lease, retry and cleanup
deadlines pass. It does not assume that a publisher succeeds, that a stopped process starts
again, or that the task survives: `record_failure` runs outside the loop's error handler, so
`DispatcherDies` is possible, and `EventuallySettled` speaks of runs in which the task is alive
from some point on. `event_stream` assumes that the dispatcher publishes, that handlers and
the proxy's callbacks are run, and that the reconnect timer fires; each is weak fairness of one
task's step. `workers` assumes that the event loop runs its ready tasks (starts, stop tasks,
readers, callers, the watchdog), that a process is created or refused, and that the deadlines of
a stop pass; it assumes of no worker that it answers, reads its input or exits, and of no caller
that its own deadline passes. Restarts, drops, crashes and expiries are bounded, not fair.

## Proofs

Each `*_proofs` module proves its theorems for every value of the constants that the assumption
of its component allows: any number of consumers, stages, attempts, agent runs, streams, tasks,
workers, requests, files, checkpoints, connections, events, disturbances and crashes, and any
capacity or page size. Every invariant and every action property of the passing runs is proved,
and so are the four refinements. The theorem of a property `P` is named `PCorrect`; that of a
refinement, `Refinement`.

| Module | Theorems | Inductive invariants they rest on |
|---|---|---|
| `Outbox_proofs` | `TypeCorrect`, `AuditReceiptCorrect`, `AggregateSoundCorrect`, `NoStrandedRowCorrect`, `FirstAttemptsCorrect`, `LeaseHeldCorrect`, `Refinement` (of `OutboxContract`) | `RowInv`, `QueueInv` |
| `StageDelivery_proofs` | `TypeCorrect`, `ControlHitsCurrentRunCorrect`, `LaterStagesUntouchedCorrect`, `SupersededInertCorrect`, `HandoffBackedCorrect`, `StatusBackedCorrect`, `Refinement` (of `DeliveryContract`) | `RowsInv`, `GateVersions`, `HandoffInv` |
| `AgentRun_proofs` | `TypeCorrect`, `ActiveInOpenRoomCorrect`, `RunsEndSettledCorrect`, `AnswersBackedCorrect`, `AnswerKeptCorrect` | `DoneSettled`, `AnswerInv` |
| `Orchestration_proofs` | `TypeCorrect`, `CallFinalCorrect`, `RanOnceCorrect`, `DeliveryBackedCorrect`, `TaskHeldCorrect` | `TypeInv`, `CallInv`, `DeliveryInv` |
| `WorkerSupervisor_proofs` | `TypeCorrect`, `ProcessOwnedCorrect`, `ClosedMeansStoppedCorrect`, `NobodyForgottenCorrect`, `Refinement` (of `RequestContract`) | `TypeInv`, `RegistryInv`, `CallInv`, `WireInv` |
| `ProjectFiles_proofs` | `TypeCorrect`, `ClosedStaysCorrect`, `RegisteredBackedCorrect`, `UserContentKeptCorrect`, `RestoreCompleteCorrect` | `TypeInv`, `ClosedInv`, `RegistrationInv`, `FilesInv` |
| `EventStream_proofs` | `TypeCorrect`, `FeedCorrect`, `Refinement` (of `FeedContract`) | `InTime`, `FeedInv` |

### Assumptions

Only the named assumptions of the modules, which give the constants their types and say that
identities differ. No theorem restricts what clients name or post.

### Why the invariants are what they are

**Outbox.** `StepCases` first sorts the actions by what they do to the rows: append, record a
failure, deliver the audit row, clean up, claim, or leave the rows alone. Three invariants are
then inductive. `RowInv` joins `AuditReceipt` and `AggregateSound` with `FutureAbsent` (no row of
an event that is not logged) and `AuditTargeted` (a logged event that was not cleaned up has an
audit row): without them an append could find an old row, and "absent" would not tell a cleaned-up
event from an untargeted one. `QueueInv` joins `NoStrandedRow` with `DueLogged` and `DueInOrder`:
untried rows in `due` are in the order of their ticks, which an append keeps because it appends a
later or the same tick (`BornInOrder`) and a claim because it takes a row of the first tick. Rows
of one tick may stand in any order, and the property says nothing of them. The refinement
(`ContractStep`) needs `RowInv` to see that a cleaned-up event has only delivered targets and that
delivering the audit row and adding to the projection are one abstract step.

**StageDelivery.** Commands name any attempt, so the invariants separate what a superseded attempt
can still change from what it cannot. `RowsInv` joins `LaterStagesUntouched` with three facts
about rows: exactly the attempts so far exist (`Existing`), recovery records name an attempt of
the current or an earlier stage, or a superseded one (`RecoveryPast`: so no old record touches the
current attempt of a later stage), and tasks and agent runs belong to attempts that exist
(`WorkExists`). The steps are sorted by what they do to the rows: leave them aside, write one that
is not ahead, go on, go back; `SupersededInert` follows kind by kind, because only reopening makes
an attempt superseded, and it archives the room and cancels the tasks in the same transaction, and
needs that no agent run is active. A gate names a version and may be decided long after:
`GateVersions` says that if this version is still the latest one, it is still the one the gate's
own attempt produced, which is what a packet written now needs. `HandoffInv` adds where packets
are (`HandoffPlace`): of earlier stages, or of the last one. `HandoffBacked` speaks of earlier
stages only, because there no command reaches the artifact, whereas in the last stage a superseded
attempt can still submit a version over a locked one. `StatusBacked` goes over the commands that
set one of the four statuses.

**AgentRun.** `ActiveInOpenRoom` is inductive with the types: a run is created in an open room
without an active one, and nothing else moves the room without ending its run. `DoneSettled` says
that a generator that is done has ended its row, and `EndStep` goes over the ways a generator can
end. `AnswerInv` carries, for a run streamed at most once, the order of the calls through every
place of the generator: nothing streams between two calls, a review starts only after a succeeded
draft, and a row with output belongs to a generator that will not write it any more.

**Orchestration.** `TypeInv` adds that a working stream has a task and that a call that is
executed, or whose thread goes on, has one too. `CallFinal` follows from what each writer of a
call checks in its own transaction. `CallLife` gives the life of one call: before its row nothing
has worked, a thread that writes has not worked yet, a success has worked once; so a call taken up
again after a drop or a restart has either a row, and is answered from it, or no effect yet.
`DeliveryInv` ties the steps a stream has done to the succeeded calls of its task and a stream
past its plan to a succeeded task. `TaskHeld` needs no invariant of its own: `HeldOn` shows that a
step of a stream keeps what it holds, ends it or sets it adrift, case by case over the places of a
stream, `TaskMoves` that a task begins to run only in the hands of a stream or adrift, and
`LostStaysLost` that adrift stays adrift.

**WorkerSupervisor.** `RegistryInv` makes `ProcessOwned` and the closing inductive: a handle is
known to callers, readers, stop tasks or the watchdog only after its start, a stop task that has
killed has left an exited process, and a closing registry holds only handles `stop_all` waits
for. `CallInv` says that an open future is pending at a worker nobody stops yet, that listed
workers have readers, and that a reader that ended has left a stop task. `WireInv` follows a
request through the pipes: it is on one pipe, at one place, until it is served, and what comes
back or settles a future was served; a bad frame carries no answer. That is the refinement.

**ProjectFiles.** `TypeInv` adds that what a request refers to exists (`Bound`). `ClosedInv`: a
closed project has no request that names its current version, so no later transaction of a request
passes its check. `RegistrationInv` numbers the attempts to register apart: the marker and
manifest in the directory name the attempt that wrote them until it registers or cleans up.
`FilesInv` describes the files under the lock of the store: during a restore a file is the
protection's until it is written and the target's afterwards, unless it was edited from outside;
the file the agents' side of a conflict replaces is in the checkpoint just captured.

**EventStream.** `InTime` is about the clock and the dispatcher: events are committed in the order
of their ticks, and when one is released every event of an earlier tick has been. `FeedInv` speaks
of the one connection the proxy uses. Its statements allow one kind of gap: `Covers(times, e, f)`
says that `f`, not later than `e`, is of the same tick, and `Gapless` that whatever a sequence
leaves out is covered by something before or at that place. `Sent`: the events on the wire
continue the proxy's cursor in order and are gapless. `Reached`: the handler's `last_event_id` is
at least the cursor, and everything up to it is handed over, on the wire or covered. `Pending`: a
subscription holds events of its workflow only, a dropped one nothing but the sentinel.
`Following`: once live, a subscription that was not dropped holds, for every released event after
`last_event_id`, this event or one that covers it, each after the ones before it. The replay needs
no such statement: the subscription precedes it, and its last page, not full, leaves no logged
event of the workflow after `last_event_id`, so there is nothing yet for the queue to hold.
`SendingKeepsSent` is the lemma the replay and the live queue share.

### Only model-checked

- Liveness, because the prover does not reason about fairness: `EventuallySettled`,
  `EventuallyFed`, `StopEnds` and `DeadWorkerReleasesCallers`.
- `OneTaskPerKey` and `CancellationPersists`, which the code violates.

No proof needs induction over data, which is beyond the prover too: pages, sorted paths and lists
of conflicts are described by what they contain instead of being computed recursively, and
sequences are handled through the library's theorems about `Head`, `Tail`, `Append` and `SubSeq`.

## Findings

`orchestration_twins` ends with a counterexample. `stream_stage` looks for the task of its
request key in one transaction and queues it in a later one
(`application/orchestration/service.py:148`); `enqueue_task` does not look again, and no
constraint of the table names the key. A retry that arrives while the first request is still
preparing queues a second task, although
`src/docs/backend/BACKEND-ORCHESTRATION-RELEASE-BLOCKER-v1.md:118` says that one request key
stands for one task. The second task stays queued and blocks the gate of the stage, and later
requests with that key end in "orchestration request has duplicate tasks". Keys of tool calls
are per task, so what each task does is still done once (`RanOnce`), but a second task that is
started later repeats the work of the first.

`agent_cancellation` ends with a counterexample of seven states. Only a cancellation that arrives
while the adapter streams reaches `_cancel_call`. One that arrives while the secret is resolved or
the call is completed (`application/model_runtime/runner.py:652` and `:712`) is handled by
`stream_run`, which finishes the run as cancelled, and the row of its call stays `streaming`,
although `src/docs/backend/BACKEND-STAGE4-TRACEABILITY-v1.md:27` says that disconnects and
cancellations persist `cancelled` for the active call and run.

### Observed while modelling

The models do what the code does, so the following behaviours are in them. No run is devoted to
them; the properties are stated so that they hold all the same, or name the exception.

- The websocket publisher throws its lease away and nobody marks its row delivered: each such row
  is retried to the limit and ends as a dead letter, and its event is never cleaned up
  (`infrastructure/events/websocket_publisher.py:27`). `EventuallySettled` counts a dead letter as
  settled.
- Events that share a tick of the clock, as those of one transaction may, are published in the
  order of random ids (`infrastructure/database/repositories.py:77`), and a socket that has sent
  the higher event id skips the lower one (`interfaces/api/routes/events.py:105`): the renderer
  never gets it, because its cursor is past it. A contract without this exception is violated
  within ten steps. The note on deduplication at `src/docs/backend/BACKEND-STAGE3-TRACEABILITY-v1.md:26`
  speaks of overlapping events only.
- The transition endpoint completes a stage without gate, approval or handoff packet
  (`infrastructure/database/workflow_repository.py:208`); `DeliveryContract` has `Leave` for it.
- Commands on superseded attempts of the current stage succeed
  (`application/governance/service.py:142`, `:812`, `:759`): they change that attempt, although
  `src/docs/backend/BACKEND-STAGE3-TRACEABILITY-v1.md:23` has reopen preserve prior history; a
  gate or recovery of an old attempt sets the status of the workflow, so it may end a pause or an
  interruption; a superseded attempt that was under way when it was superseded can be completed in
  place of the current one, and one of the last stage can submit a version over the locked one of
  the current attempt.
- A recovery record of an attempt completed since gives it a state other than completed while
  `completed_at` stays set: from then on `StageRun` refuses the row
  (`domain/workflows/models.py:115`) and every command that reads it fails.
- A run interrupted while `ready` resumes as `discussing` without `started_at`, and its completion
  then fails (`application/governance/service.py:774`).
- `start_task` cancelled at its commit leaves the task running without a stream
  (`application/orchestration/service.py:168`, `infrastructure/database/unit_of_work.py:79`); only
  a request with the same key, a cancel or a control command ends it. In the same way a tool call
  whose row has just been inserted stays running (`application/tooling/service.py:315`).
- A file that is edited between the comparison of its hash and its replacement is overwritten
  (`infrastructure/tooling/filesystem.py:45`); the model's `FileWritten` does both at once.
- An agent run streamed a second time after it succeeded is rewritten as failed
  (`application/model_runtime/runner.py:438`); `AnswerKept` speaks of runs streamed once.
- A client that disconnects while the generator is suspended at a `yield` leaves the run and its
  call active (`application/model_runtime/runner.py:463`), although
  `src/docs/backend/BACKEND-STAGE4-TRACEABILITY-v1.md:27` has disconnects persist a cancelled
  state; `RunsEndSettled` excepts this end.
- The recovery after a restart passes over paused workflows, whose runs stay active.
- A project registration that is cancelled just at its commit runs the cleanup of a failed one and
  removes the metadata of a registered project (`application/projects/service.py:227`), the ghost
  `undone`; one that is cancelled while the metadata is created leaves it behind
  (`application/projects/service.py:178`), and the directory is refused from then on.

## Not modelled, and why

- Model adapters, prompts and secrets: calls into HTTP and the operating system whose outcome
  would be an oracle; `AgentRun` has their success, failure and cancellation.
- Path strings, links and deletions of the file tools: data. The decision of the path guard and
  the conditional write are in `ToolCalls`.
- Backup and maintenance of the database: file copies behind one lock; planned.
- REST error bodies, authentication, settings and logging: static tables and wording.
- The renderer: user interface. The sidecar process of the desktop: planned.
- The contents of messages, artifacts and events: no property depends on them. An artifact
  changed on disk appears as a gate that may fail at any time.
- In the modelled parts: the choice of the one active workflow of a project, managed project
  workspaces, grants that expire by time, the polling replay endpoint, a socket whose `accept`
  fails, and the end of the desktop's event proxy.

## Plan

1. Liveness arguments in the small: the safety half of `StopEnds` and `EventuallySettled` (a
   measure no step increases) can be stated as action properties and proved.
2. A proved link between `Outbox` and `EventStream`: `PublishNext` assumes what
   `FirstAttemptsInTimeOrder` states, and that the first attempt of an event is its publication.
3. Models of several workflows of one project, of backups and retention, of the sidecar and of
   the order of startup and shutdown.

## Checking it

    tlc -workers 2 -config MCOutboxSafety.cfg MCOutbox
    tlapm Outbox_proofs.tla

and likewise for each run in `PROJECT.json` and for each `*_proofs.tla`.
