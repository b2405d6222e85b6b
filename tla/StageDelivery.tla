---------------------------- MODULE StageDelivery ----------------------------
(***************************************************************************)
(* One workflow of the platform: the stages of a delivery, their attempts  *)
(* (stage runs) and rooms, the task queue, formal agent runs, artifact     *)
(* versions, quality gates and approvals, handoff packets, two-phase       *)
(* control (pause, resume, stop, abandon) and crash recovery.              *)
(*                                                                         *)
(* Every command runs in one write transaction under the database write    *)
(* lock, so it is one action; a raised DomainError rolls it back, so the   *)
(* conditions it checks are guards.  control_workflow alone reads in one   *)
(* transaction and writes in another.  Optimistic versions a client can    *)
(* re-read are left out; the version control_workflow holds across its two *)
(* transactions is kept as ctl.fresh, cleared by whatever bumps the row.   *)
(***************************************************************************)
EXTENDS Naturals, Sequences, FiniteSets

CONSTANTS
    NumStages,         \* length of STAGE_ORDER
    MaxAttempts,       \* bound on attempts of a stage
    MaxTasks,          \* bound on tasks enqueued
    MaxVersions,       \* bound on versions of a stage's artifact
    MaxGates,          \* bound on gates that asked for approval
    MaxAgentRooms,     \* bound on rooms with formal agent runs
    MaxControls,       \* bound on control commands and changes of the mode
    MaxCrashes,        \* bound on process restarts
    WarnStages         \* stages whose project has no registered test command

ASSUME DeliveryAssumption ==
    /\ NumStages \in Nat \ {0} /\ MaxAttempts \in Nat \ {0}
    /\ MaxTasks \in Nat /\ MaxVersions \in Nat /\ MaxGates \in Nat
    /\ MaxAgentRooms \in Nat /\ MaxControls \in Nat /\ MaxCrashes \in Nat
    /\ WarnStages \subseteq 1..NumStages

VARIABLES
    status,      \* workflows.status
    mode,        \* workflows.execution_mode
    cur,         \* workflows.current_stage
    attempt,     \* highest attempt of each stage
    state,       \* stage_runs.state of each run, "none" if there is no row
    started,     \* runs with started_at
    completedAt, \* runs with completed_at
    room,        \* rooms.status of each run's room
    tasks,       \* workflow_tasks in creation order
    agent,       \* status of the latest formal agent run of each room
    artifact,    \* latest artifact version of each stage
    gates,       \* gates that asked for approval, with their approval
    handoff,     \* handoff packet of each run
    recovery,    \* recovery_records in creation order
    ctl,         \* the control command between its two transactions
    controls     \* control commands and changes of the mode so far

stageVars == <<status, cur, state, started, completedAt, room>>
vars == <<stageVars, mode, attempt, tasks, agent, artifact, gates, handoff, recovery,
          ctl, controls>>

Stages == 1..NumStages
Runs == Stages \X (1..MaxAttempts)
Statuses == {"created", "running", "waiting_user", "warning_blocked", "paused",
             "interrupted", "failed", "stopped", "abandoned", "completed"}
StageStates == {"none", "locked", "ready", "discussing", "producing", "p2r_reviewing",
                "quality_checking", "waiting_approval", "handoff_ready", "completed",
                "warning_blocked", "needs_fix", "interrupted", "failed", "cancelled",
                "abandoned"}
Actions == {"pause", "resume", "stop", "abandon"}

\* The rows of tasks, artifacts, gates and recoveries, and a command under way.
TaskRecords == [run : Runs, status : {"queued", "running", "ended"}]
ArtifactRecords == [version : 0..MaxVersions, attempt : 0..MaxAttempts,
                    status : {"none", "draft", "locked", "invalidated"}]
GateRecords == [run : Runs, version : 0..MaxVersions, open : BOOLEAN]
RecoveryRecords == [run : Runs, pending : BOOLEAN]
ControlRecords == [action : Actions \cup {"none"}, run : Runs, fresh : BOOLEAN]
NoControl == [action |-> "none", run |-> <<1, 1>>, fresh |-> FALSE]

Current(s) == <<s, attempt[s]>>
CurrentRun == Current(cur)
IsCurrent(r) == r = Current(r[1])

\* A row the StageRun model refuses makes the command that reads it fail.
Readable(r) == r \in completedAt => r \in started /\ state[r] = "completed"

\* Commands name stage runs, approvals and recovery records by id.  Most look
\* only whether the run belongs to the current stage: ids of superseded
\* attempts, which the history endpoint lists, are accepted.
OfCurrentStage(r) == r[1] = cur /\ Readable(r)

-----------------------------------------------------------------------------
\* domain/workflows/state_machine.py.  The stage state EXTERNAL_CONFLICT and the
\* workflow status PREFLIGHT_FAILED are declared, but no code ever sets them.
AllowedTransitions ==
    {<<"ready", "discussing">>, <<"discussing", "producing">>,
     <<"producing", "p2r_reviewing">>, <<"p2r_reviewing", "quality_checking">>,
     <<"quality_checking", "waiting_approval">>, <<"quality_checking", "warning_blocked">>,
     <<"quality_checking", "needs_fix">>, <<"waiting_approval", "handoff_ready">>,
     <<"waiting_approval", "needs_fix">>, <<"handoff_ready", "completed">>,
     <<"needs_fix", "producing">>, <<"warning_blocked", "discussing">>,
     <<"interrupted", "discussing">>}
Ended == {"failed", "cancelled", "abandoned"}
Cancellable == StageStates \ (Ended \cup {"none", "locked", "completed"})
Transition(from, to) ==
    <<from, to>> \in AllowedTransitions \/ (to \in Ended /\ from \in Cancellable)

\* Mutation of Bump: a write that forgets the version.
BumpForgotten == UNCHANGED ctl

\* Every write of the workflow row bumps its version.
Bump == ctl' = [ctl EXCEPT !.fresh = FALSE]

\* Rows of active agent runs are cancelled; the coroutine that executes such
\* a run still has its own end to write.  A run lost in a restart has none.
AgentActive(r) == agent[r] \in {"active", "lost"}
CancelAgents == agent' = [r \in Runs |-> CASE agent[r] = "active" -> "cancelling"
                                           [] agent[r] = "lost" -> "failed"
                                           [] OTHER -> agent[r]]

\* Mutation of CancelTasks: queued tasks are always left in the queue.
CancelRunningTasks(in, runs) ==
    tasks' = [i \in DOMAIN tasks |->
        IF tasks[i].status = "running" /\ tasks[i].run \in runs
        THEN [tasks[i] EXCEPT !.status = "ended"] ELSE tasks[i]]

CancelTasks(in, runs) ==
    tasks' = [i \in DOMAIN tasks |->
        IF tasks[i].status \in in /\ tasks[i].run \in runs
        THEN [tasks[i] EXCEPT !.status = "ended"] ELSE tasks[i]]
OpenTasks == {i \in DOMAIN tasks : tasks[i].status \in {"queued", "running"}}
RunningTasks == {i \in DOMAIN tasks : tasks[i].status = "running"}

\* The StageRun model refuses completed_at without started_at, and the
\* successor must still be locked: either error rolls the transaction back.
Completable(r) ==
    /\ r \in started
    /\ r[1] < NumStages => state[Current(r[1] + 1)] = "locked"

\* Mutation of Completing: the current stage also advances past the last one.
CompletingPastTheEnd(r) ==
    /\ Completable(r)
    /\ state' = [q \in Runs |-> IF q = r THEN "completed"
                                ELSE IF r[1] < NumStages /\ q = Current(r[1] + 1) THEN "ready"
                                ELSE state[q]]
    /\ status' = IF r[1] = NumStages THEN "completed" ELSE "running"
    /\ cur' = r[1] + 1
    /\ completedAt' = completedAt \cup {r}
    /\ room' = [room EXCEPT ![r] = "consultation"]
    /\ UNCHANGED started

\* transition_stage to COMPLETED: the room turns to consultation and the
\* successor is unlocked, or the workflow ends.
Completing(r) ==
    /\ Completable(r)
    /\ state' = [q \in Runs |-> IF q = r THEN "completed"
                                ELSE IF r[1] < NumStages /\ q = Current(r[1] + 1) THEN "ready"
                                ELSE state[q]]
    /\ status' = IF r[1] = NumStages THEN "completed" ELSE "running"
    /\ cur' = IF r[1] = NumStages THEN cur ELSE r[1] + 1
    /\ completedAt' = completedAt \cup {r}
    /\ room' = [room EXCEPT ![r] = "consultation"]
    /\ UNCHANGED started

\* _finalize_gate: the gate's versions are locked, the handoff written and
\* the run completed through handoff_ready, all in the caller's transaction.
Finalizing(r, v) ==
    /\ artifact[r[1]].version = v /\ artifact[r[1]].status = "draft"
    /\ artifact' = [artifact EXCEPT ![r[1]].status = "locked"]
    /\ handoff' = [handoff EXCEPT ![r] = "active"]
    /\ Completing(r)

\* Mutation of Rejecting: the workflow goes on waiting for the user.
RejectingSilently(r) ==
    /\ state' = [state EXCEPT ![r] = "needs_fix"]
    /\ UNCHANGED <<status, cur, started, completedAt, room, artifact, handoff>>

\* The rejecting branch of decide_gate_approval: back to rework.
Rejecting(r) ==
    /\ state' = [state EXCEPT ![r] = "needs_fix"]
    /\ status' = "running"
    /\ UNCHANGED <<cur, started, completedAt, room, artifact, handoff>>

\* What invalidation leaves of the stages in S.
Voided(S) ==
    /\ artifact' = [t \in Stages |->
           IF t \in S /\ artifact[t].status \in {"draft", "locked"}
           THEN [artifact[t] EXCEPT !.status = "invalidated"] ELSE artifact[t]]
    /\ handoff' = [r \in Runs |->
           IF r[1] \in S /\ handoff[r] = "active" THEN "invalidated" ELSE handoff[r]]

\* Mutations of InvalidateFrom: without the stage itself, without later ones.
InvalidateAfter(s) == Voided(s + 1 .. NumStages)
InvalidateOnly(s) == Voided({s})

\* Artifact versions and handoffs of stage s and all later ones are void.
InvalidateFrom(s) == Voided(s..NumStages)

-----------------------------------------------------------------------------
\* create_workflow
Init ==
    /\ status = "created"
    /\ mode \in {"manual", "autonomous"}
    /\ cur = 1
    /\ attempt = [s \in Stages |-> 1]
    /\ state = [r \in Runs |-> IF r[2] > 1 THEN "none"
                               ELSE IF r[1] = 1 THEN "ready" ELSE "locked"]
    /\ started = {} /\ completedAt = {}
    /\ room = [r \in Runs |-> IF r[2] = 1 THEN "active" ELSE "none"]
    /\ tasks = <<>>
    /\ agent = [r \in Runs |-> "none"]
    /\ artifact = [s \in Stages |-> [version |-> 0, attempt |-> 0, status |-> "none"]]
    /\ gates = <<>>
    /\ handoff = [r \in Runs |-> "none"]
    /\ recovery = <<>>
    /\ ctl = NoControl
    /\ controls = 0

StartWorkflow ==
    /\ status = "created"
    /\ status' = "running"
    /\ Bump
    /\ UNCHANGED <<mode, cur, attempt, state, started, completedAt, room, tasks, agent,
                   artifact, gates, handoff, recovery, controls>>

SetMode(m) ==
    /\ m # mode
    /\ status \notin {"completed", "stopped", "abandoned", "failed"}
    /\ controls < MaxControls
    /\ mode' = m
    /\ controls' = controls + 1
    /\ Bump
    /\ UNCHANGED <<stageVars, attempt, tasks, agent, artifact, gates, handoff, recovery>>

\* POST .../transition on the current run of the current stage; the endpoint
\* accepts every target, also "completed".
TransitionStage(to) ==
    LET r == CurrentRun
        resumesWarning == /\ status = "warning_blocked" /\ state[r] = "warning_blocked"
                          /\ to = "discussing"
    IN /\ ~AgentActive(r)
       /\ Transition(state[r], to)
       /\ Readable(r)
       /\ status = "running" \/ resumesWarning
       /\ \/ /\ to = "completed"
             /\ Completing(r)
          \/ /\ to \in Ended
             /\ state' = [state EXCEPT ![r] = to]
             /\ status' = IF to = "abandoned" THEN "abandoned" ELSE "failed"
             /\ room' = [room EXCEPT ![r] = "archived"]
             /\ UNCHANGED <<cur, started, completedAt>>
          \/ /\ to \notin Ended \cup {"completed"}
             /\ state' = [state EXCEPT ![r] = to]
             /\ started' = IF state[r] = "ready" THEN started \cup {r} ELSE started
             /\ status' = "running"
             /\ UNCHANGED <<cur, completedAt, room>>
       /\ Bump
       /\ UNCHANGED <<mode, attempt, tasks, agent, artifact, gates, handoff, recovery,
                      controls>>

\* reopen_stage: new attempts of the completed stage and of all later ones,
\* old rooms archived, their work cancelled, their results invalidated.
ReopenStage(s) ==
    LET affected == {Current(t) : t \in s..NumStages}
    IN /\ state[Current(s)] = "completed"
       /\ \A t \in s..NumStages : attempt[t] < MaxAttempts
       /\ \A r \in affected : ~AgentActive(r)
       /\ \A t \in Stages : Readable(Current(t))
       /\ attempt' = [t \in Stages |-> IF t >= s THEN attempt[t] + 1 ELSE attempt[t]]
       /\ state' = [r \in Runs |-> IF r[1] >= s /\ r[2] = attempt[r[1]] + 1
                                   THEN IF r[1] = s THEN "ready" ELSE "locked"
                                   ELSE state[r]]
       /\ room' = [r \in Runs |-> IF r \in affected THEN "archived"
                                  ELSE IF r[1] >= s /\ r[2] = attempt[r[1]] + 1 THEN "active"
                                  ELSE room[r]]
       /\ CancelTasks({"queued", "running"}, affected)
       /\ status' = "running"
       /\ cur' = s
       /\ InvalidateFrom(s)
       /\ Bump
       /\ UNCHANGED <<mode, started, completedAt, agent, gates, recovery, controls>>

-----------------------------------------------------------------------------
EnqueueTask(r) ==
    /\ IsCurrent(r) /\ Readable(r)
    /\ status = "running" /\ room[r] = "active"
    /\ state[r] \notin Ended \cup {"locked", "completed"}
    /\ Len(tasks) < MaxTasks
    /\ tasks' = Append(tasks, [run |-> r, status |-> "queued"])
    /\ UNCHANGED <<stageVars, mode, attempt, agent, artifact, gates, handoff, recovery, ctl,
                   controls>>

\* No check of the workflow status: only the queue decides.
StartTask(i) ==
    /\ tasks[i].status = "queued"
    /\ RunningTasks = {}
    /\ \A j \in DOMAIN tasks : tasks[j].status = "queued" => i <= j
    /\ tasks' = [tasks EXCEPT ![i].status = "running"]
    /\ UNCHANGED <<stageVars, mode, attempt, agent, artifact, gates, handoff, recovery, ctl,
                   controls>>

CompleteTask(i) ==
    /\ tasks[i].status = "running"
    /\ tasks' = [tasks EXCEPT ![i].status = "ended"]
    /\ UNCHANGED <<stageVars, mode, attempt, agent, artifact, gates, handoff, recovery, ctl,
                   controls>>

CancelTask(i) ==
    /\ tasks[i].status \in {"queued", "running"}
    /\ tasks' = [tasks EXCEPT ![i].status = "ended"]
    /\ UNCHANGED <<stageVars, mode, attempt, agent, artifact, gates, handoff, recovery, ctl,
                   controls>>

\* A formal run with both reviewers; again no check of the workflow status.
CreateAgentRun(r) ==
    /\ IsCurrent(r) /\ Readable(r)
    /\ room[r] = "active"
    /\ state[r] \in {"discussing", "producing", "p2r_reviewing"}
    /\ ~AgentActive(r)
    /\ Cardinality({q \in Runs : agent[q] # "none"} \cup {r}) <= MaxAgentRooms
    /\ agent' = [agent EXCEPT ![r] = "active"]
    /\ UNCHANGED <<stageVars, mode, attempt, tasks, artifact, gates, handoff, recovery, ctl,
                   controls>>

\* _finish_run writes its outcome over whatever status the row has by now;
\* a success first appends its message, which needs a room under discussion.
FinishAgentRun(r, outcome) ==
    /\ agent[r] \in {"active", "cancelling"}
    /\ outcome = "succeeded" => room[r] = "active"
    /\ agent' = [agent EXCEPT ![r] = outcome]
    /\ UNCHANGED <<stageVars, mode, attempt, tasks, artifact, gates, handoff, recovery, ctl,
                   controls>>

\* create_artifact_version with content that differs from the latest version
\* (equal content of a draft or locked version is answered with that version).
CreateArtifactVersion(r) ==
    /\ OfCurrentStage(r)
    /\ state[r] \in {"producing", "p2r_reviewing", "quality_checking", "needs_fix"}
    /\ artifact[cur].version < MaxVersions
    /\ artifact' = [artifact EXCEPT ![cur] =
           [version |-> @.version + 1, attempt |-> r[2], status |-> "draft"]]
    /\ UNCHANGED <<stageVars, mode, attempt, tasks, agent, gates, handoff, recovery, ctl,
                   controls>>

\* No issue of severity error: the run's own draft, a successful formal
\* agent run and no open task.  An artifact changed on disk or an open file
\* conflict may still fail the gate.
GateClean(r) ==
    /\ artifact[r[1]].status = "draft" /\ artifact[r[1]].attempt = r[2]
    /\ agent[r] = "succeeded"
    /\ OpenTasks = {}

Verdicts(r) ==
    {"fail"} \cup (IF GateClean(r) THEN {IF r[1] \in WarnStages THEN "warning" ELSE "pass"}
                   ELSE {})

EvaluateGate(r, verdict) ==
    /\ OfCurrentStage(r)
    /\ state[r] = "quality_checking"
    /\ verdict \in Verdicts(r)
    /\ \/ /\ mode = "manual" /\ verdict # "fail"
          /\ status = "running"
          /\ Len(gates) < MaxGates
          /\ gates' = Append(gates, [run |-> r, version |-> artifact[cur].version,
                                     open |-> TRUE])
          /\ state' = [state EXCEPT ![r] = "waiting_approval"]
          /\ status' = "waiting_user"
          /\ UNCHANGED <<cur, started, completedAt, room, artifact, handoff>>
       \/ /\ mode = "autonomous" /\ verdict = "pass"
          /\ status = "running"
          /\ Finalizing(r, artifact[cur].version)
          /\ UNCHANGED gates
       \/ /\ verdict = "fail" \/ (mode = "autonomous" /\ verdict = "warning")
          /\ state' = [state EXCEPT ![r] =
                 IF verdict = "warning" THEN "warning_blocked" ELSE "needs_fix"]
          /\ status' = IF verdict = "warning" THEN "warning_blocked" ELSE "running"
          /\ UNCHANGED <<cur, started, completedAt, room, artifact, handoff, gates>>
    /\ Bump
    /\ UNCHANGED <<mode, attempt, tasks, agent, recovery, controls>>

\* decide_gate_approval: checks the run's state, not the workflow's status.
DecideApproval(g, approved) ==
    LET r == gates[g].run
    IN /\ gates[g].open
       /\ OfCurrentStage(r)
       /\ state[r] = "waiting_approval"
       /\ gates' = [gates EXCEPT ![g].open = FALSE]
       /\ IF approved
          THEN Finalizing(r, gates[g].version)
          ELSE Rejecting(r)
       /\ Bump
       /\ UNCHANGED <<mode, attempt, tasks, agent, recovery, controls>>

CreateChangeRequest(s) ==
    /\ s <= cur /\ Readable(CurrentRun)
    /\ InvalidateFrom(s)
    /\ UNCHANGED <<stageVars, mode, attempt, tasks, agent, gates, recovery, ctl, controls>>

-----------------------------------------------------------------------------
\* First transaction of control_workflow: the version and the current run are
\* read; registries and the worker are then told to cancel.
ControlRead(action) ==
    /\ ctl.action = "none"
    /\ controls < MaxControls
    /\ Readable(CurrentRun)
    /\ ctl' = [action |-> action, run |-> CurrentRun, fresh |-> TRUE]
    /\ controls' = controls + 1
    /\ UNCHANGED <<stageVars, mode, attempt, tasks, agent, artifact, gates, handoff, recovery>>

ControlApplies ==
    CASE ctl.action = "pause" -> status \in {"running", "waiting_user", "warning_blocked"}
      [] ctl.action = "resume" -> status = "paused"
      [] OTHER -> status \notin {"completed", "stopped", "abandoned"}

ControlAllowed == ctl.fresh /\ ControlApplies

\* Second transaction, on the run read in the first.
ControlWrite ==
    /\ ctl.action # "none" /\ ControlAllowed
    /\ CASE ctl.action = "pause" ->
                /\ status' = "paused"
                /\ CancelTasks({"running"}, Runs)
                /\ UNCHANGED <<state, room>>
         [] ctl.action = "resume" ->
                /\ status' = "running"
                /\ UNCHANGED <<tasks, state, room>>
         [] OTHER ->
                /\ status' = IF ctl.action = "stop" THEN "stopped" ELSE "abandoned"
                /\ CancelTasks({"queued", "running"}, Runs)
                /\ state' = [state EXCEPT ![ctl.run] =
                       IF ctl.action = "stop" THEN "cancelled" ELSE "abandoned"]
                /\ room' = [room EXCEPT ![ctl.run] = "archived"]
    /\ CancelAgents
    /\ ctl' = NoControl
    /\ UNCHANGED <<mode, cur, attempt, started, completedAt, artifact, gates, handoff,
                   recovery, controls>>

\* Version conflict or a status the action does not apply to.
ControlRejected ==
    /\ ctl.action # "none" /\ ~ControlAllowed
    /\ ctl' = NoControl
    /\ UNCHANGED <<stageVars, mode, attempt, tasks, agent, artifact, gates, handoff, recovery,
                   controls>>

\* Rows of tool calls may still be running when a task was started once:
\* the end of a task does not end its calls.
MayHaveToolCalls == \E i \in DOMAIN tasks : tasks[i].status # "queued"

\* The process restarts (recover_incomplete_workflows runs before any
\* request).  A workflow that is not active keeps rows of agent runs nobody
\* executes any more.
CrashAndRecover(toolCalls) ==
    LET interrupted ==
            /\ status \in {"running", "waiting_user", "warning_blocked"}
            /\ RunningTasks # {} \/ toolCalls \/ \E r \in Runs : AgentActive(r)
    IN /\ Len(recovery) < MaxCrashes
       /\ toolCalls => MayHaveToolCalls
       /\ IF interrupted
          THEN /\ CancelTasks({"running"}, Runs)
               /\ agent' = [r \in Runs |-> IF AgentActive(r) \/ agent[r] = "cancelling"
                                          THEN "failed" ELSE agent[r]]
               /\ status' = "interrupted"
               /\ state' = [state EXCEPT ![CurrentRun] = "interrupted"]
               /\ recovery' = Append(recovery, [run |-> CurrentRun, pending |-> TRUE])
          ELSE /\ agent' = [r \in Runs |-> CASE agent[r] = "active" -> "lost"
                                               [] agent[r] = "cancelling" -> "failed"
                                               [] OTHER -> agent[r]]
               /\ UNCHANGED <<tasks, status, state, recovery>>
       /\ ctl' = NoControl
       /\ UNCHANGED <<mode, cur, attempt, started, completedAt, room, artifact, gates,
                      handoff, controls>>

\* resolve_recovery(resume=True)
ResumeRecovery(i) ==
    /\ recovery[i].pending
    /\ status = "interrupted"
    /\ status' = "running"
    /\ state' = [state EXCEPT ![recovery[i].run] = "discussing"]
    /\ recovery' = [recovery EXCEPT ![i].pending = FALSE]
    /\ Bump
    /\ UNCHANGED <<mode, cur, attempt, started, completedAt, room, tasks, agent, artifact,
                   gates, handoff, controls>>

\* resolve_recovery(resume=False): whatever the workflow is doing by now.
DiscardRecovery(i) ==
    /\ recovery[i].pending
    /\ status' = "stopped"
    /\ state' = [state EXCEPT ![recovery[i].run] = "cancelled"]
    /\ room' = [room EXCEPT ![recovery[i].run] = "archived"]
    /\ recovery' = [recovery EXCEPT ![i].pending = FALSE]
    /\ Bump
    /\ UNCHANGED <<mode, cur, attempt, started, completedAt, tasks, agent, artifact, gates,
                   handoff, controls>>

-----------------------------------------------------------------------------
Next ==
    \/ StartWorkflow
    \/ \E m \in {"manual", "autonomous"} : SetMode(m)
    \/ \E to \in StageStates \ {"none"} : TransitionStage(to)
    \/ \E s \in Stages : ReopenStage(s)
    \/ \E r \in Runs : EnqueueTask(r)
    \/ \E i \in DOMAIN tasks : StartTask(i) \/ CompleteTask(i) \/ CancelTask(i)
    \/ \E r \in Runs : CreateAgentRun(r)
    \/ \E r \in Runs, o \in {"succeeded", "failed"} : FinishAgentRun(r, o)
    \/ \E r \in Runs : CreateArtifactVersion(r)
    \/ \E r \in Runs, v \in {"fail", "warning", "pass"} : EvaluateGate(r, v)
    \/ \E g \in DOMAIN gates, approved \in BOOLEAN : DecideApproval(g, approved)
    \/ \E s \in Stages : CreateChangeRequest(s)
    \/ \E a \in Actions : ControlRead(a)
    \/ ControlWrite
    \/ ControlRejected
    \/ \E toolCalls \in BOOLEAN : CrashAndRecover(toolCalls)
    \/ \E i \in DOMAIN recovery : ResumeRecovery(i) \/ DiscardRecovery(i)

Spec == Init /\ [][Next]_vars

-----------------------------------------------------------------------------
TypeOK ==
    /\ status \in Statuses
    /\ mode \in {"manual", "autonomous"}
    /\ cur \in Stages
    /\ attempt \in [Stages -> 1..MaxAttempts]
    /\ state \in [Runs -> StageStates]
    /\ started \in SUBSET Runs
    /\ completedAt \in SUBSET Runs
    /\ room \in [Runs -> {"none", "active", "consultation", "archived"}]
    /\ tasks \in Seq(TaskRecords)
    /\ agent \in [Runs -> {"none", "active", "lost", "cancelling", "succeeded", "failed"}]
    /\ artifact \in [Stages -> ArtifactRecords]
    /\ gates \in Seq(GateRecords)
    /\ handoff \in [Runs -> {"none", "active", "invalidated"}]
    /\ recovery \in Seq(RecoveryRecords)
    /\ ctl \in ControlRecords
    /\ controls \in 0..MaxControls

\* Rework leaves nothing valid behind: of the stages after the current one
\* the current attempt is locked, nobody works on it, no task waits for it,
\* and neither an artifact version nor a handoff packet is still in force.
\* Whatever superseded attempt a command names, it cannot change that.
LaterStagesUntouched ==
    \A s \in Stages : s > cur =>
        /\ state[Current(s)] = "locked" /\ ~AgentActive(Current(s))
        /\ \A i \in OpenTasks : tasks[i].run # Current(s)
        /\ artifact[s].status \notin {"draft", "locked"}
        /\ \A r \in Runs : r[1] = s => handoff[r] # "active"

\* What the later stages build on is there: an active handoff packet of a
\* stage before the current one refers to the artifact version in force, that
\* of its own attempt, still locked.
HandoffBacked ==
    \A r \in Runs : handoff[r] = "active" /\ r[1] < cur =>
        artifact[r[1]].attempt = r[2] /\ artifact[r[1]].status = "locked"

\* The status of the workflow and the rows it speaks of, written by a dozen
\* commands, agree: a workflow that waits for its user has an open approval of
\* a run of the current stage that waits for it, an interrupted one has a
\* pending recovery record of its interrupted current run, and so on.
StatusBacked ==
    /\ status = "waiting_user" =>
           \E g \in DOMAIN gates : /\ gates[g].open /\ gates[g].run[1] = cur
                                   /\ state[gates[g].run] = "waiting_approval"
    /\ status = "warning_blocked" =>
           \E r \in Runs : r[1] = cur /\ state[r] = "warning_blocked"
    /\ status = "interrupted" =>
           /\ state[CurrentRun] = "interrupted"
           /\ \E i \in DOMAIN recovery : recovery[i].run = CurrentRun /\ recovery[i].pending
    /\ status = "completed" =>
           cur = NumStages /\ \E r \in Runs : r[1] = cur /\ state[r] = "completed"

\* Nobody works for a superseded attempt: its room is closed to discussion,
\* no open task and no active agent run belongs to it.
SupersededInert ==
    \A r \in Runs : state[r] # "none" /\ ~IsCurrent(r) =>
        /\ room[r] # "active"
        /\ ~AgentActive(r)
        /\ \A i \in OpenTasks : tasks[i].run # r

\* The second transaction of a control command acts on the run that is
\* current then, although it was read in the first.
ControlHitsCurrentRun == ctl.fresh => ctl.run = CurrentRun

-----------------------------------------------------------------------------
\* The promise to the user: a packet seals only the stage that is worked on,
\* and rework voids the packets of a stage together with all after it.
Contract == INSTANCE DeliveryContract
    WITH position <- cur, sealed <- {r \in Runs : handoff[r] = "active"}
ImplementsContract == Contract!Spec
=============================================================================
