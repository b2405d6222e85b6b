--------------------------- MODULE Orchestration ---------------------------
(* The formal delivery of one stage run (stream_stage of                   *)
(* application/orchestration/service.py): its stream takes the stage to    *)
(* production, gets a plan from a formal agent run, executes the plan by   *)
(* tool calls of one task, registers the artifact version and submits it   *)
(* to the gate.  Several streams run at once, with the same request key    *)
(* (a retry) or another one.  A stream is a generator: while it is         *)
(* suspended at a yield its client may drop it without a trace; while it   *)
(* awaits an operation it may be cancelled.  A client may cancel tasks and *)
(* calls, control the workflow, and the process may be restarted.          *)
(* Agent runs are those of AgentRun, seen from outside; the gate is that   *)
(* of StageDelivery.  A client that completes tasks by hand is left out.   *)
EXTENDS ToolCalls

CONSTANTS Streams,          \* coroutines
          MaxOpens,         \* bound: requests for a delivery
          MaxDisturbances   \* bound: drops, cancellations, controls, restarts, grants

ASSUME OrchestrationAssumption == MaxOpens \in Nat /\ MaxDisturbances \in Nat

VARIABLES stage,      \* state of the stage run
          workflow,   \* status of the workflow
          fresh,      \* readers whose copy of the workflow row is current
          agent,      \* the formal agent run of a request key
          order,      \* agent runs of the room in the order of creation
          plan,       \* source version the plan of a run expects, or bad
          versions,   \* contents of the artifact versions; the last is the draft
          stream,     \* place and locals of a stream
          control,    \* the control command between its two transactions
          delivered,  \* ghost: tasks whose work passed the gate
          adrift,     \* ghost: tasks whose stream was lost before it ended them
          opens, disturbances

stageVars == <<stage, workflow, fresh, versions, delivered>>
agents == <<agent, order, plan>>
limits == <<opens, disturbances>>
vars == <<toolVars, stageVars, agents, stream, control, adrift, limits>>

Production == {"ready", "discussing", "producing", "p2r_reviewing", "quality_checking",
               "needs_fix"}
StageStates == Production \cup {"waiting_approval", "warning_blocked", "completed",
                                "interrupted", "cancelled"}
WorkflowStates == {"running", "waiting_user", "warning_blocked", "paused", "interrupted",
                   "stopped"}
Places == {"off", "started", "moving", "moved", "enqueue", "start", "task_started",
           "run_created", "streaming", "check", "planned", "tool", "tool_done", "task_done",
           "versioned", "failing", "cancelling"}
AtYield == {"started", "moved", "task_started", "run_created", "streaming", "planned",
            "tool_done", "task_done", "versioned"}
AgentStatuses == {"none", "pending", "running", "succeeded", "failed"}

\* The place and the locals of a stream.
StreamRow == [at : Places, key : Keys \cup {None}, st : StageStates, ok : BOOLEAN,
              task : Tasks \cup {0}, local : TaskStatuses, pending : BOOLEAN, seen : Contents,
              step : 0..Len(PlanSlots), result : CallStatuses, version : Nat]
Off == [at |-> "off", key |-> None, st |-> "ready", ok |-> FALSE, task |-> 0,
        local |-> "queued", pending |-> FALSE, seen |-> None, step |-> 0, result |-> "none",
        version |-> 0]

TypeOK ==
    /\ ToolsTypeOK
    /\ stage \in StageStates
    /\ workflow \in WorkflowStates
    /\ fresh \subseteq Streams \cup {"control"}
    /\ agent \in [Keys -> AgentStatuses]
    /\ order \in Seq(Keys)
    /\ plan \in [Keys -> Contents \cup {"bad"}]
    /\ versions \in Seq(Contents)
    /\ \A s \in Streams : stream[s].version <= Len(versions)
    /\ stream \in [Streams -> StreamRow]
    /\ control \in {"none", "pause", "resume", "stop"}
    /\ delivered \subseteq Tasks /\ adrift \subseteq Tasks
    /\ opens \in 0..MaxOpens /\ disturbances \in 0..MaxDisturbances

Init ==
    /\ ToolsInit
    /\ stage = "ready" /\ workflow = "running" /\ fresh = {}
    /\ agent = [k \in Keys |-> "none"] /\ order = <<>> /\ plan = [k \in Keys |-> None]
    /\ versions = <<>>
    /\ stream = [s \in Streams |-> Off]
    /\ control = "none"
    /\ delivered = {} /\ adrift = {}
    /\ opens = 0 /\ disturbances = 0

Disturbance == disturbances < MaxDisturbances /\ disturbances' = disturbances + 1
Calm == UNCHANGED <<opens, disturbances>>

At(s, place) == stream[s].at = place
Goes(s, place) == stream' = [stream EXCEPT ![s].at = place]
Local(s, status, place) == stream' = [stream EXCEPT ![s].at = place, ![s].local = status]

(* A DomainError or another exception inside the stream.                   *)
Fails(s) == stream' = [stream EXCEPT ![s] =
                IF @.local = "running" THEN [@ EXCEPT !.at = "failing"] ELSE Off]

ActiveAgents == {k \in Keys : agent[k] \in {"pending", "running"}}
Current == stage \notin {"completed", "cancelled"}

-----------------------------------------------------------------------------
(* To production.                                                          *)

\* get_workflow, up to the first yield; the checks use this snapshot later.
Open(s, k) ==
    /\ At(s, "off") /\ opens < MaxOpens /\ stage # "completed"
    /\ opens' = opens + 1
    /\ stream' = [stream EXCEPT ![s] = [Off EXCEPT !.at = "started", !.key = k, !.st = stage,
                      !.ok = (workflow = "running" /\ stage \in Production)]]
    /\ UNCHANGED <<toolVars, stageVars, agents, control, adrift, disturbances>>

\* _required_production_transitions, _required_gate_transitions: the next one.
NextProduction(state) == CASE state = "ready" -> "discussing"
                           [] state \in {"discussing", "needs_fix"} -> "producing"
                           [] OTHER -> "none"
NextGate(state) == CASE state = "producing" -> "p2r_reviewing"
                     [] state = "p2r_reviewing" -> "quality_checking"
                     [] OTHER -> "none"

\* _transition reads the versions that the write is going to expect.
ReadsFor(s) == fresh' = fresh \cup {s} /\ Goes(s, "moving")
               /\ UNCHANGED <<stage, workflow, versions, delivered>>

TasksOf(k) == {t \in DOMAIN tasks : tasks[t].key = k}

\* Between two transitions to production, and after the last of them
\* list_tasks and _task_for_request.
Prepare(s) ==
    /\ At(s, "started") \/ (At(s, "moved") /\ stream[s].task = 0)
    /\ LET mine == TasksOf(stream[s].key)
       IN IF ~stream[s].ok
          THEN Fails(s) /\ UNCHANGED stageVars
          ELSE IF NextProduction(stream[s].st) # "none"
          THEN ReadsFor(s)
          ELSE /\ \/ /\ mine = {} /\ stream[s].st = "producing"
                     /\ Goes(s, "enqueue")
                  \/ /\ Cardinality(mine) = 1
                     /\ \E t \in mine : stream' = [stream EXCEPT ![s].at = "start",
                             ![s].task = t, ![s].local = tasks[t].status]
                  \/ /\ \/ Cardinality(mine) > 1
                        \/ mine = {} /\ stream[s].st # "producing"
                     /\ Fails(s)
               /\ UNCHANGED stageVars
    /\ UNCHANGED <<toolVars, agents, control, adrift>> /\ Calm

\* transition_stage with the versions read before.
Move(s) ==
    /\ At(s, "moving")
    /\ LET next == IF stream[s].task = 0 THEN NextProduction(stream[s].st)
                                         ELSE NextGate(stream[s].st)
           legal == \/ next = "discussing" /\ stage = "ready"
                    \/ next = "producing" /\ stage \in {"discussing", "needs_fix"}
                    \/ next = NextGate(stage)
       IN IF s \in fresh /\ workflow = "running" /\ ActiveAgents = {} /\ legal
          THEN /\ stage' = next
               /\ fresh' = {}
               /\ stream' = [stream EXCEPT ![s].at = "moved", ![s].st = next]
               /\ UNCHANGED <<workflow, versions, delivered>>
          ELSE Fails(s) /\ UNCHANGED stageVars
    /\ UNCHANGED <<toolVars, agents, control, adrift>> /\ Calm

-----------------------------------------------------------------------------
(* The task and the plan.                                                  *)
Enqueue(s) ==
    /\ At(s, "enqueue") /\ Len(tasks) < MaxTasks
    /\ IF workflow = "running" /\ Current
       THEN /\ Queued(stream[s].key)
            /\ stream' = [stream EXCEPT ![s].at = "start", ![s].task = Len(tasks) + 1]
       ELSE Fails(s) /\ UNCHANGED tasks
    /\ UNCHANGED <<execution, grant, stageVars, agents, control, adrift>> /\ Calm

\* start_task of a queued task; only a running or succeeded one goes on.
StartTask(s) ==
    /\ At(s, "start")
    /\ LET t == stream[s].task
       IN \/ /\ stream[s].local = "queued"
             /\ IF Startable(t)
                THEN SetTask(t, "running") /\ Local(s, "running", "task_started")
                ELSE Fails(s) /\ UNCHANGED tasks
          \/ /\ stream[s].local \in {"running", "succeeded"}
             /\ Goes(s, "task_started") /\ UNCHANGED tasks
          \/ /\ stream[s].local \in {"failed", "cancelled"}
             /\ Fails(s) /\ UNCHANGED tasks
    /\ UNCHANGED <<execution, grant, stageVars, agents, control, adrift>> /\ Calm

\* build_project_context: the version of the source file the prompt shows;
\* a file it leaves out looks like one that does not exist.
Shown == {files["source"], None}

\* build_project_context and create_run.
CreateRun(s) ==
    /\ At(s, "task_started")
    /\ LET k == stream[s].key
           RunKnown == \E seen \in Shown :
                          stream' = [stream EXCEPT ![s].at = "run_created", ![s].seen = seen,
                                        ![s].pending = agent[k] \in {"none", "pending"}]
       IN \/ /\ agent[k] # "none"
             /\ RunKnown /\ UNCHANGED agents
          \/ /\ agent[k] = "none"
             /\ IF ActiveAgents = {} /\ stage \in {"discussing", "producing", "p2r_reviewing"}
                THEN /\ agent' = [agent EXCEPT ![k] = "pending"]
                     /\ order' = Append(order, k)
                     /\ RunKnown
                     /\ UNCHANGED plan
                ELSE Fails(s) /\ UNCHANGED agents
    /\ UNCHANGED <<toolVars, stageVars, control, adrift>> /\ Calm

\* stream_run, for a run that was pending when create_run returned it: it
\* refuses a run that is streamed and fails one that is no longer pending.
StreamRun(s) ==
    /\ At(s, "run_created")
    /\ LET k == stream[s].key
           streamed == \E other \in Streams : At(other, "streaming") /\ stream[other].key = k
       IN \/ ~stream[s].pending /\ Goes(s, "check") /\ UNCHANGED <<agent, plan>>
          \/ stream[s].pending /\ streamed /\ Fails(s) /\ UNCHANGED <<agent, plan>>
          \/ /\ stream[s].pending /\ agent[k] = "pending"
             /\ agent' = [agent EXCEPT ![k] = "running"] /\ Goes(s, "streaming")
             /\ UNCHANGED plan
          \/ /\ stream[s].pending /\ ~streamed /\ agent[k] # "pending"
             /\ agent' = [agent EXCEPT ![k] = "failed"] /\ Goes(s, "check")
             /\ plan' = [plan EXCEPT ![k] = "bad"]
    /\ UNCHANGED <<toolVars, order, stageVars, control, adrift>> /\ Calm

\* The agent run ends; its plan rests on the source file the stream saw.
RunEnds(s) ==
    /\ At(s, "streaming")
    /\ LET k == stream[s].key
       IN \/ /\ agent' = [agent EXCEPT ![k] = "succeeded"]
             /\ \E p \in {"bad", stream[s].seen} : plan' = [plan EXCEPT ![k] = p]
          \/ agent' = [agent EXCEPT ![k] = "failed"] /\ UNCHANGED plan
    /\ Goes(s, "check")
    /\ UNCHANGED <<toolVars, order, stageVars, control, adrift>> /\ Calm

\* The run succeeded and its output is a plan.
CheckPlan(s) ==
    /\ At(s, "check")
    /\ IF agent[stream[s].key] = "succeeded" /\ plan[stream[s].key] # "bad"
       THEN Goes(s, "planned") ELSE Fails(s)
    /\ UNCHANGED <<toolVars, agents, stageVars, control, adrift>> /\ Calm

-----------------------------------------------------------------------------
(* The actions of the plan, then the artifact.                             *)
CallOf(s) == <<stream[s].task, PlanSlots[stream[s].step]>>

\* The file version the call of a slot expects: the plan names the one of
\* the source, the orchestrator takes the present one of the artifact.
Expects(s, slot) == CASE slot = "source" -> plan[stream[s].key]
                      [] slot = "artifact" -> files["artifact"]
                      [] OTHER -> None

\* execute takes new calls of a running task while the stage is at work.
TakesCalls(t) == stage \in {"discussing", "producing"} /\ TaskIs(t, "running")

\* Mutation of Execute: a running call is taken up again.
ExecuteAgain(s, c) ==
    /\ TakesCalls(c[1])
    /\ Insert(c, Expects(s, c[2]))
    /\ stream' = [stream EXCEPT ![s].at = "tool", ![s].step = @ + 1]

\* The first transaction of execute for a slot of the plan, after
\* _validate_action_path: a key that has a row returns that row.
Execute(s, c) ==
    \/ /\ call[c] # "none" /\ argument[c] = Expects(s, c[2])
       /\ stream' = [stream EXCEPT ![s].at = "tool_done", ![s].step = @ + 1,
                                   ![s].result = call[c]]
       /\ UNCHANGED execution
    \/ /\ call[c] = "none" /\ TakesCalls(c[1]) /\ TRUE \in Authorities(c)
       /\ Insert(c, Expects(s, c[2]))
       /\ stream' = [stream EXCEPT ![s].at = "tool", ![s].step = @ + 1]
    \/ /\ IF call[c] # "none" THEN argument[c] # Expects(s, c[2])
          ELSE TakesCalls(c[1]) => FALSE \in Authorities(c)
       /\ Fails(s) /\ UNCHANGED execution

\* complete_task(succeeded) after the last slot.
Complete(s) ==
    IF TaskIs(stream[s].task, "running")
    THEN EndTask(stream[s].task, "succeeded") /\ Local(s, "succeeded", "task_done")
    ELSE Fails(s) /\ UNCHANGED <<tasks, grant>>

\* Mutation of NextSlot: the result of the call is not looked at.
NextSlotUnchecked(s) ==
    /\ At(s, "planned") \/ At(s, "tool_done")
    /\ IF stream[s].local = "succeeded" THEN Goes(s, "task_done") /\ UNCHANGED toolVars
       ELSE IF stream[s].step = Len(PlanSlots) THEN Complete(s) /\ UNCHANGED execution
       ELSE LET c == <<stream[s].task, PlanSlots[stream[s].step + 1]>>
            IN /\ IF c[2] = "source" /\ files["source"] # plan[stream[s].key]
                  THEN Fails(s) /\ UNCHANGED execution ELSE Execute(s, c)
               /\ UNCHANGED <<tasks, grant>>
    /\ UNCHANGED <<stageVars, agents, control, adrift>> /\ Calm

\* Between two slots of the plan.
NextSlot(s) ==
    /\ At(s, "planned") \/ At(s, "tool_done")
    /\ IF stream[s].local = "succeeded" THEN Goes(s, "task_done") /\ UNCHANGED toolVars
       ELSE IF At(s, "tool_done") /\ stream[s].result # "succeeded"
       THEN Fails(s) /\ UNCHANGED toolVars
       ELSE IF stream[s].step = Len(PlanSlots) THEN Complete(s) /\ UNCHANGED execution
       ELSE LET c == <<stream[s].task, PlanSlots[stream[s].step + 1]>>
            IN /\ IF c[2] = "source" /\ files["source"] # plan[stream[s].key]
                  THEN Fails(s) /\ UNCHANGED execution ELSE Execute(s, c)
               /\ UNCHANGED <<tasks, grant>>
    /\ UNCHANGED <<stageVars, agents, control, adrift>> /\ Calm

\* The call is recorded; a cancelled one goes on to cancel the task.
ToolFinished(s) ==
    /\ At(s, "tool") /\ Finish(CallOf(s))
    /\ IF at[CallOf(s)] = "cancelled" THEN Goes(s, "cancelling")
       ELSE stream' = [stream EXCEPT ![s].at = "tool_done", ![s].result = call'[CallOf(s)]]
    /\ UNCHANGED <<stageVars, agents, control, adrift>> /\ Calm

ToolEscapes(s) ==
    /\ At(s, "tool") /\ SpawnFails(CallOf(s))
    /\ Fails(s)
    /\ UNCHANGED <<tasks, grant, stageVars, agents, control, adrift>> /\ Calm

ToolWorks(c) ==
    /\ ToolStarts(c) \/ FileWritten(c) \/ ProcessEnds(c) \/ EndCancelCall(c)
    /\ UNCHANGED <<stageVars, agents, stream, control, adrift>> /\ Calm

-----------------------------------------------------------------------------
(* Artifact version and gate.                                              *)

\* Mutation of CreateVersion: the number of a version that was not added.
CreateVersionNumbered(s) ==
    /\ At(s, "task_done")
    /\ stage \in {"producing", "p2r_reviewing", "quality_checking", "needs_fix"}
    /\ versions' = IF versions # <<>> /\ versions[Len(versions)] = files["artifact"]
                   THEN versions ELSE Append(versions, files["artifact"])
    /\ stream' = [stream EXCEPT ![s].at = "versioned", ![s].version = Len(versions) + 1]
    /\ UNCHANGED <<stage, workflow, fresh, delivered, toolVars, agents, control, adrift>> /\ Calm

\* create_artifact_version; a version of the same content is not repeated.
CreateVersion(s) ==
    /\ At(s, "task_done")
    /\ IF stage \in {"producing", "p2r_reviewing", "quality_checking", "needs_fix"}
          /\ files["artifact"] # None
       THEN /\ versions' = IF versions # <<>> /\ versions[Len(versions)] = files["artifact"]
                           THEN versions ELSE Append(versions, files["artifact"])
            /\ stream' = [stream EXCEPT ![s].at = "versioned", ![s].version = Len(versions')]
       ELSE Fails(s) /\ UNCHANGED versions
    /\ UNCHANGED <<stage, workflow, fresh, delivered, toolVars, agents, control, adrift>> /\ Calm

\* The checks of evaluate_gate on the version a stream names.
GateClean(s) ==
    /\ stream[s].version = Len(versions)
    /\ versions[Len(versions)] = files["artifact"]
    /\ order # <<>> /\ agent[order[Len(order)]] = "succeeded"
    /\ \A t \in DOMAIN tasks : tasks[t].status \notin {"queued", "running"}

\* evaluate_gate: to approval, past it, or back to the producers.
EvaluateGate(s) ==
    /\ IF stage # "quality_checking" THEN UNCHANGED <<stage, workflow, fresh, delivered>>
       ELSE /\ fresh' = {}
            /\ \/ /\ GateClean(s) /\ workflow = "running"
                  /\ stage' = "waiting_approval" /\ workflow' = "waiting_user"
                  /\ delivered' = delivered \cup {stream[s].task}
               \/ /\ GateClean(s) /\ workflow = "running"
                  /\ stage' = "completed"
                  /\ delivered' = delivered \cup {stream[s].task}
                  /\ UNCHANGED workflow
               \/ /\ GateClean(s)
                  /\ stage' = "warning_blocked" /\ workflow' = "warning_blocked"
                  /\ UNCHANGED delivered
               \/ /\ ~GateClean(s)
                  /\ stage' = "needs_fix" /\ workflow' = "running"
                  /\ UNCHANGED delivered
    /\ stream' = [stream EXCEPT ![s] = Off]
    /\ UNCHANGED versions

\* From the version to the gate; the state is read once, before the first move.
Submit(s) ==
    /\ At(s, "versioned") \/ (At(s, "moved") /\ stream[s].task # 0)
    /\ LET st == IF At(s, "versioned") THEN stage ELSE stream[s].st
       IN IF NextGate(st) # "none"
          THEN /\ fresh' = fresh \cup {s}
               /\ stream' = [stream EXCEPT ![s].at = "moving", ![s].st = st]
               /\ UNCHANGED <<stage, workflow, versions, delivered>>
          ELSE IF st = "quality_checking" THEN EvaluateGate(s)
          ELSE Fails(s) /\ UNCHANGED stageVars
    /\ UNCHANGED <<toolVars, agents, control, adrift>> /\ Calm

-----------------------------------------------------------------------------
(* The end of a stream.                                                    *)

\* Mutation of FailTask: the task keeps running.
FailTaskForgotten(s) ==
    /\ At(s, "failing")
    /\ stream' = [stream EXCEPT ![s] = Off]
    /\ UNCHANGED <<toolVars, stageVars, agents, control, adrift>> /\ Calm

\* _fail_task: an error of complete_task is swallowed.
FailTask(s) ==
    /\ At(s, "failing")
    /\ IF TaskIs(stream[s].task, "running")
       THEN EndTask(stream[s].task, "failed") ELSE UNCHANGED <<tasks, grant>>
    /\ stream' = [stream EXCEPT ![s] = Off]
    /\ UNCHANGED <<execution, stageVars, agents, control, adrift>> /\ Calm

\* cancel_task of a cancelled stream.
CancelOwnTask(s) ==
    /\ At(s, "cancelling")
    /\ IF TaskIs(stream[s].task, "running")
       THEN EndTask(stream[s].task, "cancelled") ELSE UNCHANGED <<tasks, grant>>
    /\ stream' = [stream EXCEPT ![s] = Off]
    /\ UNCHANGED <<execution, stageVars, agents, control, adrift>> /\ Calm

\* The client is gone while the stream is suspended at a yield, or is
\* cancelled for the second time: the generator ends where it is.
Dropped(s) ==
    /\ stream[s].at \in AtYield \cup {"failing", "cancelling"} /\ Disturbance
    /\ stream' = [stream EXCEPT ![s] = Off]
    /\ adrift' = adrift \cup ({stream[s].task} \ {0})
    /\ UNCHANGED <<toolVars, stageVars, agents, control, opens>>

\* The stream is cancelled in an await.  A call in execution records its
\* own cancellation first, unless it was recording its outcome.
Cancelled(s) ==
    /\ stream[s].at \notin {"off", "failing", "cancelling"} /\ Disturbance
    /\ LET over == stream[s].local # "running"
           c == CallOf(s)
       IN IF At(s, "tool") /\ at[c] # "none"
          THEN /\ Interrupt(c)
               /\ IF at'[c] = "cancelled" THEN UNCHANGED stream ELSE Goes(s, "cancelling")
               /\ UNCHANGED agent
          ELSE /\ stream' = [stream EXCEPT ![s] = IF over THEN Off
                                                  ELSE [@ EXCEPT !.at = "cancelling"]]
               /\ agent' = IF At(s, "streaming")
                           THEN [agent EXCEPT ![stream[s].key] = IF @ = "running" THEN "failed"
                                                                 ELSE @]
                           ELSE agent
               /\ UNCHANGED execution
    /\ UNCHANGED <<tasks, grant, stageVars, order, plan, control, adrift, opens>>

(* The stream is cancelled while start_task commits: the unit of work raises *)
(* the cancellation after its commit, so the task runs while the stream     *)
(* still has the queued row, and its handler leaves the task alone.         *)
CancelledStarting(s) ==
    /\ At(s, "start") /\ stream[s].local = "queued" /\ Startable(stream[s].task)
    /\ Disturbance
    /\ SetTask(stream[s].task, "running")
    /\ stream' = [stream EXCEPT ![s] = Off]
    /\ adrift' = adrift \cup {stream[s].task}
    /\ UNCHANGED <<execution, grant, stageVars, agents, control, opens>>

-----------------------------------------------------------------------------
(* What others do meanwhile.                                               *)
ByOthers == UNCHANGED <<stageVars, agents, stream, control, adrift>>

\* cancel_task by a client: the calls of the task are not touched.
UserCancelsTask(t) ==
    /\ Disturbance /\ HasTask(t) /\ tasks[t].status \in {"queued", "running"}
    /\ EndTask(t, "cancelled")
    /\ ByOthers /\ UNCHANGED <<execution, opens>>

\* cancel_run of an agent run that waits to be streamed.
UserCancelsRun(k) ==
    /\ Disturbance /\ agent[k] = "pending"
    /\ agent' = [agent EXCEPT ![k] = "failed"]
    /\ UNCHANGED <<toolVars, stageVars, order, plan, stream, control, adrift, opens>>

UserCancelsCall(c) == Disturbance /\ StartCancelCall(c) /\ ByOthers /\ UNCHANGED opens

\* A client asks for a grant and uses it for a call of its own.
AsksGrant(t) == Disturbance /\ RequestCapability(t) /\ ByOthers /\ UNCHANGED opens
DecidesGrant(t) == DecideCapability(t) /\ ByOthers /\ Calm

UsesGrant(t) ==
    /\ call[<<t, "extra">>] = "none" /\ TakesCalls(t) /\ TRUE \in Authorities(<<t, "extra">>)
    /\ Insert(<<t, "extra">>, None)
    /\ ByOthers /\ UNCHANGED <<tasks, grant>> /\ Calm

ExtraEnds(t) ==
    /\ \/ Finish(<<t, "extra">>)
       \/ SpawnFails(<<t, "extra">>) /\ UNCHANGED <<tasks, grant>>
    /\ ByOthers /\ Calm

\* The user decides on the gate, or takes the warning back to discussion.
DecidesGate ==
    /\ \/ stage = "waiting_approval" /\ stage' \in {"needs_fix", "completed"}
       \/ stage = "warning_blocked" /\ stage' = "discussing"
    /\ workflow \in {"waiting_user", "warning_blocked"}
    /\ workflow' = "running" /\ fresh' = {}
    /\ UNCHANGED <<versions, delivered, toolVars, agents, stream, control, adrift>> /\ Calm

AgentsCancelled == agent' = [k \in Keys |-> IF k \in ActiveAgents THEN "failed" ELSE agent[k]]

\* control_workflow reads the workflow and kills processes...
ControlReads(command) ==
    /\ control = "none" /\ Disturbance
    /\ control' = command
    /\ fresh' = fresh \cup {"control"}
    /\ Kill({c \in Calls : call[c] = "running"})
    /\ UNCHANGED <<tasks, call, killing, argument, files, grant, ran, stage, workflow, versions,
                   delivered, agents, stream, adrift, opens>>

\* ... and cancels the rows in a second transaction.
ControlWrites ==
    /\ control # "none" /\ control' = "none"
    /\ LET allowed == "control" \in fresh /\
               CASE control = "pause" -> workflow \in {"running", "waiting_user",
                                                       "warning_blocked"}
                 [] control = "resume" -> workflow = "paused"
                 [] OTHER -> workflow # "stopped"
       IN IF ~allowed
          THEN /\ fresh' = fresh \ {"control"}
               /\ UNCHANGED <<tasks, call, agent, stage, workflow>>
          ELSE /\ fresh' = {}
               /\ CASE control = "pause" -> /\ workflow' = "paused" /\ UNCHANGED stage
                                            /\ TasksCancelled({"running"})
                    [] control = "resume" -> workflow' = "running" /\ UNCHANGED <<stage, tasks>>
                    [] OTHER -> /\ workflow' = "stopped" /\ stage' = "cancelled"
                                /\ TasksCancelled({"queued", "running"})
               /\ CallsEnded("cancelled")
               /\ AgentsCancelled
    /\ UNCHANGED <<at, live, killing, argument, files, grant, ran, versions, delivered, order,
                   plan, stream, adrift>> /\ Calm

\* The process dies and starts again; recover_incomplete interrupts what was
\* at work in a workflow that was not at rest.
Restart ==
    /\ Disturbance
    /\ stream' = [s \in Streams |-> Off]
    /\ control' = "none" /\ fresh' = {}
    /\ at' = [c \in Calls |-> "none"] /\ live' = {} /\ killing' = {}
    /\ adrift' = adrift \cup {t \in Tasks : TaskIs(t, "running")}
    /\ LET lost == \/ \E t \in Tasks : TaskIs(t, "running")
                   \/ ActiveAgents # {}
                   \/ \E c \in Calls : call[c] = "running"
       IN IF workflow \in {"running", "waiting_user", "warning_blocked"} /\ lost
          THEN /\ TasksCancelled({"running"}) /\ CallsEnded("interrupted") /\ AgentsCancelled
               /\ workflow' = "interrupted" /\ stage' = "interrupted"
          ELSE UNCHANGED <<tasks, call, agent, workflow, stage>>
    /\ UNCHANGED <<argument, files, grant, ran, versions, delivered, order, plan, opens>>

\* resolve_recovery(resume)
Recover ==
    /\ workflow = "interrupted" /\ stage = "interrupted"
    /\ workflow' = "running" /\ stage' = "discussing" /\ fresh' = {}
    /\ UNCHANGED <<versions, delivered, toolVars, agents, stream, control, adrift>> /\ Calm

-----------------------------------------------------------------------------
StreamStep(s) ==
    \/ Prepare(s) \/ Move(s) \/ Enqueue(s) \/ StartTask(s) \/ CreateRun(s) \/ StreamRun(s)
    \/ RunEnds(s) \/ CheckPlan(s) \/ NextSlot(s) \/ ToolFinished(s) \/ ToolEscapes(s)
    \/ CreateVersion(s) \/ Submit(s) \/ FailTask(s) \/ CancelOwnTask(s)

Next ==
    \/ \E s \in Streams : \/ StreamStep(s) \/ Dropped(s) \/ Cancelled(s) \/ CancelledStarting(s)
                        \/ \E k \in Keys : Open(s, k)
    \/ \E c \in Calls : ToolWorks(c) \/ UserCancelsCall(c)
    \/ \E t \in Tasks : UserCancelsTask(t) \/ AsksGrant(t) \/ DecidesGrant(t) \/ UsesGrant(t)
                       \/ ExtraEnds(t)
    \/ \E k \in Keys : UserCancelsRun(k)
    \/ \E command \in {"pause", "resume", "stop"} : ControlReads(command)
    \/ ControlWrites \/ DecidesGate \/ Restart \/ Recover

Spec == Init /\ [][Next]_vars

-----------------------------------------------------------------------------
(* Release blocker, section 6: tool calls have stable keys, so a retry     *)
(* repeats no write and no command.  However often a delivery is retried,  *)
(* dropped, cancelled or restarted, a planned call of its task has its     *)
(* effect at most once.  (Two tasks of one key are another matter, see     *)
(* OneTaskPerKey.)                                                         *)
RanOnce == \A c \in Calls : c[2] # "extra" => ran[c] <= 1

(* A task that runs has a stream that is going to end it, or its stream was  *)
(* lost in one of three ways: its client dropped it at a yield or cancelled  *)
(* it twice, it was cancelled while the start of the task committed, or the  *)
(* process died.  No failure inside the stream, no cancellation while an     *)
(* operation runs and no command of others forgets a task, which would block *)
(* the task queue of the workflow.                                           *)
TaskHeld ==
    \A t \in DOMAIN tasks : tasks[t].status = "running" =>
        t \in adrift \/ \E s \in Streams : stream[s].task = t /\ stream[s].local = "running"

(* Release blocker, section 4: a tool that does not succeed stops the      *)
(* delivery before the gate.  What passed the gate is a succeeded task     *)
(* all of whose planned calls succeeded, each having worked exactly once.  *)
DeliveryBacked ==
    \A t \in delivered :
        /\ TaskIs(t, "succeeded")
        /\ \A slot \in Slots \ {"extra"} : call[<<t, slot>>] = "succeeded" /\ ran[<<t, slot>>] = 1

(* Release blocker, section 6: within a stage run one request key stands   *)
(* for one task.  Violated by two streams that look for the task before    *)
(* either has queued it.                                                   *)
OneTaskPerKey == \A k \in Keys : Cardinality(TasksOf(k)) <= 1
=============================================================================
