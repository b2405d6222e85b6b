----------------------------- MODULE ToolCalls -----------------------------
(* The tasks of one stage run, the tool calls they make and the grants     *)
(* they ask for (application/tooling/service.py and process.py,            *)
(* infrastructure/database/governance_repository.py).  A call is named by  *)
(* its task and its idempotency key, here a slot: three slots belong to    *)
(* the plan of a formal delivery, "extra" to a client of the tool API.     *)
(* Every write transaction is one action.  The states "starting" and       *)
(* "tool" of a call are the awaits of the coroutine that executes it.      *)
EXTENDS Naturals, FiniteSets, Sequences

CONSTANTS Keys,        \* request keys of formal deliveries
          None,        \* no content: a file that does not exist
          MaxTasks     \* bound: tasks of the stage run

ASSUME KeysAssumption == None \notin Keys /\ MaxTasks \in Nat \ {0}

Tasks == 1..MaxTasks
PlanSlots == <<"command", "source", "artifact">>
Slots == {"source", "command", "artifact", "extra"}
Commands == {"command", "extra"}
Calls == Tasks \X Slots
Contents == Keys \cup {None}

CallStatuses == {"none", "running", "succeeded", "failed", "cancelled", "interrupted"}
TerminalCalls == CallStatuses \ {"none", "running"}
TaskStatuses == {"queued", "running", "succeeded", "failed", "cancelled"}
GrantStatuses == {"none", "pending", "approved", "rejected", "expired"}

\* A row of workflow_tasks: what was asked for and how it went.
TaskRow == [key : Keys, status : TaskStatuses]
\* The capability request of each task.
Grants == [Tasks -> GrantStatuses]

VARIABLES tasks,     \* rows of the tasks in queue order: key and status
          call,      \* rows of the tool calls: status
          at,        \* where the execution of a call is, or its outcome
          live,      \* calls whose thread or process works
          killing,   \* calls a client cancels
          argument,  \* the file version an executed write expects
          files,     \* content of the planned source file and of the artifact
          grant,     \* capability request of a task
          ran        \* ghost: how often the tool of a call had its effect

toolVars == <<tasks, call, at, live, killing, argument, files, grant, ran>>
execution == <<call, at, live, killing, argument, files, ran>>

ToolsTypeOK ==
    /\ tasks \in Seq(TaskRow) /\ Len(tasks) <= MaxTasks
    /\ call \in [Calls -> CallStatuses]
    /\ at \in [Calls -> {"none", "starting", "tool", "succeeded", "failed", "cancelled"}]
    /\ live \subseteq Calls /\ killing \subseteq Calls
    /\ argument \in [Calls -> Contents]
    /\ files \in [{"source", "artifact"} -> Contents]
    /\ grant \in Grants
    /\ ran \in [Calls -> Nat]

ToolsInit ==
    /\ tasks = <<>>
    /\ call = [c \in Calls |-> "none"] /\ at = [c \in Calls |-> "none"]
    /\ live = {} /\ killing = {}
    /\ argument = [c \in Calls |-> None]
    /\ files = [f \in {"source", "artifact"} |-> None]
    /\ grant = [t \in Tasks |-> "none"]
    /\ ran = [c \in Calls |-> 0]

Content(c) == tasks[c[1]].key
HasTask(t) == t \in DOMAIN tasks
TaskIs(t, status) == HasTask(t) /\ tasks[t].status = status

-----------------------------------------------------------------------------
(* The queue of tasks.                                                     *)
Queued(k) == tasks' = Append(tasks, [key |-> k, status |-> "queued"])

(* start_task: the first queued task, when none runs. *)
Startable(t) ==
    /\ TaskIs(t, "queued")
    /\ \A u \in DOMAIN tasks : tasks[u].status # "running"
    /\ \A u \in 1..(t - 1) : tasks[u].status # "queued"

(* expire_capabilities_for_task, called when a single task ends. *)
Expire(t) == grant' = IF grant[t] \in {"pending", "approved"}
                      THEN [grant EXCEPT ![t] = "expired"] ELSE grant

SetTask(t, status) == tasks' = [tasks EXCEPT ![t].status = status]
EndTask(t, status) == SetTask(t, status) /\ Expire(t)

(* cancel_tasks of a workflow; the grants stay as they are. *)
TasksCancelled(statuses) ==
    tasks' = [t \in DOMAIN tasks |-> IF tasks[t].status \in statuses
                                     THEN [tasks[t] EXCEPT !.status = "cancelled"]
                                     ELSE tasks[t]]

(* cancel_tool_calls and the recovery of tool calls: running rows end. *)
CallsEnded(status) ==
    call' = [c \in Calls |-> IF call[c] = "running" THEN status ELSE call[c]]

-----------------------------------------------------------------------------
(* Execution of a call.                                                    *)

\* authorize_capability and authorize_path: a stage may write its artifact;
\* whether the rest is in its scope depends on path and manifest.  A call
\* outside of it needs an approved grant.
Authorities(c) == CASE c[2] = "extra" -> {grant[c[1]] = "approved"}
                    [] c[2] = "artifact" -> {TRUE}
                    [] OTHER -> BOOLEAN

\* The first transaction of execute for a key that has no row yet.
Insert(c, expected) ==
    /\ call' = [call EXCEPT ![c] = "running"]
    /\ at' = [at EXCEPT ![c] = "starting"]
    /\ argument' = [argument EXCEPT ![c] = expected]
    /\ UNCHANGED <<live, killing, files, ran>>

\* A process is spawned and registered, or a thread gets the file operation.
ToolStarts(c) ==
    /\ at[c] = "starting"
    /\ at' = [at EXCEPT ![c] = "tool"]
    /\ live' = live \cup {c}
    /\ ran' = IF c[2] \in Commands THEN [ran EXCEPT ![c] = @ + 1] ELSE ran
    /\ UNCHANGED <<tasks, call, killing, argument, files, grant>>

Outcome(c, result) == at' = [at EXCEPT ![c] = IF @ = "tool" THEN result ELSE @]

\* AtomicFileTools.write: the file is replaced if it is still the version
\* the caller saw, by a thread that a cancelled caller does not stop.  No lock
\* holds the file between the comparison and os.replace; an edit in between,
\* which the replacement overwrites, is left out.
FileWritten(c) ==
    /\ c \in live /\ c[2] \notin Commands
    /\ live' = live \ {c}
    /\ IF files[c[2]] = argument[c]
       THEN /\ files' = [files EXCEPT ![c[2]] = Content(c)]
            /\ ran' = [ran EXCEPT ![c] = @ + 1]
            /\ Outcome(c, "succeeded")
       ELSE Outcome(c, "failed") /\ UNCHANGED <<files, ran>>
    /\ UNCHANGED <<tasks, call, killing, argument, grant>>

\* The process ends by itself or at its time limit.
ProcessEnds(c) ==
    /\ c \in live /\ c[2] \in Commands
    /\ live' = live \ {c}
    /\ \E result \in {"succeeded", "failed"} : Outcome(c, result)
    /\ UNCHANGED <<tasks, call, killing, argument, files, grant, ran>>

\* Mutation of Finished: the outcome replaces whatever the row says.
FinishedAnyway(c) == call' = [call EXCEPT ![c] = at[c]]

\* finish_tool_call: a row that is terminal already is left as it is.
Finished(c) == call' = IF call[c] = "running" THEN [call EXCEPT ![c] = at[c]] ELSE call

\* _finish_call of the coroutine that executes the call.
Finish(c) ==
    /\ at[c] \in {"succeeded", "failed", "cancelled"}
    /\ Finished(c)
    /\ at' = [at EXCEPT ![c] = "none"]
    /\ UNCHANGED <<tasks, live, killing, argument, files, grant, ran>>

\* The executing coroutine is cancelled: a process is terminated, a thread
\* goes on, and the cancellation is going to be recorded.  At the end of the
\* transaction that inserted the row, and while the outcome is recorded,
\* nothing is caught: the row stays running.
Interrupt(c) ==
    /\ \/ /\ at[c] \in {"starting", "tool"}
          /\ at' = [at EXCEPT ![c] = "cancelled"]
          /\ live' = IF c[2] \in Commands THEN live \ {c} ELSE live
       \/ /\ at[c] \notin {"none", "tool"}
          /\ at' = [at EXCEPT ![c] = "none"]
          /\ UNCHANGED live
    /\ UNCHANGED <<call, killing, argument, files, ran>>

\* A program that cannot be spawned raises an error execute does not catch.
SpawnFails(c) ==
    /\ at[c] = "starting" /\ c[2] \in Commands
    /\ at' = [at EXCEPT ![c] = "none"]
    /\ UNCHANGED <<call, live, killing, argument, files, ran>>

\* ToolProcessRegistry: the registered processes of some calls are killed.
Kill(cs) ==
    LET killed == {c \in live \cap cs : c[2] \in Commands}
    IN /\ live' = live \ killed
       /\ at' = [c \in Calls |-> IF c \in killed /\ at[c] = "tool" THEN "failed" ELSE at[c]]

\* cancel_call, up to the end of the process.
StartCancelCall(c) ==
    /\ call[c] = "running" /\ c \notin killing
    /\ Kill({c})
    /\ killing' = killing \cup {c}
    /\ UNCHANGED <<tasks, call, argument, files, grant, ran>>

\* cancel_call, the row; it may have become terminal meanwhile.
EndCancelCall(c) ==
    /\ c \in killing
    /\ killing' = killing \ {c}
    /\ call' = IF call[c] = "running" THEN [call EXCEPT ![c] = "cancelled"] ELSE call
    /\ UNCHANGED <<tasks, at, live, argument, files, grant, ran>>

-----------------------------------------------------------------------------
(* Grants of a capability that the stage does not have by default.         *)
RequestCapability(t) ==
    /\ TaskIs(t, "running") /\ grant[t] = "none"
    /\ grant' = [grant EXCEPT ![t] = "pending"]
    /\ UNCHANGED <<tasks, execution>>

\* decide_capability: a grant of a task that does not run is rejected.
DecideCapability(t) ==
    /\ grant[t] = "pending"
    /\ \E answer \in {"approved", "rejected"} :
           grant' = [grant EXCEPT ![t] = IF TaskIs(t, "running") THEN answer ELSE "rejected"]
    /\ UNCHANGED <<tasks, execution>>

-----------------------------------------------------------------------------
(* Stage 5 traceability: tool audit is durable.  The status of a tool call *)
(* is decided once, although the executing coroutine, a cancelling client, *)
(* a control command and the recovery all record one.                      *)
CallFinal == [][\A c \in Calls : call[c] \in TerminalCalls => call'[c] = call[c]]_call

=============================================================================
