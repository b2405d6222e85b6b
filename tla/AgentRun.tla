------------------------------- MODULE AgentRun -------------------------------
(***************************************************************************)
(* The agent runs of one room.  A client creates a run under a request key *)
(* and streams it: the primary model drafts (P0), the reviewers assigned   *)
(* to the room review (P1), and the primary reconciles (P2R).  The run     *)
(* executes inside the generator its client reads, so the client can end   *)
(* it at any time: as a cancellation while the generator awaits something, *)
(* or silently while it is suspended at a yield.  Cancel, control commands *)
(* and the recovery after a restart write the same rows.                   *)
(*                                                                         *)
(* A write transaction is one action.  What lies between two transactions  *)
(* of a run, the call of the model in particular, is not atomic.           *)
(***************************************************************************)
EXTENDS Naturals, FiniteSets

CONSTANTS
    Runs,             \* request keys of the room, each names one run
    Formal,           \* those of formal runs
    MaxStreams,       \* bound on the streams a client opens of one run
    MaxDisturbances   \* bound on what is not a step of a run

ASSUME AgentRunAssumption ==
    /\ Formal \subseteq Runs
    /\ MaxStreams \in Nat /\ MaxDisturbances \in Nat

VARIABLES
    run,          \* the rows of the runs
    call,         \* status of the model call of each phase of each run
    at,           \* where the generator of each run is; registered unless "off"
    panel,        \* the reviewers a running generator has read
    event,        \* runs whose cancellation event is set
    answered,     \* runs whose answer is a message of the room
    streams,      \* streams opened of each run
    cancelTodo,   \* cancel requests that found no generator
    control,      \* a control command is between its two transactions
    reviewers,    \* reviewers assigned to the room
    room,         \* what the room takes
    workflow,     \* status of the workflow
    disturbances  \* so far

vars == <<run, call, at, panel, event, answered, streams, cancelTodo, control,
          reviewers, room, workflow, disturbances>>
generators == <<at, panel, event>>
rows == <<run, call, answered>>
surroundings == <<reviewers, room, workflow>>
requests == <<streams, cancelTodo, control>>

Reviewers == {"A", "B"}
Phases == {"P0", "P2R"} \cup Reviewers
RunStates == {"none", "pending", "running", "succeeded", "partial", "failed", "cancelled"}
Active == {"pending", "running"}
CallStates == {"none", "streaming", "succeeded", "failed", "cancelled"}
Places == {"off", "preparing", "between", "failing", "cancelling", "done"} \cup Phases

(* A run as agent_runs keeps it: the output is that of a phase. *)
Row == [status : RunStates, output : {"none", "P0", "P2R"}]
(* Its calls in model_calls, one of each phase. *)
Calls == [Phases -> CallStates]

Init ==
    /\ run = [k \in Runs |-> [status |-> "none", output |-> "none"]]
    /\ call = [k \in Runs |-> [c \in Phases |-> "none"]]
    /\ at = [k \in Runs |-> "off"]
    /\ panel = [k \in Runs |-> {}]
    /\ event = {} /\ answered = {}
    /\ streams = [k \in Runs |-> 0]
    /\ cancelTodo = {} /\ control = FALSE
    /\ reviewers = Reviewers
    /\ room = "open" /\ workflow = "running"
    /\ disturbances = 0

Disturbance == disturbances < MaxDisturbances /\ disturbances' = disturbances + 1

Status(k) == run[k].status

(* update_run and update_call set the whole outcome of a row. *)
UpdateRun(k, status, output) == run' = [run EXCEPT ![k] = [status |-> status, output |-> output]]
UpdateCall(k, c, status) == call' = [call EXCEPT ![k][c] = status]

(* append_message: a room that is open for consultation or archived takes *)
(* no message of a run.                                                   *)
TakesMessages == room # "closed"
ActiveRuns == {k \in Runs : Status(k) \in Active}

-----------------------------------------------------------------------------
(* create_run; a key that names a run already returns that run. *)
CreateRun(k) ==
    /\ Status(k) = "none"
    /\ ActiveRuns = {}
    /\ room = "open"
    /\ k \in Formal => reviewers = Reviewers
    /\ run' = [run EXCEPT ![k].status = "pending"]
    /\ UNCHANGED <<call, answered, generators, requests, surroundings, disturbances>>

(* stream_run: one generator of a run at a time. *)
OpenStream(k) ==
    /\ Status(k) # "none" /\ at[k] = "off"
    /\ streams[k] < MaxStreams
    /\ streams' = [streams EXCEPT ![k] = @ + 1]
    /\ at' = [at EXCEPT ![k] = "preparing"]
    /\ UNCHANGED <<rows, panel, event, cancelTodo, control, surroundings, disturbances>>

Goes(k, place) == at' = [at EXCEPT ![k] = place]

(* _prepare_run: the run starts with a message of the user in the room; any *)
(* other run than a pending one is refused by an error like the others.     *)
Prepare(k) ==
    /\ at[k] = "preparing"
    /\ IF Status(k) = "pending" /\ TakesMessages
       THEN /\ UpdateRun(k, "running", "none")
            /\ panel' = [panel EXCEPT ![k] = reviewers]
            /\ Goes(k, "between")
       ELSE Goes(k, "failing") /\ UNCHANGED <<run, panel>>
    /\ UNCHANGED <<call, answered, event, requests, surroundings, disturbances>>

(* A profile that is disabled, or an instruction file that cannot be read. *)
PrepareFails(k) ==
    /\ at[k] = "preparing" /\ Status(k) = "pending" /\ Disturbance
    /\ Goes(k, "failing")
    /\ run' \in {run, [run EXCEPT ![k].status = "running"]}
    /\ UNCHANGED <<call, answered, panel, event, requests, surroundings>>

-----------------------------------------------------------------------------
Reviews(k) == {call[k][r] : r \in panel[k]}

(* Reconciliation needs a review, and all of them if the run is formal. *)
Reconciles(k) ==
    /\ "succeeded" \in Reviews(k)
    /\ k \in Formal => "failed" \notin Reviews(k)

(* The calls that may come next: P0, reviewer A, reviewer B, P2R. *)
NextCalls(k) ==
    {c \in Phases : /\ call[k][c] = "none"
                    /\ CASE c = "P0" -> TRUE
                         [] c \in Reviewers -> c \in panel[k] /\ call[k]["P0"] # "none"
                         [] OTHER -> "none" \notin Reviews(k) /\ Reconciles(k)
                    /\ c = "B" /\ "A" \in panel[k] => call[k]["A"] # "none"}

OpenCall(k) ==
    /\ at[k] = "between"
    /\ \E c \in NextCalls(k) :
           /\ UpdateCall(k, c, "streaming")
           /\ Goes(k, c)
    /\ UNCHANGED <<run, answered, panel, event, requests, surroundings, disturbances>>

(* _complete_call and _fail_call: both insist on the version the call had   *)
(* when it was opened, so a call that was cancelled meanwhile is an error.  *)
EndCall(k, status) ==
    /\ at[k] \in Phases
    /\ IF call[k][at[k]] = "streaming"
       THEN /\ UpdateCall(k, at[k], status)
            /\ Goes(k, IF status = "failed" /\ at[k] = "P0" THEN "failing" ELSE "between")
       ELSE Goes(k, "failing") /\ UNCHANGED call
    /\ UNCHANGED <<run, answered, panel, event, requests, surroundings, disturbances>>

(* An error that is neither the adapter's nor a DomainError; the row of the *)
(* call is left as it is.                                                   *)
CallBreaks(k) ==
    /\ at[k] \in Phases /\ Disturbance
    /\ Goes(k, "failing")
    /\ UNCHANGED <<rows, panel, event, requests, surroundings>>

(* _cancel_call: the row of a call that still streams is cancelled. *)
CallCancelled(k) ==
    IF call[k][at[k]] = "streaming" THEN UpdateCall(k, at[k], "cancelled") ELSE UNCHANGED call

(* The adapter hears the cancellation event. *)
CancelCall(k) ==
    /\ at[k] \in Phases /\ k \in event
    /\ CallCancelled(k)
    /\ Goes(k, "cancelling")
    /\ UNCHANGED <<run, answered, panel, event, requests, surroundings, disturbances>>

-----------------------------------------------------------------------------
(* Mutation of Ending: the review is taken for the result. *)
EndingReview(k) ==
    [status |-> "succeeded", output |-> IF panel[k] = {} THEN "P0" ELSE "A", answers |-> TRUE]

(* Mutation of Ending: nobody looks whether the reconciliation failed. *)
EndingUnreconciled(k) ==
    [status |-> IF "failed" \in Reviews(k) THEN "partial" ELSE "succeeded",
     output |-> IF call[k]["P2R"] = "none" THEN "P0" ELSE "P2R",
     answers |-> TRUE]

(* What the run ends as when no call is left, and whether its output         *)
(* becomes a message.                                                        *)
Ending(k) ==
    LET failedReview == "failed" \in Reviews(k) IN
    CASE k \in Formal /\ failedReview ->
             [status |-> "partial", output |-> "P0", answers |-> FALSE]
      [] call[k]["P2R"] = "failed" ->
             [status |-> "partial", output |-> "P0", answers |-> FALSE]
      [] OTHER ->
             [status |-> IF failedReview THEN "partial" ELSE "succeeded",
              output |-> IF call[k]["P2R"] = "succeeded" THEN "P2R" ELSE "P0",
              answers |-> TRUE]

(* _finish_run reads the version it compares, so it never loses to anybody. *)
Finish(k) ==
    /\ at[k] = "between" /\ NextCalls(k) = {}
    /\ IF Ending(k).answers /\ ~TakesMessages
       THEN Goes(k, "failing") /\ UNCHANGED <<run, answered>>
       ELSE /\ UpdateRun(k, Ending(k).status, Ending(k).output)
            /\ answered' = IF Ending(k).answers THEN answered \cup {k} ELSE answered
            /\ Goes(k, "done")
    /\ UNCHANGED <<call, panel, event, requests, surroundings, disturbances>>

(* _finish_run_failure *)
Fail(k) ==
    /\ at[k] = "failing"
    /\ UpdateRun(k, "failed", "none")
    /\ Goes(k, "done")
    /\ UNCHANGED <<call, answered, panel, event, requests, surroundings, disturbances>>

(* The generator ends and its registration with it. *)
Off(k) ==
    /\ Goes(k, "off")
    /\ panel' = [panel EXCEPT ![k] = {}]
    /\ event' = event \ {k}

(* Mutation of FinishCancelled: a run that executes is left alone as well. *)
FinishCancelledPending(k) ==
    /\ at[k] = "cancelling"
    /\ IF Status(k) = "pending" THEN UpdateRun(k, "cancelled", "none") ELSE UNCHANGED run
    /\ Off(k)
    /\ UNCHANGED <<call, answered, requests, surroundings, disturbances>>

(* _finish_run_cancelled leaves a run alone that is terminal. *)
FinishCancelled(k) ==
    /\ at[k] = "cancelling"
    /\ IF Status(k) \in Active THEN UpdateRun(k, "cancelled", "none") ELSE UNCHANGED run
    /\ Off(k)
    /\ UNCHANGED <<call, answered, requests, surroundings, disturbances>>

CloseStream(k) ==
    /\ at[k] = "done"
    /\ Off(k)
    /\ UNCHANGED <<rows, requests, surroundings, disturbances>>

-----------------------------------------------------------------------------
(* The client leaves while the generator awaits: a cancellation.  Only       *)
(* while the adapter streams does the call hear of it, not while its secret  *)
(* is resolved or its outcome written.                                       *)
LeaveInAwait(k) ==
    /\ at[k] \in Phases \cup {"preparing", "between"} /\ Disturbance
    /\ Goes(k, "cancelling")
    /\ event' = event \cup {k}
    /\ \/ at[k] \in Phases /\ CallCancelled(k)
       \/ UNCHANGED call
    /\ UNCHANGED <<run, answered, panel, requests, surroundings>>

(* The client leaves while the generator is suspended at a yield, or while  *)
(* it records a failure: the generator ends where it is.                    *)
LeaveAtYield(k) ==
    /\ at[k] \in Phases \cup {"between", "failing"} /\ Disturbance
    /\ Off(k)
    /\ UNCHANGED <<rows, requests, surroundings>>

(* cancel_run: the event of a registered run, or, in a later transaction,   *)
(* the row of a pending one; any other run is not cancellable.  A generator *)
(* that finishes no longer looks at its event.                              *)
CancelRun(k) ==
    /\ \/ at[k] = "off" /\ Status(k) = "pending"
       \/ at[k] \in Phases \cup {"preparing", "between"}
    /\ IF at[k] # "off"
       THEN event' = event \cup {k} /\ UNCHANGED cancelTodo
       ELSE cancelTodo' = cancelTodo \cup {k} /\ UNCHANGED event
    /\ UNCHANGED <<rows, at, panel, streams, control, surroundings, disturbances>>

(* Mutation of CancelPending: the status is not read again. *)
CancelPendingAny(k) ==
    /\ k \in cancelTodo
    /\ cancelTodo' = cancelTodo \ {k}
    /\ run' = [run EXCEPT ![k].status = "cancelled"]
    /\ UNCHANGED <<call, answered, generators, streams, control, surroundings,
                   disturbances>>

CancelPending(k) ==
    /\ k \in cancelTodo
    /\ cancelTodo' = cancelTodo \ {k}
    /\ run' = [run EXCEPT ![k].status = IF @ = "pending" THEN "cancelled" ELSE @]
    /\ UNCHANGED <<call, answered, generators, streams, control, surroundings,
                   disturbances>>

-----------------------------------------------------------------------------
(* Mutation of CancelActive: a run that nobody streams yet is forgotten. *)
CancelExecuting ==
    /\ run' = [k \in Runs |-> IF Status(k) = "running" THEN [run[k] EXCEPT !.status = "cancelled"]
                              ELSE run[k]]
    /\ call' = [k \in Runs |-> [c \in Phases |->
                   IF Status(k) = "running" /\ call[k][c] = "streaming" THEN "cancelled"
                   ELSE call[k][c]]]

(* cancel_agent_runs *)
CancelActive ==
    /\ run' = [k \in Runs |-> IF k \in ActiveRuns THEN [run[k] EXCEPT !.status = "cancelled"]
                              ELSE run[k]]
    /\ call' = [k \in Runs |-> [c \in Phases |->
                   IF k \in ActiveRuns /\ call[k][c] = "streaming" THEN "cancelled"
                   ELSE call[k][c]]]

(* control_workflow reads the active runs and cancels those that execute... *)
ControlReads ==
    /\ ~control /\ Disturbance
    /\ control' = TRUE
    /\ event' = event \cup {k \in ActiveRuns : at[k] \in Phases \cup {"preparing", "between"}}
    /\ UNCHANGED <<rows, at, panel, streams, cancelTodo, surroundings>>

(* ... and writes the rows in a second transaction, if its version holds. *)
ControlWrites ==
    /\ control
    /\ control' = FALSE
    /\ \/ /\ workflow = "running" /\ workflow' = "paused" /\ UNCHANGED room
          /\ CancelActive
       \/ /\ workflow = "paused" /\ workflow' = "running" /\ UNCHANGED room
          /\ CancelActive
       \/ /\ workflow # "stopped" /\ workflow' = "stopped" /\ room' = "closed"
          /\ CancelActive
       \/ UNCHANGED <<workflow, room, run, call>>
    /\ UNCHANGED <<answered, generators, streams, cancelTodo, reviewers, disturbances>>

(* The process restarts; recover_incomplete sees running workflows only, and *)
(* of these the calls of active runs only.                                   *)
Recovers == workflow = "running" /\ ActiveRuns # {}

Restart ==
    /\ Disturbance
    /\ at' = [k \in Runs |-> "off"]
    /\ panel' = [k \in Runs |-> {}]
    /\ event' = {} /\ cancelTodo' = {} /\ control' = FALSE
    /\ IF Recovers
       THEN /\ CancelActive
            /\ workflow' = "interrupted"
            /\ room' = IF room = "open" THEN "shut" ELSE room
       ELSE UNCHANGED <<run, call, workflow, room>>
    /\ UNCHANGED <<answered, streams, reviewers>>

(* The recovery is resolved: the stage is discussed again. *)
ResumeRecovery ==
    /\ workflow = "interrupted" /\ workflow' = "running"
    /\ room' = IF room = "shut" THEN "open" ELSE room
    /\ UNCHANGED <<rows, generators, requests, reviewers, disturbances>>

(* Transitions, completion and reopening of the stage, which an active run  *)
(* blocks: the room takes runs, only messages, or nothing of a run.         *)
MoveStage ==
    /\ ActiveRuns = {} /\ room # "closed" /\ Disturbance
    /\ room' \in {"open", "shut", "closed"} \ {room}
    /\ UNCHANGED <<rows, generators, requests, reviewers, workflow>>

(* assign_room asks neither for the state of the room nor for its runs. *)
AssignRoom ==
    /\ Disturbance
    /\ reviewers' \in SUBSET Reviewers \ {reviewers}
    /\ UNCHANGED <<rows, generators, requests, room, workflow>>

-----------------------------------------------------------------------------
Step(k) ==
    \/ Prepare(k) \/ OpenCall(k) \/ EndCall(k, "succeeded") \/ EndCall(k, "failed")
    \/ CancelCall(k) \/ Finish(k) \/ Fail(k) \/ FinishCancelled(k) \/ CloseStream(k)

Next ==
    \/ \E k \in Runs :
           \/ CreateRun(k) \/ OpenStream(k) \/ Step(k)
           \/ PrepareFails(k) \/ CallBreaks(k) \/ LeaveInAwait(k) \/ LeaveAtYield(k)
           \/ CancelRun(k) \/ CancelPending(k)
    \/ ControlReads \/ ControlWrites
    \/ Restart \/ ResumeRecovery \/ MoveStage \/ AssignRoom

Spec == Init /\ [][Next]_vars
-----------------------------------------------------------------------------
(* Every variable holds values of its type. *)
TypeOK ==
    /\ run \in [Runs -> Row]
    /\ call \in [Runs -> Calls]
    /\ at \in [Runs -> Places]
    /\ panel \in [Runs -> SUBSET Reviewers]
    /\ event \subseteq Runs /\ answered \subseteq Runs
    /\ cancelTodo \subseteq Runs
    /\ streams \in [Runs -> 0..MaxStreams]
    /\ control \in BOOLEAN
    /\ reviewers \subseteq Reviewers
    /\ room \in {"open", "shut", "closed"}
    /\ workflow \in {"running", "paused", "stopped", "interrupted"}
    /\ disturbances \in 0..MaxDisturbances

(* A room has one active run at most, and stays open for discussion while it *)
(* has one: no transition, control command or recovery of its workflow       *)
(* leaves an active run behind in a room that takes none.                    *)
ActiveInOpenRoom ==
    \A k \in ActiveRuns : ActiveRuns = {k} /\ room = "open"

(* A generator that ends settles its run, whoever cancels it and whatever    *)
(* fails, but in two cases: the client leaves at a yield or while a failure  *)
(* is recorded, or the process restarts and the workflow is not one that     *)
(* recovery looks at.                                                        *)
RunsEndSettled ==
    [][\A k \in Runs : at[k] # "off" /\ at'[k] = "off" /\ Status(k)' = "running" =>
           LeaveAtYield(k) \/ (Restart /\ workflow # "running")]_vars

(* An answer is kept: no late cancel, control command or recovery takes the *)
(* output of a run away, as long as nobody streams the run again.           *)
AnswerKept ==
    [][\A k \in Runs : run[k].output # "none" /\ streams[k] <= 1 => run'[k] = run[k]]_vars

(* What is in the room as an answer is the output of a run that succeeded,   *)
(* in part at least, and whose calls have all ended.                         *)
AnswersBacked ==
    \A k \in answered : streams[k] <= 1 =>
        /\ run[k].output # "none"
        /\ call[k][run[k].output] = "succeeded"

(* What the traceability document says of disconnects and cancellations:     *)
(* they persist "cancelled" for the active call and the run.                 *)
CancellationPersists ==
    \A k \in Runs : at[k] = "off" /\ Status(k) = "cancelled" =>
        \A c \in Phases : call[k][c] # "streaming"

=============================================================================
