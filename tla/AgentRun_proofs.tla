---------------------------- MODULE AgentRun_proofs ----------------------------
(***************************************************************************)
(* Proofs about the agent runs of a room, for any number of runs, streams  *)
(* and disturbances.                                                       *)
(***************************************************************************)
EXTENDS AgentRun, TLAPS

USE DEF generators, rows, surroundings, requests, Active, Status

-----------------------------------------------------------------------------
(* What the steps are made of keeps the types. *)
LEMMA UpdateCallType ==
    ASSUME call \in [Runs -> Calls], NEW k \in Runs, NEW c \in Phases, NEW s \in CallStates,
           UpdateCall(k, c, s)
    PROVE  call' \in [Runs -> Calls]
BY DEF UpdateCall, Calls

LEMMA UpdateRunType ==
    ASSUME run \in [Runs -> Row], NEW k \in Runs, NEW s \in RunStates,
           NEW o \in {"none", "P0", "P2R"}, UpdateRun(k, s, o)
    PROVE  run' \in [Runs -> Row]
BY DEF UpdateRun, Row

LEMMA UpdateStatusType ==
    ASSUME run \in [Runs -> Row], NEW k \in Runs, NEW s \in RunStates
    PROVE  [run EXCEPT ![k].status = s] \in [Runs -> Row]
BY DEF Row

LEMMA GoesType ==
    ASSUME at \in [Runs -> Places], NEW k \in Runs, NEW place \in Places, Goes(k, place)
    PROVE  at' \in [Runs -> Places]
BY DEF Goes

LEMMA OffType ==
    ASSUME TypeOK, NEW k \in Runs, Off(k)
    PROVE  /\ at' \in [Runs -> Places] /\ panel' \in [Runs -> SUBSET Reviewers]
           /\ event' \subseteq Runs
<1>1. at' \in [Runs -> Places]
  BY GoesType DEF Off, TypeOK, Places
<1>. QED
  BY <1>1 DEF Off, TypeOK

LEMMA DisturbanceType ==
    ASSUME disturbances \in 0..MaxDisturbances, Disturbance
    PROVE  disturbances' \in 0..MaxDisturbances
BY AgentRunAssumption DEF Disturbance

LEMMA CallCancelledType ==
    ASSUME call \in [Runs -> Calls], NEW k \in Runs, at[k] \in Phases, CallCancelled(k)
    PROVE  call' \in [Runs -> Calls]
BY UpdateCallType DEF CallCancelled, CallStates

LEMMA CancelActiveType ==
    ASSUME run \in [Runs -> Row], call \in [Runs -> Calls], CancelActive
    PROVE  run' \in [Runs -> Row] /\ call' \in [Runs -> Calls]
<1>1. run' \in [Runs -> Row]
  BY DEF CancelActive, Row, RunStates
<1>2. call' \in [Runs -> Calls]
  BY DEF CancelActive, Calls, CallStates
<1>. QED
  BY <1>1, <1>2

(* What Ending says fits into a row. *)
LEMMA EndingType ==
    ASSUME NEW k \in Runs
    PROVE  Ending(k).status \in RunStates /\ Ending(k).output \in {"none", "P0", "P2R"}
BY DEF Ending, RunStates

(* Every variable keeps its type: in particular a row never gets an outcome  *)
(* the tables do not know.                                                   *)
THEOREM TypeCorrect == Spec => []TypeOK
<1>1. Init => TypeOK
  <2>. SUFFICES ASSUME Init PROVE TypeOK
    OBVIOUS
  <2>1. run \in [Runs -> Row] /\ call \in [Runs -> Calls]
    BY DEF Init, Row, RunStates, Calls, CallStates
  <2>2. at \in [Runs -> Places] /\ panel \in [Runs -> SUBSET Reviewers]
    BY DEF Init, Places
  <2>3. streams \in [Runs -> 0..MaxStreams] /\ disturbances \in 0..MaxDisturbances
    BY AgentRunAssumption DEF Init
  <2>. QED
    BY <2>1, <2>2, <2>3 DEF Init, TypeOK
<1>2. TypeOK /\ [Next]_vars => TypeOK'
  <2>. SUFFICES ASSUME TypeOK, [Next]_vars PROVE TypeOK'
    OBVIOUS
  <2>. USE DEF TypeOK, RunStates, CallStates, Places
  <2>1. ASSUME NEW k \in Runs, CreateRun(k) PROVE TypeOK'
    BY <2>1, UpdateStatusType DEF CreateRun
  <2>2. ASSUME NEW k \in Runs, OpenStream(k) PROVE TypeOK'
    <3>1. streams[k] + 1 \in 0..MaxStreams
      BY <2>2, AgentRunAssumption DEF OpenStream
    <3>. QED
      BY <2>2, <3>1 DEF OpenStream
  <2>3. ASSUME NEW k \in Runs, Step(k) PROVE TypeOK'
    <3>1. CASE Prepare(k)
      <4>1. run' \in [Runs -> Row] /\ at' \in [Runs -> Places]
        BY <3>1, UpdateRunType, GoesType DEF Prepare
      <4>2. panel' \in [Runs -> SUBSET Reviewers]
        BY <3>1 DEF Prepare
      <4>. QED
        BY <3>1, <4>1, <4>2 DEF Prepare
    <3>2. CASE OpenCall(k)
      BY <3>2, UpdateCallType, GoesType DEF OpenCall, NextCalls
    <3>3. ASSUME NEW status \in {"succeeded", "failed"}, EndCall(k, status) PROVE TypeOK'
      BY <3>3, UpdateCallType, GoesType DEF EndCall
    <3>4. CASE CancelCall(k)
      BY <3>4, CallCancelledType, GoesType DEF CancelCall
    <3>5. CASE Finish(k)
      BY <3>5, EndingType, UpdateRunType, GoesType DEF Finish
    <3>6. CASE Fail(k)
      BY <3>6, UpdateRunType, GoesType DEF Fail
    <3>7. CASE FinishCancelled(k)
      BY <3>7, UpdateRunType, OffType DEF FinishCancelled
    <3>8. CASE CloseStream(k)
      BY <3>8, OffType DEF CloseStream
    <3>. QED
      BY <2>3, <3>1, <3>2, <3>3, <3>4, <3>5, <3>6, <3>7, <3>8 DEF Step
  <2>4. ASSUME NEW k \in Runs, PrepareFails(k) PROVE TypeOK'
    <3>1. run' \in [Runs -> Row]
      <4>1. run \in [Runs -> Row] /\ "running" \in RunStates
        BY DEF TypeOK, RunStates
      <4>2. [run EXCEPT ![k].status = "running"] \in [Runs -> Row]
        BY <4>1, UpdateStatusType
      <4>. QED
        BY <2>4, <4>1, <4>2 DEF PrepareFails
    <3>. QED
      BY <2>4, <3>1, GoesType, DisturbanceType DEF PrepareFails
  <2>5. ASSUME NEW k \in Runs, CallBreaks(k) PROVE TypeOK'
    BY <2>5, GoesType, DisturbanceType DEF CallBreaks
  <2>6. ASSUME NEW k \in Runs, LeaveInAwait(k) PROVE TypeOK'
    BY <2>6, CallCancelledType, GoesType, DisturbanceType DEF LeaveInAwait
  <2>7. ASSUME NEW k \in Runs, LeaveAtYield(k) PROVE TypeOK'
    BY <2>7, OffType, DisturbanceType DEF LeaveAtYield
  <2>8. ASSUME NEW k \in Runs, CancelRun(k) PROVE TypeOK'
    BY <2>8 DEF CancelRun
  <2>9. ASSUME NEW k \in Runs, CancelPending(k) PROVE TypeOK'
    <3>1. run' \in [Runs -> Row]
      BY <2>9 DEF CancelPending, Row
    <3>. QED
      BY <2>9, <3>1 DEF CancelPending
  <2>10. CASE ControlReads
    <3>1. event' \subseteq Runs
      BY <2>10 DEF ControlReads, ActiveRuns
    <3>. QED
      BY <2>10, <3>1, DisturbanceType DEF ControlReads
  <2>11. CASE ControlWrites
    BY <2>11, CancelActiveType DEF ControlWrites
  <2>12. CASE Restart
    <3>1. run' \in [Runs -> Row] /\ call' \in [Runs -> Calls]
      BY <2>12, CancelActiveType DEF Restart
    <3>2. at' \in [Runs -> Places] /\ panel' \in [Runs -> SUBSET Reviewers]
      BY <2>12 DEF Restart
    <3>3. /\ workflow' \in {"running", "paused", "stopped", "interrupted"}
          /\ room' \in {"open", "shut", "closed"}
      BY <2>12 DEF Restart
    <3>. QED
      BY <2>12, <3>1, <3>2, <3>3, DisturbanceType DEF Restart
  <2>13. CASE ResumeRecovery
    BY <2>13 DEF ResumeRecovery
  <2>14. CASE MoveStage
    BY <2>14, DisturbanceType DEF MoveStage
  <2>15. CASE AssignRoom
    BY <2>15, DisturbanceType DEF AssignRoom
  <2>16. CASE UNCHANGED vars
    BY <2>16 DEF vars
  <2>. QED
    BY <2>1, <2>2, <2>3, <2>4, <2>5, <2>6, <2>7, <2>8, <2>9, <2>10, <2>11, <2>12, <2>13,
       <2>14, <2>15, <2>16 DEF Next
<1>. QED
  BY <1>1, <1>2, PTL DEF Spec

-----------------------------------------------------------------------------
(* The parts of TypeOK the steps below need. *)
LEMMA Domains ==
    ASSUME TypeOK
    PROVE  /\ DOMAIN run = Runs /\ DOMAIN call = Runs /\ DOMAIN at = Runs
           /\ \A k \in Runs : /\ call[k] \in [Phases -> CallStates]
                              /\ run[k] \in Row /\ DOMAIN call[k] = Phases
BY DEF TypeOK, Calls

(* cancel_agent_runs ends rows, it makes none active. *)
LEMMA CancelActiveEffect ==
    ASSUME TypeOK, CancelActive, NEW k \in Runs
    PROVE  /\ run'[k] = IF Status(k) \in {"pending", "running"}
                         THEN [run[k] EXCEPT !.status = "cancelled"] ELSE run[k]
           /\ Status(k)' = IF Status(k) \in {"pending", "running"} THEN "cancelled" ELSE Status(k)
           /\ run'[k].output = run[k].output
           /\ \A c \in Phases : call'[k][c] = call[k][c]
                                \/ (call[k][c] = "streaming" /\ call'[k][c] = "cancelled")
<1>1. run'[k] = IF Status(k) \in {"pending", "running"}
                THEN [run[k] EXCEPT !.status = "cancelled"] ELSE run[k]
  BY DEF CancelActive, ActiveRuns
<1>2. run[k] \in Row
  BY DEF TypeOK
<1>3. \A c \in Phases : call'[k][c] = call[k][c]
                       \/ (call[k][c] = "streaming" /\ call'[k][c] = "cancelled")
  <2>1. call'[k] = [c \in Phases |-> IF k \in ActiveRuns /\ call[k][c] = "streaming"
                                     THEN "cancelled" ELSE call[k][c]]
    BY DEF CancelActive
  <2>2. ASSUME NEW c \in Phases
        PROVE  call'[k][c] = call[k][c] \/ (call[k][c] = "streaming" /\ call'[k][c] = "cancelled")
    <3>1. call'[k][c] = IF k \in ActiveRuns /\ call[k][c] = "streaming"
                        THEN "cancelled" ELSE call[k][c]
      BY <2>1
    <3>. QED
      BY <3>1
  <2>. QED
    BY <2>2
<1>. QED
  BY <1>1, <1>2, <1>3 DEF Row

(* What a step does to the active runs: it makes one active only where the   *)
(* room is open and has none, and moves the room only when none is left.     *)
ActiveStep ==
    /\ \A k \in Runs : Status(k)' \in Active =>
           Status(k) \in Active \/ (ActiveRuns = {} /\ room = "open" /\ ActiveRuns' \subseteq {k})
    /\ room' # room => ActiveRuns' = {} \/ room' = "open"

LEMMA StepActive ==
    ASSUME TypeOK, [Next]_vars
    PROVE  ActiveStep
<1>. USE Domains DEF ActiveStep, ActiveRuns, UpdateRun
<1>1. ASSUME NEW k \in Runs, CreateRun(k) PROVE ActiveStep
  <2>1. \A j \in Runs : Status(j) \notin Active /\ (j # k => Status(j)' = Status(j))
    BY <1>1 DEF CreateRun, TypeOK
  <2>. QED
    BY <1>1, <2>1 DEF CreateRun
<1>2. ASSUME NEW k \in Runs, Step(k) PROVE ActiveStep
  <2>1. \A j \in Runs : Status(j)' \in Active => Status(j) \in Active
    <3>1. CASE Prepare(k)
      BY <3>1 DEF Prepare, TypeOK
    <3>2. CASE Finish(k)
      BY <3>2 DEF Finish, Ending, TypeOK
    <3>3. CASE Fail(k)
      BY <3>3 DEF Fail, TypeOK
    <3>4. CASE FinishCancelled(k)
      BY <3>4 DEF FinishCancelled, TypeOK
    <3>5. CASE run' = run
      BY <3>5
    <3>. QED
      BY <1>2, <3>1, <3>2, <3>3, <3>4, <3>5 DEF Step, OpenCall, EndCall, CancelCall, CloseStream
  <2>2. room' = room
    BY <1>2 DEF Step, Prepare, OpenCall, EndCall, CancelCall, Finish, Fail, FinishCancelled, CloseStream
  <2>. QED
    BY <2>1, <2>2
<1>3. ASSUME NEW k \in Runs, PrepareFails(k) \/ CancelPending(k) PROVE ActiveStep
  <2>1. room' = room
    BY <1>3 DEF PrepareFails, CancelPending
  <2>2. \A j \in Runs : Status(j)' \in Active => Status(j) \in Active
    <3>1. CASE PrepareFails(k)
      <4>1. Status(k) \in Active /\ \A j \in Runs \ {k} : run'[j] = run[j]
        BY <3>1 DEF PrepareFails, TypeOK
      <4>. QED
        BY <4>1
    <3>2. CASE CancelPending(k)
      BY <3>2 DEF CancelPending, TypeOK, Row
    <3>. QED
      BY <1>3, <3>1, <3>2
  <2>. QED
    BY <2>1, <2>2
<1>4. ASSUME CancelActive PROVE ActiveRuns' = {} /\ \A k \in Runs : Status(k)' \notin Active
  BY <1>4, CancelActiveEffect
<1>5. CASE ControlWrites
  BY <1>4, <1>5 DEF ControlWrites
<1>6. CASE Restart
  BY <1>4, <1>6 DEF Restart
<1>7. CASE ResumeRecovery
  BY <1>7 DEF ResumeRecovery
<1>8. CASE MoveStage
  BY <1>8 DEF MoveStage
<1>9. CASE UNCHANGED <<run, room>>
  BY <1>9
<1>10. ASSUME NEW k \in Runs,
              OpenStream(k) \/ CallBreaks(k) \/ LeaveInAwait(k) \/ LeaveAtYield(k) \/ CancelRun(k)
       PROVE  UNCHANGED <<run, room>>
  BY <1>10 DEF OpenStream, CallBreaks, LeaveInAwait, LeaveAtYield, CancelRun
<1>. QED
  BY <1>1, <1>2, <1>3, <1>5, <1>6, <1>7, <1>8, <1>9, <1>10 DEF Next, ControlReads, AssignRoom, vars

(* However control commands, recoveries, transitions and the steps of runs   *)
(* interleave, a room has one active run at most and is open while it has.   *)
THEOREM ActiveInOpenRoomCorrect == Spec => []ActiveInOpenRoom
<1>1. Init => ActiveInOpenRoom
  BY DEF Init, ActiveInOpenRoom, ActiveRuns
<1>2. TypeOK /\ ActiveInOpenRoom /\ [Next]_vars => ActiveInOpenRoom'
  <2>. SUFFICES ASSUME TypeOK, ActiveInOpenRoom, [Next]_vars, NEW k \in ActiveRuns'
                PROVE  ActiveRuns' = {k} /\ room' = "open"
    BY DEF ActiveInOpenRoom
  <2>1. ActiveStep /\ k \in Runs /\ Status(k)' \in Active
    BY StepActive DEF ActiveRuns
  <2>2. room' = room \/ room' = "open"
    BY <2>1 DEF ActiveStep
  <2>3. CASE Status(k) \in Active
    <3>1. ActiveRuns = {k} /\ room = "open"
      BY <2>1, <2>3 DEF ActiveInOpenRoom, ActiveRuns
    <3>2. \A j \in ActiveRuns' : j \in ActiveRuns
      BY <2>1, <3>1 DEF ActiveStep, ActiveRuns
    <3>. QED
      BY <2>2, <3>1, <3>2
  <2>4. CASE Status(k) \notin Active
    BY <2>1, <2>2, <2>4 DEF ActiveStep
  <2>. QED
    BY <2>3, <2>4
<1>. QED
  BY <1>1, <1>2, TypeCorrect, PTL DEF Spec

-----------------------------------------------------------------------------
(* The end of a generator.  One that is done has settled its run, so that it *)
(* may go off without looking at it again.                                   *)
DoneSettled == \A k \in Runs : at[k] = "done" => Status(k) # "running"

LEMMA DoneStep ==
    ASSUME TypeOK, DoneSettled, [Next]_vars
    PROVE  DoneSettled'
<1>. USE Domains DEF DoneSettled, UpdateRun, Goes, Off, TypeOK
<1>1. ASSUME NEW k \in Runs, CreateRun(k) \/ OpenStream(k) \/ PrepareFails(k) \/ CancelPending(k)
      PROVE  DoneSettled'
  <2>1. CASE CreateRun(k)
    <3>1. Status(k) = "none" /\ Status(k)' = "pending" /\ at' = at
      BY <2>1 DEF CreateRun, Row
    <3>2. \A j \in Runs \ {k} : run'[j] = run[j]
      BY <2>1 DEF CreateRun
    <3>. QED
      BY <3>1, <3>2
  <2>2. CASE OpenStream(k)
    BY <2>2 DEF OpenStream
  <2>3. CASE PrepareFails(k)
    <3>1. at'[k] = "failing" /\ \A j \in Runs \ {k} : run'[j] = run[j] /\ at'[j] = at[j]
      BY <2>3 DEF PrepareFails
    <3>. QED
      BY <3>1
  <2>4. CASE CancelPending(k)
    BY <2>4 DEF CancelPending, Row
  <2>. QED
    BY <1>1, <2>1, <2>2, <2>3, <2>4
<1>2. ASSUME NEW k \in Runs, Step(k) PROVE DoneSettled'
  <2>1. CASE Prepare(k)
    BY <2>1 DEF Prepare
  <2>2. CASE OpenCall(k)
    BY <2>2 DEF OpenCall, NextCalls, Phases, Reviewers
  <2>3. ASSUME NEW status \in {"succeeded", "failed"}, EndCall(k, status) PROVE DoneSettled'
    BY <2>3 DEF EndCall
  <2>4. CASE CancelCall(k)
    BY <2>4 DEF CancelCall
  <2>5. CASE Finish(k)
    BY <2>5 DEF Finish, Ending
  <2>6. CASE Fail(k)
    BY <2>6 DEF Fail
  <2>7. CASE FinishCancelled(k)
    BY <2>7 DEF FinishCancelled
  <2>8. CASE CloseStream(k)
    BY <2>8 DEF CloseStream
  <2>. QED
    BY <1>2, <2>1, <2>2, <2>3, <2>4, <2>5, <2>6, <2>7, <2>8 DEF Step
<1>3. ASSUME NEW k \in Runs, CallBreaks(k) \/ LeaveInAwait(k) \/ LeaveAtYield(k) \/ CancelRun(k)
      PROVE  DoneSettled'
  BY <1>3 DEF CallBreaks, LeaveInAwait, LeaveAtYield, CancelRun
<1>4. ASSUME CancelActive PROVE \A k \in Runs : Status(k)' # "running"
  BY <1>4, CancelActiveEffect, ZenonT(60)
<1>5. CASE ControlWrites
  BY <1>4, <1>5 DEF ControlWrites
<1>6. CASE Restart
  BY <1>6 DEF Restart
<1>7. CASE ControlReads \/ ResumeRecovery \/ MoveStage \/ AssignRoom \/ UNCHANGED vars
  BY <1>7 DEF ControlReads, ResumeRecovery, MoveStage, AssignRoom, vars
<1>. QED
  BY <1>1, <1>2, <1>3, <1>5, <1>6, <1>7 DEF Next

LEMMA EndStep ==
    ASSUME TypeOK, DoneSettled, [Next]_vars,
           NEW k \in Runs, at[k] # "off", at'[k] = "off", Status(k)' = "running"
    PROVE  LeaveAtYield(k) \/ (Restart /\ workflow # "running")
<1>. USE Domains DEF UpdateRun, Goes, Off, TypeOK
<1>1. ASSUME NEW j \in Runs, LeaveAtYield(j) PROVE LeaveAtYield(k)
  BY <1>1 DEF LeaveAtYield
<1>2. ASSUME NEW j \in Runs, FinishCancelled(j) PROVE FALSE
  BY <1>2 DEF FinishCancelled
<1>3. ASSUME NEW j \in Runs, CloseStream(j) PROVE FALSE
  BY <1>3 DEF CloseStream, DoneSettled
<1>4. ASSUME Restart, workflow = "running" PROVE FALSE
  <2>1. CASE Recovers
    <3>1. Status(k)' = IF Status(k) \in {"pending", "running"} THEN "cancelled" ELSE Status(k)
      BY <1>4, <2>1, CancelActiveEffect DEF Restart
    <3>. QED
      BY <3>1
  <2>2. CASE ~Recovers
    BY <1>4, <2>2 DEF Restart, Recovers, ActiveRuns
  <2>. QED
    BY <2>1, <2>2
<1>5. ASSUME at' = at PROVE FALSE
  BY <1>5
<1>6. ASSUME NEW j \in Runs, NEW place \in Places \ {"off"}, Goes(j, place) PROVE FALSE
  BY <1>6 DEF Goes
<1>7. ASSUME NEW j \in Runs,
             OpenStream(j) \/ Prepare(j) \/ OpenCall(j) \/ EndCall(j, "succeeded") \/ EndCall(j, "failed")
             \/ CancelCall(j) \/ Finish(j) \/ Fail(j) \/ PrepareFails(j) \/ CallBreaks(j)
             \/ LeaveInAwait(j)
      PROVE  FALSE
  <2>1. \E place \in Places \ {"off"} : Goes(j, place)
    BY <1>7 DEF OpenStream, Prepare, OpenCall, NextCalls, EndCall, CancelCall, Finish, Fail, PrepareFails,
                CallBreaks, LeaveInAwait, Places, Phases, Reviewers
  <2>. QED
    BY <1>6, <2>1
<1>8. ASSUME \/ \E j \in Runs : CreateRun(j) \/ CancelRun(j) \/ CancelPending(j)
             \/ ControlReads \/ ControlWrites \/ ResumeRecovery \/ MoveStage \/ AssignRoom
             \/ UNCHANGED vars
      PROVE  at' = at
  BY <1>8 DEF CreateRun, CancelRun, CancelPending, ControlReads, ControlWrites, ResumeRecovery,
              MoveStage, AssignRoom, vars
<1>. QED
  BY <1>1, <1>2, <1>3, <1>4, <1>5, <1>7, <1>8 DEF Next, Step

(* A cancellation, a failure or an answer settles the run before its         *)
(* generator is gone; only a client that leaves at a yield or while a        *)
(* failure is recorded, and a restart that recovery does not see, leave a    *)
(* running row behind.                                                       *)
THEOREM RunsEndSettledCorrect == Spec => RunsEndSettled
<1>1. Init => DoneSettled
  BY DEF Init, DoneSettled
<1>2. TypeOK /\ DoneSettled /\ [Next]_vars => DoneSettled'
  BY DoneStep
<1>3. TypeOK /\ DoneSettled /\ [Next]_vars =>
         [\A k \in Runs : at[k] # "off" /\ at'[k] = "off" /\ Status(k)' = "running" =>
              LeaveAtYield(k) \/ (Restart /\ workflow # "running")]_vars
  BY EndStep
<1>. QED
  BY <1>1, <1>2, <1>3, TypeCorrect, PTL DEF Spec, RunsEndSettled

-----------------------------------------------------------------------------
(* What holds of a run that was streamed once at most.  The draft is there   *)
(* before anything else is called, a generator between two calls has ended   *)
(* the earlier ones, and an output is only there when the generator is done. *)
Streamed(k) ==
    /\ streams[k] = 0 => at[k] = "off" /\ run[k].output = "none" /\ k \notin answered
    /\ streams[k] = 0 \/ at[k] = "preparing" => \A c \in Phases : call[k][c] = "none"
    /\ at[k] = "between" =>
           /\ \A c \in Phases : call[k][c] # "streaming"
           /\ call[k]["P0"] \in {"none", "succeeded"}
    /\ at[k] \in Phases =>
           /\ \A c \in Phases : call[k][c] = "streaming" => c = at[k]
           /\ at[k] # "P0" => call[k]["P0"] = "succeeded"
    /\ call[k]["P0"] = "none" => \A r \in Reviewers : call[k][r] = "none"
    /\ run[k].output # "none" =>
           at[k] \in {"done", "off"} /\ Status(k) \in {"succeeded", "partial"}
    /\ k \in answered =>
           run[k].output # "none" /\ call[k][run[k].output] = "succeeded"

AnswerInv == \A k \in Runs : streams[k] <= 1 => Streamed(k)

(* Nothing of run j changes. *)
Untouched(j) ==
    /\ run'[j] = run[j] /\ call'[j] = call[j] /\ at'[j] = at[j]
    /\ streams'[j] = streams[j] /\ (j \in answered' <=> j \in answered)

LEMMA Frame ==
    ASSUME NEW j \in Runs, Streamed(j), Untouched(j)
    PROVE  Streamed(j)' /\ run'[j] = run[j]
BY DEF Streamed, Untouched

LEMMA StepOfRun ==
    ASSUME TypeOK, NEW k \in Runs, streams[k] <= 1, Streamed(k), Step(k)
    PROVE  Streamed(k)' /\ (run[k].output # "none" => run'[k] = run[k])
<1>. USE Domains DEF Streamed, UpdateRun, UpdateCall, Goes, Off, Phases, Reviewers, TypeOK
<1>1. CASE Prepare(k)
  BY <1>1 DEF Prepare
<1>2. CASE OpenCall(k)
  BY <1>2 DEF OpenCall, NextCalls, Reviews, Reconciles
<1>3. ASSUME NEW status \in {"succeeded", "failed"}, EndCall(k, status)
      PROVE  Streamed(k)' /\ (run[k].output # "none" => run'[k] = run[k])
  BY <1>3 DEF EndCall
<1>4. CASE CancelCall(k)
  BY <1>4 DEF CancelCall, CallCancelled
<1>5. CASE Finish(k)
  BY <1>5 DEF Finish, Ending, NextCalls
<1>6. CASE Fail(k)
  BY <1>6 DEF Fail
<1>7. CASE FinishCancelled(k)
  BY <1>7 DEF FinishCancelled
<1>8. CASE CloseStream(k)
  BY <1>8 DEF CloseStream
<1>. QED
  BY <1>1, <1>2, <1>3, <1>4, <1>5, <1>6, <1>7, <1>8 DEF Step

LEMMA StepOfOthers ==
    ASSUME TypeOK, NEW k \in Runs, NEW j \in Runs \ {k},
           \/ CreateRun(k) \/ OpenStream(k) \/ Step(k)
           \/ PrepareFails(k) \/ CallBreaks(k) \/ LeaveInAwait(k) \/ LeaveAtYield(k)
           \/ CancelRun(k) \/ CancelPending(k)
    PROVE  Untouched(j)
<1>. USE Domains DEF Untouched, UpdateRun, UpdateCall, Goes, Off
<1>1. CASE Step(k)
  BY <1>1 DEF Step, Prepare, OpenCall, EndCall, CancelCall, CallCancelled, Finish, Fail,
              FinishCancelled, CloseStream, TypeOK
<1>2. CASE CreateRun(k) \/ OpenStream(k) \/ CancelRun(k) \/ CancelPending(k)
  BY <1>2 DEF CreateRun, OpenStream, CancelRun, CancelPending, TypeOK
<1>3. CASE PrepareFails(k) \/ CallBreaks(k) \/ LeaveInAwait(k) \/ LeaveAtYield(k)
  BY <1>3 DEF PrepareFails, CallBreaks, LeaveInAwait, CallCancelled, LeaveAtYield, TypeOK
<1>. QED
  BY <1>1, <1>2, <1>3

LEMMA AnswerStep ==
    ASSUME TypeOK, AnswerInv, [Next]_vars, NEW j \in Runs
    PROVE  /\ streams'[j] <= 1 => Streamed(j)'
           /\ streams[j] <= 1 /\ run[j].output # "none" => run'[j] = run[j]
<1>. DEFINE Goal == Streamed(j)' /\ (run[j].output # "none" => run'[j] = run[j])
<1>1. ASSUME NEW k \in Runs, OpenStream(k)
      PROVE  run' = run /\ (streams'[j] <= 1 => Streamed(j)')
  <2>1. run' = run
    BY <1>1 DEF OpenStream, rows
  <2>2. CASE j # k
    BY <1>1, <2>1, <2>2, StepOfOthers, Frame DEF AnswerInv, Untouched
  <2>3. CASE j = k /\ streams'[j] <= 1
    <3>1. streams[j] = 0 /\ Streamed(j)
      BY <1>1, <2>3 DEF OpenStream, AnswerInv, TypeOK
    <3>. QED
      BY <1>1, <2>3, <3>1, Domains DEF OpenStream, Streamed, Phases, Reviewers, TypeOK
  <2>. QED
    BY <2>1, <2>2, <2>3
<1>2. ASSUME streams'[j] = streams[j], streams[j] <= 1 PROVE Goal
  <2>. Streamed(j)
    BY <1>2 DEF AnswerInv
  <2>1. ASSUME NEW k \in Runs,
               \/ CreateRun(k) \/ Step(k)
               \/ PrepareFails(k) \/ CallBreaks(k) \/ LeaveInAwait(k) \/ LeaveAtYield(k)
               \/ CancelRun(k) \/ CancelPending(k)
        PROVE  Goal
    <3>1. CASE j # k
      BY <2>1, <3>1, StepOfOthers, Frame
    <3>2. CASE j = k /\ Step(k)
      BY <1>2, <3>2, StepOfRun
    <3>. USE Domains DEF Streamed, UpdateRun, UpdateCall, Goes, Off, TypeOK
    <3>3. CASE j = k /\ CreateRun(k)
      BY <3>3 DEF CreateRun, Row
    <3>4. CASE j = k /\ PrepareFails(k)
      <4>1. run'[k].output = run[k].output
        BY <3>4 DEF PrepareFails, Row
      <4>. QED
        BY <3>4, <4>1 DEF PrepareFails, Phases, Reviewers
    <3>5. CASE j = k /\ CallBreaks(k)
      BY <3>5 DEF CallBreaks, Phases, Reviewers
    <3>6. CASE j = k /\ LeaveInAwait(k)
      BY <3>6 DEF LeaveInAwait, CallCancelled, Phases, Reviewers
    <3>7. CASE j = k /\ LeaveAtYield(k)
      BY <3>7 DEF LeaveAtYield, Phases, Reviewers
    <3>8. CASE j = k /\ CancelRun(k)
      BY <3>8 DEF CancelRun
    <3>9. CASE j = k /\ CancelPending(k)
      BY <3>9 DEF CancelPending, Row
    <3>. QED
      BY <2>1, <3>1, <3>2, <3>3, <3>4, <3>5, <3>6, <3>7, <3>8, <3>9
  <2>2. ASSUME CancelActive, answered' = answered, at'[j] \in {at[j], "off"} PROVE Goal
    <3>1. /\ run'[j].output = run[j].output
          /\ Status(j) \in {"succeeded", "partial"} => run'[j] = run[j]
      BY <2>2, CancelActiveEffect
    <3>2. \A c \in Phases : call'[j][c] = call[j][c]
                           \/ (call[j][c] = "streaming" /\ call'[j][c] = "cancelled")
      BY <2>2, CancelActiveEffect
    <3>3. "P0" \in Phases /\ "P2R" \in Phases /\ Reviewers \subseteq Phases
      BY DEF Phases
    <3>4. {"off", "done", "preparing", "between"} \cap Phases = {}
      BY DEF Phases, Reviewers
    <3>5. run[j].output \in {"none", "P0", "P2R"}
      BY DEF TypeOK, Row
    <3>. QED
      BY <1>2, <2>2, <3>1, <3>2, <3>3, <3>4, <3>5 DEF Streamed
  <2>3. CASE ControlWrites
    BY <2>2, <2>3, <1>2, Frame DEF ControlWrites, Untouched
  <2>4. CASE Restart
    <3>1. CASE CancelActive
      BY <2>2, <2>4, <3>1 DEF Restart
    <3>2. CASE UNCHANGED <<run, call, workflow, room>>
      BY <2>4, <3>2 DEF Restart, Streamed, Phases, Reviewers
    <3>. QED
      BY <2>4, <3>1, <3>2 DEF Restart
  <2>5. CASE ControlReads \/ ResumeRecovery \/ MoveStage \/ AssignRoom \/ UNCHANGED vars
    BY <2>5, Frame DEF ControlReads, ResumeRecovery, MoveStage, AssignRoom, vars, Untouched
  <2>. QED
    BY <1>1, <1>2, <2>1, <2>3, <2>4, <2>5 DEF Next
<1>3. (\E k \in Runs : OpenStream(k)) \/ streams' = streams
  BY DEF Next, Step, CreateRun, Prepare, OpenCall, EndCall, CancelCall, Finish, Fail,
         FinishCancelled, CloseStream, PrepareFails, CallBreaks, LeaveInAwait, LeaveAtYield,
         CancelRun, CancelPending, ControlReads, ControlWrites, Restart, ResumeRecovery,
         MoveStage, AssignRoom, vars
<1>. QED
  BY <1>1, <1>2, <1>3 DEF TypeOK

LEMMA AnswerInvCorrect == Spec => []AnswerInv
<1>1. Init => AnswerInv
  BY DEF Init, AnswerInv, Streamed, Phases, Reviewers
<1>2. TypeOK /\ AnswerInv /\ [Next]_vars => AnswerInv'
  BY AnswerStep DEF AnswerInv
<1>3. QED
  BY <1>1, <1>2, TypeCorrect, PTL DEF Spec

(* What is in the room as an answer is the output of a succeeded call: no    *)
(* order of failing reviews, cancellations and restarts puts anything else   *)
(* there.                                                                    *)
THEOREM AnswersBackedCorrect == Spec => []AnswersBacked
<1>1. TypeOK /\ AnswerInv => AnswersBacked
  <2>. SUFFICES ASSUME TypeOK, AnswerInv, NEW k \in answered, streams[k] <= 1
                PROVE  run[k].output # "none" /\ call[k][run[k].output] = "succeeded"
    BY DEF AnswersBacked
  <2>. QED
    BY DEF TypeOK, AnswerInv, Streamed
<1>. QED
  BY <1>1, AnswerInvCorrect, TypeCorrect, PTL

(* Nobody takes the output of a run away that is streamed once: the rows of  *)
(* late cancels, control commands and recoveries are those of active runs.   *)
THEOREM AnswerKeptCorrect == Spec => AnswerKept
<1>1. TypeOK /\ AnswerInv /\ [Next]_vars =>
         [\A k \in Runs : run[k].output # "none" /\ streams[k] <= 1 => run'[k] = run[k]]_vars
  BY AnswerStep
<1>. QED
  BY <1>1, AnswerInvCorrect, TypeCorrect, PTL DEF Spec, AnswerKept

=============================================================================
