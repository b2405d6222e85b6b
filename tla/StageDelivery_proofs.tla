------------------------- MODULE StageDelivery_proofs -------------------------
(***************************************************************************)
(* Proofs about the stages of a workflow, for any number of stages,        *)
(* attempts, tasks, artifact versions, gates, control commands and         *)
(* crashes.                                                                *)
(***************************************************************************)
EXTENDS StageDelivery, SequenceTheorems, TLAPS

USE DEF TaskRecords, ArtifactRecords, GateRecords, RecoveryRecords, ControlRecords

LEMMA RunFacts ==
    ASSUME TypeOK
    PROVE  /\ \A s \in Stages : Current(s) \in Runs /\ Current(s)[1] = s /\ Current(s)[2] = attempt[s]
           /\ CurrentRun \in Runs /\ CurrentRun[1] = cur /\ IsCurrent(CurrentRun)
           /\ \A r \in Runs : /\ r[1] \in Stages /\ r[2] \in 1..MaxAttempts
                              /\ IsCurrent(r) <=> r[2] = attempt[r[1]]
BY SMTT(30) DEF TypeOK, Current, CurrentRun, IsCurrent, Runs

LEMMA BumpType ==
    ASSUME TypeOK, Bump
    PROVE  ctl' \in ControlRecords /\ ctl'.fresh = FALSE
BY DEF TypeOK, Bump, ControlRecords

LEMMA CancelTasksType ==
    ASSUME TypeOK, NEW in, NEW runs, CancelTasks(in, runs)
    PROVE  tasks' \in Seq(TaskRecords)
<1>1. /\ tasks \in Seq(TaskRecords) /\ Len(tasks) \in Nat /\ DOMAIN tasks = 1..Len(tasks)
      /\ \A i \in 1..Len(tasks) : tasks[i] \in TaskRecords
  BY LenProperties, ElementOfSeq DEF TypeOK, TaskRecords
<1>2. tasks' \in [1..Len(tasks) -> TaskRecords]
  BY <1>1 DEF CancelTasks, TaskRecords
<1>. QED
  BY <1>1, <1>2, SeqDef

LEMMA UpdateType ==
    ASSUME NEW S, NEW seq \in Seq(S), NEW i \in DOMAIN seq, NEW x \in S
    PROVE  [seq EXCEPT ![i] = x] \in Seq(S)
BY ExceptSeq, LenProperties

LEMMA ElementType ==
    ASSUME NEW S, NEW seq \in Seq(S), NEW i \in DOMAIN seq
    PROVE  seq[i] \in S
BY LenProperties, ElementOfSeq

\* The four logs of a workflow as sequences of records.
LEMMA LogTypes ==
    ASSUME TypeOK
    PROVE  /\ tasks \in Seq(TaskRecords) /\ gates \in Seq(GateRecords)
           /\ recovery \in Seq(RecoveryRecords)
BY DEF TypeOK, TaskRecords, GateRecords, RecoveryRecords

LEMMA VoidedType ==
    ASSUME TypeOK, NEW S, Voided(S)
    PROVE  artifact' \in [Stages -> ArtifactRecords] /\ handoff' \in [Runs -> {"none", "active", "invalidated"}]
BY DEF TypeOK, Voided, ArtifactRecords

LEMMA CompletingType ==
    ASSUME TypeOK, NEW r \in Runs, Completing(r)
    PROVE  /\ state' \in [Runs -> StageStates] /\ status' \in Statuses /\ cur' \in Stages
           /\ completedAt' \in SUBSET Runs /\ started' \in SUBSET Runs
           /\ room' \in [Runs -> {"none", "active", "consultation", "archived"}]
<1>1. r[1] \in Stages /\ (r[1] # NumStages => r[1] + 1 \in Stages)
  BY DeliveryAssumption DEF Stages, Runs
<1>. QED
  BY <1>1 DEF Completing, TypeOK, StageStates, Statuses

LEMMA FinalizingType ==
    ASSUME TypeOK, NEW r \in Runs, NEW v, Finalizing(r, v)
    PROVE  /\ artifact' \in [Stages -> ArtifactRecords]
           /\ handoff' \in [Runs -> {"none", "active", "invalidated"}]
           /\ state' \in [Runs -> StageStates] /\ status' \in Statuses /\ cur' \in Stages
           /\ completedAt' \in SUBSET Runs /\ started' \in SUBSET Runs
           /\ room' \in [Runs -> {"none", "active", "consultation", "archived"}]
<1>1. artifact' \in [Stages -> ArtifactRecords]
  BY ZenonT(40) DEF Finalizing, TypeOK, ArtifactRecords
<1>2. handoff' \in [Runs -> {"none", "active", "invalidated"}]
  BY DEF Finalizing, TypeOK
<1>. QED
  BY <1>1, <1>2, CompletingType DEF Finalizing

\* Every variable keeps its type: the current stage stays a stage though
\* stages complete one after the other, and only runs that exist are named.
THEOREM TypeCorrect == Spec => []TypeOK
<1>1. Init => TypeOK
  <2>. SUFFICES ASSUME Init PROVE TypeOK
    OBVIOUS
  <2>1. /\ cur \in Stages /\ attempt \in [Stages -> 1..MaxAttempts]
        /\ <<1, 1>> \in Runs /\ controls \in 0..MaxControls
    BY DeliveryAssumption DEF Init, Stages, Runs
  <2>2. artifact \in [Stages -> ArtifactRecords]
    BY DeliveryAssumption DEF Init, ArtifactRecords
  <2>3. ctl \in ControlRecords
    BY <2>1 DEF Init, NoControl, ControlRecords
  <2>4. state \in [Runs -> StageStates]
    BY DEF Init, StageStates
  <2>5. tasks \in Seq(TaskRecords) /\ gates \in Seq(GateRecords) /\ recovery \in Seq(RecoveryRecords)
    BY EmptySeq DEF Init
  <2>. QED
    BY <2>1, <2>2, <2>3, <2>4, <2>5
    DEF Init, TypeOK, Statuses, ArtifactRecords, ControlRecords, TaskRecords, GateRecords,
        RecoveryRecords
<1>2. TypeOK /\ [Next]_vars => TypeOK'
  <2>. SUFFICES ASSUME TypeOK, [Next]_vars PROVE TypeOK'
    OBVIOUS
  <2>. USE DEF stageVars
  <2>1. CASE StartWorkflow
    BY <2>1, BumpType DEF StartWorkflow, TypeOK, Statuses, ControlRecords
  <2>2. ASSUME NEW m \in {"manual", "autonomous"}, SetMode(m) PROVE TypeOK'
    <3>1. ctl' \in ControlRecords
      BY <2>2, BumpType DEF SetMode
    <3>2. controls' \in 0..MaxControls
      BY <2>2, DeliveryAssumption DEF SetMode, TypeOK
    <3>. QED
      BY <2>2, <3>1, <3>2 DEF SetMode, TypeOK, ControlRecords
  <2>3. ASSUME NEW to \in StageStates \ {"none"}, TransitionStage(to) PROVE TypeOK'
    <3>1. CurrentRun \in Runs /\ ctl' \in ControlRecords
      BY <2>3, RunFacts, BumpType DEF TransitionStage
    <3>2. /\ state' \in [Runs -> StageStates] /\ status' \in Statuses /\ cur' \in Stages
          /\ completedAt' \in SUBSET Runs /\ started' \in SUBSET Runs
          /\ room' \in [Runs -> {"none", "active", "consultation", "archived"}]
      <4>1. CASE to = "completed" /\ Completing(CurrentRun)
        BY <3>1, <4>1, CompletingType
      <4>2. CASE /\ to \in Ended
                 /\ state' = [state EXCEPT ![CurrentRun] = to]
                 /\ status' = IF to = "abandoned" THEN "abandoned" ELSE "failed"
                 /\ room' = [room EXCEPT ![CurrentRun] = "archived"]
                 /\ UNCHANGED <<cur, started, completedAt>>
        BY <3>1, <4>2 DEF TypeOK, StageStates, Statuses, Ended
      <4>3. CASE /\ to \notin Ended \cup {"completed"}
                 /\ state' = [state EXCEPT ![CurrentRun] = to]
                 /\ started' = IF state[CurrentRun] = "ready" THEN started \cup {CurrentRun} ELSE started
                 /\ status' = "running"
                 /\ UNCHANGED <<cur, completedAt, room>>
        BY <3>1, <4>3 DEF TypeOK, Statuses
      <4>. QED
        BY <2>3, <4>1, <4>2, <4>3 DEF TransitionStage
    <3>. QED
      BY <2>3, <3>1, <3>2 DEF TransitionStage, TypeOK, ControlRecords
  <2>4. ASSUME NEW s \in Stages, ReopenStage(s) PROVE TypeOK'
    <3>1. /\ artifact' \in [Stages -> ArtifactRecords]
          /\ handoff' \in [Runs -> {"none", "active", "invalidated"}]
          /\ tasks' \in Seq(TaskRecords) /\ ctl' \in ControlRecords
      BY <2>4, VoidedType, CancelTasksType, BumpType DEF ReopenStage, InvalidateFrom
    <3>2. attempt' \in [Stages -> 1..MaxAttempts]
      <4>1. \A t \in Stages : t >= s => attempt[t] \in 1..MaxAttempts /\ attempt[t] < MaxAttempts
        BY <2>4, DeliveryAssumption DEF ReopenStage, TypeOK, Stages
      <4>2. \A t \in Stages : t >= s => attempt[t] + 1 \in 1..MaxAttempts
        BY <4>1, DeliveryAssumption
      <4>. QED
        BY <2>4, <4>2 DEF ReopenStage, TypeOK
    <3>3. state' \in [Runs -> StageStates]
      BY <2>4 DEF ReopenStage, TypeOK, StageStates
    <3>4. room' \in [Runs -> {"none", "active", "consultation", "archived"}]
      BY <2>4 DEF ReopenStage, TypeOK
    <3>. QED
      BY <2>4, <3>1, <3>2, <3>3, <3>4
      DEF ReopenStage, TypeOK, ArtifactRecords, ControlRecords, TaskRecords, Statuses
  <2>5. ASSUME NEW r \in Runs, EnqueueTask(r) PROVE TypeOK'
    <3>1. tasks' \in Seq(TaskRecords)
      BY <2>5, AppendProperties DEF EnqueueTask, TypeOK, TaskRecords
    <3>. QED
      BY <2>5, <3>1 DEF EnqueueTask, TypeOK, TaskRecords
  <2>6. ASSUME NEW i \in DOMAIN tasks, StartTask(i) \/ CompleteTask(i) \/ CancelTask(i)
        PROVE  TypeOK'
    <3>1. /\ tasks \in Seq(TaskRecords) /\ tasks[i] \in TaskRecords
      BY LogTypes, ElementType
    <3>2. tasks' = [tasks EXCEPT ![i] = [tasks[i] EXCEPT !.status = "running"]]
          \/ tasks' = [tasks EXCEPT ![i] = [tasks[i] EXCEPT !.status = "ended"]]
      BY <2>6 DEF StartTask, CompleteTask, CancelTask
    <3>3. tasks' \in Seq(TaskRecords)
      BY <3>1, <3>2, UpdateType DEF TaskRecords
    <3>. QED
      BY <2>6, <3>3 DEF StartTask, CompleteTask, CancelTask, TypeOK, TaskRecords
  <2>7. ASSUME NEW r \in Runs, CreateAgentRun(r) PROVE TypeOK'
    BY <2>7 DEF CreateAgentRun, TypeOK
  <2>8. ASSUME NEW r \in Runs, NEW o \in {"succeeded", "failed"}, FinishAgentRun(r, o)
        PROVE  TypeOK'
    BY <2>8 DEF FinishAgentRun, TypeOK
  <2>9. ASSUME NEW r \in Runs, CreateArtifactVersion(r) PROVE TypeOK'
    <3>1. artifact' \in [Stages -> ArtifactRecords]
      <4>1. artifact[cur] \in ArtifactRecords /\ r[2] \in 0..MaxAttempts
        BY DeliveryAssumption DEF TypeOK, ArtifactRecords, Runs
      <4>2. artifact[cur].version + 1 \in 0..MaxVersions
        BY <2>9, <4>1, DeliveryAssumption DEF CreateArtifactVersion, ArtifactRecords
      <4>3. [version |-> artifact[cur].version + 1, attempt |-> r[2], status |-> "draft"] \in ArtifactRecords
        BY <4>1, <4>2 DEF ArtifactRecords
      <4>. QED
        BY <2>9, <4>3 DEF CreateArtifactVersion, TypeOK, ArtifactRecords
    <3>. QED
      BY <2>9, <3>1 DEF CreateArtifactVersion, TypeOK, ArtifactRecords
  <2>10. ASSUME NEW r \in Runs, NEW v \in {"fail", "warning", "pass"}, EvaluateGate(r, v)
         PROVE  TypeOK'
    <3>1. ctl' \in ControlRecords
      BY <2>10, BumpType DEF EvaluateGate
    <3>2. CASE /\ gates' = Append(gates, [run |-> r, version |-> artifact[cur].version,
                                          open |-> TRUE])
               /\ state' = [state EXCEPT ![r] = "waiting_approval"]
               /\ status' = "waiting_user"
               /\ UNCHANGED <<cur, started, completedAt, room, artifact, handoff>>
      <4>1. gates' \in Seq(GateRecords)
        <5>1. [run |-> r, version |-> artifact[cur].version, open |-> TRUE] \in GateRecords
          BY DEF TypeOK, GateRecords
        <5>. QED
          BY <3>2, <5>1, AppendProperties DEF TypeOK, GateRecords
      <4>2. state' \in [Runs -> StageStates] /\ status' \in Statuses
        BY <3>2 DEF TypeOK, StageStates, Statuses
      <4>. QED
        BY <2>10, <3>1, <3>2, <4>1, <4>2 DEF EvaluateGate, TypeOK, GateRecords, ControlRecords
    <3>3. CASE Finalizing(r, artifact[cur].version) /\ UNCHANGED gates
      BY <2>10, <3>1, <3>3, FinalizingType
      DEF EvaluateGate, TypeOK, ArtifactRecords, ControlRecords
    <3>4. CASE /\ state' = [state EXCEPT ![r] =
                      IF v = "warning" THEN "warning_blocked" ELSE "needs_fix"]
               /\ status' = IF v = "warning" THEN "warning_blocked" ELSE "running"
               /\ UNCHANGED <<cur, started, completedAt, room, artifact, handoff, gates>>
      <4>1. state' \in [Runs -> StageStates] /\ status' \in Statuses
        BY <3>4 DEF TypeOK, StageStates, Statuses
      <4>. QED
        BY <2>10, <3>1, <3>4, <4>1 DEF EvaluateGate, TypeOK, ControlRecords
    <3>. QED
      BY <2>10, <3>2, <3>3, <3>4 DEF EvaluateGate
  <2>11. ASSUME NEW g \in DOMAIN gates, NEW approved \in BOOLEAN, DecideApproval(g, approved)
         PROVE  TypeOK'
    <3>. gates \in Seq(GateRecords) /\ gates[g] \in GateRecords
      BY LogTypes, ElementType
    <3>1. gates[g].run \in Runs /\ ctl' \in ControlRecords
      BY <2>11, BumpType DEF DecideApproval, GateRecords
    <3>2. gates' \in Seq(GateRecords)
      <4>1. gates' = [gates EXCEPT ![g] = [gates[g] EXCEPT !.open = FALSE]]
        BY <2>11 DEF DecideApproval
      <4>2. [gates[g] EXCEPT !.open = FALSE] \in GateRecords
        BY <3>1 DEF GateRecords
      <4>. QED
        BY <3>1, <4>1, <4>2, UpdateType
    <3>3. CASE Finalizing(gates[g].run, gates[g].version)
      BY <2>11, <3>1, <3>2, <3>3, FinalizingType
      DEF DecideApproval, TypeOK, GateRecords, ArtifactRecords, ControlRecords
    <3>4. CASE Rejecting(gates[g].run)
      <4>1. state' \in [Runs -> StageStates] /\ status' \in Statuses
        BY <3>1, <3>4 DEF Rejecting, TypeOK, StageStates, Statuses
      <4>. QED
        BY <2>11, <3>1, <3>2, <3>4, <4>1
        DEF DecideApproval, Rejecting, TypeOK, GateRecords, ControlRecords
    <3>. QED
      BY <2>11, <3>3, <3>4 DEF DecideApproval
  <2>12. ASSUME NEW s \in Stages, CreateChangeRequest(s) PROVE TypeOK'
    BY <2>12, VoidedType DEF CreateChangeRequest, InvalidateFrom, TypeOK, ArtifactRecords
  <2>13. ASSUME NEW a \in Actions, ControlRead(a) PROVE TypeOK'
    <3>1. ctl' \in ControlRecords /\ controls' \in 0..MaxControls
      BY <2>13, RunFacts, DeliveryAssumption DEF ControlRead, ControlRecords, TypeOK
    <3>. QED
      BY <2>13, <3>1 DEF ControlRead, TypeOK, ControlRecords
  <2>14. NoControl \in ControlRecords
    BY DeliveryAssumption DEF NoControl, ControlRecords, Runs, Stages
  <2>15. CASE ControlWrite
    <3>1. ctl.run \in Runs /\ ctl' \in ControlRecords
      BY <2>14, <2>15 DEF ControlWrite, TypeOK
    <3>2. agent' \in [Runs -> {"none", "active", "lost", "cancelling", "succeeded", "failed"}]
      BY <2>15 DEF ControlWrite, CancelAgents, TypeOK
    <3>3. tasks' \in Seq(TaskRecords)
      BY <2>15, CancelTasksType DEF ControlWrite, TypeOK, TaskRecords
    <3>4. status' \in Statuses
      BY <2>15 DEF ControlWrite, TypeOK, Statuses
    <3>5. state' \in [Runs -> StageStates]
      BY <2>15, <3>1, ZenonT(30) DEF ControlWrite, TypeOK, StageStates
    <3>6. room' \in [Runs -> {"none", "active", "consultation", "archived"}]
      BY <2>15, <3>1 DEF ControlWrite, TypeOK
    <3>. QED
      BY <2>15, <3>1, <3>2, <3>3, <3>4, <3>5, <3>6
      DEF ControlWrite, TypeOK, ControlRecords, TaskRecords
  <2>16. CASE ControlRejected
    BY <2>14, <2>16 DEF ControlRejected, TypeOK, ControlRecords
  <2>17. ASSUME NEW c \in BOOLEAN, CrashAndRecover(c) PROVE TypeOK'
    <3>1. ctl' \in ControlRecords /\ CurrentRun \in Runs
      BY <2>14, <2>17, RunFacts DEF CrashAndRecover
    <3>2. agent' \in [Runs -> {"none", "active", "lost", "cancelling", "succeeded", "failed"}]
      BY <2>17 DEF CrashAndRecover, TypeOK
    <3>3. tasks' \in Seq(TaskRecords)
      BY <2>17, CancelTasksType DEF CrashAndRecover, TypeOK, TaskRecords
    <3>4. state' \in [Runs -> StageStates] /\ status' \in Statuses
      BY <2>17, <3>1 DEF CrashAndRecover, TypeOK, StageStates, Statuses
    <3>5. recovery' \in Seq(RecoveryRecords)
      <4>1. [run |-> CurrentRun, pending |-> TRUE] \in RecoveryRecords
        BY <3>1 DEF RecoveryRecords
      <4>2. Append(recovery, [run |-> CurrentRun, pending |-> TRUE]) \in Seq(RecoveryRecords)
        BY <4>1, LogTypes, AppendProperties
      <4>. QED
        BY <2>17, <4>2, LogTypes DEF CrashAndRecover
    <3>. QED
      BY <2>17, <3>1, <3>2, <3>3, <3>4, <3>5
      DEF CrashAndRecover, TypeOK, ControlRecords, TaskRecords, RecoveryRecords
  <2>18. ASSUME NEW i \in DOMAIN recovery, ResumeRecovery(i) \/ DiscardRecovery(i) PROVE TypeOK'
    <3>. recovery \in Seq(RecoveryRecords) /\ recovery[i] \in RecoveryRecords
      BY LogTypes, ElementType
    <3>1. recovery[i].run \in Runs /\ ctl' \in ControlRecords
      BY <2>18, BumpType DEF ResumeRecovery, DiscardRecovery, RecoveryRecords
    <3>2. recovery' \in Seq(RecoveryRecords)
      <4>1. recovery' = [recovery EXCEPT ![i] = [recovery[i] EXCEPT !.pending = FALSE]]
        BY <2>18 DEF ResumeRecovery, DiscardRecovery
      <4>2. [recovery[i] EXCEPT !.pending = FALSE] \in RecoveryRecords
        BY <3>1 DEF RecoveryRecords
      <4>. QED
        BY <3>1, <4>1, <4>2, UpdateType
    <3>3. state' \in [Runs -> StageStates] /\ status' \in Statuses
      BY <2>18, <3>1, ZenonT(40) DEF ResumeRecovery, DiscardRecovery, TypeOK, StageStates, Statuses
    <3>4. room' \in [Runs -> {"none", "active", "consultation", "archived"}]
      BY <2>18, <3>1 DEF ResumeRecovery, DiscardRecovery, TypeOK
    <3>. QED
      BY <2>18, <3>1, <3>2, <3>3, <3>4
      DEF ResumeRecovery, DiscardRecovery, TypeOK, ControlRecords, RecoveryRecords
  <2>19. CASE UNCHANGED vars
    BY <2>19 DEF vars, TypeOK
  <2>. QED
    BY <2>1, <2>2, <2>3, <2>4, <2>5, <2>6, <2>7, <2>8, <2>9, <2>10, <2>11, <2>12, <2>13,
       <2>15, <2>16, <2>17, <2>18, <2>19 DEF Next
<1>. QED
  BY <1>1, <1>2, PTL DEF Spec

LEMMA RecoveryFacts ==
    ASSUME TypeOK
    PROVE  \A i \in DOMAIN recovery : /\ recovery[i].run \in Runs /\ recovery[i].pending \in BOOLEAN
                                      /\ recovery[i].run[1] \in Stages /\ recovery[i].run[2] \in Nat
<1>1. \A i \in DOMAIN recovery : recovery[i] \in RecoveryRecords
  BY LogTypes, ElementType
<1>. QED
  BY <1>1 DEF RecoveryRecords, Runs

LEMMA GateFacts ==
    ASSUME TypeOK
    PROVE  \A g \in DOMAIN gates : gates[g] \in GateRecords /\ gates[g].run[1] \in Stages
<1>1. \A g \in DOMAIN gates : gates[g] \in GateRecords
  BY LogTypes, ElementType
<1>. QED
  BY <1>1 DEF Runs

\* A control command whose version is still valid acts on the current run,
\* although it read that run in an earlier transaction: whoever moves the
\* workflow on bumps its version.
THEOREM ControlHitsCurrentRunCorrect == Spec => []ControlHitsCurrentRun
<1>1. Init => ControlHitsCurrentRun
  BY DEF Init, NoControl, ControlHitsCurrentRun
<1>2. TypeOK /\ ControlHitsCurrentRun /\ [Next]_vars => ControlHitsCurrentRun'
  <2>. SUFFICES ASSUME TypeOK, ControlHitsCurrentRun, [Next]_vars PROVE ControlHitsCurrentRun'
    OBVIOUS
  <2>1. CASE Bump
    BY <2>1, BumpType DEF ControlHitsCurrentRun
  <2>2. CASE ctl' = NoControl
    BY <2>2 DEF NoControl, ControlHitsCurrentRun
  <2>3. CASE UNCHANGED <<cur, attempt, ctl>>
    BY <2>3 DEF ControlHitsCurrentRun, CurrentRun, Current
  <2>4. ASSUME NEW a \in Actions, ControlRead(a) PROVE ControlHitsCurrentRun'
    BY <2>4 DEF ControlRead, stageVars, ControlHitsCurrentRun, CurrentRun, Current
  <2>5. CASE \/ StartWorkflow \/ \E m \in {"manual", "autonomous"} : SetMode(m)
             \/ \E to \in StageStates \ {"none"} : TransitionStage(to)
             \/ \E s \in Stages : ReopenStage(s)
             \/ \E r \in Runs, v \in {"fail", "warning", "pass"} : EvaluateGate(r, v)
             \/ \E g \in DOMAIN gates, approved \in BOOLEAN : DecideApproval(g, approved)
             \/ \E i \in DOMAIN recovery : ResumeRecovery(i) \/ DiscardRecovery(i)
    BY <2>1, <2>5 DEF StartWorkflow, SetMode, TransitionStage, ReopenStage, EvaluateGate,
       DecideApproval, ResumeRecovery, DiscardRecovery
  <2>6. CASE \/ \E r \in Runs : EnqueueTask(r) \/ CreateAgentRun(r) \/ CreateArtifactVersion(r)
             \/ \E i \in DOMAIN tasks : StartTask(i) \/ CompleteTask(i) \/ CancelTask(i)
             \/ \E r \in Runs, o \in {"succeeded", "failed"} : FinishAgentRun(r, o)
             \/ \E s \in Stages : CreateChangeRequest(s)
             \/ UNCHANGED vars
    BY <2>3, <2>6 DEF EnqueueTask, CreateAgentRun, CreateArtifactVersion, StartTask, CompleteTask,
       CancelTask, FinishAgentRun, CreateChangeRequest, stageVars, vars
  <2>7. CASE ControlWrite \/ ControlRejected \/ \E c \in BOOLEAN : CrashAndRecover(c)
    BY <2>2, <2>7 DEF ControlWrite, ControlRejected, CrashAndRecover
  <2>. QED
    BY <2>4, <2>5, <2>6, <2>7 DEF Next
<1>. QED
  BY <1>1, <1>2, TypeCorrect, PTL DEF Spec

-----------------------------------------------------------------------------
(***************************************************************************)
(* Approvals.  An approval decides about the artifact version its gate saw, *)
(* maybe long after: GateVersions says that if this version is still the   *)
(* latest one, it is still the one the gate's own attempt produced.        *)
(***************************************************************************)
GateVersions ==
    \A g \in DOMAIN gates : LET r == gates[g].run IN
        /\ gates[g].version <= artifact[r[1]].version
        /\ gates[g].version = artifact[r[1]].version => artifact[r[1]].attempt = r[2]

LEMMA GateVersionsInductive == Spec => []GateVersions
<1>1. Init => GateVersions
  BY EmptySeq DEF Init, GateVersions
<1>2. TypeOK /\ GateVersions /\ [Next]_vars => GateVersions'
  <2>. SUFFICES ASSUME TypeOK, GateVersions, [Next]_vars PROVE GateVersions'
    OBVIOUS
  <2>. USE DEF stageVars
  <2>0. /\ \A t \in Stages : artifact[t] \in ArtifactRecords /\ artifact[t].version \in Nat
        /\ \A g \in DOMAIN gates : gates[g].version \in Nat /\ gates[g].run \in Runs /\ gates[g].run[1] \in Stages
    BY GateFacts, DeliveryAssumption, SMTT(30) DEF TypeOK
  <2>1. ASSUME DOMAIN gates' = DOMAIN gates,
               \A g \in DOMAIN gates : gates'[g].run = gates[g].run /\ gates'[g].version = gates[g].version,
               \A t \in Stages : /\ artifact'[t].version = artifact[t].version
                                 /\ artifact'[t].attempt = artifact[t].attempt
        PROVE  GateVersions'
    BY <2>0, <2>1 DEF GateVersions
  <2>2. ASSUME NEW S, Voided(S), gates' = gates PROVE GateVersions'
    <3>1. \A t \in Stages : /\ artifact'[t].version = artifact[t].version
                            /\ artifact'[t].attempt = artifact[t].attempt
      BY <2>0, <2>2 DEF Voided
    <3>. QED
      BY <2>1, <2>2, <3>1
  <2>3. ASSUME NEW r \in Runs, NEW v, Finalizing(r, v)
        PROVE  \A t \in Stages : /\ artifact'[t].version = artifact[t].version
                                 /\ artifact'[t].attempt = artifact[t].attempt
    BY <2>0, <2>3 DEF Finalizing, TypeOK
  <2>4. ASSUME NEW r \in Runs, CreateArtifactVersion(r) PROVE GateVersions'
    <3>1. /\ gates' = gates /\ cur \in Stages
          /\ artifact'[cur].version = artifact[cur].version + 1
          /\ \A t \in Stages : t # cur => artifact'[t] = artifact[t]
      BY <2>4 DEF CreateArtifactVersion, TypeOK
    <3>2. ASSUME NEW g \in DOMAIN gates, gates[g].run[1] = cur PROVE gates[g].version < artifact'[cur].version
      <4>1. gates[g].version <= artifact[cur].version /\ gates[g].version \in Nat /\ artifact[cur].version \in Nat
        BY <2>0, <3>1, <3>2 DEF GateVersions
      <4>. QED
        BY <3>1, <4>1
    <3>3. ASSUME NEW g \in DOMAIN gates'
          PROVE  /\ gates'[g].version <= artifact'[gates'[g].run[1]].version
                 /\ gates'[g].version = artifact'[gates'[g].run[1]].version =>
                        artifact'[gates'[g].run[1]].attempt = gates'[g].run[2]
      <4>1. CASE gates[g].run[1] = cur
        BY <2>0, <3>1, <3>2, <4>1
      <4>2. CASE gates[g].run[1] # cur
        BY <2>0, <3>1, <4>2 DEF GateVersions
      <4>. QED
        BY <4>1, <4>2
    <3>. QED
      BY <3>3 DEF GateVersions
  <2>5. ASSUME NEW r \in Runs, NEW v \in {"fail", "warning", "pass"}, EvaluateGate(r, v) PROVE GateVersions'
    <3>1. CASE Finalizing(r, artifact[cur].version) /\ UNCHANGED gates
      BY <2>1, <2>3, <3>1
    <3>2. CASE UNCHANGED <<artifact, gates>>
      BY <2>1, <3>2
    <3>3. CASE /\ v # "fail"
               /\ gates' = Append(gates, [run |-> r, version |-> artifact[cur].version, open |-> TRUE])
               /\ UNCHANGED artifact
      <4>1. r[1] = cur /\ artifact[r[1]].attempt = r[2]
        BY <2>5, <3>3 DEF EvaluateGate, OfCurrentStage, Verdicts, GateClean
      <4>2. /\ [run |-> r, version |-> artifact[cur].version, open |-> TRUE] \in GateRecords
            /\ gates \in Seq(GateRecords) /\ cur \in Stages
        BY DEF TypeOK
      <4>3. /\ DOMAIN gates' = 1..Len(gates) + 1 /\ DOMAIN gates = 1..Len(gates) /\ Len(gates) \in Nat
            /\ \A g \in 1..Len(gates) : gates'[g] = gates[g]
            /\ gates'[Len(gates) + 1] = [run |-> r, version |-> artifact[cur].version, open |-> TRUE]
        BY <3>3, <4>2, AppendProperties, LenProperties
      <4>4. ASSUME NEW g \in DOMAIN gates'
            PROVE  /\ gates'[g].version <= artifact'[gates'[g].run[1]].version
                   /\ gates'[g].version = artifact'[gates'[g].run[1]].version =>
                          artifact'[gates'[g].run[1]].attempt = gates'[g].run[2]
        <5>1. CASE g = Len(gates) + 1
          <6>1. gates'[g].run = r /\ gates'[g].version = artifact[cur].version /\ artifact' = artifact
            BY <3>3, <4>3, <5>1
          <6>2. artifact[cur].version <= artifact[cur].version
            BY <2>0, <4>2
          <6>. QED
            BY <4>1, <6>1, <6>2
        <5>2. CASE g \in DOMAIN gates
          <6>1. gates'[g] = gates[g] /\ artifact' = artifact
            BY <3>3, <4>3, <5>2
          <6>. QED
            BY <5>2, <6>1 DEF GateVersions
        <5>. QED
          BY <4>3, <5>1, <5>2
      <4>. QED
        BY <4>4 DEF GateVersions
    <3>. QED
      BY <2>5, <3>1, <3>2, <3>3 DEF EvaluateGate
  <2>6. ASSUME NEW g \in DOMAIN gates, NEW approved \in BOOLEAN, DecideApproval(g, approved)
        PROVE  GateVersions'
    <3>1. /\ gates' = [gates EXCEPT ![g].open = FALSE]
          /\ \A t \in Stages : /\ artifact'[t].version = artifact[t].version
                               /\ artifact'[t].attempt = artifact[t].attempt
      <4>1. CASE Finalizing(gates[g].run, gates[g].version)
        BY <2>0, <2>3, <2>6, <4>1 DEF DecideApproval
      <4>2. CASE artifact' = artifact
        BY <2>6, <4>2 DEF DecideApproval
      <4>. QED
        BY <2>6, <4>1, <4>2 DEF DecideApproval, Rejecting
    <3>2. \A h \in DOMAIN gates : gates'[h].run = gates[h].run /\ gates'[h].version = gates[h].version
      BY <3>1, GateFacts
    <3>. QED
      BY <2>1, <3>1, <3>2
  <2>7. ASSUME NEW s \in Stages, ReopenStage(s) \/ CreateChangeRequest(s) PROVE GateVersions'
    BY <2>2, <2>7 DEF ReopenStage, CreateChangeRequest, InvalidateFrom
  <2>8. ASSUME UNCHANGED <<artifact, gates>> PROVE GateVersions'
    BY <2>1, <2>8
  <2>9. ASSUME \/ StartWorkflow \/ ControlRejected \/ UNCHANGED vars
               \/ \E m \in {"manual", "autonomous"} : SetMode(m)
               \/ \E to \in StageStates \ {"none"} : TransitionStage(to)
               \/ \E i \in DOMAIN tasks : StartTask(i) \/ CompleteTask(i) \/ CancelTask(i)
               \/ \E r \in Runs : EnqueueTask(r) \/ CreateAgentRun(r)
               \/ \E r \in Runs, o \in {"succeeded", "failed"} : FinishAgentRun(r, o)
               \/ \E a \in Actions : ControlRead(a)
               \/ ControlWrite \/ \E c \in BOOLEAN : CrashAndRecover(c)
               \/ \E i \in DOMAIN recovery : ResumeRecovery(i) \/ DiscardRecovery(i)
        PROVE  GateVersions'
    BY <2>8, <2>9 DEF StartWorkflow, ControlRejected, vars, SetMode, TransitionStage, StartTask,
        CompleteTask, CancelTask, EnqueueTask, CreateAgentRun, FinishAgentRun, ControlRead,
        ControlWrite, CrashAndRecover, ResumeRecovery, DiscardRecovery
  <2>. QED
    BY <2>4, <2>5, <2>6, <2>7, <2>9 DEF Next
<1>. QED
  BY <1>1, <1>2, TypeCorrect, PTL DEF Spec

-----------------------------------------------------------------------------
(***************************************************************************)
(* Rows and attempts.  Clients may name any attempt of the current stage,  *)
(* a recovery record the attempt of any past crash, so nothing is assumed  *)
(* of the ids that commands carry.  What keeps the later stages untouched  *)
(* is that no record and no work is ahead of the workflow: a recovery      *)
(* record is of a stage already reached, or of an attempt superseded       *)
(* since, and work belongs to attempts that exist.                         *)
(***************************************************************************)
Existing == \A r \in Runs : state[r] = "none" <=> r[2] > attempt[r[1]]

RecoveryPast ==
    \A i \in DOMAIN recovery : LET r == recovery[i].run IN
        r[2] <= attempt[r[1]] /\ (r[1] <= cur \/ r[2] < attempt[r[1]])

WorkExists ==
    /\ \A r \in Runs : AgentActive(r) => r[2] <= attempt[r[1]]
    /\ \A i \in OpenTasks : tasks[i].run[2] <= attempt[tasks[i].run[1]]

RowsInv == Existing /\ RecoveryPast /\ WorkExists /\ LaterStagesUntouched

\* What a step does to the rows of stage runs and rooms.
Aside == UNCHANGED <<cur, attempt, state, room>>

WritesRow ==
    /\ UNCHANGED <<cur, attempt>>
    /\ \E r \in Runs, x \in StageStates \ {"none"} :
          /\ state[r] # "none" /\ (r[1] <= cur \/ ~IsCurrent(r))
          /\ state' = [state EXCEPT ![r] = x]
          /\ room' = room \/ room' = [room EXCEPT ![r] = "archived"]

Completes ==
    /\ attempt' = attempt
    /\ \E r \in Runs : r[1] = cur /\ state[r] # "none" /\ Completing(r)

RowKinds == Aside \/ WritesRow \/ Completes \/ \E s \in Stages : ReopenStage(s)

LEMMA RowStep ==
    ASSUME TypeOK, Existing, RecoveryPast, ControlHitsCurrentRun, [Next]_vars
    PROVE  RowKinds
<1>. USE DEF stageVars
<1>0. /\ CurrentRun \in Runs /\ CurrentRun[1] = cur /\ cur \in Nat /\ cur <= cur
      /\ state[CurrentRun] # "none"
  <2>1. /\ CurrentRun \in Runs /\ CurrentRun[1] = cur /\ cur \in Nat
        /\ CurrentRun[2] \in Nat /\ CurrentRun[2] = attempt[CurrentRun[1]]
    BY RunFacts, SMTT(30) DEF TypeOK, Stages, IsCurrent
  <2>. QED
    BY <2>1 DEF Existing
<1>1. ASSUME NEW to \in StageStates \ {"none"}, TransitionStage(to) PROVE RowKinds
  <2>1. CASE Completing(CurrentRun)
    BY <1>0, <1>1, <2>1 DEF TransitionStage, Completes, RowKinds
  <2>2. CASE /\ state' = [state EXCEPT ![CurrentRun] = to] /\ cur' = cur
             /\ room' = [room EXCEPT ![CurrentRun] = "archived"] \/ room' = room
    BY <1>0, <1>1, <2>2 DEF TransitionStage, WritesRow, RowKinds
  <2>. QED
    BY <1>1, <2>1, <2>2 DEF TransitionStage
<1>2. ASSUME NEW r \in Runs, NEW v \in {"fail", "warning", "pass"}, EvaluateGate(r, v)
      PROVE  RowKinds
  <2>1. r[1] = cur /\ r[1] <= cur /\ state[r] # "none" /\ attempt' = attempt
    BY <1>0, <1>2 DEF EvaluateGate, OfCurrentStage
  <2>2. CASE Finalizing(r, artifact[cur].version)
    BY <2>1, <2>2 DEF Finalizing, Completes, RowKinds
  <2>3. CASE /\ \E x \in {"waiting_approval", "warning_blocked", "needs_fix"} :
                    state' = [state EXCEPT ![r] = x]
             /\ UNCHANGED <<cur, room>>
    BY <2>1, <2>3 DEF StageStates, WritesRow, RowKinds
  <2>. QED
    BY <1>2, <2>2, <2>3 DEF EvaluateGate
<1>3. ASSUME NEW g \in DOMAIN gates, NEW approved \in BOOLEAN, DecideApproval(g, approved)
      PROVE  RowKinds
  <2>1. /\ gates[g].run \in Runs /\ gates[g].run[1] = cur /\ gates[g].run[1] <= cur
        /\ state[gates[g].run] # "none" /\ attempt' = attempt
    BY <1>0, <1>3, GateFacts DEF DecideApproval, OfCurrentStage
  <2>2. CASE Finalizing(gates[g].run, gates[g].version)
    BY <2>1, <2>2 DEF Finalizing, Completes, RowKinds
  <2>3. CASE Rejecting(gates[g].run)
    BY <2>1, <2>3 DEF Rejecting, StageStates, WritesRow, RowKinds
  <2>. QED
    BY <1>3, <2>2, <2>3 DEF DecideApproval
<1>4. CASE ControlWrite
  <2>1. ctl.run = CurrentRun /\ UNCHANGED <<cur, attempt>>
    BY <1>4 DEF ControlWrite, ControlAllowed, ControlHitsCurrentRun
  <2>2. CASE UNCHANGED <<state, room>>
    BY <2>1, <2>2 DEF Aside, RowKinds
  <2>3. CASE /\ \E x \in {"cancelled", "abandoned"} : state' = [state EXCEPT ![CurrentRun] = x]
             /\ room' = [room EXCEPT ![CurrentRun] = "archived"]
    BY <1>0, <2>1, <2>3 DEF StageStates, WritesRow, RowKinds
  <2>. QED
    BY <1>4, <2>1, <2>2, <2>3 DEF ControlWrite
<1>5. ASSUME NEW c \in BOOLEAN, CrashAndRecover(c) PROVE RowKinds
  <2>1. CASE state' = state
    BY <1>5, <2>1 DEF CrashAndRecover, Aside, RowKinds
  <2>2. CASE state' = [state EXCEPT ![CurrentRun] = "interrupted"]
    BY <1>0, <1>5, <2>2 DEF CrashAndRecover, StageStates, WritesRow, RowKinds
  <2>. QED
    BY <1>5, <2>1, <2>2 DEF CrashAndRecover
<1>6. ASSUME NEW i \in DOMAIN recovery, ResumeRecovery(i) \/ DiscardRecovery(i) PROVE RowKinds
  <2>. DEFINE r == recovery[i].run
  <2>1. /\ r \in Runs /\ r[2] \in Nat /\ attempt[r[1]] \in Nat
        /\ r[2] <= attempt[r[1]] /\ (r[1] <= cur \/ r[2] < attempt[r[1]])
        /\ IsCurrent(r) <=> r[2] = attempt[r[1]]
    <3>1. r \in Runs /\ r[1] \in Stages /\ r[2] \in Nat /\ (IsCurrent(r) <=> r[2] = attempt[r[1]])
      BY RecoveryFacts, RunFacts
    <3>2. attempt[r[1]] \in Nat
      BY <3>1, SMTT(30) DEF TypeOK
    <3>. QED
      BY <3>1, <3>2 DEF RecoveryPast
  <2>2. state[r] # "none" /\ (r[1] <= cur \/ ~IsCurrent(r))
    BY <2>1 DEF Existing
  <2>3. /\ \E x \in {"discussing", "cancelled"} : state' = [state EXCEPT ![r] = x]
        /\ room' = room \/ room' = [room EXCEPT ![r] = "archived"]
        /\ UNCHANGED <<cur, attempt>>
    BY <1>6 DEF ResumeRecovery, DiscardRecovery
  <2>. QED
    BY <2>1, <2>2, <2>3 DEF StageStates, WritesRow, RowKinds
<1>7. ASSUME \/ StartWorkflow \/ ControlRejected \/ UNCHANGED vars
             \/ \E m \in {"manual", "autonomous"} : SetMode(m)
             \/ \E a \in Actions : ControlRead(a)
             \/ \E i \in DOMAIN tasks : StartTask(i) \/ CompleteTask(i) \/ CancelTask(i)
             \/ \E r \in Runs : EnqueueTask(r) \/ CreateAgentRun(r) \/ CreateArtifactVersion(r)
             \/ \E r \in Runs, o \in {"succeeded", "failed"} : FinishAgentRun(r, o)
             \/ \E s \in Stages : CreateChangeRequest(s)
      PROVE  RowKinds
  BY <1>7 DEF StartWorkflow, ControlRejected, vars, SetMode, ControlRead, StartTask, CompleteTask,
              CancelTask, EnqueueTask, CreateAgentRun, CreateArtifactVersion, FinishAgentRun,
              CreateChangeRequest, Aside, RowKinds
<1>. QED
  BY <1>1, <1>2, <1>3, <1>4, <1>5, <1>6, <1>7 DEF Next, RowKinds

\* The runs a completion writes: its own and the current one of the successor.
LEMMA CompletingFacts ==
    ASSUME TypeOK, NEW r \in Runs, r[1] = cur, Completing(r)
    PROVE  /\ cur' = IF cur = NumStages THEN cur ELSE cur + 1
           /\ status' = IF cur = NumStages THEN "completed" ELSE "running"
           /\ state'[r] = "completed"
           /\ \A q \in Runs : q # r =>
                  \/ state'[q] = state[q]
                  \/ IsCurrent(q) /\ q[1] = cur + 1 /\ state[q] = "locked" /\ state'[q] = "ready"
           /\ \A q \in Runs : room'[q] = room[q] \/ room'[q] = "consultation"
<1>1. /\ cur \in Nat /\ NumStages \in Nat /\ cur <= NumStages /\ Completable(r)
      /\ room \in [Runs -> {"none", "active", "consultation", "archived"}]
      /\ state \in [Runs -> StageStates]
  BY DeliveryAssumption, SMTT(30) DEF TypeOK, Completing, Stages
<1>2. ASSUME cur < NumStages
      PROVE  /\ Current(cur + 1) \in Runs /\ Current(cur + 1)[1] = cur + 1
             /\ IsCurrent(Current(cur + 1)) /\ state[Current(cur + 1)] = "locked"
  <2>1. cur + 1 \in Stages
    BY <1>1, <1>2 DEF Stages
  <2>2. Current(cur + 1) \in Runs /\ Current(cur + 1)[1] = cur + 1 /\ IsCurrent(Current(cur + 1))
    BY <2>1, RunFacts DEF IsCurrent
  <2>. QED
    BY <1>1, <1>2, <2>2 DEF Completable
<1>3. \A q \in Runs : state'[q] = IF q = r THEN "completed"
                                  ELSE IF cur < NumStages /\ q = Current(cur + 1) THEN "ready"
                                  ELSE state[q]
  BY <1>1 DEF Completing
<1>4. \A q \in Runs : room'[q] = room[q] \/ room'[q] = "consultation"
  BY <1>1 DEF Completing
<1>5. /\ cur' = IF cur = NumStages THEN cur ELSE cur + 1
      /\ status' = IF cur = NumStages THEN "completed" ELSE "running"
  BY DEF Completing
<1>. QED
  BY <1>2, <1>3, <1>4, <1>5

LEMMA ReopenFacts ==
    ASSUME TypeOK, LaterStagesUntouched, NEW s \in Stages, ReopenStage(s)
    PROVE  /\ s \in Nat /\ cur' = s /\ s <= cur /\ agent' = agent
           /\ \A t \in Stages : attempt'[t] = IF t >= s THEN attempt[t] + 1 ELSE attempt[t]
           /\ \A t \in Stages : t >= s => attempt[t] + 1 \in 1..MaxAttempts
           /\ \A r \in Runs :
                  /\ state'[r] = IF r[1] >= s /\ r[2] = attempt[r[1]] + 1
                                 THEN IF r[1] = s THEN "ready" ELSE "locked"
                                 ELSE state[r]
                  /\ r[1] >= s /\ r[2] = attempt[r[1]] => room'[r] = "archived" /\ ~AgentActive(r)
                  /\ r[2] < attempt[r[1]] => room'[r] = room[r]
                  /\ handoff'[r] = IF r[1] >= s /\ handoff[r] = "active" THEN "invalidated"
                                                                        ELSE handoff[r]
           /\ \A t \in Stages : t < s => artifact'[t] = artifact[t]
           /\ \A t \in Stages : t >= s => artifact'[t].status \notin {"draft", "locked"}
<1>1. /\ s \in Nat /\ cur' = s /\ agent' = agent /\ MaxAttempts \in Nat
      /\ attempt \in [Stages -> 1..MaxAttempts] /\ cur \in Stages /\ NumStages \in Nat
  BY DeliveryAssumption, SMTT(30) DEF ReopenStage, TypeOK, Stages
<1>2. s <= cur
  BY <1>1 DEF ReopenStage, LaterStagesUntouched, Stages
<1>3. \A t \in Stages : attempt'[t] = IF t >= s THEN attempt[t] + 1 ELSE attempt[t]
  BY DEF ReopenStage
<1>. DEFINE affected == {Current(t) : t \in s..NumStages}
<1>4. \A r \in Runs : r \in affected <=> r[1] >= s /\ r[2] = attempt[r[1]]
  <2>. SUFFICES ASSUME NEW r \in Runs
                PROVE  r \in affected <=> r[1] >= s /\ r[2] = attempt[r[1]]
    OBVIOUS
  <2>1. r[1] \in Stages /\ (r[1] >= s <=> r[1] \in s..NumStages) /\ r = <<r[1], r[2]>>
    BY <1>1 DEF Runs, Stages
  <2>. QED
    BY <2>1 DEF Current
<1>5. ASSUME NEW r \in Runs
      PROVE  /\ state'[r] = IF r[1] >= s /\ r[2] = attempt[r[1]] + 1
                            THEN IF r[1] = s THEN "ready" ELSE "locked"
                            ELSE state[r]
             /\ r[1] >= s /\ r[2] = attempt[r[1]] => room'[r] = "archived" /\ ~AgentActive(r)
             /\ r[2] < attempt[r[1]] => room'[r] = room[r]
             /\ handoff'[r] = IF r[1] >= s /\ handoff[r] = "active" THEN "invalidated" ELSE handoff[r]
  <2>1. state'[r] = IF r[1] >= s /\ r[2] = attempt[r[1]] + 1
                    THEN IF r[1] = s THEN "ready" ELSE "locked"
                    ELSE state[r]
    BY DEF ReopenStage
  <2>2. room'[r] = IF r \in affected THEN "archived"
                   ELSE IF r[1] >= s /\ r[2] = attempt[r[1]] + 1 THEN "active" ELSE room[r]
    BY DEF ReopenStage
  <2>3. r \in affected => ~AgentActive(r)
    BY DEF ReopenStage
  <2>4. handoff'[r] = IF r[1] \in s..NumStages /\ handoff[r] = "active" THEN "invalidated"
                                                                        ELSE handoff[r]
    BY DEF ReopenStage, InvalidateFrom, Voided
  <2>5. r[1] \in Stages /\ r[2] \in Nat /\ attempt[r[1]] \in Nat
    BY <1>1 DEF Runs, Stages
  <2>6. r[1] >= s <=> r[1] \in s..NumStages
    BY <1>1, <2>5 DEF Stages
  <2>. HIDE DEF affected
  <2>. QED
    BY <1>4, <2>1, <2>2, <2>3, <2>4, <2>5, <2>6
<1>6. ASSUME NEW t \in Stages
      PROVE  /\ t < s => artifact'[t] = artifact[t]
             /\ t >= s => artifact'[t].status \notin {"draft", "locked"}
  <2>1. /\ artifact'[t] = IF t \in s..NumStages /\ artifact[t].status \in {"draft", "locked"}
                          THEN [artifact[t] EXCEPT !.status = "invalidated"] ELSE artifact[t]
        /\ artifact[t] \in ArtifactRecords
    BY DEF ReopenStage, InvalidateFrom, Voided, TypeOK
  <2>2. t \in s..NumStages <=> t >= s
    BY <1>1 DEF Stages
  <2>3. t \in Nat
    BY DEF Stages
  <2>. QED
    BY <1>1, <2>1, <2>2, <2>3
<1>7. ASSUME NEW t \in Stages, t >= s PROVE attempt[t] + 1 \in 1..MaxAttempts
  <2>1. t \in s..NumStages
    BY <1>1, <1>7 DEF Stages
  <2>2. attempt[t] \in 1..MaxAttempts /\ attempt[t] < MaxAttempts
    BY <1>1, <2>1 DEF ReopenStage
  <2>. QED
    BY <1>1, <2>2
<1>. QED
  BY <1>1, <1>2, <1>3, <1>5, <1>6, <1>7

\* Work appears only in current attempts that are unlocked, and reopening a stage ends the
\* work of the attempts it supersedes.
NewWork(r) == IsCurrent(r) /\ state[r] # "locked"

WorkKept ==
    /\ \A r \in Runs : AgentActive(r)' => AgentActive(r) \/ NewWork(r)
    /\ \A i \in OpenTasks' : /\ tasks'[i].run \in Runs
                             /\ \/ i \in OpenTasks /\ tasks'[i].run = tasks[i].run
                                \/ NewWork(tasks'[i].run)

LEMMA CancelTasksKeepsRuns ==
    ASSUME TypeOK, NEW in, NEW runs, CancelTasks(in, runs), NEW i \in OpenTasks'
    PROVE  /\ i \in OpenTasks /\ tasks'[i].run = tasks[i].run /\ tasks[i].run \in Runs
           /\ ~(in = {"queued", "running"} /\ tasks[i].run \in runs)
<1>1. i \in DOMAIN tasks /\ tasks'[i].status \in {"queued", "running"}
  BY DEF CancelTasks, OpenTasks
<1>2. tasks[i] \in TaskRecords
  BY <1>1, LogTypes, ElementType
<1>3. tasks'[i] = IF tasks[i].status \in in /\ tasks[i].run \in runs
                  THEN [tasks[i] EXCEPT !.status = "ended"] ELSE tasks[i]
  BY <1>1 DEF CancelTasks
<1>4. CASE tasks[i].status \in in /\ tasks[i].run \in runs
  BY <1>1, <1>2, <1>3, <1>4
<1>5. CASE ~(tasks[i].status \in in /\ tasks[i].run \in runs)
  BY <1>1, <1>2, <1>3, <1>5 DEF OpenTasks
<1>. QED
  BY <1>4, <1>5

LEMMA TaskFacts ==
    ASSUME TypeOK
    PROVE  \A i \in DOMAIN tasks : tasks[i] \in TaskRecords /\ tasks[i].run \in Runs
<1>1. \A i \in DOMAIN tasks : tasks[i] \in TaskRecords
  BY LogTypes, ElementType
<1>. QED
  BY <1>1

LEMMA StepKeepsWork ==
    ASSUME TypeOK, [Next]_vars
    PROVE  WorkKept
<1>. USE DEF stageVars
<1>1. ASSUME agent' = agent, tasks' = tasks PROVE WorkKept
  BY <1>1, TaskFacts DEF WorkKept, OpenTasks, AgentActive
<1>2. ASSUME agent' = agent, NEW in, NEW runs, CancelTasks(in, runs) PROVE WorkKept
  BY <1>2, CancelTasksKeepsRuns DEF WorkKept, AgentActive
<1>3. ASSUME NEW r \in Runs, EnqueueTask(r) PROVE WorkKept
  <2>1. /\ tasks' = Append(tasks, [run |-> r, status |-> "queued"]) /\ NewWork(r) /\ agent' = agent
        /\ tasks \in Seq(TaskRecords) /\ [run |-> r, status |-> "queued"] \in TaskRecords
    BY <1>3, LogTypes DEF EnqueueTask, NewWork
  <2>2. /\ DOMAIN tasks' = 1..Len(tasks) + 1 /\ DOMAIN tasks = 1..Len(tasks) /\ Len(tasks) \in Nat
        /\ \A i \in 1..Len(tasks) : tasks'[i] = tasks[i]
        /\ tasks'[Len(tasks) + 1] = [run |-> r, status |-> "queued"]
    BY <2>1, AppendProperties, LenProperties
  <2>3. ASSUME NEW i \in OpenTasks'
        PROVE  /\ tasks'[i].run \in Runs
               /\ \/ i \in OpenTasks /\ tasks'[i].run = tasks[i].run
                  \/ NewWork(tasks'[i].run)
    <3>1. i \in DOMAIN tasks' /\ tasks'[i].status \in {"queued", "running"}
      BY DEF OpenTasks
    <3>2. CASE i = Len(tasks) + 1
      BY <2>1, <2>2, <3>2
    <3>3. CASE i \in DOMAIN tasks
      BY <2>2, <3>1, <3>3, TaskFacts DEF OpenTasks
    <3>. QED
      BY <2>2, <3>1, <3>2, <3>3
  <2>. QED
    BY <2>1, <2>3 DEF WorkKept, AgentActive
<1>4. ASSUME NEW i \in DOMAIN tasks, StartTask(i) \/ CompleteTask(i) \/ CancelTask(i) PROVE WorkKept
  <2>1. /\ agent' = agent /\ tasks[i].status \in {"queued", "running"}
        /\ \E x \in {"running", "ended"} : tasks' = [tasks EXCEPT ![i].status = x]
    BY <1>4 DEF StartTask, CompleteTask, CancelTask
  <2>2. \A j \in DOMAIN tasks : tasks'[j].run = tasks[j].run /\ (j # i => tasks'[j] = tasks[j])
    BY <2>1, TaskFacts
  <2>. QED
    BY <2>1, <2>2, TaskFacts DEF WorkKept, AgentActive, OpenTasks
<1>5. ASSUME NEW r \in Runs, \/ CreateAgentRun(r)
                             \/ \E o \in {"succeeded", "failed"} : FinishAgentRun(r, o)
      PROVE  WorkKept
  <2>1. /\ tasks' = tasks /\ \A q \in Runs : q # r => agent'[q] = agent[q]
        /\ agent'[r] \in {"succeeded", "failed"} \/ NewWork(r)
    BY <1>5 DEF CreateAgentRun, FinishAgentRun, TypeOK, NewWork
  <2>. QED
    BY <2>1, TaskFacts DEF WorkKept, AgentActive, OpenTasks
<1>6. CASE ControlWrite
  <2>1. \A r \in Runs : AgentActive(r)' => AgentActive(r)
    BY <1>6 DEF ControlWrite, CancelAgents, AgentActive
  <2>2. CASE tasks' = tasks
    BY <2>1, <2>2, TaskFacts DEF WorkKept, OpenTasks
  <2>3. CASE \E in : CancelTasks(in, Runs)
    BY <2>1, <2>3, CancelTasksKeepsRuns DEF WorkKept
  <2>. QED
    BY <1>6, <2>2, <2>3 DEF ControlWrite
<1>7. ASSUME NEW c \in BOOLEAN, CrashAndRecover(c) PROVE WorkKept
  <2>1. \A r \in Runs : AgentActive(r)' => AgentActive(r)
    BY <1>7 DEF CrashAndRecover, AgentActive
  <2>2. CASE tasks' = tasks
    BY <2>1, <2>2, TaskFacts DEF WorkKept, OpenTasks
  <2>3. CASE \E in : CancelTasks(in, Runs)
    BY <2>1, <2>3, CancelTasksKeepsRuns DEF WorkKept
  <2>. QED
    BY <1>7, <2>2, <2>3 DEF CrashAndRecover
<1>8. ASSUME NEW s \in Stages, ReopenStage(s) PROVE WorkKept
  BY <1>2, <1>8 DEF ReopenStage
<1>9. ASSUME \/ StartWorkflow \/ ControlRejected \/ UNCHANGED vars
             \/ \E m \in {"manual", "autonomous"} : SetMode(m)
             \/ \E a \in Actions : ControlRead(a)
             \/ \E to \in StageStates \ {"none"} : TransitionStage(to)
             \/ \E r \in Runs : CreateArtifactVersion(r)
             \/ \E r \in Runs, v \in {"fail", "warning", "pass"} : EvaluateGate(r, v)
             \/ \E g \in DOMAIN gates, approved \in BOOLEAN : DecideApproval(g, approved)
             \/ \E s \in Stages : CreateChangeRequest(s)
             \/ \E i \in DOMAIN recovery : ResumeRecovery(i) \/ DiscardRecovery(i)
      PROVE  WorkKept
  <2>1. agent' = agent /\ tasks' = tasks
    BY <1>9 DEF StartWorkflow, ControlRejected, vars, SetMode, ControlRead, TransitionStage,
                CreateArtifactVersion, EvaluateGate, DecideApproval, CreateChangeRequest,
                ResumeRecovery, DiscardRecovery
  <2>. QED
    BY <1>1, <2>1
<1>. QED
  BY <1>3, <1>4, <1>5, <1>6, <1>7, <1>8, <1>9 DEF Next

LEMMA ReopenEndsWork ==
    ASSUME TypeOK, NEW s \in Stages, ReopenStage(s), NEW i \in OpenTasks'
    PROVE  /\ i \in OpenTasks /\ tasks'[i].run = tasks[i].run /\ tasks[i].run \in Runs
           /\ ~(tasks[i].run[1] >= s /\ IsCurrent(tasks[i].run))
<1>. DEFINE affected == {Current(t) : t \in s..NumStages}
<1>1. CancelTasks({"queued", "running"}, affected)
  BY DEF ReopenStage
<1>. HIDE DEF affected
<1>2. /\ i \in OpenTasks /\ tasks'[i].run = tasks[i].run /\ tasks[i].run \in Runs
      /\ tasks[i].run \notin affected
  BY <1>1, CancelTasksKeepsRuns
<1>3. \A r \in Runs : r[1] >= s /\ IsCurrent(r) => r[1] \in s..NumStages /\ r = Current(r[1])
  BY RunFacts, DeliveryAssumption DEF IsCurrent, Stages
<1>. QED
  BY <1>2, <1>3 DEF affected

\* What a step does to artifacts and handoffs: a step that seals an attempt
\* of the current stage locks the version that very attempt produced.
Seals ==
    \E r \in Runs : /\ r[1] = cur /\ attempt' = attempt /\ artifact[cur].attempt = r[2]
                    /\ \E v : Finalizing(r, v)

Results ==
    \/ UNCHANGED <<artifact, handoff>>
    \/ Seals
    \/ \E r \in Runs : CreateArtifactVersion(r)
    \/ \E s \in Stages : ReopenStage(s) \/ CreateChangeRequest(s)

LEMMA StepResults ==
    ASSUME TypeOK, GateVersions, [Next]_vars
    PROVE  Results
<1>. USE DEF stageVars
<1>1. ASSUME NEW to \in StageStates \ {"none"}, TransitionStage(to) PROVE Results
  BY <1>1 DEF TransitionStage, Results
<1>2. ASSUME NEW r \in Runs, NEW v \in {"fail", "warning", "pass"}, EvaluateGate(r, v)
      PROVE  Results
  <2>1. r[1] = cur /\ attempt' = attempt
    BY <1>2 DEF EvaluateGate, OfCurrentStage
  <2>2. CASE v = "pass" /\ Finalizing(r, artifact[cur].version)
    <3>1. GateClean(r)
      BY <1>2, <2>2 DEF EvaluateGate, Verdicts
    <3>. QED
      BY <2>1, <2>2, <3>1 DEF GateClean, Seals, Results
  <2>3. CASE UNCHANGED <<artifact, handoff>>
    BY <2>3 DEF Results
  <2>. QED
    BY <1>2, <2>2, <2>3 DEF EvaluateGate
<1>3. ASSUME NEW g \in DOMAIN gates, NEW approved \in BOOLEAN, DecideApproval(g, approved)
      PROVE  Results
  <2>1. gates[g].run \in Runs /\ gates[g].run[1] = cur /\ attempt' = attempt
    BY <1>3, GateFacts DEF DecideApproval, OfCurrentStage
  <2>2. CASE Finalizing(gates[g].run, gates[g].version)
    <3>1. artifact[cur].version = gates[g].version
      BY <2>1, <2>2 DEF Finalizing
    <3>. QED
      BY <2>1, <2>2, <3>1 DEF GateVersions, Seals, Results
  <2>3. CASE Rejecting(gates[g].run)
    BY <2>3 DEF Rejecting, Results
  <2>. QED
    BY <1>3, <2>2, <2>3 DEF DecideApproval
<1>4. ASSUME \/ StartWorkflow \/ ControlRejected \/ UNCHANGED vars \/ ControlWrite
             \/ \E m \in {"manual", "autonomous"} : SetMode(m)
             \/ \E a \in Actions : ControlRead(a)
             \/ \E i \in DOMAIN tasks : StartTask(i) \/ CompleteTask(i) \/ CancelTask(i)
             \/ \E r \in Runs : EnqueueTask(r) \/ CreateAgentRun(r)
             \/ \E r \in Runs, o \in {"succeeded", "failed"} : FinishAgentRun(r, o)
             \/ \E c \in BOOLEAN : CrashAndRecover(c)
             \/ \E i \in DOMAIN recovery : ResumeRecovery(i) \/ DiscardRecovery(i)
      PROVE  Results
  BY <1>4 DEF StartWorkflow, ControlRejected, ControlWrite, vars, SetMode, ControlRead, StartTask,
              CompleteTask, CancelTask, EnqueueTask, CreateAgentRun, FinishAgentRun,
              CrashAndRecover, ResumeRecovery, DiscardRecovery, Results
<1>. QED
  BY <1>1, <1>2, <1>3, <1>4 DEF Next, Results

\* A step other than reopening never goes back.
LEMMA Forwards ==
    ASSUME TypeOK, Aside \/ WritesRow \/ Completes
    PROVE  attempt' = attempt /\ cur' \in Nat /\ cur <= cur'
<1>1. cur \in Nat
  BY SMTT(30) DEF TypeOK, Stages
<1>2. CASE Completes
  <2>1. PICK r \in Runs : r[1] = cur /\ Completing(r)
    BY <1>2 DEF Completes
  <2>. QED
    BY <1>1, <1>2, <2>1, CompletingFacts DEF Completes
<1>. QED
  BY <1>1, <1>2 DEF Aside, WritesRow

LEMMA ExistingKept ==
    ASSUME TypeOK, Existing, LaterStagesUntouched, RowKinds
    PROVE  Existing'
<1>0. state \in [Runs -> StageStates]
  BY DEF TypeOK
<1>1. CASE Aside
  BY <1>1 DEF Aside, Existing
<1>2. CASE WritesRow
  BY <1>0, <1>2 DEF WritesRow, Existing
<1>3. CASE Completes
  <2>1. PICK r \in Runs : r[1] = cur /\ state[r] # "none" /\ Completing(r)
    BY <1>3 DEF Completes
  <2>2. \A q \in Runs : state'[q] = "none" <=> state[q] = "none"
    BY <2>1, CompletingFacts
  <2>. QED
    BY <1>3, <2>2 DEF Completes, Existing
<1>4. ASSUME NEW s \in Stages, ReopenStage(s) PROVE Existing'
  <2>. SUFFICES ASSUME NEW r \in Runs PROVE state'[r] = "none" <=> r[2] > attempt'[r[1]]
    BY DEF Existing
  <2>1. r[1] \in Stages /\ r[2] \in Nat /\ attempt[r[1]] \in Nat /\ r[1] \in Nat /\ s \in Nat
    BY RunFacts, SMTT(30) DEF TypeOK, Stages
  <2>2. state[r] = "none" <=> r[2] > attempt[r[1]]
    BY DEF Existing
  <2>3. /\ attempt'[r[1]] = IF r[1] >= s THEN attempt[r[1]] + 1 ELSE attempt[r[1]]
        /\ state'[r] = IF r[1] >= s /\ r[2] = attempt[r[1]] + 1
                       THEN IF r[1] = s THEN "ready" ELSE "locked"
                       ELSE state[r]
    BY <1>4, <2>1, ReopenFacts
  <2>. QED
    BY <2>1, <2>2, <2>3
<1>. QED
  BY <1>1, <1>2, <1>3, <1>4 DEF RowKinds

\* Records appear for the current run, and are only ever resolved.
LEMMA RecoveryStep ==
    ASSUME TypeOK, [Next]_vars
    PROVE  \A i \in DOMAIN recovery' :
               \/ i \in DOMAIN recovery /\ recovery'[i].run = recovery[i].run
               \/ recovery'[i].run = CurrentRun /\ UNCHANGED <<cur, attempt>>
<1>. USE DEF stageVars
<1>1. CASE recovery' = recovery
  BY <1>1
<1>2. ASSUME NEW i \in DOMAIN recovery, ResumeRecovery(i) \/ DiscardRecovery(i)
      PROVE  \A j \in DOMAIN recovery' : j \in DOMAIN recovery /\ recovery'[j].run = recovery[j].run
  <2>1. recovery' = [recovery EXCEPT ![i] = [recovery[i] EXCEPT !.pending = FALSE]]
    BY <1>2 DEF ResumeRecovery, DiscardRecovery
  <2>2. recovery[i] \in RecoveryRecords
    BY LogTypes, ElementType
  <2>. QED
    BY <2>1, <2>2
<1>3. ASSUME NEW c \in BOOLEAN, CrashAndRecover(c), recovery' # recovery
      PROVE  \A i \in DOMAIN recovery' :
                 \/ i \in DOMAIN recovery /\ recovery'[i].run = recovery[i].run
                 \/ recovery'[i].run = CurrentRun /\ UNCHANGED <<cur, attempt>>
  <2>1. /\ recovery' = Append(recovery, [run |-> CurrentRun, pending |-> TRUE])
        /\ UNCHANGED <<cur, attempt>>
    BY <1>3 DEF CrashAndRecover
  <2>2. [run |-> CurrentRun, pending |-> TRUE] \in RecoveryRecords /\ recovery \in Seq(RecoveryRecords)
    BY RunFacts, LogTypes
  <2>3. /\ DOMAIN recovery' = 1..Len(recovery) + 1 /\ DOMAIN recovery = 1..Len(recovery)
        /\ Len(recovery) \in Nat
        /\ \A i \in 1..Len(recovery) : recovery'[i] = recovery[i]
        /\ recovery'[Len(recovery) + 1] = [run |-> CurrentRun, pending |-> TRUE]
    BY <2>1, <2>2, AppendProperties, LenProperties
  <2>. QED
    BY <2>1, <2>3
<1>4. ASSUME recovery' # recovery, [Next]_vars
      PROVE  \/ \E i \in DOMAIN recovery : ResumeRecovery(i) \/ DiscardRecovery(i)
             \/ \E c \in BOOLEAN : CrashAndRecover(c)
  BY <1>4 DEF Next, StartWorkflow, SetMode, TransitionStage, ReopenStage, EnqueueTask, StartTask,
     CompleteTask, CancelTask, CreateAgentRun, FinishAgentRun, CreateArtifactVersion, EvaluateGate,
     DecideApproval, CreateChangeRequest, ControlRead, ControlWrite, ControlRejected, vars
<1>. QED
  BY <1>1, <1>2, <1>3, <1>4

LEMMA RecoveryPastKept ==
    ASSUME TypeOK, RecoveryPast, LaterStagesUntouched, RowKinds, [Next]_vars
    PROVE  RecoveryPast'
<1>. SUFFICES ASSUME NEW i \in DOMAIN recovery', NEW r, r = recovery'[i].run
              PROVE  r[2] <= attempt'[r[1]] /\ (r[1] <= cur' \/ r[2] < attempt'[r[1]])
  BY DEF RecoveryPast
<1>0. cur \in Nat /\ \A t \in Stages : attempt[t] \in Nat
  <2>1. cur \in Nat
    BY DEF TypeOK, Stages
  <2>2. \A t \in Stages : attempt[t] \in Nat
    BY DEF TypeOK
  <2>. QED
    BY <2>1, <2>2
<1>1. CASE r = CurrentRun /\ UNCHANGED <<cur, attempt>>
  <2>1. r[2] \in Nat /\ r[2] = attempt[r[1]] /\ r[1] = cur
    BY <1>0, <1>1, RunFacts DEF IsCurrent, TypeOK
  <2>. QED
    BY <1>0, <1>1, <2>1
<1>2. CASE i \in DOMAIN recovery /\ r = recovery[i].run
  <2>1. /\ r \in Runs /\ r[1] \in Stages /\ r[1] \in Nat /\ r[2] \in Nat
        /\ r[2] <= attempt[r[1]] /\ (r[1] <= cur \/ r[2] < attempt[r[1]])
    BY <1>2, RecoveryFacts DEF RecoveryPast, Stages
  <2>2. CASE Aside \/ WritesRow \/ Completes
    BY <1>0, <2>1, <2>2, Forwards
  <2>3. ASSUME NEW s \in Stages, ReopenStage(s)
        PROVE  r[2] <= attempt'[r[1]] /\ (r[1] <= cur' \/ r[2] < attempt'[r[1]])
    <3>1. s \in Nat /\ cur' = s /\ attempt'[r[1]] = IF r[1] >= s THEN attempt[r[1]] + 1 ELSE attempt[r[1]]
      BY <2>1, <2>3, ReopenFacts
    <3>. QED
      BY <1>0, <2>1, <3>1
  <2>. QED
    BY <2>2, <2>3 DEF RowKinds
<1>. QED
  BY <1>1, <1>2, RecoveryStep

LEMMA WorkExistsKept ==
    ASSUME TypeOK, WorkExists, LaterStagesUntouched, RowKinds, WorkKept
    PROVE  WorkExists'
<1>1. /\ \A t \in Stages : attempt[t] \in Nat
      /\ \A r \in Runs : r[1] \in Stages /\ r[2] \in Nat /\ (IsCurrent(r) <=> r[2] = attempt[r[1]])
  BY RunFacts, SMTT(30) DEF TypeOK
<1>2. \A t \in Stages : attempt'[t] \in Nat /\ attempt[t] <= attempt'[t]
  <2>1. CASE Aside \/ WritesRow \/ Completes
    BY <1>1, <2>1, Forwards
  <2>2. ASSUME NEW s \in Stages, ReopenStage(s)
        PROVE  \A t \in Stages : attempt'[t] \in Nat /\ attempt[t] <= attempt'[t]
    BY <1>1, <2>2, ReopenFacts
  <2>. QED
    BY <2>1, <2>2 DEF RowKinds
<1>3. ASSUME NEW r \in Runs, r[2] <= attempt[r[1]] PROVE r[2] <= attempt'[r[1]]
  BY <1>1, <1>2, <1>3
<1>4. \A r \in Runs : AgentActive(r)' => r[2] <= attempt[r[1]]
  BY <1>1 DEF WorkKept, WorkExists, NewWork
<1>5. \A i \in OpenTasks' : tasks'[i].run \in Runs /\ tasks'[i].run[2] <= attempt[tasks'[i].run[1]]
  BY <1>1 DEF WorkKept, WorkExists, NewWork
<1>. QED
  BY <1>3, <1>4, <1>5 DEF WorkExists

LEMMA LaterStagesKept ==
    ASSUME TypeOK, RowsInv, RowKinds, WorkKept, Results
    PROVE  LaterStagesUntouched'
<1>0. /\ cur \in Nat /\ cur \in Stages /\ NumStages \in Nat
      /\ \A t \in Stages : /\ t \in Nat /\ t <= NumStages /\ attempt[t] \in Nat
                           /\ Current(t) \in Runs /\ Current(t)[1] = t /\ Current(t)[2] = attempt[t]
                           /\ IsCurrent(Current(t))
  <2>1. /\ cur \in Stages /\ NumStages \in Nat
        /\ \A t \in Stages : attempt[t] \in Nat
    BY DeliveryAssumption DEF TypeOK
  <2>2. \A t \in Stages : t \in Nat /\ t <= NumStages
    BY <2>1 DEF Stages
  <2>3. \A t \in Stages : /\ Current(t) \in Runs /\ Current(t)[1] = t /\ Current(t)[2] = attempt[t]
                          /\ IsCurrent(Current(t))
    BY RunFacts DEF IsCurrent
  <2>. QED
    BY <2>1, <2>2, <2>3
<1>1. ASSUME NEW s \in Stages, ReopenStage(s) PROVE LaterStagesUntouched'
  <2>1. ASSUME NEW t \in Stages, t > cur', NEW q, q = <<t, attempt[t] + 1>>
        PROVE  /\ Current(t)' = q
               /\ state'[q] = "locked" /\ ~AgentActive(q)'
               /\ \A i \in OpenTasks' : tasks'[i].run # q
               /\ artifact'[t].status \notin {"draft", "locked"}
               /\ \A r \in Runs : r[1] = t => handoff'[r] # "active"
    <3>1. t > s /\ t >= s /\ s \in Nat /\ t # s
      BY <1>0, <1>1, <2>1, ReopenFacts DEF RowsInv
    <3>2. Current(t)' = q /\ q \in Runs /\ q[1] = t /\ q[2] = attempt[t] + 1
      BY <1>1, <2>1, <3>1, ReopenFacts DEF Current, Runs, RowsInv
    <3>3. state'[q] = "locked"
      BY <1>0, <1>1, <3>1, <3>2, ReopenFacts DEF RowsInv
    <3>4. ~(q[2] <= attempt[q[1]])
      BY <1>0, <3>2
    <3>5. ~AgentActive(q)'
      BY <3>2, <3>4, <1>1, ReopenFacts DEF RowsInv, WorkExists, AgentActive
    <3>6. \A i \in OpenTasks' : tasks'[i].run # q
      <4>1. \A i \in OpenTasks' : i \in OpenTasks /\ tasks'[i].run = tasks[i].run
        BY <1>1, ReopenEndsWork
      <4>. QED
        BY <3>4, <4>1 DEF RowsInv, WorkExists
    <3>7. /\ artifact'[t].status \notin {"draft", "locked"}
          /\ \A r \in Runs : r[1] = t => handoff'[r] # "active"
      BY <1>1, <3>1, ReopenFacts DEF RowsInv
    <3>. QED
      BY <3>2, <3>3, <3>5, <3>6, <3>7
  <2>. QED
    BY <2>1 DEF LaterStagesUntouched, AgentActive
<1>2. ASSUME Aside \/ WritesRow \/ Completes PROVE LaterStagesUntouched'
  <2>. SUFFICES ASSUME NEW t \in Stages, t > cur'
                PROVE  /\ state'[Current(t)] = "locked" /\ ~AgentActive(Current(t))'
                       /\ \A i \in OpenTasks' : tasks'[i].run # Current(t)
                       /\ artifact'[t].status \notin {"draft", "locked"}
                       /\ \A r \in Runs : r[1] = t => handoff'[r] # "active"
    BY <1>2, Forwards DEF LaterStagesUntouched, AgentActive, Current
  <2>1. t > cur /\ t # cur
    BY <1>0, <1>2, Forwards
  <2>2. /\ state[Current(t)] = "locked" /\ ~AgentActive(Current(t))
        /\ \A i \in OpenTasks : tasks[i].run # Current(t)
        /\ artifact[t].status \notin {"draft", "locked"}
        /\ \A r \in Runs : r[1] = t => handoff[r] # "active"
    BY <2>1 DEF RowsInv, LaterStagesUntouched
  <2>3. state'[Current(t)] = "locked"
    <3>1. CASE Aside
      BY <2>2, <3>1 DEF Aside
    <3>2. CASE WritesRow
      <4>1. PICK r \in Runs : /\ r[1] <= cur \/ ~IsCurrent(r)
                              /\ \E x \in StageStates : state' = [state EXCEPT ![r] = x]
        BY <3>2 DEF WritesRow
      <4>2. r # Current(t)
        BY <1>0, <2>1, <4>1
      <4>. QED
        BY <1>0, <2>2, <4>1, <4>2 DEF TypeOK
    <3>3. CASE Completes
      <4>1. PICK r \in Runs : r[1] = cur /\ Completing(r)
        BY <3>3 DEF Completes
      <4>2. Current(t) # r /\ ~(Current(t)[1] = cur + 1)
        BY <1>0, <2>1, <4>1, CompletingFacts
      <4>. QED
        BY <1>0, <2>2, <4>1, <4>2, CompletingFacts
    <3>. QED
      BY <1>2, <3>1, <3>2, <3>3
  <2>4. /\ ~AgentActive(Current(t))' /\ \A i \in OpenTasks' : tasks'[i].run # Current(t)
    <3>1. Current(t) \in Runs /\ ~NewWork(Current(t))
      BY <1>0, <2>2 DEF NewWork
    <3>2. ~AgentActive(Current(t))'
      <4>1. \A q \in Runs : ~AgentActive(q) /\ ~NewWork(q) => ~AgentActive(q)'
        BY DEF WorkKept
      <4>2. Current(t)' = Current(t)
        BY <1>2, Forwards DEF Current
      <4>. QED
        BY <2>2, <3>1, <4>1, <4>2 DEF AgentActive
    <3>3. \A i \in OpenTasks' : \/ tasks'[i].run = tasks[i].run /\ i \in OpenTasks
                               \/ NewWork(tasks'[i].run)
      BY DEF WorkKept
    <3>. QED
      BY <2>2, <3>1, <3>2, <3>3
  <2>5. /\ artifact'[t].status \notin {"draft", "locked"}
        /\ \A r \in Runs : r[1] = t => handoff'[r] # "active"
    <3>1. CASE UNCHANGED <<artifact, handoff>>
      BY <2>2, <3>1
    <3>2. CASE Seals
      <4>1. PICK r \in Runs : r[1] = cur /\ \E v : Finalizing(r, v)
        BY <3>2 DEF Seals
      <4>2. artifact'[t] = artifact[t] /\ \A q \in Runs : q # r => handoff'[q] = handoff[q]
        BY <2>1, <4>1 DEF Finalizing, TypeOK
      <4>. QED
        BY <2>1, <2>2, <4>1, <4>2
    <3>3. ASSUME NEW r \in Runs, CreateArtifactVersion(r)
          PROVE  artifact'[t] = artifact[t] /\ handoff' = handoff
      BY <2>1, <3>3 DEF CreateArtifactVersion, TypeOK
    <3>4. ASSUME NEW s \in Stages, CreateChangeRequest(s)
          PROVE  /\ artifact'[t] = artifact[t] \/ artifact'[t].status = "invalidated"
                 /\ \A r \in Runs : handoff'[r] = handoff[r] \/ handoff'[r] = "invalidated"
      BY <3>4 DEF CreateChangeRequest, InvalidateFrom, Voided, TypeOK
    <3>5. ASSUME NEW s \in Stages, ReopenStage(s)
          PROVE  /\ artifact'[t].status \notin {"draft", "locked"}
                 /\ \A r \in Runs : r[1] = t => handoff'[r] # "active"
      <4>1. t >= s
        BY <1>0, <2>1, <3>5, ReopenFacts DEF RowsInv
      <4>. QED
        BY <3>5, <4>1, ReopenFacts DEF RowsInv
    <3>. QED
      BY <2>2, <3>1, <3>2, <3>3, <3>4, <3>5 DEF Results
  <2>. QED
    BY <2>3, <2>4, <2>5
<1>. QED
  BY <1>1, <1>2 DEF RowKinds

LEMMA RowsInvInductive == Spec => []RowsInv
<1>1. Init => RowsInv
  <2>. SUFFICES ASSUME Init PROVE RowsInv
    OBVIOUS
  <2>0. DOMAIN tasks = {} /\ DOMAIN recovery = {}
    BY EmptySeq DEF Init
  <2>1. Existing
    BY DEF Init, Existing, Runs
  <2>2. RecoveryPast /\ WorkExists
    BY <2>0 DEF Init, RecoveryPast, WorkExists, AgentActive, OpenTasks
  <2>3. LaterStagesUntouched
    <3>1. \A s \in Stages : Current(s) = <<s, 1>> /\ <<s, 1>> \in Runs
      BY DeliveryAssumption DEF Init, Current, Runs
    <3>. QED
      <4>1. ASSUME NEW s \in Stages, s > cur
            PROVE  state[<<s, 1>>] = "locked" /\ agent[<<s, 1>>] = "none"
        BY <3>1, <4>1 DEF Init
      <4>2. OpenTasks = {}
        BY <2>0 DEF OpenTasks
      <4>. QED
        BY <3>1, <4>1, <4>2 DEF Init, LaterStagesUntouched, AgentActive
  <2>. QED
    BY <2>1, <2>2, <2>3 DEF RowsInv
<1>2. TypeOK /\ ControlHitsCurrentRun /\ GateVersions /\ RowsInv /\ [Next]_vars => RowsInv'
  BY RowStep, StepKeepsWork, StepResults, ExistingKept, RecoveryPastKept, WorkExistsKept,
     LaterStagesKept DEF RowsInv
<1>. QED
  BY <1>1, <1>2, TypeCorrect, ControlHitsCurrentRunCorrect, GateVersionsInductive, PTL DEF Spec

\* Rework leaves nothing valid behind, whichever attempts commands name:
\* later stages are locked, without work and without results in force.
THEOREM LaterStagesUntouchedCorrect == Spec => []LaterStagesUntouched
BY RowsInvInductive, PTL DEF RowsInv

\* A superseded attempt is inert: its room is closed and nobody works for it.
\* Reopening is the only step that supersedes an attempt, and it ends its
\* work in the same transaction; no later command can bring it back.
THEOREM SupersededInertCorrect == Spec => []SupersededInert
<1>1. Init => SupersededInert
  BY RunFacts DEF Init, SupersededInert, IsCurrent, Current, Runs
<1>2. TypeOK /\ RowsInv /\ RowsInv' /\ ControlHitsCurrentRun /\ SupersededInert /\ [Next]_vars
        => SupersededInert'
  <2>. SUFFICES ASSUME TypeOK, RowsInv, RowsInv', ControlHitsCurrentRun, SupersededInert, [Next]_vars,
                       NEW r \in Runs, state'[r] # "none", ~IsCurrent(r)'
                PROVE  /\ room'[r] # "active"
                       /\ ~AgentActive(r)'
                       /\ \A i \in OpenTasks' : tasks'[i].run # r
    BY DEF SupersededInert
  <2>1. r[1] \in Stages /\ r[2] \in Nat /\ attempt[r[1]] \in Nat /\ (IsCurrent(r) <=> r[2] = attempt[r[1]])
    BY RunFacts, SMTT(30) DEF TypeOK
  <2>2. ~(r[2] > attempt'[r[1]])
    BY DEF RowsInv, Existing
  <2>3. WorkKept
    BY StepKeepsWork
  <2>4. ASSUME attempt' = attempt, room'[r] = room[r] \/ room'[r] \in {"consultation", "archived"}
        PROVE  /\ room'[r] # "active"
               /\ ~AgentActive(r)'
               /\ \A i \in OpenTasks' : tasks'[i].run # r
    <3>1. state[r] # "none" /\ ~IsCurrent(r)
      BY <2>2, <2>4 DEF RowsInv, Existing, IsCurrent, Current
    <3>2. room[r] # "active" /\ ~AgentActive(r) /\ \A i \in OpenTasks : tasks[i].run # r
      BY <3>1 DEF SupersededInert
    <3>. QED
      BY <2>3, <2>4, <3>1, <3>2 DEF WorkKept, NewWork
  <2>5. CASE Aside
    BY <2>4, <2>5 DEF Aside
  <2>6. CASE WritesRow
    BY <2>4, <2>6 DEF WritesRow, TypeOK
  <2>7. CASE Completes
    <3>1. PICK q \in Runs : q[1] = cur /\ Completing(q)
      BY <2>7 DEF Completes
    <3>. QED
      BY <2>4, <2>7, <3>1, CompletingFacts DEF Completes
  <2>8. ASSUME NEW s \in Stages, ReopenStage(s)
        PROVE  /\ room'[r] # "active"
               /\ ~AgentActive(r)'
               /\ \A i \in OpenTasks' : tasks'[i].run # r
    <3>1. /\ attempt'[r[1]] = IF r[1] >= s THEN attempt[r[1]] + 1 ELSE attempt[r[1]]
          /\ r[1] >= s /\ r[2] = attempt[r[1]] => room'[r] = "archived" /\ ~AgentActive(r)
          /\ r[2] < attempt[r[1]] => room'[r] = room[r]
          /\ agent' = agent
      BY <2>1, <2>8, ReopenFacts DEF RowsInv
    <3>2. r[2] <= attempt'[r[1]] /\ r[2] # attempt'[r[1]]
      <4>1. r[2] # attempt'[r[1]]
        BY <2>1 DEF IsCurrent, Current, Runs
      <4>. QED
        BY <2>1, <2>2, <3>1, <4>1
    <3>3. CASE r[1] >= s /\ r[2] = attempt[r[1]]
      BY <2>1, <2>8, <3>1, <3>3, ReopenEndsWork DEF AgentActive
    <3>4. CASE r[2] < attempt[r[1]]
      <4>1. state[r] # "none" /\ ~IsCurrent(r)
        BY <2>1, <3>4 DEF RowsInv, Existing
      <4>2. room[r] # "active" /\ ~AgentActive(r) /\ \A i \in OpenTasks : tasks[i].run # r
        BY <4>1 DEF SupersededInert
      <4>. QED
        BY <2>8, <3>1, <3>4, <4>2, ReopenEndsWork DEF AgentActive
    <3>5. (r[1] >= s /\ r[2] = attempt[r[1]]) \/ r[2] < attempt[r[1]]
      <4>1. r[1] \in Nat /\ s \in Nat
        BY <2>1 DEF Stages
      <4>. QED
        BY <2>1, <3>1, <3>2, <4>1
    <3>. QED
      BY <3>3, <3>4, <3>5
  <2>. QED
    BY <2>5, <2>6, <2>7, <2>8, RowStep DEF RowKinds, RowsInv
<1>. QED
  BY <1>1, <1>2, TypeCorrect, RowsInvInductive, ControlHitsCurrentRunCorrect, PTL DEF Spec

-----------------------------------------------------------------------------
(***************************************************************************)
(* Handoffs.  A packet in force is of a stage before the current one, or   *)
(* of the last stage; a stage with a packet is therefore never the one     *)
(* that commands write, except the last.                                   *)
(***************************************************************************)
HandoffPlace ==
    \A r \in Runs : handoff[r] = "active" => r[1] < cur \/ cur = NumStages

HandoffInv == HandoffPlace /\ HandoffBacked

\* What later stages build on is there: the packet of an earlier stage refers
\* to the locked version of its own attempt, whatever happened to the stage
\* and its attempts since.
THEOREM HandoffBackedCorrect == Spec => []HandoffBacked
<1>1. Init => HandoffInv
  BY DEF Init, HandoffInv, HandoffPlace, HandoffBacked
<1>2. TypeOK /\ RowsInv /\ ControlHitsCurrentRun /\ GateVersions /\ HandoffInv /\ [Next]_vars
        => HandoffInv'
  <2>. DEFINE Backed(r) == artifact[r[1]].attempt = r[2] /\ artifact[r[1]].status = "locked"
  <2>. SUFFICES ASSUME TypeOK, RowsInv, ControlHitsCurrentRun, GateVersions, HandoffInv, [Next]_vars,
                       NEW r \in Runs, handoff'[r] = "active"
                PROVE  (r[1] < cur' \/ cur' = NumStages) /\ (r[1] < cur' => Backed(r)')
    BY DEF HandoffInv, HandoffPlace, HandoffBacked
  <2>0. /\ cur \in Nat /\ cur \in Stages /\ NumStages \in Nat /\ cur <= NumStages
        /\ r[1] \in Stages /\ r[1] \in Nat /\ r[1] <= NumStages
        /\ handoff \in [Runs -> {"none", "active", "invalidated"}]
    <3>1. r[1] \in Stages
      BY RunFacts
    <3>2. cur \in Stages /\ handoff \in [Runs -> {"none", "active", "invalidated"}]
      BY DEF TypeOK
    <3>. QED
      BY <3>1, <3>2, DeliveryAssumption DEF Stages
  <2>1. handoff[r] = "active" => (r[1] < cur \/ cur = NumStages) /\ (r[1] < cur => Backed(r))
    BY DEF HandoffInv, HandoffPlace, HandoffBacked
  <2>2. handoff[r] = "active" => r[1] <= cur
    BY <2>0 DEF RowsInv, LaterStagesUntouched
  <2>3. ASSUME NEW q \in Runs, q[1] = cur, Completing(q), handoff[r] = "active",
               r[1] # cur => artifact'[r[1]] = artifact[r[1]]
        PROVE  (r[1] < cur' \/ cur' = NumStages) /\ (r[1] < cur' => Backed(r)')
    <3>1. cur' = IF cur = NumStages THEN cur ELSE cur + 1
      BY <2>3, CompletingFacts
    <3>. QED
      BY <2>0, <2>1, <2>2, <2>3, <3>1
  <2>4. CASE UNCHANGED <<artifact, handoff>> /\ (Aside \/ WritesRow \/ Completes)
    <3>1. CASE cur' = cur
      BY <2>1, <2>4, <3>1
    <3>2. CASE Completes
      <4>1. PICK q \in Runs : q[1] = cur /\ Completing(q)
        BY <3>2 DEF Completes
      <4>. QED
        BY <2>3, <2>4, <4>1
    <3>. QED
      BY <2>4, <3>1, <3>2 DEF Aside, WritesRow
  <2>5. CASE Seals
    <3>1. PICK q \in Runs : /\ q[1] = cur /\ artifact[cur].attempt = q[2]
                            /\ \E v : Finalizing(q, v)
      BY <2>5 DEF Seals
    <3>2. /\ Completing(q) /\ handoff' = [handoff EXCEPT ![q] = "active"]
          /\ artifact' = [artifact EXCEPT ![cur].status = "locked"]
          /\ artifact \in [Stages -> ArtifactRecords]
      BY <3>1 DEF Finalizing, TypeOK
    <3>3. \A t \in Stages : t # cur => artifact'[t] = artifact[t]
      BY <3>2
    <3>4. CASE r = q
      <4>1. artifact'[cur].attempt = q[2] /\ artifact'[cur].status = "locked"
        BY <2>0, <3>1, <3>2
      <4>2. cur' = IF cur = NumStages THEN cur ELSE cur + 1
        BY <3>1, <3>2, CompletingFacts
      <4>. QED
        BY <2>0, <3>1, <3>4, <4>1, <4>2
    <3>5. CASE r # q
      BY <2>0, <2>3, <3>1, <3>2, <3>3, <3>5
    <3>. QED
      BY <3>4, <3>5
  <2>6. ASSUME NEW q \in Runs, CreateArtifactVersion(q)
        PROVE  (r[1] < cur' \/ cur' = NumStages) /\ (r[1] < cur' => Backed(r)')
    <3>1. UNCHANGED <<cur, handoff>> /\ \A t \in Stages : t # cur => artifact'[t] = artifact[t]
      BY <2>6 DEF CreateArtifactVersion, stageVars, TypeOK
    <3>. QED
      BY <2>0, <2>1, <3>1
  <2>7. ASSUME NEW s \in Stages, CreateChangeRequest(s)
        PROVE  (r[1] < cur' \/ cur' = NumStages) /\ (r[1] < cur' => Backed(r)')
    <3>1. cur' = cur /\ handoff[r] = "active" /\ artifact'[r[1]] = artifact[r[1]]
      BY <2>0, <2>7 DEF CreateChangeRequest, InvalidateFrom, Voided, stageVars
    <3>. QED
      BY <2>1, <3>1
  <2>8. ASSUME NEW s \in Stages, ReopenStage(s)
        PROVE  (r[1] < cur' \/ cur' = NumStages) /\ (r[1] < cur' => Backed(r)')
    <3>1. /\ cur' = s /\ s <= cur /\ s \in Nat
          /\ handoff'[r] = IF r[1] >= s /\ handoff[r] = "active" THEN "invalidated" ELSE handoff[r]
          /\ r[1] < s => artifact'[r[1]] = artifact[r[1]]
      BY <2>0, <2>8, ReopenFacts DEF RowsInv
    <3>2. handoff[r] = "active" /\ r[1] < s
      BY <2>0, <3>1
    <3>. QED
      BY <2>0, <2>1, <3>1, <3>2
  <2>. QED
    BY <2>4, <2>5, <2>6, <2>7, <2>8, RowStep, StepResults DEF RowKinds, Results, RowsInv
<1>3. HandoffInv => HandoffBacked
  BY DEF HandoffInv
<1>. QED
  BY <1>1, <1>2, <1>3, TypeCorrect, RowsInvInductive, ControlHitsCurrentRunCorrect,
     GateVersionsInductive, PTL DEF Spec

\* The promise to the user holds for every client, also one that completes a
\* stage itself: stages are gone through one by one, a packet seals only the
\* stage that is worked on, rework voids a stage with everything after it.
THEOREM Refinement == Spec => ImplementsContract
<1>. DEFINE Sealed == {r \in Runs : handoff[r] = "active"}
<1>1. Init => Contract!Init
  BY DEF Init, Contract!Init
<1>2. TypeOK /\ RowsInv /\ ControlHitsCurrentRun /\ GateVersions /\ [Next]_vars
        => [Contract!Next]_Contract!vars
  <2>. SUFFICES ASSUME TypeOK, RowsInv, ControlHitsCurrentRun, GateVersions, [Next]_vars
                PROVE  [Contract!Next]_Contract!vars
    OBVIOUS
  <2>. DEFINE Forward == cur' = IF cur = NumStages THEN cur ELSE cur + 1
              VoidFrom(s) == Sealed' = {a \in Sealed : a[1] < s}
  <2>. SUFFICES \/ cur' = cur /\ Sealed' = Sealed
                \/ \E a \in Runs : a[1] = cur /\ Sealed' = Sealed \cup {a} /\ Forward
                \/ Forward /\ Sealed' = Sealed
                \/ \E s \in Stages : s <= cur /\ VoidFrom(s) /\ (cur' = s \/ cur' = cur)
    BY DEF Contract!Next, Contract!Deliver, Contract!Leave, Contract!Forward, Contract!Rework,
           Contract!Invalidate, Contract!VoidFrom, Contract!vars, Contract!Attempts,
           Contract!Stages, Runs, Stages
  <2>0. handoff \in [Runs -> {"none", "active", "invalidated"}] /\ NumStages \in Nat
    BY DeliveryAssumption DEF TypeOK
  <2>1. CASE handoff' = handoff /\ (Aside \/ WritesRow \/ Completes)
    <3>1. CASE cur' = cur
      BY <2>1, <3>1
    <3>2. CASE Completes
      <4>1. Forward
        BY <3>2, CompletingFacts DEF Completes
      <4>. QED
        BY <2>1, <4>1
    <3>. QED
      BY <2>1, <3>1, <3>2 DEF Aside, WritesRow
  <2>2. CASE Seals
    <3>1. PICK q \in Runs : q[1] = cur /\ \E v : Finalizing(q, v)
      BY <2>2 DEF Seals
    <3>2. Completing(q) /\ handoff' = [handoff EXCEPT ![q] = "active"]
      BY <3>1 DEF Finalizing
    <3>3. Forward
      BY <3>1, <3>2, CompletingFacts
    <3>4. Sealed' = Sealed \cup {q}
      BY <2>0, <3>2
    <3>. QED
      BY <3>1, <3>3, <3>4
  <2>3. ASSUME NEW q \in Runs, CreateArtifactVersion(q) PROVE cur' = cur /\ Sealed' = Sealed
    BY <2>3 DEF CreateArtifactVersion, stageVars
  <2>4. ASSUME NEW s \in Stages, Voided(s..NumStages) PROVE VoidFrom(s)
    <3>1. \A r \in Runs : handoff'[r] = "active" <=> handoff[r] = "active" /\ r[1] \notin s..NumStages
      BY <2>0, <2>4 DEF Voided
    <3>2. \A r \in Runs : r[1] \notin s..NumStages <=> r[1] < s
      BY <2>0 DEF Runs, Stages
    <3>. QED
      BY <3>1, <3>2
  <2>5. ASSUME NEW s \in Stages, CreateChangeRequest(s) PROVE s <= cur /\ VoidFrom(s) /\ cur' = cur
    BY <2>4, <2>5 DEF CreateChangeRequest, InvalidateFrom, stageVars
  <2>6. ASSUME NEW s \in Stages, ReopenStage(s) PROVE s <= cur /\ VoidFrom(s) /\ cur' = s
    <3>1. s <= cur /\ cur' = s
      BY <2>6, ReopenFacts DEF RowsInv
    <3>2. Voided(s..NumStages)
      BY <2>6 DEF ReopenStage, InvalidateFrom
    <3>. QED
      BY <2>4, <3>1, <3>2
  <2>. QED
    BY <2>1, <2>2, <2>3, <2>5, <2>6, RowStep, StepResults DEF RowKinds, Results, RowsInv
<1>3. Spec => Contract!Init /\ [][Contract!Next]_Contract!vars
  BY <1>1, <1>2, TypeCorrect, RowsInvInductive, ControlHitsCurrentRunCorrect,
     GateVersionsInductive, PTL DEF Spec
<1>. QED
  BY <1>3 DEF ImplementsContract, Contract!Spec

-----------------------------------------------------------------------------
(***************************************************************************)
(* The status of a workflow against the rows it speaks of.  They are       *)
(* written by different commands, but those that set one of the four       *)
(* waiting or final statuses set the rows in the same transaction, and     *)
(* whatever writes the rows of a stage later sets the status again.        *)
(***************************************************************************)
LEMMA StatusKept ==
    ASSUME StatusBacked, UNCHANGED <<status, cur, attempt, state, gates, recovery>>
    PROVE  StatusBacked'
BY DEF StatusBacked, CurrentRun, Current

LEMMA StatusElsewhere ==
    ASSUME status' \notin {"waiting_user", "warning_blocked", "interrupted", "completed"}
    PROVE  StatusBacked'
BY DEF StatusBacked

LEMMA StatusCompleted ==
    ASSUME TypeOK, NEW r \in Runs, r[1] = cur, Completing(r)
    PROVE  StatusBacked'
<1>1. /\ state'[r] = "completed"
      /\ status' = IF cur = NumStages THEN "completed" ELSE "running"
      /\ cur' = IF cur = NumStages THEN cur ELSE cur + 1
  BY CompletingFacts
<1>. QED
  BY <1>1 DEF StatusBacked

\* A waiting, blocked, interrupted or completed workflow has the rows that
\* say so, of whichever attempt of its current stage the command named.
THEOREM StatusBackedCorrect == Spec => []StatusBacked
<1>1. Init => StatusBacked
  BY DEF Init, StatusBacked
<1>2. TypeOK /\ StatusBacked /\ [Next]_vars => StatusBacked'
  <2>. SUFFICES ASSUME TypeOK, StatusBacked, [Next]_vars PROVE StatusBacked'
    OBVIOUS
  <2>. USE DEF stageVars
  <2>0. CurrentRun \in Runs /\ CurrentRun[1] = cur /\ state \in [Runs -> StageStates]
    BY RunFacts DEF TypeOK
  <2>1. ASSUME NEW to \in StageStates \ {"none"}, TransitionStage(to) PROVE StatusBacked'
    <3>1. CASE Completing(CurrentRun)
      BY <2>0, <3>1, StatusCompleted
    <3>2. CASE status' \in {"abandoned", "failed", "running"}
      BY <3>2, StatusElsewhere
    <3>. QED
      BY <2>1, <3>1, <3>2 DEF TransitionStage
  <2>2. ASSUME NEW r \in Runs, NEW v \in {"fail", "warning", "pass"}, EvaluateGate(r, v)
        PROVE  StatusBacked'
    <3>1. r[1] = cur
      BY <2>2 DEF EvaluateGate, OfCurrentStage
    <3>2. CASE /\ gates' = Append(gates, [run |-> r, version |-> artifact[cur].version, open |-> TRUE])
               /\ state' = [state EXCEPT ![r] = "waiting_approval"]
               /\ status' = "waiting_user"
               /\ cur' = cur
      <4>. DEFINE g == Len(gates) + 1
      <4>1. /\ [run |-> r, version |-> artifact[cur].version, open |-> TRUE] \in GateRecords
            /\ gates \in Seq(GateRecords)
        BY DEF TypeOK
      <4>2. /\ g \in DOMAIN gates'
            /\ gates'[g] = [run |-> r, version |-> artifact[cur].version, open |-> TRUE]
        BY <3>2, <4>1, AppendProperties, LenProperties
      <4>3. gates'[g].open /\ gates'[g].run = r
        BY <4>2
      <4>4. state'[r] = "waiting_approval"
        BY <2>0, <3>2
      <4>. HIDE DEF g
      <4>5. gates'[g].open /\ gates'[g].run[1] = cur' /\ state'[gates'[g].run] = "waiting_approval"
        BY <3>1, <3>2, <4>3, <4>4
      <4>. QED
        BY <3>2, <4>2, <4>5 DEF StatusBacked
    <3>3. CASE Finalizing(r, artifact[cur].version)
      BY <3>1, <3>3, StatusCompleted DEF Finalizing
    <3>4. CASE /\ state' = [state EXCEPT ![r] =
                      IF v = "warning" THEN "warning_blocked" ELSE "needs_fix"]
               /\ status' = IF v = "warning" THEN "warning_blocked" ELSE "running"
               /\ cur' = cur
      <4>1. CASE v = "warning"
        <5>1. r[1] = cur' /\ state'[r] = "warning_blocked" /\ status' = "warning_blocked"
          BY <2>0, <3>1, <3>4, <4>1
        <5>. QED
          BY <5>1 DEF StatusBacked
      <4>2. CASE v # "warning"
        BY <3>4, <4>2, StatusElsewhere
      <4>. QED
        BY <4>1, <4>2
    <3>. QED
      BY <2>2, <3>2, <3>3, <3>4 DEF EvaluateGate
  <2>3. ASSUME NEW g \in DOMAIN gates, NEW approved \in BOOLEAN, DecideApproval(g, approved)
        PROVE  StatusBacked'
    <3>1. gates[g].run \in Runs /\ gates[g].run[1] = cur
      BY <2>3, GateFacts DEF DecideApproval, OfCurrentStage
    <3>2. CASE Finalizing(gates[g].run, gates[g].version)
      BY <3>1, <3>2, StatusCompleted DEF Finalizing
    <3>3. CASE Rejecting(gates[g].run)
      BY <3>3, StatusElsewhere DEF Rejecting
    <3>. QED
      BY <2>3, <3>2, <3>3 DEF DecideApproval
  <2>4. CASE ControlWrite
    BY <2>4, StatusElsewhere DEF ControlWrite
  <2>5. ASSUME NEW c \in BOOLEAN, CrashAndRecover(c) PROVE StatusBacked'
    <3>1. CASE UNCHANGED <<tasks, status, state, recovery>>
      BY <2>5, <3>1, StatusKept DEF CrashAndRecover
    <3>2. CASE /\ status' = "interrupted" /\ state' = [state EXCEPT ![CurrentRun] = "interrupted"]
               /\ recovery' = Append(recovery, [run |-> CurrentRun, pending |-> TRUE])
      <4>1. [run |-> CurrentRun, pending |-> TRUE] \in RecoveryRecords /\ recovery \in Seq(RecoveryRecords)
        BY <2>0, LogTypes
      <4>2. /\ Len(recovery) + 1 \in DOMAIN recovery'
            /\ recovery'[Len(recovery) + 1] = [run |-> CurrentRun, pending |-> TRUE]
        BY <3>2, <4>1, AppendProperties, LenProperties
      <4>3. CurrentRun' = CurrentRun /\ state'[CurrentRun] = "interrupted"
        BY <2>0, <2>5, <3>2 DEF CrashAndRecover, CurrentRun, Current
      <4>4. \E i \in DOMAIN recovery' : recovery'[i].run = CurrentRun' /\ recovery'[i].pending
        <5>1. recovery'[Len(recovery) + 1].run = CurrentRun' /\ recovery'[Len(recovery) + 1].pending
          BY <4>2, <4>3
        <5>. QED
          BY <4>2, <5>1
      <4>. QED
        BY <3>2, <4>3, <4>4 DEF StatusBacked
    <3>. QED
      BY <2>5, <3>1, <3>2 DEF CrashAndRecover
  <2>6. ASSUME \/ StartWorkflow \/ \E s \in Stages : ReopenStage(s)
               \/ \E i \in DOMAIN recovery : ResumeRecovery(i) \/ DiscardRecovery(i)
        PROVE  StatusBacked'
    BY <2>6, StatusElsewhere DEF StartWorkflow, ReopenStage, ResumeRecovery, DiscardRecovery
  <2>7. ASSUME \/ ControlRejected \/ UNCHANGED vars
               \/ \E m \in {"manual", "autonomous"} : SetMode(m)
               \/ \E a \in Actions : ControlRead(a)
               \/ \E i \in DOMAIN tasks : StartTask(i) \/ CompleteTask(i) \/ CancelTask(i)
               \/ \E r \in Runs : EnqueueTask(r) \/ CreateAgentRun(r) \/ CreateArtifactVersion(r)
               \/ \E r \in Runs, o \in {"succeeded", "failed"} : FinishAgentRun(r, o)
               \/ \E s \in Stages : CreateChangeRequest(s)
        PROVE  StatusBacked'
    BY <2>7, StatusKept DEF ControlRejected, vars, SetMode, ControlRead, StartTask, CompleteTask,
        CancelTask, EnqueueTask, CreateAgentRun, CreateArtifactVersion, FinishAgentRun,
        CreateChangeRequest
  <2>. QED
    BY <2>1, <2>2, <2>3, <2>4, <2>5, <2>6, <2>7 DEF Next
<1>. QED
  BY <1>1, <1>2, TypeCorrect, PTL DEF Spec

=============================================================================
