------------------------ MODULE Orchestration_proofs ------------------------
(***************************************************************************)
(* Proofs about the formal delivery of a stage run and its tool calls, for *)
(* any number of streams, request keys, tasks, retries and disturbances.   *)
(***************************************************************************)
EXTENDS Orchestration, SequenceTheorems, TLAPS

USE DEF toolVars, execution, stageVars, agents, limits, Calm, ByOthers, At, HasTask

-----------------------------------------------------------------------------
(* Where a stream has a task, and what it then knows of it. *)
Working == {"start", "task_started", "run_created", "streaming", "check", "planned", "tool",
            "tool_done", "task_done", "versioned"}

Aim(v) == IF v.task = 0 THEN NextProduction(v.st) ELSE NextGate(v.st)

Placed ==
    \A s \in Streams :
        /\ stream[s].at # "off" => stream[s].key \in Keys
        /\ stream[s].task <= Len(tasks)
        /\ stream[s].at \in Working => stream[s].task # 0
        /\ stream[s].at = "tool" => stream[s].step # 0
        /\ stream[s].at = "started" => stream[s].task = 0
        /\ stream[s].at = "moving" => Aim(stream[s]) # "none"

(* A call that is executed, or whose thread goes on, has a task. *)
Owned == \A c \in Calls : at[c] # "none" \/ c \in live => c[1] \in DOMAIN tasks

TypeInv == TypeOK /\ Placed /\ Owned


RowOK(v, tasksLen, versionsLen) ==
    /\ v \in StreamRow
    /\ v.at # "off" => v.key \in Keys
    /\ v.task <= tasksLen
    /\ v.at \in Working => v.task # 0
    /\ v.at = "tool" => v.step # 0
    /\ v.at = "started" => v.task = 0
    /\ v.at = "moving" => Aim(v) # "none"
    /\ v.version <= versionsLen

-----------------------------------------------------------------------------
(* The rows of the tasks. *)
LEMMA TaskFacts ==
    ASSUME ToolsTypeOK
    PROVE  /\ Len(tasks) \in 0..MaxTasks /\ DOMAIN tasks = 1..Len(tasks)
           /\ DOMAIN tasks \subseteq Tasks
           /\ \A t \in DOMAIN tasks : /\ tasks[t] \in TaskRow
                                      /\ tasks[t].key \in Keys /\ tasks[t].status \in TaskStatuses
<1>1. Len(tasks) \in Nat /\ DOMAIN tasks = 1..Len(tasks)
  BY LenProperties DEF ToolsTypeOK
<1>2. Len(tasks) <= MaxTasks /\ MaxTasks \in Nat
  BY KeysAssumption DEF ToolsTypeOK
<1>3. \A t \in DOMAIN tasks : tasks[t] \in TaskRow
  BY <1>1, ElementOfSeq DEF ToolsTypeOK
<1>4. \A row \in TaskRow : row.key \in Keys /\ row.status \in TaskStatuses
  BY DEF TaskRow
<1>. QED
  BY <1>1, <1>2, <1>3, <1>4 DEF Tasks

LEMMA SetTaskFacts ==
    ASSUME ToolsTypeOK, NEW t \in DOMAIN tasks, NEW status \in TaskStatuses, SetTask(t, status)
    PROVE  /\ tasks' \in Seq(TaskRow) /\ Len(tasks') = Len(tasks) /\ DOMAIN tasks' = DOMAIN tasks
           /\ \A u \in DOMAIN tasks : /\ u # t => tasks'[u] = tasks[u]
                                      /\ u = t => /\ tasks'[u].status = status
                                                  /\ tasks'[u].key = tasks[u].key
<1>1. t \in 1..Len(tasks) /\ tasks \in Seq(TaskRow) /\ tasks[t] \in TaskRow
  BY TaskFacts DEF ToolsTypeOK
<1>. DEFINE row == [tasks[t] EXCEPT !.status = status]
<1>2. row \in TaskRow /\ row.status = status /\ row.key = tasks[t].key
  BY <1>1 DEF TaskRow
<1>3. tasks' = [tasks EXCEPT ![t] = row]
  BY DEF SetTask
<1>. HIDE DEF row
<1>4. /\ tasks' \in Seq(TaskRow) /\ Len(tasks') = Len(tasks)
      /\ \A u \in 1..Len(tasks) : tasks'[u] = IF u = t THEN row ELSE tasks[u]
  BY <1>1, <1>2, <1>3, ExceptSeq
<1>5. DOMAIN tasks' = DOMAIN tasks /\ DOMAIN tasks = 1..Len(tasks)
  BY <1>1, <1>4, LenProperties
<1>. QED
  BY <1>2, <1>4, <1>5

LEMMA TasksCancelledFacts ==
    ASSUME ToolsTypeOK, NEW statuses, TasksCancelled(statuses)
    PROVE  /\ tasks' \in Seq(TaskRow) /\ Len(tasks') = Len(tasks) /\ DOMAIN tasks' = DOMAIN tasks
           /\ \A u \in DOMAIN tasks :
                  \/ tasks[u].status \notin statuses /\ tasks'[u] = tasks[u]
                  \/ tasks[u].status \in statuses /\ tasks'[u].status = "cancelled"
<1>1. /\ Len(tasks) \in Nat /\ DOMAIN tasks = 1..Len(tasks)
      /\ \A u \in DOMAIN tasks : tasks[u] \in TaskRow
  BY TaskFacts
<1>2. \A row \in TaskRow : /\ [row EXCEPT !.status = "cancelled"] \in TaskRow
                           /\ [row EXCEPT !.status = "cancelled"].status = "cancelled"
  BY DEF TaskRow, TaskStatuses
<1>3. tasks' \in [1..Len(tasks) -> TaskRow]
  BY <1>1, <1>2 DEF TasksCancelled
<1>4. tasks' \in Seq(TaskRow)
  BY <1>1, <1>3, SeqDef
<1>5. DOMAIN tasks' = 1..Len(tasks) /\ Len(tasks') \in Nat /\ DOMAIN tasks' = 1..Len(tasks')
  BY <1>3, <1>4, LenProperties
<1>6. Len(tasks') = Len(tasks)
  BY <1>1, <1>5
<1>. QED
  BY <1>1, <1>2, <1>4, <1>5, <1>6 DEF TasksCancelled

LEMMA QueuedFacts ==
    ASSUME ToolsTypeOK, NEW k \in Keys, Queued(k), Len(tasks) < MaxTasks
    PROVE  /\ tasks' \in Seq(TaskRow) /\ Len(tasks') = Len(tasks) + 1
           /\ Len(tasks') \in Tasks /\ DOMAIN tasks' = DOMAIN tasks \cup {Len(tasks')}
           /\ \A u \in DOMAIN tasks : tasks'[u] = tasks[u]
           /\ tasks'[Len(tasks')].status = "queued"
<1>. DEFINE row == [key |-> k, status |-> "queued"]
<1>1. row \in TaskRow /\ row.status = "queued"
  BY DEF TaskRow, TaskStatuses
<1>2. Len(tasks) \in Nat /\ DOMAIN tasks = 1..Len(tasks) /\ tasks \in Seq(TaskRow)
  BY TaskFacts DEF ToolsTypeOK
<1>3. tasks' = Append(tasks, row)
  BY DEF Queued
<1>. HIDE DEF row
<1>4. /\ tasks' \in Seq(TaskRow) /\ Len(tasks') = Len(tasks) + 1
      /\ \A u \in 1..Len(tasks) : tasks'[u] = tasks[u]
      /\ tasks'[Len(tasks) + 1] = row
  BY <1>1, <1>2, <1>3, AppendProperties
<1>5. DOMAIN tasks' = 1..(Len(tasks) + 1)
  BY <1>4, LenProperties
<1>6. 1..(Len(tasks) + 1) = 1..Len(tasks) \cup {Len(tasks) + 1}
  BY <1>2
<1>7. Len(tasks) + 1 \in 1..MaxTasks
  BY <1>2, KeysAssumption
<1>. QED
  BY <1>1, <1>2, <1>4, <1>5, <1>6, <1>7 DEF Tasks

-----------------------------------------------------------------------------
(* The rows of the streams. *)
LEMMA RowFacts ==
    ASSUME TypeInv, NEW s \in Streams
    PROVE  /\ RowOK(stream[s], Len(tasks), Len(versions))
           /\ stream[s].at \in Places /\ stream[s].key \in Keys \cup {None}
           /\ stream[s].task \in Nat /\ stream[s].local \in TaskStatuses
           /\ stream[s].seen \in Contents /\ stream[s].step \in 0..3
           /\ stream[s].task # 0 => stream[s].task \in DOMAIN tasks /\ stream[s].task \in Tasks
<1>1. stream[s] \in StreamRow
  BY DEF TypeInv, TypeOK
<1>2. /\ stream[s].at \in Places /\ stream[s].key \in Keys \cup {None}
      /\ stream[s].task \in Tasks \cup {0} /\ stream[s].local \in TaskStatuses
      /\ stream[s].seen \in Contents /\ stream[s].step \in 0..Len(PlanSlots)
  BY <1>1 DEF StreamRow
<1>3. Len(PlanSlots) = 3
  BY DEF PlanSlots
<1>4. RowOK(stream[s], Len(tasks), Len(versions))
  BY <1>1 DEF TypeInv, TypeOK, Placed, RowOK
<1>5. DOMAIN tasks = 1..Len(tasks) /\ Len(tasks) \in Nat
  BY TaskFacts DEF TypeInv, TypeOK
<1>. QED
  BY <1>2, <1>3, <1>4, <1>5 DEF RowOK, Tasks

(* One stream takes a step; the others stay where they are. *)
StreamMoves(s) ==
    \E v : stream' = [stream EXCEPT ![s] = v] /\ RowOK(v, Len(tasks'), Len(versions'))

NothingLost ==
    /\ Len(tasks') \in Nat /\ Len(versions') \in Nat
    /\ Len(tasks') >= Len(tasks) /\ Len(versions') >= Len(versions)

StreamsOK ==
    /\ stream \in [Streams -> StreamRow]
    /\ \A q \in Streams : stream[q].version <= Len(versions)
    /\ Placed

LEMMA StreamsStep ==
    ASSUME TypeInv, NEW s \in Streams, StreamMoves(s), NothingLost
    PROVE  StreamsOK'
<1>0. PICK v : stream' = [stream EXCEPT ![s] = v] /\ RowOK(v, Len(tasks'), Len(versions'))
  BY DEF StreamMoves
<1>1. stream \in [Streams -> StreamRow] /\ v \in StreamRow
  BY <1>0 DEF TypeInv, TypeOK, RowOK
<1>2. \A q \in Streams : RowOK(stream'[q], Len(tasks'), Len(versions'))
  <2>. SUFFICES ASSUME NEW q \in Streams PROVE RowOK(stream'[q], Len(tasks'), Len(versions'))
    OBVIOUS
  <2>1. CASE q = s
    BY <1>0, <1>1, <2>1
  <2>2. CASE q # s
    <3>1. stream'[q] = stream[q] /\ RowOK(stream[q], Len(tasks), Len(versions))
      BY <1>0, <1>1, <2>2, RowFacts
    <3>2. stream[q] \in StreamRow /\ stream[q].task \in Nat /\ stream[q].version \in Nat
      BY <1>1, RowFacts DEF StreamRow
    <3>3. Len(tasks) \in Nat /\ Len(versions) \in Nat
      BY TaskFacts, LenProperties DEF TypeInv, TypeOK
    <3>. QED
      BY <3>1, <3>2, <3>3 DEF RowOK, NothingLost
  <2>. QED
    BY <2>1, <2>2
<1>. QED
  BY <1>0, <1>1, <1>2 DEF RowOK, Placed, StreamsOK

(* Rows that differ in their place or their view of the task. *)
LEMMA MovedRow ==
    ASSUME NEW n, NEW m, NEW v, RowOK(v, n, m), v.at # "off", NEW p \in Places,
           p \in Working => v.task # 0, p \notin {"tool", "started"},
           p = "moving" => Aim(v) # "none"
    PROVE  RowOK([v EXCEPT !.at = p], n, m)
BY DEF RowOK, StreamRow, Aim

LEMMA OffRow ==
    ASSUME NEW n \in Nat, NEW m \in Nat
    PROVE  RowOK(Off, n, m)
<1>1. Off \in StreamRow
  BY DEF Off, StreamRow, Places, StageStates, Production, TaskStatuses, Contents, CallStatuses,
     PlanSlots
<1>. QED
  BY <1>1 DEF RowOK, Off, Working

LEMMA GoesOK ==
    ASSUME TypeInv, NEW s \in Streams, ~At(s, "off"), NEW p \in Places, Goes(s, p),
           p \in Working => stream[s].task # 0, p \notin {"tool", "started"},
           p = "moving" => Aim(stream[s]) # "none",
           Len(tasks') = Len(tasks), UNCHANGED versions
    PROVE  StreamMoves(s)
<1>1. RowOK([stream[s] EXCEPT !.at = p], Len(tasks), Len(versions))
  BY RowFacts, MovedRow
<1>. QED
  BY <1>1 DEF Goes, StreamMoves

LEMMA LocalOK ==
    ASSUME TypeInv, NEW s \in Streams, ~At(s, "off"), stream[s].task # 0,
           NEW status \in TaskStatuses, NEW p \in Places \ {"tool", "started", "moving"},
           Local(s, status, p), Len(tasks') = Len(tasks), UNCHANGED versions
    PROVE  StreamMoves(s)
<1>. DEFINE v == [stream[s] EXCEPT !.at = p, !.local = status]
<1>1. RowOK(v, Len(tasks), Len(versions))
  BY RowFacts DEF RowOK, StreamRow
<1>. QED
  BY <1>1 DEF Local, StreamMoves

LEMMA FailsOK ==
    ASSUME TypeInv, NEW s \in Streams, Fails(s), ~At(s, "off"),
           Len(tasks') = Len(tasks), UNCHANGED versions
    PROVE  StreamMoves(s)
<1>1. Len(tasks) \in Nat /\ Len(versions) \in Nat
  BY TaskFacts, LenProperties DEF TypeInv, TypeOK
<1>2. CASE stream[s].local = "running"
  <2>1. RowOK([stream[s] EXCEPT !.at = "failing"], Len(tasks), Len(versions))
    BY RowFacts, MovedRow DEF Places, Working
  <2>. QED
    BY <1>2, <2>1 DEF Fails, StreamMoves
<1>3. CASE stream[s].local # "running"
  BY <1>1, <1>3, OffRow DEF Fails, StreamMoves
<1>. QED
  BY <1>2, <1>3

LEMMA EndsOK ==
    ASSUME TypeInv, NEW s \in Streams, stream' = [stream EXCEPT ![s] = Off], NothingLost
    PROVE  StreamMoves(s)
BY OffRow DEF StreamMoves, NothingLost

LEMMA NothingLostHere ==
    ASSUME TypeInv, Len(tasks') = Len(tasks), Len(versions') = Len(versions)
    PROVE  NothingLost
BY TaskFacts, LenProperties DEF TypeInv, TypeOK, NothingLost

LEMMA OwnedStep ==
    ASSUME Owned, DOMAIN tasks \subseteq DOMAIN tasks',
           \A c \in Calls : at'[c] # "none" \/ c \in live' =>
               at[c] # "none" \/ c \in live \/ c[1] \in DOMAIN tasks
    PROVE  Owned'
BY DEF Owned

-----------------------------------------------------------------------------
(* What the operations on tools keep of the types. *)
LEMMA ToolTypes ==
    ASSUME ToolsTypeOK, UNCHANGED <<tasks, grant>>,
           call' \in [Calls -> CallStatuses],
           at' \in [Calls -> {"none", "starting", "tool", "succeeded", "failed", "cancelled"}],
           live' \subseteq Calls, killing' \subseteq Calls, argument' \in [Calls -> Contents],
           files' \in [{"source", "artifact"} -> Contents], ran' \in [Calls -> Nat]
    PROVE  ToolsTypeOK'
BY DEF ToolsTypeOK

LEMMA TaskTypes ==
    ASSUME ToolsTypeOK, UNCHANGED execution, tasks' \in Seq(TaskRow), Len(tasks') <= MaxTasks,
           grant' \in Grants
    PROVE  ToolsTypeOK'
BY DEF ToolsTypeOK

LEMMA SetTaskTypes ==
    ASSUME ToolsTypeOK, UNCHANGED execution, NEW t \in DOMAIN tasks, NEW status \in TaskStatuses,
           SetTask(t, status), Expire(t) \/ UNCHANGED grant
    PROVE  ToolsTypeOK'
<1>1. grant' \in Grants
  BY TaskFacts DEF ToolsTypeOK, Expire, Grants, GrantStatuses
<1>. QED
  BY <1>1, SetTaskFacts, TaskTypes DEF ToolsTypeOK

LEMMA InsertTypes ==
    ASSUME ToolsTypeOK, NEW c, NEW expected \in Contents, Insert(c, expected),
           UNCHANGED <<tasks, grant>>
    PROVE  ToolsTypeOK'
BY ToolTypes DEF ToolsTypeOK, Insert, CallStatuses

LEMMA FinishTypes ==
    ASSUME ToolsTypeOK, NEW c, Finish(c)
    PROVE  ToolsTypeOK'
BY ToolTypes DEF ToolsTypeOK, Finish, Finished, CallStatuses

LEMMA InterruptTypes ==
    ASSUME ToolsTypeOK, NEW c, Interrupt(c), UNCHANGED <<tasks, grant>>
    PROVE  ToolsTypeOK'
BY ToolTypes DEF ToolsTypeOK, Interrupt

LEMMA SpawnFailsTypes ==
    ASSUME ToolsTypeOK, NEW c, SpawnFails(c), UNCHANGED <<tasks, grant>>
    PROVE  ToolsTypeOK'
BY ToolTypes DEF ToolsTypeOK, SpawnFails

LEMMA KillTypes ==
    ASSUME ToolsTypeOK, NEW cs, Kill(cs)
    PROVE  /\ live' \subseteq Calls
           /\ at' \in [Calls -> {"none", "starting", "tool", "succeeded", "failed", "cancelled"}]
BY DEF ToolsTypeOK, Kill

LEMMA WorkTypes ==
    ASSUME ToolsTypeOK, Owned, NEW c \in Calls,
           ToolStarts(c) \/ FileWritten(c) \/ ProcessEnds(c) \/ EndCancelCall(c) \/ StartCancelCall(c)
    PROVE  ToolsTypeOK'
<1>1. CASE ToolStarts(c)
  BY <1>1, ToolTypes DEF ToolsTypeOK, ToolStarts
<1>2. CASE FileWritten(c)
  <2>1. c[1] \in Tasks /\ c[2] \in Slots
    BY DEF Calls
  <2>2. files' \in [{"source", "artifact"} -> Contents]
    <3>1. Content(c) \in Contents
      BY <1>2, TaskFacts DEF FileWritten, Owned, Content, Contents
    <3>. QED
      BY <1>2, <3>1 DEF FileWritten, ToolsTypeOK
  <2>3. /\ live' \subseteq Calls /\ ran' \in [Calls -> Nat]
        /\ at' \in [Calls -> {"none", "starting", "tool", "succeeded", "failed", "cancelled"}]
    <3>1. CASE files[c[2]] = argument[c]
      <4>1. ran' = [ran EXCEPT ![c] = @ + 1] /\ Outcome(c, "succeeded") /\ live' = live \ {c}
        BY <1>2, <3>1 DEF FileWritten
      <4>2. /\ ran \in [Calls -> Nat] /\ live \subseteq Calls
            /\ at \in [Calls -> {"none", "starting", "tool", "succeeded", "failed", "cancelled"}]
        BY DEF ToolsTypeOK
      <4>3. ran' \in [Calls -> Nat] /\ live' \subseteq Calls
        BY <4>1, <4>2
      <4>. QED
        BY <4>1, <4>2, <4>3 DEF Outcome
    <3>2. CASE files[c[2]] # argument[c]
      BY <1>2, <3>2 DEF FileWritten, ToolsTypeOK, Outcome
    <3>. QED
      BY <3>1, <3>2
  <2>. QED
    BY <1>2, <2>2, <2>3, ToolTypes DEF FileWritten, ToolsTypeOK
<1>3. CASE ProcessEnds(c)
  BY <1>3, ToolTypes DEF ToolsTypeOK, ProcessEnds, Outcome
<1>4. CASE EndCancelCall(c)
  BY <1>4, ToolTypes DEF ToolsTypeOK, EndCancelCall, CallStatuses
<1>5. CASE StartCancelCall(c)
  BY <1>5, KillTypes, ToolTypes DEF ToolsTypeOK, StartCancelCall
<1>. QED
  BY <1>1, <1>2, <1>3, <1>4, <1>5

LEMMA GrantTypes ==
    ASSUME ToolsTypeOK, NEW t, RequestCapability(t) \/ DecideCapability(t)
    PROVE  ToolsTypeOK'
<1>1. grant' \in Grants
  BY DEF ToolsTypeOK, RequestCapability, DecideCapability, Grants, GrantStatuses
<1>. QED
  BY <1>1, TaskTypes DEF ToolsTypeOK, RequestCapability, DecideCapability

-----------------------------------------------------------------------------
(* The types are inductive together with the places of the streams. *)
LEMMA TypeInductive == Spec => []TypeInv
<1>1. Init => TypeInv
  <2>. SUFFICES ASSUME Init PROVE TypeInv
    OBVIOUS
  <2>1. MaxTasks \in Nat /\ MaxOpens \in Nat /\ MaxDisturbances \in Nat
    BY KeysAssumption, OrchestrationAssumption
  <2>2. ToolsTypeOK
    <3>1. tasks \in Seq(TaskRow) /\ Len(tasks) <= MaxTasks
      BY <2>1, EmptySeq DEF Init, ToolsInit
    <3>2. /\ call \in [Calls -> CallStatuses] /\ argument \in [Calls -> Contents]
          /\ grant \in Grants
      BY DEF Init, ToolsInit, CallStatuses, Contents, Grants, GrantStatuses
    <3>3. /\ files \in [{"source", "artifact"} -> Contents] /\ ran \in [Calls -> Nat]
          /\ at \in [Calls -> {"none", "starting", "tool", "succeeded", "failed", "cancelled"}]
      BY DEF Init, ToolsInit, Contents
    <3>. QED
      BY <3>1, <3>2, <3>3 DEF Init, ToolsInit, ToolsTypeOK
  <2>3. Len(tasks) = 0 /\ Len(versions) = 0 /\ versions \in Seq(Contents) /\ order \in Seq(Keys)
    BY EmptySeq DEF Init, ToolsInit
  <2>4. stream \in [Streams -> StreamRow] /\ \A s \in Streams : RowOK(stream[s], 0, 0)
    BY OffRow DEF Init, RowOK
  <2>5. stage \in StageStates /\ workflow \in WorkflowStates /\ plan \in [Keys -> Contents \cup {"bad"}]
        /\ agent \in [Keys -> AgentStatuses]
    BY DEF Init, StageStates, Production, WorkflowStates, Contents, AgentStatuses
  <2>6. Owned
    BY DEF Init, ToolsInit, Owned
  <2>. QED
    BY <2>1, <2>2, <2>3, <2>4, <2>5, <2>6 DEF Init, TypeInv, TypeOK, Placed, RowOK
<1>2. TypeInv /\ [Next]_vars => TypeInv'
  <2>. SUFFICES ASSUME TypeInv, [Next]_vars PROVE TypeInv'
    OBVIOUS
  <2>. ToolsTypeOK /\ Owned /\ Placed
    BY DEF TypeInv, TypeOK
  <2>0. Len(tasks) \in Nat /\ Len(versions) \in Nat /\ DOMAIN tasks \subseteq Tasks
    BY TaskFacts, LenProperties DEF TypeInv, TypeOK
  <2>1. ASSUME UNCHANGED toolVars PROVE ToolsTypeOK' /\ Owned'
    BY <2>1 DEF ToolsTypeOK, Owned
  <2>2. ASSUME UNCHANGED <<stream, versions>>, ToolsTypeOK', DOMAIN tasks' = DOMAIN tasks
        PROVE  StreamsOK'
    <3>1. Len(tasks') = Len(tasks)
      <4>1. Len(tasks') \in Nat /\ 1..Len(tasks') = 1..Len(tasks)
        BY <2>2, TaskFacts, LenProperties DEF ToolsTypeOK
      <4>. QED
        BY <2>0, <4>1
    <3>. QED
      BY <2>2, <3>1 DEF TypeInv, TypeOK, Placed, StreamsOK
  <2>3. ASSUME NEW s \in Streams, NEW k \in Keys, Open(s, k) PROVE TypeInv'
    <3>. DEFINE ready == (workflow = "running" /\ stage \in Production)
                v == [Off EXCEPT !.at = "started", !.key = k, !.st = stage, !.ok = ready]
    <3>1. Off \in StreamRow /\ stage \in StageStates
      BY <2>0, OffRow DEF RowOK, TypeInv, TypeOK
    <3>2. ready \in BOOLEAN
      OBVIOUS
    <3>3. RowOK(v, Len(tasks), Len(versions))
      <4>. HIDE DEF ready
      <4>1. v \in StreamRow
        BY <3>1, <3>2 DEF StreamRow, Places
      <4>2. v.at = "started" /\ v.key = k /\ v.task = 0 /\ v.version = 0
        BY DEF Off
      <4>. HIDE DEF v
      <4>. QED
        BY <2>0, <4>1, <4>2 DEF RowOK, Working
    <3>4. StreamMoves(s)
      BY <2>3, <3>3 DEF Open, StreamMoves
    <3>5. StreamsOK' /\ ToolsTypeOK' /\ Owned'
      BY <2>1, <2>3, <3>4, NothingLostHere, StreamsStep DEF Open
    <3>. QED
      BY <2>3, <3>5, OrchestrationAssumption DEF Open, TypeInv, TypeOK, StreamsOK
  <2>4. ASSUME NEW s \in Streams, Prepare(s) PROVE TypeInv'
    <3>1. StreamMoves(s)
      <4>1. CASE Fails(s)
        BY <2>4, <4>1, FailsOK DEF Prepare, ReadsFor
      <4>2. CASE ReadsFor(s) /\ NextProduction(stream[s].st) # "none"
        <5>1. Aim(stream[s]) # "none"
          BY <2>4, <4>2, RowFacts DEF Prepare, RowOK, Aim
        <5>. QED
          BY <2>4, <4>2, <5>1, GoesOK DEF Prepare, ReadsFor, Places, Working
      <4>3. CASE Goes(s, "enqueue")
        BY <2>4, <4>3, GoesOK DEF Prepare, ReadsFor, Places, Working
      <4>4. ASSUME NEW t \in TasksOf(stream[s].key),
                   stream' = [stream EXCEPT ![s].at = "start", ![s].task = t,
                                            ![s].local = tasks[t].status]
            PROVE  StreamMoves(s)
        <5>. DEFINE v == [stream[s] EXCEPT !.at = "start", !.task = t, !.local = tasks[t].status]
        <5>1. t \in Tasks /\ t \in 1..Len(tasks) /\ tasks[t].status \in TaskStatuses
          BY TaskFacts DEF TasksOf
        <5>2. RowOK(stream[s], Len(tasks), Len(versions)) /\ stream[s].at # "off"
          BY <2>4, RowFacts DEF Prepare
        <5>3. v \in StreamRow
          BY <5>1, <5>2 DEF RowOK, StreamRow, Places
        <5>4. /\ v.at = "start" /\ v.key = stream[s].key /\ v.task = t /\ v.step = stream[s].step
              /\ v.version = stream[s].version
          BY <5>2 DEF RowOK, StreamRow
        <5>5. stream' = [stream EXCEPT ![s] = v]
          BY <4>4
        <5>. HIDE DEF v
        <5>6. RowOK(v, Len(tasks), Len(versions))
          BY <2>0, <5>1, <5>2, <5>3, <5>4 DEF RowOK, Working
        <5>. QED
          BY <2>4, <5>5, <5>6 DEF Prepare, ReadsFor, StreamMoves
      <4>. QED
        BY <2>4, <4>1, <4>2, <4>3, <4>4 DEF Prepare
    <3>2. StreamsOK' /\ ToolsTypeOK' /\ Owned'
      BY <2>1, <2>4, <3>1, NothingLostHere, StreamsStep DEF Prepare, ReadsFor
    <3>3. /\ fresh' \subseteq Streams \cup {"control"}
          /\ UNCHANGED <<stage, workflow, versions, delivered>>
      BY <2>4 DEF Prepare, ReadsFor, TypeInv, TypeOK
    <3>. QED
      BY <2>4, <3>2, <3>3 DEF Prepare, TypeInv, TypeOK, StreamsOK
  <2>5. ASSUME NEW s \in Streams, Move(s) PROVE TypeInv'
    <3>. DEFINE next == IF stream[s].task = 0 THEN NextProduction(stream[s].st)
                                              ELSE NextGate(stream[s].st)
    <3>0. CASE Fails(s) /\ UNCHANGED stageVars
      <4>1. StreamMoves(s)
        BY <2>5, <3>0, FailsOK DEF Move
      <4>2. StreamsOK' /\ ToolsTypeOK' /\ Owned'
        BY <2>1, <2>5, <3>0, <4>1, NothingLostHere, StreamsStep DEF Move
      <4>. QED
        BY <2>5, <3>0, <4>2 DEF Move, TypeInv, TypeOK, StreamsOK
    <3>1. CASE /\ next \in StageStates /\ stage' = next /\ fresh' = {}
               /\ stream' = [stream EXCEPT ![s].at = "moved", ![s].st = next]
               /\ UNCHANGED <<workflow, versions, delivered>>
      <4>. DEFINE v == [stream[s] EXCEPT !.at = "moved", !.st = next]
      <4>1. RowOK(v, Len(tasks), Len(versions))
        <5>. HIDE DEF next
        <5>. QED
          BY <2>5, <3>1, RowFacts, ZenonT(40) DEF Move, RowOK, StreamRow, Places, Working
      <4>2. StreamMoves(s)
        BY <2>5, <3>1, <4>1 DEF Move, StreamMoves
      <4>3. StreamsOK' /\ ToolsTypeOK' /\ Owned'
        BY <2>1, <2>5, <3>1, <4>2, NothingLostHere, StreamsStep DEF Move
      <4>. QED
        BY <2>5, <3>1, <4>3 DEF Move, TypeInv, TypeOK, StreamsOK
    <3>2. next \in StageStates \cup {"none"}
      BY DEF NextProduction, NextGate, StageStates, Production
    <3>3. next # "none"
      BY <2>5, RowFacts DEF Move, RowOK, Aim
    <3>. QED
      BY <2>5, <3>0, <3>1, <3>2, <3>3 DEF Move
  <2>6. ASSUME NEW s \in Streams, Enqueue(s) PROVE TypeInv'
    <3>0. stream[s].key \in Keys /\ RowOK(stream[s], Len(tasks), Len(versions)) /\ ~At(s, "off")
      BY <2>6, RowFacts DEF Enqueue, RowOK
    <3>1. CASE Fails(s) /\ UNCHANGED tasks
      <4>1. StreamMoves(s)
        BY <2>6, <3>0, <3>1, FailsOK DEF Enqueue
      <4>2. StreamsOK' /\ ToolsTypeOK' /\ Owned'
        BY <2>1, <2>6, <3>1, <4>1, NothingLostHere, StreamsStep DEF Enqueue
      <4>. QED
        BY <2>6, <3>1, <4>2 DEF Enqueue, TypeInv, TypeOK, StreamsOK
    <3>2. CASE /\ Queued(stream[s].key)
               /\ stream' = [stream EXCEPT ![s].at = "start", ![s].task = Len(tasks) + 1]
      <4>. DEFINE v == [stream[s] EXCEPT !.at = "start", !.task = Len(tasks) + 1]
      <4>1. /\ tasks' \in Seq(TaskRow) /\ Len(tasks') = Len(tasks) + 1 /\ Len(tasks') \in Tasks
            /\ DOMAIN tasks \subseteq DOMAIN tasks'
        BY <2>6, <3>0, <3>2, QueuedFacts DEF Enqueue
      <4>2. v \in StreamRow
        BY <3>0, <4>1 DEF RowOK, StreamRow, Places
      <4>3. /\ v.at = "start" /\ v.key = stream[s].key /\ v.task = Len(tasks')
            /\ v.version = stream[s].version
        BY <3>0, <4>1 DEF RowOK, StreamRow
      <4>4. stream' = [stream EXCEPT ![s] = v]
        BY <3>2
      <4>. HIDE DEF v
      <4>5. RowOK(v, Len(tasks'), Len(versions))
        BY <2>0, <3>0, <4>1, <4>2, <4>3 DEF RowOK, Working
      <4>. UNCHANGED versions
        BY <2>6 DEF Enqueue
      <4>6. Len(versions') = Len(versions)
        OBVIOUS
      <4>7. StreamMoves(s)
        BY <4>4, <4>5, <4>6 DEF StreamMoves
      <4>8. NothingLost
        BY <2>0, <4>1, <4>6 DEF NothingLost
      <4>9. StreamsOK'
        BY <4>7, <4>8, StreamsStep
      <4>10. ToolsTypeOK'
        BY <2>6, <4>1, TaskTypes DEF Enqueue, ToolsTypeOK, Tasks
      <4>11. Owned'
        BY <2>6, <4>1, OwnedStep DEF Enqueue
      <4>. QED
        BY <2>6, <4>9, <4>10, <4>11 DEF Enqueue, TypeInv, TypeOK, StreamsOK
    <3>. QED
      BY <2>6, <3>1, <3>2 DEF Enqueue
  <2>7. ASSUME NEW s \in Streams, NEW t \in DOMAIN tasks, NEW status \in TaskStatuses,
               SetTask(t, status), Expire(t) \/ UNCHANGED grant, UNCHANGED <<execution, versions>>
        PROVE  ToolsTypeOK' /\ Owned' /\ Len(tasks') = Len(tasks) /\ NothingLost
    <3>1. Len(tasks') = Len(tasks) /\ DOMAIN tasks' = DOMAIN tasks
      BY <2>7, SetTaskFacts
    <3>2. ToolsTypeOK'
      BY <2>7, SetTaskTypes
    <3>3. Owned'
      BY <2>7, <3>1, OwnedStep
    <3>. QED
      BY <2>7, <3>1, <3>2, <3>3, NothingLostHere
  <2>8. ASSUME NEW s \in Streams, StartTask(s) PROVE TypeInv'
    <3>0. stream[s].task # 0 /\ ~At(s, "off")
      BY <2>8, RowFacts DEF StartTask, RowOK, Working
    <3>1. StreamMoves(s) /\ NothingLost /\ ToolsTypeOK' /\ Owned'
      <4>1. CASE Startable(stream[s].task) /\ SetTask(stream[s].task, "running")
                   /\ Local(s, "running", "task_started")
        <5>1. stream[s].task \in DOMAIN tasks /\ "running" \in TaskStatuses
              /\ "task_started" \in Places \ {"tool", "started", "moving"}
          BY <4>1 DEF Startable, TaskIs, TaskStatuses, Places
        <5>2. ToolsTypeOK' /\ Owned' /\ Len(tasks') = Len(tasks) /\ NothingLost
          BY <2>7, <2>8, <4>1, <5>1 DEF StartTask
        <5>. QED
          BY <2>8, <3>0, <4>1, <5>1, <5>2, LocalOK DEF StartTask
      <4>2. CASE Fails(s) /\ UNCHANGED tasks
        BY <2>1, <2>8, <3>0, <4>2, FailsOK, NothingLostHere DEF StartTask
      <4>3. CASE Goes(s, "task_started") /\ UNCHANGED tasks
        BY <2>1, <2>8, <3>0, <4>3, GoesOK, NothingLostHere DEF StartTask, Places
      <4>. QED
        BY <2>8, <4>1, <4>2, <4>3 DEF StartTask
    <3>2. StreamsOK'
      BY <3>1, StreamsStep
    <3>. QED
      BY <2>8, <3>1, <3>2 DEF StartTask, TypeInv, TypeOK, StreamsOK
  <2>9. ASSUME NEW s \in Streams, CreateRun(s) PROVE TypeInv'
    <3>. DEFINE RunKnown == \E seen \in Shown :
                    stream' = [stream EXCEPT ![s].at = "run_created", ![s].seen = seen,
                                             ![s].pending = agent[stream[s].key] \in {"none", "pending"}]
    <3>0. RowOK(stream[s], Len(tasks), Len(versions)) /\ ~At(s, "off") /\ stream[s].key \in Keys
      BY <2>9, RowFacts DEF CreateRun, RowOK
    <3>1. ASSUME RunKnown PROVE StreamMoves(s)
      <4>. DEFINE waits == agent[stream[s].key] \in {"none", "pending"}
      <4>1. waits \in BOOLEAN
        OBVIOUS
      <4>2. PICK seen \in Shown :
                stream' = [stream EXCEPT ![s].at = "run_created", ![s].seen = seen,
                                         ![s].pending = waits]
        BY <3>1
      <4>3. seen \in Contents
        BY DEF Shown, ToolsTypeOK, Contents
      <4>. DEFINE v == [stream[s] EXCEPT !.at = "run_created", !.seen = seen, !.pending = waits]
      <4>4. stream' = [stream EXCEPT ![s] = v]
        BY <4>2
      <4>. HIDE DEF waits
      <4>5. v \in StreamRow
        BY <3>0, <4>1, <4>3 DEF RowOK, StreamRow, Places
      <4>6. /\ v.at = "run_created" /\ v.key = stream[s].key /\ v.task = stream[s].task
            /\ v.version = stream[s].version
        BY <3>0, <4>1, <4>3 DEF RowOK, StreamRow
      <4>7. stream[s].task # 0
        BY <2>9, <3>0 DEF CreateRun, RowOK, Working
      <4>. HIDE DEF v
      <4>8. RowOK(v, Len(tasks), Len(versions))
        BY <3>0, <4>5, <4>6, <4>7 DEF RowOK
      <4>. QED
        BY <2>9, <4>4, <4>8 DEF CreateRun, StreamMoves
    <3>2. StreamMoves(s)
      BY <2>9, <3>0, <3>1, FailsOK DEF CreateRun
    <3>3. agent' \in [Keys -> AgentStatuses] /\ plan' \in [Keys -> Contents \cup {"bad"}]
      BY <2>9 DEF CreateRun, TypeInv, TypeOK, AgentStatuses
    <3>4. order' \in Seq(Keys)
      <4>1. order \in Seq(Keys) /\ Append(order, stream[s].key) \in Seq(Keys)
        BY <3>0, AppendProperties DEF TypeInv, TypeOK
      <4>. QED
        BY <2>9, <4>1 DEF CreateRun
    <3>5. StreamsOK' /\ ToolsTypeOK' /\ Owned'
      BY <2>1, <2>9, <3>2, NothingLostHere, StreamsStep DEF CreateRun
    <3>. QED
      BY <2>9, <3>3, <3>4, <3>5 DEF CreateRun, TypeInv, TypeOK, StreamsOK
  <2>10. ASSUME NEW s \in Streams, StreamRun(s) \/ RunEnds(s) \/ CheckPlan(s) PROVE TypeInv'
    <3>0. /\ stream[s].task # 0 /\ ~At(s, "off") /\ stream[s].seen \in Contents
          /\ UNCHANGED <<toolVars, stageVars, order, control, adrift, opens, disturbances>>
      BY <2>10, RowFacts DEF StreamRun, RunEnds, CheckPlan, RowOK, Working
    <3>1. Fails(s) \/ Goes(s, "check") \/ Goes(s, "streaming") \/ Goes(s, "planned")
      BY <2>10 DEF StreamRun, RunEnds, CheckPlan
    <3>2. StreamMoves(s)
      BY <3>0, <3>1, FailsOK, GoesOK DEF Places
    <3>3. agent' \in [Keys -> AgentStatuses]
      BY <2>10 DEF StreamRun, RunEnds, CheckPlan, TypeInv, TypeOK, AgentStatuses
    <3>4. plan' \in [Keys -> Contents \cup {"bad"}]
      BY <2>10, <3>0 DEF StreamRun, RunEnds, CheckPlan, TypeInv, TypeOK
    <3>5. StreamsOK' /\ ToolsTypeOK' /\ Owned'
      BY <2>1, <3>0, <3>2, NothingLostHere, StreamsStep
    <3>. QED
      BY <3>0, <3>3, <3>4, <3>5 DEF TypeInv, TypeOK, StreamsOK
  <2>11. ASSUME NEW s \in Streams, NextSlot(s) PROVE TypeInv'
    <3>0. /\ stream[s].task # 0 /\ ~At(s, "off") /\ stream[s].task \in Tasks
          /\ RowOK(stream[s], Len(tasks), Len(versions)) /\ stream[s].step \in 0..3
          /\ UNCHANGED <<stageVars, agents, control, adrift, opens, disturbances>>
      BY <2>11, RowFacts DEF NextSlot, RowOK, Working
    <3>. UNCHANGED versions /\ Len(PlanSlots) = 3
      BY <3>0 DEF PlanSlots
    <3>1. ASSUME Fails(s), UNCHANGED toolVars
          PROVE  StreamMoves(s) /\ NothingLost /\ ToolsTypeOK' /\ Owned'
      BY <2>1, <3>0, <3>1, FailsOK, NothingLostHere
    <3>2. ASSUME Goes(s, "task_done"), UNCHANGED toolVars
          PROVE  StreamMoves(s) /\ NothingLost /\ ToolsTypeOK' /\ Owned'
      BY <2>1, <3>0, <3>2, GoesOK, NothingLostHere DEF Places
    <3>3. ASSUME Complete(s), UNCHANGED execution
          PROVE  StreamMoves(s) /\ NothingLost /\ ToolsTypeOK' /\ Owned'
      <4>1. CASE TaskIs(stream[s].task, "running")
        <5>1. stream[s].task \in DOMAIN tasks /\ "succeeded" \in TaskStatuses
              /\ "task_done" \in Places \ {"tool", "started", "moving"}
          BY <4>1 DEF TaskIs, TaskStatuses, Places
        <5>2. ToolsTypeOK' /\ Owned' /\ Len(tasks') = Len(tasks) /\ NothingLost
          BY <2>7, <3>0, <3>3, <4>1, <5>1 DEF Complete, EndTask
        <5>. QED
          BY <3>0, <3>3, <4>1, <5>1, <5>2, LocalOK DEF Complete
      <4>2. CASE ~TaskIs(stream[s].task, "running")
        BY <3>1, <3>3, <4>2 DEF Complete
      <4>. QED
        BY <4>1, <4>2
    <3>4. ASSUME NEW c, c = <<stream[s].task, PlanSlots[stream[s].step + 1]>>, stream[s].step # 3,
                 c[2] = "source" => files["source"] = plan[stream[s].key],
                 Execute(s, c), UNCHANGED <<tasks, grant>>
          PROVE  StreamMoves(s) /\ NothingLost /\ ToolsTypeOK' /\ Owned'
      <4>0. c \in Calls /\ c[1] = stream[s].task /\ Len(tasks') = Len(tasks) /\ NothingLost
        BY <3>0, <3>4, NothingLostHere DEF Calls, Slots, PlanSlots
      <4>1. Expects(s, c[2]) \in Contents
        BY <3>4 DEF Expects, ToolsTypeOK, Contents
      <4>2. CASE /\ stream' = [stream EXCEPT ![s].at = "tool_done", ![s].step = @ + 1,
                                              ![s].result = call[c]]
                 /\ UNCHANGED execution
        <5>. DEFINE v == [stream[s] EXCEPT !.at = "tool_done", !.step = @ + 1, !.result = call[c]]
        <5>1. stream[s].step + 1 \in 0..Len(PlanSlots) /\ call[c] \in CallStatuses
          BY <3>0, <3>4, <4>0 DEF ToolsTypeOK
        <5>2. RowOK(v, Len(tasks), Len(versions))
          BY <3>0, <5>1 DEF RowOK, StreamRow, Places
        <5>3. stream' = [stream EXCEPT ![s] = v]
          BY <4>2
        <5>. QED
          BY <2>1, <3>4, <4>0, <4>2, <5>2, <5>3 DEF StreamMoves
      <4>3. CASE /\ Insert(c, Expects(s, c[2])) /\ TakesCalls(c[1])
                 /\ stream' = [stream EXCEPT ![s].at = "tool", ![s].step = @ + 1]
        <5>. DEFINE v == [stream[s] EXCEPT !.at = "tool", !.step = @ + 1]
        <5>1. stream[s].step + 1 \in 0..Len(PlanSlots) /\ stream[s].step + 1 # 0
          BY <3>0, <3>4
        <5>2. RowOK(v, Len(tasks), Len(versions))
          BY <3>0, <5>1 DEF RowOK, StreamRow, Places
        <5>3. stream' = [stream EXCEPT ![s] = v]
          BY <4>3
        <5>4. ToolsTypeOK'
          BY <3>4, <4>1, <4>3, InsertTypes
        <5>5. Owned'
          BY <3>4, <4>0, <4>3, OwnedStep DEF Insert, TakesCalls, TaskIs, ToolsTypeOK
        <5>. QED
          BY <4>0, <5>2, <5>3, <5>4, <5>5 DEF StreamMoves
      <4>4. CASE Fails(s) /\ UNCHANGED execution
        BY <3>1, <3>4, <4>4
      <4>. QED
        BY <3>4, <4>2, <4>3, <4>4 DEF Execute
    <3>5. StreamMoves(s) /\ NothingLost /\ ToolsTypeOK' /\ Owned'
      <4>. DEFINE c == <<stream[s].task, PlanSlots[stream[s].step + 1]>>
      <4>1. \/ Goes(s, "task_done") /\ UNCHANGED toolVars
            \/ Fails(s) /\ UNCHANGED toolVars
            \/ Complete(s) /\ UNCHANGED execution
            \/ /\ stream[s].step # 3
               /\ c[2] = "source" => files["source"] = plan[stream[s].key]
               /\ Execute(s, c) /\ UNCHANGED <<tasks, grant>>
        BY <2>11 DEF NextSlot
      <4>. HIDE DEF c
      <4>. QED
        BY <3>1, <3>2, <3>3, <3>4, <4>1 DEF c
    <3>6. StreamsOK'
      BY <3>5, StreamsStep
    <3>. QED
      BY <3>0, <3>5, <3>6 DEF TypeInv, TypeOK, StreamsOK
  <2>12. ASSUME NEW s \in Streams, ToolFinished(s) PROVE TypeInv'
    <3>0. /\ stream[s].task # 0 /\ ~At(s, "off") /\ CallOf(s) \in Calls
          /\ RowOK(stream[s], Len(tasks), Len(versions))
      BY <2>12, RowFacts DEF ToolFinished, RowOK, Working, CallOf, Calls, Slots, PlanSlots
    <3>1. ToolsTypeOK' /\ Owned' /\ UNCHANGED <<tasks, versions>>
      BY <2>12, FinishTypes, OwnedStep DEF ToolFinished, Finish, ToolsTypeOK
    <3>2. StreamMoves(s)
      <4>1. CASE Goes(s, "cancelling")
        BY <3>0, <3>1, <4>1, GoesOK DEF Places, Working
      <4>2. CASE stream' = [stream EXCEPT ![s].at = "tool_done", ![s].result = call'[CallOf(s)]]
        <5>. DEFINE v == [stream[s] EXCEPT !.at = "tool_done", !.result = call'[CallOf(s)]]
        <5>1. call'[CallOf(s)] \in CallStatuses
          BY <3>0, <3>1 DEF ToolsTypeOK
        <5>2. RowOK(v, Len(tasks), Len(versions))
          BY <3>0, <5>1 DEF RowOK, StreamRow, Places
        <5>3. stream' = [stream EXCEPT ![s] = v]
          BY <4>2
        <5>. QED
          BY <3>1, <5>2, <5>3 DEF StreamMoves
      <4>. QED
        BY <2>12, <4>1, <4>2 DEF ToolFinished
    <3>3. StreamsOK'
      BY <3>1, <3>2, NothingLostHere, StreamsStep
    <3>. QED
      BY <2>12, <3>1, <3>3 DEF ToolFinished, TypeInv, TypeOK, StreamsOK
  <2>13. ASSUME NEW s \in Streams, ToolEscapes(s) PROVE TypeInv'
    <3>1. ToolsTypeOK' /\ Owned'
      BY <2>13, SpawnFailsTypes, OwnedStep DEF ToolEscapes, SpawnFails, ToolsTypeOK
    <3>2. StreamsOK'
      BY <2>13, FailsOK, NothingLostHere, StreamsStep DEF ToolEscapes
    <3>. QED
      BY <2>13, <3>1, <3>2 DEF ToolEscapes, TypeInv, TypeOK, StreamsOK
  <2>14. ASSUME NEW s \in Streams, CreateVersion(s) PROVE TypeInv'
    <3>0. /\ stream[s].task # 0 /\ ~At(s, "off")
          /\ RowOK(stream[s], Len(tasks), Len(versions))
      BY <2>14, RowFacts DEF CreateVersion, RowOK, Working
    <3>1. CASE Fails(s) /\ UNCHANGED versions
      <4>1. StreamsOK' /\ ToolsTypeOK' /\ Owned'
        BY <2>1, <2>14, <3>0, <3>1, FailsOK, NothingLostHere, StreamsStep DEF CreateVersion
      <4>. QED
        BY <2>14, <3>1, <4>1 DEF CreateVersion, TypeInv, TypeOK, StreamsOK
    <3>2. CASE /\ versions' \in {versions, Append(versions, files["artifact"])}
               /\ stream' = [stream EXCEPT ![s].at = "versioned", ![s].version = Len(versions')]
      <4>1. files["artifact"] \in Contents /\ versions \in Seq(Contents)
        BY DEF ToolsTypeOK, TypeInv, TypeOK
      <4>2. versions' \in Seq(Contents) /\ Len(versions') \in Nat /\ Len(versions') >= Len(versions)
        BY <2>0, <3>2, <4>1, AppendProperties
      <4>. DEFINE v == [stream[s] EXCEPT !.at = "versioned", !.version = Len(versions')]
      <4>3. v \in StreamRow
        BY <3>0, <4>2 DEF RowOK, StreamRow, Places
      <4>4. /\ v.at = "versioned" /\ v.key = stream[s].key /\ v.task = stream[s].task
            /\ v.version = Len(versions')
        BY <3>0 DEF RowOK, StreamRow
      <4>5. stream' = [stream EXCEPT ![s] = v] /\ UNCHANGED tasks
        BY <2>14, <3>2 DEF CreateVersion
      <4>. HIDE DEF v
      <4>6. RowOK(v, Len(tasks), Len(versions'))
        BY <3>0, <4>2, <4>3, <4>4 DEF RowOK
      <4>7. Len(tasks') = Len(tasks)
        BY <4>5
      <4>8. NothingLost
        BY <2>0, <4>2, <4>7 DEF NothingLost
      <4>9. StreamMoves(s)
        BY <4>5, <4>6, <4>7 DEF StreamMoves
      <4>10. StreamsOK' /\ ToolsTypeOK' /\ Owned'
        BY <2>1, <2>14, <4>8, <4>9, StreamsStep DEF CreateVersion
      <4>. QED
        BY <2>14, <4>2, <4>10 DEF CreateVersion, TypeInv, TypeOK, StreamsOK
    <3>. QED
      BY <2>14, <3>1, <3>2 DEF CreateVersion
  <2>15. ASSUME NEW s \in Streams, Submit(s) PROVE TypeInv'
    <3>0. /\ stream[s].task # 0 /\ ~At(s, "off") /\ stream[s].task \in Tasks
          /\ RowOK(stream[s], Len(tasks), Len(versions))
          /\ UNCHANGED <<toolVars, agents, control, adrift, opens, disturbances>>
      BY <2>15, RowFacts DEF Submit, RowOK, Working
    <3>. DEFINE st == IF At(s, "versioned") THEN stage ELSE stream[s].st
    <3>1. st \in StageStates
      BY <3>0 DEF RowOK, StreamRow, TypeInv, TypeOK
    <3>2. CASE Fails(s) /\ UNCHANGED stageVars
      <4>1. StreamsOK' /\ ToolsTypeOK' /\ Owned'
        BY <2>1, <3>0, <3>2, FailsOK, NothingLostHere, StreamsStep
      <4>. QED
        BY <3>0, <3>2, <4>1 DEF TypeInv, TypeOK, StreamsOK
    <3>3. CASE EvaluateGate(s)
      <4>1. StreamsOK' /\ ToolsTypeOK' /\ Owned'
        BY <2>1, <3>0, <3>3, EndsOK, NothingLostHere, StreamsStep DEF EvaluateGate
      <4>2. stage' \in StageStates /\ workflow' \in WorkflowStates
        BY <3>3 DEF EvaluateGate, TypeInv, TypeOK, StageStates, Production, WorkflowStates
      <4>3. fresh' \subseteq Streams \cup {"control"} /\ delivered' \subseteq Tasks
        BY <3>0, <3>3 DEF EvaluateGate, TypeInv, TypeOK
      <4>4. UNCHANGED versions
        BY <3>3 DEF EvaluateGate
      <4>. QED
        BY <3>0, <4>1, <4>2, <4>3, <4>4 DEF TypeInv, TypeOK, StreamsOK
    <3>4. CASE /\ NextGate(st) # "none" /\ fresh' = fresh \cup {s}
               /\ stream' = [stream EXCEPT ![s].at = "moving", ![s].st = st]
               /\ UNCHANGED <<stage, workflow, versions, delivered>>
      <4>. DEFINE v == [stream[s] EXCEPT !.at = "moving", !.st = st]
      <4>0. stream' = [stream EXCEPT ![s] = v]
        BY <3>4
      <4>. HIDE DEF st
      <4>1. v \in StreamRow
        BY <3>0, <3>1 DEF RowOK, StreamRow, Places
      <4>2. /\ v.at = "moving" /\ v.key = stream[s].key /\ v.task = stream[s].task
            /\ v.version = stream[s].version /\ v.st = st
        BY <3>0 DEF RowOK, StreamRow
      <4>. HIDE DEF v
      <4>3. RowOK(v, Len(tasks), Len(versions))
        BY <3>0, <3>4, <4>1, <4>2 DEF RowOK, Aim, Working
      <4>4. StreamMoves(s)
        BY <3>0, <3>4, <4>0, <4>3 DEF StreamMoves
      <4>5. StreamsOK' /\ ToolsTypeOK' /\ Owned'
        BY <2>1, <3>0, <3>4, <4>4, NothingLostHere, StreamsStep
      <4>. QED
        BY <3>0, <3>4, <4>5 DEF TypeInv, TypeOK, StreamsOK
    <3>. QED
      BY <2>15, <3>2, <3>3, <3>4 DEF Submit
  <2>16. ASSUME NEW s \in Streams, FailTask(s) \/ CancelOwnTask(s) PROVE TypeInv'
    <3>0. stream' = [stream EXCEPT ![s] = Off] /\ UNCHANGED <<execution, stageVars>>
      BY <2>16 DEF FailTask, CancelOwnTask
    <3>1. ToolsTypeOK' /\ Owned' /\ NothingLost
      <4>1. CASE UNCHANGED <<tasks, grant>>
        BY <2>1, <3>0, <4>1, NothingLostHere
      <4>2. CASE /\ TaskIs(stream[s].task, "running")
                 /\ \E status \in {"failed", "cancelled"} : EndTask(stream[s].task, status)
        BY <2>7, <3>0, <4>2 DEF TaskIs, EndTask, TaskStatuses
      <4>. QED
        BY <2>16, <4>1, <4>2 DEF FailTask, CancelOwnTask
    <3>2. StreamsOK'
      BY <3>0, <3>1, EndsOK, StreamsStep
    <3>. QED
      BY <2>16, <3>1, <3>2 DEF FailTask, CancelOwnTask, TypeInv, TypeOK, StreamsOK
  <2>17. ASSUME NEW s \in Streams, Dropped(s) PROVE TypeInv'
    <3>1. StreamsOK' /\ ToolsTypeOK' /\ Owned'
      BY <2>1, <2>17, EndsOK, NothingLostHere, StreamsStep DEF Dropped
    <3>2. adrift' \subseteq Tasks
      BY <2>17, RowFacts DEF Dropped, TypeInv, TypeOK
    <3>3. disturbances' \in 0..MaxDisturbances
      BY <2>17, OrchestrationAssumption DEF Dropped, Disturbance, TypeInv, TypeOK
    <3>. QED
      BY <2>17, <3>1, <3>2, <3>3 DEF Dropped, TypeInv, TypeOK, StreamsOK
  <2>18. ASSUME NEW s \in Streams, Cancelled(s) PROVE TypeInv'
    <3>0. /\ ~At(s, "off") /\ UNCHANGED <<tasks, grant, stageVars, order, plan, control, adrift, opens>>
      BY <2>18 DEF Cancelled
    <3>1. ToolsTypeOK' /\ Owned'
      <4>1. CASE UNCHANGED execution
        BY <2>1, <3>0, <4>1
      <4>2. CASE Interrupt(CallOf(s))
        <5>1. ToolsTypeOK'
          BY <3>0, <4>2, InterruptTypes
        <5>. QED
          BY <3>0, <4>2, <5>1, OwnedStep DEF Interrupt, ToolsTypeOK
      <4>. QED
        BY <2>18, <4>1, <4>2 DEF Cancelled
    <3>2. StreamsOK'
      <4>1. CASE UNCHANGED stream
        BY <2>2, <3>0, <3>1, <4>1
      <4>2. CASE Goes(s, "cancelling")
        BY <3>0, <4>2, GoesOK, NothingLostHere, StreamsStep DEF Places, Working
      <4>3. CASE stream' = [stream EXCEPT ![s] = Off]
        BY <3>0, <4>3, EndsOK, NothingLostHere, StreamsStep
      <4>. QED
        BY <2>18, <4>1, <4>2, <4>3 DEF Cancelled, Goes
    <3>3. agent' \in [Keys -> AgentStatuses]
      BY <2>18 DEF Cancelled, TypeInv, TypeOK, AgentStatuses
    <3>4. disturbances' \in 0..MaxDisturbances
      BY <2>18, OrchestrationAssumption DEF Cancelled, Disturbance, TypeInv, TypeOK
    <3>. QED
      BY <3>0, <3>1, <3>2, <3>3, <3>4 DEF TypeInv, TypeOK, StreamsOK
  <2>36. ASSUME NEW s \in Streams, CancelledStarting(s) PROVE TypeInv'
    <3>0. /\ stream[s].task \in DOMAIN tasks /\ SetTask(stream[s].task, "running")
          /\ "running" \in TaskStatuses /\ UNCHANGED <<execution, grant, stageVars>>
      BY <2>36 DEF CancelledStarting, Startable, TaskIs, TaskStatuses
    <3>1. ToolsTypeOK' /\ Owned' /\ NothingLost
      BY <2>7, <3>0
    <3>2. StreamsOK'
      BY <2>36, <3>1, EndsOK, StreamsStep DEF CancelledStarting
    <3>3. adrift' \subseteq Tasks
      BY <2>36, <3>0, TaskFacts DEF CancelledStarting, TypeInv, TypeOK
    <3>4. disturbances' \in 0..MaxDisturbances
      BY <2>36, OrchestrationAssumption DEF CancelledStarting, Disturbance, TypeInv, TypeOK
    <3>. QED
      BY <2>36, <3>1, <3>2, <3>3, <3>4 DEF CancelledStarting, TypeInv, TypeOK, StreamsOK
  <2>19. ASSUME UNCHANGED <<stream, stageVars, agents, control, adrift>>,
                disturbances' \in 0..MaxDisturbances, opens' = opens,
                ToolsTypeOK', Owned', DOMAIN tasks' = DOMAIN tasks
         PROVE  TypeInv'
    BY <2>2, <2>19 DEF TypeInv, TypeOK, StreamsOK
  <2>20. Disturbance => disturbances' \in 0..MaxDisturbances
    BY OrchestrationAssumption DEF Disturbance, TypeInv, TypeOK
  <2>21. disturbances \in 0..MaxDisturbances
    BY DEF TypeInv, TypeOK
  <2>22. ASSUME NEW c \in Calls, ToolWorks(c) \/ UserCancelsCall(c) PROVE TypeInv'
    <3>1. ToolsTypeOK' /\ UNCHANGED <<tasks, stream, stageVars, agents, control, adrift, opens>>
      BY <2>22, WorkTypes
         DEF ToolWorks, UserCancelsCall, ToolStarts, FileWritten, ProcessEnds, EndCancelCall,
             StartCancelCall
    <3>2. Owned'
      <4>1. \A b \in Calls : at'[b] # "none" \/ b \in live' => at[b] # "none" \/ b \in live
        BY <2>22 DEF ToolWorks, UserCancelsCall, ToolStarts, FileWritten, ProcessEnds,
                     EndCancelCall, StartCancelCall, Outcome, Kill, ToolsTypeOK
      <4>. QED
        BY <3>1, <4>1, OwnedStep
    <3>3. disturbances' \in 0..MaxDisturbances
      BY <2>20, <2>21, <2>22 DEF ToolWorks, UserCancelsCall
    <3>. QED
      BY <2>19, <3>1, <3>2, <3>3
  <2>23. ASSUME NEW t \in Tasks, UserCancelsTask(t) PROVE TypeInv'
    <3>1. SetTask(t, "cancelled") /\ Expire(t) /\ t \in DOMAIN tasks /\ "cancelled" \in TaskStatuses
      BY <2>23 DEF UserCancelsTask, EndTask, HasTask, TaskStatuses
    <3>2. UNCHANGED <<execution, opens>> /\ ByOthers
      BY <2>23 DEF UserCancelsTask
    <3>3. DOMAIN tasks' = DOMAIN tasks
      BY <3>1, SetTaskFacts
    <3>4. ToolsTypeOK' /\ Owned'
      BY <3>1, <3>2, <3>3, SetTaskTypes, OwnedStep
    <3>. QED
      BY <2>19, <2>20, <2>23, <3>2, <3>3, <3>4 DEF UserCancelsTask
  <2>24. ASSUME NEW t \in Tasks, AsksGrant(t) \/ DecidesGrant(t) PROVE TypeInv'
    <3>1. RequestCapability(t) \/ DecideCapability(t)
      BY <2>24 DEF AsksGrant, DecidesGrant
    <3>2. ToolsTypeOK' /\ UNCHANGED <<tasks, execution>>
      BY <3>1, GrantTypes DEF RequestCapability, DecideCapability
    <3>3. Owned'
      BY <3>2, OwnedStep
    <3>. QED
      BY <2>19, <2>20, <2>21, <2>24, <3>2, <3>3 DEF AsksGrant, DecidesGrant
  <2>25. ASSUME NEW t \in Tasks, UsesGrant(t) PROVE TypeInv'
    <3>1. None \in Contents /\ t \in DOMAIN tasks
      BY <2>25 DEF Contents, UsesGrant, TakesCalls, TaskIs, HasTask
    <3>2. Insert(<<t, "extra">>, None) /\ UNCHANGED <<tasks, grant>>
      BY <2>25 DEF UsesGrant
    <3>3. ToolsTypeOK'
      BY <3>1, <3>2, InsertTypes
    <3>4. Owned'
      BY <3>1, <3>2, OwnedStep DEF Insert, ToolsTypeOK
    <3>. QED
      BY <2>19, <2>21, <2>25, <3>2, <3>3, <3>4 DEF UsesGrant
  <2>26. ASSUME NEW t \in Tasks, ExtraEnds(t) PROVE TypeInv'
    <3>1. ToolsTypeOK' /\ UNCHANGED tasks
      BY <2>26, FinishTypes, SpawnFailsTypes DEF ExtraEnds, Finish
    <3>2. Owned'
      BY <2>26, <3>1, OwnedStep DEF ExtraEnds, Finish, SpawnFails, ToolsTypeOK
    <3>. QED
      BY <2>19, <2>21, <2>26, <3>1, <3>2 DEF ExtraEnds
  <2>27. ASSUME NEW k \in Keys, UserCancelsRun(k) PROVE TypeInv'
    <3>1. ToolsTypeOK' /\ Owned' /\ UNCHANGED <<tasks, stream, versions>>
      BY <2>1, <2>27 DEF UserCancelsRun
    <3>2. StreamsOK'
      BY <2>2, <3>1
    <3>3. agent' \in [Keys -> AgentStatuses]
      BY <2>27 DEF UserCancelsRun, TypeInv, TypeOK, AgentStatuses
    <3>. QED
      BY <2>20, <2>27, <3>1, <3>2, <3>3 DEF UserCancelsRun, TypeInv, TypeOK, StreamsOK
  <2>28. ASSUME NEW command \in {"pause", "resume", "stop"}, ControlReads(command) PROVE TypeInv'
    <3>1. Kill({c \in Calls : call[c] = "running"})
          /\ UNCHANGED <<tasks, call, killing, argument, files, grant, ran, stream, versions>>
      BY <2>28 DEF ControlReads
    <3>2. ToolsTypeOK'
      BY <3>1, KillTypes, ToolTypes DEF ToolsTypeOK
    <3>3. Owned'
      BY <3>1, OwnedStep DEF Kill, ToolsTypeOK
    <3>4. StreamsOK'
      BY <2>2, <3>1, <3>2
    <3>. QED
      BY <2>20, <2>28, <3>1, <3>2, <3>3, <3>4 DEF ControlReads, TypeInv, TypeOK, StreamsOK
  <2>29. ASSUME NEW statuses, NEW status \in CallStatuses,
                TasksCancelled(statuses) \/ UNCHANGED tasks,
                CallsEnded(status) \/ UNCHANGED call
         PROVE  /\ tasks' \in Seq(TaskRow) /\ Len(tasks') = Len(tasks)
                /\ DOMAIN tasks' = DOMAIN tasks /\ call' \in [Calls -> CallStatuses]
    BY <2>29, TasksCancelledFacts DEF CallsEnded, ToolsTypeOK
  <2>30. AgentsCancelled => agent' \in [Keys -> AgentStatuses]
    BY DEF AgentsCancelled, AgentStatuses, TypeInv, TypeOK
  <2>31. ASSUME ControlWrites PROVE TypeInv'
    <3>0. UNCHANGED <<at, live, killing, argument, files, grant, ran, versions, delivered, order,
                      plan, stream, adrift, opens, disturbances>>
      BY <2>31 DEF ControlWrites
    <3>1. /\ \E statuses : TasksCancelled(statuses) \/ UNCHANGED tasks
          /\ CallsEnded("cancelled") \/ UNCHANGED call
          /\ AgentsCancelled \/ UNCHANGED agent
          /\ stage' \in StageStates /\ workflow' \in WorkflowStates
          /\ fresh' \subseteq Streams \cup {"control"} /\ control' = "none"
      <4>1. stage \in StageStates /\ "cancelled" \in StageStates
        BY DEF TypeInv, TypeOK, StageStates
      <4>2. workflow \in WorkflowStates /\ {"paused", "running", "stopped"} \subseteq WorkflowStates
        BY DEF TypeInv, TypeOK, WorkflowStates
      <4>3. fresh \subseteq Streams \cup {"control"}
        BY DEF TypeInv, TypeOK
      <4>. QED
        BY <2>31, <4>1, <4>2, <4>3 DEF ControlWrites
    <3>2. /\ tasks' \in Seq(TaskRow) /\ Len(tasks') = Len(tasks)
          /\ DOMAIN tasks' = DOMAIN tasks /\ call' \in [Calls -> CallStatuses]
      BY <2>29, <3>1 DEF CallStatuses
    <3>3. ToolsTypeOK'
      BY <3>0, <3>2 DEF ToolsTypeOK
    <3>4. Owned'
      BY <3>0, <3>2, OwnedStep
    <3>5. StreamsOK'
      BY <2>2, <3>0, <3>2, <3>3
    <3>6. agent' \in [Keys -> AgentStatuses]
      BY <2>30, <3>1 DEF TypeInv, TypeOK
    <3>. QED
      BY <3>0, <3>1, <3>3, <3>4, <3>5, <3>6 DEF TypeInv, TypeOK, StreamsOK
  <2>32. ASSUME DecidesGate \/ Recover PROVE TypeInv'
    <3>1. /\ UNCHANGED <<toolVars, versions, delivered, agents, stream, control, adrift, opens,
                         disturbances>>
          /\ fresh' = {}
      BY <2>32 DEF DecidesGate, Recover
    <3>2. stage' \in StageStates /\ workflow' \in WorkflowStates
      BY <2>32 DEF DecidesGate, Recover, StageStates, Production, WorkflowStates
    <3>3. ToolsTypeOK' /\ Owned'
      BY <2>1, <3>1
    <3>4. StreamsOK'
      BY <2>2, <3>1, <3>3
    <3>. QED
      BY <3>1, <3>2, <3>3, <3>4 DEF TypeInv, TypeOK, StreamsOK
  <2>33. ASSUME Restart PROVE TypeInv'
    <3>0. /\ UNCHANGED <<argument, files, grant, ran, versions, delivered, order, plan, opens>>
          /\ stream' = [s \in Streams |-> Off] /\ control' = "none" /\ fresh' = {}
          /\ at' = [c \in Calls |-> "none"] /\ live' = {} /\ killing' = {}
          /\ adrift' = adrift \cup {t \in Tasks : TaskIs(t, "running")}
          /\ Disturbance
      BY <2>33 DEF Restart
    <3>1. /\ \E statuses : TasksCancelled(statuses) \/ UNCHANGED tasks
          /\ CallsEnded("interrupted") \/ UNCHANGED call
          /\ AgentsCancelled \/ UNCHANGED agent
          /\ stage' \in StageStates /\ workflow' \in WorkflowStates
      <4>1. stage \in StageStates /\ "interrupted" \in StageStates
        BY DEF TypeInv, TypeOK, StageStates
      <4>2. workflow \in WorkflowStates /\ "interrupted" \in WorkflowStates
        BY DEF TypeInv, TypeOK, WorkflowStates
      <4>. QED
        BY <2>33, <4>1, <4>2 DEF Restart
    <3>2. /\ tasks' \in Seq(TaskRow) /\ Len(tasks') = Len(tasks)
          /\ DOMAIN tasks' = DOMAIN tasks /\ call' \in [Calls -> CallStatuses]
      BY <2>29, <3>1 DEF CallStatuses
    <3>3. ToolsTypeOK'
      BY <3>0, <3>2 DEF ToolsTypeOK
    <3>4. Owned'
      BY <3>0 DEF Owned
    <3>5. StreamsOK'
      <4>1. \A s \in Streams : stream'[s] = Off /\ RowOK(Off, Len(tasks'), Len(versions'))
        BY <2>0, <3>0, <3>2, OffRow
      <4>. QED
        BY <3>0, <4>1 DEF StreamsOK, Placed, RowOK
    <3>6. agent' \in [Keys -> AgentStatuses]
      BY <2>30, <3>1 DEF TypeInv, TypeOK
    <3>7. adrift' \subseteq Tasks
      BY <3>0 DEF TypeInv, TypeOK
    <3>. QED
      BY <2>20, <3>0, <3>1, <3>3, <3>4, <3>5, <3>6, <3>7 DEF TypeInv, TypeOK, StreamsOK
  <2>34. CASE UNCHANGED vars
    BY <2>1, <2>19, <2>21, <2>34 DEF vars
  <2>35. ASSUME NEW s \in Streams, StreamStep(s) PROVE TypeInv'
    BY <2>4, <2>5, <2>6, <2>8, <2>9, <2>10, <2>11, <2>12, <2>13, <2>14, <2>15, <2>16, <2>35
       DEF StreamStep
  <2>. QED
    BY <2>3, <2>17, <2>18, <2>22, <2>23, <2>24, <2>25, <2>26, <2>27, <2>28, <2>31, <2>32, <2>33,
       <2>34, <2>35, <2>36 DEF Next
<1>. QED
  BY <1>1, <1>2, PTL DEF Spec

(* The types of the system are what the rows of its tables hold. *)
THEOREM TypeCorrect == Spec => []TypeOK
<1>1. TypeInv => TypeOK
  BY DEF TypeInv
<1>. QED
  BY <1>1, TypeInductive, PTL

-----------------------------------------------------------------------------
(* What a step does to the calls, whoever takes it. *)
CallMoves(c) ==
    \/ call[c] = "none" /\ \E expected : Insert(c, expected)
    \/ ToolStarts(c) \/ FileWritten(c) \/ ProcessEnds(c)
    \/ Finish(c) \/ SpawnFails(c) \/ Interrupt(c)
    \/ StartCancelCall(c) \/ EndCancelCall(c)

CallsMove ==
    \/ UNCHANGED execution
    \/ \E c \in Calls : CallMoves(c)
    \/ \E cs : Kill(cs) /\ UNCHANGED <<call, ran>>
    \/ /\ CallsEnded("cancelled") \/ UNCHANGED call
       /\ UNCHANGED <<at, live, ran>>
    \/ /\ CallsEnded("interrupted") \/ UNCHANGED call
       /\ at' = [c \in Calls |-> "none"] /\ live' = {} /\ UNCHANGED ran

LEMMA CallSteps ==
    ASSUME TypeInv, [Next]_vars
    PROVE  CallsMove
<1>0. CASE UNCHANGED execution
  BY <1>0 DEF CallsMove
<1>1. ASSUME NEW s \in Streams, NextSlot(s) PROVE CallsMove
  <2>. DEFINE c == <<stream[s].task, PlanSlots[stream[s].step + 1]>>
  <2>1. UNCHANGED execution \/ (Execute(s, c) /\ stream[s].step # 3)
    BY <1>1 DEF NextSlot, Complete, EndTask, PlanSlots
  <2>2. stream[s].step # 3 => c \in Calls
    <3>1. stream[s].step \in 0..3 /\ stream[s].task \in Tasks
      BY <1>1, RowFacts DEF NextSlot, RowOK, Working
    <3>2. stream[s].step # 3 => PlanSlots[stream[s].step + 1] \in Slots
      BY <3>1 DEF PlanSlots, Slots
    <3>. QED
      BY <3>1, <3>2 DEF Calls
  <2>3. UNCHANGED execution \/ (call[c] = "none" /\ Insert(c, Expects(s, c[2])))
    BY <2>1 DEF Execute
  <2>. HIDE DEF c
  <2>. QED
    BY <1>0, <2>1, <2>2, <2>3 DEF CallsMove, CallMoves
<1>2. ASSUME NEW s \in Streams, At(s, "tool") PROVE CallOf(s) \in Calls
  BY <1>2, RowFacts DEF RowOK, Working, CallOf, Calls, Slots, PlanSlots
<1>3. ASSUME NEW s \in Streams, ToolFinished(s) \/ ToolEscapes(s) \/ Cancelled(s) PROVE CallsMove
  BY <1>2, <1>3 DEF ToolFinished, ToolEscapes, Cancelled, CallsMove, CallMoves
<1>4. ASSUME NEW s \in Streams,
             \/ StreamStep(s) \/ Dropped(s) \/ CancelledStarting(s) \/ \E k \in Keys : Open(s, k)
      PROVE  CallsMove
  <2>1. CASE NextSlot(s) \/ ToolFinished(s) \/ ToolEscapes(s)
    BY <1>1, <1>3, <2>1
  <2>2. CASE \/ Prepare(s) \/ Move(s) \/ Enqueue(s) \/ StartTask(s) \/ CreateRun(s)
             \/ StreamRun(s) \/ RunEnds(s) \/ CheckPlan(s)
    BY <1>0, <2>2
       DEF Prepare, Move, Enqueue, StartTask, CreateRun, StreamRun, RunEnds, CheckPlan
  <2>3. CASE \/ CreateVersion(s) \/ Submit(s) \/ FailTask(s) \/ CancelOwnTask(s) \/ Dropped(s)
             \/ CancelledStarting(s) \/ \E k \in Keys : Open(s, k)
    BY <1>0, <2>3 DEF CreateVersion, Submit, FailTask, CancelOwnTask, Dropped, CancelledStarting, Open
  <2>. QED
    BY <1>4, <2>1, <2>2, <2>3 DEF StreamStep
<1>5. ASSUME NEW c \in Calls, ToolWorks(c) \/ UserCancelsCall(c) PROVE CallsMove
  BY <1>5 DEF ToolWorks, UserCancelsCall, CallsMove, CallMoves
<1>6. ASSUME NEW t \in Tasks, UsesGrant(t) \/ ExtraEnds(t) PROVE CallsMove
  <2>1. <<t, "extra">> \in Calls
    BY DEF Calls, Slots
  <2>. QED
    BY <1>6, <2>1 DEF UsesGrant, ExtraEnds, CallsMove, CallMoves
<1>7. ASSUME NEW t \in Tasks, UserCancelsTask(t) \/ AsksGrant(t) \/ DecidesGrant(t) PROVE CallsMove
  BY <1>0, <1>7 DEF UserCancelsTask, AsksGrant, DecidesGrant, RequestCapability, DecideCapability
<1>8. ASSUME NEW command, ControlReads(command) PROVE CallsMove
  BY <1>8 DEF ControlReads, CallsMove
<1>9. ControlWrites \/ Restart => CallsMove
  BY DEF ControlWrites, Restart, CallsMove
<1>10. (\E k \in Keys : UserCancelsRun(k)) \/ DecidesGate \/ Recover \/ UNCHANGED vars => CallsMove
  BY <1>0 DEF UserCancelsRun, DecidesGate, Recover, vars
<1>. QED
  BY <1>3, <1>4, <1>5, <1>6, <1>7, <1>8, <1>9, <1>10 DEF Next

LEMMA StatusFinal ==
    ASSUME TypeInv, CallsMove, NEW c \in Calls, call[c] \in TerminalCalls
    PROVE  call'[c] = call[c]
<1>1. call \in [Calls -> CallStatuses] /\ call[c] \notin {"none", "running"}
  BY DEF TypeInv, TypeOK, ToolsTypeOK, TerminalCalls
<1>2. ASSUME NEW b \in Calls, CallMoves(b) PROVE call'[c] = call[c]
  BY <1>1, <1>2 DEF CallMoves, Insert, ToolStarts, FileWritten, ProcessEnds, Finish, Finished,
                    SpawnFails, Interrupt, StartCancelCall, EndCancelCall
<1>. QED
  BY <1>1, <1>2 DEF CallsMove, CallsEnded

(* The status of a tool call is decided once (finish_tool_call guards the   *)
(* row), whoever records one: executor, canceller, control or recovery.     *)
THEOREM CallFinalCorrect == Spec => CallFinal
<1>1. TypeInv /\ [Next]_vars => [\A c \in Calls : call[c] \in TerminalCalls => call'[c] = call[c]]_call
  BY CallSteps, StatusFinal
<1>. QED
  BY <1>1, TypeInductive, PTL DEF Spec, CallFinal

(* The life of a call: it is executed once, from its row on; its tool has    *)
(* its effect at most once; and a recorded success had the effect.           *)
CallLife(c) ==
    /\ call[c] = "none" => at[c] = "none" /\ c \notin live /\ ran[c] = 0
    /\ at[c] = "starting" => c \notin live /\ ran[c] = 0
    /\ c \in live /\ c[2] \notin Commands => ran[c] = 0
    /\ at[c] = "tool" /\ c[2] \in Commands => ran[c] = 1
    /\ at[c] = "succeeded" \/ call[c] = "succeeded" => ran[c] = 1
    /\ ran[c] <= 1

CallInv == \A c \in Calls : CallLife(c)

LEMMA LifeKept ==
    ASSUME NEW c \in Calls, CallLife(c), call'[c] = call[c], at'[c] = at[c], ran'[c] = ran[c],
           c \in live' => c \in live
    PROVE  CallLife(c)'
BY DEF CallLife

LEMMA LifeStep ==
    ASSUME TypeInv, CallInv, CallsMove
    PROVE  CallInv'
<1>. SUFFICES ASSUME NEW c \in Calls PROVE CallLife(c)'
  BY DEF CallInv
<1>0. CallLife(c)
  BY DEF CallInv
<1>1. /\ call \in [Calls -> CallStatuses] /\ live \subseteq Calls /\ ran \in [Calls -> Nat]
      /\ at \in [Calls -> {"none", "starting", "tool", "succeeded", "failed", "cancelled"}]
  BY DEF TypeInv, TypeOK, ToolsTypeOK
<1>2. ASSUME NEW b \in Calls, CallMoves(b) PROVE CallLife(c)'
  <2>1. CASE b # c
    <3>1. at'[c] = at[c] /\ call'[c] = call[c] /\ ran'[c] = ran[c]
      BY <1>1, <1>2, <2>1
         DEF CallMoves, Insert, ToolStarts, FileWritten, ProcessEnds, Finish, Finished, SpawnFails,
             Interrupt, StartCancelCall, EndCancelCall, Outcome, Kill
    <3>2. c \in live' => c \in live
      BY <1>2, <2>1
         DEF CallMoves, Insert, ToolStarts, FileWritten, ProcessEnds, Finish, SpawnFails,
             Interrupt, StartCancelCall, EndCancelCall, Kill
    <3>. QED
      BY <1>0, <3>1, <3>2, LifeKept
  <2>2. CASE b = c
    <3>1. CASE call[c] = "none" /\ \E expected : Insert(c, expected)
      BY <1>0, <1>1, <3>1 DEF Insert, CallLife
    <3>2. CASE ToolStarts(c)
      BY <1>0, <1>1, <3>2 DEF ToolStarts, CallLife
    <3>3. CASE FileWritten(c)
      BY <1>0, <1>1, <3>3 DEF FileWritten, Outcome, CallLife
    <3>4. CASE ProcessEnds(c)
      BY <1>0, <1>1, <3>4 DEF ProcessEnds, Outcome, CallLife
    <3>5. CASE Finish(c)
      BY <1>0, <1>1, <3>5 DEF Finish, Finished, CallLife
    <3>6. CASE SpawnFails(c)
      BY <1>0, <1>1, <3>6 DEF SpawnFails, CallLife
    <3>7. CASE Interrupt(c)
      BY <1>0, <1>1, <3>7 DEF Interrupt, CallLife
    <3>8. CASE StartCancelCall(c)
      BY <1>0, <1>1, <3>8 DEF StartCancelCall, Kill, CallLife
    <3>9. CASE EndCancelCall(c)
      BY <1>0, <1>1, <3>9 DEF EndCancelCall, CallLife
    <3>. QED
      BY <1>2, <2>2, <3>1, <3>2, <3>3, <3>4, <3>5, <3>6, <3>7, <3>8, <3>9 DEF CallMoves
  <2>. QED
    BY <2>1, <2>2
<1>3. ASSUME NEW cs, Kill(cs), UNCHANGED <<call, ran>> PROVE CallLife(c)'
  BY <1>0, <1>1, <1>3 DEF Kill, CallLife
<1>4. ASSUME CallsEnded("cancelled") \/ CallsEnded("interrupted") \/ UNCHANGED call,
             UNCHANGED ran, UNCHANGED <<at, live>> \/ (at'[c] = "none" /\ live' = {})
      PROVE  CallLife(c)'
  <2>1. \/ call'[c] = call[c]
        \/ call[c] = "running" /\ call'[c] \in {"cancelled", "interrupted"}
    BY <1>1, <1>4 DEF CallsEnded
  <2>. QED
    BY <1>0, <1>4, <2>1 DEF CallLife
<1>. QED
  BY <1>0, <1>2, <1>3, <1>4, LifeKept DEF CallsMove

LEMMA CallInductive == Spec => []CallInv
<1>1. Init => CallInv
  BY DEF Init, ToolsInit, CallInv, CallLife
<1>2. TypeInv /\ CallInv /\ [Next]_vars => CallInv'
  BY CallSteps, LifeStep
<1>. QED
  BY <1>1, <1>2, TypeInductive, PTL DEF Spec

(* However often a delivery is retried, dropped, cancelled or restarted, a   *)
(* planned call of its task has its effect at most once.                     *)
THEOREM RanOnceCorrect == Spec => []RanOnce
<1>1. CallInv => RanOnce
  BY DEF CallInv, CallLife, RanOnce
<1>. QED
  BY <1>1, CallInductive, PTL

-----------------------------------------------------------------------------
(* What a step does to the tasks. *)
Completes(s) ==
    /\ At(s, "planned") \/ (At(s, "tool_done") /\ stream[s].result = "succeeded")
    /\ stream[s].step = 3
    /\ TaskIs(stream[s].task, "running")

\* What a stream does, or what is done to it.
StreamAct(s) ==
    \/ StreamStep(s) \/ Dropped(s) \/ Cancelled(s) \/ CancelledStarting(s)
    \/ \E k \in Keys : Open(s, k)

TaskMoves(t) ==
    \/ t \notin DOMAIN tasks /\ tasks'[t].status = "queued"
    \/ t \in DOMAIN tasks /\ tasks'[t].status = tasks[t].status
    \/ TaskIs(t, "queued") /\ tasks'[t].status \in {"failed", "cancelled"}
    \/ TaskIs(t, "running") /\ tasks'[t].status \in {"failed", "cancelled"}
    \/ /\ TaskIs(t, "queued") /\ tasks'[t].status = "running"
       /\ t \in adrift' \/ \E s \in Streams : stream'[s].task = t /\ stream'[s].local = "running"
    \/ tasks'[t].status = "succeeded" /\ \E s \in Streams : stream[s].task = t /\ Completes(s)

TasksMove ==
    /\ DOMAIN tasks \subseteq DOMAIN tasks'
    /\ \A t \in DOMAIN tasks' : TaskMoves(t)

LEMMA TasksStay ==
    ASSUME UNCHANGED tasks
    PROVE  TasksMove
BY DEF TasksMove, TaskMoves

LEMMA TaskEnds ==
    ASSUME TypeInv, NEW t, TaskIs(t, "queued") \/ TaskIs(t, "running"),
           NEW status \in {"failed", "cancelled"}, EndTask(t, status)
    PROVE  TasksMove
<1>1. t \in DOMAIN tasks /\ status \in TaskStatuses /\ ToolsTypeOK /\ SetTask(t, status)
  BY DEF TaskIs, HasTask, TaskStatuses, TypeInv, TypeOK, EndTask
<1>. QED
  BY <1>1, SetTaskFacts DEF TasksMove, TaskMoves

LEMMA TasksEnd ==
    ASSUME TypeInv, NEW statuses \in SUBSET {"queued", "running"}, TasksCancelled(statuses)
    PROVE  TasksMove
<1>1. ToolsTypeOK
  BY DEF TypeInv, TypeOK
<1>. QED
  BY <1>1, TasksCancelledFacts DEF TasksMove, TaskMoves, TaskIs, HasTask

LEMMA TaskSteps ==
    ASSUME TypeInv, [Next]_vars
    PROVE  TasksMove
<1>0. ToolsTypeOK
  BY DEF TypeInv, TypeOK
<1>1. ASSUME NEW s \in Streams, Enqueue(s) PROVE TasksMove
  <2>1. CASE Queued(stream[s].key)
    <3>1. stream[s].key \in Keys
      BY <1>1, RowFacts DEF Enqueue, RowOK
    <3>2. /\ DOMAIN tasks' = DOMAIN tasks \cup {Len(tasks')}
          /\ \A u \in DOMAIN tasks : tasks'[u] = tasks[u]
          /\ tasks'[Len(tasks')].status = "queued"
      BY <1>0, <1>1, <2>1, <3>1, QueuedFacts DEF Enqueue
    <3>. QED
      BY <3>2 DEF TasksMove, TaskMoves
  <2>. QED
    BY <1>1, <2>1, TasksStay DEF Enqueue
<1>2. ASSUME NEW s \in Streams, StartTask(s) PROVE TasksMove
  <2>1. CASE Startable(stream[s].task) /\ SetTask(stream[s].task, "running")
             /\ Local(s, "running", "task_started")
    <3>. DEFINE t == stream[s].task
    <3>1. t \in DOMAIN tasks /\ TaskIs(t, "queued") /\ "running" \in TaskStatuses
      BY <2>1 DEF Startable, TaskIs, HasTask, TaskStatuses
    <3>2. /\ DOMAIN tasks' = DOMAIN tasks /\ tasks'[t].status = "running"
          /\ \A u \in DOMAIN tasks : u # t => tasks'[u] = tasks[u]
      BY <1>0, <2>1, <3>1, SetTaskFacts
    <3>3. stream'[s].task = t /\ stream'[s].local = "running"
      <4>1. stream \in [Streams -> StreamRow]
        BY DEF TypeInv, TypeOK
      <4>. QED
        BY <2>1, <4>1 DEF Local, StreamRow
    <3>. HIDE DEF t
    <3>. QED
      BY <3>1, <3>2, <3>3 DEF TasksMove, TaskMoves
  <2>. QED
    BY <1>2, <2>1, TasksStay DEF StartTask
<1>11. ASSUME NEW s \in Streams, CancelledStarting(s) PROVE TasksMove
  <2>. DEFINE t == stream[s].task
  <2>1. t \in DOMAIN tasks /\ TaskIs(t, "queued") /\ "running" \in TaskStatuses
    BY <1>11 DEF CancelledStarting, Startable, TaskIs, HasTask, TaskStatuses
  <2>2. /\ DOMAIN tasks' = DOMAIN tasks /\ tasks'[t].status = "running"
        /\ \A u \in DOMAIN tasks : u # t => tasks'[u] = tasks[u]
    BY <1>0, <1>11, <2>1, SetTaskFacts DEF CancelledStarting
  <2>3. t \in adrift'
    BY <1>11 DEF CancelledStarting
  <2>. HIDE DEF t
  <2>. QED
    BY <2>1, <2>2, <2>3 DEF TasksMove, TaskMoves
<1>3. ASSUME NEW s \in Streams, NextSlot(s) PROVE TasksMove
  <2>1. CASE Complete(s) /\ TaskIs(stream[s].task, "running") /\ stream[s].step = 3
             /\ ~(At(s, "tool_done") /\ stream[s].result # "succeeded")
    <3>. DEFINE t == stream[s].task
    <3>1. t \in DOMAIN tasks /\ "succeeded" \in TaskStatuses /\ SetTask(t, "succeeded")
      BY <2>1 DEF Complete, EndTask, TaskIs, HasTask, TaskStatuses
    <3>2. /\ DOMAIN tasks' = DOMAIN tasks /\ tasks'[t].status = "succeeded"
          /\ \A u \in DOMAIN tasks : u # t => tasks'[u] = tasks[u]
      BY <1>0, <3>1, SetTaskFacts
    <3>3. Completes(s)
      BY <1>3, <2>1 DEF NextSlot, Completes
    <3>. QED
      BY <3>1, <3>2, <3>3 DEF TasksMove, TaskMoves
  <2>2. \/ UNCHANGED tasks
        \/ Complete(s) /\ TaskIs(stream[s].task, "running") /\ stream[s].step = 3
           /\ ~(At(s, "tool_done") /\ stream[s].result # "succeeded")
    BY <1>3 DEF NextSlot, Complete, PlanSlots
  <2>. QED
    BY <2>1, <2>2, TasksStay
<1>4. ASSUME NEW s \in Streams, FailTask(s) \/ CancelOwnTask(s) PROVE TasksMove
  BY <1>4, TaskEnds, TasksStay DEF FailTask, CancelOwnTask
<1>5. ASSUME NEW s \in Streams, StreamAct(s) PROVE TasksMove
  <2>1. CASE \/ Prepare(s) \/ Move(s) \/ CreateRun(s) \/ StreamRun(s) \/ RunEnds(s) \/ CheckPlan(s)
             \/ ToolFinished(s) \/ ToolEscapes(s)
    BY <2>1, TasksStay DEF Prepare, Move, CreateRun, StreamRun, RunEnds, CheckPlan, ToolFinished,
                           ToolEscapes, Finish
  <2>2. CASE \/ CreateVersion(s) \/ Submit(s) \/ Dropped(s) \/ Cancelled(s)
             \/ \E k \in Keys : Open(s, k)
    BY <2>2, TasksStay DEF CreateVersion, Submit, Dropped, Cancelled, Open
  <2>. QED
    BY <1>1, <1>2, <1>3, <1>4, <1>5, <1>11, <2>1, <2>2 DEF StreamStep, StreamAct
<1>6. ASSUME NEW c \in Calls, ToolWorks(c) \/ UserCancelsCall(c) PROVE TasksMove
  BY <1>6, TasksStay DEF ToolWorks, UserCancelsCall, ToolStarts, FileWritten, ProcessEnds,
                         EndCancelCall, StartCancelCall
<1>7. ASSUME NEW t \in Tasks, UserCancelsTask(t) PROVE TasksMove
  BY <1>7, TaskEnds DEF UserCancelsTask, TaskIs
<1>8. ASSUME NEW t \in Tasks, \/ AsksGrant(t) \/ DecidesGrant(t) \/ UsesGrant(t) \/ ExtraEnds(t)
      PROVE  TasksMove
  BY <1>8, TasksStay DEF AsksGrant, DecidesGrant, UsesGrant, ExtraEnds, RequestCapability,
                         DecideCapability, Finish
<1>9. ControlWrites \/ Restart => TasksMove
  <2>1. \/ ControlWrites \/ Restart
        => \/ UNCHANGED tasks
           \/ \E statuses \in SUBSET {"queued", "running"} : TasksCancelled(statuses)
    BY DEF ControlWrites, Restart
  <2>. QED
    BY <2>1, TasksStay, TasksEnd
<1>10. \/ \E k \in Keys : UserCancelsRun(k)
       \/ \E command \in {"pause", "resume", "stop"} : ControlReads(command)
       \/ DecidesGate \/ Recover \/ UNCHANGED vars
       => TasksMove
  BY TasksStay DEF UserCancelsRun, ControlReads, DecidesGate, Recover, vars
<1>. QED
  BY <1>5, <1>6, <1>7, <1>8, <1>9, <1>10 DEF Next, StreamAct

-----------------------------------------------------------------------------
(* What a stream knows.  Up to its plan it has taken no step of it; within   *)
(* the plan the calls before its step succeeded; past the plan its task did; *)
(* and it calls a task running only from its start on.                       *)
Early == {"started", "enqueue", "start", "task_started", "run_created", "streaming", "check",
          "planned"}

Planned(t, slots) == \A i \in 1..slots : call[<<t, PlanSlots[i]>>] = "succeeded"

StepsDone(s) ==
    /\ stream[s].at \in Early \/ stream[s].task = 0 => stream[s].step = 0
    /\ stream[s].at \in {"tool", "tool_done"} =>
          stream[s].step # 0 /\ Planned(stream[s].task, stream[s].step - 1)
    /\ stream[s].at = "tool_done" /\ stream[s].result = "succeeded" =>
          call[CallOf(s)] = "succeeded"

PastPlan(s) ==
    /\ stream[s].at \in {"task_done", "versioned"} => stream[s].local = "succeeded"
    /\ stream[s].at \in {"moving", "moved"} /\ stream[s].task # 0 => stream[s].local = "succeeded"
    /\ stream[s].local = "succeeded" => TaskIs(stream[s].task, "succeeded")

Rested(s) ==
    stream[s].at \in {"off", "enqueue"} \/ stream[s].task = 0 => stream[s].local = "queued"

Sound(s) == StepsDone(s) /\ PastPlan(s) /\ Rested(s)

DeliveryInv ==
    /\ \A s \in Streams : Sound(s)
    /\ \A t \in DOMAIN tasks : tasks[t].status = "succeeded" => Planned(t, 3)
    /\ \A t \in delivered : TaskIs(t, "succeeded")

(* A step forgets no success, and no task a stream runs. *)
Remembers ==
    /\ \A c \in Calls : call[c] = "succeeded" => call'[c] = "succeeded"
    /\ \A t \in DOMAIN tasks : tasks[t].status = "succeeded" =>
           t \in DOMAIN tasks' /\ tasks'[t].status = "succeeded"

Holds(s, t) == stream[s].task = t /\ stream[s].local = "running"

HeldOn(s) ==
    \A t \in DOMAIN tasks' :
        tasks'[t].status = "running" /\ Holds(s, t) => t \in adrift' \/ Holds(s, t)'

LEMMA StepRemembers ==
    ASSUME TypeInv, [Next]_vars
    PROVE  Remembers
<1>1. \A c \in Calls : call[c] = "succeeded" => call'[c] = "succeeded"
  BY CallSteps, StatusFinal DEF TerminalCalls, CallStatuses
<1>2. TasksMove
  BY TaskSteps
<1>. QED
  BY <1>1, <1>2 DEF TasksMove, TaskMoves, TaskIs, HasTask, Remembers

LEMMA PlannedKept ==
    ASSUME Remembers, NEW t \in Tasks, NEW n \in 0..3, Planned(t, n)
    PROVE  \A i \in 1..n : call'[<<t, PlanSlots[i]>>] = "succeeded"
<1>. SUFFICES ASSUME NEW i \in 1..n PROVE call'[<<t, PlanSlots[i]>>] = "succeeded"
  OBVIOUS
<1>1. <<t, PlanSlots[i]>> \in Calls /\ call[<<t, PlanSlots[i]>>] = "succeeded"
  BY DEF Planned, Calls, Slots, PlanSlots
<1>. QED
  BY <1>1 DEF Remembers

LEMMA PlanOf ==
    ASSUME TypeInv, Remembers, NEW s \in Streams, StepsDone(s), stream[s].at \in {"tool", "tool_done"}
    PROVE  /\ stream[s].task \in Tasks /\ stream[s].step \in 1..3 /\ CallOf(s) \in Calls
           /\ \A i \in 1..(stream[s].step - 1) :
                  call'[<<stream[s].task, PlanSlots[i]>>] = "succeeded"
<1>1. stream[s].task \in Tasks /\ stream[s].step \in 1..3
  BY RowFacts DEF StepsDone, RowOK, Working
<1>2. CallOf(s) \in Calls
  BY <1>1 DEF CallOf, Calls, Slots, PlanSlots
<1>3. Planned(stream[s].task, stream[s].step - 1) /\ stream[s].step - 1 \in 0..3
  BY <1>1 DEF StepsDone
<1>. QED
  BY <1>1, <1>2, <1>3, PlannedKept

(* A stream that stays where it is. *)
LEMMA SoundStays ==
    ASSUME TypeInv, Remembers, NEW s \in Streams, Sound(s), stream'[s] = stream[s]
    PROVE  Sound(s)' /\ HeldOn(s)
<1>1. StepsDone(s)'
  <2>1. CASE stream[s].at \in {"tool", "tool_done"}
    <3>1. /\ CallOf(s) \in Calls /\ CallOf(s)' = CallOf(s)
          /\ \A i \in 1..(stream[s].step - 1) :
                 call'[<<stream[s].task, PlanSlots[i]>>] = "succeeded"
      BY <2>1, PlanOf DEF Sound, CallOf
    <3>2. stream[s].at = "tool_done" /\ stream[s].result = "succeeded" => call'[CallOf(s)] = "succeeded"
      BY <3>1 DEF Sound, StepsDone, Remembers
    <3>. QED
      BY <3>1, <3>2 DEF Sound, StepsDone, Planned
  <2>2. CASE stream[s].at \notin {"tool", "tool_done"}
    BY <2>2 DEF Sound, StepsDone
  <2>. QED
    BY <2>1, <2>2
<1>2. PastPlan(s)'
  BY DEF Sound, PastPlan, Remembers, TaskIs, HasTask
<1>. QED
  BY <1>1, <1>2 DEF Sound, Rested, HeldOn, Holds

(* A stream that changes its place only. *)
LEMMA SoundMoves ==
    ASSUME TypeInv, Remembers, NEW s \in Streams, Sound(s),
           stream'[s].at \notin {"tool", "tool_done", "off"},
           stream'[s].task = stream[s].task, stream'[s].local = stream[s].local,
           stream'[s].step = stream[s].step,
           stream'[s].at \in Early => stream[s].step = 0,
           stream'[s].at \in {"task_done", "versioned"} => stream[s].local = "succeeded",
           stream'[s].at \in {"moving", "moved"} /\ stream[s].task # 0 => stream[s].local = "succeeded",
           stream'[s].at = "enqueue" => stream[s].task = 0
    PROVE  Sound(s)' /\ HeldOn(s)
<1>1. StepsDone(s)'
  BY DEF Sound, StepsDone
<1>2. PastPlan(s)'
  BY DEF Sound, PastPlan, Remembers, TaskIs, HasTask
<1>. QED
  BY <1>1, <1>2 DEF Sound, Rested, HeldOn, Holds

(* A stream that ends. *)
LEMMA SoundEnds ==
    ASSUME TypeInv, NEW s \in Streams, stream' = [stream EXCEPT ![s] = Off],
           \A t \in DOMAIN tasks' : tasks'[t].status = "running" /\ Holds(s, t) => t \in adrift'
    PROVE  Sound(s)' /\ HeldOn(s)
<1>1. stream'[s] = Off
  BY DEF TypeInv, TypeOK
<1>. QED
  BY <1>1 DEF Sound, StepsDone, PastPlan, Rested, Off, HeldOn

LEMMA SoundFails ==
    ASSUME TypeInv, Remembers, NEW s \in Streams, Sound(s), Fails(s)
    PROVE  Sound(s)' /\ HeldOn(s)
<1>1. stream \in [Streams -> StreamRow] /\ stream[s] \in StreamRow
  BY DEF TypeInv, TypeOK
<1>2. CASE stream[s].local = "running"
  <2>1. /\ stream'[s].at = "failing" /\ stream'[s].task = stream[s].task
        /\ stream'[s].local = stream[s].local /\ stream'[s].step = stream[s].step
    BY <1>1, <1>2 DEF Fails, StreamRow
  <2>. QED
    BY <2>1, SoundMoves DEF Early
<1>3. CASE stream[s].local # "running"
  BY <1>1, <1>3, SoundEnds DEF Fails, Holds
<1>. QED
  BY <1>2, <1>3

LEMMA GoesFacts ==
    ASSUME TypeInv, NEW s \in Streams, NEW p, Goes(s, p)
    PROVE  /\ stream'[s].at = p /\ stream'[s].task = stream[s].task
           /\ stream'[s].local = stream[s].local /\ stream'[s].step = stream[s].step
<1>1. stream \in [Streams -> StreamRow] /\ stream[s] \in StreamRow
  BY DEF TypeInv, TypeOK
<1>. QED
  BY <1>1 DEF Goes, StreamRow

(* The steps a stream takes keep what it knows, and the task it runs. *)
LEMMA OwnStep ==
    ASSUME TypeInv, Remembers, NEW s \in Streams, Sound(s), [Next]_vars, StreamAct(s)
    PROVE  Sound(s)' /\ HeldOn(s)
<1>0. /\ stream \in [Streams -> StreamRow] /\ stream[s] \in StreamRow
      /\ RowOK(stream[s], Len(tasks), Len(versions))
      /\ stream[s].task \in Nat /\ stream[s].step \in 0..3 /\ DOMAIN tasks = 1..Len(tasks)
      /\ Len(tasks) \in Nat
  BY RowFacts, TaskFacts DEF TypeInv, TypeOK
<1>1. ASSUME NEW k \in Keys, Open(s, k) PROVE Sound(s)' /\ HeldOn(s)
  <2>1. /\ stream'[s].at = "started" /\ stream'[s].task = 0 /\ stream'[s].step = 0
        /\ stream'[s].local = "queued"
    BY <1>0, <1>1 DEF Open, Off
  <2>2. ~ \E t \in DOMAIN tasks' : Holds(s, t)
    BY <1>1 DEF Open, Sound, Rested, At, Holds
  <2>. QED
    BY <2>1, <2>2 DEF Sound, StepsDone, PastPlan, Rested, HeldOn
<1>2. CASE Prepare(s)
  <2>0. stream[s].task = 0 /\ (At(s, "started") \/ At(s, "moved")) /\ UNCHANGED toolVars
    BY <1>0, <1>2 DEF Prepare, RowOK
  <2>1. CASE Fails(s)
    BY <2>1, SoundFails
  <2>2. CASE Goes(s, "moving") \/ Goes(s, "enqueue")
    BY <2>0, <2>2, GoesFacts, SoundMoves DEF Sound, StepsDone
  <2>3. ASSUME NEW t \in TasksOf(stream[s].key),
               stream' = [stream EXCEPT ![s].at = "start", ![s].task = t, ![s].local = tasks[t].status]
        PROVE  Sound(s)' /\ HeldOn(s)
    <3>1. /\ stream'[s].at = "start" /\ stream'[s].task = t /\ stream'[s].step = stream[s].step
          /\ stream'[s].local = tasks[t].status
      BY <1>0, <2>3 DEF StreamRow
    <3>2. t \in DOMAIN tasks /\ t # 0 /\ tasks' = tasks
      BY <1>0, <2>0 DEF TasksOf
    <3>3. StepsDone(s)' /\ PastPlan(s)' /\ Rested(s)'
      BY <2>0, <3>1, <3>2 DEF Sound, StepsDone, PastPlan, Rested, TaskIs, HasTask
    <3>4. HeldOn(s)
      BY <1>0, <2>0, <3>2 DEF HeldOn, Holds
    <3>. QED
      BY <3>3, <3>4 DEF Sound
  <2>. QED
    BY <1>2, <2>1, <2>2, <2>3 DEF Prepare, ReadsFor
<1>3. CASE Move(s)
  <2>1. CASE Fails(s)
    BY <2>1, SoundFails
  <2>2. ASSUME NEW next, stream' = [stream EXCEPT ![s].at = "moved", ![s].st = next]
        PROVE  Sound(s)' /\ HeldOn(s)
    <3>1. /\ stream'[s].at = "moved" /\ stream'[s].task = stream[s].task
          /\ stream'[s].local = stream[s].local /\ stream'[s].step = stream[s].step
      BY <1>0, <2>2 DEF StreamRow
    <3>. QED
      BY <1>3, <3>1, SoundMoves DEF Move, Sound, PastPlan, Early
  <2>. QED
    BY <1>3, <2>1, <2>2 DEF Move
<1>4. CASE Enqueue(s)
  <2>1. CASE Fails(s)
    BY <2>1, SoundFails
  <2>2. CASE stream' = [stream EXCEPT ![s].at = "start", ![s].task = Len(tasks) + 1]
    <3>1. /\ stream'[s].at = "start" /\ stream'[s].task = Len(tasks) + 1
          /\ stream'[s].local = stream[s].local /\ stream'[s].step = stream[s].step
      BY <1>0, <2>2 DEF StreamRow
    <3>2. stream[s].local = "queued" /\ stream[s].step = 0
      BY <1>4 DEF Enqueue, Sound, Rested, StepsDone, Early
    <3>. QED
      BY <1>0, <3>1, <3>2 DEF Sound, StepsDone, PastPlan, Rested, HeldOn, Holds
  <2>. QED
    BY <1>4, <2>1, <2>2 DEF Enqueue
<1>5. CASE StartTask(s)
  <2>1. CASE Fails(s)
    BY <2>1, SoundFails
  <2>2. CASE Goes(s, "task_started")
    BY <1>5, <2>2, GoesFacts, SoundMoves DEF StartTask, Sound, StepsDone, Early
  <2>3. CASE Local(s, "running", "task_started")
    <3>1. /\ stream'[s].at = "task_started" /\ stream'[s].task = stream[s].task
          /\ stream'[s].local = "running" /\ stream'[s].step = stream[s].step
      BY <1>0, <2>3 DEF Local, StreamRow
    <3>2. stream[s].step = 0 /\ stream[s].task # 0
      BY <1>0, <1>5 DEF StartTask, Sound, StepsDone, Early, RowOK, Working
    <3>. QED
      BY <3>1, <3>2 DEF Sound, StepsDone, PastPlan, Rested, HeldOn, Holds
  <2>. QED
    BY <1>5, <2>1, <2>2, <2>3 DEF StartTask
<1>6. CASE CreateRun(s)
  <2>1. CASE Fails(s)
    BY <2>1, SoundFails
  <2>2. ASSUME NEW seen, NEW pending,
               stream' = [stream EXCEPT ![s].at = "run_created", ![s].seen = seen, ![s].pending = pending]
        PROVE  Sound(s)' /\ HeldOn(s)
    <3>1. /\ stream'[s].at = "run_created" /\ stream'[s].task = stream[s].task
          /\ stream'[s].local = stream[s].local /\ stream'[s].step = stream[s].step
      BY <1>0, <2>2 DEF StreamRow
    <3>. QED
      BY <1>6, <3>1, SoundMoves DEF CreateRun, Sound, StepsDone, Early
  <2>. QED
    BY <1>6, <2>1, <2>2 DEF CreateRun
<1>7. CASE StreamRun(s) \/ RunEnds(s) \/ CheckPlan(s)
  <2>1. stream[s].at \in Early
    BY <1>7 DEF StreamRun, RunEnds, CheckPlan, Early
  <2>2. Fails(s) \/ \E p \in {"check", "streaming", "planned"} : Goes(s, p)
    BY <1>7 DEF StreamRun, RunEnds, CheckPlan
  <2>. QED
    BY <2>1, <2>2, SoundFails, GoesFacts, SoundMoves DEF Sound, StepsDone
<1>8. CASE NextSlot(s)
  <2>. DEFINE c == <<stream[s].task, PlanSlots[stream[s].step + 1]>>
  <2>0. /\ stream[s].task # 0 /\ stream[s].task \in Tasks
        /\ At(s, "planned") \/ At(s, "tool_done")
    BY <1>8, RowFacts DEF NextSlot, RowOK, Working
  <2>1. CASE Fails(s)
    BY <2>1, SoundFails
  <2>2. CASE stream[s].local = "succeeded" /\ Goes(s, "task_done")
    BY <2>2, GoesFacts, SoundMoves DEF Early
  <2>3. CASE TaskIs(stream[s].task, "running") /\ EndTask(stream[s].task, "succeeded")
             /\ Local(s, "succeeded", "task_done")
    <3>1. /\ stream'[s].at = "task_done" /\ stream'[s].task = stream[s].task
          /\ stream'[s].local = "succeeded" /\ stream'[s].step = stream[s].step
      BY <1>0, <2>3 DEF Local, StreamRow
    <3>2. ToolsTypeOK /\ stream[s].task \in DOMAIN tasks /\ SetTask(stream[s].task, "succeeded")
      BY <2>3 DEF TypeInv, TypeOK, TaskIs, HasTask, EndTask
    <3>3. /\ DOMAIN tasks' = DOMAIN tasks /\ tasks'[stream[s].task].status = "succeeded"
      BY <3>2, SetTaskFacts DEF TaskStatuses
    <3>. QED
      BY <2>0, <3>1, <3>2, <3>3
         DEF Sound, StepsDone, PastPlan, Rested, HeldOn, Holds, TaskIs, HasTask, Early
  <2>4. CASE /\ Execute(s, c) /\ stream[s].step # 3 /\ UNCHANGED <<tasks, grant>>
             /\ ~(At(s, "tool_done") /\ stream[s].result # "succeeded")
    <3>1. /\ stream[s].step + 1 \in 1..3 /\ c \in Calls
          /\ PlanSlots[stream[s].step + 1] \in Slots
      BY <1>0, <2>0, <2>4 DEF Calls, Slots, PlanSlots
    <3>2. \A i \in 1..stream[s].step : call'[<<stream[s].task, PlanSlots[i]>>] = "succeeded"
      <4>1. CASE At(s, "planned")
        <5>1. stream[s].step = 0
          BY <4>1 DEF Sound, StepsDone, Early
        <5>. QED
          BY <5>1
      <4>2. CASE At(s, "tool_done")
        <5>1. /\ CallOf(s) \in Calls /\ stream[s].step \in 1..3
              /\ \A i \in 1..(stream[s].step - 1) :
                     call'[<<stream[s].task, PlanSlots[i]>>] = "succeeded"
          BY <4>2, PlanOf DEF Sound
        <5>2. call[CallOf(s)] = "succeeded"
          BY <2>4, <4>2 DEF Sound, StepsDone
        <5>3. call'[<<stream[s].task, PlanSlots[stream[s].step]>>] = "succeeded"
          BY <5>1, <5>2 DEF Remembers, CallOf
        <5>. QED
          BY <5>1, <5>3
      <4>. QED
        BY <2>0, <4>1, <4>2
    <3>3. CASE Fails(s)
      BY <3>3, SoundFails
    <3>4. CASE /\ stream' = [stream EXCEPT ![s].at = "tool_done", ![s].step = @ + 1,
                                            ![s].result = call[c]]
               /\ UNCHANGED execution
      <4>1. /\ stream'[s].at = "tool_done" /\ stream'[s].task = stream[s].task
            /\ stream'[s].local = stream[s].local /\ stream'[s].step = stream[s].step + 1
            /\ stream'[s].result = call[c]
        BY <1>0, <3>4 DEF StreamRow
      <4>2. CallOf(s)' = c /\ call' = call
        BY <3>4, <4>1 DEF CallOf
      <4>3. StepsDone(s)'
        BY <1>0, <2>0, <3>1, <3>2, <4>1, <4>2 DEF StepsDone, Planned, Early
      <4>4. PastPlan(s)' /\ Rested(s)' /\ HeldOn(s)
        BY <2>0, <2>4, <4>1 DEF Sound, PastPlan, Rested, HeldOn, Holds, TaskIs, HasTask
      <4>. QED
        BY <4>3, <4>4 DEF Sound
    <3>5. CASE stream' = [stream EXCEPT ![s].at = "tool", ![s].step = @ + 1]
      <4>1. /\ stream'[s].at = "tool" /\ stream'[s].task = stream[s].task
            /\ stream'[s].local = stream[s].local /\ stream'[s].step = stream[s].step + 1
        BY <1>0, <3>5 DEF StreamRow
      <4>3. StepsDone(s)'
        BY <1>0, <2>0, <3>1, <3>2, <4>1 DEF StepsDone, Planned, Early
      <4>4. PastPlan(s)' /\ Rested(s)' /\ HeldOn(s)
        BY <2>0, <2>4, <4>1 DEF Sound, PastPlan, Rested, HeldOn, Holds, TaskIs, HasTask
      <4>. QED
        BY <4>3, <4>4 DEF Sound
    <3>. QED
      BY <2>4, <3>3, <3>4, <3>5 DEF Execute
  <2>. HIDE DEF c
  <2>5. \/ Fails(s)
        \/ stream[s].local = "succeeded" /\ Goes(s, "task_done")
        \/ /\ TaskIs(stream[s].task, "running") /\ EndTask(stream[s].task, "succeeded")
           /\ Local(s, "succeeded", "task_done")
        \/ /\ Execute(s, c) /\ stream[s].step # 3 /\ UNCHANGED <<tasks, grant>>
           /\ ~(At(s, "tool_done") /\ stream[s].result # "succeeded")
    BY <1>8 DEF NextSlot, Complete, PlanSlots, c
  <2>. QED
    BY <2>1, <2>2, <2>3, <2>4, <2>5
<1>9. CASE ToolFinished(s)
  <2>1. CASE Goes(s, "cancelling")
    BY <2>1, GoesFacts, SoundMoves DEF Early
  <2>2. CASE stream' = [stream EXCEPT ![s].at = "tool_done", ![s].result = call'[CallOf(s)]]
    <3>1. /\ stream'[s].at = "tool_done" /\ stream'[s].task = stream[s].task
          /\ stream'[s].local = stream[s].local /\ stream'[s].step = stream[s].step
          /\ stream'[s].result = call'[CallOf(s)]
      BY <1>0, <2>2 DEF StreamRow
    <3>2. CallOf(s)' = CallOf(s)
      BY <3>1 DEF CallOf
    <3>3. /\ stream[s].task \in Tasks /\ stream[s].step # 0
          /\ \A i \in 1..(stream[s].step - 1) :
                 call'[<<stream[s].task, PlanSlots[i]>>] = "succeeded"
      BY <1>9, PlanOf DEF ToolFinished, Sound
    <3>4. StepsDone(s)'
      BY <3>1, <3>2, <3>3 DEF StepsDone, Planned, Early, Tasks
    <3>5. PastPlan(s)' /\ Rested(s)' /\ HeldOn(s)
      BY <1>9, <3>1, <3>3 DEF ToolFinished, Finish, Sound, PastPlan, Rested, HeldOn, Holds, TaskIs,
                              HasTask, Tasks
    <3>. QED
      BY <3>4, <3>5 DEF Sound
  <2>. QED
    BY <1>9, <2>1, <2>2 DEF ToolFinished
<1>10. CASE ToolEscapes(s)
  BY <1>10, SoundFails DEF ToolEscapes
<1>11. CASE CreateVersion(s)
  <2>1. CASE Fails(s)
    BY <2>1, SoundFails
  <2>2. CASE stream' = [stream EXCEPT ![s].at = "versioned", ![s].version = Len(versions')]
    <3>1. /\ stream'[s].at = "versioned" /\ stream'[s].task = stream[s].task
          /\ stream'[s].local = stream[s].local /\ stream'[s].step = stream[s].step
      BY <1>0, <2>2 DEF StreamRow
    <3>. QED
      BY <1>11, <3>1, SoundMoves DEF CreateVersion, Sound, PastPlan, Early
  <2>. QED
    BY <1>11, <2>1, <2>2 DEF CreateVersion
<1>12. CASE Submit(s)
  <2>0. stream[s].local = "succeeded" /\ stream[s].task # 0
    BY <1>0, <1>12 DEF Submit, Sound, PastPlan, RowOK, Working
  <2>1. CASE Fails(s)
    BY <2>1, SoundFails
  <2>2. CASE stream' = [stream EXCEPT ![s] = Off]
    BY <2>0, <2>2, SoundEnds DEF Holds
  <2>3. ASSUME NEW st, stream' = [stream EXCEPT ![s].at = "moving", ![s].st = st]
        PROVE  Sound(s)' /\ HeldOn(s)
    <3>1. /\ stream'[s].at = "moving" /\ stream'[s].task = stream[s].task
          /\ stream'[s].local = stream[s].local /\ stream'[s].step = stream[s].step
      BY <1>0, <2>3 DEF StreamRow
    <3>. QED
      BY <2>0, <3>1, SoundMoves DEF Early
  <2>. QED
    BY <1>12, <2>1, <2>2, <2>3 DEF Submit, EvaluateGate
<1>13. CASE FailTask(s) \/ CancelOwnTask(s)
  <2>1. \/ UNCHANGED tasks /\ ~TaskIs(stream[s].task, "running")
        \/ /\ TaskIs(stream[s].task, "running")
           /\ \E status \in {"failed", "cancelled"} : SetTask(stream[s].task, status)
    BY <1>13 DEF FailTask, CancelOwnTask, EndTask
  <2>2. ToolsTypeOK /\ {"failed", "cancelled"} \subseteq TaskStatuses
    BY DEF TypeInv, TypeOK, TaskStatuses
  <2>3. DOMAIN tasks' = DOMAIN tasks /\ ~ \E t \in DOMAIN tasks : Holds(s, t) /\ tasks'[t].status = "running"
    BY <2>1, <2>2, SetTaskFacts DEF TaskIs, HasTask, Holds
  <2>4. stream' = [stream EXCEPT ![s] = Off]
    BY <1>13 DEF FailTask, CancelOwnTask
  <2>. QED
    BY <2>3, <2>4, SoundEnds
<1>14. CASE Dropped(s)
  <2>1. \A t \in DOMAIN tasks' : Holds(s, t) => t \in adrift'
    BY <1>0, <1>14 DEF Dropped, Holds
  <2>. QED
    BY <1>14, <2>1, SoundEnds DEF Dropped
<1>15. CASE Cancelled(s)
  <2>1. CASE UNCHANGED stream
    BY <2>1, SoundStays
  <2>2. CASE Goes(s, "cancelling")
    BY <2>2, GoesFacts, SoundMoves DEF Early
  <2>3. CASE stream[s].local # "running" /\ stream' = [stream EXCEPT ![s] = Off]
    BY <2>3, SoundEnds DEF Holds
  <2>. QED
    BY <1>15, <2>1, <2>2, <2>3 DEF Cancelled, Goes
<1>16. CASE CancelledStarting(s)
  <2>1. \A t \in DOMAIN tasks' : Holds(s, t) => t \in adrift'
    BY <1>0, <1>16 DEF CancelledStarting, Holds
  <2>. QED
    BY <1>16, <2>1, SoundEnds DEF CancelledStarting
<1>. QED
  BY <1>1, <1>2, <1>3, <1>4, <1>5, <1>6, <1>7, <1>8, <1>9, <1>10, <1>11, <1>12, <1>13, <1>14, <1>15,
     <1>16 DEF StreamStep, StreamAct

(* A step moves one stream, or none, or the process dies with all of them. *)
LEMMA StreamsSound ==
    ASSUME TypeInv, DeliveryInv, [Next]_vars, NEW s \in Streams
    PROVE  Sound(s)' /\ HeldOn(s)
<1>0. Remembers /\ Sound(s) /\ stream \in [Streams -> StreamRow]
  BY StepRemembers DEF DeliveryInv, TypeInv, TypeOK
<1>1. ASSUME NEW q \in Streams, StreamAct(q)
      PROVE  Sound(s)' /\ HeldOn(s)
  <2>1. CASE q = s
    BY <1>0, <1>1, <2>1, OwnStep
  <2>2. CASE q # s
    <3>1. stream' = stream \/ \E v : stream' = [stream EXCEPT ![q] = v]
      <4>1. CASE \/ Prepare(q) \/ Move(q) \/ Enqueue(q) \/ StartTask(q) \/ CreateRun(q)
                 \/ StreamRun(q) \/ RunEnds(q) \/ CheckPlan(q)
        BY <4>1 DEF Prepare, ReadsFor, Move, Enqueue, StartTask, CreateRun, StreamRun, RunEnds,
                    CheckPlan, Fails, Goes, Local
      <4>2. CASE NextSlot(q)
        BY <4>2, ZenonT(40) DEF NextSlot, Execute, Complete, Fails, Goes, Local
      <4>3. CASE \/ ToolFinished(q) \/ ToolEscapes(q) \/ CreateVersion(q) \/ Submit(q)
                 \/ FailTask(q) \/ CancelOwnTask(q)
        BY <4>3 DEF ToolFinished, ToolEscapes, CreateVersion, Submit, EvaluateGate, FailTask,
                    CancelOwnTask, Fails, Goes
      <4>4. CASE \/ Dropped(q) \/ Cancelled(q) \/ CancelledStarting(q)
                 \/ \E k \in Keys : Open(q, k)
        BY <4>4 DEF Dropped, Cancelled, CancelledStarting, Open, Goes
      <4>. QED
        BY <1>1, <4>1, <4>2, <4>3, <4>4 DEF StreamStep, StreamAct
    <3>2. stream'[s] = stream[s]
      BY <1>0, <2>2, <3>1
    <3>. QED
      BY <1>0, <3>2, SoundStays
  <2>. QED
    BY <2>1, <2>2
<1>2. CASE UNCHANGED stream
  BY <1>0, <1>2, SoundStays
<1>3. CASE Restart
  <2>1. stream'[s] = Off /\ adrift' = adrift \cup {t \in Tasks : TaskIs(t, "running")}
    BY <1>3 DEF Restart
  <2>2. Sound(s)'
    BY <2>1 DEF Sound, StepsDone, PastPlan, Rested, Off
  <2>3. ASSUME NEW t \in DOMAIN tasks', tasks'[t].status = "running" PROVE t \in adrift'
    <3>1. UNCHANGED tasks \/ TasksCancelled({"running"})
      BY <1>3 DEF Restart
    <3>2. ToolsTypeOK /\ DOMAIN tasks \subseteq Tasks
      BY TaskFacts DEF TypeInv, TypeOK
    <3>3. t \in DOMAIN tasks /\ tasks[t].status = "running"
      BY <2>3, <3>1, <3>2, TasksCancelledFacts
    <3>. QED
      BY <2>1, <3>2, <3>3 DEF TaskIs, HasTask
  <2>. QED
    BY <2>2, <2>3 DEF HeldOn
<1>4. UNCHANGED stream \/ Restart \/ \E q \in Streams : StreamAct(q)
  BY DEF Next, StreamAct, ToolWorks, UserCancelsCall, UserCancelsTask, AsksGrant, DecidesGrant, UsesGrant,
         ExtraEnds, UserCancelsRun, ControlReads, ControlWrites, DecidesGate, Recover, vars
<1>. QED
  BY <1>1, <1>2, <1>3, <1>4

(* What passes the gate is a succeeded task. *)
LEMMA DeliveredStep ==
    ASSUME TypeInv, DeliveryInv, [Next]_vars, NEW t \in delivered'
    PROVE  t \in delivered \/ TaskIs(t, "succeeded")
<1>1. ASSUME NEW s \in Streams, Submit(s), ~UNCHANGED delivered
      PROVE  delivered' = delivered \cup {stream[s].task} /\ TaskIs(stream[s].task, "succeeded")
  <2>1. delivered' = delivered \cup {stream[s].task}
    BY <1>1 DEF Submit, EvaluateGate
  <2>2. stream[s].local = "succeeded"
    BY <1>1 DEF Submit, DeliveryInv, Sound, PastPlan
  <2>. QED
    BY <2>1, <2>2 DEF DeliveryInv, Sound, PastPlan
<1>2. ASSUME NEW s \in Streams, StreamAct(s)
      PROVE  UNCHANGED delivered \/ Submit(s)
  BY <1>2 DEF StreamStep, StreamAct, Prepare, ReadsFor, Move, Enqueue, StartTask, CreateRun, StreamRun, RunEnds,
              CheckPlan, NextSlot, ToolFinished, ToolEscapes, CreateVersion, FailTask,
              CancelOwnTask, Dropped, Cancelled, CancelledStarting, Open
<1>3. UNCHANGED delivered \/ \E s \in Streams : Submit(s)
  <2>1. UNCHANGED delivered \/ \E s \in Streams : StreamAct(s)
    BY DEF Next, StreamAct, ToolWorks, UserCancelsCall, UserCancelsTask, AsksGrant, DecidesGrant, UsesGrant,
           ExtraEnds, UserCancelsRun, ControlReads, ControlWrites, DecidesGate, Recover, Restart, vars
  <2>. QED
    BY <1>2, <2>1
<1>. QED
  BY <1>1, <1>3

LEMMA DeliveryStep ==
    ASSUME TypeInv, DeliveryInv, [Next]_vars
    PROVE  DeliveryInv'
<1>0. Remembers /\ TasksMove
  BY StepRemembers, TaskSteps
<1>1. \A s \in Streams : Sound(s)'
  BY StreamsSound
<1>2. ASSUME NEW t \in DOMAIN tasks', tasks'[t].status = "succeeded" PROVE Planned(t, 3)'
  <2>1. CASE t \in DOMAIN tasks /\ tasks[t].status = "succeeded"
    <3>1. t \in Tasks /\ Planned(t, 3)
      BY <2>1, TaskFacts DEF DeliveryInv, TypeInv, TypeOK
    <3>. QED
      BY <1>0, <3>1, PlannedKept DEF Planned
  <2>2. ASSUME NEW s \in Streams, stream[s].task = t, Completes(s) PROVE Planned(t, 3)'
    <3>1. At(s, "tool_done") /\ stream[s].result = "succeeded" /\ stream[s].step = 3
      BY <2>2 DEF Completes, DeliveryInv, Sound, StepsDone, Early
    <3>2. CallOf(s) \in Calls /\ \A i \in 1..2 : call'[<<t, PlanSlots[i]>>] = "succeeded"
      BY <1>0, <2>2, <3>1, PlanOf DEF DeliveryInv, Sound
    <3>3. call'[<<t, PlanSlots[3]>>] = "succeeded"
      BY <1>0, <2>2, <3>1, <3>2 DEF DeliveryInv, Sound, StepsDone, CallOf, Remembers
    <3>. QED
      BY <3>2, <3>3 DEF Planned
  <2>3. TaskMoves(t)
    BY <1>0 DEF TasksMove
  <2>. QED
    BY <1>2, <2>1, <2>2, <2>3 DEF TaskMoves
<1>3. ASSUME NEW t \in delivered' PROVE TaskIs(t, "succeeded")'
  <2>1. TaskIs(t, "succeeded")
    BY DeliveredStep DEF DeliveryInv
  <2>. QED
    BY <1>0, <2>1 DEF TaskIs, HasTask, Remembers
<1>. QED
  BY <1>1, <1>2, <1>3 DEF DeliveryInv

LEMMA DeliveryInductive == Spec => []DeliveryInv
<1>1. Init => DeliveryInv
  <2>. SUFFICES ASSUME Init PROVE DeliveryInv
    OBVIOUS
  <2>1. \A s \in Streams : Sound(s)
    BY DEF Init, Sound, StepsDone, PastPlan, Rested, Off
  <2>2. DOMAIN tasks = {} /\ delivered = {}
    BY DEF Init, ToolsInit
  <2>. QED
    BY <2>1, <2>2 DEF DeliveryInv
<1>2. TypeInv /\ DeliveryInv /\ [Next]_vars => DeliveryInv'
  BY DeliveryStep
<1>. QED
  BY <1>1, <1>2, TypeInductive, PTL DEF Spec

(* What passed the gate is a succeeded task all of whose planned calls       *)
(* succeeded, each having worked exactly once.                               *)
THEOREM DeliveryBackedCorrect == Spec => []DeliveryBacked
<1>1. TypeInv /\ CallInv /\ DeliveryInv => DeliveryBacked
  <2>. SUFFICES ASSUME TypeInv, CallInv, DeliveryInv, NEW t \in delivered, NEW slot \in Slots \ {"extra"}
                PROVE  /\ TaskIs(t, "succeeded")
                       /\ call[<<t, slot>>] = "succeeded" /\ ran[<<t, slot>>] = 1
    BY DEF DeliveryBacked, DeliveryInv
  <2>1. TaskIs(t, "succeeded") /\ t \in Tasks /\ Planned(t, 3)
    BY TaskFacts DEF DeliveryInv, TaskIs, HasTask, TypeInv, TypeOK
  <2>2. \E i \in 1..3 : slot = PlanSlots[i]
    BY DEF Slots, PlanSlots
  <2>3. call[<<t, slot>>] = "succeeded" /\ <<t, slot>> \in Calls
    BY <2>1, <2>2 DEF Planned, Calls
  <2>. QED
    BY <2>1, <2>3 DEF CallInv, CallLife
<1>. QED
  BY <1>1, TypeInductive, CallInductive, DeliveryInductive, PTL

LEMMA LostStaysLost ==
    ASSUME [Next]_vars
    PROVE  adrift \subseteq adrift'
<1>1. ASSUME NEW s \in Streams, StreamStep(s) PROVE UNCHANGED adrift
  BY <1>1 DEF StreamStep, Prepare, Move, Enqueue, StartTask, CreateRun, StreamRun, RunEnds, CheckPlan,
              NextSlot, ToolFinished, ToolEscapes, CreateVersion, Submit, FailTask, CancelOwnTask
<1>2. ASSUME NEW s \in Streams,
             Dropped(s) \/ Cancelled(s) \/ CancelledStarting(s) \/ \E k \in Keys : Open(s, k)
      PROVE  adrift \subseteq adrift'
  BY <1>2 DEF Dropped, Cancelled, CancelledStarting, Open
<1>3. UNCHANGED adrift \/ Restart \/ \E s \in Streams : StreamAct(s)
  BY DEF Next, StreamAct, ToolWorks, UserCancelsCall, UserCancelsTask, AsksGrant, DecidesGrant, UsesGrant,
         ExtraEnds, UserCancelsRun, ControlReads, ControlWrites, DecidesGate, Recover, vars
<1>. QED
  BY <1>1, <1>2, <1>3 DEF Restart, StreamAct

(* A task that runs has a stream that is going to end it, unless its stream  *)
(* was dropped, cancelled while the task was started, or lost with the       *)
(* process: no failure, no other cancellation and no command forgets a task. *)
THEOREM TaskHeldCorrect == Spec => []TaskHeld
<1>1. Init => TaskHeld
  BY DEF Init, ToolsInit, TaskHeld
<1>2. TypeInv /\ DeliveryInv /\ TaskHeld /\ [Next]_vars => TaskHeld'
  <2>. SUFFICES ASSUME TypeInv, DeliveryInv, TaskHeld, [Next]_vars,
                       NEW t \in DOMAIN tasks', tasks'[t].status = "running", t \notin adrift'
                PROVE  \E s \in Streams : Holds(s, t)'
    BY DEF TaskHeld, Holds
  <2>1. CASE t \in DOMAIN tasks /\ tasks[t].status = "running"
    <3>1. adrift \subseteq adrift'
      BY LostStaysLost
    <3>2. PICK s \in Streams : Holds(s, t)
      BY <2>1, <3>1 DEF TaskHeld, Holds
    <3>. QED
      BY <3>2, StreamsSound DEF HeldOn
  <2>2. TaskMoves(t)
    BY TaskSteps DEF TasksMove
  <2>. QED
    BY <2>1, <2>2 DEF TaskMoves, TaskIs, Holds
<1>. QED
  BY <1>1, <1>2, TypeInductive, DeliveryInductive, PTL DEF Spec

=============================================================================
