------------------------ MODULE WorkerSupervisor_proofs ------------------------
(***************************************************************************)
(* Proofs about the supervisor of the workers, for any number of projects, *)
(* workers, requests and faults.                                           *)
(***************************************************************************)
EXTENDS WorkerSupervisor, SequenceTheorems, TLAPS

USE DEF registry, wires, calls, watchdog, lifecycle, Running

-----------------------------------------------------------------------------
(* What the steps are made of keeps the types. *)
LEMMA ExitsType ==
    ASSUME TypeOK, NEW h \in Handles, Exits(h)
    PROVE  /\ process' \in [Handles -> {"none", "running", "exited"}]
           /\ stdin' \in [Handles -> Seq(Message)] /\ lastIn' \in [Handles -> Nat]
<1>1. <<>> \in Seq(Message)
  BY EmptySeq
<1>. QED
  BY <1>1 DEF TypeOK, Exits

LEMMA WriteType ==
    ASSUME TypeOK, NEW h \in Handles \cup {None}, NEW c \in Requests \cup {Shutdown}, Write(h, c)
    PROVE  stdin' \in [Handles -> Seq(Message)]
<1>. SUFFICES ASSUME h \in Handles PROVE stdin' \in [Handles -> Seq(Message)]
  BY DEF Write, TypeOK
<1>0. outSeq[h] + 1 \in Nat /\ stdin[h] \in Seq(Message)
  BY DEF TypeOK
<1>1. [call |-> c, seq |-> outSeq[h] + 1] \in Message
  BY <1>0 DEF Message
<1>2. Append(stdin[h], [call |-> c, seq |-> outSeq[h] + 1]) \in Seq(Message)
  BY <1>0, <1>1, AppendProperties
<1>. QED
  BY <1>2 DEF Write, TypeOK

LEMMA FailPendingType ==
    ASSUME TypeOK, NEW h \in Handles, FailPending(h)
    PROVE  /\ future' \in [Requests -> {"open", "answered", "failed"}]
           /\ pending' \in [Handles -> SUBSET (Requests \cup {Shutdown})]
BY DEF TypeOK, FailPending

LEMMA EnsureStopType ==
    ASSUME TypeOK, NEW h \in Handles, NEW graceful \in BOOLEAN, EnsureStop(h, graceful)
    PROVE  /\ future' \in [Requests -> {"open", "answered", "failed"}]
           /\ pending' \in [Handles -> SUBSET (Requests \cup {Shutdown})]
           /\ stop' \in [Handles -> StopStates]
BY FailPendingType DEF TypeOK, EnsureStop, StopStates

LEMMA FaultType ==
    ASSUME TypeOK, Fault
    PROVE  faults' \in 0..MaxFaults
BY SupervisorAssumption DEF TypeOK, Fault

LEMMA TailType ==
    ASSUME NEW S, NEW s \in Seq(S), s # <<>>
    PROVE  Head(s) \in S /\ Tail(s) \in Seq(S)
BY HeadTailProperties

(* A request that left its caller has a worker. *)
Targeted == \A r \in Requests : call[r] # "idle" => target[r] \in Handles
TypeInv == TypeOK /\ Targeted

(* The types are inductive together with the target of every request: the    *)
(* write lock, the pending entries and the early removal are all found        *)
(* through it.                                                               *)
LEMMA TypeInductive == Spec => []TypeInv
<1>1. Init => TypeInv
  <2>. SUFFICES ASSUME Init PROVE TypeInv
    OBVIOUS
  <2>1. stdin \in [Handles -> Seq(Message)] /\ stdout \in [Handles -> Seq(Reply)]
    BY EmptySeq DEF Init
  <2>2. stop \in [Handles -> StopStates] /\ call \in [Requests -> CallStates]
    BY DEF Init, StopStates, CallStates
  <2>3. 0 \in Nat /\ 0 \in 0..MaxFaults
    BY SupervisorAssumption
  <2>4. /\ projects \in [Projects -> Handles \cup {None}]
        /\ project \in [Handles -> Projects \cup {None}]
        /\ process \in [Handles -> {"none", "running", "exited"}]
        /\ reader \in [Handles -> {"none", "reading", "ended"}]
        /\ outSeq \in [Handles -> Nat] /\ lastIn \in [Handles -> Nat]
    BY <2>3 DEF Init
  <2>5. /\ pending \in [Handles -> SUBSET (Requests \cup {Shutdown})]
        /\ writeLock \in [Handles -> Requests \cup {None}]
        /\ target \in [Requests -> Handles \cup {None}]
        /\ future \in [Requests -> {"open", "answered", "failed"}]
    BY DEF Init
  <2>. QED
    BY <2>1, <2>2, <2>3, <2>4, <2>5 DEF Init, TypeOK, Targeted, TypeInv
<1>2. TypeInv /\ [Next]_vars => TypeOK'
  <2>. SUFFICES ASSUME TypeOK, Targeted, [Next]_vars PROVE TypeOK'
    BY DEF TypeInv
  <2>1. ASSUME NEW p \in Projects, NEW h \in Handles, BeginStart(p, h) PROVE TypeOK'
    BY <2>1 DEF BeginStart, TypeOK
  <2>2. ASSUME NEW h \in Handles, FinishStart(h) PROVE TypeOK'
    BY <2>2 DEF FinishStart, TypeOK
  <2>3. ASSUME NEW h \in Handles, FailStart(h) PROVE TypeOK'
    BY <2>3, ExitsType, FaultType DEF FailStart, TypeOK
  <2>4. ASSUME NEW p \in Projects, StopProject(p) PROVE TypeOK'
    <3>1. projects[p] \in Handles
      BY <2>4 DEF StopProject, TypeOK
    <3>. QED
      BY <2>4, <3>1, EnsureStopType DEF StopProject, TypeOK
  <2>5. CASE StopAll
    <3>1. closeJoin' \subseteq Handles
      BY <2>5 DEF StopAll, Remaining, TypeOK
    <3>2. /\ stop' \in [Handles -> StopStates]
          /\ pending' \in [Handles -> SUBSET (Requests \cup {Shutdown})]
          /\ future' \in [Requests -> {"open", "answered", "failed"}]
      BY <2>5 DEF StopAll, TypeOK, StopStates
    <3>. QED
      BY <2>5, <3>1, <3>2 DEF StopAll, TypeOK
  <2>6. CASE StopAllReturns
    BY <2>6 DEF StopAllReturns, TypeOK
  <2>7. ASSUME NEW h \in Handles, StopTask(h) PROVE TypeOK'
    <3>1. CASE StopAsks(h)
      BY <3>1, WriteType, SMTT(30) DEF StopAsks, TypeOK, StopStates
    <3>2. CASE StopClosesStdin(h)
      BY <3>2 DEF StopClosesStdin, TypeOK, StopStates
    <3>3. CASE StopKills(h)
      BY <3>3, ExitsType, FaultType DEF StopKills, TypeOK, StopStates
    <3>4. CASE StopDrains(h)
      <4>1. stdout' \in [Handles -> Seq(Reply)]
        BY <3>4, EmptySeq DEF StopDrains, TypeOK
      <4>. QED
        BY <3>4, <4>1, FailPendingType DEF StopDrains, TypeOK, StopStates
    <3>5. CASE StopUnregisters(h)
      BY <3>5 DEF StopUnregisters, TypeOK, StopStates
    <3>. QED
      BY <2>7, <3>1, <3>2, <3>3, <3>4, <3>5 DEF StopTask
  <2>8. ASSUME NEW h \in Handles, Unlist(h) PROVE TypeOK'
    BY <2>8 DEF Unlist, TypeOK
  <2>9. ASSUME NEW h \in Handles, Reader(h) PROVE TypeOK'
    <3>1. CASE ReadReply(h)
      <4>1. stdout' \in [Handles -> Seq(Reply)]
        BY <3>1, TailType DEF ReadReply, TypeOK
      <4>2. /\ pending' \in [Handles -> SUBSET (Requests \cup {Shutdown})]
            /\ future' \in [Requests -> {"open", "answered", "failed"}]
        BY <3>1 DEF ReadReply, TypeOK
      <4>. QED
        BY <3>1, <4>1, <4>2 DEF ReadReply, TypeOK
    <3>2. CASE ReaderFails(h)
      BY <3>2, FailPendingType DEF ReaderFails, TypeOK, StopStates
    <3>3. CASE ReaderEnds(h)
      BY <3>3 DEF ReaderEnds, TypeOK
    <3>4. CASE Heartbeat(h)
      BY <3>4 DEF Heartbeat, TypeOK
    <3>. QED
      BY <2>9, <3>1, <3>2, <3>3, <3>4 DEF Reader
  <2>10. ASSUME NEW h \in Handles, Worker(h) PROVE TypeOK'
    <3>1. CASE Serve(h)
      <4>1. Head(stdin[h]) \in Message /\ Tail(stdin[h]) \in Seq(Message)
        BY <3>1, TailType DEF Serve, TypeOK
      <4>2. Head(stdin[h]).call \in Requests \cup {Shutdown} /\ Head(stdin[h]).seq \in Nat
        BY <4>1 DEF Message
      <4>3. stdout' \in [Handles -> Seq(Reply)]
        <5>1. Append(stdout[h], Head(stdin[h]).call) \in Seq(Reply)
          BY <4>2, AppendProperties DEF TypeOK, Reply
        <5>. QED
          BY <3>1, <5>1, ZenonT(40) DEF Serve, TypeOK
      <4>4. /\ process' \in [Handles -> {"none", "running", "exited"}]
            /\ stdin' \in [Handles -> Seq(Message)] /\ lastIn' \in [Handles -> Nat]
        <5>1. CASE Exits(h)
          BY <5>1, ExitsType
        <5>2. CASE ~Exits(h)
          BY <3>1, <4>1, <4>2, <5>2, ZenonT(40) DEF Serve, TypeOK
        <5>. QED
          BY <5>1, <5>2
      <4>5. served' \subseteq Requests
        BY <3>1, <4>2 DEF Serve, TypeOK
      <4>. QED
        BY <3>1, <4>3, <4>4, <4>5 DEF Serve, TypeOK
    <3>2. CASE WorkerLeaves(h)
      BY <3>2, ExitsType DEF WorkerLeaves, TypeOK
    <3>. QED
      BY <2>10, <3>1, <3>2 DEF Worker
  <2>11. ASSUME NEW h \in Handles, Crash(h) PROVE TypeOK'
    BY <2>11, ExitsType, FaultType DEF Crash, TypeOK
  <2>12. ASSUME NEW h \in Handles, Garble(h) PROVE TypeOK'
    <3>1. "garbage" \in Reply
      BY DEF Reply
    <3>2. stdout' \in [Handles -> Seq(Reply)]
      BY <2>12, <3>1, AppendProperties DEF Garble, TypeOK
    <3>. QED
      BY <2>12, <3>2, FaultType DEF Garble, TypeOK
  <2>13. ASSUME NEW h \in Handles, HeartbeatOverdue(h) PROVE TypeOK'
    BY <2>13 DEF HeartbeatOverdue, TypeOK
  <2>14. ASSUME NEW r \in Requests, Caller(r) PROVE TypeOK'
    <3>1. CASE Send(r)
      <4>. target[r] \in Handles
        BY <3>1 DEF Send, Targeted
      <4>1. outSeq' \in [Handles -> Nat]
        BY <3>1 DEF Send, TypeOK
      <4>2. CASE call' = [call EXCEPT ![r] = "invalid"] /\ UNCHANGED <<pending, stdin, writeLock>>
        BY <3>1, <4>1, <4>2 DEF Send, TypeOK, CallStates
      <4>3. CASE /\ call' = [call EXCEPT ![r] = "draining"]
                 /\ pending' = [pending EXCEPT ![target[r]] = @ \cup {r}]
                 /\ Write(target[r], r)
                 /\ writeLock' = [writeLock EXCEPT ![target[r]] = r]
        BY <3>1, <4>1, <4>3, WriteType, SMTT(30) DEF Send, TypeOK, CallStates
      <4>. QED
        BY <3>1, <4>2, <4>3 DEF Send
    <3>2. CASE SendRefused(r)
      BY <3>2 DEF SendRefused, TypeOK, CallStates
    <3>3. CASE Drained(r)
      BY <3>3 DEF Drained, Unlock, TypeOK, CallStates
    <3>4. CASE WriteFails(r)
      <4>. target[r] \in Handles
        BY <3>4 DEF WriteFails, Targeted
      <4>1. call' \in [Requests -> CallStates]
        BY <3>4 DEF WriteFails, TypeOK, CallStates
      <4>2. stop' \in [Handles -> StopStates]
        <5>1. stop \in [Handles -> StopStates] /\ "killing" \in StopStates
          BY DEF TypeOK, StopStates
        <5>. QED
          BY <3>4, <5>1 DEF WriteFails
      <4>3. writeLock' \in [Handles -> Requests \cup {None}]
        BY <3>4 DEF WriteFails, Unlock, TypeOK
      <4>4. pending' \in [Handles -> SUBSET (Requests \cup {Shutdown})]
        <5>1. CASE stop[target[r]] = "none"
          BY <3>4, <5>1 DEF WriteFails, TypeOK
        <5>2. CASE stop[target[r]] # "none"
          <6>1. pending' = [pending EXCEPT ![target[r]] = @ \ {r}]
            BY <3>4, <5>2 DEF WriteFails
          <6>. QED
            BY <6>1 DEF TypeOK
        <5>. QED
          BY <5>1, <5>2
      <4>5. future' \in [Requests -> {"open", "answered", "failed"}]
        <5>1. CASE stop[target[r]] = "none"
          BY <3>4, <5>1 DEF WriteFails, TypeOK
        <5>2. CASE stop[target[r]] # "none"
          BY <3>4, <5>2 DEF WriteFails, TypeOK
        <5>. QED
          BY <5>1, <5>2
      <4>6. unlisting' \subseteq Handles
        BY <3>4 DEF WriteFails, TypeOK
      <4>. QED
        BY <3>4, <4>1, <4>2, <4>3, <4>4, <4>5, <4>6 DEF WriteFails, TypeOK
    <3>5. CASE Returns(r)
      BY <3>5 DEF Returns, TypeOK, CallStates
    <3>6. CASE Abandon(r)
      BY <3>6 DEF Abandon, Unlock, TypeOK, CallStates
    <3>. QED
      BY <2>14, <3>1, <3>2, <3>3, <3>4, <3>5, <3>6 DEF Caller
  <2>15. ASSUME NEW r \in Requests, NEW h \in Handles, Ask(r, h) PROVE TypeOK'
    BY <2>15 DEF Ask, TypeOK, CallStates
  <2>16. CASE WatchScan
    BY <2>16 DEF WatchScan, TypeOK
  <2>17. ASSUME NEW h \in Handles, WatchStops(h) PROVE TypeOK'
    BY <2>17, EnsureStopType DEF WatchStops, TypeOK
  <2>18. CASE WatchReturns
    BY <2>18 DEF WatchReturns, TypeOK
  <2>19. CASE UNCHANGED vars
    BY <2>19 DEF vars, TypeOK
  <2>. QED
    BY <2>1, <2>2, <2>3, <2>4, <2>5, <2>6, <2>7, <2>8, <2>9, <2>10, <2>11, <2>12, <2>13,
       <2>14, <2>15, <2>16, <2>17, <2>18, <2>19 DEF Next, Watch
<1>3. TypeInv /\ [Next]_vars => Targeted'
  <2>. SUFFICES ASSUME TypeOK, Targeted, [Next]_vars, NEW r \in Requests, call'[r] # "idle"
                PROVE  target'[r] \in Handles
    BY DEF TypeInv, Targeted
  <2>1. ASSUME NEW s \in Requests, NEW h \in Handles, Ask(s, h)
        PROVE  target'[r] \in Handles
    BY <2>1 DEF Ask, Targeted, TypeOK
  <2>2. ASSUME NEW s \in Requests, call[s] # "idle", UNCHANGED target,
               NEW c, call' = [call EXCEPT ![s] = c]
        PROVE  target'[r] \in Handles
    BY <2>2 DEF Targeted, TypeOK
  <2>3. ASSUME UNCHANGED <<call, target>> PROVE target'[r] \in Handles
    BY <2>3 DEF Targeted
  <2>4. ASSUME NEW s \in Requests, Caller(s) PROVE target'[r] \in Handles
    BY <2>2, <2>3, <2>4 DEF Caller, Send, SendRefused, Drained, WriteFails, Returns, Abandon
  <2>5. ASSUME NEW h \in Handles,
               \/ StopTask(h) \/ Unlist(h) \/ Reader(h) \/ Worker(h)
               \/ FinishStart(h) \/ FailStart(h) \/ Crash(h) \/ Garble(h)
               \/ HeartbeatOverdue(h) \/ WatchStops(h)
        PROVE  UNCHANGED <<call, target>>
    BY <2>5 DEF StopTask, StopAsks, StopClosesStdin, StopKills, StopDrains, StopUnregisters,
                Unlist, Reader, ReadReply, ReaderFails, ReaderEnds, Heartbeat, Worker, Serve,
                WorkerLeaves, FinishStart, FailStart, Crash, Garble, HeartbeatOverdue,
                WatchStops
  <2>6. ASSUME \/ \E p \in Projects : StopProject(p) \/ \E h \in Handles : BeginStart(p, h)
               \/ StopAll \/ StopAllReturns \/ WatchScan \/ WatchReturns \/ UNCHANGED vars
        PROVE  UNCHANGED <<call, target>>
    BY <2>6 DEF StopProject, BeginStart, StopAll, StopAllReturns, WatchScan, WatchReturns, vars
  <2>. QED
    BY <2>1, <2>3, <2>4, <2>5, <2>6 DEF Next, Watch
<1>. QED
  BY <1>1, <1>2, <1>3, PTL DEF Spec, TypeInv

(* Every variable keeps its type; a number on a pipe is never lost or made up *)
(* although writers, readers and stop tasks interleave.                       *)
THEOREM TypeCorrect == Spec => []TypeOK
<1>1. TypeInv => TypeOK
  BY DEF TypeInv
<1>. QED
  BY <1>1, TypeInductive, PTL

-----------------------------------------------------------------------------
(* The registry, the project entries and the handles say the same of every  *)
(* worker.  A handle is known to callers, readers, stop tasks or the watch- *)
(* dog only after its start; once its stop task has killed the process, the *)
(* process has exited for good; and a closed registry holds only handles    *)
(* stop_all waits for.                                                      *)
Known(h) ==
    \/ stop[h] # "none" \/ reader[h] # "none" \/ h \in workers \/ h \in watchTodo
    \/ (\E p \in Projects : projects[p] = h)
    \/ (\E r \in Requests : target[r] = h)

KnownStarted == \A h \in Handles : Known(h) => process[h] # "none" /\ starting # h

OwnProject == \A h \in Handles : process[h] # "none" => project[h] \in Projects

StartHolds ==
    starting # None => /\ process[starting] # "none"
                       /\ projects[project[starting]] = None

KilledExited ==
    \A h \in Handles : stop[h] \in {"draining", "unregister", "done"} => process[h] = "exited"

DoneUnregistered ==
    \A h \in Handles, p \in Projects : stop[h] = "done" => projects[p] # h

ClosedHolds ==
    closing => /\ starting = None
               /\ \A p \in Projects : projects[p] \in closeJoin \cup {None}

RegistryInv ==
    /\ KnownStarted /\ OwnProject /\ StartHolds /\ KilledExited /\ DoneUnregistered
    /\ ProcessOwned /\ ClosedHolds


(* Steps that leave the registry, the project entries and the targets alone: *)
(* workers go, processes exit, stop tasks of known workers advance.          *)
LEMMA GentleStep ==
    ASSUME TypeOK, TypeOK', RegistryInv,
           UNCHANGED <<starting, projects, closing, closeJoin, project, target>>,
           workers' \subseteq workers, watchTodo' \subseteq watchTodo \cup workers,
           \A g \in Handles :
               /\ \/ process'[g] = process[g]
                  \/ process[g] # "none" /\ process'[g] = "exited"
               /\ reader'[g] # "none" => Known(g)
               /\ stop'[g] # "none" => Known(g)
               /\ stop'[g] \in {"draining", "unregister"} => process'[g] = "exited"
               /\ stop'[g] = "done" => stop[g] = "done"
    PROVE  RegistryInv'
<1>1. KnownStarted'
  BY DEF RegistryInv, KnownStarted, Known
<1>2. OwnProject' /\ StartHolds'
  BY DEF RegistryInv, OwnProject, StartHolds, TypeOK
<1>3. KilledExited' /\ DoneUnregistered'
  BY DEF RegistryInv, KilledExited, DoneUnregistered
<1>4. ProcessOwned' /\ ClosedHolds'
  BY DEF RegistryInv, ProcessOwned, ClosedHolds
<1>. QED
  BY <1>1, <1>2, <1>3, <1>4 DEF RegistryInv

LEMMA RegistryInductive == Spec => []RegistryInv
<1>1. Init => RegistryInv
  BY SupervisorAssumption DEF Init, RegistryInv, KnownStarted, Known, OwnProject, StartHolds,
     KilledExited, DoneUnregistered, ProcessOwned, ClosedHolds
<1>2. TypeInv /\ TypeInv' /\ RegistryInv /\ [Next]_vars => RegistryInv'
  <2>. SUFFICES ASSUME TypeOK, TypeOK', Targeted, RegistryInv, [Next]_vars PROVE RegistryInv'
    BY DEF TypeInv
  <2>. USE DEF RegistryInv
  <2>1. ASSUME NEW p \in Projects, NEW h \in Handles, BeginStart(p, h) PROVE RegistryInv'
    <3>0. ~Known(h)
      BY <2>1 DEF BeginStart, KnownStarted
    <3>1. KnownStarted'
      BY <2>1, <3>0 DEF BeginStart, KnownStarted, Known, TypeOK
    <3>2. OwnProject' /\ StartHolds'
      BY <2>1 DEF BeginStart, OwnProject, StartHolds, TypeOK
    <3>3. KilledExited' /\ DoneUnregistered'
      BY <2>1, <3>0 DEF BeginStart, KilledExited, DoneUnregistered, TypeOK
    <3>4. ProcessOwned' /\ ClosedHolds'
      BY <2>1, SupervisorAssumption DEF BeginStart, ProcessOwned, ClosedHolds, TypeOK
    <3>. QED
      BY <3>1, <3>2, <3>3, <3>4
  <2>2. ASSUME NEW h \in Handles, FinishStart(h) PROVE RegistryInv'
    <3>0. /\ process[h] # "none" /\ project[h] \in Projects /\ projects[project[h]] = None
          /\ ~Known(h)
      BY <2>2, SupervisorAssumption DEF FinishStart, StartHolds, OwnProject, KnownStarted
    <3>1. KnownStarted'
      BY <2>2, <3>0, SupervisorAssumption DEF FinishStart, KnownStarted, Known, TypeOK
    <3>2. OwnProject' /\ StartHolds'
      BY <2>2 DEF FinishStart, OwnProject, StartHolds, TypeOK
    <3>3. KilledExited' /\ DoneUnregistered'
      BY <2>2, <3>0 DEF FinishStart, KilledExited, DoneUnregistered, TypeOK, Known
    <3>4. ProcessOwned' /\ ClosedHolds'
      BY <2>2, <3>0, SupervisorAssumption
         DEF FinishStart, ProcessOwned, ClosedHolds, TypeOK, OwnProject
    <3>. QED
      BY <3>1, <3>2, <3>3, <3>4
  <2>3. ASSUME NEW h \in Handles, FailStart(h) PROVE RegistryInv'
    <3>1. KnownStarted'
      BY <2>3, SupervisorAssumption DEF FailStart, Exits, KnownStarted, Known, TypeOK
    <3>2. OwnProject' /\ StartHolds'
      BY <2>3, SupervisorAssumption DEF FailStart, Exits, OwnProject, StartHolds, TypeOK
    <3>3. KilledExited' /\ DoneUnregistered'
      BY <2>3 DEF FailStart, Exits, KilledExited, DoneUnregistered, TypeOK
    <3>4. ProcessOwned' /\ ClosedHolds'
      BY <2>3, SupervisorAssumption DEF FailStart, Exits, ProcessOwned, ClosedHolds, TypeOK
    <3>. QED
      BY <3>1, <3>2, <3>3, <3>4
  <2>4. ASSUME NEW p \in Projects, StopProject(p) PROVE RegistryInv'
    <3>1. projects[p] \in Handles /\ Known(projects[p])
      BY <2>4 DEF StopProject, TypeOK, Known
    <3>. QED
      BY <2>4, <3>1, GentleStep DEF StopProject, EnsureStop, TypeOK, KilledExited, Known
  <2>5. CASE StopAll
    <3>1. \A h \in Remaining : Known(h)
      BY DEF Remaining, Known
    <3>2. KnownStarted'
      BY <2>5, <3>1 DEF StopAll, KnownStarted, Known, TypeOK
    <3>3. OwnProject' /\ StartHolds'
      BY <2>5 DEF StopAll, OwnProject, StartHolds, TypeOK
    <3>4. KilledExited' /\ DoneUnregistered'
      BY <2>5 DEF StopAll, KilledExited, DoneUnregistered, TypeOK
    <3>5. ProcessOwned' /\ ClosedHolds'
      BY <2>5 DEF StopAll, ProcessOwned, ClosedHolds, TypeOK, Remaining
    <3>. QED
      BY <3>2, <3>3, <3>4, <3>5
  <2>6. CASE StopAllReturns
    BY <2>6 DEF StopAllReturns, KnownStarted, Known, OwnProject, StartHolds, KilledExited,
       DoneUnregistered, ProcessOwned, ClosedHolds, TypeOK
  <2>7. ASSUME NEW h \in Handles, StopTask(h) PROVE RegistryInv'
    <3>1. CASE StopAsks(h)
      BY <3>1, GentleStep, SMTT(30) DEF StopAsks, TypeOK, KilledExited, Known
    <3>2. CASE StopClosesStdin(h)
      BY <3>2, GentleStep DEF StopClosesStdin, TypeOK, KilledExited, Known
    <3>3. CASE StopKills(h)
      BY <3>3, GentleStep DEF StopKills, Exits, TypeOK, KilledExited, KnownStarted, Known
    <3>4. CASE StopDrains(h)
      BY <3>4, GentleStep DEF StopDrains, TypeOK, KilledExited, Known
    <3>5. CASE StopUnregisters(h)
      <4>1. KnownStarted'
        BY <3>5, SupervisorAssumption DEF StopUnregisters, KnownStarted, Known, TypeOK
      <4>2. OwnProject' /\ StartHolds'
        BY <3>5 DEF StopUnregisters, OwnProject, StartHolds, TypeOK
      <4>3. KilledExited' /\ DoneUnregistered'
        BY <3>5, SupervisorAssumption
           DEF StopUnregisters, KilledExited, DoneUnregistered, TypeOK
      <4>4. ProcessOwned' /\ ClosedHolds'
        BY <3>5 DEF StopUnregisters, ProcessOwned, ClosedHolds, TypeOK, KilledExited,
           OwnProject
      <4>. QED
        BY <4>1, <4>2, <4>3, <4>4
    <3>. QED
      BY <2>7, <3>1, <3>2, <3>3, <3>4, <3>5 DEF StopTask
  <2>8. ASSUME NEW h \in Handles, Unlist(h) PROVE RegistryInv'
    BY <2>8, GentleStep DEF Unlist, TypeOK, KilledExited, Known
  <2>9. ASSUME NEW h \in Handles, Reader(h) PROVE RegistryInv'
    <3>1. CASE ReadReply(h)
      BY <3>1, GentleStep DEF ReadReply, KilledExited, Known
    <3>2. CASE ReaderFails(h)
      <4>1. /\ stop' = [stop EXCEPT ![h] = IF @ = "none" THEN "killing" ELSE @]
            /\ reader[h] # "none" /\ reader' = [reader EXCEPT ![h] = "ended"]
            /\ UNCHANGED <<starting, workers, projects, closing, closeJoin, project, process,
                           target, watchTodo>>
        BY <3>2 DEF ReaderFails
      <4>. QED
        <5>1. \A g \in Handles : /\ reader'[g] # "none" => reader[g] # "none"
                                /\ stop'[g] # stop[g] => stop'[g] = "killing" /\ reader[g] # "none"
          BY <4>1 DEF TypeOK
        <5>. QED
          BY <4>1, <5>1, GentleStep, SMTT(30) DEF KilledExited, Known
    <3>3. CASE ReaderEnds(h)
      <4>1. /\ reader[h] # "none" /\ reader' = [reader EXCEPT ![h] = "ended"]
            /\ UNCHANGED <<starting, workers, projects, closing, closeJoin, project, process,
                           stop, target, watchTodo>>
        BY <3>3 DEF ReaderEnds
      <4>2. \A g \in Handles : reader'[g] # "none" => reader[g] # "none"
        BY <4>1 DEF TypeOK
      <4>. QED
        BY <4>1, <4>2, GentleStep, SMTT(30) DEF KilledExited, Known
    <3>4. CASE Heartbeat(h)
      BY <3>4, GentleStep DEF Heartbeat, KilledExited, Known
    <3>. QED
      BY <2>9, <3>1, <3>2, <3>3, <3>4 DEF Reader
  <2>10. ASSUME NEW h \in Handles, Worker(h) \/ Crash(h) PROVE RegistryInv'
    <3>1. /\ Running(h) /\ (UNCHANGED process \/ Exits(h))
          /\ UNCHANGED <<starting, workers, projects, closing, closeJoin, project, stop,
                         reader, target, watchTodo>>
      BY <2>10 DEF Worker, Serve, WorkerLeaves, Crash
    <3>2. \A g \in Handles : \/ process'[g] = process[g]
                             \/ process[g] # "none" /\ process'[g] = "exited"
      <4>1. CASE UNCHANGED process
        BY <4>1
      <4>2. CASE Exits(h)
        <5>1. process[h] # "none" /\ process' = [process EXCEPT ![h] = "exited"]
          BY <3>1, <4>2 DEF Exits, Running
        <5>. QED
          BY <5>1 DEF TypeOK
      <4>. QED
        BY <3>1, <4>1, <4>2
    <3>3. \A g \in Handles :
              /\ \/ process'[g] = process[g]
                 \/ process[g] # "none" /\ process'[g] = "exited"
              /\ reader'[g] # "none" => Known(g)
              /\ stop'[g] # "none" => Known(g)
              /\ stop'[g] \in {"draining", "unregister"} => process'[g] = "exited"
              /\ stop'[g] = "done" => stop[g] = "done"
      BY <3>1, <3>2 DEF Known, KilledExited, RegistryInv
    <3>4. /\ UNCHANGED <<starting, projects, closing, closeJoin, project, target>>
          /\ workers' \subseteq workers /\ watchTodo' \subseteq watchTodo \cup workers
      BY <3>1
    <3>. QED
      BY <3>3, <3>4, GentleStep
  <2>11. ASSUME NEW h \in Handles, Garble(h) \/ HeartbeatOverdue(h) PROVE RegistryInv'
    BY <2>11, GentleStep DEF Garble, HeartbeatOverdue, KilledExited, Known
  <2>12. ASSUME NEW r \in Requests, Caller(r) PROVE RegistryInv'
    <3>1. CASE WriteFails(r)
      <4>1. target[r] \in Handles /\ Known(target[r])
        BY <3>1 DEF WriteFails, Targeted, Known
      <4>. QED
        BY <3>1, <4>1, GentleStep, SMTT(60) DEF WriteFails, TypeOK, KilledExited, Known
    <3>2. CASE Send(r) \/ SendRefused(r) \/ Drained(r) \/ Returns(r) \/ Abandon(r)
      BY <3>2, GentleStep
         DEF Send, SendRefused, Drained, Returns, Abandon, KilledExited, Known
    <3>. QED
      BY <2>12, <3>1, <3>2 DEF Caller
  <2>13. ASSUME NEW r \in Requests, NEW h \in Handles, Ask(r, h) PROVE RegistryInv'
    <3>1. KnownStarted'
      BY <2>13 DEF Ask, KnownStarted, Known, TypeOK
    <3>. QED
      BY <2>13, <3>1 DEF Ask, OwnProject, StartHolds, KilledExited, DoneUnregistered,
         ProcessOwned, ClosedHolds
  <2>14. CASE WatchScan
    BY <2>14, GentleStep DEF WatchScan, KilledExited, Known
  <2>15. ASSUME NEW h \in Handles, WatchStops(h) PROVE RegistryInv'
    BY <2>15, GentleStep, SMTT(30) DEF WatchStops, EnsureStop, TypeOK, KilledExited, Known
  <2>16. CASE WatchReturns
    BY <2>16, GentleStep DEF WatchReturns, KilledExited, Known
  <2>17. CASE UNCHANGED vars
    BY <2>17, GentleStep DEF vars, KilledExited, Known
  <2>. QED
    BY <2>1, <2>2, <2>3, <2>4, <2>5, <2>6, <2>7, <2>8, <2>9, <2>10, <2>11, <2>12, <2>13,
       <2>14, <2>15, <2>16, <2>17 DEF Next, Watch
<1>. QED
  BY <1>1, <1>2, TypeInductive, PTL DEF Spec

(* No worker process runs without an owner, whatever starts, stops, crashes *)
(* and early removals interleave: it is being started, or it is the one its *)
(* project names.                                                           *)
THEOREM ProcessOwnedCorrect == Spec => []ProcessOwned
<1>1. RegistryInv => ProcessOwned
  BY DEF RegistryInv
<1>. QED
  BY <1>1, RegistryInductive, PTL

(* When stop_all has returned, no worker process is left.                   *)
THEOREM ClosedMeansStoppedCorrect == Spec => []ClosedMeansStopped
<1>1. RegistryInv => ClosedMeansStopped
  <2>. SUFFICES ASSUME RegistryInv, closing, closeJoin = {}, NEW h \in Handles, Running(h)
                PROVE  FALSE
    BY DEF ClosedMeansStopped
  <2>1. starting = None /\ project[h] \in Projects
    BY DEF RegistryInv, ClosedHolds, OwnProject
  <2>2. projects[project[h]] = h
    BY <2>1, SupervisorAssumption DEF RegistryInv, ProcessOwned
  <2>3. projects[project[h]] = None
    BY <2>1 DEF RegistryInv, ClosedHolds
  <2>. QED
    BY <2>2, <2>3, SupervisorAssumption
<1>. QED
  BY <1>1, RegistryInductive, PTL

-----------------------------------------------------------------------------
(* A request whose future is open is pending at a worker nobody stops yet,  *)
(* from the moment its frame is written; a worker that was listed has a     *)
(* reader, and a reader that ended has left a stop task behind.             *)
PendingKept ==
    \A r \in Requests :
        call[r] \in {"draining", "waiting"} /\ future[r] = "open" =>
            r \in pending[target[r]] /\ stop[target[r]] = "none"

ReaderKept ==
    /\ \A h \in workers : reader[h] # "none"
    /\ \A r \in Requests : call[r] # "idle" => reader[target[r]] # "none"
    /\ \A h \in Handles : reader[h] = "ended" => stop[h] # "none"

CallInv == PendingKept /\ ReaderKept


(* The same for one step: the requests whose futures stay open stay pending. *)
LEMMA PendingStep ==
    ASSUME TypeOK, PendingKept, UNCHANGED target,
           \A r \in Requests :
               /\ call'[r] \in {"draining", "waiting"} => call[r] \in {"draining", "waiting"}
               /\ future'[r] = "open" => future[r] = "open"
               /\ call'[r] \in {"draining", "waiting"} /\ future'[r] = "open"
                   /\ r \in pending[target[r]] /\ stop[target[r]] = "none"
                      => r \in pending'[target[r]] /\ stop'[target[r]] = "none"
    PROVE  PendingKept'
BY DEF PendingKept

LEMMA ReaderStep ==
    ASSUME ReaderKept, workers' \subseteq workers,
           \A r \in Requests : call'[r] # "idle" => call[r] # "idle" /\ target'[r] = target[r],
           \A h \in Handles :
               /\ reader'[h] = "none" => reader[h] = "none"
               /\ reader'[h] = "ended" => reader[h] = "ended" \/ stop'[h] # "none"
               /\ stop'[h] = "none" => stop[h] = "none",
           TypeOK, Targeted
    PROVE  ReaderKept'
BY DEF ReaderKept, TypeOK, Targeted

LEMMA CallInductive == Spec => []CallInv
<1>1. Init => CallInv
  BY DEF Init, CallInv, PendingKept, ReaderKept
<1>2. TypeInv /\ TypeInv' /\ CallInv /\ [Next]_vars => CallInv'
  <2>. SUFFICES ASSUME TypeOK, TypeOK', Targeted, PendingKept, ReaderKept, [Next]_vars
                PROVE  PendingKept' /\ ReaderKept'
    BY DEF TypeInv, CallInv
  <2>0. \A r \in Requests : r # Shutdown
    BY SupervisorAssumption
  <2>1. ASSUME UNCHANGED <<workers, stop, reader, pending, calls>>
        PROVE  PendingKept' /\ ReaderKept'
    BY <2>1 DEF PendingKept, ReaderKept
  <2>2. ASSUME NEW h \in Handles, FinishStart(h) PROVE PendingKept' /\ ReaderKept'
    <3>1. PendingKept'
      BY <2>2 DEF FinishStart, PendingKept
    <3>2. ReaderKept'
      BY <2>2 DEF FinishStart, ReaderKept, TypeOK, Targeted
    <3>. QED
      BY <3>1, <3>2
  <2>3. ASSUME NEW h \in Handles, NEW graceful \in BOOLEAN, EnsureStop(h, graceful),
               UNCHANGED <<workers, reader, call, target>>
        PROVE  PendingKept' /\ ReaderKept'
    <3>1. CASE stop[h] = "none"
      <4>1. PendingKept'
        <5>1. \A r \in Requests : future'[r] = "open" => future[r] = "open" /\ r \notin pending[h]
          BY <2>3, <3>1 DEF EnsureStop, FailPending
        <5>2. \A g \in Handles : g # h => pending'[g] = pending[g] /\ stop'[g] = stop[g]
          BY <2>3, <3>1 DEF EnsureStop, FailPending, TypeOK
        <5>. QED
          BY <2>3, <5>1, <5>2 DEF PendingKept, Targeted
      <4>2. ReaderKept'
        BY <2>3, <3>1, ReaderStep, ZenonT(40) DEF EnsureStop, TypeOK
      <4>. QED
        BY <4>1, <4>2
    <3>2. CASE stop[h] # "none"
      BY <2>1, <2>3, <3>2 DEF EnsureStop
    <3>. QED
      BY <3>1, <3>2
  <2>4. ASSUME NEW p \in Projects, StopProject(p) PROVE PendingKept' /\ ReaderKept'
    <3>1. projects[p] \in Handles
      BY <2>4 DEF StopProject, TypeOK
    <3>. QED
      BY <2>3, <2>4, <3>1 DEF StopProject
  <2>5. CASE StopAll
    <3>1. PendingKept'
      <4>. SUFFICES ASSUME NEW r \in Requests, call[r] \in {"draining", "waiting"},
                           future'[r] = "open"
                    PROVE  r \in pending'[target[r]] /\ stop'[target[r]] = "none"
        BY <2>5 DEF StopAll, PendingKept
      <4>1. future[r] = "open" /\ target[r] \in Handles
        BY <2>5 DEF StopAll, TypeOK, Targeted
      <4>2. r \in pending[target[r]] /\ stop[target[r]] = "none"
        BY <4>1 DEF PendingKept
      <4>3. target[r] \notin Remaining
        BY <2>5, <4>1, <4>2 DEF StopAll, TypeOK
      <4>. QED
        BY <2>5, <4>1, <4>2, <4>3 DEF StopAll
    <3>2. ReaderKept'
      BY <2>5, ReaderStep DEF StopAll, TypeOK
    <3>. QED
      BY <3>1, <3>2
  <2>6. ASSUME NEW h \in Handles, StopTask(h) PROVE PendingKept' /\ ReaderKept'
    <3>1. stop[h] # "none" /\ stop'[h] # "none"
      BY <2>6 DEF StopTask, StopAsks, StopClosesStdin, StopKills, StopDrains, StopUnregisters,
                  TypeOK
    <3>2. /\ workers' \subseteq workers /\ UNCHANGED <<call, target>>
          /\ \A g \in Handles \ {h} : pending'[g] = pending[g] /\ stop'[g] = stop[g]
          /\ \A r \in Requests : future'[r] = "open" => future[r] = "open"
      BY <2>6, SMTT(30) DEF StopTask, StopAsks, StopClosesStdin, StopKills, StopDrains, StopUnregisters,
                  FailPending, TypeOK
    <3>3. /\ \A g \in Handles \ {h} : reader'[g] = reader[g]
          /\ reader'[h] = "none" => reader[h] = "none"
      BY <2>6 DEF StopTask, StopAsks, StopClosesStdin, StopKills, StopDrains, StopUnregisters,
                  TypeOK
    <3>4. PendingKept'
      <4>. SUFFICES ASSUME NEW r \in Requests, call[r] \in {"draining", "waiting"},
                           future'[r] = "open"
                    PROVE  r \in pending'[target[r]] /\ stop'[target[r]] = "none"
        BY <3>2 DEF PendingKept
      <4>1. /\ target[r] \in Handles
            /\ r \in pending[target[r]] /\ stop[target[r]] = "none"
        BY <3>2 DEF PendingKept, Targeted
      <4>. QED
        BY <3>1, <3>2, <4>1
    <3>5. ReaderKept'
      BY <3>1, <3>2, <3>3, ReaderStep
    <3>. QED
      BY <3>4, <3>5
  <2>7. ASSUME NEW h \in Handles, Unlist(h) PROVE PendingKept' /\ ReaderKept'
    BY <2>7, PendingStep, ReaderStep DEF Unlist
  <2>8. ASSUME NEW h \in Handles, Reader(h) PROVE PendingKept' /\ ReaderKept'
    <3>1. CASE ReadReply(h)
      <4>1. PendingKept'
        BY <3>1, PendingStep DEF ReadReply, TypeOK
      <4>. QED
        BY <3>1, <4>1, ReaderStep DEF ReadReply
    <3>2. CASE ReaderFails(h)
      <4>1. PendingKept'
        BY <3>2, PendingStep DEF ReaderFails, FailPending, TypeOK
      <4>2. ReaderKept'
        BY <3>2, ReaderStep DEF ReaderFails, TypeOK
      <4>. QED
        BY <4>1, <4>2
    <3>3. CASE ReaderEnds(h)
      <4>1. PendingKept'
        BY <3>3, PendingStep DEF ReaderEnds
      <4>2. ReaderKept'
        BY <3>3, ReaderStep DEF ReaderEnds, TypeOK
      <4>. QED
        BY <4>1, <4>2
    <3>4. CASE Heartbeat(h)
      BY <2>1, <3>4 DEF Heartbeat
    <3>. QED
      BY <2>8, <3>1, <3>2, <3>3, <3>4 DEF Reader
  <2>9. ASSUME NEW r \in Requests, Caller(r) PROVE PendingKept' /\ ReaderKept'
    <3>. target[r] \in Handles
      BY <2>9 DEF Caller, Send, SendRefused, Drained, WriteFails, Returns, Abandon, Targeted
    <3>1. CASE Send(r)
      <4>1. PendingKept'
        <5>1. CASE call' = [call EXCEPT ![r] = "invalid"] /\ UNCHANGED pending
          BY <3>1, <5>1, PendingStep DEF Send, TypeOK
        <5>2. CASE /\ call' = [call EXCEPT ![r] = "draining"]
                   /\ pending' = [pending EXCEPT ![target[r]] = @ \cup {r}]
          BY <3>1, <5>2 DEF Send, PendingKept, TypeOK, Targeted
        <5>. QED
          BY <3>1, <5>1, <5>2 DEF Send
      <4>2. ReaderKept'
        BY <3>1, ReaderStep DEF Send, TypeOK
      <4>. QED
        BY <4>1, <4>2
    <3>2. CASE WriteFails(r)
      <4>1. PendingKept'
        <5>. SUFFICES ASSUME NEW q \in Requests, call'[q] \in {"draining", "waiting"},
                             future'[q] = "open"
                      PROVE  q \in pending'[target[q]] /\ stop'[target[q]] = "none"
          BY <3>2 DEF WriteFails, PendingKept
        <5>1. q # r /\ call[q] \in {"draining", "waiting"}
          BY <3>2 DEF WriteFails, TypeOK
        <5>2. future[q] = "open"
          BY <3>2 DEF WriteFails, TypeOK
        <5>3. /\ target[q] \in Handles
              /\ q \in pending[target[q]] /\ stop[target[q]] = "none"
          BY <5>1, <5>2 DEF PendingKept, Targeted
        <5>4. CASE stop[target[r]] = "none"
          <6>1. target[q] # target[r]
            BY <3>2, <5>1, <5>2, <5>3, <5>4 DEF WriteFails
          <6>. QED
            BY <3>2, <5>3, <5>4, <6>1 DEF WriteFails, TypeOK
        <5>5. CASE stop[target[r]] # "none"
          <6>1. pending' = [pending EXCEPT ![target[r]] = @ \ {r}] /\ UNCHANGED stop
            BY <3>2, <5>5 DEF WriteFails
          <6>. QED
            BY <5>1, <5>3, <6>1 DEF TypeOK
        <5>. QED
          BY <5>4, <5>5
      <4>2. ReaderKept'
        BY <3>2, ReaderStep DEF WriteFails, TypeOK
      <4>. QED
        BY <4>1, <4>2
    <3>3. CASE SendRefused(r) \/ Drained(r) \/ Returns(r)
      <4>1. /\ UNCHANGED <<workers, stop, reader, pending, target, future>>
            /\ call[r] # "idle"
            /\ \E c : /\ call' = [call EXCEPT ![r] = c]
                      /\ c \in {"draining", "waiting"} => call[r] \in {"draining", "waiting"}
        BY <3>3 DEF SendRefused, Drained, Returns
      <4>2. \A q \in Requests : /\ q # r => call'[q] = call[q]
                                /\ call'[q] \in {"draining", "waiting"}
                                     => call[q] \in {"draining", "waiting"}
        BY <4>1 DEF TypeOK
      <4>3. PendingKept'
        BY <4>1, <4>2, PendingStep
      <4>4. ReaderKept'
        BY <4>1, <4>2, ReaderStep
      <4>. QED
        BY <4>3, <4>4
    <3>4. CASE Abandon(r)
      <4>1. PendingKept'
        BY <3>4, PendingStep DEF Abandon, TypeOK
      <4>2. ReaderKept'
        BY <3>4, ReaderStep DEF Abandon, TypeOK
      <4>. QED
        BY <4>1, <4>2
    <3>. QED
      BY <2>9, <3>1, <3>2, <3>3, <3>4 DEF Caller
  <2>10. ASSUME NEW r \in Requests, NEW h \in Handles, Ask(r, h)
         PROVE  PendingKept' /\ ReaderKept'
    <3>1. PendingKept'
      BY <2>10 DEF Ask, PendingKept, TypeOK
    <3>2. ReaderKept'
      BY <2>10 DEF Ask, ReaderKept, TypeOK
    <3>. QED
      BY <3>1, <3>2
  <2>11. ASSUME NEW h \in Handles, WatchStops(h) PROVE PendingKept' /\ ReaderKept'
    BY <2>3, <2>11 DEF WatchStops
  <2>12. ASSUME NEW h \in Handles, Worker(h) \/ FailStart(h) \/ Crash(h) \/ Garble(h)
                                  \/ HeartbeatOverdue(h) \/ \E p \in Projects : BeginStart(p, h)
         PROVE  PendingKept' /\ ReaderKept'
    BY <2>1, <2>12 DEF Worker, Serve, WorkerLeaves, FailStart, Crash, Garble, HeartbeatOverdue,
                       BeginStart
  <2>13. CASE StopAllReturns \/ WatchScan \/ WatchReturns \/ UNCHANGED vars
    BY <2>1, <2>13 DEF StopAllReturns, WatchScan, WatchReturns, vars
  <2>. QED
    BY <2>2, <2>4, <2>5, <2>6, <2>7, <2>8, <2>9, <2>10, <2>11, <2>12, <2>13 DEF Next, Watch
<1>. QED
  BY <1>1, <1>2, TypeInductive, PTL DEF Spec

(* A caller never waits on a future that only its deadline can settle: its   *)
(* request is pending at a worker that nobody stops and that is read from.   *)
THEOREM NobodyForgottenCorrect == Spec => []NobodyForgotten
<1>1. TypeInv /\ CallInv => NobodyForgotten
  BY DEF TypeInv, TypeOK, Targeted, CallInv, PendingKept, ReaderKept, NobodyForgotten
<1>. QED
  BY <1>1, TypeInductive, CallInductive, PTL

-----------------------------------------------------------------------------
(* A request is on at most one pipe, at one place, before it is served; it   *)
(* is there only after its frame was written, and what comes back or settles *)
(* its future was served.                                                   *)
Entered(r) == call[r] \notin {"idle", "queued", "invalid"}
Carried(h, i) == stdin[h][i].call
SentOnce ==
    \A h \in Handles : \A i \in 1..Len(stdin[h]) : Carried(h, i) \in Requests =>
        /\ Entered(Carried(h, i)) /\ Carried(h, i) \notin served
        /\ \A g \in Handles : \A j \in 1..Len(stdin[g]) :
               Carried(g, j) = Carried(h, i) => g = h /\ j = i

ServedEntered == \A r \in served : Entered(r)

RepliesServed ==
    /\ \A h \in Handles : \A i \in 1..Len(stdout[h]) :
           stdout[h][i] \in Requests => stdout[h][i] \in served
    /\ \A r \in Requests : future[r] = "answered" => r \in served
    /\ \A r \in Requests : call[r] = "answered" => r \in served

WireInv == SentOnce /\ ServedEntered /\ RepliesServed

(* A request that was sent stays sent. *)
LEMMA EnteredKept ==
    ASSUME TypeInv, Next, NEW r \in Requests, Entered(r)
    PROVE  Entered(r)'
<1>. TypeOK /\ Targeted
  BY DEF TypeInv
<1>1. ASSUME NEW q \in Requests, Caller(q) PROVE Entered(r)'
  <2>1. CASE Send(q)
    <3>1. q # r
      BY <2>1 DEF Send, Entered
    <3>. QED
      BY <2>1, <3>1 DEF Send, Entered, TypeOK
  <2>2. CASE SendRefused(q) \/ Drained(q) \/ WriteFails(q) \/ Returns(q) \/ Abandon(q)
    BY <2>2 DEF SendRefused, Drained, WriteFails, Returns, Abandon, Entered, TypeOK
  <2>. QED
    BY <1>1, <2>1, <2>2 DEF Caller
<1>2. ASSUME NEW q \in Requests, NEW h \in Handles, Ask(q, h) PROVE Entered(r)'
  BY <1>2 DEF Ask, Entered, TypeOK
<1>3. ASSUME UNCHANGED call PROVE Entered(r)'
  BY <1>3 DEF Entered
<1>4. ASSUME NEW h \in Handles,
             \/ StopTask(h) \/ Unlist(h) \/ Reader(h) \/ Worker(h)
             \/ FinishStart(h) \/ FailStart(h) \/ Crash(h) \/ Garble(h)
             \/ HeartbeatOverdue(h) \/ WatchStops(h)
      PROVE  UNCHANGED call
  BY <1>4 DEF StopTask, StopAsks, StopClosesStdin, StopKills, StopDrains, StopUnregisters,
              Unlist, Reader, ReadReply, ReaderFails, ReaderEnds, Heartbeat, Worker, Serve,
              WorkerLeaves, FinishStart, FailStart, Crash, Garble, HeartbeatOverdue, WatchStops
<1>5. ASSUME \/ \E p \in Projects : StopProject(p) \/ \E h \in Handles : BeginStart(p, h)
             \/ StopAll \/ StopAllReturns \/ WatchScan \/ WatchReturns
      PROVE  UNCHANGED call
  BY <1>5 DEF StopProject, BeginStart, StopAll, StopAllReturns, WatchScan, WatchReturns
<1>. QED
  BY <1>1, <1>2, <1>3, <1>4, <1>5 DEF Next, Watch

(* What the steps do to the pipe of h. *)
Cleared(h) == stdin' = [stdin EXCEPT ![h] = <<>>]

LEMMA ClearedSentOnce ==
    ASSUME TypeOK, SentOnce, UNCHANGED served, NEW h \in Handles, Cleared(h),
           \A r \in Requests : Entered(r) => Entered(r)'
    PROVE  SentOnce'
<1>1. \A g \in Handles : /\ g # h => stdin'[g] = stdin[g]
                         /\ g = h => Len(stdin'[g]) = 0
  BY EmptySeq DEF Cleared, TypeOK
<1>2. \A g \in Handles : \A i \in 1..Len(stdin'[g]) :
          i \in 1..Len(stdin[g]) /\ Carried(g, i)' = Carried(g, i)
  <2>1. \A i \in 1..Len(stdin'[h]) : FALSE
    BY <1>1
  <2>. QED
    BY <1>1, <2>1 DEF Carried
<1>. QED
  BY <1>2 DEF SentOnce

LEMMA KeptSentOnce ==
    ASSUME SentOnce, UNCHANGED <<served, stdin>>,
           \A r \in Requests : Entered(r) => Entered(r)'
    PROVE  SentOnce'
BY DEF SentOnce, Carried

(* A new frame: for the shutdown request, or for a request that was queued. *)
LEMMA WrittenSentOnce ==
    ASSUME TypeOK, SentOnce, ServedEntered, UNCHANGED served,
           NEW h \in Handles, NEW c \in Requests \cup {Shutdown}, Write(h, c),
           c \in Requests => ~Entered(c) /\ Entered(c)',
           \A r \in Requests : Entered(r) => Entered(r)'
    PROVE  SentOnce'
<1>1. CASE ~Running(h)
  BY <1>1, KeptSentOnce DEF Write, TypeOK
<1>2. CASE Running(h)
  <2>0. outSeq[h] + 1 \in Nat /\ stdin[h] \in Seq(Message) /\ Len(stdin[h]) \in Nat
    BY LenProperties DEF TypeOK
  <2>. DEFINE m == [call |-> c, seq |-> outSeq[h] + 1]
  <2>1. m \in Message /\ m.call = c
    BY <2>0 DEF Message
  <2>2. stdin' = [stdin EXCEPT ![h] = Append(stdin[h], m)]
    BY <1>2 DEF Write
  <2>. HIDE DEF m
  <2>3. /\ Len(stdin'[h]) = Len(stdin[h]) + 1
        /\ \A i \in 1..Len(stdin[h]) : stdin'[h][i] = stdin[h][i]
        /\ stdin'[h][Len(stdin[h]) + 1] = m
    BY <2>0, <2>1, <2>2, AppendProperties DEF TypeOK
  <2>4. \A g \in Handles \ {h} : stdin'[g] = stdin[g]
    BY <2>2 DEF TypeOK
  <2>5. \A g \in Handles : \A i \in 1..Len(stdin'[g]) :
            \/ i \in 1..Len(stdin[g]) /\ Carried(g, i)' = Carried(g, i)
            \/ g = h /\ i = Len(stdin[h]) + 1 /\ Carried(g, i)' = c
    BY <2>0, <2>1, <2>3, <2>4 DEF Carried
  <2>6. \A g \in Handles : \A i \in 1..Len(stdin[g]) : Carried(g, i) \in Requests
            => Carried(g, i) # c
    BY DEF SentOnce
  <2>7. c \in Requests => c \notin served
    BY DEF ServedEntered
  <2>. QED
    BY <2>5, <2>6, <2>7 DEF SentOnce
<1>. QED
  BY <1>1, <1>2

(* The worker reads the first frame. *)
LEMMA ReadSentOnce ==
    ASSUME TypeOK, SentOnce, NEW h \in Handles, stdin[h] # <<>>,
           stdin' = [stdin EXCEPT ![h] = Tail(@)],
           served' = served \cup {Head(stdin[h]).call},
           \A r \in Requests : Entered(r) => Entered(r)'
    PROVE  SentOnce'
<1>0. stdin[h] \in Seq(Message) /\ Len(stdin[h]) \in Nat
  BY LenProperties DEF TypeOK
<1>1. /\ Len(stdin'[h]) = Len(stdin[h]) - 1 /\ 1 \in 1..Len(stdin[h])
      /\ \A i \in 1..Len(stdin'[h]) : stdin'[h][i] = stdin[h][i + 1]
      /\ Head(stdin[h]) = stdin[h][1]
  BY <1>0, HeadTailProperties, EmptySeq DEF TypeOK
<1>2. \A g \in Handles \ {h} : stdin'[g] = stdin[g]
  BY DEF TypeOK
<1>3. \A g \in Handles : \A i \in 1..Len(stdin'[g]) :
          \/ g # h /\ i \in 1..Len(stdin[g]) /\ Carried(g, i)' = Carried(g, i)
          \/ g = h /\ i + 1 \in 1..Len(stdin[h]) /\ Carried(g, i)' = Carried(h, i + 1)
  BY <1>0, <1>1, <1>2 DEF Carried
<1>4. \A g \in Handles : \A i \in 1..Len(stdin[g]) : Carried(g, i) \in Requests
          /\ (g # h \/ i # 1) => Carried(g, i) # Head(stdin[h]).call
  BY <1>1 DEF SentOnce, Carried
<1>. QED
  BY <1>0, <1>3, <1>4 DEF SentOnce

LEMMA WireInductive == Spec => []WireInv
<1>1. Init => WireInv
  <2>. SUFFICES ASSUME Init PROVE WireInv
    OBVIOUS
  <2>1. \A h \in Handles : Len(stdin[h]) = 0 /\ Len(stdout[h]) = 0
    BY EmptySeq DEF Init
  <2>2. SentOnce /\ ServedEntered
    BY <2>1 DEF Init, SentOnce, ServedEntered
  <2>3. RepliesServed
    BY <2>1 DEF Init, RepliesServed
  <2>. QED
    BY <2>2, <2>3 DEF WireInv
<1>2. TypeInv /\ TypeInv' /\ WireInv /\ [Next]_vars => WireInv'
  <2>. SUFFICES ASSUME TypeInv, TypeInv', WireInv, [Next]_vars
                PROVE  SentOnce' /\ ServedEntered' /\ RepliesServed'
    BY DEF WireInv
  <2>. TypeOK /\ TypeOK' /\ Targeted /\ SentOnce /\ ServedEntered /\ RepliesServed
    BY DEF TypeInv, WireInv
  <2>. \A r \in Requests : r # Shutdown /\ r # "garbage"
    BY SupervisorAssumption
  <2>0. \A r \in Requests : Entered(r) => Entered(r)'
    BY EnteredKept DEF Entered, vars
  <2>1. \A h \in Handles : stdout[h] \in Seq(Reply) /\ Len(stdout[h]) \in Nat
    BY LenProperties DEF TypeOK
  <2>2. ASSUME UNCHANGED served PROVE ServedEntered'
    BY <2>0, <2>2 DEF ServedEntered, TypeOK
  <2>3. ASSUME UNCHANGED <<served, stdout>>,
               \A r \in Requests : /\ future'[r] = "answered" => future[r] = "answered"
                                   /\ call'[r] = "answered" =>
                                         call[r] = "answered" \/ future[r] = "answered"
        PROVE  RepliesServed'
    <3>1. \A r \in Requests : future'[r] = "answered" => r \in served'
      BY <2>3 DEF RepliesServed
    <3>2. \A r \in Requests : call'[r] = "answered" => r \in served'
      BY <2>3 DEF RepliesServed
    <3>3. \A h \in Handles : \A i \in 1..Len(stdout'[h]) :
              stdout'[h][i] \in Requests => stdout'[h][i] \in served'
      BY <2>3 DEF RepliesServed
    <3>. QED
      BY <3>1, <3>2, <3>3 DEF RepliesServed
  <2>4. ASSUME UNCHANGED <<served, stdin>> PROVE SentOnce'
    BY <2>0, <2>4, KeptSentOnce
  <2>5. ASSUME UNCHANGED <<served, stdin, stdout, call>>,
               \A r \in Requests : future'[r] = "answered" => future[r] = "answered"
        PROVE  SentOnce' /\ ServedEntered' /\ RepliesServed'
    BY <2>2, <2>3, <2>4, <2>5
  <2>6. ASSUME NEW h \in Handles, Cleared(h), UNCHANGED <<served, stdout, call, future>>
        PROVE  SentOnce' /\ ServedEntered' /\ RepliesServed'
    BY <2>0, <2>2, <2>3, <2>6, ClearedSentOnce
  <2>7. ASSUME NEW h \in Handles, stdout' = [stdout EXCEPT ![h] = <<>>],
               UNCHANGED <<served, call>>,
               \A r \in Requests : future'[r] = "answered" => future[r] = "answered"
        PROVE  RepliesServed'
    <3>1. \A g \in Handles : /\ g # h => stdout'[g] = stdout[g]
                             /\ g = h => Len(stdout'[g]) = 0
      BY <2>7, EmptySeq DEF TypeOK
    <3>2. \A g \in Handles : \A i \in 1..Len(stdout'[g]) :
              i \in 1..Len(stdout[g]) /\ stdout'[g][i] = stdout[g][i]
      <4>1. \A i \in 1..Len(stdout'[h]) : FALSE
        BY <3>1
      <4>. QED
        BY <3>1, <4>1
    <3>. QED
      BY <2>7, <3>2 DEF RepliesServed
  <2>8. ASSUME NEW h \in Handles, NEW c \in Reply, stdout' = [stdout EXCEPT ![h] = Append(@, c)],
               c \in Requests => c \in served', served \subseteq served', UNCHANGED <<call, future>>
        PROVE  RepliesServed'
    <3>1. /\ Len(stdout'[h]) = Len(stdout[h]) + 1
          /\ \A i \in 1..Len(stdout[h]) : stdout'[h][i] = stdout[h][i]
          /\ stdout'[h][Len(stdout[h]) + 1] = c
      BY <2>1, <2>8, AppendProperties DEF TypeOK
    <3>2. \A g \in Handles \ {h} : stdout'[g] = stdout[g]
      BY <2>8 DEF TypeOK
    <3>3. \A g \in Handles : \A i \in 1..Len(stdout'[g]) :
              \/ i \in 1..Len(stdout[g]) /\ stdout'[g][i] = stdout[g][i]
              \/ stdout'[g][i] = c
      BY <2>1, <3>1, <3>2
    <3>. QED
      BY <2>8, <3>3 DEF RepliesServed
  <2>9. ASSUME NEW h \in Handles, StopTask(h) PROVE SentOnce' /\ ServedEntered' /\ RepliesServed'
    <3>1. CASE StopAsks(h)
      BY <2>0, <2>2, <2>3, <3>1, WrittenSentOnce DEF StopAsks
    <3>2. CASE StopClosesStdin(h) \/ StopUnregisters(h)
      BY <2>5, <3>2 DEF StopClosesStdin, StopUnregisters
    <3>3. CASE StopKills(h)
      BY <2>6, <3>3 DEF StopKills, Exits, Cleared
    <3>4. CASE StopDrains(h)
      <4>1. RepliesServed'
        BY <2>7, <3>4 DEF StopDrains, FailPending
      <4>. QED
        BY <2>2, <2>4, <3>4, <4>1 DEF StopDrains
    <3>. QED
      BY <2>9, <3>1, <3>2, <3>3, <3>4 DEF StopTask
  <2>10. ASSUME NEW h \in Handles, Reader(h)
         PROVE  SentOnce' /\ ServedEntered' /\ RepliesServed'
    <3>1. CASE ReadReply(h)
      <4>1. /\ Len(stdout'[h]) = Len(stdout[h]) - 1
            /\ \A i \in 1..Len(stdout'[h]) : stdout'[h][i] = stdout[h][i + 1]
            /\ 1 \in 1..Len(stdout[h]) /\ Head(stdout[h]) = stdout[h][1]
        BY <2>1, <3>1, HeadTailProperties, EmptySeq DEF ReadReply, TypeOK
      <4>2. \A g \in Handles \ {h} : stdout'[g] = stdout[g]
        BY <3>1 DEF ReadReply, TypeOK
      <4>3. \A g \in Handles : \A i \in 1..Len(stdout'[g]) :
                \E j \in 1..Len(stdout[g]) : stdout'[g][i] = stdout[g][j]
        <5>1. \A i \in 1..Len(stdout'[h]) : i + 1 \in 1..Len(stdout[h])
          BY <2>1, <4>1
        <5>2. \A g \in Handles \ {h} : \A i \in 1..Len(stdout'[g]) :
                  i \in 1..Len(stdout[g]) /\ stdout'[g][i] = stdout[g][i]
          BY <4>2
        <5>. QED
          BY <4>1, <5>1, <5>2
      <4>4. Head(stdout[h]) \in Requests => Head(stdout[h]) \in served
        BY <4>1 DEF RepliesServed
      <4>5. \A r \in Requests : future'[r] = "answered" =>
                future[r] = "answered" \/ r = Head(stdout[h])
        BY <3>1 DEF ReadReply, TypeOK
      <4>6. RepliesServed'
        BY <3>1, <4>3, <4>4, <4>5 DEF ReadReply, RepliesServed
      <4>. QED
        BY <2>2, <2>4, <3>1, <4>6 DEF ReadReply
    <3>2. CASE ReaderFails(h) \/ ReaderEnds(h) \/ Heartbeat(h)
      BY <2>5, <3>2 DEF ReaderFails, ReaderEnds, Heartbeat, FailPending
    <3>. QED
      BY <2>10, <3>1, <3>2 DEF Reader
  <2>11. ASSUME NEW h \in Handles, Serve(h)
         PROVE  SentOnce' /\ ServedEntered' /\ RepliesServed'
    <3>. DEFINE m == Head(stdin[h])
    <3>0. m \in Message /\ m.call \in Requests \cup {Shutdown}
      <4>1. m \in Message
        BY <2>11, TailType DEF Serve, TypeOK
      <4>. QED
        BY <4>1 DEF Message
    <3>1. CASE ~Consecutive(h, m)
      BY <2>6, <2>11, <3>1 DEF Serve, Exits, Cleared
    <3>2. CASE Consecutive(h, m) /\ m.call = Shutdown
      <4>1. Cleared(h) /\ served' = served /\ UNCHANGED <<call, future>>
        BY <2>11, <3>2 DEF Serve, Exits, Cleared
      <4>2. stdout' = [stdout EXCEPT ![h] = Append(@, Shutdown)] /\ Shutdown \in Reply
        BY <2>11, <3>2 DEF Serve, Reply
      <4>. QED
        BY <2>0, <2>2, <2>8, <4>1, <4>2, ClearedSentOnce
    <3>3. CASE Consecutive(h, m) /\ m.call # Shutdown
      <4>1. /\ stdin' = [stdin EXCEPT ![h] = Tail(@)] /\ stdin[h] # <<>>
            /\ served' = served \cup {m.call} /\ UNCHANGED <<call, future>>
            /\ stdout' = [stdout EXCEPT ![h] = Append(@, m.call)]
        BY <2>11, <3>3 DEF Serve
      <4>2. SentOnce'
        BY <2>0, <4>1, ReadSentOnce
      <4>3. RepliesServed'
        BY <2>8, <3>0, <3>3, <4>1 DEF Reply
      <4>4. Entered(m.call)
        <5>1. 1 \in 1..Len(stdin[h]) /\ m = stdin[h][1]
          BY <4>1, LenProperties, EmptySeq DEF TypeOK
        <5>. QED
          BY <3>0, <3>3, <5>1 DEF SentOnce, Carried
      <4>5. ServedEntered'
        BY <4>1, <4>4 DEF ServedEntered, Entered
      <4>. QED
        BY <4>2, <4>3, <4>5
    <3>. QED
      BY <3>1, <3>2, <3>3
  <2>12. ASSUME NEW h \in Handles, WorkerLeaves(h) \/ FailStart(h) \/ Crash(h)
         PROVE  SentOnce' /\ ServedEntered' /\ RepliesServed'
    BY <2>6, <2>12 DEF WorkerLeaves, FailStart, Crash, Exits, Cleared
  <2>13. ASSUME NEW h \in Handles, Garble(h) PROVE SentOnce' /\ ServedEntered' /\ RepliesServed'
    <3>1. "garbage" \in Reply /\ "garbage" \notin Requests
      BY DEF Reply
    <3>. QED
      BY <2>2, <2>4, <2>8, <2>13, <3>1 DEF Garble
  <2>14. ASSUME NEW r \in Requests, Caller(r)
         PROVE  SentOnce' /\ ServedEntered' /\ RepliesServed'
    <3>1. CASE Send(r)
      <4>1. UNCHANGED <<served, stdout, future>> /\ ~Entered(r) /\ target[r] \in Handles
        BY <3>1 DEF Send, Entered, Targeted
      <4>2. RepliesServed'
        BY <2>3, <3>1, <4>1 DEF Send, TypeOK
      <4>3. SentOnce'
        <5>1. CASE UNCHANGED stdin
          BY <2>4, <4>1, <5>1
        <5>2. CASE Write(target[r], r) /\ call' = [call EXCEPT ![r] = "draining"]
          <6>1. Entered(r)'
            BY <5>2 DEF Entered, TypeOK
          <6>. QED
            BY <2>0, <4>1, <5>2, <6>1, WrittenSentOnce
        <5>. QED
          BY <3>1, <5>1, <5>2 DEF Send
      <4>. QED
        BY <2>2, <4>1, <4>2, <4>3
    <3>2. CASE SendRefused(r) \/ Drained(r) \/ WriteFails(r) \/ Returns(r) \/ Abandon(r)
      <4>1. UNCHANGED <<served, stdin, stdout>>
        BY <3>2 DEF SendRefused, Drained, WriteFails, Returns, Abandon
      <4>2. \A q \in Requests : future'[q] = "answered" => future[q] = "answered"
        BY <3>2 DEF SendRefused, Drained, WriteFails, Returns, Abandon
      <4>3. \A q \in Requests : call'[q] = "answered" =>
                call[q] = "answered" \/ future[q] = "answered"
        BY <3>2 DEF SendRefused, Drained, WriteFails, Returns, Abandon, TypeOK
      <4>. QED
        BY <2>2, <2>3, <2>4, <4>1, <4>2, <4>3
    <3>. QED
      BY <2>14, <3>1, <3>2 DEF Caller
  <2>15. ASSUME NEW r \in Requests, NEW h \in Handles, Ask(r, h)
         PROVE  SentOnce' /\ ServedEntered' /\ RepliesServed'
    BY <2>2, <2>3, <2>4, <2>15 DEF Ask, TypeOK
  <2>16. ASSUME NEW h, WatchStops(h) \/ \E p \in Projects : StopProject(p)
         PROVE  SentOnce' /\ ServedEntered' /\ RepliesServed'
    BY <2>5, <2>16 DEF WatchStops, StopProject, EnsureStop, FailPending
  <2>17. CASE StopAll
    BY <2>5, <2>17 DEF StopAll
  <2>18. ASSUME NEW h, FinishStart(h) \/ Unlist(h) \/ HeartbeatOverdue(h)
                         \/ \E p \in Projects : BeginStart(p, h)
         PROVE  SentOnce' /\ ServedEntered' /\ RepliesServed'
    BY <2>5, <2>18 DEF FinishStart, Unlist, HeartbeatOverdue, BeginStart
  <2>19. CASE StopAllReturns \/ WatchScan \/ WatchReturns \/ UNCHANGED vars
    BY <2>5, <2>19 DEF StopAllReturns, WatchScan, WatchReturns, vars
  <2>. QED
    BY <2>9, <2>10, <2>11, <2>12, <2>13, <2>14, <2>15, <2>16, <2>17, <2>18, <2>19
       DEF Next, Watch, Worker
<1>. QED
  BY <1>1, <1>2, TypeInductive, PTL DEF Spec

-----------------------------------------------------------------------------
(* Where a call is decides what its caller knows. *)
LEMMA OutcomeFacts ==
    ASSUME TypeOK, NEW r \in Requests
    PROVE  /\ call[r] = "idle" <=> Outcome(r) = "none"
           /\ call[r] \in {"queued", "draining", "waiting", "joining"} <=> Outcome(r) = "open"
           /\ call[r] = "answered" <=> Outcome(r) = "answered"
           /\ call[r] = "invalid" <=> Outcome(r) = "invalid"
           /\ call[r] = "abandoned" <=> Outcome(r) = "abandoned"
           /\ call[r] = "unavailable" <=> Outcome(r) = "unavailable"
BY DEF TypeOK, CallStates, Outcome

LEMMA OutcomeUnchanged ==
    ASSUME NEW r, call'[r] = call[r]
    PROVE  Outcome(r)' = Outcome(r)
BY DEF Outcome

(* Every step of the supervisor, its callers and its workers is a step of    *)
(* the contract or is invisible to it.                                      *)
LEMMA ContractStep ==
    ASSUME TypeInv, TypeInv', WireInv, [Next]_vars
    PROVE  [Contract!Next]_Contract!vars
<1>. TypeOK /\ TypeOK' /\ SentOnce /\ ServedEntered /\ RepliesServed
  BY DEF TypeInv, WireInv
<1>. DEFINE outcome == [r \in Requests |-> Outcome(r)]
<1>1. ASSUME UNCHANGED <<call, served>> PROVE UNCHANGED Contract!vars
  BY <1>1, OutcomeUnchanged DEF Contract!vars
<1>2. ASSUME NEW r \in Requests, NEW h \in Handles, Ask(r, h) PROVE Contract!Ask(r)
  <2>1. Outcome(r) = "none"
    BY <1>2, OutcomeFacts DEF Ask
  <2>2. call'[r] = "queued" /\ \A q \in Requests \ {r} : call'[q] = call[q]
    BY <1>2 DEF Ask, TypeOK
  <2>3. Outcome(r)' = "open"
    BY <2>2 DEF Outcome
  <2>4. outcome' = [outcome EXCEPT ![r] = "open"]
    BY <2>2, <2>3, OutcomeUnchanged
  <2>. QED
    BY <1>2, <2>1, <2>4 DEF Ask, Contract!Ask
<1>3. ASSUME NEW r \in Requests, Caller(r)
      PROVE  Contract!Settle(r) \/ UNCHANGED Contract!vars
  <2>1. /\ UNCHANGED served
        /\ \A q \in Requests \ {r} : call'[q] = call[q]
        /\ call[r] \in {"queued", "draining", "waiting", "joining"}
    BY <1>3 DEF Caller, Send, SendRefused, Drained, WriteFails, Returns, Abandon, TypeOK
  <2>2. /\ call'[r] = "answered" => r \in served
        /\ call'[r] = "invalid" => r \notin served
        /\ call'[r] # "idle"
    <3>1. CASE Send(r)
      BY <3>1 DEF Send, TypeOK, ServedEntered, Entered
    <3>2. CASE Returns(r)
      BY <3>2 DEF Returns, TypeOK, RepliesServed
    <3>3. CASE SendRefused(r) \/ Drained(r) \/ WriteFails(r) \/ Abandon(r)
      BY <3>3 DEF SendRefused, Drained, WriteFails, Abandon, TypeOK
    <3>. QED
      BY <1>3, <3>1, <3>2, <3>3 DEF Caller
  <2>3. Outcome(r) = "open"
    BY <2>1, OutcomeFacts
  <2>4. outcome' = [outcome EXCEPT ![r] = Outcome(r)']
    BY <2>1, OutcomeUnchanged
  <2>5. CASE Outcome(r)' = "open"
    BY <2>1, <2>3, <2>4, <2>5 DEF Contract!vars
  <2>6. CASE Outcome(r)' # "open"
    <3>1. call'[r] \in CallStates
      BY DEF TypeOK
    <3>2. /\ Outcome(r)' \in {"answered", "abandoned", "unavailable", "invalid"}
          /\ Outcome(r)' = "answered" => r \in served
          /\ Outcome(r)' = "invalid" => r \notin served
      BY <2>2, <2>6, <3>1 DEF Outcome, CallStates
    <3>. QED
      BY <2>1, <2>3, <2>4, <3>2 DEF Contract!Settle
  <2>. QED
    BY <2>5, <2>6
<1>4. ASSUME NEW h \in Handles, Serve(h)
      PROVE  (\E r \in Requests : Contract!Serve(r)) \/ UNCHANGED Contract!vars
  <2>1. CASE UNCHANGED served
    BY <1>1, <1>4, <2>1 DEF Serve
  <2>2. CASE ~UNCHANGED served
    <3>. DEFINE r == Head(stdin[h]).call
    <3>1. /\ stdin[h] # <<>> /\ served' = served \cup ({r} \ {Shutdown}) /\ r # Shutdown
          /\ UNCHANGED call
      BY <1>4, <2>2 DEF Serve
    <3>2. Head(stdin[h]) \in Message
      BY <3>1, TailType DEF TypeOK
    <3>3. r \in Requests
      BY <3>1, <3>2 DEF Message
    <3>4. 1 \in 1..Len(stdin[h]) /\ r = Carried(h, 1)
      BY <3>1, LenProperties, EmptySeq DEF TypeOK, Carried
    <3>5. Entered(r) /\ r \notin served
      BY <3>3, <3>4 DEF SentOnce
    <3>6. Outcome(r) \notin {"none", "invalid", "answered"}
      BY <3>3, <3>5, OutcomeFacts DEF Entered, RepliesServed
    <3>7. Contract!Serve(r)
      <4>1. outcome' = outcome
        BY <3>1, OutcomeUnchanged
      <4>. QED
        BY <3>1, <3>3, <3>5, <3>6, <4>1 DEF Contract!Serve
    <3>. QED
      BY <3>3, <3>7
  <2>. QED
    BY <2>1, <2>2
<1>5. ASSUME NEW h, \/ StopTask(h) \/ Unlist(h) \/ Reader(h) \/ WorkerLeaves(h)
                    \/ FinishStart(h) \/ FailStart(h) \/ Crash(h) \/ Garble(h)
                    \/ HeartbeatOverdue(h) \/ WatchStops(h)
      PROVE  UNCHANGED <<call, served>>
  BY <1>5 DEF StopTask, StopAsks, StopClosesStdin, StopKills, StopDrains, StopUnregisters,
              Unlist, Reader, ReadReply, ReaderFails, ReaderEnds, Heartbeat, WorkerLeaves,
              FinishStart, FailStart, Crash, Garble, HeartbeatOverdue, WatchStops
<1>6. ASSUME \/ \E p \in Projects : StopProject(p) \/ \E h \in Handles : BeginStart(p, h)
             \/ StopAll \/ StopAllReturns \/ WatchScan \/ WatchReturns \/ UNCHANGED vars
      PROVE  UNCHANGED <<call, served>>
  BY <1>6 DEF StopProject, BeginStart, StopAll, StopAllReturns, WatchScan, WatchReturns, vars
<1>. QED
  BY <1>1, <1>2, <1>3, <1>4, <1>5, <1>6 DEF Next, Watch, Worker, Contract!Next

(* The supervisor, its pipes and its workers keep what send promises: a      *)
(* request is carried out at most once, settled at most once, and answered   *)
(* only after a worker carried it out.                                      *)
THEOREM Refinement == Spec => ImplementsContract
<1>1. Init => Contract!Init
  BY DEF Init, Contract!Init, Outcome
<1>. QED
  BY <1>1, ContractStep, TypeInductive, WireInductive, PTL
     DEF Spec, ImplementsContract, Contract!Spec

=============================================================================
