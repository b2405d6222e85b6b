---------------------------- MODULE Outbox_proofs ----------------------------
(***************************************************************************)
(* Proofs about the reliable outbox, for any number of consumers, events,  *)
(* attempts, restarts and database errors and any batch size.              *)
(***************************************************************************)
EXTENDS Outbox, FiniteSetTheorems, SequenceTheorems, TLAPS

USE DEF Events

\* A non-empty list of targets that contains the local audit consumer.
LEMMA TargetSetFacts ==
    ASSUME NEW T \in TargetSets
    PROVE  /\ T \subseteq Consumers /\ LocalAudit \in T
           /\ Cardinality(T) \in Nat
BY OutboxAssumption, FS_Subset, FS_CardinalityType

LEMMA AggregateValues ==
    ASSUME NEW e, NEW states
    PROVE  AggregateOf(e, states) \in {"pending", "delivered", "dead_letter"}
BY DEF AggregateOf

\* A function on 1..n is a sequence of length n.
LEMMA FunctionIsSeq ==
    ASSUME NEW S, NEW n \in Nat, NEW f \in [1..n -> S]
    PROVE  f \in Seq(S) /\ Len(f) = n
<1>1. f \in UNION {[1..m -> S] : m \in Nat}
  OBVIOUS
<1>2. f \in Seq(S)
  BY <1>1, SeqDef
<1>3. Len(f) \in Nat /\ 1..Len(f) = 1..n
  BY <1>2, LenProperties
<1>. QED
  BY <1>2, <1>3

\* The targets of an event can be listed, each exactly once.
LEMMA ListingFacts ==
    ASSUME NEW T \in TargetSets
    PROVE  LET n == Cardinality(T)
           IN /\ n \in Nat
              /\ Listing(T) \in [1..n -> T]
              /\ \A c \in T : \E i \in 1..n : Listing(T)[i] = c
<1>. DEFINE n == Cardinality(T)
            Lists(list) == \A c \in T : \E i \in 1..n : list[i] = c
<1>1. IsFiniteSet(T)
  BY OutboxAssumption, FS_Subset
<1>2. n \in Nat /\ ExistsBijection(1..n, T)
  BY <1>1, FS_CardinalityType
<1>3. \E list \in [1..n -> T] : Lists(list)
  BY <1>2 DEF ExistsBijection, Bijection, Surjection
<1>4. Listing(T) = CHOOSE list \in [1..n -> T] : Lists(list)
  BY DEF Listing
<1>5. Listing(T) \in [1..n -> T] /\ Lists(Listing(T))
  <2>. HIDE DEF n
  <2>. QED BY <1>3, <1>4, Zenon
<1>. QED
  BY <1>2, <1>5

NewRows(T) == [i \in 1..Cardinality(T) |-> <<logged + 1, Listing(T)[i]>>]

\* The rows of an event appended behind the due rows.
LEMMA AppendedDue ==
    ASSUME TypeOK, NEW T \in TargetSets, logged < MaxEvents
    PROVE  LET n == Cardinality(T)
               longer == due \o NewRows(T)
           IN /\ longer \in Seq(Rows)
              /\ Len(longer) = Len(due) + n
              /\ \A i \in 1..Len(due) : longer[i] = due[i]
              /\ \A i \in 1..n : longer[Len(due) + i] = <<logged + 1, Listing(T)[i]>>
<1>. DEFINE n == Cardinality(T)
            order == Listing(T)
            new == NewRows(T)
<1>1. /\ T \subseteq Consumers /\ n \in Nat
      /\ order \in [1..n -> T]
      /\ logged + 1 \in Events
      /\ due \in Seq(Rows) /\ Len(due) \in Nat
  BY TargetSetFacts, ListingFacts, OutboxAssumption, LenProperties DEF TypeOK
<1>2. new \in [1..n -> Rows]
  BY <1>1 DEF Rows, NewRows
<1>3. new \in Seq(Rows) /\ Len(new) = n
  BY <1>1, <1>2, FunctionIsSeq
<1>4. /\ due \o new \in Seq(Rows)
      /\ Len(due \o new) = Len(due) + n
      /\ \A i \in 1..Len(due) + n :
             (due \o new)[i] = IF i <= Len(due) THEN due[i] ELSE new[i - Len(due)]
  <2>. HIDE DEF new
  <2>. QED BY <1>1, <1>3, ConcatProperties
<1>5. \A i \in 1..Len(due) : (due \o new)[i] = due[i]
  <2>. HIDE DEF new
  <2>. QED BY <1>1, <1>4
<1>6. \A i \in 1..n : (due \o new)[Len(due) + i] = new[i]
  <2>. HIDE DEF new
  <2>. QED BY <1>1, <1>4
<1>7. \A i \in 1..n : new[i] = <<logged + 1, order[i]>>
  BY <1>1 DEF NewRows
<1>. QED
  BY <1>4, <1>5, <1>6, <1>7

\* The due rows without the one at position i.
LEMMA ShorterDue ==
    ASSUME TypeOK, NEW i \in DOMAIN due
    PROVE  /\ Len(due) \in Nat /\ i \in 1..Len(due) /\ due[i] \in Rows
           /\ DueWithout(i) \in Seq(Rows) /\ Len(DueWithout(i)) = Len(due) - 1
           /\ \A k \in 1..(Len(due) - 1) :
                  DueWithout(i)[k] = IF k < i THEN due[k] ELSE due[k + 1]
<1>1. due \in Seq(Rows) /\ Len(due) \in Nat /\ i \in 1..Len(due)
  BY LenProperties DEF TypeOK
<1>2. \A k \in 1..Len(due) : due[k] \in Rows
  BY <1>1, ElementOfSeq
<1>3. Len(due) - 1 \in Nat
  BY <1>1
<1>4. DueWithout(i) \in [1..(Len(due) - 1) -> Rows]
  BY <1>1, <1>2 DEF DueWithout
<1>5. DueWithout(i) \in Seq(Rows) /\ Len(DueWithout(i)) = Len(due) - 1
  BY <1>3, <1>4, FunctionIsSeq
<1>. QED
  BY <1>1, <1>2, <1>5 DEF DueWithout

LEMMA LoggedRange ==
    ASSUME TypeOK
    PROVE  logged \in Nat /\ (logged # 0 => logged \in Events /\ born[logged] \in Nat)
BY OutboxAssumption DEF TypeOK

LEMMA SettleType ==
    ASSUME TypeOK, NEW r \in Rows, NEW s \in DeliveryStates, Settle(r, s)
    PROVE  /\ delivery' \in [Rows -> DeliveryStates]
           /\ aggregate' \in [Events -> AggregateStates]
           /\ expired' \in SUBSET Rows
<1>1. r[1] \in Events
  BY DEF Rows
<1>. QED
  BY <1>1, AggregateValues DEF TypeOK, Settle, AggregateStates

LEMMA RecordFailureType ==
    ASSUME TypeOK, NEW c \in Claims, RecordFailure(c)
    PROVE  /\ delivery' \in [Rows -> DeliveryStates]
           /\ aggregate' \in [Events -> AggregateStates]
           /\ expired' \in SUBSET Rows
           /\ UNCHANGED <<attempts, due>>
<1>1. c.row \in Rows
  BY DEF Claims
<1>2. CASE Owns(c)
  BY <1>1, <1>2, SettleType DEF RecordFailure, DeliveryStates
<1>3. CASE ~Owns(c)
  BY <1>3 DEF RecordFailure, TypeOK
<1>. QED
  BY <1>2, <1>3

\* Every variable keeps its type: in particular attempt counts stay within
\* the limit and only rows of logged consumers are ever due or claimed.
THEOREM TypeCorrect == Spec => []TypeOK
<1>1. Init => TypeOK
  <2>1. <<>> \in Seq(Rows)
    BY EmptySeq
  <2>. SUFFICES ASSUME Init PROVE TypeOK
    OBVIOUS
  <2>2. /\ logged \in 0..MaxEvents /\ restarts \in 0..MaxRestarts /\ faults \in 0..MaxFaults
        /\ attempts \in [Rows -> 0..MaxAttempts]
    BY OutboxAssumption DEF Init
  <2>3. /\ delivery \in [Rows -> DeliveryStates]
        /\ aggregate \in [Events -> AggregateStates]
    BY DEF Init, DeliveryStates, AggregateStates
  <2>. QED
    BY <2>1, <2>2, <2>3 DEF Init, TypeOK, TaskStates
<1>2. TypeOK /\ [Next]_vars => TypeOK'
  <2>. SUFFICES ASSUME TypeOK, [Next]_vars PROVE TypeOK'
    OBVIOUS
  <2>. USE DEF logVars, rowVars, taskVars
  <2>1. ASSUME NEW T \in TargetSets, NEW tick \in Ticks, AppendEvent(T, tick) PROVE TypeOK'
    <3>1. due' = due \o NewRows(T)
      BY <2>1 DEF AppendEvent, NewRows
    <3>2. due' \in Seq(Rows)
      BY <2>1, <3>1, AppendedDue DEF AppendEvent
    <3>3. tick \in Nat
      BY LoggedRange DEF Ticks, TypeOK
    <3>. QED
      BY <2>1, <3>2, <3>3, OutboxAssumption
      DEF AppendEvent, TypeOK, DeliveryStates, AggregateStates
  <2>2. ASSUME NEW B \in SUBSET expired, ExpiredBatch(B)
        PROVE  ClaimsOn(B) \in SUBSET Claims
    BY <2>2 DEF ExpiredBatch, BatchOf, ClaimsOn, Claims, TypeOK
  <2>3. CASE BeginIteration
    BY <2>3, <2>2 DEF BeginIteration, TypeOK, TaskStates
  <2>4. ASSUME NEW c \in claims, SweepOne(c) PROVE TypeOK'
    <3>1. c \in Claims
      BY DEF TypeOK
    <3>. QED
      BY <2>4, <3>1, RecordFailureType DEF SweepOne, TypeOK
  <2>5. CASE FinishRecovery
    BY <2>5 DEF FinishRecovery, TypeOK, TaskStates
  <2>6. CASE BeginMaintenance
    BY <2>6, <2>2 DEF BeginMaintenance, TypeOK, TaskStates
  <2>7. ASSUME NEW D \in SUBSET Events, CleanUp(D) PROVE TypeOK'
    BY <2>7 DEF CleanUp, TypeOK, TaskStates, DeliveryStates, AggregateStates
  <2>8. ASSUME NEW i \in DOMAIN due, Claim(i) PROVE TypeOK'
    <3>. DEFINE r == due[i]
    <3>1. r \in Rows /\ due' \in Seq(Rows)
      BY <2>8, ShorterDue DEF Claim
    <3>2. attempts[r] + 1 \in 1..MaxAttempts
      BY <2>8, <3>1, OutboxAssumption DEF Claim, TypeOK
    <3>3. /\ NewClaim(r) \in Claims
          /\ attempts' \in [Rows -> 0..MaxAttempts]
      BY <2>8, <3>1, <3>2, OutboxAssumption DEF NewClaim, Claims, Claim, TypeOK
    <3>. QED
      BY <2>8, <3>1, <3>3 DEF Claim, TypeOK, TaskStates, DeliveryStates
  <2>9. CASE ClaimNothing
    BY <2>9 DEF ClaimNothing, TypeOK, TaskStates
  <2>10. ASSUME NEW c \in claims, PublishAudit(c) PROVE TypeOK'
    <3>1. c.row \in Rows /\ c.row[1] \in Events
      BY DEF TypeOK, Claims, Rows
    <3>2. /\ audit' \in SUBSET Events
          /\ delivery' \in [Rows -> DeliveryStates]
          /\ aggregate' \in [Events -> AggregateStates]
          /\ expired' \in SUBSET Rows
      <4>1. CASE Owns(c)
        BY <2>10, <3>1, <4>1, SettleType DEF PublishAudit, TypeOK, DeliveryStates
      <4>2. CASE ~Owns(c)
        BY <2>10, <4>2 DEF PublishAudit, TypeOK
      <4>. QED
        BY <4>1, <4>2
    <3>3. pc' \in TaskStates /\ claims' \in SUBSET Claims
      BY <2>10, <3>1 DEF PublishAudit, TypeOK, TaskStates
    <3>. QED
      BY <2>10, <3>2, <3>3 DEF PublishAudit, TypeOK
  <2>11. ASSUME NEW c \in claims, PublishWebSocket(c) PROVE TypeOK'
    <3>1. c.row \in Rows
      BY DEF TypeOK, Claims
    <3>. QED
      BY <2>11, <3>1 DEF PublishWebSocket, TypeOK, TaskStates
  <2>12. CASE PublishFails
    BY <2>12 DEF PublishFails, TypeOK, TaskStates
  <2>13. ASSUME NEW c \in claims, FailPublish(c) PROVE TypeOK'
    <3>1. c \in Claims
      BY DEF TypeOK
    <3>. QED
      BY <2>13, <3>1, RecordFailureType DEF FailPublish, TypeOK, TaskStates
  <2>14. CASE DbErrorCaught \/ DispatcherDies
    <3>1. faults' \in 0..MaxFaults
      BY <2>14, OutboxAssumption DEF DbErrorCaught, DispatcherDies, TypeOK
    <3>. QED
      BY <2>14, <3>1 DEF DbErrorCaught, DispatcherDies, TypeOK, TaskStates
  <2>15. CASE RequestStop \/ CancelTask
    BY <2>15 DEF RequestStop, CancelTask, TypeOK, TaskStates
  <2>16. CASE Restart
    <3>1. restarts' \in 0..MaxRestarts
      BY <2>16, OutboxAssumption DEF Restart, TypeOK
    <3>. QED
      BY <2>16, <3>1 DEF Restart, TypeOK, TaskStates
  <2>17. ASSUME NEW r \in Rows, LeaseExpires(r) PROVE TypeOK'
    BY <2>17 DEF LeaseExpires, TypeOK
  <2>18. ASSUME NEW r \in Rows, RetryFallsDue(r) PROVE TypeOK'
    BY <2>18 DEF RetryFallsDue, TypeOK
  <2>19. CASE CleanupFallsDue
    BY <2>19 DEF CleanupFallsDue, TypeOK
  <2>20. CASE UNCHANGED vars
    BY <2>20 DEF vars, TypeOK
  <2>. QED
    BY <2>1, <2>3, <2>4, <2>5, <2>6, <2>7, <2>8, <2>9, <2>10, <2>11, <2>12, <2>13, <2>14,
       <2>15, <2>16, <2>17, <2>18, <2>19, <2>20 DEF Next, Dispatch
<1>. QED
  BY <1>1, <1>2, PTL DEF Spec

-----------------------------------------------------------------------------
(***************************************************************************)
(* Rows, aggregates and the audit projection.  Whatever the dispatcher is  *)
(* doing, a step changes them in one of five ways; the proofs below go     *)
(* through these instead of through all actions.                           *)
(***************************************************************************)

\* A leased row goes back to waiting, or to the dead letters when its
\* attempts are used up.
FailsRow(r) ==
    /\ delivery[r] = "leased"
    /\ Settle(r, IF attempts[r] >= MaxAttempts THEN "dead_letter" ELSE "retry_wait")
    /\ UNCHANGED <<logVars, attempts, audit, due>>

\* A leased audit row is delivered together with its projection.
DeliversAudit(e) ==
    /\ delivery[<<e, LocalAudit>>] = "leased"
    /\ Settle(<<e, LocalAudit>>, "delivered")
    /\ audit' = audit \cup {e}
    /\ UNCHANGED <<logVars, attempts, due>>

LeavesRows ==
    /\ UNCHANGED <<logVars, delivery, attempts, aggregate, audit>>
    /\ due' = due \/ \E r \in Rows : delivery[r] = "retry_wait" /\ due' = Append(due, r)

LEMMA RecordFailureCases ==
    ASSUME TypeOK, NEW c \in claims, RecordFailure(c), UNCHANGED <<logVars, audit>>
    PROVE  (\E r \in Rows : FailsRow(r)) \/ LeavesRows
<1>1. c.row \in Rows
  BY DEF TypeOK, Claims
<1>2. CASE Owns(c)
  <2>1. FailsRow(c.row)
    BY <1>1, <1>2 DEF RecordFailure, FailsRow, Owns
  <2>. QED
    BY <1>1, <2>1
<1>3. CASE ~Owns(c)
  BY <1>3 DEF RecordFailure, LeavesRows
<1>. QED
  BY <1>2, <1>3

LEMMA StepCases ==
    ASSUME TypeOK, [Next]_vars
    PROVE  \/ \E T \in TargetSets, tick \in Ticks : AppendEvent(T, tick)
           \/ \E r \in Rows : FailsRow(r)
           \/ \E e \in Events : DeliversAudit(e)
           \/ \E D \in SUBSET Events : CleanUp(D)
           \/ \E i \in DOMAIN due : Claim(i)
           \/ LeavesRows
<1>. USE DEF logVars, rowVars, taskVars
<1>1. ASSUME NEW c \in claims, SweepOne(c) PROVE (\E r \in Rows : FailsRow(r)) \/ LeavesRows
  BY <1>1, RecordFailureCases DEF SweepOne
<1>2. ASSUME NEW c \in claims, FailPublish(c) PROVE (\E r \in Rows : FailsRow(r)) \/ LeavesRows
  BY <1>2, RecordFailureCases DEF FailPublish
<1>3. ASSUME NEW c \in claims, PublishAudit(c)
      PROVE  (\E e \in Events : DeliversAudit(e)) \/ LeavesRows
  <2>1. c.row \in Rows /\ c.row[1] \in Events /\ c.row = <<c.row[1], LocalAudit>>
    BY <1>3 DEF PublishAudit, TypeOK, Claims, Rows
  <2>2. CASE Owns(c)
    BY <1>3, <2>1, <2>2 DEF PublishAudit, DeliversAudit, Owns
  <2>3. CASE ~Owns(c)
    BY <1>3, <2>3 DEF PublishAudit, LeavesRows
  <2>. QED
    BY <2>2, <2>3
<1>4. CASE BeginIteration \/ FinishRecovery \/ BeginMaintenance \/ ClaimNothing
  BY <1>4 DEF BeginIteration, FinishRecovery, BeginMaintenance, ClaimNothing, LeavesRows
<1>5. ASSUME NEW c \in claims, PublishWebSocket(c) PROVE LeavesRows
  BY <1>5 DEF PublishWebSocket, LeavesRows
<1>6. CASE PublishFails \/ DbErrorCaught \/ DispatcherDies \/ RequestStop \/ CancelTask
  BY <1>6 DEF PublishFails, DbErrorCaught, DispatcherDies, RequestStop, CancelTask, LeavesRows
<1>7. CASE Restart \/ CleanupFallsDue
  BY <1>7 DEF Restart, CleanupFallsDue, LeavesRows
<1>8. ASSUME NEW r \in Rows, LeaseExpires(r) \/ RetryFallsDue(r) PROVE LeavesRows
  BY <1>8 DEF LeaseExpires, RetryFallsDue, LeavesRows
<1>9. CASE UNCHANGED vars
  BY <1>9 DEF vars, LeavesRows
<1>. QED
  BY <1>1, <1>2, <1>3, <1>4, <1>5, <1>6, <1>7, <1>8, <1>9 DEF Next, Dispatch

\* The three cases of _refresh_aggregate over all rows of an event.
LEMMA AggregateCases ==
    ASSUME NEW e, NEW states
    PROVE  AggregateOf(e, states) =
             IF \E r \in RowsOf(e) : states[r] = "dead_letter" THEN "dead_letter"
             ELSE IF /\ \E r \in RowsOf(e) : states[r] # "absent"
                     /\ \A r \in RowsOf(e) : states[r] \in {"absent", "delivered"}
             THEN "delivered" ELSE "pending"
BY DEF AggregateOf

LEMMA AggregateLocal ==
    ASSUME NEW e, NEW s1, NEW s2, \A r \in RowsOf(e) : s1[r] = s2[r]
    PROVE  AggregateOf(e, s1) = AggregateOf(e, s2)
BY AggregateCases

\* Nothing is known of an event before it is logged.
FutureAbsent ==
    /\ \A r \in Rows : r[1] > logged => delivery[r] = "absent" /\ attempts[r] = 0
    /\ \A e \in Events : e > logged => aggregate[e] = "absent" /\ e \notin audit

\* Every event that has rows has one for the local audit consumer.
AuditTargeted ==
    \A e \in 1..logged : aggregate[e] # "absent" => delivery[<<e, LocalAudit>>] # "absent"

RowInv == FutureAbsent /\ AggregateSound /\ AuditTargeted /\ AuditReceipt

LEMMA RowFacts ==
    /\ \A r \in Rows : r[1] \in Events /\ r \in RowsOf(r[1])
    /\ \A e \in Events : \A r \in RowsOf(e) : r \in Rows /\ r[1] = e
    /\ \A e \in Events : <<e, LocalAudit>> \in RowsOf(e)
BY OutboxAssumption DEF Rows, RowsOf

LEMMA LoggedFacts ==
    ASSUME TypeOK
    PROVE  /\ logged \in Nat
           /\ \A e \in 1..logged : e \in Events /\ e # logged + 1 /\ ~(e > logged)
           /\ \A e \in Events : e > logged \/ e \in 1..logged
BY OutboxAssumption DEF TypeOK

\* Settling a leased row keeps everything that concerns rows and aggregates.
LEMMA SettleKeeps ==
    ASSUME TypeOK, FutureAbsent, AggregateSound, AuditTargeted,
           NEW r \in Rows, NEW s \in {"retry_wait", "dead_letter", "delivered"},
           delivery[r] = "leased", Settle(r, s), UNCHANGED <<logged, attempts>>
    PROVE  /\ r[1] \in 1..logged /\ aggregate[r[1]] # "absent"
           /\ AggregateSound' /\ AuditTargeted'
           /\ \A e \in Events : aggregate'[e] = "absent" <=> aggregate[e] = "absent"
           /\ \A q \in Rows : delivery'[q] = IF q = r THEN s ELSE delivery[q]
<1>1. /\ r[1] \in Events /\ r[1] \in 1..logged /\ r \in RowsOf(r[1])
      /\ aggregate[r[1]] # "absent"
  BY RowFacts DEF FutureAbsent, AggregateSound, TypeOK
<1>2. /\ \A q \in Rows : delivery'[q] = IF q = r THEN s ELSE delivery[q]
      /\ aggregate'[r[1]] = AggregateOf(r[1], delivery')
      /\ \A e \in Events : e # r[1] => aggregate'[e] = aggregate[e]
  BY <1>1 DEF Settle, TypeOK
<1>3. aggregate'[r[1]] # "absent"
  BY <1>2, AggregateValues
<1>4. ASSUME NEW e \in 1..logged, e # r[1], aggregate[e] # "absent"
      PROVE  aggregate'[e] = AggregateOf(e, delivery')
  <2>1. \A q \in RowsOf(e) : delivery'[q] = delivery[q]
    BY <1>2, <1>4, RowFacts, LoggedFacts
  <2>2. AggregateOf(e, delivery') = AggregateOf(e, delivery)
    BY <2>1, AggregateLocal
  <2>. QED
    BY <1>2, <1>4, <2>2, LoggedFacts DEF AggregateSound
<1>5. ASSUME NEW e \in 1..logged, aggregate'[e] = "absent"
      PROVE  \A q \in RowsOf(e) : delivery'[q] = "absent"
  BY <1>1, <1>2, <1>3, <1>5, RowFacts, LoggedFacts DEF AggregateSound
<1>6. ASSUME NEW e \in 1..logged, aggregate'[e] # "absent"
      PROVE  aggregate'[e] = AggregateOf(e, delivery') /\ delivery'[<<e, LocalAudit>>] # "absent"
  <2>1. e \in Events /\ <<e, LocalAudit>> \in Rows
    BY RowFacts, LoggedFacts
  <2>2. aggregate[e] # "absent"
    BY <1>1, <1>2, <1>6, <2>1
  <2>3. delivery'[<<e, LocalAudit>>] # "absent"
    BY <1>2, <2>1, <2>2 DEF AuditTargeted
  <2>. QED
    BY <1>2, <1>4, <2>2, <2>3
<1>7. AggregateSound' /\ AuditTargeted'
  BY <1>5, <1>6 DEF AggregateSound, AuditTargeted
<1>. QED
  BY <1>1, <1>2, <1>3, <1>7

LEMMA AppendKeepsRows ==
    ASSUME TypeOK, RowInv, NEW T \in TargetSets, NEW tick \in Ticks, AppendEvent(T, tick)
    PROVE  RowInv'
<1>. DEFINE new == logged + 1
<1>1. /\ new \in Events /\ logged' = new /\ audit' = audit /\ attempts' = attempts
      /\ \A r \in Rows : delivery'[r] = IF r[1] = new /\ r[2] \in T THEN "pending" ELSE delivery[r]
      /\ \A e \in Events : aggregate'[e] = IF e = new THEN "pending" ELSE aggregate[e]
  BY OutboxAssumption DEF AppendEvent, TypeOK
<1>2. /\ LocalAudit \in T
      /\ <<new, LocalAudit>> \in RowsOf(new)
      /\ delivery'[<<new, LocalAudit>>] = "pending"
  BY <1>1, TargetSetFacts, RowFacts
<1>3. \A r \in RowsOf(new) : delivery'[r] \in {"absent", "pending"}
  BY <1>1, RowFacts DEF RowInv, FutureAbsent, TypeOK
<1>4. AggregateOf(new, delivery') = "pending"
  BY <1>2, <1>3, AggregateCases
<1>5. ASSUME NEW e \in 1..logged
      PROVE  /\ \A r \in RowsOf(e) : delivery'[r] = delivery[r]
             /\ AggregateOf(e, delivery') = AggregateOf(e, delivery)
             /\ aggregate'[e] = aggregate[e] /\ e \in Events
  <2>1. e \in Events /\ e # new
    BY LoggedFacts
  <2>2. \A r \in RowsOf(e) : delivery'[r] = delivery[r]
    BY <1>1, <2>1, RowFacts
  <2>. QED
    BY <1>1, <2>1, <2>2, AggregateLocal
<1>6. FutureAbsent'
  BY <1>1, RowFacts, LoggedFacts DEF RowInv, FutureAbsent, TypeOK
<1>7. \A e \in 1..new : e = new \/ e \in 1..logged
  BY LoggedFacts
<1>8. AggregateSound'
  BY <1>1, <1>4, <1>5, <1>7 DEF RowInv, AggregateSound
<1>9. AuditTargeted'
  BY <1>1, <1>2, <1>5, <1>7, RowFacts DEF RowInv, AuditTargeted
<1>10. AuditReceipt'
  <2>1. new \notin audit
    BY <1>1, LoggedFacts DEF RowInv, FutureAbsent
  <2>. QED
    BY <1>1, <1>2, <1>5, <1>7, <2>1, RowFacts DEF RowInv, AuditReceipt
<1>. QED
  BY <1>6, <1>8, <1>9, <1>10 DEF RowInv

LEMMA FailsKeepsRows ==
    ASSUME TypeOK, RowInv, NEW r \in Rows, FailsRow(r)
    PROVE  RowInv'
<1>. DEFINE s == IF attempts[r] >= MaxAttempts THEN "dead_letter" ELSE "retry_wait"
<1>1. /\ s \in {"retry_wait", "dead_letter", "delivered"} /\ s # "delivered"
      /\ delivery[r] = "leased" /\ Settle(r, s)
      /\ logged' = logged /\ attempts' = attempts /\ audit' = audit
  BY DEF FailsRow, logVars
<1>. HIDE DEF s
<1>2. /\ r[1] \in 1..logged /\ aggregate[r[1]] # "absent"
      /\ AggregateSound' /\ AuditTargeted'
      /\ \A e \in Events : aggregate'[e] = "absent" <=> aggregate[e] = "absent"
      /\ \A q \in Rows : delivery'[q] = IF q = r THEN s ELSE delivery[q]
  BY <1>1, SettleKeeps DEF RowInv
<1>3. FutureAbsent'
  BY <1>1, <1>2, LoggedFacts DEF RowInv, FutureAbsent
<1>4. \A q \in Rows : delivery'[q] = "delivered" <=> delivery[q] = "delivered"
  BY <1>1, <1>2
<1>5. AuditReceipt'
  BY <1>1, <1>2, <1>4, RowFacts, LoggedFacts DEF RowInv, AuditReceipt
<1>. QED
  BY <1>2, <1>3, <1>5 DEF RowInv

LEMMA DeliversKeepsRows ==
    ASSUME TypeOK, RowInv, NEW e \in Events, DeliversAudit(e)
    PROVE  RowInv'
<1>. DEFINE r == <<e, LocalAudit>>
<1>1. /\ r \in Rows /\ r[1] = e
      /\ delivery[r] = "leased" /\ Settle(r, "delivered")
      /\ logged' = logged /\ attempts' = attempts /\ audit' = audit \cup {e}
  BY RowFacts DEF DeliversAudit, logVars
<1>2. /\ e \in 1..logged /\ aggregate[e] # "absent"
      /\ AggregateSound' /\ AuditTargeted'
      /\ \A d \in Events : aggregate'[d] = "absent" <=> aggregate[d] = "absent"
      /\ \A q \in Rows : delivery'[q] = IF q = r THEN "delivered" ELSE delivery[q]
  <2>. HIDE DEF r
  <2>. QED BY <1>1, SettleKeeps DEF RowInv
<1>3. FutureAbsent'
  BY <1>1, <1>2, LoggedFacts DEF RowInv, FutureAbsent
<1>4. ASSUME NEW d \in 1..logged
      PROVE  d \in audit' <=> \/ delivery'[<<d, LocalAudit>>] = "delivered"
                              \/ aggregate'[d] = "absent"
  <2>1. d \in Events /\ <<d, LocalAudit>> \in Rows
    BY RowFacts, LoggedFacts
  <2>2. CASE d = e
    BY <1>1, <1>2, <2>2
  <2>3. CASE d # e
    BY <1>1, <1>2, <2>1, <2>3 DEF RowInv, AuditReceipt
  <2>. QED
    BY <2>2, <2>3
<1>5. AuditReceipt'
  BY <1>1, <1>4 DEF AuditReceipt
<1>. QED
  BY <1>2, <1>3, <1>5 DEF RowInv

LEMMA CleanUpKeepsRows ==
    ASSUME TypeOK, RowInv, NEW D \in SUBSET Events, CleanUp(D)
    PROVE  RowInv'
<1>1. /\ logged' = logged /\ attempts' = attempts /\ audit' = audit
      /\ \A e \in D : aggregate[e] = "delivered"
      /\ \A e \in Events : aggregate'[e] = IF e \in D THEN "absent" ELSE aggregate[e]
      /\ \A r \in Rows : delivery'[r] = IF r[1] \in D THEN "absent" ELSE delivery[r]
  BY DEF CleanUp, logVars
<1>2. ASSUME NEW e \in 1..logged, e \in D
      PROVE  /\ \A r \in RowsOf(e) : delivery'[r] = "absent"
             /\ e \in audit /\ aggregate'[e] = "absent"
  <2>1. e \in Events /\ aggregate[e] = "delivered" /\ aggregate[e] = AggregateOf(e, delivery)
    BY <1>1, <1>2 DEF RowInv, AggregateSound
  <2>2. delivery[<<e, LocalAudit>>] \in {"absent", "delivered"}
    BY <2>1, AggregateCases, RowFacts
  <2>3. delivery[<<e, LocalAudit>>] = "delivered"
    BY <2>1, <2>2 DEF RowInv, AuditTargeted
  <2>. QED
    BY <1>1, <1>2, <2>1, <2>3, RowFacts DEF RowInv, AuditReceipt
<1>3. ASSUME NEW e \in 1..logged, e \notin D
      PROVE  /\ e \in Events /\ aggregate'[e] = aggregate[e]
             /\ \A r \in RowsOf(e) : delivery'[r] = delivery[r]
             /\ AggregateOf(e, delivery') = AggregateOf(e, delivery)
  <2>1. e \in Events /\ \A r \in RowsOf(e) : delivery'[r] = delivery[r]
    BY <1>1, <1>3, RowFacts, LoggedFacts
  <2>. QED
    BY <1>1, <1>3, <2>1, AggregateLocal
<1>4. FutureAbsent'
  BY <1>1 DEF RowInv, FutureAbsent
<1>5. AggregateSound'
  BY <1>1, <1>2, <1>3 DEF RowInv, AggregateSound
<1>6. AuditTargeted'
  BY <1>1, <1>2, <1>3, RowFacts DEF RowInv, AuditTargeted
<1>7. AuditReceipt'
  BY <1>1, <1>2, <1>3, RowFacts DEF RowInv, AuditReceipt
<1>. QED
  BY <1>4, <1>5, <1>6, <1>7 DEF RowInv

LEMMA ClaimKeepsRows ==
    ASSUME TypeOK, RowInv, NEW i \in DOMAIN due, Claim(i)
    PROVE  RowInv'
<1>. DEFINE r == due[i]
<1>1. /\ r \in Rows /\ delivery[r] \in {"pending", "retry_wait"}
      /\ logged' = logged /\ aggregate' = aggregate /\ audit' = audit
      /\ \A q \in Rows : delivery'[q] = IF q = r THEN "leased" ELSE delivery[q]
      /\ \A q \in Rows : q # r => attempts'[q] = attempts[q]
  BY ShorterDue DEF Claim, TypeOK, logVars
<1>. HIDE DEF r
<1>2. r[1] \in 1..logged
  BY <1>1, RowFacts, LoggedFacts DEF RowInv, FutureAbsent
<1>3. ASSUME NEW e \in 1..logged
      PROVE  AggregateOf(e, delivery') = AggregateOf(e, delivery)
  <2>1. \A q \in RowsOf(e) :
            /\ delivery'[q] = "dead_letter" <=> delivery[q] = "dead_letter"
            /\ delivery'[q] = "absent" <=> delivery[q] = "absent"
            /\ delivery'[q] = "delivered" <=> delivery[q] = "delivered"
    BY <1>1, RowFacts, LoggedFacts
  <2>. QED
    BY <2>1, AggregateCases
<1>4. FutureAbsent'
  BY <1>1, <1>2, LoggedFacts DEF RowInv, FutureAbsent
<1>5. AggregateSound'
  <2>1. ASSUME NEW e \in 1..logged, aggregate[e] = "absent"
        PROVE  \A q \in RowsOf(e) : delivery'[q] = "absent"
    BY <1>1, <2>1, RowFacts, LoggedFacts DEF RowInv, AggregateSound
  <2>. QED
    BY <1>1, <1>3, <2>1 DEF RowInv, AggregateSound
<1>6. AuditTargeted'
  BY <1>1, RowFacts, LoggedFacts DEF RowInv, AuditTargeted
<1>7. AuditReceipt'
  BY <1>1, RowFacts, LoggedFacts DEF RowInv, AuditReceipt
<1>. QED
  BY <1>4, <1>5, <1>6, <1>7 DEF RowInv

LEMMA RowInvInductive == Spec => []RowInv
<1>1. Init => RowInv
  BY DEF Init, RowInv, FutureAbsent, AggregateSound, AuditTargeted, AuditReceipt
<1>2. TypeOK /\ RowInv /\ [Next]_vars => RowInv'
  <2>1. ASSUME RowInv, LeavesRows PROVE RowInv'
    BY <2>1 DEF LeavesRows, logVars, RowInv, FutureAbsent, AggregateSound, AuditTargeted, AuditReceipt,
                AggregateOf
  <2>. QED
    BY <2>1, StepCases, AppendKeepsRows, FailsKeepsRows, DeliversKeepsRows,
       CleanUpKeepsRows, ClaimKeepsRows
<1>. QED
  BY <1>1, <1>2, TypeCorrect, PTL DEF Spec

\* The local audit projection holds an event exactly when its receipt is
\* written or its rows were cleaned up, under any mix of timeouts after the
\* commit, lease recoveries, crashes and restarts.
THEOREM AuditReceiptCorrect == Spec => []AuditReceipt
BY RowInvInductive, PTL DEF RowInv

\* The stored aggregate of every event agrees with its target rows at every
\* commit, though two classes write the rows and each refreshes by itself.
THEOREM AggregateSoundCorrect == Spec => []AggregateSound
BY RowInvInductive, PTL DEF RowInv

-----------------------------------------------------------------------------
(***************************************************************************)
(* The queue of due rows: nothing untried is missing from it, and untried  *)
(* rows stand in it in the order of the clock readings of their creation.  *)
(***************************************************************************)

DueLogged == \A i \in 1..Len(due) : due[i][1] <= logged

BornInOrder == \A d, e \in 1..logged : d <= e => born[d] <= born[e]

DueInOrder ==
    \A i, j \in 1..Len(due) :
        /\ delivery[due[i]] = "pending" /\ delivery[due[j]] = "pending"
        /\ i < j
        => born[due[i][1]] <= born[due[j][1]]

QueueInv == NoStrandedRow /\ DueLogged /\ BornInOrder /\ DueInOrder

LEMMA DueFacts ==
    ASSUME TypeOK
    PROVE  /\ due \in Seq(Rows) /\ Len(due) \in Nat /\ DOMAIN due = 1..Len(due)
           /\ \A i \in 1..Len(due) : due[i] \in Rows /\ due[i][1] \in Nat
           /\ logged \in Nat
<1>1. due \in Seq(Rows) /\ Len(due) \in Nat /\ DOMAIN due = 1..Len(due)
  BY LenProperties DEF TypeOK
<1>2. \A i \in 1..Len(due) : due[i] \in Rows
  BY <1>1, ElementOfSeq
<1>3. \A r \in Rows : r[1] \in Nat
  BY DEF Rows
<1>. QED
  BY <1>1, <1>2, <1>3, LoggedFacts

\* Steps that make no row pending and leave the queue as it is.
LEMMA QueueKept ==
    ASSUME TypeOK, QueueInv, due' = due, logged' = logged, born' = born,
           attempts' = attempts,
           \A r \in Rows :
               /\ delivery'[r] = "pending" => delivery[r] = "pending"
               /\ delivery'[r] = "retry_wait" => attempts[r] < MaxAttempts
               /\ delivery'[r] = "dead_letter" => attempts[r] = MaxAttempts
    PROVE  QueueInv'
<1>1. NoStrandedRow'
  BY DEF QueueInv, NoStrandedRow
<1>2. DueLogged'
  BY DEF QueueInv, DueLogged
<1>3. BornInOrder' /\ DueInOrder'
  BY DueFacts DEF QueueInv, BornInOrder, DueInOrder
<1>. QED
  BY <1>1, <1>2, <1>3 DEF QueueInv

\* An index into a concatenation points into one of its halves.
LEMMA SplitInterval ==
    ASSUME NEW m \in Nat, NEW n \in Nat
    PROVE  \A i \in 1..(m + n) : i \in 1..m \/ \E k \in 1..n : i = m + k
<1>. SUFFICES ASSUME NEW i \in 1..(m + n), i > m
              PROVE  \E k \in 1..n : i = m + k
  OBVIOUS
<1>1. i - m \in 1..n /\ i = m + (i - m)
  OBVIOUS
<1>. QED
  BY <1>1

LEMMA AppendKeepsQueue ==
    ASSUME TypeOK, FutureAbsent, QueueInv, NEW T \in TargetSets, NEW tick \in Ticks, AppendEvent(T, tick)
    PROVE  QueueInv'
<1>. DEFINE new == logged + 1
            n == Cardinality(T)
            order == Listing(T)
<1>1. /\ logged < MaxEvents /\ logged' = new /\ attempts' = attempts /\ new \in Events
      /\ \A r \in Rows : delivery'[r] = IF r[1] = new /\ r[2] \in T THEN "pending" ELSE delivery[r]
  BY OutboxAssumption DEF AppendEvent, TypeOK
<1>2. due' = due \o NewRows(T)
  BY DEF AppendEvent, NewRows
<1>3. /\ n \in Nat
      /\ due' \in Seq(Rows) /\ Len(due') = Len(due) + n
      /\ \A i \in 1..Len(due) : due'[i] = due[i]
      /\ \A i \in 1..n : due'[Len(due) + i] = <<new, order[i]>>
  BY <1>1, <1>2, AppendedDue, ListingFacts
<1>4. DOMAIN due' = 1..Len(due')
  BY <1>3, LenProperties
<1>5. \A c \in T : \E i \in 1..n : order[i] = c
  BY ListingFacts
<1>6. \A i \in 1..Len(due') : i \in 1..Len(due) \/ \E k \in 1..n : i = Len(due) + k
  <2>1. Len(due) \in Nat /\ n \in Nat /\ Len(due') = Len(due) + n
    BY <1>3, DueFacts
  <2>2. \A i \in 1..(Len(due) + n) : i \in 1..Len(due) \/ \E k \in 1..n : i = Len(due) + k
    <3>. HIDE DEF n
    <3>. QED
      BY <2>1, SplitInterval, Zenon
  <2>. QED
    BY <2>1, <2>2, Zenon
<1>7. \A i \in 1..Len(due) : i \in 1..Len(due')
  BY <1>3, DueFacts
<1>8. \A i \in 1..n : Len(due) + i \in 1..Len(due')
  BY <1>3, DueFacts
<1>9. NoStrandedRow'
  <2>1. ASSUME NEW r \in Rows, delivery'[r] = "pending"
        PROVE  (\E i \in DOMAIN due' : due'[i] = r) /\ attempts[r] < MaxAttempts
    <3>1. CASE r[1] = new /\ r[2] \in T
      <4>1. PICK i \in 1..n : order[i] = r[2]
        BY <3>1, <1>5
      <4>2. due'[Len(due) + i] = r
        <5>1. r = <<new, order[i]>>
          BY <3>1, <4>1 DEF Rows
        <5>2. due'[Len(due) + i] = <<new, order[i]>>
          BY <1>3
        <5>. QED
          BY <5>1, <5>2
      <4>3. attempts[r] = 0
        BY <3>1, LoggedFacts DEF FutureAbsent
      <4>. QED
        BY <4>2, <4>3, <1>4, <1>8, OutboxAssumption
    <3>2. CASE ~(r[1] = new /\ r[2] \in T)
      <4>1. delivery[r] = "pending"
        BY <2>1, <3>2, <1>1
      <4>2. PICK i \in 1..Len(due) : due[i] = r
        BY <4>1, DueFacts DEF QueueInv, NoStrandedRow
      <4>. QED
        BY <4>1, <4>2, <1>3, <1>4, <1>7 DEF QueueInv, NoStrandedRow
    <3>. QED
      BY <3>1, <3>2
  <2>2. ASSUME NEW r \in Rows, delivery'[r] # "pending" PROVE delivery'[r] = delivery[r]
    BY <2>2, <1>1
  <2>. QED
    BY <1>1, <2>1, <2>2 DEF QueueInv, NoStrandedRow
<1>10. DueLogged'
  <2>1. \A i \in 1..Len(due) : due'[i][1] <= new
    BY <1>3, DueFacts DEF QueueInv, DueLogged
  <2>2. \A k \in 1..n : due'[Len(due) + k][1] <= new
    BY <1>3, DueFacts
  <2>. QED
    BY <1>1, <1>6, <2>1, <2>2 DEF DueLogged
<1>11. /\ \A d \in 1..logged : born'[d] = born[d] /\ born[d] \in Nat /\ born[d] <= tick
       /\ born'[new] = tick /\ tick \in Nat
  <2>1. /\ born' = [born EXCEPT ![new] = tick]
        /\ \A d \in 1..logged : d \in Events /\ d # new /\ born[d] \in Nat
    BY LoggedFacts DEF AppendEvent, TypeOK
  <2>2. CASE logged = 0
    BY <2>1, <2>2, <1>1 DEF Ticks, TypeOK
  <2>3. CASE logged # 0
    <3>1. logged \in 1..logged /\ born[logged] \in Nat /\ tick \in {born[logged], born[logged] + 1}
      BY <2>1, <2>3, LoggedFacts DEF Ticks
    <3>2. \A d \in 1..logged : born[d] <= born[logged]
      BY <3>1 DEF QueueInv, BornInOrder
    <3>. QED
      BY <2>1, <3>1, <3>2, <1>1 DEF TypeOK
  <2>. QED
    BY <2>2, <2>3
<1>12. BornInOrder'
  <2>1. \A d \in 1..new : d \in 1..logged \/ d = new
    BY LoggedFacts
  <2>2. \A d \in 1..logged : d < new
    BY LoggedFacts
  <2>. QED
    BY <1>1, <1>11, <2>1, <2>2, LoggedFacts DEF QueueInv, BornInOrder
<1>13. DueInOrder'
  <2>. SUFFICES ASSUME NEW i \in 1..Len(due'), NEW j \in 1..Len(due'),
                       delivery'[due'[i]] = "pending", delivery'[due'[j]] = "pending", i < j
                PROVE  born'[due'[i][1]] <= born'[due'[j][1]]
    BY DEF DueInOrder
  <2>1. due'[i][1] \in 1..logged \/ due'[i][1] = new
    <3>1. due'[i] \in Rows
      BY <1>3, ElementOfSeq
    <3>. QED
      BY <1>1, <1>10, <3>1, LoggedFacts DEF DueLogged, Rows
  <2>2. CASE \E k \in 1..n : j = Len(due) + k
    <3>1. due'[j][1] = new
      BY <1>3, <2>2
    <3>. QED
      BY <2>1, <3>1, <1>11
  <2>3. CASE j \in 1..Len(due)
    <3>1. i \in 1..Len(due)
      BY <2>3, DueFacts
    <3>2. /\ due[i][1] # new /\ due[j][1] # new
          /\ due[i][1] \in 1..logged /\ due[j][1] \in 1..logged
      BY <2>3, <3>1, DueFacts DEF QueueInv, DueLogged, Rows
    <3>3. delivery[due[i]] = "pending" /\ delivery[due[j]] = "pending"
      BY <2>3, <3>1, <3>2, <1>1, <1>3, DueFacts
    <3>. QED
      BY <2>3, <3>1, <3>2, <3>3, <1>3, <1>11, SMTT(30) DEF QueueInv, DueInOrder
  <2>. QED
    BY <1>6, <2>2, <2>3
<1>. QED
  BY <1>9, <1>10, <1>12, <1>13 DEF QueueInv

LEMMA ClaimKeepsQueue ==
    ASSUME TypeOK, QueueInv, NEW i \in DOMAIN due, Claim(i)
    PROVE  QueueInv'
<1>. DEFINE r == due[i]
            Old(k) == IF k < i THEN k ELSE k + 1
<1>1. /\ logged' = logged /\ born' = born /\ due' = DueWithout(i) /\ r \in Rows
      /\ \A q \in Rows : delivery'[q] = IF q = r THEN "leased" ELSE delivery[q]
      /\ \A q \in Rows : q # r => attempts'[q] = attempts[q]
  BY ShorterDue DEF Claim, TypeOK, logVars
<1>2. /\ Len(due) \in Nat /\ i \in 1..Len(due)
      /\ Len(due') = Len(due) - 1 /\ DOMAIN due' = 1..Len(due')
      /\ \A k \in 1..Len(due') : due'[k] = due[Old(k)] /\ Old(k) \in 1..Len(due)
  <2>1. /\ Len(due) \in Nat /\ i \in 1..Len(due)
        /\ due' \in Seq(Rows) /\ Len(due') = Len(due) - 1
        /\ \A k \in 1..(Len(due) - 1) : due'[k] = IF k < i THEN due[k] ELSE due[k + 1]
    BY <1>1, ShorterDue
  <2>2. DOMAIN due' = 1..Len(due')
    BY <2>1, LenProperties
  <2>. QED
    BY <2>1, <2>2
<1>3. \A k, l \in 1..Len(due') : k < l => Old(k) < Old(l)
  BY <1>2
<1>4. NoStrandedRow'
  <2>1. ASSUME NEW q \in Rows, delivery'[q] = "pending"
        PROVE  \E k \in DOMAIN due' : due'[k] = q
    <3>1. q # r /\ delivery[q] = "pending"
      BY <1>1, <2>1
    <3>2. PICK k \in 1..Len(due) : due[k] = q
      BY <3>1, DueFacts DEF QueueInv, NoStrandedRow
    <3>3. k # i
      BY <3>1, <3>2
    <3>4. CASE k < i
      BY <1>2, <3>2, <3>4
    <3>5. CASE k > i
      <4>1. k - 1 \in 1..Len(due') /\ Old(k - 1) = k
        BY <1>2, <3>5
      <4>. QED
        BY <1>2, <3>2, <4>1
    <3>. QED
      BY <1>2, <3>3, <3>4, <3>5
  <2>2. \A q \in Rows : delivery'[q] # "leased" => delivery'[q] = delivery[q] /\ attempts'[q] = attempts[q]
    BY <1>1
  <2>. QED
    BY <2>1, <2>2 DEF QueueInv, NoStrandedRow
<1>. HIDE DEF r, Old
<1>5. DueLogged' /\ BornInOrder'
  BY <1>1, <1>2 DEF QueueInv, DueLogged, BornInOrder
<1>6. DueInOrder'
  <2>. SUFFICES ASSUME NEW k \in 1..Len(due'), NEW l \in 1..Len(due'),
                       delivery'[due'[k]] = "pending", delivery'[due'[l]] = "pending", k < l
                PROVE  born'[due'[k][1]] <= born'[due'[l][1]]
    BY DEF DueInOrder
  <2>1. /\ Old(k) \in 1..Len(due) /\ Old(l) \in 1..Len(due) /\ Old(k) < Old(l)
        /\ due'[k] = due[Old(k)] /\ due'[l] = due[Old(l)]
    BY <1>2, <1>3
  <2>2. delivery[due[Old(k)]] = "pending" /\ delivery[due[Old(l)]] = "pending"
    BY <1>1, <2>1, DueFacts
  <2>. QED
    BY <1>1, <2>1, <2>2 DEF QueueInv, DueInOrder
<1>. QED
  BY <1>4, <1>5, <1>6 DEF QueueInv

LEMMA LeavingKeepsQueue ==
    ASSUME TypeOK, FutureAbsent, QueueInv, LeavesRows
    PROVE  QueueInv'
<1>1. /\ logged' = logged /\ born' = born /\ delivery' = delivery /\ attempts' = attempts
  BY DEF LeavesRows, logVars
<1>2. CASE due' = due
  BY <1>1, <1>2, QueueKept DEF QueueInv, NoStrandedRow
<1>3. ASSUME NEW r \in Rows, delivery[r] = "retry_wait", due' = Append(due, r)
      PROVE  QueueInv'
  <2>1. /\ due' \in Seq(Rows) /\ Len(due') = Len(due) + 1
        /\ \A i \in 1..Len(due) : due'[i] = due[i]
        /\ due'[Len(due) + 1] = r
    BY <1>3, DueFacts, AppendProperties
  <2>2. DOMAIN due' = 1..Len(due')
    BY <2>1, LenProperties
  <2>3. /\ \A i \in 1..Len(due) : i \in 1..Len(due')
        /\ \A i \in 1..Len(due') : i \in 1..Len(due) \/ i = Len(due) + 1
    BY <2>1, DueFacts
  <2>4. NoStrandedRow'
    <3>1. ASSUME NEW q \in Rows, delivery[q] = "pending" PROVE \E i \in DOMAIN due' : due'[i] = q
      BY <3>1, <2>1, <2>2, <2>3, DueFacts DEF QueueInv, NoStrandedRow
    <3>. QED
      BY <1>1, <3>1 DEF QueueInv, NoStrandedRow
  <2>5. DueLogged'
    <3>1. r[1] <= logged
      BY <1>3, LoggedFacts DEF FutureAbsent, Rows
    <3>. QED
      BY <1>1, <2>1, <2>3, <3>1 DEF QueueInv, DueLogged
  <2>6. BornInOrder' /\ DueInOrder'
    BY <1>1, <1>3, <2>1, <2>3 DEF QueueInv, BornInOrder, DueInOrder
  <2>. QED
    BY <2>4, <2>5, <2>6 DEF QueueInv
<1>. QED
  BY <1>2, <1>3 DEF LeavesRows

LEMMA QueueInvInductive == Spec => []QueueInv
<1>1. Init => QueueInv
  <2>1. Init => Len(due) = 0
    BY EmptySeq DEF Init
  <2>. QED
    BY <2>1 DEF Init, QueueInv, NoStrandedRow, DueLogged, BornInOrder, DueInOrder
<1>2. TypeOK /\ RowInv /\ QueueInv /\ [Next]_vars => QueueInv'
  <2>. SUFFICES ASSUME TypeOK, RowInv, QueueInv, [Next]_vars PROVE QueueInv'
    OBVIOUS
  <2>1. FutureAbsent
    BY DEF RowInv
  <2>2. ASSUME NEW r \in Rows, FailsRow(r) PROVE QueueInv'
    <3>1. /\ due' = due /\ logged' = logged /\ born' = born /\ attempts' = attempts
          /\ attempts[r] \in Nat /\ attempts[r] <= MaxAttempts
          /\ \A q \in Rows : q # r => delivery'[q] = delivery[q]
          /\ delivery'[r] = IF attempts[r] >= MaxAttempts THEN "dead_letter" ELSE "retry_wait"
      BY <2>2, OutboxAssumption DEF FailsRow, Settle, TypeOK, logVars
    <3>2. /\ delivery'[r] = "retry_wait" => attempts[r] < MaxAttempts
          /\ delivery'[r] = "dead_letter" => attempts[r] = MaxAttempts
          /\ delivery'[r] # "pending"
      BY <3>1, OutboxAssumption
    <3>. QED
      BY <3>1, <3>2, QueueKept DEF QueueInv, NoStrandedRow
  <2>3. ASSUME NEW e \in Events, DeliversAudit(e) PROVE QueueInv'
    <3>1. /\ due' = due /\ logged' = logged /\ born' = born /\ attempts' = attempts
          /\ \A q \in Rows : delivery'[q] \in {"delivered", delivery[q]}
      BY <2>3 DEF DeliversAudit, Settle, TypeOK, logVars
    <3>. QED
      BY <3>1, QueueKept DEF QueueInv, NoStrandedRow
  <2>4. ASSUME NEW D \in SUBSET Events, CleanUp(D) PROVE QueueInv'
    <3>1. /\ due' = due /\ logged' = logged /\ born' = born /\ attempts' = attempts
          /\ \A q \in Rows : delivery'[q] \in {"absent", delivery[q]}
      BY <2>4 DEF CleanUp, logVars
    <3>. QED
      BY <3>1, QueueKept DEF QueueInv, NoStrandedRow
  <2>. QED
    BY <2>1, <2>2, <2>3, <2>4, StepCases, AppendKeepsQueue, ClaimKeepsQueue, LeavingKeepsQueue
<1>. QED
  BY <1>1, <1>2, TypeCorrect, RowInvInductive, PTL DEF Spec

\* No open row is ever out of claim_next's reach, and only rows that used
\* all their attempts are dead letters.
THEOREM NoStrandedRowCorrect == Spec => []NoStrandedRow
BY QueueInvInductive, PTL DEF QueueInv

\* claim_next never takes an untried row while an untried row of an event of
\* an earlier clock tick waits, though it draws among the rows of one tick
\* at random and retries fall due in between.
THEOREM FirstAttemptsCorrect == Spec => FirstAttemptsInTimeOrder
<1>. DEFINE InOrder == \A r, q \in Rows :
                           /\ delivery[r] = "pending" /\ delivery'[r] = "leased"
                           /\ born[q[1]] < born[r[1]]
                           => delivery[q] # "pending"
<1>1. TypeOK /\ QueueInv /\ [Next]_vars => InOrder
  <2>. SUFFICES ASSUME TypeOK, QueueInv, [Next]_vars,
                       NEW r \in Rows, NEW q \in Rows,
                       delivery[r] = "pending", delivery'[r] = "leased",
                       born[q[1]] < born[r[1]], delivery[q] = "pending"
                PROVE  FALSE
    OBVIOUS
  <2>1. PICK i \in DOMAIN due : Claim(i) /\ due[i] = r
    <3>1. ASSUME NEW T \in TargetSets, NEW tick \in Ticks, AppendEvent(T, tick) PROVE FALSE
      BY <3>1 DEF AppendEvent
    <3>2. ASSUME NEW s \in Rows, FailsRow(s) PROVE FALSE
      BY <3>2 DEF FailsRow, Settle, TypeOK
    <3>3. ASSUME NEW e \in Events, DeliversAudit(e) PROVE FALSE
      BY <3>3 DEF DeliversAudit, Settle, TypeOK
    <3>4. ASSUME NEW D \in SUBSET Events, CleanUp(D) PROVE FALSE
      BY <3>4 DEF CleanUp
    <3>5. ASSUME NEW i \in DOMAIN due, Claim(i) PROVE due[i] = r
      BY <3>5 DEF Claim, TypeOK
    <3>6. ~LeavesRows
      BY DEF LeavesRows
    <3>. QED
      BY <3>1, <3>2, <3>3, <3>4, <3>5, <3>6, StepCases
  <2>2. PICK j \in 1..Len(due) : due[j] = q
    BY DueFacts DEF QueueInv, NoStrandedRow
  <2>3. q[1] \in Events /\ r[1] \in Events /\ born[q[1]] \in Nat /\ born[r[1]] \in Nat
    BY DEF Rows, TypeOK
  <2>4. i \in 1..Len(due) /\ i # j
    BY <2>1, <2>2, <2>3, DueFacts
  <2>5. CASE j < i
    <3>1. j \in 1..(i - 1)
      BY <2>4, <2>5, DueFacts
    <3>2. Tied(q, r)
      BY <2>1, <2>2, <3>1 DEF Claim, Selected
    <3>. QED
      BY <2>3, <3>2 DEF Tied
  <2>6. CASE i < j
    <3>1. born[r[1]] <= born[q[1]]
      BY <2>1, <2>2, <2>4, <2>6 DEF QueueInv, DueInOrder
    <3>. QED
      BY <2>3, <3>1
  <2>. QED
    BY <2>4, <2>5, <2>6, DueFacts
<1>2. TypeOK /\ QueueInv /\ [Next]_vars => [InOrder]_vars
  BY <1>1
<1>. QED
  BY <1>2, TypeCorrect, QueueInvInductive, PTL DEF Spec, FirstAttemptsInTimeOrder

-----------------------------------------------------------------------------
(***************************************************************************)
(* The detailed outbox implements its contract.                            *)
(***************************************************************************)

LEMMA ContractStep ==
    ASSUME TypeOK, RowInv, [Next]_vars
    PROVE  [Contract!Next]_Contract!vars
<1>. USE DEF Contract!Rows, Contract!Events, Rows
<1>1. ASSUME NEW T \in TargetSets, NEW tick \in Ticks, AppendEvent(T, tick) PROVE Contract!Log(T)
  <2>1. /\ logged < MaxEvents /\ logged' = logged + 1 /\ audit' = audit
        /\ \A r \in Rows : delivery'[r] = IF r[1] = logged + 1 /\ r[2] \in T THEN "pending" ELSE delivery[r]
    BY <1>1 DEF AppendEvent
  <2>. QED
    BY <2>1 DEF Contract!Log
<1>2. ASSUME NEW r \in Rows, FailsRow(r)
      PROVE  Contract!GiveUp(r) \/ UNCHANGED Contract!vars
  <2>1. /\ logged' = logged /\ audit' = audit /\ delivery[r] = "leased"
        /\ \/ delivery' = [delivery EXCEPT ![r] = "dead_letter"]
           \/ delivery' = [delivery EXCEPT ![r] = "retry_wait"]
    BY <1>2 DEF FailsRow, Settle, logVars
  <2>2. CASE delivery' = [delivery EXCEPT ![r] = "dead_letter"]
    BY <2>1, <2>2 DEF Contract!GiveUp, TypeOK
  <2>3. CASE delivery' = [delivery EXCEPT ![r] = "retry_wait"]
    BY <2>1, <2>3 DEF Contract!vars, TypeOK
  <2>. QED
    BY <2>1, <2>2, <2>3
<1>3. ASSUME NEW e \in Events, DeliversAudit(e)
      PROVE  \E r \in Rows : Contract!Deliver(r)
  <2>. DEFINE r == <<e, LocalAudit>>
  <2>1. r \in Rows /\ r[1] = e /\ r[2] = LocalAudit
    BY OutboxAssumption
  <2>2. /\ logged' = logged /\ audit' = audit \cup {e} /\ delivery[r] = "leased"
        /\ delivery' = [delivery EXCEPT ![r] = "delivered"]
    BY <1>3 DEF DeliversAudit, Settle, logVars
  <2>3. Contract!Deliver(r)
    <3>. HIDE DEF r
    <3>. QED BY <2>1, <2>2 DEF Contract!Deliver, TypeOK
  <2>. QED
    BY <2>1, <2>3
<1>4. ASSUME NEW D \in SUBSET Events, CleanUp(D) PROVE Contract!Forget(D)
  <2>1. /\ logged' = logged /\ audit' = audit
        /\ \A e \in D : aggregate[e] = "delivered"
        /\ \A r \in Rows : delivery'[r] = IF r[1] \in D THEN "absent" ELSE delivery[r]
    BY <1>4 DEF CleanUp, logVars
  <2>2. ASSUME NEW r \in Rows, r[1] \in D PROVE delivery[r] \in {"delivered", "absent"}
    <3>1. r[1] \in 1..logged /\ r \in RowsOf(r[1]) /\ aggregate[r[1]] = "delivered"
      BY <2>1, <2>2, RowFacts, LoggedFacts DEF RowInv, FutureAbsent
    <3>2. AggregateOf(r[1], delivery) = "delivered"
      BY <3>1 DEF RowInv, AggregateSound
    <3>. QED
      BY <3>1, <3>2, AggregateCases
  <2>. QED
    BY <2>1, <2>2 DEF Contract!Forget
<1>5. ASSUME NEW i \in DOMAIN due, Claim(i) PROVE UNCHANGED Contract!vars
  <2>. DEFINE r == due[i]
  <2>1. /\ r \in Rows /\ logged' = logged /\ audit' = audit
        /\ delivery[r] \in {"pending", "retry_wait"}
        /\ delivery' = [delivery EXCEPT ![r] = "leased"]
    BY <1>5, ShorterDue DEF Claim, logVars
  <2>. HIDE DEF r
  <2>. QED
    BY <2>1 DEF Contract!vars, TypeOK
<1>6. ASSUME LeavesRows PROVE UNCHANGED Contract!vars
  BY <1>6 DEF LeavesRows, logVars, Contract!vars
<1>. QED
  BY <1>1, <1>2, <1>3, <1>4, <1>5, <1>6, StepCases DEF Contract!Next

\* Every run of the dispatcher, with its leases, sweeps, timeouts and
\* restarts, is a run of the contract: targets are settled once and for all,
\* the projection comes with its receipt, and dead letters are kept.
THEOREM Refinement == Spec => ImplementsContract
<1>1. Init => Contract!Init
  BY DEF Init, Contract!Init, Contract!Rows, Contract!Events, Rows
<1>. QED
  BY <1>1, ContractStep, TypeCorrect, RowInvInductive, PTL DEF Spec, ImplementsContract, Contract!Spec

-----------------------------------------------------------------------------
\* The row being published stays leased under the dispatcher's token: lease
\* sweeps run in the same task, so none can take the lease away meanwhile.
THEOREM LeaseHeldCorrect == Spec => []LeaseHeldWhilePublishing
<1>1. Init => LeaseHeldWhilePublishing
  BY DEF Init, LeaseHeldWhilePublishing
<1>2. TypeOK /\ RowInv /\ LeaseHeldWhilePublishing /\ [Next]_vars => LeaseHeldWhilePublishing'
  <2>. SUFFICES ASSUME TypeOK, RowInv, LeaseHeldWhilePublishing, [Next]_vars, pc' = "publishing"
                PROVE  Cardinality(claims') = 1 /\ \A c \in claims' : Owns(c)'
    BY DEF LeaseHeldWhilePublishing
  <2>. USE DEF logVars, rowVars, taskVars
  <2>1. ASSUME NEW T \in TargetSets, NEW tick \in Ticks, AppendEvent(T, tick), NEW c \in claims,
               pc = "publishing"
        PROVE  Owns(c)'
    <3>1. c.row \in Rows /\ delivery[c.row] = "leased" /\ attempts[c.row] = c.token
      BY <2>1 DEF LeaseHeldWhilePublishing, Owns, TypeOK, Claims
    <3>2. c.row[1] # logged + 1
      BY <3>1, LoggedFacts, RowFacts DEF RowInv, FutureAbsent
    <3>. QED
      BY <2>1, <3>1, <3>2 DEF AppendEvent, Owns
  <2>2. ASSUME NEW i \in DOMAIN due, Claim(i)
        PROVE  Cardinality(claims') = 1 /\ \A c \in claims' : Owns(c)'
    <3>. DEFINE r == due[i]
    <3>1. Cardinality(claims') = 1
      BY <2>2, FS_Singleton DEF Claim
    <3>2. delivery'[r] = "leased" /\ attempts'[r] = attempts[r] + 1
      BY <2>2, ShorterDue DEF Claim, TypeOK
    <3>. QED
      BY <2>2, <3>1, <3>2 DEF Claim, NewClaim, Owns
  <2>3. ASSUME pc = "publishing", claims' = claims, delivery' = delivery, attempts' = attempts
        PROVE  Cardinality(claims') = 1 /\ \A c \in claims' : Owns(c)'
    BY <2>3 DEF LeaseHeldWhilePublishing, Owns
  <2>4. ASSUME NEW T \in TargetSets, NEW tick \in Ticks, AppendEvent(T, tick)
        PROVE  pc = "publishing" /\ claims' = claims
    BY <2>4 DEF AppendEvent
  <2>5. ASSUME NEW c \in claims, SweepOne(c) PROVE FALSE
    BY <2>5 DEF SweepOne
  <2>6. ASSUME NEW c \in claims, PublishAudit(c) \/ PublishWebSocket(c) \/ FailPublish(c)
        PROVE  FALSE
    BY <2>6 DEF PublishAudit, PublishWebSocket, FailPublish
  <2>7. ASSUME NEW D \in SUBSET Events, CleanUp(D) PROVE FALSE
    BY <2>7 DEF CleanUp
  <2>8. CASE BeginIteration \/ FinishRecovery \/ BeginMaintenance \/ ClaimNothing \/ PublishFails
    BY <2>8 DEF BeginIteration, FinishRecovery, BeginMaintenance, ClaimNothing, PublishFails
  <2>9. CASE DbErrorCaught \/ DispatcherDies \/ CancelTask \/ Restart
    BY <2>9 DEF DbErrorCaught, DispatcherDies, CancelTask, Restart
  <2>10. CASE RequestStop \/ CleanupFallsDue
    BY <2>10, <2>3 DEF RequestStop, CleanupFallsDue
  <2>11. ASSUME NEW r \in Rows, LeaseExpires(r) \/ RetryFallsDue(r)
         PROVE  Cardinality(claims') = 1 /\ \A c \in claims' : Owns(c)'
    BY <2>11, <2>3 DEF LeaseExpires, RetryFallsDue
  <2>12. CASE UNCHANGED vars
    BY <2>12, <2>3 DEF vars
  <2>. QED
    BY <2>1, <2>2, <2>4, <2>5, <2>6, <2>7, <2>8, <2>9, <2>10, <2>11, <2>12
    DEF Next, Dispatch, LeaseHeldWhilePublishing
<1>. QED
  BY <1>1, <1>2, TypeCorrect, RowInvInductive, PTL DEF Spec
=============================================================================
