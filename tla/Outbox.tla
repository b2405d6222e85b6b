------------------------------- MODULE Outbox -------------------------------
(***************************************************************************)
(* The reliable outbox: one event_log row, one aggregate outbox_events row *)
(* and one outbox_deliveries row per target are written in the transaction *)
(* of the business change; one dispatcher task per process leases due      *)
(* rows, publishes them outside the transaction, and records the outcome.  *)
(*                                                                         *)
(* Each write of the dispatcher is one SQLite transaction under the write  *)
(* lock, hence one action; everything between two awaits is part of it.    *)
(*                                                                         *)
(* Time is abstracted to what the code compares with it.  `due' holds the  *)
(* rows whose next_attempt_at has passed, in next_attempt_at order, `born' *)
(* the clock reading at which the rows of an event were created, which     *)
(* several events of one transaction or one tick of the clock may share;   *)
(* `expired' the leased rows whose lease_expires_at has passed;            *)
(* `cleanupDue' is loop.time() >= next_cleanup.  Wall-clock time is taken  *)
(* to be monotonic.  A lease token is minted with every increment of       *)
(* attempt_count, so the attempt number stands for the token.              *)
(***************************************************************************)
EXTENDS Naturals, Sequences, FiniteSets

CONSTANTS
    Consumers,    \* consumer names of outbox_deliveries rows
    LocalAudit,   \* "local_audit_v1": writes its effect and its receipt together
    WebSocket,    \* "websocket_v1": hands the event to the in-memory broker
    TargetSets,   \* the delivery_targets tuples the services construct
    MaxAttempts,  \* settings.outbox_max_attempts
    BatchSize,    \* settings.outbox_recovery_batch_size
    MaxEvents,    \* bound on appended events
    MaxRestarts,  \* bound on process restarts
    MaxFaults     \* bound on OperationalErrors met by the dispatcher

ASSUME OutboxAssumption ==
    /\ {LocalAudit, WebSocket} \subseteq Consumers /\ LocalAudit # WebSocket
    /\ IsFiniteSet(Consumers)
    /\ TargetSets \subseteq SUBSET Consumers
    /\ \A T \in TargetSets : LocalAudit \in T
    /\ MaxAttempts \in Nat \ {0} /\ BatchSize \in Nat \ {0}
    /\ MaxEvents \in Nat /\ MaxRestarts \in Nat /\ MaxFaults \in Nat

VARIABLES
    logged,      \* event_log: events 1..logged exist
    born,        \* created_at of the outbox rows of each event, in clock ticks
    delivery,    \* delivery_state of each outbox_deliveries row, "absent" if no row
    attempts,    \* attempt_count of each row
    due,         \* sequence of rows claim_next may select, in its ORDER BY
    expired,     \* leased rows whose lease_expires_at has passed
    aggregate,   \* delivery_state of each outbox_events row, "absent" if no row
    audit,       \* events with a local_audit_events row
    pc,          \* where the dispatcher task of the process is
    claims,      \* ClaimedDelivery objects the dispatcher holds
    recoveryDue, \* local variable recovery_due of run()
    cleanupDue,  \* the cleanup deadline has passed
    stop,        \* the stop event is set
    restarts,    \* restarts so far
    faults       \* database errors so far

logVars == <<logged, born>>
rowVars == <<delivery, attempts, due, expired, aggregate>>
taskVars == <<pc, claims, recoveryDue, cleanupDue, stop>>
vars == <<logVars, rowVars, audit, taskVars, restarts, faults>>

Events == 1..MaxEvents
Rows == Events \X Consumers
DeliveryStates == {"absent", "pending", "leased", "retry_wait", "delivered", "dead_letter"}
AggregateStates == {"absent", "pending", "delivered", "dead_letter"}
TaskStates == {"loop", "recovering", "checking", "maintaining", "claiming",
               "publishing", "failing", "stopped", "dead"}
Claims == [row : Rows, token : 0..MaxAttempts]

RowsOf(e) == {e} \X Consumers

\* Mutation of Owns: the lease token alone is compared.
OwnsByToken(c) == attempts[c.row] = c.token

\* The WHERE clause that every conditional update of a leased row carries.
Owns(c) == delivery[c.row] = "leased" /\ attempts[c.row] = c.token

\* Mutation of AggregateOf: the state of an unsettled target shows through.
AggregateUnfolded(e, states) ==
    LET open == {r \in RowsOf(e) : states[r] \notin {"absent", "delivered"}}
    IN IF open = {} THEN "delivered" ELSE states[CHOOSE r \in open : TRUE]

\* _refresh_aggregate: any dead target, else all delivered, else pending.
AggregateOf(e, states) ==
    LET targets == {r \in RowsOf(e) : states[r] # "absent"}
    IN CASE \E r \in targets : states[r] = "dead_letter" -> "dead_letter"
         [] targets # {} /\ \A r \in targets : states[r] = "delivered" -> "delivered"
         [] OTHER -> "pending"

\* Mutation of Settle: the aggregate is not refreshed.
SettleRowOnly(r, s) ==
    /\ delivery' = [delivery EXCEPT ![r] = s]
    /\ expired' = expired \ {r}
    /\ UNCHANGED aggregate

\* Write state s to row r and refresh the aggregate of its event; the row
\* no longer carries a lease.
Settle(r, s) ==
    LET states == [delivery EXCEPT ![r] = s]
    IN /\ delivery' = states
       /\ aggregate' = [aggregate EXCEPT ![r[1]] = AggregateOf(r[1], states)]
       /\ expired' = expired \ {r}

\* Mutation of RecordFailure: off by one at the attempt limit.
RecordFailureLate(c) ==
    /\ IF Owns(c)
       THEN Settle(c.row, IF c.token > MaxAttempts THEN "dead_letter" ELSE "retry_wait")
       ELSE UNCHANGED <<delivery, aggregate, expired>>
    /\ UNCHANGED <<attempts, due>>

\* record_failure: a no-op unless the claim still owns the lease.
RecordFailure(c) ==
    /\ IF Owns(c)
       THEN Settle(c.row, IF c.token >= MaxAttempts THEN "dead_letter" ELSE "retry_wait")
       ELSE UNCHANGED <<delivery, aggregate, expired>>
    /\ UNCHANGED <<attempts, due>>

\* A batch, up to the limit, of the rows in R.
BatchOf(B, R) ==
    /\ B \subseteq R
    /\ B = R \/ Cardinality(B) = BatchSize
    /\ Cardinality(B) <= BatchSize

\* Mutation of ExpiredBatch: rows on their last attempt are passed over.
ExpiredBatchRetryable(B) ==
    BatchOf(B, {r \in expired : delivery[r] = "leased" /\ attempts[r] < MaxAttempts})

\* recover_expired_leases reads a batch of expired leases outside the lock.
ExpiredBatch(B) == BatchOf(B, {r \in expired : delivery[r] = "leased"})

ClaimsOn(B) == {[row |-> r, token |-> attempts[r]] : r \in B}

-----------------------------------------------------------------------------
Init ==
    /\ logged = 0
    /\ born = [e \in Events |-> 0]
    /\ delivery = [r \in Rows |-> "absent"]
    /\ attempts = [r \in Rows |-> 0]
    /\ due = <<>>
    /\ expired = {}
    /\ aggregate = [e \in Events |-> "absent"]
    /\ audit = {}
    /\ pc = "loop"
    /\ claims = {}
    /\ recoveryDue = TRUE
    /\ cleanupDue = FALSE
    /\ stop = FALSE
    /\ restarts = 0
    /\ faults = 0

\* A list of the consumers in T.
Listing(T) ==
    CHOOSE list \in [1..Cardinality(T) -> T] :
        \A c \in T : \E i \in 1..Cardinality(T) : list[i] = c

\* What the clock may show: the time of the event before, or a later one.
Ticks == IF logged = 0 THEN {0} ELSE {born[logged], born[logged] + 1}

\* A business transaction commits its event with one pending row per target;
\* next_attempt_at is the creation time, so the rows are due at once.
AppendEvent(T, tick) ==
    LET e == logged + 1
        targets == Listing(T)
    IN /\ logged < MaxEvents
       /\ logged' = e
       /\ born' = [born EXCEPT ![e] = tick]
       /\ delivery' = [r \in Rows |-> IF r[1] = e /\ r[2] \in T THEN "pending" ELSE delivery[r]]
       /\ aggregate' = [aggregate EXCEPT ![e] = "pending"]
       /\ due' = due \o [i \in 1..Cardinality(T) |-> <<e, targets[i]>>]
       /\ UNCHANGED <<attempts, expired, audit, taskVars, restarts, faults>>

\* The while condition and the first branch of run().
BeginIteration ==
    /\ pc = "loop"
    /\ \/ /\ stop
          /\ pc' = "stopped"
          /\ UNCHANGED claims
       \/ /\ ~stop /\ recoveryDue
          /\ \E B \in SUBSET expired : ExpiredBatch(B) /\ claims' = ClaimsOn(B)
          /\ pc' = "recovering"
       \/ /\ ~stop /\ ~recoveryDue
          /\ pc' = "checking"
          /\ UNCHANGED claims
    /\ UNCHANGED <<logVars, rowVars, audit, recoveryDue, cleanupDue, stop, restarts, faults>>

\* One record_failure of the sweep over the batch read before.
SweepOne(c) ==
    /\ pc \in {"recovering", "maintaining"}
    /\ c \in claims
    /\ RecordFailure(c)
    /\ claims' = claims \ {c}
    /\ UNCHANGED <<logVars, audit, pc, recoveryDue, cleanupDue, stop, restarts, faults>>

FinishRecovery ==
    /\ pc = "recovering" /\ claims = {}
    /\ pc' = "checking"
    /\ recoveryDue' = FALSE
    /\ UNCHANGED <<logVars, rowVars, audit, claims, cleanupDue, stop, restarts, faults>>

\* The cleanup deadline has passed: recover once more, then clean up.
BeginMaintenance ==
    /\ pc = "checking" /\ cleanupDue
    /\ \E B \in SUBSET expired : ExpiredBatch(B) /\ claims' = ClaimsOn(B)
    /\ pc' = "maintaining"
    /\ UNCHANGED <<logVars, rowVars, audit, recoveryDue, cleanupDue, stop, restarts, faults>>

\* cleanup_delivered: delivered aggregates past the retention (any subset of
\* them) go, and their delivery rows with them (ON DELETE CASCADE).
CleanUp(D) ==
    /\ pc = "maintaining" /\ claims = {}
    /\ \A e \in D : aggregate[e] = "delivered"
    /\ aggregate' = [e \in Events |-> IF e \in D THEN "absent" ELSE aggregate[e]]
    /\ delivery' = [r \in Rows |-> IF r[1] \in D THEN "absent" ELSE delivery[r]]
    /\ pc' = "claiming"
    /\ cleanupDue' = FALSE
    /\ UNCHANGED <<logVars, attempts, due, expired, audit, claims, recoveryDue, stop, restarts, faults>>

\* Untried rows of one tick have equal next_attempt_at and created_at: their
\* random ids, drawn anew for every row, decide which comes first.
Tied(q, r) ==
    delivery[q] = "pending" /\ delivery[r] = "pending" /\ born[q[1]] = born[r[1]]

\* Mutation of Selected: any due row.
SelectedAnywhere(i) == i \in DOMAIN due

\* Whether the row due[i] may be the one that claim_next's SELECT ...
\* ORDER BY next_attempt_at, created_at, id LIMIT 1 returns.
Selected(i) == \A j \in 1..(i - 1) : Tied(due[j], due[i])

DueWithout(i) == [k \in 1..(Len(due) - 1) |-> IF k < i THEN due[k] ELSE due[k + 1]]

\* Mutation of NewClaim: the token is that of the attempt before.
StaleClaim(r) == [row |-> r, token |-> attempts[r]]

NewClaim(r) == [row |-> r, token |-> attempts[r] + 1]

AtClaim == pc = "claiming" \/ (pc = "checking" /\ ~cleanupDue)

\* claim_next: the oldest due row is leased under a new token.
Claim(i) ==
    LET r == due[i]
    IN /\ AtClaim
       /\ Selected(i)
       /\ delivery[r] \in {"pending", "retry_wait"}
       /\ attempts[r] < MaxAttempts
       /\ delivery' = [delivery EXCEPT ![r] = "leased"]
       /\ attempts' = [attempts EXCEPT ![r] = @ + 1]
       /\ due' = DueWithout(i)
       /\ claims' = {NewClaim(r)}
       /\ pc' = "publishing"
       /\ UNCHANGED <<logVars, expired, aggregate, audit, recoveryDue, cleanupDue, stop, restarts, faults>>

\* Nothing to claim: wait for the poll interval, then loop.
ClaimNothing ==
    /\ AtClaim
    /\ due = <<>>
    /\ pc' = "loop"
    /\ UNCHANGED <<logVars, rowVars, audit, claims, recoveryDue, cleanupDue, stop, restarts, faults>>

\* LocalAuditPublisher.publish: effect and receipt in one transaction that
\* checks the lease first.  The publish timeout may strike after the commit:
\* then run() goes on to record a failure of a row already delivered.
PublishAudit(c) ==
    /\ pc = "publishing" /\ c \in claims
    /\ c.row[2] = LocalAudit
    /\ IF Owns(c)
       THEN /\ audit' = audit \cup {c.row[1]}
            /\ Settle(c.row, "delivered")
       ELSE UNCHANGED <<audit, delivery, aggregate, expired>>
    /\ \/ pc' = "loop" /\ claims' = {}
       \/ pc' = "failing" /\ UNCHANGED claims
    /\ UNCHANGED <<logVars, attempts, due, recoveryDue, cleanupDue, stop, restarts, faults>>

\* WebSocketEventPublisher.publish: the broker takes the event; the lease
\* arguments are discarded and no row is written.
PublishWebSocket(c) ==
    /\ pc = "publishing" /\ c \in claims
    /\ c.row[2] = WebSocket
   
    /\ pc' = "loop" /\ claims' = {}
    /\ UNCHANGED <<logVars, rowVars, audit, recoveryDue, cleanupDue, stop, restarts, faults>>

\* No publisher registered, an exception, or a timeout before any effect.
PublishFails ==
    /\ pc = "publishing"
    /\ pc' = "failing"
    /\ UNCHANGED <<logVars, rowVars, audit, claims, recoveryDue, cleanupDue, stop, restarts, faults>>

\* The record_failure call of the three failure branches of run().
FailPublish(c) ==
    /\ pc = "failing" /\ c \in claims
    /\ RecordFailure(c)
    /\ pc' = "loop" /\ claims' = {}
    /\ UNCHANGED <<logVars, audit, recoveryDue, cleanupDue, stop, restarts, faults>>

-----------------------------------------------------------------------------
\* An OperationalError inside the try block of run(): wait, then loop.
DbErrorCaught ==
    /\ pc \in {"recovering", "checking", "maintaining", "claiming"}
    /\ faults < MaxFaults
    /\ faults' = faults + 1
    /\ pc' = "loop" /\ claims' = {}
    /\ UNCHANGED <<logVars, rowVars, audit, recoveryDue, cleanupDue, stop, restarts>>

\* An OperationalError in a record_failure of the failure branches leaves
\* run(): nothing restarts the task.
DispatcherDies ==
    /\ pc = "failing"
    /\ faults < MaxFaults
    /\ faults' = faults + 1
    /\ pc' = "dead" /\ claims' = {}
    /\ UNCHANGED <<logVars, rowVars, audit, recoveryDue, cleanupDue, stop, restarts>>

\* _stop_outbox_dispatcher: set the stop event; when the drain time is over
\* the task is cancelled at whatever await it is in.
RequestStop ==
    /\ ~stop
    /\ stop' = TRUE
    /\ UNCHANGED <<logVars, rowVars, audit, pc, claims, recoveryDue, cleanupDue,
                   restarts, faults>>

CancelTask ==
    /\ stop /\ pc \notin {"stopped", "dead"}
    /\ pc' = "stopped" /\ claims' = {}
    /\ UNCHANGED <<logVars, rowVars, audit, recoveryDue, cleanupDue, stop, restarts, faults>>

\* A new process after a shutdown or a crash at any point.
Restart ==
    /\ restarts < MaxRestarts
    /\ restarts' = restarts + 1
    /\ pc' = "loop" /\ claims' = {}
    /\ recoveryDue' = TRUE /\ cleanupDue' = FALSE /\ stop' = FALSE
    /\ UNCHANGED <<logVars, rowVars, audit, faults>>

\* Time passes a row's lease or retry deadline.
LeaseExpires(r) ==
    /\ delivery[r] = "leased" /\ r \notin expired
    /\ expired' = expired \cup {r}
    /\ UNCHANGED <<logVars, delivery, attempts, due, aggregate, audit, taskVars,
                   restarts, faults>>

RetryFallsDue(r) ==
    /\ delivery[r] = "retry_wait"
    /\ \A i \in DOMAIN due : due[i] # r
    /\ due' = Append(due, r)
    /\ UNCHANGED <<logVars, delivery, attempts, expired, aggregate, audit, taskVars, restarts, faults>>

CleanupFallsDue ==
    /\ ~cleanupDue
    /\ cleanupDue' = TRUE
    /\ UNCHANGED <<logVars, rowVars, audit, pc, claims, recoveryDue, stop, restarts, faults>>

-----------------------------------------------------------------------------
Dispatch ==
    \/ BeginIteration
    \/ \E c \in claims : SweepOne(c)
    \/ FinishRecovery
    \/ BeginMaintenance
    \/ \E D \in SUBSET Events : CleanUp(D)
    \/ \E i \in DOMAIN due : Claim(i)
    \/ ClaimNothing
    \/ \E c \in claims : PublishAudit(c)
    \/ \E c \in claims : PublishWebSocket(c)
    \/ PublishFails
    \/ \E c \in claims : FailPublish(c)

Next ==
    \/ \E T \in TargetSets, tick \in Ticks : AppendEvent(T, tick)
    \/ Dispatch
    \/ DbErrorCaught
    \/ DispatcherDies
    \/ RequestStop
    \/ CancelTask
    \/ Restart
    \/ \E r \in Rows : LeaseExpires(r)
    \/ \E r \in Rows : RetryFallsDue(r)
    \/ CleanupFallsDue

\* The event loop keeps scheduling a task that has not ended, and clocks
\* advance.  Nothing makes a publisher succeed or a stopped process restart.
Fairness ==
    /\ WF_vars(Dispatch)
    /\ \A r \in Rows : WF_vars(LeaseExpires(r)) /\ WF_vars(RetryFallsDue(r))
    /\ WF_vars(CleanupFallsDue)

Spec == Init /\ [][Next]_vars
FairSpec == Spec /\ Fairness

-----------------------------------------------------------------------------
TypeOK ==
    /\ logged \in 0..MaxEvents
    /\ born \in [Events -> Nat]
    /\ delivery \in [Rows -> DeliveryStates]
    /\ attempts \in [Rows -> 0..MaxAttempts]
    /\ due \in Seq(Rows)
    /\ expired \in SUBSET Rows
    /\ aggregate \in [Events -> AggregateStates]
    /\ audit \in SUBSET Events
    /\ pc \in TaskStates
    /\ claims \in SUBSET Claims
    /\ recoveryDue \in BOOLEAN /\ cleanupDue \in BOOLEAN /\ stop \in BOOLEAN
    /\ restarts \in 0..MaxRestarts
    /\ faults \in 0..MaxFaults

\* The audit projection and the receipt never part: an audit row exists
\* exactly for the events whose local_audit target is delivered, or whose
\* delivery rows were cleaned up, whatever publish timeouts, crashes and
\* lease recoveries came in between.
AuditReceipt ==
    \A e \in 1..logged :
        e \in audit <=> \/ delivery[<<e, LocalAudit>>] = "delivered"
                        \/ aggregate[e] = "absent"

\* The aggregate row, maintained by refreshes in two different classes, is
\* at every commit what the target rows say; events cleaned up have no rows.
AggregateSound ==
    \A e \in 1..logged :
        IF aggregate[e] = "absent"
        THEN \A r \in RowsOf(e) : delivery[r] = "absent"
        ELSE aggregate[e] = AggregateOf(e, delivery)

\* No open row is beyond the reach of claim_next, whose WHERE clause would
\* skip a row with all attempts used up; a dead letter had all its attempts.
NoStrandedRow ==
    \A r \in Rows :
        /\ delivery[r] = "pending" => \E i \in DOMAIN due : due[i] = r
        /\ delivery[r] \in {"pending", "retry_wait"} => attempts[r] < MaxAttempts
        /\ delivery[r] = "dead_letter" => attempts[r] = MaxAttempts

\* The row being published is leased under the token the dispatcher holds:
\* no recovery takes a lease away from the publication under way.
LeaseHeldWhilePublishing ==
    pc = "publishing" => Cardinality(claims) = 1 /\ \A c \in claims : Owns(c)

\* Rows are attempted for the first time in the order of their creation: no
\* claim overtakes the untried row of an event of an earlier clock tick,
\* however many retries interleave.  (Within a tick the order is random.)
FirstAttemptsInTimeOrder ==
    [][\A r, q \in Rows :
          /\ delivery[r] = "pending" /\ delivery'[r] = "leased"
          /\ born[q[1]] < born[r[1]]
          => delivery[q] # "pending"]_vars

\* While the dispatcher task stays alive every target row ends delivered,
\* dead-lettered or cleaned up; none waits forever behind others.
EventuallySettled ==
    <>[](pc \notin {"stopped", "dead"} /\ ~stop) =>
        \A r \in Rows :
            delivery[r] \in {"pending", "leased", "retry_wait"}
                ~> delivery[r] \in {"delivered", "dead_letter", "absent"}

-----------------------------------------------------------------------------
\* What the outbox promises, without leases, attempts, batches and tasks.
Contract == INSTANCE OutboxContract
    WITH target <- [r \in Rows |->
             IF delivery[r] \in {"pending", "leased", "retry_wait"} THEN "open"
             ELSE delivery[r]]
ImplementsContract == Contract!Spec
=============================================================================
