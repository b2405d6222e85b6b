--------------------------- MODULE OutboxContract ---------------------------
(***************************************************************************)
(* What the outbox promises to the rest of the platform, event by event    *)
(* and target by target: the targets are fixed when the event is logged,   *)
(* a target is settled once and for all, the local audit row appears       *)
(* together with its receipt, and only events all of whose targets are     *)
(* delivered are forgotten, so a dead letter is kept.                      *)
(***************************************************************************)
EXTENDS Naturals

CONSTANTS Consumers, LocalAudit, TargetSets, MaxEvents

VARIABLES logged, target, audit

vars == <<logged, target, audit>>

Events == 1..MaxEvents
Rows == Events \X Consumers

Init ==
    /\ logged = 0
    /\ target = [r \in Rows |-> "absent"]
    /\ audit = {}

Log(T) ==
    /\ logged < MaxEvents
    /\ logged' = logged + 1
    /\ target' = [r \in Rows |-> IF r[1] = logged + 1 /\ r[2] \in T THEN "open" ELSE target[r]]
    /\ UNCHANGED audit

\* The receipt; for the local audit consumer the effect commits with it.
Deliver(r) ==
    /\ target[r] = "open"
    /\ target' = [target EXCEPT ![r] = "delivered"]
    /\ audit' = IF r[2] = LocalAudit THEN audit \cup {r[1]} ELSE audit
    /\ UNCHANGED logged

GiveUp(r) ==
    /\ target[r] = "open"
    /\ target' = [target EXCEPT ![r] = "dead_letter"]
    /\ UNCHANGED <<logged, audit>>

\* Cleanup removes whole events, and none with an unsettled or dead target.
Forget(D) ==
    /\ \A r \in Rows : r[1] \in D => target[r] \in {"delivered", "absent"}
    /\ target' = [r \in Rows |-> IF r[1] \in D THEN "absent" ELSE target[r]]
    /\ UNCHANGED <<logged, audit>>

Next ==
    \/ \E T \in TargetSets : Log(T)
    \/ \E r \in Rows : Deliver(r) \/ GiveUp(r)
    \/ \E D \in SUBSET Events : Forget(D)

Spec == Init /\ [][Next]_vars
=============================================================================
