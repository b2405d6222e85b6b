-------------------------- MODULE DeliveryContract --------------------------
(***************************************************************************)
(* What a workflow promises whatever its clients send: the stages are gone *)
(* through one by one; a handoff packet seals an attempt of the stage that *)
(* is worked on; going back to a stage, or asking for a change of it,      *)
(* voids the packets of all attempts of that stage and of every later one, *)
(* and of no earlier one.  A stage may be left without a packet: the       *)
(* transition endpoint lets a client complete it without a gate.           *)
(***************************************************************************)
EXTENDS Naturals

CONSTANTS NumStages, MaxAttempts

VARIABLES
    position, \* the stage that is worked on
    sealed    \* attempts <<stage, number>> with a valid handoff packet

vars == <<position, sealed>>

Stages == 1..NumStages
Attempts == Stages \X (1..MaxAttempts)

Init == position = 1 /\ sealed = {}

Forward == position' = IF position = NumStages THEN position ELSE position + 1

\* The stage ends with a packet, or without one.
Deliver(a) == a[1] = position /\ sealed' = sealed \cup {a} /\ Forward
Leave == Forward /\ UNCHANGED sealed

VoidFrom(s) == sealed' = {a \in sealed : a[1] < s}

\* A stage is reopened: the position goes back.
Rework(s) == s <= position /\ position' = s /\ VoidFrom(s)

\* A change request: the position stays.
Invalidate(s) == s <= position /\ VoidFrom(s) /\ UNCHANGED position

Next ==
    \/ \E a \in Attempts : Deliver(a)
    \/ Leave
    \/ \E s \in Stages : Rework(s) \/ Invalidate(s)

Spec == Init /\ [][Next]_vars
=============================================================================
