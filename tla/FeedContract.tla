----------------------------- MODULE FeedContract -----------------------------
(***************************************************************************)
(* What the desktop promises its renderer: of the observed workflow it     *)
(* hands over events after its cursor in the order of the log, without a   *)
(* repetition or an exchange, and passes over none but events created in   *)
(* the same tick of the clock as the one handed over, whatever happens to  *)
(* the sockets, tickets, queues and processes in between.                  *)
(***************************************************************************)
EXTENDS Naturals, Sequences

CONSTANT Workflows

VARIABLES
    log,    \* workflow of each event of event_log
    born,   \* creation time of each event
    active, \* the observed workflow
    cursor  \* id of the last event handed over

vars == <<log, born, active, cursor>>

Init == log = <<>> /\ born = <<>> /\ active \in Workflows /\ cursor = 0

Ticks == IF log = <<>> THEN {0} ELSE {born[Len(log)], born[Len(log)] + 1}

Commit(w) ==
    /\ log' = Append(log, w)
    /\ \E tick \in Ticks : born' = Append(born, tick)
    /\ UNCHANGED <<active, cursor>>

Observe(w) == active' = w /\ UNCHANGED <<log, born, cursor>>

HandOver ==
    \E e \in DOMAIN log :
        /\ log[e] = active /\ e > cursor
        /\ \A f \in cursor + 1 .. e - 1 : log[f] = active => born[f] = born[e]
        /\ cursor' = e
        /\ UNCHANGED <<log, born, active>>

Next == (\E w \in Workflows : Commit(w) \/ Observe(w)) \/ HandOver

Spec == Init /\ [][Next]_vars
=============================================================================
