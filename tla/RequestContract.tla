--------------------------- MODULE RequestContract ---------------------------
(***************************************************************************)
(* What a caller of WorkerSupervisor.send and ping is promised: a request  *)
(* is carried out by its worker at most once, is settled at most once, and *)
(* is answered only if it was carried out.  A request that was given up or *)
(* refused may still have been carried out, or may be later.               *)
(***************************************************************************)
CONSTANT Requests

VARIABLES outcome, served
vars == <<outcome, served>>

Outcomes == {"none", "open", "answered", "abandoned", "unavailable", "invalid"}

Init ==
    /\ outcome = [r \in Requests |-> "none"]
    /\ served = {}

Ask(r) ==
    /\ outcome[r] = "none"
    /\ outcome' = [outcome EXCEPT ![r] = "open"]
    /\ UNCHANGED served

Serve(r) ==
    /\ outcome[r] \notin {"none", "invalid", "answered"}
    /\ r \notin served
    /\ served' = served \cup {r}
    /\ UNCHANGED outcome

Settle(r) ==
    /\ outcome[r] = "open"
    /\ \E result \in {"answered", "abandoned", "unavailable", "invalid"} :
           /\ result = "answered" => r \in served
           /\ result = "invalid" => r \notin served
           /\ outcome' = [outcome EXCEPT ![r] = result]
    /\ UNCHANGED served

Next == \E r \in Requests : Ask(r) \/ Serve(r) \/ Settle(r)

Spec == Init /\ [][Next]_vars
=============================================================================
