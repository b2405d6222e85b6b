------------------------- MODULE MCWorkerSupervisor -------------------------
(* Instances of WorkerSupervisor for TLC. *)
EXTENDS WorkerSupervisor, TLC

Interchangeable == Permutations(Handles) \cup Permutations(Requests)
=============================================================================
