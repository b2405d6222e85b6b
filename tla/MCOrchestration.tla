--------------------------- MODULE MCOrchestration ---------------------------
(* A stage run with a few streams and request keys. *)
EXTENDS Orchestration, TLC

Interchangeable == Permutations(Streams) \cup Permutations(Keys)
=============================================================================
