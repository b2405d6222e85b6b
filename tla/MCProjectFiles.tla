--------------------------- MODULE MCProjectFiles ---------------------------
(* Instance of ProjectFiles for TLC: the request slots are alike.           *)
EXTENDS ProjectFiles, TLC

Interchangeable == Permutations(Requests)

UnderWay == {r \in Requests : op[r] # Idle}

(* Where the states are spent.  Until the first checkpoint: a second         *)
(* registration and preflights race, after at most one edit.  Up to two      *)
(* checkpoints: two requests overlap with two edits.  The third checkpoint   *)
(* is made by a scan that runs alone, of a project where only the first file *)
(* changed; once its conflict is recorded, two requests overlap that resolve *)
(* it or restore the first checkpoint, and a third edit races them.          *)
Focus ==
    /\ attempts > 1 => store = <<>>
    /\ store = <<>> => edits <= 1
    /\ edits = MaxEdits => Len(store) > 2 /\ UnderWay # {}
    /\ store # <<>> => /\ project # "ready"
                       /\ \A r \in UnderWay : op[r].kind # "preflight"
    /\ Len(store) > 2 =>
         /\ workspace[2] = 0
         /\ \A r \in UnderWay :
              \/ op[r].kind \in {"keep", "merge", "agent"}
              \/ (op[r].kind = "restore" /\ op[r].target = 1)
              \/ (op[r].kind = "scan" /\ UnderWay = {r})
         /\ conflicts = <<>> => Cardinality(UnderWay) = 1

=============================================================================
