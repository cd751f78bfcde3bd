--------------------------- MODULE MCDurableJobs ---------------------------
(***************************************************************************)
(* A small instance of DurableJobs: a scanner, an executor and a            *)
(* transactional loop all serve the same kind, which is more than the code  *)
(* ever combines, so that every statement meets every other on one row.     *)
(***************************************************************************)
EXTENDS DurableJobs, TLC

CONSTANTS j1, j2, s1, e1, t1

MixedKindOf == [j \in Jobs |-> "ANY"]
MixedServes == [w \in Workers |-> "ANY"]
MixedRole == s1 :> "scanner" @@ e1 :> "executor" @@ t1 :> "transactional"
=============================================================================
