-------------------------- MODULE MCReplicaManager --------------------------
(* ReplicaManager on a small instance: one clock runs ahead of the other.  *)
EXTENDS ReplicaManager, TLC
CONSTANTS r1, r2
OneAhead == r1 :> 0 @@ r2 :> 1
=============================================================================
