--------------------------- MODULE MCAuthSessions ---------------------------
(* AuthSessions on small instances: one user's tokens.                     *)
EXTENDS AuthSessions, TLC
CONSTANT u1
OneOwner == [t \in Tokens |-> u1]
Interchangeable == Permutations(Tokens) \cup Permutations(Replicas)
=============================================================================
