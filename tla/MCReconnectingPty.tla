------------------------------ MODULE MCReconnectingPty ----------------------------
(* Small instance of ReconnectingPty for TLC.  The first message fills the ring at  *)
(* once, the second one pushes out a byte of it.                                    *)
EXTENDS ReconnectingPty

CONSTANTS c1, c2, p1, p2

MCMessages == <<2, 1>>
Symmetry == Permutations({c1, c2}) \cup Permutations({p1, p2})
====================================================================================
