------------------------- MODULE MCCryptoKeyRotator -------------------------
(* CryptoKeyRotator on a small instance.                                   *)
EXTENDS CryptoKeyRotator, TLC
AnyReplica == Permutations(Replicas)
=============================================================================
