----------------------------- MODULE MCRecovery -----------------------------
(* Model values for TLC. *)
EXTENDS Recovery, TLC
CONSTANTS a1, a2, i1
ArchiverSymmetry == Permutations(Archivers)
=============================================================================
