--------------------------- MODULE MCMemoryService ---------------------------
(* Instances of MemoryService for TLC. *)
EXTENDS MemoryService, TLC

CONSTANTS c1, c2, i1, i2, i3, b1, b2, k1

ClientSymmetry == Permutations(Clients) \cup Permutations(Bodies)
=============================================================================
