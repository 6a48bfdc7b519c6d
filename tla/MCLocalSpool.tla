----------------------------- MODULE MCLocalSpool -----------------------------
(* Instances of LocalSpool for TLC. *)
EXTENDS LocalSpool, TLC

CONSTANTS e1, e2, e3, m1, u1, h1, h2, s1, s2

HookSymmetry == Permutations(Hooks) \cup Permutations(Events)
=============================================================================
