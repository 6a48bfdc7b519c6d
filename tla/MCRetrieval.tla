----------------------------- MODULE MCRetrieval -----------------------------
(* Instances of Retrieval for TLC. *)
EXTENDS Retrieval, TLC

CONSTANTS ma, mb, w1

\* The last record of either collection has the words of the query.
MCMatching == {<<1, 3>>, <<2, 2>>}
ModelSymmetry == Permutations(Models)
=============================================================================
