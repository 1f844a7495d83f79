-------------------------- MODULE MCCacheableModel --------------------------
(* Instances of CacheableModel for TLC.                                      *)
EXTENDS CacheableModel, TLC

CONSTANTS p1, p2, a1

MCAliasOf == [a \in Alias |-> p1]

Symmetry == Permutations(Task) \cup Permutations(Content)
=============================================================================
