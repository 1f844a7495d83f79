---------------------------- MODULE MCRedisStore ----------------------------
(* Instances of RedisStore for TLC.                                          *)
EXTENDS RedisStore, TLC

CONSTANTS n1, n2, n3

\* The name of n2 begins with that of n1.
MCInside == (n1 :> {n2}) @@ (n2 :> {}) @@ (n3 :> {})

Symmetry == Permutations(Opening)
=============================================================================
