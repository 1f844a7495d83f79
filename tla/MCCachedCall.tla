---------------------------- MODULE MCCachedCall ----------------------------
(* Instances of CachedCall for TLC: f and h have the same cache key in two   *)
(* namespaces; g, a cached query, has its own.                               *)
EXTENDS CachedCall

CONSTANTS c1, c2, c3, c4, c5, c6, c7, u1, f, g, h, nf, ng, nq, kf, kg

MCFuncOf == [c \in Call |-> CASE c = c1 -> f [] c = c2 -> h [] OTHER -> g]
MCTargetOf == [u \in Update |-> f]
MCNamespaceOf == [x \in Func |-> CASE x = f -> nf [] x = h -> ng [] x = g -> nq]
MCKeys == [x \in Func |-> IF x = g THEN kg ELSE kf]

MCFlat == [c \in Call |-> NoCall]
\* The body of the function c1 invokes awaits the query of c4.
MCNested == [c \in Call |-> IF c = c1 THEN c4 ELSE NoCall]

\* Bound: calls of f and h, with the update, or a crowd of four calls of the query.
Begun == {c \in Call : pc[c] # "idle"}
OneCast ==
  \/ Begun \subseteq {c1, c2, c3, c4}
  \/ Begun \subseteq {c3, c5, c6, c7} /\ \A u \in Update : upc[u] = "idle"
=============================================================================
