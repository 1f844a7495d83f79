------------------------------ MODULE MCQueries ------------------------------
(* Instances of Queries for TLC.                                             *)
EXTENDS Queries

CONSTANTS x, y, m1, m2

EdgesOf(t, ns) == {e \in Edge : e.edge_type = t /\ e.namespace = ns}

\* All tables of up to three edges of one type and namespace, and of two edges that differ
\* in one of them.
MCGraph ==
  UNION {kSubset(k, EdgesOf(x, m1)) : k \in 0..3}
    \cup {{e, f} : e \in EdgesOf(x, m1), f \in EdgesOf(y, m1) \cup EdgesOf(x, m2)}
=============================================================================
