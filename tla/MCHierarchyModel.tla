-------------------------- MODULE MCHierarchyModel --------------------------
(* Instances of HierarchyModel for TLC.                                      *)
EXTENDS HierarchyModel

CONSTANTS t1, t2, n1, n2, n3, n4, a, b, x, y

\* Names repeat along a path: a.b.a.b can be built.
MCRepeatingNames == [n \in Node |-> IF n \in {n1, n3} THEN a ELSE b]
MCOneNamespace == [n \in Node |-> x]
\* n3 is of another namespace, with the name of n1.
MCTwoNamespaces == [n \in Node |-> IF n \in {n3} THEN y ELSE x]

\* n2 and n4 have one name and one namespace.
Twins == Permutations({n2, n4}) \cup Permutations(Task)
=============================================================================
