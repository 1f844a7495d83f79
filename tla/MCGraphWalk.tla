----------------------------- MODULE MCGraphWalk -----------------------------
(* Instances of GraphWalk for TLC: no handle writes the rows of GraphNode.   *)
EXTENDS GraphModel

CONSTANTS n1, n2, n3, n4, here, there

\* The last node is in a namespace of its own.
MCNamespaceOf == [n \in Node |-> IF n = n4 THEN there ELSE here]

\* Unlimited is -1.
MCLimits == {-1, 0, 1, 2}
=============================================================================
