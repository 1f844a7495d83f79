----------------------------- MODULE MCGraphNode -----------------------------
(* Instances of GraphNode for TLC.                                           *)
EXTENDS GraphNode, TLC

NodeSymmetry == Permutations(Node)
HandleSymmetry == Permutations(Handle)
Symmetry == NodeSymmetry \cup HandleSymmetry
=============================================================================
