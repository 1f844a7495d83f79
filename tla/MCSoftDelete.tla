---------------------------- MODULE MCSoftDelete ----------------------------
(* Instances of SoftDelete for TLC.                                          *)
EXTENDS SoftDelete, TLC

CONSTANTS v1, v2

\* A filter on a column of the user, and one on deleted_at itself.
MCFilter == {{r \in Row : r.val = v1}, Live}

Symmetry == Permutations(Id) \cup Permutations(Handle)
=============================================================================
