-------------------------------- MODULE Forest --------------------------------
(***************************************************************************)
(* What a hierarchy is meant to be, whatever columns encode it: a set of   *)
(* nodes under a parent each, which grows by new leaves and is rearranged  *)
(* by moving a whole subtree under a node outside of it.                   *)
(***************************************************************************)
CONSTANTS Node, None

VARIABLE up  \* the parent of each node there is, None for a root

Init == up = [n \in {} |-> None]

\* The smallest set with n that has the children of its members.
Subtree(n) ==
  {m \in DOMAIN up :
     \A S \in SUBSET DOMAIN up :
       n \in S /\ (\A c \in DOMAIN up : up[c] \in S => c \in S) => m \in S}

Plant(n, p) ==
  /\ n \notin DOMAIN up
  /\ p \in DOMAIN up \cup {None}
  /\ up' = [m \in DOMAIN up \cup {n} |-> IF m = n THEN p ELSE up[m]]

Graft(n, p) ==
  /\ n \in DOMAIN up
  /\ p \in DOMAIN up \ Subtree(n)
  /\ up' = [up EXCEPT ![n] = p]

Next == \E n \in Node, p \in Node \cup {None} : Plant(n, p) \/ Graft(n, p)

Spec == Init /\ [][Next]_up

\* There is no cycle: in every set of nodes one has its parent outside of the set.
Acyclic == \A S \in SUBSET DOMAIN up : S # {} => \E n \in S : up[n] \notin S
=============================================================================
