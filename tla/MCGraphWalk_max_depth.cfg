\* Subtrees of tables of three nodes, nothing changed during the walk.
SPECIFICATION WalkSpec
CONSTANTS
  n1 = n1
  n2 = n2
  n3 = n3
  n4 = n4
  None = None
  Node = {n1, n2, n3}
  here = here
  there = there
  MaxDepth = 2
  NamespaceOf <- MCNamespaceOf
  SafetyLimit = 2
  Limits <- MCLimits
  MaxChanges = 0
  Handle = {}
  BlockOrphans = TRUE
  Allowed = {}
  MaxCount = 0
  MaxLost = 0
INVARIANTS
  WithinMaxDepth
CHECK_DEADLOCK FALSE
