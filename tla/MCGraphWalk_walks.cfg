\* All tables of four nodes, one change during the walk.
SPECIFICATION WalkSpec
CONSTANTS
  n1 = n1
  n2 = n2
  n3 = n3
  n4 = n4
  None = None
  Node = {n1, n2, n3, n4}
  here = here
  there = there
  MaxDepth = 3
  NamespaceOf <- MCNamespaceOf
  SafetyLimit = 2
  Limits <- MCLimits
  MaxChanges = 1
  Handle = {}
  BlockOrphans = TRUE
  Allowed = {}
  MaxCount = 0
  MaxLost = 0
INVARIANTS
  WalkTypeOK
  WalksFollowLinks
  QuietWalksAreExact
PROPERTIES
  WalksEnd
CHECK_DEADLOCK FALSE
