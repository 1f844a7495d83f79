\* The traversals over edges of two namespaces.
SPECIFICATION QueriesSpec
CONSTANTS
  x = x
  y = y
  m1 = m1
  m2 = m2
  None = None
  Id = {1, 2, 3}
  Type = {x, y}
  Namespace = {m1, m2}
  Graph <- MCGraph
  Start = {1}
  MaxHops = {3}
  MaxCycles = {0, 1, 2}
  Pk = {}
  Stream = {1, 2}
  Time = {0, 1, 2}
  Bounds = {0}
  Widths = {1, 2}
  Limits = {0, 2}
INVARIANTS
  WalksKeepToANamespace
CHECK_DEADLOCK FALSE
