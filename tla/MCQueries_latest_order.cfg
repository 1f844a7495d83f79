\* latest_per_stream over the events of two streams.
SPECIFICATION QueriesSpec
CONSTANTS
  x = x
  y = y
  m1 = m1
  m2 = m2
  None = None
  Id = {}
  Type = {x, y}
  Namespace = {m1, m2}
  Graph <- MCGraph
  Start = {}
  MaxHops = {3}
  MaxCycles = {0, 1, 2}
  Pk = {1, 2}
  Stream = {1, 2}
  Time = {0, 1, 2}
  Bounds = {0}
  Widths = {1, 2}
  Limits = {0, 2}
INVARIANTS
  NewestFirst
CHECK_DEADLOCK FALSE
