\* Every query over three ids, with and without rows, and every small edge table; every
\* stream query over every table of up to three events.
SPECIFICATION QueriesSpec
CONSTANTS
  x = x
  y = y
  m1 = m1
  m2 = m2
  None = None
  Id = {1, 2, 3}
  Type = {x, y}
  Namespace = {m1, m2}
  Graph <- MCGraph
  Start = {1}
  MaxHops = {0, 1, 3}
  MaxCycles = {0, 1, 2}
  Pk = {1, 2, 3}
  Stream = {1, 2}
  Time = {0, 1, 2}
  Bounds = {0, 1, 3}
  Widths = {1, 2}
  Limits = {0, 2}
INVARIANTS
  PathsAreComplete
  DistancesAreLeast
  CyclesOnce
  CycleIsSeen
  LatestIsNewest
  PagesJoin
CHECK_DEADLOCK FALSE
