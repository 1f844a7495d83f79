\* Overlapping and crashing operations on three nodes, one handle for each node at a
\* time, the saved columns listed.
SPECIFICATION Spec
CONSTANTS
  n1 = n1
  n2 = n2
  n3 = n3
  h1 = h1
  h2 = h2
  None = None
  Node = {n1, n2, n3}
  Handle = {h1, h2}
  MaxCount = 1
  MaxLost = 0
  BlockOrphans = TRUE
  Allowed = {"interleave", "crash"}
SYMMETRY Symmetry
INVARIANTS
  CountsMatch
  SettledCounts
CHECK_DEADLOCK FALSE
