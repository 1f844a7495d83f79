\* One operation at a time, plain save() of every instance.
SPECIFICATION Spec
CONSTANTS
  n1 = n1
  n2 = n2
  h1 = h1
  h2 = h2
  None = None
  Node = {n1, n2}
  Handle = {h1, h2}
  MaxCount = 3
  MaxLost = 0
  BlockOrphans = FALSE
  Allowed = {"full_save"}
SYMMETRY Symmetry
INVARIANTS
  SettledCounts
