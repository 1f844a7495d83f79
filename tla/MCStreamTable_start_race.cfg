\* Two processes start at once; no answer is lost and nobody interferes.
SPECIFICATION Spec
CONSTANTS
  p1 = p1
  p2 = p2
  i1 = i1
  i2 = i2
  i3 = i3
  i4 = i4
  k1 = k1
  k2 = k2
  NoPk = NoPk
  Process <- MCProcess
  Partitioned = {p1, p2}
  Compressed = {p1}
  Retained = {p1, p2}
  OwnInterval = TRUE
  StartRows <- MCEmpty
  Instance = {i4}
  Pk = {k1, k2}
  PkOf <- MCNoPkOf
  Explicit = {}
  MaxLost = 0
  MaxManaged = 0
INVARIANT SafeOnEveryStart
CHECK_DEADLOCK FALSE
