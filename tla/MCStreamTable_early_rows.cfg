\* Two processes start over an empty table and insert; no answer is lost and nobody interferes.
SPECIFICATION FairSpec
CONSTANTS
  p1 = p1
  p2 = p2
  i1 = i1
  i2 = i2
  i3 = i3
  i4 = i4
  k1 = k1
  k2 = k2
  NoPk = NoPk
  Process <- MCProcess
  Partitioned = {p1, p2}
  Compressed = {p1}
  Retained = {p1, p2}
  OwnInterval = TRUE
  StartRows <- MCEmpty
  Instance <- MCInstance
  Pk = {k1, k2}
  PkOf <- MCPkOf
  Explicit = {i1, i3, i4}
  MaxLost = 0
  MaxManaged = 0
PROPERTY StartsGetThrough
CHECK_DEADLOCK FALSE
