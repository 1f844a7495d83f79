\* Processes that are up over a dropped table have nothing left to do.
CHECK_DEADLOCK FALSE
SPECIFICATION FairSpec
CONSTANTS
  p1 = p1
  p2 = p2
  i1 = i1
  i2 = i2
  i3 = i3
  i4 = i4
  k1 = k1
  k2 = k2
  NoPk = NoPk
  Process <- MCProcess
  Partitioned = {p1, p2}
  Compressed = {p1}
  Retained = {p2}
  OwnInterval = TRUE
  StartRows <- MCStartRows
  Instance <- MCInstance
  Pk = {k1, k2}
  PkOf <- MCPkOf
  Explicit = {i1, i3, i4}
  MaxLost = 1
  MaxManaged = 1
CONSTRAINT OneRowOrOneProcess
INVARIANTS UpMeansConfigured SentInOrder RaceLostOnce SavedHaveRows
PROPERTY EventuallyConfigured
