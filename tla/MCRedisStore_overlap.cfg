\* Calls of init and close overlap, fail and are cancelled; batches over a nested namespace.
SPECIFICATION StoreSpec
CONSTANTS
  i1 = i1
  i2 = i2
  i3 = i3
  c1 = c1
  t1 = t1
  n1 = n1
  n2 = n2
  n3 = n3
  k1 = k1
  AnyKey = AnyKey
  NoPool = NoPool
  Opening = {i1, i2, i3}
  Closing = {c1}
  Task = {t1}
  Namespace = {n1, n2, n3}
  Inside <- MCInside
  Key = {k1}
SYMMETRY Symmetry
INVARIANTS
  ServedPoolIsOpen
  NoForgottenPool
  FlushedAreGone
PROPERTIES
  FlushStaysWithin
CHECK_DEADLOCK FALSE
