\* Two awaits of one cached query at the same time.
SPECIFICATION Spec
CONSTANTS
  c1 = c1
  c2 = c2
  c3 = c3
  c4 = c4
  c5 = c5
  c6 = c6
  c7 = c7
  u1 = u1
  f = f
  g = g
  h = h
  nf = nf
  ng = ng
  nq = nq
  kf = kf
  kg = kg
  NoCall = NoCall
  None = None
  FuncOf <- MCFuncOf
  TargetOf <- MCTargetOf
  NamespaceOf <- MCNamespaceOf
  Call = {c3, c4}
  Update = {}
  Func = {f, g, h}
  Query = {g}
  Namespace = {nf, ng, nq}
  Key = {kf, kg}
  KeyOf <- MCKeys
  Inner <- MCFlat
  Ttl = 1
  Cancellable = {}
  RedisFails = FALSE
INVARIANTS
  QueriesReturnInstances
CHECK_DEADLOCK FALSE
