\* f awaits the query g, which another call awaits as well; f and h share their cache
\* key in two namespaces.  Or four calls meet in the flights of g.  Redis fails and calls
\* are cancelled.
SPECIFICATION FairSpec
CONSTANTS
  c1 = c1
  c2 = c2
  c3 = c3
  c4 = c4
  c5 = c5
  c6 = c6
  c7 = c7
  u1 = u1
  f = f
  g = g
  h = h
  nf = nf
  ng = ng
  nq = nq
  kf = kf
  kg = kg
  NoCall = NoCall
  None = None
  FuncOf <- MCFuncOf
  TargetOf <- MCTargetOf
  NamespaceOf <- MCNamespaceOf
  Call = {c1, c2, c3, c4, c5, c6, c7}
  Update = {u1}
  Func = {f, g, h}
  Query = {g}
  Namespace = {nf, ng, nq}
  Key = {kf, kg}
  KeyOf <- MCKeys
  Inner <- MCNested
  Ttl = 1
  Cancellable = {c2, c3, c4, c5, c6, u1}
  RedisFails = TRUE
CONSTRAINT OneCast
INVARIANTS
  AtMostOneExecution
  NoStrandedWaiter
  StaleOnlyIfMissed
  EntriesAreOwn
  WaitersShareTheExecution
PROPERTIES
  EveryCallEnds
  EventuallyFresh
CHECK_DEADLOCK FALSE
