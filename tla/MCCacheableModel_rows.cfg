\* Two tasks, a row cached under its key, an alias and the list; Redis fails, tasks are cancelled.
SPECIFICATION FairSpec
CONSTANTS
  t1 = t1
  t2 = t2
  p1 = p1
  p2 = p2
  a1 = a1
  v1 = v1
  v2 = v2
  All = All
  None = None
  Task = {t1, t2}
  Pk = {p1}
  Content = {v1, v2}
  Alias = {a1}
  AliasOf <- MCAliasOf
  Cached = TRUE
  Allowed = {"interleave", "write_proxy"}
  Faults = {"redis", "cancel"}
INVARIANTS
  StaleOnlyByOverlap
PROPERTIES
  OverwrittenOnlyWhenTold
  EventuallyFresh
