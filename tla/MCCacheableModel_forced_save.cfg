\* A cache hit saved with update_fields or force_update; nothing fails.
SPECIFICATION Spec
CONSTANTS
  t1 = t1
  t2 = t2
  p1 = p1
  p2 = p2
  a1 = a1
  v1 = v1
  v2 = v2
  All = All
  None = None
  Task = {t1, t2}
  Pk = {p1}
  Content = {v1, v2}
  Alias = {a1}
  AliasOf <- MCAliasOf
  Cached = TRUE
  Allowed = {"write_proxy"}
  Faults = {}
PROPERTIES
  ProxiesNeverOverwrite
