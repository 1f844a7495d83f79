\* One operation at a time on up-to-date instances; siblings have names of their own.
SPECIFICATION Spec
CONSTANTS
  t1 = t1
  t2 = t2
  n1 = n1
  n2 = n2
  n3 = n3
  n4 = n4
  a = a
  b = b
  x = x
  y = y
  None = None
  Label = {a, b}
  NameOf <- MCRepeatingNames
  NamespaceOf <- MCOneNamespace
  Task = {t1}
  Node = {n1, n2, n3, n4}
  Allowed = {}
  MaxDepth = 4
  MaxViews = 2
INVARIANTS
  QueriesFollowLinks
  AlwaysValid
PROPERTIES
  ImplementsForest
  MovesTheSubtree
