\* Overlapping moves, siblings of one name, two namespaces that repeat each other's paths.
SPECIFICATION Spec
CONSTANTS
  t1 = t1
  t2 = t2
  n1 = n1
  n2 = n2
  n3 = n3
  n4 = n4
  a = a
  b = b
  x = x
  y = y
  None = None
  Label = {a, b}
  NameOf <- MCRepeatingNames
  NamespaceOf <- MCTwoNamespaces
  Task = {t1, t2}
  Node = {n1, n2, n3, n4}
  Allowed = {"interleave", "same_names"}
  MaxDepth = 2
  MaxViews = 2
SYMMETRY Twins
INVARIANTS
  DepthsAndNamesMatch
PROPERTIES
  MovesStayInNamespace
