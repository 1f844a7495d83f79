\* Two rows, two instances and one chain of queryset calls.
SPECIFICATION Spec
CONSTANTS
  i1 = i1
  i2 = i2
  q1 = q1
  h1 = h1
  h2 = h2
  v1 = v1
  v2 = v2
  None = None
  Id = {i1, i2}
  Value = {v1, v2}
  Filter <- MCFilter
  Query = {q1}
  Handle = {h1, h2}
  MaxObjects = 2
  Purging = {0, 1}
SYMMETRY Symmetry
INVARIANTS
  MemoryAgrees
PROPERTIES
  ImplementsTrash
  MarksChangeOnPurpose
