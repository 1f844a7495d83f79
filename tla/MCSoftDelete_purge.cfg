\* One chain of queryset calls, whatever it ends with, over two rows and one instance.
SPECIFICATION Spec
CONSTANTS
  i1 = i1
  i2 = i2
  q1 = q1
  h1 = h1
  v1 = v1
  v2 = v2
  None = None
  Id = {i1, i2}
  Value = {v1, v2}
  Filter <- MCFilter
  Query = {q1}
  Handle = {h1}
  MaxObjects = 1
  Purging = {0, 1, 2}
PROPERTY ImplementsTrash
