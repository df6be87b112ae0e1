CONSTANTS
  a = a
  b = b
  v = v
  c1 = c1
  c2 = c2
  c3 = c3
  h1 = h1
  h2 = h2
  Name = {a, b, v}
  Path <- MCPath
  Indexable = {a, b}
  Skipped = {v}
  Content = {c1, c2, c3}
  HashOf <- MCHashOf
  Dir = Dir
  None = None
SPECIFICATION Spec
INVARIANT DiffIsFlat
CHECK_DEADLOCK TRUE
