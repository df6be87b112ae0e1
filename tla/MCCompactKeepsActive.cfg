CONSTANTS
  vendor = vendor
  main = main
  Codebase <- MCOneCodebase
  File <- MCFile
  EvalSymlinks <- MCEvalSymlinks
  v1 = v1
  v2 = v2
  h1 = h1
  h2 = h2
  k1 = k1
  k2 = k2
  Version = {v1, v2}
  Hash = {h1, h2}
  HashOf <- MCHashOf
  Chunk = {k1, k2}
  ChunksOf <- MCChunksOf
  Absent = Absent
  TxSize = 1
  MaxRuns = 3
  MaxEdits = 1
  MaxFaults = 0
SPECIFICATION ServerSpec
PROPERTY CompactKeepsActive
CHECK_DEADLOCK FALSE
