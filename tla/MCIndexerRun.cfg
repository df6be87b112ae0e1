CONSTANTS
  app = app
  main = main
  src = src
  Codebase <- MCCodebase
  File <- MCFile
  EvalSymlinks <- MCEvalSymlinks
  v1 = v1
  v2 = v2
  v3 = v3
  h1 = h1
  h2 = h2
  k1 = k1
  k2 = k2
  Version = {v1, v2, v3}
  Hash = {h1, h2}
  HashOf <- MCHashOf
  Chunk = {k1, k2}
  ChunksOf <- MCChunksOf
  Absent = Absent
  TxSize = 2
  MaxRuns = 3
  MaxEdits = 1
  MaxFaults = 1
SPECIFICATION IndexerFairSpec
INVARIANT DurableVectors
INVARIANT OrphansExplained
INVARIANT TreeBacked
PROPERTY IndexerEnds
CHECK_DEADLOCK FALSE
