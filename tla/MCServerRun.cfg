CONSTANTS
  vendor = vendor
  main = main
  Codebase <- MCCodebase
  File <- MCFile
  EvalSymlinks <- MCEvalSymlinks
  v1 = v1
  v2 = v2
  h1 = h1
  h2 = h2
  k1 = k1
  k2 = k2
  Version = {v1, v2}
  Hash = {h1, h2}
  HashOf <- MCHashOf
  Chunk = {k1, k2}
  ChunksOf <- MCChunksOf
  Absent = Absent
  TxSize = 1
  MaxRuns = 4
  MaxEdits = 1
  MaxFaults = 1
SPECIFICATION ServerFairSpec
INVARIANT SettledRowsReachable
PROPERTY CompactLeavesNoOrphans
PROPERTY SweepEndsEventually
PROPERTY SignalTerminates
CHECK_DEADLOCK FALSE
