CONSTANTS
  Proc = {server, indexer}
  Id = {i1}
  Inode = {a, b, c, d, e}
  None = None
  MaxFaults = 1
SPECIFICATION FairSpec
INVARIANT FileLoads
PROPERTY RenamePublishesIndex
PROPERTY SaveEnds
PROPERTY ImplementsVectorFile
CHECK_DEADLOCK FALSE
