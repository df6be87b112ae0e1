CONSTANTS
  Walker = {w1, w2}
  IoWorker = {i1, i2}
  CpuWorker = {c1}
  DirCap = 1
  JobCap = 1
  ScanCap = 1
  MatchCap = 1
  top = top
  sub = sub
  side = side
  deep1 = deep1
  deep2 = deep2
  skipped = skipped
  f1 = f1
  f2 = f2
  f3 = f3
  f4 = f4
  f5 = f5
  Dir = {top, sub, side, deep1, deep2, skipped}
  File = {f1, f2, f3, f4, f5}
  Entries <- MCEntries
  Ignored <- MCIgnored
  Allowed = {f1, f2, f3, f4, f5}
  Size <- MCSize
  Lines <- MCLines
  Roots <- MCRoots
  None = None
  MaxBuffers = 4
  MaxFaults = 1
SPECIFICATION FairSpec
INVARIANT SendersFindChannelOpen
INVARIANT BuffersNotShared
PROPERTY ImplementsFileSearch
PROPERTY SearchEnds
CHECK_DEADLOCK FALSE
