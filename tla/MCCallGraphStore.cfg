CONSTANTS
  Root = root
  File = {f1, f2}
  v1 = v1
  v2 = v2
  v3 = v3
  h1 = h1
  h2 = h2
  h3 = h3
  run = run
  fn = fn
  Trun = Trun
  Version = {v1, v2, v3}
  Hash = {h1, h2, h3}
  HashOf <- MCHashOf
  Absent = Absent
  Name = {run, fn, Trun}
  Decl <- MCDecl
  Calls <- MCCalls
  Parses = {v1, v2}
  HasChunks = {v1, v2}
  Like <- MCLike
  DotLike <- MCDotLike
  MaxDepth = 2
  MaxRuns = 2
  MaxEdits = 1
  MaxFaults = 1
  MaxReports = 1
SPECIFICATION Spec
INVARIANT TreeInGraph
INVARIANT CallersMirrorCallees
INVARIANT ReportIsExact
CHECK_DEADLOCK FALSE
