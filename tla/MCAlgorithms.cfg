SPECIFICATION CallSpec
CONSTANTS
  FileSliceLimit = 4
  BufferSize = 2
  MaxBytes = 5
  MaxLine = 4
  Blank <- MCBlank
  Separator = "---"
  Header <- MCHeader
  Opens <- MCOpens
  Closes <- MCCloses
  Size <- MCSize
  MaxChunkSize = 4
  MaxFileLines = 5
  MaxTree = 4
  NoName = NoName
  PeekSize = 3
  ReaderBufSize = 3
  MaxDim = 6
  Centroids <- MCCentroids
  FirstCheck = 2
  CheckEvery = 2
  Slash = "/"
  RankConstant = 60
  CandidateMultiplier = 2
  MaxCandidates = 3
  MinSimilarity = 10
  GrepChunk = 2
  Space = " "
  Operators = {"("}
  Compiles <- MCCompiles
  MatchesLine <- MCMatchesLine
INVARIANTS SlicerExact SplitterExact ParsersExact ScannersExact CodecExact VectorSearchExact LexicalSearchExact FusionRespectsBoth SearchScoped
CHECK_DEADLOCK FALSE
