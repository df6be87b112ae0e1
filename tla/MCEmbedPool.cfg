CONSTANTS
  Jobs = 3
  PoolSize = 2
  MaxRetries = 2
  MaxElapsed = 1
  Timeout = 2
  Unknown = Unknown
SPECIFICATION FairSpec
INVARIANT PoolBounded
INVARIANT RequestsGiveUp
PROPERTY EmbeddingEnds
PROPERTY ImplementsEmbedBatch
CHECK_DEADLOCK FALSE
