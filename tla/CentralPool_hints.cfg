CONSTANTS
  t1 = t1
  t2 = t2
  t3 = t3
  Threads = {t1,t2,t3}
  NumShards = 2
  ShardOf <- ThreeThreads
  PageShardOf <- OnePageShard
  SpanObjs = {s1,s2,s3}
  Extents = {x1,x2}
  BlocksPerSpan = 2
  MaxBatch = 1
  MaxReturnBatchGroups = 1
  MaxRetainedEmptySpans = 1
  None = None
SYMMETRY Interchangeable
SPECIFICATION Spec
INVARIANT ReturnedToOwnSpan
