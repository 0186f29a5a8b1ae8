CONSTANTS
  t1 = t1
  t2 = t2
  t3 = t3
  Threads = {t1, t2}
  NumShards = 2
  ShardOf <- TwoShards
  PageShardOf <- TwoShards
  SpanObjs = {s1, s2}
  Extents = {x1, x2}
  BlocksPerSpan = 2
  MaxBatch = 2
  MaxReturnBatchGroups = 1
  MaxRetainedEmptySpans = 1
  None = None
SPECIFICATION Spec
INVARIANTS TypeOK BlocksAccounted SpansConsistent PagesExclusive
PROPERTY CriticalSectionsEnd
