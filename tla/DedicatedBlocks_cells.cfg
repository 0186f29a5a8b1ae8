CONSTANTS
  t1 = t1
  t2 = t2
  n1 = n1
  n2 = n2
  None = None
  Threads <- MCThreads
  Pages <- MCPages
  PagesPerCell = 2
  Granule = 1
  Sizes <- MCSizes
  SmallPage = 0
  Shards <- MCShards
  ShardOf <- MCShardOf
  MapCapacity = 1
  Nodes <- MCNodes
  ChunkNodeCount = 1
  BucketCount = 2
  BucketLimit = 1
  MaxProbe = 2
  BucketIndex <- MCBucketIndex
  LimitPages = 3
  MaxCalls = 3
SPECIFICATION Spec
INVARIANT FindsOwnRegion
