CONSTANTS
  NumShards = 2
  PageCounts = {1, 2}
  RegionPages = 4
  Granule = 2
  MaxRegionId = 4
SPECIFICATION Spec
INVARIANT HeldCommitted
CHECK_DEADLOCK FALSE
