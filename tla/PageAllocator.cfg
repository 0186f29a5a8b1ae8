CONSTANTS
  NumShards = 2
  PageCounts = {1, 2, 3}
  RegionPages = 2
  Granule = 1
  MaxRegionId = 3
SPECIFICATION Spec
INVARIANTS PagesExclusive PagesAccounted HeldCommitted IInv
CHECK_DEADLOCK FALSE
