CONSTANTS
  t1 = t1
  t2 = t2
  Threads <- TwoThreads
  NumSizeClasses = 2
  BlockBytes <- SmallAndLarge
  Blocks <- FewBlocks
  MaxBytes = 6
  MaxCount <- ShortLists
  RefillBatch = 3
  MaxBatch = 4
  MinDrainBatch = 1
  MaxDrainBatch = 4
  MinDrainChunk = 1
  MaxDrainChunk = 2
  CountModulus = 8
SPECIFICATION Spec
INVARIANTS BlocksAccounted CountersExact
PROPERTIES BudgetsKept NothingLeft
SYMMETRY Interchangeable
CHECK_DEADLOCK FALSE
