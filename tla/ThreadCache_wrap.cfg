CONSTANTS
  t1 = t1
  t2 = t2
  Threads <- OneThread
  NumSizeClasses = 2
  BlockBytes <- SmallAndLarge
  Blocks <- ManySmall
  MaxBytes = 10
  MaxCount <- Singles
  RefillBatch = 3
  MaxBatch = 4
  MinDrainBatch = 1
  MaxDrainBatch = 4
  MinDrainChunk = 1
  MaxDrainChunk = 2
  CountModulus = 4
SPECIFICATION Spec
PROPERTY ExitFlushes
CHECK_DEADLOCK FALSE
