CONSTANTS
  t1 = t1
  t2 = t2
  t3 = t3
  NoItem = NoItem
  Threads <- TwoThreads
  Capacity = 2
  MaxPushes = 5
  MaxBulk = 2
SPECIFICATION Spec
INVARIANTS SlotExclusive SizeInRange IInv
PROPERTIES ImplementsFifo CallsReturn
