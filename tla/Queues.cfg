CONSTANTS
  p1 = p1
  p2 = p2
  c1 = c1
  c2 = c2
  NoItem = NoItem
  e1 = e1
  e2 = e2
SPECIFICATION Spec
INVARIANTS RingExact RecordsKept
PROPERTIES ImplementsFifo FramesInTurn CallsEnd
