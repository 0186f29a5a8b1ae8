CONSTANTS
  t1 = t1
  t2 = t2
  Threads <- TwoThreads
  NumStripes = 2
  StripeOf <- Alternating
  Width = 4
  MaxCalls = 5
  MayFail = TRUE
SPECIFICATION Spec
INVARIANTS OneHolder NothingLost ScanComplete IInv
PROPERTY CallsReturn
CHECK_DEADLOCK FALSE
