CONSTANTS
  t1 = t1
  t2 = t2
  b1 = b1
  b2 = b2
  b3 = b3
  p1 = p1
  p2 = p2
  e1 = e1
  n1 = n1
  n2 = n2
  detector = detector
  statistics = statistics
  None = None
  Threads = {t1, t2}
  Blocks = {b1, b2, b3}
  BlockSize <- OneLarge
  Lifetime <- OnePersistent
  Reused = {b2}
  Shards = {1, 2}
  Capacity = 2
  ByteLimit = 2
  EntryLimit = 1
  ByteModulus = 8
  ShardOf <- SecondShard
  Warmers = {t1}
  MaxCalls = 3
  Addresses = {p1, p2}
  AskedSize <- OneOrTwo
  OsPointers = {p2}
  BoundFirst <- DetectorFirst
SPECIFICATION Spec
INVARIANTS QuarantineExact RegionsExact ObserversExact TrackerExact
PROPERTIES AllCallsEnd
