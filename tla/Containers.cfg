CONSTANTS
  Empty = Empty
  Tombstone = Tombstone
  Keys = {0, 1, 2, 4, 8, 16, 32}
  Values = {v1, v2}
  KeyShift = 1
  Level0Size = 4
  Level1Size = 2
  Level2Size = 2
  Level1Nodes = {m1, m2}
  Level2Nodes = {q1, q2}
  Nil = Nil
  Null = Null
  Threads = {t1, t2}
  Lists = {a, b}
  Subject = a
  Nodes = {o1, o2, o3, o4, o5}
  MaxPushes = 2
  MaxValue = 2
  MaxDepth = 2
  Delegates = {d1, d2, d3}
  Callables = {small, big}
  Small = {small}
  Cells = {h1, h2, h3, h4}
  Function = Function
  Instance = Instance
  Nothing = Nothing
  LastGeneration = 6
  CompactAt = 2
  MaxAdds = 3
  MaxFrames = 3
SPECIFICATION Spec
INVARIANTS TablesExact ObserversKept DelegatesOwn MulticastExact
PROPERTIES ImplementsTables AppendEnds CallsRegistered
