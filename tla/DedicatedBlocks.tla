--------------------------- MODULE DedicatedBlocks ---------------------------
(***************************************************************************)
(* Dedicated blocks of MemoryAllocatorEngine (memory_facade.h): blocks too *)
(* large, or aligned too strictly, for a size class.  Each has a virtual   *)
(* memory region of its own, a node from a pool, and an entry in a sharded *)
(* radix map from its address; transient regions are kept in a cache of    *)
(* buckets.  One step per lock, system call and access to the byte counter.*)
(* Addresses are pages.  The map drops the low KeyShift bits of a key, so  *)
(* that all addresses of one cell share an entry.  That the block and its  *)
(* guards always fit the region (see AllocationLayout) is used here: the   *)
(* check of RequiredTail never fails.                                      *)
(***************************************************************************)
EXTENDS Integers, Sequences, FiniteSets, FiniteSetsExt

CONSTANTS
  Threads,
  Pages,          \* 0 .. n: the address space
  PagesPerCell,   \* 2^KeyShift bytes
  Granule,        \* what the system aligns reservations to
  Sizes,          \* Layout.TotalSize, in pages
  SmallPage,      \* a page of a size-class region, reserved all along
  Shards,
  ShardOf,        \* dedicatedShardIndex of a page
  MapCapacity,    \* entries a shard's radix map has nodes for
  Nodes, ChunkNodeCount,
  BucketCount, BucketLimit, MaxProbe,
  BucketIndex,    \* dedicatedRegionCacheBucketIndex of a size, a hash
  LimitPages,     \* DedicatedRegionCacheLimitBytes
  None,
  MaxCalls        \* bound: allocations, and deallocations of small blocks

(* What a run must choose.                                                 *)
ParametersAssumption ==
  /\ Pages = 0 .. Cardinality(Pages) - 1 /\ SmallPage \in Pages
  /\ Sizes \subseteq Nat \ {0} /\ ShardOf \in [Pages -> Shards]
  /\ PagesPerCell \in Nat \ {0} /\ Granule \in Nat \ {0}
  /\ BucketIndex \in [Sizes -> 0 .. BucketCount - 1]
  /\ MaxProbe <= BucketCount /\ BucketLimit \in Nat

VARIABLES
  reserved,   \* regions [base, size] the system has reserved
  committed,  \* those whose pages are committed
  blocks,     \* [user, region, life] of the blocks clients hold
  map,        \* Shard.Allocations: the node of a cell, None without one
  record,     \* Node->Record
  free,       \* the nodes in DedicatedNodeFreeList
  grown,      \* the nodes of all chunks
  key,        \* Bucket.SizeKey
  cached,     \* Bucket.Regions up to Bucket.Count
  holder,     \* who holds Bucket.Mutex over a system call
  bytes,      \* DedicatedCacheBytes, in pages
  pc, work,   \* where a thread is, and what it works on
  calls,
  astray      \* ghost: deallocations that did not find their own block

poolVars == <<free, grown>>
cacheVars == <<key, cached, holder, bytes>>
vars == <<reserved, committed, blocks, map, record, poolVars, cacheVars, pc, work, calls, astray>>

Buckets == 0 .. BucketCount - 1
CellOf(p) == p \div PagesPerCell
PagesOf(r) == r.base .. r.base + r.size - 1
NoWork == [size |-> 0, life |-> None, region |-> None, probe |-> 0, node |-> None, block |-> None]

Init ==
  /\ reserved = {[base |-> SmallPage, size |-> 1]} /\ committed = reserved
  /\ blocks = {}
  /\ map = [s \in Shards |-> [c \in {CellOf(p) : p \in Pages} |-> None]]
  /\ record = [n \in Nodes |-> None]
  /\ free = {} /\ grown = {}
  /\ key = [i \in Buckets |-> 0] /\ cached = [i \in Buckets |-> <<>>]
  /\ holder = [i \in Buckets |-> None] /\ bytes = 0
  /\ pc = [t \in Threads |-> "idle"] /\ work = [t \in Threads |-> NoWork]
  /\ calls = 0 /\ astray = {}

Goto(t, where) == pc' = [pc EXCEPT ![t] = where]

Begin(t, where, w, cost) ==
  /\ pc[t] = "idle"
  /\ calls + cost <= MaxCalls
  /\ calls' = calls + cost
  /\ Goto(t, where)
  /\ work' = [work EXCEPT ![t] = w]

End(t) == Goto(t, "idle") /\ work' = [work EXCEPT ![t] = NoWork]

(* The bucket that a probe looks at, and its key once an empty bucket has  *)
(* been given over to another size.                                        *)
BucketOf(t) == (BucketIndex[work[t].size] + work[t].probe) % BucketCount

Rekeyed(i, size) == IF cached[i] = <<>> /\ key[i] # 0 THEN size ELSE key[i]

-----------------------------------------------------------------------------
(* allocate                                                                *)

Allocate(t) ==
  \E size \in Sizes, life \in {"Default", "Transient"} :
    /\ Begin(t, IF life = "Transient" THEN "acquire" ELSE "reserve",
             [NoWork EXCEPT !.size = size, !.life = life], 1)
    /\ UNCHANGED <<reserved, committed, blocks, map, record, poolVars, cacheVars, astray>>

(* Mutant of KeyLeft: a bucket is given up with its last region.           *)
KeyLeftNone(i, k) == IF Len(cached[i]) = 1 THEN 0 ELSE k

(* A bucket that lends its last region keeps its key.                      *)
KeyLeft(i, k) == k

(* acquireDedicatedRegion: the region cached last, if the bucket is of this*)
(* size; a bucket never used ends the search.                              *)
Acquire(t) ==
  LET i == BucketOf(t)
      k == Rekeyed(i, work[t].size) IN
  /\ pc[t] = "acquire"
  /\ holder[i] = None
  /\ IF k = work[t].size /\ cached[i] # <<>>
       THEN LET r == cached[i][Len(cached[i])] IN
            /\ cached' = [cached EXCEPT ![i] = SubSeq(@, 1, Len(@) - 1)]
            /\ key' = [key EXCEPT ![i] = KeyLeft(i, k)]
            /\ bytes' = bytes - r.size
            /\ work' = [work EXCEPT ![t].region = r]
            /\ Goto(t, "commit")
       ELSE /\ key' = [key EXCEPT ![i] = k]
            /\ work' = [work EXCEPT ![t].probe = @ + 1]
            /\ Goto(t, IF k = 0 \/ work'[t].probe = MaxProbe THEN "reserve" ELSE "acquire")
            /\ UNCHANGED <<cached, bytes>>
  /\ UNCHANGED <<reserved, committed, blocks, map, record, poolVars, holder, calls, astray>>

(* VirtualMemoryManager::reserve: where the system likes, if it can.       *)
Reserve(t) ==
  /\ pc[t] = "reserve"
  /\ \/ \E p \in Pages :
          LET r == [base |-> p, size |-> work[t].size] IN
          /\ p % Granule = 0
          /\ PagesOf(r) \subseteq Pages \ UNION {PagesOf(q) : q \in reserved}
          /\ reserved' = reserved \cup {r}
          /\ work' = [work EXCEPT ![t].region = r]
          /\ Goto(t, "commit")
     \/ End(t) /\ UNCHANGED reserved
  /\ UNCHANGED <<committed, blocks, map, record, poolVars, cacheVars, calls, astray>>

(* VirtualMemoryManager::release                                           *)
GiveBack(r) == reserved' = reserved \ {r} /\ committed' = committed \ {r}

(* A commit, a node pool or a radix map without room fails the allocation; *)
(* the region goes back.                                                   *)
Commit(t) ==
  LET r == work[t].region IN
  /\ pc[t] = "commit"
  /\ \/ committed' = committed \cup {r} /\ Goto(t, "node") /\ UNCHANGED <<reserved, work>>
     \/ GiveBack(r) /\ End(t)
  /\ UNCHANGED <<blocks, map, record, poolVars, cacheVars, calls, astray>>

(* acquireDedicatedAllocationNode, which adds a chunk to an empty pool.    *)
AcquireNode(t) ==
  LET u(r) == {p \in PagesOf(r) : p = r.base \/ r.size > 1} IN
  /\ pc[t] = "node"
  /\ \/ \E new \in {N \in SUBSET (Nodes \ grown) : Cardinality(N) = (IF free = {} THEN ChunkNodeCount ELSE 0)},
           n \in free \cup Nodes, user \in u(work[t].region) :
          LET b == [user |-> user, region |-> work[t].region, life |-> work[t].life] IN
          /\ n \in free \cup new
          /\ grown' = grown \cup new
          /\ free' = (free \cup new) \ {n}
          /\ record' = [record EXCEPT ![n] = b]
          /\ work' = [work EXCEPT ![t].node = n, ![t].block = b]
          /\ Goto(t, "insert")
          /\ UNCHANGED <<reserved, committed>>
     \/ free = {} /\ GiveBack(work[t].region) /\ End(t) /\ UNCHANGED <<poolVars, record>>
  /\ UNCHANGED <<blocks, map, cacheVars, calls, astray>>

(* releaseDedicatedAllocationNode                                          *)
ReleaseNode(n) == free' = free \cup {n} /\ record' = [record EXCEPT ![n] = None] /\ UNCHANGED grown

(* insertOrAssign needs room in the map's node pools for a new cell; for a *)
(* cell that has an entry it replaces the entry.                           *)
Insert(t) ==
  LET b == work[t].block
      s == ShardOf[b.user]
      c == CellOf(b.user)
      used == {d \in DOMAIN map[s] : map[s][d] # None} IN
  /\ pc[t] = "insert"
  /\ IF c \in used \/ Cardinality(used) < MapCapacity
       THEN /\ map' = [map EXCEPT ![s][c] = work[t].node]
            /\ blocks' = blocks \cup {b}
            /\ UNCHANGED <<reserved, committed, record, poolVars>>
       ELSE /\ ReleaseNode(work[t].node)
            /\ GiveBack(b.region)
            /\ UNCHANGED <<map, blocks>>
  /\ End(t)
  /\ UNCHANGED <<cacheVars, calls, astray>>

-----------------------------------------------------------------------------
(* deallocate                                                              *)

Deallocate(t) ==
  \E b \in blocks :
    /\ Begin(t, "find", [NoWork EXCEPT !.block = b], 0)
    /\ blocks' = blocks \ {b}
    /\ UNCHANGED <<reserved, committed, map, record, poolVars, cacheVars, astray>>

(* Every deallocation of a small block asks the map first, too.            *)
DeallocateSmall(t) ==
  /\ Begin(t, "find", [NoWork EXCEPT !.block = [user |-> SmallPage, region |-> None, life |-> None]], 1)
  /\ UNCHANGED <<reserved, committed, blocks, map, record, poolVars, cacheVars, astray>>

(* releaseDedicatedBlock: the record of the cell says which region it is.  *)
(* Without one the block is taken for a small one.                         *)
Find(t) ==
  LET b == work[t].block
      s == ShardOf[b.user]
      c == CellOf(b.user)
      n == map[s][c] IN
  /\ pc[t] = "find"
  /\ IF n = None
       THEN /\ End(t)
            /\ astray' = astray \cup (IF b.region = None THEN {} ELSE {b})
            /\ UNCHANGED <<map, record, poolVars>>
       ELSE /\ map' = [map EXCEPT ![s][c] = None]
            /\ ReleaseNode(n)
            /\ astray' = astray \cup (IF record[n] = b THEN {} ELSE {b})
            /\ work' = [work EXCEPT ![t].region = record[n].region, ![t].size = record[n].region.size]
            /\ Goto(t, IF record[n].life = "Transient" THEN "recycle" ELSE "release")
  /\ UNCHANGED <<reserved, committed, blocks, cacheVars, calls>>

Room(i, r) == Len(cached[i]) < BucketLimit /\ bytes + r.size <= LimitPages

(* releaseDedicatedRegion: a bucket of another size is passed by, one of   *)
(* this size or never used takes the region if both limits allow, ...      *)
Recycle(t) ==
  LET i == BucketOf(t)
      r == work[t].region
      k == Rekeyed(i, r.size) IN
  /\ pc[t] = "recycle"
  /\ holder[i] = None
  /\ IF k \notin {0, r.size}
       THEN /\ work' = [work EXCEPT ![t].probe = @ + 1]
            /\ Goto(t, IF work'[t].probe = MaxProbe THEN "release" ELSE "recycle")
            /\ UNCHANGED <<key, holder>>
       ELSE /\ key' = [key EXCEPT ![i] = r.size]
            /\ IF Room(i, r) THEN holder' = [holder EXCEPT ![i] = t] /\ Goto(t, "store")
               ELSE UNCHANGED holder /\ Goto(t, "release")
            /\ UNCHANGED work
  /\ UNCHANGED <<reserved, committed, blocks, map, record, poolVars, cached, bytes, calls, astray>>

(* ... after its pages are decommitted; only then is the counter raised.   *)
Store(t) ==
  LET i == BucketOf(t)
      r == work[t].region IN
  /\ pc[t] = "store"
  /\ committed' = committed \ {r}
  /\ cached' = [cached EXCEPT ![i] = Append(@, r)]
  /\ bytes' = bytes + r.size
  /\ holder' = [holder EXCEPT ![i] = None]
  /\ End(t)
  /\ UNCHANGED <<reserved, blocks, map, record, poolVars, key, calls, astray>>

Release(t) ==
  /\ pc[t] = "release"
  /\ GiveBack(work[t].region)
  /\ End(t)
  /\ UNCHANGED <<blocks, map, record, poolVars, cacheVars, calls, astray>>

Step(t) ==
  \/ Acquire(t) \/ Reserve(t) \/ Commit(t) \/ AcquireNode(t) \/ Insert(t)
  \/ Find(t) \/ Recycle(t) \/ Store(t) \/ Release(t)

Rest == (\A t \in Threads : pc[t] = "idle") /\ UNCHANGED vars

Next ==
  \/ \E t \in Threads : Allocate(t) \/ Deallocate(t) \/ DeallocateSmall(t) \/ Step(t)
  \/ Rest

Fairness == \A t \in Threads : WF_vars(Step(t))

Spec == Init /\ [][Next]_vars /\ Fairness

-----------------------------------------------------------------------------
InHands(t) == {work[t].region} \ {None}
CachedIn(i) == {cached[i][j] : j \in 1 .. Len(cached[i])}

(* deallocate: "Free memory block allocated by AllocatorFacade::allocate":  *)
(* the region it releases is the one of the block it is given.             *)
FindsOwnRegion == astray = {}

(* allocateRawBlock and releaseDedicatedBlock: the map's entry for the     *)
(* address of a block is the node that describes it, so that its own       *)
(* region is what a deallocation finds and releases.                       *)
FindsItself ==
  /\ FindsOwnRegion
  /\ \A b \in blocks : LET n == map[ShardOf[b.user]][CellOf(b.user)] IN
       n # None /\ record[n] = b

(* A node is free, in the map or in the hands of one allocation.           *)
NodesAccounted ==
  \A n \in grown :
    Cardinality({c \in Shards \X DOMAIN map[CHOOSE s \in Shards : TRUE] : map[c[1]][c[2]] = n})
      + Cardinality({t \in Threads : pc[t] = "insert" /\ work[t].node = n})
    = (IF n \in free THEN 0 ELSE 1)

(* A reserved region is a client's, cached once, or in the hands of one    *)
(* call, also when a step of the allocation fails; what a client holds is  *)
(* committed, and no two regions overlap.                                  *)
RegionsAccounted ==
  /\ \A r \in reserved \ {[base |-> SmallPage, size |-> 1]} :
       Cardinality({b \in blocks : b.region = r})
         + Cardinality({e \in Buckets \X (1 .. BucketLimit) : e[2] <= Len(cached[e[1]]) /\ cached[e[1]][e[2]] = r})
         + Cardinality({t \in Threads : work[t].region = r \/ (pc[t] = "find" /\ work[t].block.region = r)}) = 1
  /\ \A b \in blocks : b.region \in committed
  /\ \A i \in Buckets : CachedIn(i) \subseteq reserved
  /\ \A q, r \in reserved : q # r => PagesOf(q) \cap PagesOf(r) = {}

(* The cache: a bucket keeps regions of its key, no more than its limit,   *)
(* and its counter says what they are; a check-then-add of other threads   *)
(* may pass the byte limit, by no more than they add.  Every cached region *)
(* can be found again by the probes of an allocation of its size.          *)
CacheExact ==
  /\ bytes = MapThenSumSet(LAMBDA i : MapThenSumSet(LAMBDA r : r.size, CachedIn(i)), Buckets)
  /\ bytes <= LimitPages + (Cardinality(Threads) - 1) * Max(Sizes)
  /\ \A i \in Buckets :
       /\ Len(cached[i]) <= BucketLimit
       /\ \A r \in CachedIn(i) :
            /\ r.size = key[i] /\ r \notin committed
            /\ \E probe \in 0 .. MaxProbe - 1 :
                 /\ (BucketIndex[r.size] + probe) % BucketCount = i
                 /\ \A q \in 0 .. probe - 1 : key[(BucketIndex[r.size] + q) % BucketCount] # 0

DedicatedExact == FindsItself /\ NodesAccounted /\ RegionsAccounted /\ CacheExact

(* As many calls as are made, all end: no lock is kept.                    *)
AtRest == \A t \in Threads : pc[t] = "idle"

CallsEnd == []<>AtRest
=============================================================================
