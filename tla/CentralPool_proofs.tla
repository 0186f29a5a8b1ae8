------------------------- MODULE CentralPool_proofs -------------------------
(***************************************************************************)
(* Proofs about CentralPool, for any number of threads, shards, spans and  *)
(* extents, any size of spans and batches.                                 *)
(***************************************************************************)
EXTENDS CentralPool, FiniteSetTheorems, TLAPS

(* Threads of one page shard use one bucket shard.  Both are the thread's  *)
(* hash reduced by the number of shards, and the code has as many page     *)
(* shards as bucket shards or a multiple of them, except on machines of    *)
(* one to three hardware threads.                                          *)
ShardsAgree ==
  \A t, u \in Threads : PageShardOf[t] = PageShardOf[u] => ShardOf[t] = ShardOf[u]

-----------------------------------------------------------------------------
(* The inductive invariant *)

(* A thread in allocateSpanForClass has the lock of its own shard, one in  *)
(* trimEmptySpansLocked that of some shard.                                *)
GrowLabels == {"alloc_pages", "alloc_span", "register", "abandon"}
TrimLabels == {"trim", "release_pages", "mark", "recycle"}

Growing(t) == pc[t] \in GrowLabels
Trimming(t) == pc[t] \in TrimLabels

(* Who is in a critical section holds one lock, the others hold none.      *)
LocksHeld ==
  /\ \A t \in Threads : Growing(t) => lock[ShardOf[t]] = t
  /\ \A t \in Threads : Trimming(t) => \E h \in Shards : lock[h] = t
  /\ \A h \in Shards : lock[h] # None => Growing(lock[h]) \/ Trimming(lock[h])
  /\ \A g, h \in Shards : lock[g] = lock[h] /\ lock[g] # None => g = h

(* A span object that is not pooled is live or in the hands of the thread  *)
(* that makes or releases it under the lock of its shard.                  *)
SpansOwned ==
  /\ \A s \in SpanObjs : s \in spanPool <=> base[s] = None
  /\ \A s \in SpanObjs : base[s] # None =>
       Live(s) \/ \E t \in Threads : Owns(t) /\ obj[t] = s
  /\ \A t \in Threads : Owns(t) =>
       /\ obj[t] \in SpanObjs
       /\ base[obj[t]] # None
       /\ pageMap[base[obj[t]]] = None
       /\ lock[owner[obj[t]]] = t
  /\ \A s \in released : \E t \in Threads : pc[t] = "recycle" /\ obj[t] = s

(* Every extent has one place.                                             *)
ExtentsPlaced ==
  /\ \A r, s \in SpanObjs : base[r] = base[s] /\ base[r] # None => r = s
  /\ \A e \in Extents : pageMap[e] # None => base[pageMap[e]] = e /\ e \notin freeExtents
  /\ \A s \in SpanObjs : base[s] \in freeExtents =>
       \E t \in Threads : pc[t] \in {"abandon", "mark", "recycle"} /\ obj[t] = s
  /\ \A t \in Threads : pc[t] = "alloc_span" =>
       /\ pages[t] # None
       /\ pages[t] \notin freeExtents
       /\ pageMap[pages[t]] = None
       /\ regionShard[pages[t]] = PageShardOf[t]
       /\ \A s \in SpanObjs : base[s] # pages[t]
       /\ \A u \in Threads : pc[u] = "alloc_span" /\ pages[u] = pages[t] => u = t

(* The pages of a span can only be acquired by threads of the span's shard, *)
(* whose lock is held as long as the span is neither live nor pooled.      *)
RegionsOfShards ==
  \A s \in SpanObjs : base[s] # None =>
    /\ regionShard[base[s]] # None
    /\ \A t \in Threads : PageShardOf[t] = regionShard[base[s]] => ShardOf[t] = owner[s]

(* A block is in one pair of hands, and then its span is live.             *)
OneHand ==
  /\ \A b \in held : \A t \in Threads :
       b \notin todo[t] /\ \A s \in SpanObjs : b \notin group[t][s]
  /\ \A t, u \in Threads : \A b \in todo[t] :
       /\ b \in todo[u] => t = u
       /\ \A s \in SpanObjs : b \notin group[u][s]
  /\ \A t, u \in Threads : \A r, s \in SpanObjs : \A b \in group[t][r] :
       b \in group[u][s] => t = u /\ r = s

BlocksPlaced ==
  /\ \A b \in Outstanding : pageMap[b[1]] # None /\ b \notin freeList[pageMap[b[1]]]
  /\ \A e \in Extents : pageMap[e] # None =>
       /\ freeList[pageMap[e]] \subseteq BlocksOf(e)
       /\ BlocksOf(e) \ Outstanding \subseteq freeList[pageMap[e]]
  /\ \A t \in Threads : Owns(t) => freeList[obj[t]] = BlocksOf(base[obj[t]])

(* The batches of returnBatch: each is of one live span, with its shard,   *)
(* and none is left when the call is over.                                 *)
BatchesOfSpans ==
  /\ \A t \in Threads, s \in SpanObjs : \A b \in group[t][s] :
       pageMap[b[1]] = s /\ batchShard[t][s] = owner[s]
  /\ \A t \in Threads : pc[t] = "idle" \/ Growing(t) =>
       todo[t] = {} /\ \A s \in SpanObjs : group[t][s] = {}

(* Counters: of the blocks of a span, live or still to be registered, of   *)
(* the blocks asked for, of the empty spans while a shard is being grown.  *)
CountersExact ==
  /\ FreeBlocksExact
  /\ \A t \in Threads : Owns(t) => freeBlocks[obj[t]] = BlocksPerSpan
  /\ \A t \in Threads : pc[t] \in {"alloc_pages", "alloc_span", "register"} => want[t] # 0
  /\ \A t \in Threads : Growing(t) => emptyCount[ShardOf[t]] <= MaxRetainedEmptySpans

IInv ==
  /\ TypeOK
  /\ LocksHeld
  /\ SpansOwned
  /\ ExtentsPlaced
  /\ RegionsOfShards
  /\ OneHand
  /\ BlocksPlaced
  /\ BatchesOfSpans
  /\ CountersExact
  /\ ListsMatchState
  /\ RetainedBounded

-----------------------------------------------------------------------------
(* Blocks and their numbers *)

LEMMA BlocksCounted ==
  ASSUME NEW e PROVE IsFiniteSet(BlocksOf(e)) /\ Cardinality(BlocksOf(e)) = BlocksPerSpan
<1>1. IsFiniteSet({e}) /\ Cardinality({e}) = 1
  BY FS_Singleton
<1>2. IsFiniteSet(1 .. BlocksPerSpan) /\ Cardinality(1 .. BlocksPerSpan) = BlocksPerSpan
  BY FS_Interval, CountsAssumption
<1>3. /\ IsFiniteSet({e} \X (1 .. BlocksPerSpan))
      /\ Cardinality({e} \X (1 .. BlocksPerSpan)) =
           Cardinality({e}) * Cardinality(1 .. BlocksPerSpan)
  BY <1>1, <1>2, FS_Product, Zenon
<1> QED
  BY <1>1, <1>2, <1>3, CountsAssumption DEF BlocksOf

(* A list of blocks of one extent is as long as the span, or shorter.      *)
LEMMA ListCounted ==
  ASSUME NEW e, NEW list \in SUBSET BlocksOf(e)
  PROVE  /\ IsFiniteSet(list)
         /\ Cardinality(list) \in 0 .. BlocksPerSpan
         /\ Cardinality(list) = 0 <=> list = {}
         /\ Cardinality(list) = BlocksPerSpan <=> list = BlocksOf(e)
<1>1. /\ IsFiniteSet(list)
      /\ Cardinality(list) <= BlocksPerSpan
      /\ Cardinality(list) = BlocksPerSpan => list = BlocksOf(e)
  BY BlocksCounted, FS_Subset
<1>2. Cardinality(list) \in Nat /\ (Cardinality(list) = 0 <=> list = {})
  BY <1>1, FS_CardinalityType, FS_EmptySet
<1> QED
  BY <1>1, <1>2, BlocksCounted, CountsAssumption

(* popBlock takes blocks of the list, at least one if there is one.        *)
LEMMA PoppedCounted ==
  ASSUME NEW e, NEW list \in SUBSET BlocksOf(e), NEW n \in Nat \ {0}, NEW B \in Popped(list, n)
  PROVE  /\ B \subseteq list
         /\ Cardinality(B) \in 0 .. Cardinality(list)
         /\ Cardinality(list \ B) = Cardinality(list) - Cardinality(B)
         /\ list # {} => Cardinality(B) # 0
<1>1. B \subseteq list /\ Cardinality(B) = MinOf(n, Cardinality(list))
  BY DEF Popped
<1>2. /\ IsFiniteSet(list) /\ Cardinality(list) \in Nat
      /\ Cardinality(list) = 0 <=> list = {}
  BY ListCounted
<1>3. Cardinality(list \ B) = Cardinality(list) - Cardinality(list \cap B)
  BY <1>2, FS_Difference
<1>4. list \cap B = B
  BY <1>1
<1> QED
  BY <1>1, <1>2, <1>3, <1>4 DEF MinOf

(* pushBatch of blocks that are not on the list.                           *)
LEMMA PushedCounted ==
  ASSUME NEW e, NEW list \in SUBSET BlocksOf(e), NEW B \in SUBSET BlocksOf(e), list \cap B = {}
  PROVE  /\ Cardinality(list \cup B) = Cardinality(list) + Cardinality(B)
         /\ Cardinality(list) + Cardinality(B) <= BlocksPerSpan
<1>1. IsFiniteSet(list) /\ IsFiniteSet(B)
  BY ListCounted
<1>2. Cardinality(list \cup B) = Cardinality(list) + Cardinality(B) - Cardinality(list \cap B)
  BY <1>1, FS_Union
<1>3. Cardinality(list \cap B) = 0
  BY FS_EmptySet
<1>4. Cardinality(list) \in Nat /\ Cardinality(B) \in Nat
  BY <1>1, FS_CardinalityType
<1>5. Cardinality(list \cup B) \in 0 .. BlocksPerSpan
  BY ListCounted, list \cup B \in SUBSET BlocksOf(e)
<1> QED
  BY <1>2, <1>3, <1>4, <1>5

LEMMA SpansCounted ==
  ASSUME NEW S \in SUBSET SpanObjs
  PROVE  IsFiniteSet(S) /\ Cardinality(S) \in Nat /\ (Cardinality(S) = 0 <=> S = {})
  BY FS_Subset, FS_CardinalityType, FS_EmptySet, SetsAssumption

LEMMA Constants ==
  /\ None \notin Threads /\ None \notin SpanObjs /\ None \notin Extents /\ None \notin Nat
  /\ \A u \in Threads : ShardOf[u] \in Shards /\ PageShardOf[u] \in Nat
  BY SetsAssumption

LEMMA InHands ==
  /\ \A b : b \in Outstanding <=>
       \/ b \in held
       \/ \E t \in Threads : b \in todo[t]
       \/ \E t \in Threads, s \in SpanObjs : b \in group[t][s]
  /\ \A b : b \in Outstanding' <=>
       \/ b \in held'
       \/ \E t \in Threads : b \in todo'[t]
       \/ \E t \in Threads, s \in SpanObjs : b \in group'[t][s]
  BY SMT DEF Outstanding

LEMMA BlockOfExtent ==
  ASSUME NEW b \in Block PROVE b[1] \in Extents /\ b \in BlocksOf(b[1])
  BY DEF Block, BlocksOf

LEMMA OutstandingTyped ==
  ASSUME TypeOK, NEW b \in Outstanding PROVE b \in Block
<1>1. CASE b \in held
  BY <1>1 DEF TypeOK
<1>2. CASE \E t \in Threads : b \in todo[t]
  BY <1>2 DEF TypeOK
<1>3. CASE \E t \in Threads, s \in SpanObjs : b \in group[t][s]
  BY <1>3 DEF TypeOK
<1> QED
  BY <1>1, <1>2, <1>3, InHands

-----------------------------------------------------------------------------
(* What a step that leaves the variables of a conjunct alone keeps of it   *)

LEMMA LocksKept ==
  ASSUME LocksHeld, TypeOK, UNCHANGED lock,
         \A u \in Threads : Growing(u)' <=> Growing(u),
         \A u \in Threads : Trimming(u)' <=> Trimming(u)
  PROVE  LocksHeld'
<1>1. \A h \in Shards : lock[h] # None => lock[h] \in Threads
  BY DEF TypeOK
<1> QED
  BY <1>1 DEF LocksHeld

LEMMA LockTaken ==
  ASSUME LocksHeld, TypeOK, NEW t \in Threads, NEW h \in Shards,
         lock[h] = None, lock' = [lock EXCEPT ![h] = t],
         pc[t] \notin GrowLabels, pc[t] \notin TrimLabels,
         \/ pc'[t] \in GrowLabels /\ h = ShardOf[t]
         \/ pc'[t] \in TrimLabels /\ pc'[t] \notin GrowLabels,
         \A u \in Threads \ {t} : pc'[u] = pc[u]
  PROVE  LocksHeld'
<1>1. /\ lock' \in [Shards -> Threads \cup {None}]
      /\ \A g \in Shards : lock'[g] = IF g = h THEN t ELSE lock[g]
  BY DEF TypeOK
<1>2. \A u \in Threads \ {t} : (Growing(u)' <=> Growing(u)) /\ (Trimming(u)' <=> Trimming(u))
  BY DEF Growing, Trimming
<1>3. \A g \in Shards : lock[g] # t
  BY Constants DEF LocksHeld, Growing, Trimming
<1>4. \A u \in Threads : Growing(u)' => lock'[ShardOf[u]] = u
  BY <1>1, <1>2, Constants DEF LocksHeld, Growing, Trimming
<1>5. \A u \in Threads : Trimming(u)' => \E g \in Shards : lock'[g] = u
  BY <1>1, <1>2, Constants DEF LocksHeld, Growing, Trimming
<1>6. (\A g \in Shards : lock[g] # None => Growing(lock[g]) \/ Trimming(lock[g]))'
  BY <1>1, <1>2, <1>3 DEF LocksHeld, Growing, Trimming
<1>7. \A g, k \in Shards : lock'[g] = lock'[k] /\ lock'[g] # None => g = k
  BY <1>1, <1>3 DEF LocksHeld
<1> QED
  BY <1>4, <1>5, <1>6, <1>7 DEF LocksHeld

LEMMA LockGiven ==
  ASSUME LocksHeld, TypeOK, NEW t \in Threads, NEW h \in Shards,
         lock[h] = t, lock' = [lock EXCEPT ![h] = None],
         pc'[t] \notin GrowLabels, pc'[t] \notin TrimLabels,
         \A u \in Threads \ {t} : pc'[u] = pc[u]
  PROVE  LocksHeld'
<1>1. /\ lock' \in [Shards -> Threads \cup {None}]
      /\ \A g \in Shards : lock'[g] = IF g = h THEN None ELSE lock[g]
  BY DEF TypeOK
<1>2. \A u \in Threads \ {t} : (Growing(u)' <=> Growing(u)) /\ (Trimming(u)' <=> Trimming(u))
  BY DEF Growing, Trimming
<1>3. \A g \in Shards : lock[g] = t => g = h
  BY Constants DEF LocksHeld, Growing, Trimming
<1>4. \A u \in Threads : Growing(u)' => lock'[ShardOf[u]] = u
  BY <1>1, <1>2, Constants DEF LocksHeld, Growing, Trimming
<1>5. \A u \in Threads : Trimming(u)' => \E g \in Shards : lock'[g] = u
  BY <1>1, <1>2, Constants DEF LocksHeld, Growing, Trimming
<1>6. (\A g \in Shards : lock[g] # None => Growing(lock[g]) \/ Trimming(lock[g]))'
  BY <1>1, <1>2, <1>3 DEF LocksHeld, Growing, Trimming
<1>7. \A g, k \in Shards : lock'[g] = lock'[k] /\ lock'[g] # None => g = k
  BY <1>1, <1>3 DEF LocksHeld
<1> QED
  BY <1>4, <1>5, <1>6, <1>7 DEF LocksHeld

LEMMA SpansKept ==
  ASSUME SpansOwned, TypeOK,
         UNCHANGED <<base, owner, released, pageMap, spanPool>>,
         \A u \in Threads : Owns(u)' <=> Owns(u),
         \A u \in Threads : Owns(u) =>
           pc'[u] = pc[u] /\ obj'[u] = obj[u] /\ \A h \in Shards : lock[h] = u => lock'[h] = u
  PROVE  SpansOwned'
<1>1. \A s \in SpanObjs : Live(s)' <=> Live(s)
  BY DEF Live
<1>2. \A s \in released : \E u \in Threads : pc'[u] = "recycle" /\ obj'[u] = s
  BY DEF SpansOwned, Owns
<1>3. owner \in [SpanObjs -> Shards]
  BY DEF TypeOK
<1> QED
  BY <1>1, <1>2, <1>3 DEF SpansOwned

LEMMA ExtentsKept ==
  ASSUME ExtentsPlaced,
         UNCHANGED <<base, pageMap, freeExtents, regionShard, pages>>,
         \A u \in Threads : pc'[u] = "alloc_span" => pc[u] = "alloc_span",
         \A u \in Threads : pc[u] \in {"abandon", "mark", "recycle"} =>
           pc'[u] = pc[u] /\ obj'[u] = obj[u]
  PROVE  ExtentsPlaced'
  BY DEF ExtentsPlaced

LEMMA RegionsKept ==
  ASSUME RegionsOfShards, UNCHANGED <<base, owner, regionShard>> PROVE RegionsOfShards'
  BY DEF RegionsOfShards

LEMMA HandsKept ==
  ASSUME OneHand, UNCHANGED <<held, todo, group>> PROVE OneHand' /\ Outstanding' = Outstanding
  BY DEF OneHand, Outstanding

LEMMA BlocksKept ==
  ASSUME BlocksPlaced,
         UNCHANGED <<base, freeList, pageMap>>, Outstanding' = Outstanding,
         \A u \in Threads : Owns(u)' => Owns(u) /\ obj'[u] = obj[u]
  PROVE  BlocksPlaced'
  BY DEF BlocksPlaced, BlocksOf

LEMMA BatchesKept ==
  ASSUME BatchesOfSpans,
         UNCHANGED <<owner, pageMap, todo, group, batchShard>>,
         \A u \in Threads : pc'[u] = "idle" \/ Growing(u)' => pc[u] = "idle" \/ Growing(u)
  PROVE  BatchesOfSpans'
  BY DEF BatchesOfSpans

LEMMA CountersKept ==
  ASSUME CountersExact,
         UNCHANGED <<freeList, freeBlocks, pageMap>>,
         \A u \in Threads : Owns(u)' => Owns(u) /\ obj'[u] = obj[u],
         \A u \in Threads : pc'[u] \in {"alloc_pages", "alloc_span", "register"} => want'[u] # 0,
         \A u \in Threads : Growing(u)' => emptyCount'[ShardOf[u]] <= MaxRetainedEmptySpans
  PROVE  CountersExact'
  BY DEF CountersExact, FreeBlocksExact

LEMMA ListsKept ==
  ASSUME ListsMatchState, UNCHANGED <<listVars, base, owner, freeBlocks, pageMap>>
  PROVE  ListsMatchState'
  BY DEF ListsMatchState, Live, listVars

-----------------------------------------------------------------------------
(* fetchBatch *)

LEMMA FetchGrowStep ==
  ASSUME IInv, NEW t \in Threads, NEW n \in 1 .. MaxBatch, FetchGrow(t, n)
  PROVE  IInv'
<1> DEFINE h == ShardOf[t]
<1>1. /\ pc[t] = "idle" /\ lock[h] = None
      /\ partial[h] = {} /\ empty[h] = {}
      /\ lock' = [lock EXCEPT ![h] = t]
      /\ pc' = [pc EXCEPT ![t] = "alloc_pages"]
      /\ want' = [want EXCEPT ![t] = n]
      /\ UNCHANGED <<spanVars, listVars, pageMap, pageVars, spanPool, held,
                     hint, obj, pages, batchVars>>
  BY DEF FetchGrow, FetchCandidates, Lock, GoTo
<1>2. h \in Shards /\ None \notin Threads
  BY Constants
<1>3. /\ \A u \in Threads : pc'[u] = IF u = t THEN "alloc_pages" ELSE pc[u]
      /\ \A g \in Shards : lock'[g] = IF g = h THEN t ELSE lock[g]
      /\ \A u \in Threads : want'[u] = IF u = t THEN n ELSE want[u]
  BY <1>1 DEF IInv, TypeOK
<1>4. TypeOK'
  BY <1>1, <1>2 DEF IInv, TypeOK, Labels, spanVars, listVars, pageVars, batchVars
<1>5. LocksHeld'
  <2>1. LocksHeld /\ TypeOK
    BY DEF IInv
  <2>2. /\ pc[t] \notin GrowLabels /\ pc[t] \notin TrimLabels
        /\ pc'[t] \in GrowLabels
    BY <1>1, <1>3 DEF GrowLabels, TrimLabels
  <2>3. \A u \in Threads \ {t} : pc'[u] = pc[u]
    BY <1>3
  <2> QED
    BY <1>1, <1>2, <2>1, <2>2, <2>3, LockTaken
<1>6. \A u \in Threads : Owns(u)' <=> Owns(u)
  BY <1>1, <1>3 DEF Owns
<1>7. SpansOwned'
  BY <1>1, <1>2, <1>3, <1>6, SpansKept DEF IInv, Owns, spanVars
<1>8. ExtentsPlaced' /\ RegionsOfShards' /\ OneHand' /\ Outstanding' = Outstanding
  BY <1>1, <1>3, ExtentsKept, RegionsKept, HandsKept DEF IInv, spanVars, pageVars, batchVars
<1>9. BlocksPlaced'
  BY <1>1, <1>6, <1>8, BlocksKept DEF IInv, spanVars
<1>10. BatchesOfSpans'
  BY <1>1, <1>3, BatchesKept DEF IInv, Growing, GrowLabels, spanVars, batchVars
<1>11. emptyCount[h] = 0
  BY <1>1, <1>2, SpansCounted DEF IInv, ListsMatchState
<1>12. CountersExact'
  BY <1>1, <1>3, <1>6, <1>11, CountersKept, CountsAssumption
  DEF IInv, CountersExact, Growing, GrowLabels, spanVars, listVars
<1>13. ListsMatchState' /\ RetainedBounded'
  BY <1>1, <1>2, <1>3, ListsKept DEF IInv, RetainedBounded, spanVars, listVars
<1> QED
  BY <1>4, <1>5, <1>7, <1>8, <1>9, <1>10, <1>12, <1>13 DEF IInv

LEMMA AcquirePagesStep ==
  ASSUME IInv, NEW t \in Threads, AcquirePages(t) PROVE IInv'
<1> DEFINE h == ShardOf[t]
<1>1. pc[t] = "alloc_pages" /\ lock[h] = t /\ h \in Shards /\ None \notin Threads
  BY Constants DEF IInv, LocksHeld, Growing, GrowLabels, AcquirePages
<1>2. UNCHANGED <<spanVars, listVars, pageMap, spanPool, held, hint, obj, batchVars>>
  BY DEF AcquirePages
<1>3. ASSUME NEW e \in freeExtents,
             regionShard[e] \in {None, PageShardOf[t]},
             freeExtents' = freeExtents \ {e},
             regionShard' = [regionShard EXCEPT ![e] = PageShardOf[t]],
             pages' = [pages EXCEPT ![t] = e],
             GoTo(t, "alloc_span"),
             UNCHANGED <<want, lock>>
      PROVE  IInv'
  <2>1. e \in Extents
    BY DEF IInv, TypeOK
  <2>2. /\ \A u \in Threads : pc'[u] = IF u = t THEN "alloc_span" ELSE pc[u]
        /\ \A u \in Threads : pages'[u] = IF u = t THEN e ELSE pages[u]
        /\ \A x \in Extents : regionShard'[x] = IF x = e THEN PageShardOf[t] ELSE regionShard[x]
    BY <1>3 DEF IInv, TypeOK, GoTo
  <2>3. TypeOK'
    BY <1>2, <1>3, SetsAssumption
    DEF IInv, TypeOK, GoTo, Labels, spanVars, listVars, batchVars
  <2>4. LocksHeld'
    BY <1>1, <1>3, <2>2, LocksKept DEF IInv, Growing, Trimming, GrowLabels, TrimLabels
  <2>5. \A u \in Threads : Owns(u)' <=> Owns(u)
    BY <1>1, <2>2 DEF Owns
  <2>6. SpansOwned'
    BY <1>1, <1>2, <1>3, <2>2, <2>5, SpansKept DEF IInv, Owns, spanVars
  <2>7. \A s \in SpanObjs : base[s] # e
    <3> SUFFICES ASSUME NEW s \in SpanObjs, base[s] = e PROVE FALSE
      OBVIOUS
    <3>1. e # None /\ pageMap[e] = None
      BY <2>1, Constants DEF IInv, ExtentsPlaced
    <3>2. PICK u \in Threads : Owns(u) /\ obj[u] = s
      BY <3>1, Constants DEF IInv, SpansOwned, Live
    <3>3. lock[owner[s]] = u
      BY <3>2 DEF IInv, SpansOwned
    <3>4. owner[s] = h
      BY <1>3, <3>1 DEF IInv, RegionsOfShards
    <3> QED
      BY <1>1, <3>2, <3>3, <3>4 DEF Owns
  <2>8. ExtentsPlaced'
    <3>1. e # None /\ pageMap[e] = None
      BY <2>1, Constants DEF IInv, ExtentsPlaced
    <3>2. \A u \in Threads : pc[u] = "alloc_span" =>
            pages[u] \in Extents /\ pages[u] # e /\ regionShard'[pages[u]] = regionShard[pages[u]]
      BY <2>2 DEF IInv, ExtentsPlaced, TypeOK
    <3>3. \A u \in Threads : pc'[u] = "alloc_span" =>
            /\ pages'[u] # None
            /\ pages'[u] \notin freeExtents'
            /\ pageMap'[pages'[u]] = None
            /\ regionShard'[pages'[u]] = PageShardOf[u]
            /\ \A s \in SpanObjs : base'[s] # pages'[u]
            /\ \A w \in Threads : pc'[w] = "alloc_span" /\ pages'[w] = pages'[u] => w = u
      BY <1>2, <1>3, <2>1, <2>2, <2>7, <3>1, <3>2 DEF IInv, ExtentsPlaced, spanVars
    <3>4. \A u \in Threads : pc[u] \in {"abandon", "mark", "recycle"} => pc'[u] = pc[u]
      BY <1>1, <2>2
    <3> QED
      BY <1>2, <1>3, <3>3, <3>4 DEF IInv, ExtentsPlaced, spanVars
  <2>9. RegionsOfShards'
    BY <1>2, <2>2, <2>7 DEF IInv, TypeOK, RegionsOfShards, spanVars
  <2>10. OneHand' /\ Outstanding' = Outstanding
    BY <1>2, HandsKept DEF IInv, batchVars
  <2>11. BlocksPlaced'
    BY <1>2, <2>5, <2>10, BlocksKept DEF IInv, spanVars
  <2>12. BatchesOfSpans'
    BY <1>1, <1>2, <2>2, BatchesKept DEF IInv, Growing, GrowLabels, spanVars, batchVars
  <2>13. CountersExact'
    BY <1>1, <1>2, <1>3, <2>2, <2>5, CountersKept
    DEF IInv, CountersExact, Growing, GrowLabels, spanVars, listVars
  <2>14. ListsMatchState' /\ RetainedBounded'
    BY <1>2, <1>3, ListsKept DEF IInv, RetainedBounded, spanVars, listVars
  <2> QED
    BY <2>3, <2>4, <2>6, <2>8, <2>9, <2>10, <2>11, <2>12, <2>13, <2>14 DEF IInv
<1>4. ASSUME want' = [want EXCEPT ![t] = 0],
             GoTo(t, "idle"),
             Unlock(h),
             freeExtents' \in {freeExtents} \cup
               {freeExtents \ {e} : e \in {x \in freeExtents : regionShard[x] = PageShardOf[t]}},
             UNCHANGED <<regionShard, pages>>
      PROVE  IInv'
  <2>1. freeExtents' \subseteq freeExtents /\ UNCHANGED <<regionShard, pages>>
    BY <1>4
  <2>2. /\ \A u \in Threads : pc'[u] = IF u = t THEN "idle" ELSE pc[u]
        /\ \A u \in Threads : want'[u] = IF u = t THEN 0 ELSE want[u]
        /\ \A g \in Shards : lock'[g] = IF g = h THEN None ELSE lock[g]
    BY <1>4 DEF IInv, TypeOK, GoTo, Unlock
  <2>3. TypeOK'
    <3>1. want' \in [Threads -> 0 .. MaxBatch] /\ lock' \in [Shards -> Threads \cup {None}]
      <4>1. 0 \in 0 .. MaxBatch
        BY CountsAssumption
      <4> QED
        BY <1>4, <4>1 DEF IInv, TypeOK, Unlock
    <3>2. pc' \in [Threads -> Labels]
      BY <1>4 DEF IInv, TypeOK, GoTo, Labels
    <3> QED
      BY <1>2, <2>1, <3>1, <3>2
      DEF IInv, TypeOK, spanVars, listVars, batchVars
  <2>4. LocksHeld'
    <3>1. pc'[t] \notin GrowLabels /\ pc'[t] \notin TrimLabels /\ \A u \in Threads \ {t} : pc'[u] = pc[u]
      BY <2>2 DEF GrowLabels, TrimLabels
    <3>2. lock[h] = t /\ lock' = [lock EXCEPT ![h] = None]
      BY <1>1, <1>4 DEF Unlock
    <3> QED
      BY <1>1, <3>1, <3>2, LockGiven DEF IInv
  <2>5. \A u \in Threads : Owns(u)' <=> Owns(u)
    BY <1>1, <2>2 DEF Owns
  <2>6. SpansOwned'
    BY <1>1, <1>2, <2>2, <2>5, SpansKept DEF IInv, Owns, spanVars
  <2>7. ExtentsPlaced'
    BY <1>1, <1>2, <1>4, <2>1, <2>2 DEF IInv, ExtentsPlaced, spanVars
  <2>8. RegionsOfShards' /\ OneHand' /\ Outstanding' = Outstanding
    BY <1>2, <1>4, RegionsKept, HandsKept DEF IInv, spanVars, batchVars
  <2>9. BlocksPlaced'
    BY <1>2, <2>5, <2>8, BlocksKept DEF IInv, spanVars
  <2>10. BatchesOfSpans'
    BY <1>1, <1>2, <2>2, BatchesKept DEF IInv, Growing, GrowLabels, spanVars, batchVars
  <2>11. CountersExact'
    BY <1>1, <1>2, <2>2, <2>5, CountersKept
    DEF IInv, CountersExact, Growing, GrowLabels, spanVars, listVars
  <2>12. emptyCount[h] <= MaxRetainedEmptySpans
    BY <1>1 DEF IInv, CountersExact, Growing, GrowLabels
  <2>13. ListsMatchState' /\ RetainedBounded'
    BY <1>2, <2>2, <2>12, ListsKept DEF IInv, RetainedBounded, spanVars, listVars
  <2> QED
    BY <2>3, <2>4, <2>6, <2>7, <2>8, <2>9, <2>10, <2>11, <2>13 DEF IInv
<1> QED
  BY <1>3, <1>4 DEF AcquirePages

(* Span::setup under the lock of the thread's shard.                       *)
LEMMA SetupSpanStep ==
  ASSUME IInv, ShardsAgree, NEW t \in Threads, NEW s \in SpanObjs, SetupSpan(t, s)
  PROVE  IInv'
<1> DEFINE h == ShardOf[t]
           e == pages[t]
<1>1. /\ pc[t] = "alloc_span" /\ s \in spanPool
      /\ spanPool' = spanPool \ {s}
      /\ released' = released \ {s}
      /\ UNCHANGED <<listVars, lock, pageMap, pageVars, held, hint, want, batchVars>>
  BY DEF SetupSpan
<1>2. /\ lock[h] = t /\ h \in Shards
      /\ e \in Extents /\ e # None /\ pageMap[e] = None /\ e \notin freeExtents
      /\ regionShard[e] = PageShardOf[t]
      /\ \A r \in SpanObjs : base[r] # e
      /\ base[s] = None
  <2>1. lock[h] = t /\ h \in Shards
    BY <1>1, Constants DEF IInv, LocksHeld, Growing, GrowLabels
  <2>2. e # None /\ pageMap[e] = None /\ e \notin freeExtents /\ regionShard[e] = PageShardOf[t]
        /\ \A r \in SpanObjs : base[r] # e
    BY <1>1 DEF IInv, ExtentsPlaced
  <2>3. e \in Extents
    BY <2>2 DEF IInv, TypeOK
  <2> QED
    BY <1>1, <2>1, <2>2, <2>3 DEF IInv, SpansOwned
<1>3. /\ base' = [base EXCEPT ![s] = e]
      /\ owner' = [owner EXCEPT ![s] = h]
      /\ freeBlocks' = [freeBlocks EXCEPT ![s] = BlocksPerSpan]
      /\ freeList' = [freeList EXCEPT ![s] = BlocksOf(e)]
      /\ obj' = [obj EXCEPT ![t] = s]
      /\ pages' = [pages EXCEPT ![t] = None]
      /\ pc' = [pc EXCEPT ![t] = "register"]
  BY DEF SetupSpan, GoTo
<1>4. /\ \A r \in SpanObjs : /\ base'[r] = IF r = s THEN e ELSE base[r]
                             /\ owner'[r] = IF r = s THEN h ELSE owner[r]
                             /\ freeBlocks'[r] = IF r = s THEN BlocksPerSpan ELSE freeBlocks[r]
                             /\ freeList'[r] = IF r = s THEN BlocksOf(e) ELSE freeList[r]
      /\ \A u \in Threads : /\ obj'[u] = IF u = t THEN s ELSE obj[u]
                            /\ pages'[u] = IF u = t THEN None ELSE pages[u]
                            /\ pc'[u] = IF u = t THEN "register" ELSE pc[u]
  BY <1>3 DEF IInv, TypeOK
<1>5. TypeOK'
  <2>1. BlocksOf(e) \subseteq Block /\ BlocksPerSpan \in 0 .. BlocksPerSpan
    BY <1>2, CountsAssumption DEF BlocksOf, Block
  <2> QED
    BY <1>1, <1>2, <1>3, <2>1 DEF IInv, TypeOK, Labels, listVars, pageVars, batchVars
<1>6. LocksHeld'
  BY <1>1, <1>4, LocksKept DEF IInv, Growing, Trimming, GrowLabels, TrimLabels
<1>7. \A u \in Threads : /\ u # t => (Owns(u)' <=> Owns(u))
                         /\ Owns(u) => u # t /\ obj[u] # s
                         /\ Owns(t)'
  BY <1>1, <1>2, <1>4 DEF IInv, SpansOwned, Owns
<1>8. SpansOwned'
  <2>1. \A r \in SpanObjs : r \in spanPool' <=> base'[r] = None
    BY <1>1, <1>2, <1>4 DEF IInv, SpansOwned
  <2>2. \A r \in SpanObjs : base'[r] # None =>
          Live(r)' \/ \E u \in Threads : Owns(u)' /\ obj'[u] = r
    BY <1>1, <1>2, <1>4, <1>7 DEF IInv, SpansOwned, Live
  <2>3. \A u \in Threads : Owns(u)' =>
          /\ obj'[u] \in SpanObjs
          /\ base'[obj'[u]] # None
          /\ pageMap'[base'[obj'[u]]] = None
          /\ lock'[owner'[obj'[u]]] = u
    BY <1>1, <1>2, <1>4, <1>7 DEF IInv, SpansOwned
  <2>4. \A r \in released' : \E u \in Threads : pc'[u] = "recycle" /\ obj'[u] = r
    BY <1>1, <1>4 DEF IInv, SpansOwned
  <2> QED
    BY <2>1, <2>2, <2>3, <2>4 DEF SpansOwned
<1>12. \A x \in Extents : pageMap[x] # s
  BY <1>2, Constants DEF IInv, ExtentsPlaced
<1>9. ExtentsPlaced'
  <2>1. \A q, r \in SpanObjs : base'[q] = base'[r] /\ base'[q] # None => q = r
    BY <1>2, <1>4 DEF IInv, ExtentsPlaced
  <2>2. \A x \in Extents : pageMap'[x] # None => base'[pageMap'[x]] = x /\ x \notin freeExtents'
    BY <1>1, <1>4, <1>12 DEF IInv, ExtentsPlaced, TypeOK, pageVars
  <2>3. \A r \in SpanObjs : base'[r] \in freeExtents' =>
          \E u \in Threads : pc'[u] \in {"abandon", "mark", "recycle"} /\ obj'[u] = r
    BY <1>1, <1>2, <1>4 DEF IInv, ExtentsPlaced, pageVars
  <2>4. \A u \in Threads : pc'[u] = "alloc_span" => u # t /\ pc[u] = "alloc_span" /\ pages'[u] = pages[u]
                                                    /\ pages[u] # e
    BY <1>1, <1>4 DEF IInv, ExtentsPlaced
  <2>5. \A u \in Threads : pc'[u] = "alloc_span" =>
          /\ pages'[u] # None
          /\ pages'[u] \notin freeExtents'
          /\ pageMap'[pages'[u]] = None
          /\ regionShard'[pages'[u]] = PageShardOf[u]
          /\ \A r \in SpanObjs : base'[r] # pages'[u]
          /\ \A w \in Threads : pc'[w] = "alloc_span" /\ pages'[w] = pages'[u] => w = u
    BY <1>1, <1>4, <2>4 DEF IInv, ExtentsPlaced, pageVars
  <2> QED
    BY <2>1, <2>2, <2>3, <2>5 DEF ExtentsPlaced
<1>10. RegionsOfShards'
  BY <1>1, <1>2, <1>4, Constants DEF IInv, RegionsOfShards, ShardsAgree, pageVars
<1>11. OneHand' /\ Outstanding' = Outstanding
  BY <1>1, HandsKept DEF IInv, batchVars
<1>13. BlocksPlaced'
  <2>1. \A b \in Outstanding' : pageMap'[b[1]] # None /\ b \notin freeList'[pageMap'[b[1]]]
    <3> SUFFICES ASSUME NEW b \in Outstanding PROVE pageMap[b[1]] # None /\ b \notin freeList'[pageMap[b[1]]]
      BY <1>1, <1>11
    <3>1. b[1] \in Extents
      BY OutstandingTyped, BlockOfExtent DEF IInv
    <3> QED
      BY <1>4, <1>12, <3>1 DEF IInv, BlocksPlaced, TypeOK
  <2>2. \A x \in Extents : pageMap'[x] # None =>
          /\ freeList'[pageMap'[x]] \subseteq BlocksOf(x)
          /\ BlocksOf(x) \ Outstanding' \subseteq freeList'[pageMap'[x]]
    BY <1>1, <1>4, <1>11, <1>12 DEF IInv, BlocksPlaced, TypeOK
  <2>3. \A u \in Threads : Owns(u)' => freeList'[obj'[u]] = BlocksOf(base'[obj'[u]])
    BY <1>4, <1>7 DEF IInv, BlocksPlaced, SpansOwned
  <2> QED
    BY <2>1, <2>2, <2>3 DEF BlocksPlaced, BlocksOf
<1>14. BatchesOfSpans'
  <2>1. \A u \in Threads, r \in SpanObjs : \A b \in group[u][r] :
          pageMap'[b[1]] = r /\ batchShard'[u][r] = owner'[r]
    <3> SUFFICES ASSUME NEW u \in Threads, NEW r \in SpanObjs, NEW b \in group[u][r]
                 PROVE  r # s /\ pageMap[b[1]] = r /\ batchShard[u][r] = owner[r]
      BY <1>1, <1>4 DEF batchVars
    <3>1. b[1] \in Extents
      BY BlockOfExtent DEF IInv, TypeOK
    <3> QED
      BY <1>12, <3>1 DEF IInv, BatchesOfSpans
  <2> QED
    BY <1>1, <1>4, <2>1 DEF IInv, BatchesOfSpans, Growing, GrowLabels, batchVars
<1>15. CountersExact'
  <2>1. FreeBlocksExact'
    BY <1>1, <1>4, <1>12 DEF IInv, TypeOK, CountersExact, FreeBlocksExact
  <2>2. \A u \in Threads : Owns(u)' => freeBlocks'[obj'[u]] = BlocksPerSpan
    BY <1>4, <1>7 DEF IInv, CountersExact, SpansOwned
  <2>3. \A u \in Threads : pc'[u] \in {"alloc_pages", "alloc_span", "register"} => want'[u] # 0
    BY <1>1, <1>4 DEF IInv, CountersExact
  <2>4. \A u \in Threads : Growing(u)' => emptyCount'[ShardOf[u]] <= MaxRetainedEmptySpans
    BY <1>1, <1>4 DEF IInv, CountersExact, Growing, GrowLabels, listVars
  <2> QED
    BY <2>1, <2>2, <2>3, <2>4 DEF CountersExact
<1>16. ListsMatchState'
  <2>1. ~ Live(s) /\ ~ Live(s)'
    BY <1>1, <1>2, <1>4, Constants DEF Live
  <2>2. \A r \in SpanObjs \ {s} : /\ Live(r)' <=> Live(r)
                                  /\ owner'[r] = owner[r] /\ freeBlocks'[r] = freeBlocks[r]
    BY <1>1, <1>4 DEF Live
  <2> QED
    BY <1>1, <2>1, <2>2 DEF IInv, ListsMatchState, listVars
<1>17. RetainedBounded'
  BY <1>1 DEF IInv, RetainedBounded, listVars
<1> QED
  BY <1>5, <1>6, <1>8, <1>9, <1>10, <1>11, <1>13, <1>14, <1>15, <1>16, <1>17 DEF IInv

LEMMA SpanObjectFailsStep ==
  ASSUME IInv, NEW t \in Threads, SpanObjectFails(t) PROVE IInv'
<1> DEFINE h == ShardOf[t]
           e == pages[t]
<1>1. /\ pc[t] = "alloc_span"
      /\ freeExtents' = freeExtents \cup {e}
      /\ UNCHANGED <<regionShard, spanVars, listVars, pageMap, spanPool, held, hint, obj,
                     batchVars>>
  BY DEF SpanObjectFails
<1>2. /\ lock[h] = t /\ h \in Shards
      /\ e \in Extents /\ e # None /\ pageMap[e] = None
      /\ \A r \in SpanObjs : base[r] # e
      /\ \A u \in Threads : pc[u] = "alloc_span" /\ pages[u] = e => u = t
  <2>1. lock[h] = t /\ h \in Shards
    BY <1>1, Constants DEF IInv, LocksHeld, Growing, GrowLabels
  <2>2. /\ e # None /\ pageMap[e] = None /\ \A r \in SpanObjs : base[r] # e
        /\ \A u \in Threads : pc[u] = "alloc_span" /\ pages[u] = e => u = t
    BY <1>1 DEF IInv, ExtentsPlaced
  <2> QED
    BY <2>1, <2>2 DEF IInv, TypeOK
<1>3. /\ pages' = [pages EXCEPT ![t] = None]
      /\ want' = [want EXCEPT ![t] = 0]
      /\ pc' = [pc EXCEPT ![t] = "idle"]
      /\ lock' = [lock EXCEPT ![h] = None]
  BY DEF SpanObjectFails, GoTo, Unlock
<1>4. /\ \A u \in Threads : /\ pages'[u] = IF u = t THEN None ELSE pages[u]
                            /\ want'[u] = IF u = t THEN 0 ELSE want[u]
                            /\ pc'[u] = IF u = t THEN "idle" ELSE pc[u]
      /\ \A g \in Shards : lock'[g] = IF g = h THEN None ELSE lock[g]
  BY <1>3 DEF IInv, TypeOK
<1>5. TypeOK'
  <2>1. 0 \in 0 .. MaxBatch
    BY CountsAssumption
  <2>2. /\ want' \in [Threads -> 0 .. MaxBatch]
        /\ lock' \in [Shards -> Threads \cup {None}]
        /\ pages' \in [Threads -> Extents \cup {None}]
        /\ pc' \in [Threads -> Labels]
    BY <1>3, <2>1 DEF IInv, TypeOK, Labels
  <2> QED
    BY <1>1, <1>2, <2>2 DEF IInv, TypeOK, spanVars, listVars, batchVars
<1>6. LocksHeld'
  <2>1. pc'[t] \notin GrowLabels /\ pc'[t] \notin TrimLabels
    BY <1>4 DEF GrowLabels, TrimLabels
  <2>2. \A u \in Threads \ {t} : pc'[u] = pc[u]
    BY <1>4
  <2> QED
    BY <1>2, <1>3, <2>1, <2>2, LockGiven DEF IInv
<1>7. \A u \in Threads : Owns(u)' <=> Owns(u)
  BY <1>1, <1>4 DEF Owns
<1>8. SpansOwned'
  BY <1>1, <1>2, <1>4, <1>7, SpansKept DEF IInv, Owns, spanVars
<1>9. ExtentsPlaced'
  BY <1>1, <1>2, <1>4 DEF IInv, ExtentsPlaced, spanVars
<1>10. RegionsOfShards' /\ OneHand' /\ Outstanding' = Outstanding
  BY <1>1, RegionsKept, HandsKept DEF IInv, spanVars, batchVars
<1>11. BlocksPlaced'
  BY <1>1, <1>7, <1>10, BlocksKept DEF IInv, spanVars
<1>12. BatchesOfSpans'
  BY <1>1, <1>4, BatchesKept DEF IInv, Growing, GrowLabels, spanVars, batchVars
<1>13. CountersExact'
  BY <1>1, <1>4, <1>7, CountersKept
  DEF IInv, CountersExact, Growing, GrowLabels, spanVars, listVars
<1>14. emptyCount[h] <= MaxRetainedEmptySpans
  BY <1>1 DEF IInv, CountersExact, Growing, GrowLabels
<1>15. ListsMatchState' /\ RetainedBounded'
  BY <1>1, <1>4, <1>14, ListsKept DEF IInv, RetainedBounded, spanVars, listVars
<1> QED
  BY <1>5, <1>6, <1>8, <1>9, <1>10, <1>11, <1>12, <1>13, <1>15 DEF IInv

(* What RegisterFails gives back was never free while it had a base.       *)
LEMMA RegisterFailsStep ==
  ASSUME IInv, NEW t \in Threads, RegisterFails(t) PROVE IInv'
<1> DEFINE s == obj[t]
           e == base[s]
<1>1. /\ pc[t] = "register"
      /\ freeExtents' = freeExtents \cup {e}
      /\ UNCHANGED <<regionShard, spanVars, listVars, lock, pageMap, spanPool, held,
                     hint, obj, pages, batchVars>>
  BY DEF RegisterFails
<1>2. s \in SpanObjs /\ e \in Extents /\ e # None /\ pageMap[e] = None
  BY <1>1 DEF IInv, SpansOwned, Owns, TypeOK
<1>3. /\ want' = [want EXCEPT ![t] = 0]
      /\ pc' = [pc EXCEPT ![t] = "abandon"]
  BY DEF RegisterFails, GoTo
<1>4. \A u \in Threads : /\ want'[u] = IF u = t THEN 0 ELSE want[u]
                         /\ pc'[u] = IF u = t THEN "abandon" ELSE pc[u]
  BY <1>3 DEF IInv, TypeOK
<1>5. TypeOK'
  <2>1. 0 \in 0 .. MaxBatch
    BY CountsAssumption
  <2>2. want' \in [Threads -> 0 .. MaxBatch] /\ pc' \in [Threads -> Labels]
    BY <1>3, <2>1 DEF IInv, TypeOK, Labels
  <2> QED
    BY <1>1, <1>2, <2>2 DEF IInv, TypeOK, spanVars, listVars, batchVars
<1>6. LocksHeld'
  BY <1>1, <1>4, LocksKept DEF IInv, Growing, Trimming, GrowLabels, TrimLabels
<1>7. \A u \in Threads : Owns(u)' <=> Owns(u)
  BY <1>1, <1>4 DEF Owns
<1>8. SpansOwned'
  <2>1. \A r \in SpanObjs : Live(r)' <=> Live(r)
    BY <1>1 DEF Live, spanVars
  <2>2. \A r \in released : \E u \in Threads : pc'[u] = "recycle" /\ obj'[u] = r
    BY <1>1, <1>4 DEF IInv, SpansOwned
  <2> QED
    BY <1>1, <1>7, <2>1, <2>2 DEF IInv, SpansOwned, spanVars
<1>9. ExtentsPlaced'
  <2>1. \A r \in SpanObjs : base[r] = e => r = s
    BY <1>2 DEF IInv, ExtentsPlaced
  <2>2. \A r \in SpanObjs : base'[r] \in freeExtents' =>
          \E u \in Threads : pc'[u] \in {"abandon", "mark", "recycle"} /\ obj'[u] = r
    BY <1>1, <1>4, <2>1 DEF IInv, ExtentsPlaced, spanVars
  <2>3. \A u \in Threads : pc'[u] = "alloc_span" =>
          pc[u] = "alloc_span" /\ pages[u] # e
    BY <1>2, <1>4 DEF IInv, ExtentsPlaced
  <2> QED
    BY <1>1, <1>2, <1>4, <2>2, <2>3 DEF IInv, ExtentsPlaced, spanVars
<1>10. RegionsOfShards' /\ OneHand' /\ Outstanding' = Outstanding
  BY <1>1, RegionsKept, HandsKept DEF IInv, spanVars, batchVars
<1>11. BlocksPlaced'
  BY <1>1, <1>7, <1>10, BlocksKept DEF IInv, spanVars
<1>12. BatchesOfSpans'
  BY <1>1, <1>4, BatchesKept DEF IInv, Growing, GrowLabels, spanVars, batchVars
<1>13. CountersExact'
  BY <1>1, <1>4, <1>7, CountersKept
  DEF IInv, CountersExact, Growing, GrowLabels, spanVars, listVars
<1>14. ListsMatchState' /\ RetainedBounded'
  BY <1>1, ListsKept DEF IInv, RetainedBounded, spanVars, listVars
<1> QED
  BY <1>5, <1>6, <1>8, <1>9, <1>10, <1>11, <1>12, <1>13, <1>14 DEF IInv

(* releaseSpanObject, at the end of Abandon and of a release: no thread    *)
(* but t has the span, it is in no list and none of its blocks is out.     *)
LEMMA SpanRecycled ==
  ASSUME IInv, NEW t \in Threads,
         pc[t] \in {"abandon", "recycle"}, pc'[t] \in {"idle", "trim"},
         \A u \in Threads \ {t} : pc'[u] = pc[u],
         RecycleSpan(obj[t]),
         obj' = [obj EXCEPT ![t] = None],
         \A u \in Threads \ {t} : \A g \in Shards : lock[g] = u => lock'[g] = u,
         UNCHANGED <<listVars, pageMap, pageVars, held, pages, batchVars>>
  PROVE  /\ /\ base' \in [SpanObjs -> Extents \cup {None}]
            /\ owner' \in [SpanObjs -> Shards]
            /\ freeBlocks' \in [SpanObjs -> 0 .. BlocksPerSpan]
            /\ freeList' \in [SpanObjs -> SUBSET Block]
            /\ released' \in SUBSET SpanObjs
            /\ spanPool' \in SUBSET SpanObjs
            /\ obj' \in [Threads -> SpanObjs \cup {None}]
         /\ SpansOwned' /\ ExtentsPlaced' /\ RegionsOfShards' /\ OneHand' /\ BlocksPlaced'
         /\ \A u \in Threads, r \in SpanObjs : \A b \in group'[u][r] :
              pageMap'[b[1]] = r /\ batchShard'[u][r] = owner'[r]
         /\ FreeBlocksExact'
         /\ \A u \in Threads : Owns(u)' => freeBlocks'[obj'[u]] = BlocksPerSpan
         /\ ListsMatchState'
<1> DEFINE s == obj[t]
<1>1. s \in SpanObjs /\ base[s] # None /\ base[s] \in Extents /\ pageMap[base[s]] = None
  BY DEF IInv, SpansOwned, Owns, TypeOK
<1>2. /\ spanPool' = spanPool \cup {s}
      /\ released' = released \ {s}
      /\ \A r \in SpanObjs : /\ base'[r] = IF r = s THEN None ELSE base[r]
                             /\ owner'[r] = IF r = s THEN 0 ELSE owner[r]
                             /\ freeBlocks'[r] = IF r = s THEN 0 ELSE freeBlocks[r]
                             /\ freeList'[r] = IF r = s THEN {} ELSE freeList[r]
      /\ \A u \in Threads : obj'[u] = IF u = t THEN None ELSE obj[u]
  BY DEF RecycleSpan, IInv, TypeOK
<1>3. \A u \in Threads : Owns(u)' => u # t /\ Owns(u) /\ obj[u] # s
  <2> SUFFICES ASSUME NEW u \in Threads, Owns(u)' PROVE u # t /\ Owns(u) /\ obj[u] # s
    OBVIOUS
  <2>1. u # t /\ Owns(u) /\ Owns(t)
    BY DEF Owns
  <2> QED
    BY <2>1 DEF IInv, SpansOwned
<1>4. \A u \in Threads : u # t => (Owns(u)' <=> Owns(u))
  BY DEF Owns
<1>5. \A x \in Extents : pageMap[x] # s
  BY <1>1, Constants DEF IInv, ExtentsPlaced
<1>6. /\ base' \in [SpanObjs -> Extents \cup {None}]
      /\ owner' \in [SpanObjs -> Shards]
      /\ freeBlocks' \in [SpanObjs -> 0 .. BlocksPerSpan]
      /\ freeList' \in [SpanObjs -> SUBSET Block]
      /\ released' \in SUBSET SpanObjs
      /\ spanPool' \in SUBSET SpanObjs
      /\ obj' \in [Threads -> SpanObjs \cup {None}]
  <2>1. 0 \in Shards /\ 0 \in 0 .. BlocksPerSpan
    BY CountsAssumption DEF Shards
  <2> QED
    BY <1>1, <2>1 DEF RecycleSpan, IInv, TypeOK
<1>7. SpansOwned'
  <2>1. \A r \in SpanObjs : r \in spanPool' <=> base'[r] = None
    BY <1>2 DEF IInv, SpansOwned
  <2>2. \A r \in SpanObjs : base'[r] # None =>
          Live(r)' \/ \E u \in Threads : Owns(u)' /\ obj'[u] = r
    BY <1>2, <1>4 DEF IInv, SpansOwned, Live
  <2>3. \A u \in Threads : Owns(u)' =>
          /\ obj'[u] \in SpanObjs
          /\ base'[obj'[u]] # None
          /\ pageMap'[base'[obj'[u]]] = None
          /\ lock'[owner'[obj'[u]]] = u
    BY <1>2, <1>3, <1>6 DEF IInv, SpansOwned, TypeOK
  <2>4. \A r \in released' : \E u \in Threads : pc'[u] = "recycle" /\ obj'[u] = r
    BY <1>2 DEF IInv, SpansOwned
  <2> QED
    BY <2>1, <2>2, <2>3, <2>4 DEF SpansOwned
<1>8. ExtentsPlaced'
  <2>1. \A x \in Extents : pageMap'[x] # None => base'[pageMap'[x]] = x /\ x \notin freeExtents'
    BY <1>2, <1>5 DEF IInv, ExtentsPlaced, TypeOK, pageVars
  <2>2. \A q, r \in SpanObjs : base'[q] = base'[r] /\ base'[q] # None => q = r
    BY <1>2 DEF IInv, ExtentsPlaced
  <2>3. \A r \in SpanObjs : base'[r] \in freeExtents' =>
          r # s /\ base[r] \in freeExtents
    BY <1>2, Constants DEF IInv, TypeOK, pageVars
  <2>4. \A r \in SpanObjs : base'[r] \in freeExtents' =>
          \E u \in Threads : pc'[u] \in {"abandon", "mark", "recycle"} /\ obj'[u] = r
    BY <1>2, <2>3 DEF IInv, ExtentsPlaced
  <2>5. \A u \in Threads : pc'[u] = "alloc_span" =>
          pc[u] = "alloc_span" /\ \A r \in SpanObjs : base'[r] # pages[u]
    BY <1>2 DEF IInv, ExtentsPlaced
  <2> QED
    BY <2>1, <2>2, <2>4, <2>5 DEF IInv, ExtentsPlaced, pageVars
<1>9. RegionsOfShards'
  BY <1>2 DEF IInv, RegionsOfShards, pageVars
<1>10. OneHand' /\ Outstanding' = Outstanding
  BY HandsKept DEF IInv, batchVars
<1>11. BlocksPlaced'
  <2>1. \A b \in Outstanding' : pageMap'[b[1]] # None /\ b \notin freeList'[pageMap'[b[1]]]
    <3> SUFFICES ASSUME NEW b \in Outstanding
                 PROVE  pageMap[b[1]] # None /\ b \notin freeList'[pageMap[b[1]]]
      BY <1>10
    <3>1. b[1] \in Extents
      BY OutstandingTyped, BlockOfExtent DEF IInv
    <3> QED
      BY <1>2, <1>5, <3>1 DEF IInv, BlocksPlaced, TypeOK
  <2>2. \A x \in Extents : pageMap'[x] # None =>
          /\ freeList'[pageMap'[x]] \subseteq BlocksOf(x)
          /\ BlocksOf(x) \ Outstanding' \subseteq freeList'[pageMap'[x]]
    BY <1>2, <1>5, <1>10 DEF IInv, BlocksPlaced, TypeOK
  <2>3. \A u \in Threads : Owns(u)' => freeList'[obj'[u]] = BlocksOf(base'[obj'[u]])
    BY <1>2, <1>3 DEF IInv, BlocksPlaced, SpansOwned
  <2> QED
    BY <2>1, <2>2, <2>3 DEF BlocksPlaced, BlocksOf
<1>12. \A u \in Threads, r \in SpanObjs : \A b \in group'[u][r] :
         pageMap'[b[1]] = r /\ batchShard'[u][r] = owner'[r]
  <2> SUFFICES ASSUME NEW u \in Threads, NEW r \in SpanObjs, NEW b \in group[u][r]
               PROVE  r # s /\ pageMap[b[1]] = r /\ batchShard[u][r] = owner[r]
    BY <1>2 DEF batchVars
  <2>1. b[1] \in Extents
    BY BlockOfExtent DEF IInv, TypeOK
  <2> QED
    BY <1>5, <2>1 DEF IInv, BatchesOfSpans
<1>13. FreeBlocksExact'
  BY <1>2, <1>5 DEF IInv, TypeOK, CountersExact, FreeBlocksExact
<1>14. \A u \in Threads : Owns(u)' => freeBlocks'[obj'[u]] = BlocksPerSpan
  BY <1>2, <1>3 DEF IInv, CountersExact, SpansOwned
<1>15. ListsMatchState'
  <2>1. \A r \in SpanObjs : r = s => ~ Live(r) /\ ~ Live(r)'
    BY <1>1, <1>2, Constants DEF Live
  <2>2. \A r \in SpanObjs : r # s => /\ Live(r)' <=> Live(r)
                                    /\ owner'[r] = owner[r] /\ freeBlocks'[r] = freeBlocks[r]
    BY <1>2 DEF Live
  <2> QED
    BY <2>1, <2>2 DEF IInv, ListsMatchState, listVars
<1> QED
  BY <1>6, <1>7, <1>8, <1>9, <1>10, <1>11, <1>12, <1>13, <1>14, <1>15

LEMMA AbandonStep ==
  ASSUME IInv, NEW t \in Threads, Abandon(t) PROVE IInv'
<1> DEFINE h == ShardOf[t]
<1>1. /\ pc[t] = "abandon"
      /\ RecycleSpan(obj[t])
      /\ obj' = [obj EXCEPT ![t] = None]
      /\ pc' = [pc EXCEPT ![t] = "idle"]
      /\ lock' = [lock EXCEPT ![h] = None]
      /\ UNCHANGED <<listVars, pageMap, pageVars, held, hint, fetchVars, batchVars>>
  BY DEF Abandon, GoTo, Unlock
<1>2. lock[h] = t /\ h \in Shards
  BY <1>1, Constants DEF IInv, LocksHeld, Growing, GrowLabels
<1>3. /\ \A u \in Threads : pc'[u] = IF u = t THEN "idle" ELSE pc[u]
      /\ \A g \in Shards : lock'[g] = IF g = h THEN None ELSE lock[g]
  BY <1>1 DEF IInv, TypeOK
<1>4. LocksHeld'
  <2>1. pc'[t] \notin GrowLabels /\ pc'[t] \notin TrimLabels
    BY <1>3 DEF GrowLabels, TrimLabels
  <2>2. \A u \in Threads \ {t} : pc'[u] = pc[u]
    BY <1>3
  <2> QED
    BY <1>1, <1>2, <2>1, <2>2, LockGiven DEF IInv
<1>5. /\ /\ base' \in [SpanObjs -> Extents \cup {None}]
         /\ owner' \in [SpanObjs -> Shards]
         /\ freeBlocks' \in [SpanObjs -> 0 .. BlocksPerSpan]
         /\ freeList' \in [SpanObjs -> SUBSET Block]
         /\ released' \in SUBSET SpanObjs
         /\ spanPool' \in SUBSET SpanObjs
         /\ obj' \in [Threads -> SpanObjs \cup {None}]
      /\ SpansOwned' /\ ExtentsPlaced' /\ RegionsOfShards' /\ OneHand' /\ BlocksPlaced'
      /\ \A u \in Threads, r \in SpanObjs : \A b \in group'[u][r] :
           pageMap'[b[1]] = r /\ batchShard'[u][r] = owner'[r]
      /\ FreeBlocksExact'
      /\ \A u \in Threads : Owns(u)' => freeBlocks'[obj'[u]] = BlocksPerSpan
      /\ ListsMatchState'
  BY <1>1, <1>2, <1>3, SpanRecycled, ZenonT(40) DEF fetchVars
<1>6. TypeOK'
  <2>1. lock' \in [Shards -> Threads \cup {None}] /\ pc' \in [Threads -> Labels]
    BY <1>1 DEF IInv, TypeOK, Labels
  <2> QED
    BY <1>1, <1>5, <2>1 DEF IInv, TypeOK, listVars, pageVars, fetchVars, batchVars
<1>7. BatchesOfSpans'
  BY <1>1, <1>3, <1>5 DEF IInv, BatchesOfSpans, Growing, GrowLabels, batchVars
<1>8. CountersExact'
  BY <1>1, <1>3, <1>5 DEF IInv, CountersExact, Growing, GrowLabels, listVars, fetchVars
<1>9. emptyCount[h] <= MaxRetainedEmptySpans
  BY <1>1 DEF IInv, CountersExact, Growing, GrowLabels
<1>10. RetainedBounded'
  BY <1>1, <1>3, <1>9 DEF IInv, RetainedBounded, listVars
<1> QED
  BY <1>4, <1>5, <1>6, <1>7, <1>8, <1>10 DEF IInv

(* The tail of fetchBatch: blocks B of span s, none of them out, go to the *)
(* caller; c is the counter before.  The span is live, or becomes live in  *)
(* the same step.                                                          *)
LEMMA HandedOut ==
  ASSUME IInv, NEW s \in SpanObjs, NEW h \in Shards, NEW B, NEW c \in 1 .. BlocksPerSpan,
         base[s] # None, owner[s] = h, freeBlocks[s] = c, Cardinality(freeList[s]) = c,
         freeList[s] \subseteq BlocksOf(base[s]),
         freeList[s] \cap Outstanding = {},
         BlocksOf(base[s]) \ Outstanding \subseteq freeList[s],
         B \subseteq freeList[s],
         Cardinality(B) \in 1 .. c,
         Cardinality(freeList[s] \ B) = c - Cardinality(B),
         pageMap[base[s]] \in {s, None},
         pageMap' = [pageMap EXCEPT ![base[s]] = s],
         base[s] \notin freeExtents,
         freeList' = [freeList EXCEPT ![s] = @ \ B],
         freeBlocks' = [freeBlocks EXCEPT ![s] = c - Cardinality(B)],
         partial' = [partial EXCEPT ![h] =
                       IF c = Cardinality(B) THEN @ \ {s} ELSE @ \cup {s}],
         empty' = [empty EXCEPT ![h] = @ \ {s}],
         emptyCount' = [emptyCount EXCEPT ![h] = IF s \in empty[h] /\ @ > 0 THEN @ - 1 ELSE @],
         held' = held \cup B,
         UNCHANGED <<base, owner, freeExtents, regionShard, todo, group, batchShard, pages>>,
         \A u \in Threads : Owns(u)' => Owns(u) /\ obj'[u] = obj[u] /\ obj[u] # s
  PROVE  /\ freeList' \in [SpanObjs -> SUBSET Block]
         /\ freeBlocks' \in [SpanObjs -> 0 .. BlocksPerSpan]
         /\ partial' \in [Shards -> SUBSET SpanObjs]
         /\ empty' \in [Shards -> SUBSET SpanObjs]
         /\ emptyCount' \in [Shards -> Nat]
         /\ pageMap' \in [Extents -> SpanObjs \cup {None}]
         /\ held' \in SUBSET Block
         /\ \A r \in SpanObjs : Live(r)' <=> Live(r) \/ r = s
         /\ \A x \in Extents : pageMap'[x] # None => base[pageMap'[x]] = x /\ x \notin freeExtents
         /\ OneHand' /\ BlocksPlaced'
         /\ \A u \in Threads, r \in SpanObjs : \A b \in group[u][r] :
              pageMap'[b[1]] = r /\ batchShard[u][r] = owner[r]
         /\ FreeBlocksExact'
         /\ \A u \in Threads : Owns(u)' => freeBlocks'[obj'[u]] = BlocksPerSpan
         /\ ListsMatchState'
         /\ \A g \in Shards : emptyCount'[g] <= emptyCount[g]
<1> DEFINE e == base[s]
           k == Cardinality(B)
<1>1. e \in Extents /\ e # None /\ s # None
  BY Constants DEF IInv, TypeOK
<1>2. /\ \A x \in Extents : pageMap'[x] = IF x = e THEN s ELSE pageMap[x]
      /\ \A r \in SpanObjs : /\ freeList'[r] = IF r = s THEN freeList[s] \ B ELSE freeList[r]
                             /\ freeBlocks'[r] = IF r = s THEN c - k ELSE freeBlocks[r]
  BY <1>1 DEF IInv, TypeOK
<1>3. B \subseteq BlocksOf(e) /\ B \subseteq Block /\ B \cap Outstanding = {}
  BY <1>1 DEF BlocksOf, Block
<1>4. \A x \in Extents : pageMap'[x] = s <=> x = e
  BY <1>1, <1>2 DEF IInv, ExtentsPlaced
<1>5. \A r \in SpanObjs : Live(r)' <=> Live(r) \/ r = s
  BY <1>1, <1>2, <1>4 DEF Live, IInv, ExtentsPlaced, TypeOK
<1>6. \A x \in Extents : pageMap'[x] # None => base[pageMap'[x]] = x /\ x \notin freeExtents
  BY <1>2 DEF IInv, ExtentsPlaced
<1>7. OneHand'
  <2>1. \A b \in held' : \A u \in Threads :
          b \notin todo[u] /\ \A r \in SpanObjs : b \notin group[u][r]
    BY <1>3, InHands DEF IInv, OneHand
  <2> QED
    BY <2>1 DEF IInv, OneHand
<1>8. \A b : b \in Outstanding' <=> b \in Outstanding \/ b \in B
  BY InHands
<1>9. BlocksPlaced'
  <2>1. \A b \in Outstanding' : pageMap'[b[1]] # None /\ b \notin freeList'[pageMap'[b[1]]]
    <3>1. ASSUME NEW b \in B PROVE pageMap'[b[1]] = s /\ b \notin freeList'[s]
      <4>1. b[1] = e
        BY <1>3 DEF BlocksOf
      <4> QED
        BY <1>1, <1>2, <4>1
    <3>2. ASSUME NEW b \in Outstanding, b \notin B
          PROVE  pageMap'[b[1]] # None /\ b \notin freeList'[pageMap'[b[1]]]
      <4>1. b[1] \in Extents
        BY OutstandingTyped, BlockOfExtent DEF IInv
      <4>2. CASE b[1] = e
        BY <1>1, <1>2, <4>2
      <4>3. CASE b[1] # e
        BY <1>2, <1>4, <4>1, <4>3 DEF IInv, BlocksPlaced, TypeOK
      <4> QED
        BY <4>2, <4>3
    <3> QED
      BY <1>1, <1>8, <3>1, <3>2
  <2>2. ASSUME NEW x \in Extents, pageMap'[x] # None
        PROVE  /\ freeList'[pageMap'[x]] \subseteq BlocksOf(x)
               /\ BlocksOf(x) \ Outstanding' \subseteq freeList'[pageMap'[x]]
    <3>1. CASE x = e
      BY <1>1, <1>2, <1>8, <3>1
    <3>2. CASE x # e
      BY <1>2, <1>4, <1>8, <2>2, <3>2 DEF IInv, BlocksPlaced, TypeOK
    <3> QED
      BY <3>1, <3>2
  <2>3. \A u \in Threads : Owns(u)' => freeList'[obj'[u]] = BlocksOf(base[obj'[u]])
    BY <1>2 DEF IInv, BlocksPlaced, SpansOwned
  <2> QED
    BY <2>1, <2>2, <2>3 DEF BlocksPlaced, BlocksOf
<1>10. ASSUME NEW u \in Threads, NEW r \in SpanObjs, NEW b \in group[u][r]
       PROVE  pageMap'[b[1]] = r /\ batchShard[u][r] = owner[r]
  <2>1. b[1] \in Extents
    BY BlockOfExtent DEF IInv, TypeOK
  <2>2. pageMap[b[1]] = r /\ batchShard[u][r] = owner[r] /\ r # None
    BY Constants DEF IInv, BatchesOfSpans
  <2> QED
    BY <1>2, <2>1, <2>2
<1>11. FreeBlocksExact'
  BY <1>2, <1>4 DEF IInv, TypeOK, CountersExact, FreeBlocksExact
<1>12. \A u \in Threads : Owns(u)' => freeBlocks'[obj'[u]] = BlocksPerSpan
  BY <1>2 DEF IInv, CountersExact, SpansOwned
<1>13. \A g \in Shards : /\ partial'[g] = IF g = h THEN IF c = k THEN partial[h] \ {s} ELSE partial[h] \cup {s}
                                                   ELSE partial[g]
                         /\ empty'[g] = IF g = h THEN empty[h] \ {s} ELSE empty[g]
  BY DEF IInv, TypeOK
<1>14. /\ emptyCount' \in [Shards -> Nat]
       /\ \A g \in Shards : emptyCount'[g] = Cardinality(empty'[g]) /\ emptyCount'[g] <= emptyCount[g]
  <2>1. empty[h] \in SUBSET SpanObjs /\ emptyCount[h] = Cardinality(empty[h])
    BY DEF IInv, TypeOK, ListsMatchState
  <2>2. IsFiniteSet(empty[h]) /\ emptyCount[h] \in Nat /\ (emptyCount[h] = 0 <=> empty[h] = {})
    BY <2>1, SpansCounted
  <2>3. Cardinality(empty[h] \ {s}) = IF s \in empty[h] THEN emptyCount[h] - 1 ELSE emptyCount[h]
    BY <2>1, <2>2, FS_RemoveElement
  <2>4. \A g \in Shards : emptyCount'[g] =
          IF g = h THEN IF s \in empty[h] /\ emptyCount[h] > 0 THEN emptyCount[h] - 1 ELSE emptyCount[h]
                   ELSE emptyCount[g]
    BY DEF IInv, TypeOK
  <2>5. s \in empty[h] => emptyCount[h] > 0
    BY <2>2
  <2>6. emptyCount' \in [Shards -> Nat]
    BY <2>2 DEF IInv, TypeOK
  <2> QED
    BY <1>13, <2>2, <2>3, <2>4, <2>5, <2>6 DEF IInv, TypeOK, ListsMatchState
<1>15. ListsMatchState'
  <2>1. ASSUME NEW g \in Shards, NEW r \in SpanObjs, r # s
        PROVE  /\ r \in partial'[g] <=> /\ Live(r)' /\ owner[r] = g
                                        /\ freeBlocks'[r] \in 1 .. BlocksPerSpan - 1
               /\ r \in empty'[g] <=> Live(r)' /\ owner[r] = g /\ freeBlocks'[r] = BlocksPerSpan
    BY <1>2, <1>5, <1>13, <2>1 DEF IInv, ListsMatchState
  <2>2. ASSUME NEW g \in Shards
        PROVE  /\ s \in partial'[g] <=> g = h /\ c - k \in 1 .. BlocksPerSpan - 1
               /\ s \notin empty'[g] /\ c - k # BlocksPerSpan
    BY <1>13, CountsAssumption DEF IInv, ListsMatchState
  <2>3. \A g \in Shards : partial'[g] \subseteq SpanObjs /\ empty'[g] \subseteq SpanObjs
    BY <1>13 DEF IInv, TypeOK
  <2>4. \A g \in Shards : \A r \in SpanObjs :
          /\ r \in partial'[g] <=> /\ Live(r)' /\ owner[r] = g
                                   /\ freeBlocks'[r] \in 1 .. BlocksPerSpan - 1
          /\ r \in empty'[g] <=> Live(r)' /\ owner[r] = g /\ freeBlocks'[r] = BlocksPerSpan
    BY <1>2, <1>5, <2>1, <2>2
  <2>5. ASSUME NEW g \in Shards
        PROVE  /\ partial'[g] = {r \in SpanObjs : /\ Live(r)' /\ owner'[r] = g
                                                 /\ freeBlocks'[r] \in 1 .. BlocksPerSpan - 1}
               /\ empty'[g] = {r \in SpanObjs : /\ Live(r)' /\ owner'[r] = g
                                               /\ freeBlocks'[r] = BlocksPerSpan}
    BY <2>3, <2>4
  <2> QED
    BY <1>14, <2>5 DEF ListsMatchState
<1>16. /\ freeList' \in [SpanObjs -> SUBSET Block]
       /\ held' \in SUBSET Block
  BY <1>3 DEF IInv, TypeOK
<1>17. c - k \in 0 .. BlocksPerSpan
  BY CountsAssumption
<1>18. freeBlocks' \in [SpanObjs -> 0 .. BlocksPerSpan]
  BY <1>17 DEF IInv, TypeOK
<1>19. /\ partial' \in [Shards -> SUBSET SpanObjs]
       /\ empty' \in [Shards -> SUBSET SpanObjs]
  BY DEF IInv, TypeOK
<1>20. pageMap' \in [Extents -> SpanObjs \cup {None}]
  BY <1>1 DEF IInv, TypeOK
<1> QED
  BY <1>5, <1>6, <1>7, <1>9, <1>10, <1>11, <1>12, <1>14, <1>15, <1>16, <1>18, <1>19, <1>20

(* The blocks of a live span are on its list or out, and its counter says  *)
(* how many are on the list.                                               *)
LEMMA LiveSpan ==
  ASSUME IInv, NEW s \in SpanObjs, Live(s)
  PROVE  /\ base[s] \in Extents /\ base[s] \notin freeExtents /\ s \notin released
         /\ freeList[s] \subseteq BlocksOf(base[s])
         /\ freeList[s] \cap Outstanding = {}
         /\ BlocksOf(base[s]) \ Outstanding \subseteq freeList[s]
         /\ freeBlocks[s] = Cardinality(freeList[s])
         /\ \A u \in Threads : Owns(u) => obj[u] # s
<1>1. base[s] \in Extents /\ pageMap[base[s]] = s /\ s # None
  BY Constants DEF Live, IInv, TypeOK
<1>2. \A u \in Threads : Owns(u) => obj[u] # s
  BY <1>1 DEF IInv, SpansOwned
<1>3. s \notin released
  BY <1>2 DEF IInv, SpansOwned, Owns
<1>4. freeList[s] \cap Outstanding = {}
  <2> SUFFICES ASSUME NEW b \in freeList[s], b \in Outstanding PROVE FALSE
    OBVIOUS
  <2>1. b[1] = base[s]
    BY <1>1 DEF IInv, BlocksPlaced, BlocksOf
  <2> QED
    BY <1>1, <2>1 DEF IInv, BlocksPlaced
<1> QED
  BY <1>1, <1>2, <1>3, <1>4 DEF IInv, ExtentsPlaced, BlocksPlaced, CountersExact, FreeBlocksExact

LEMMA FetchListedStep ==
  ASSUME IInv, NEW t \in Threads, NEW n \in 1 .. MaxBatch, FetchListed(t, n)
  PROVE  IInv'
<1> DEFINE h == ShardOf[t]
<1>1. /\ pc[t] = "idle" /\ lock[h] = None /\ h \in Shards
      /\ UNCHANGED <<base, owner, released, lock, pageMap, pageVars, spanPool,
                     pc, obj, fetchVars, batchVars>>
  BY Constants DEF FetchListed
<1>2. PICK s \in FetchCandidates(h) :
        /\ HandOut(t, s, n, freeList[s], freeBlocks[s])
        /\ empty' = [empty EXCEPT ![h] = @ \ {s}]
        /\ emptyCount' = [emptyCount EXCEPT ![h] = IF s \in empty[h] /\ @ > 0 THEN @ - 1 ELSE @]
  BY DEF FetchListed
<1>3. PICK B \in Popped(freeList[s], n) :
        /\ freeList' = [freeList EXCEPT ![s] = @ \ B]
        /\ freeBlocks' = [freeBlocks EXCEPT ![s] = freeBlocks[s] - Cardinality(B)]
        /\ partial' = [partial EXCEPT ![h] =
                         IF freeBlocks[s] = Cardinality(B) THEN @ \ {s} ELSE @ \cup {s}]
        /\ held' = held \cup B
        /\ hint' \in {hint, [hint EXCEPT ![t] = s]}
  <2>1. \E B \in Popped(freeList[s], n) :
        /\ freeList' = [freeList EXCEPT ![s] = freeList[s] \ B]
        /\ freeBlocks' = [freeBlocks EXCEPT ![s] = freeBlocks[s] - Cardinality(B)]
        /\ partial' = [partial EXCEPT ![h] =
                         IF freeBlocks[s] = Cardinality(B) THEN @ \ {s} ELSE @ \cup {s}]
        /\ held' = held \cup B
        /\ hint' \in {hint, [hint EXCEPT ![t] = s]}
    BY <1>2, Zenon DEF HandOut
  <2> QED
    BY <2>1
<1>4. s \in SpanObjs /\ Live(s) /\ owner[s] = h /\ freeBlocks[s] \in 1 .. BlocksPerSpan
  BY <1>1, CountsAssumption DEF FetchCandidates, IInv, ListsMatchState
<1> DEFINE e == base[s]
           c == freeBlocks[s]
<1>5. /\ e \in Extents /\ e # None /\ e \notin freeExtents /\ pageMap[e] = s
      /\ freeList[s] \subseteq BlocksOf(e)
      /\ freeList[s] \cap Outstanding = {}
      /\ BlocksOf(e) \ Outstanding \subseteq freeList[s]
      /\ c = Cardinality(freeList[s])
      /\ \A u \in Threads : Owns(u) => obj[u] # s
  BY <1>4, LiveSpan DEF Live
<1>6. B \subseteq freeList[s] /\ Cardinality(B) \in 1 .. c
      /\ Cardinality(freeList[s] \ B) = c - Cardinality(B)
  <2>1. n \in Nat \ {0}
    BY CountsAssumption
  <2>2. /\ B \subseteq freeList[s] /\ Cardinality(B) \in 0 .. Cardinality(freeList[s])
        /\ Cardinality(freeList[s] \ B) = Cardinality(freeList[s]) - Cardinality(B)
        /\ freeList[s] # {} => Cardinality(B) # 0
    <3>1. freeList[s] \in SUBSET BlocksOf(e)
      BY <1>5
    <3> QED
      BY <2>1, <3>1, PoppedCounted
  <2>3. freeList[s] # {}
    BY <1>4, <1>5, FS_EmptySet
  <2> QED
    BY <1>4, <1>5, <2>2, <2>3
<1>7. pageMap' = [pageMap EXCEPT ![e] = s]
  BY <1>1, <1>5 DEF IInv, TypeOK
<1>8. \A u \in Threads : (Owns(u)' <=> Owns(u)) /\ obj'[u] = obj[u] /\ pc'[u] = pc[u]
  BY <1>1 DEF Owns
<1>9. /\ freeList' \in [SpanObjs -> SUBSET Block]
      /\ freeBlocks' \in [SpanObjs -> 0 .. BlocksPerSpan]
      /\ partial' \in [Shards -> SUBSET SpanObjs]
      /\ empty' \in [Shards -> SUBSET SpanObjs]
      /\ emptyCount' \in [Shards -> Nat]
      /\ held' \in SUBSET Block
      /\ OneHand' /\ BlocksPlaced'
      /\ FreeBlocksExact'
      /\ \A u \in Threads : Owns(u)' => freeBlocks'[obj'[u]] = BlocksPerSpan
      /\ ListsMatchState'
      /\ \A g \in Shards : emptyCount'[g] <= emptyCount[g]
  BY <1>1, <1>2, <1>3, <1>4, <1>5, <1>6, <1>7, <1>8, HandedOut DEF pageVars, fetchVars, batchVars
<1>10. TypeOK'
  <2>1. hint' \in [Threads -> SpanObjs \cup {None}]
    BY <1>3, <1>4 DEF IInv, TypeOK
  <2> QED
    BY <1>1, <1>9, <2>1 DEF IInv, TypeOK, pageVars, fetchVars, batchVars
<1>11. LocksHeld'
  BY <1>1, LocksKept DEF IInv, Growing, Trimming
<1>12. SpansOwned'
  BY <1>1, <1>8, SpansKept DEF IInv
<1>13. ExtentsPlaced' /\ RegionsOfShards'
  BY <1>1, ExtentsKept, RegionsKept DEF IInv, pageVars, fetchVars
<1>14. BatchesOfSpans'
  BY <1>1, BatchesKept DEF IInv, Growing, batchVars
<1>15. \A u \in Threads : Growing(u) => u # t /\ emptyCount'[ShardOf[u]] <= MaxRetainedEmptySpans
  <2> SUFFICES ASSUME NEW u \in Threads, Growing(u)
               PROVE  emptyCount'[ShardOf[u]] <= MaxRetainedEmptySpans
    BY <1>1 DEF Growing, GrowLabels
  <2>1. ShardOf[u] \in Shards /\ emptyCount[ShardOf[u]] <= MaxRetainedEmptySpans
    BY Constants DEF IInv, CountersExact
  <2>2. emptyCount[ShardOf[u]] \in Nat /\ emptyCount'[ShardOf[u]] \in Nat
    BY <1>9, <2>1 DEF IInv, TypeOK
  <2> QED
    BY <1>9, <2>1, <2>2, CountsAssumption
<1>16. CountersExact'
  BY <1>1, <1>8, <1>9, <1>15 DEF IInv, CountersExact, Growing, fetchVars
<1>17. RetainedBounded'
  <2> SUFFICES ASSUME NEW g \in Shards, lock[g] = None
               PROVE  emptyCount'[g] <= MaxRetainedEmptySpans
    BY <1>1 DEF RetainedBounded
  <2>1. emptyCount[g] <= MaxRetainedEmptySpans /\ emptyCount[g] \in Nat /\ emptyCount'[g] \in Nat
    BY <1>9 DEF IInv, RetainedBounded, TypeOK
  <2> QED
    BY <1>9, <2>1, CountsAssumption
<1> QED
  BY <1>9, <1>10, <1>11, <1>12, <1>13, <1>14, <1>16, <1>17 DEF IInv

LEMMA RegisterPagesStep ==
  ASSUME IInv, NEW t \in Threads, RegisterPages(t) PROVE IInv'
<1> DEFINE h == ShardOf[t]
<1>1. PICK s : s = obj[t]
  OBVIOUS
<1>2. /\ pc[t] = "register"
      /\ pageMap' = [pageMap EXCEPT ![base[s]] = s]
      /\ HandOut(t, s, want[t], freeList[s], freeBlocks[s])
      /\ want' = [want EXCEPT ![t] = 0]
      /\ obj' = [obj EXCEPT ![t] = None]
      /\ pc' = [pc EXCEPT ![t] = "idle"]
      /\ lock' = [lock EXCEPT ![h] = None]
      /\ UNCHANGED <<base, owner, released, empty, emptyCount, pageVars,
                     spanPool, pages, batchVars>>
  BY <1>1 DEF RegisterPages, GoTo, Unlock
<1>3. PICK B \in Popped(freeList[s], want[t]) :
        /\ freeList' = [freeList EXCEPT ![s] = @ \ B]
        /\ freeBlocks' = [freeBlocks EXCEPT ![s] = freeBlocks[s] - Cardinality(B)]
        /\ partial' = [partial EXCEPT ![h] =
                         IF freeBlocks[s] = Cardinality(B) THEN @ \ {s} ELSE @ \cup {s}]
        /\ held' = held \cup B
        /\ hint' \in {hint, [hint EXCEPT ![t] = s]}
  <2>1. \E B \in Popped(freeList[s], want[t]) :
        /\ freeList' = [freeList EXCEPT ![s] = freeList[s] \ B]
        /\ freeBlocks' = [freeBlocks EXCEPT ![s] = freeBlocks[s] - Cardinality(B)]
        /\ partial' = [partial EXCEPT ![h] =
                         IF freeBlocks[s] = Cardinality(B) THEN @ \ {s} ELSE @ \cup {s}]
        /\ held' = held \cup B
        /\ hint' \in {hint, [hint EXCEPT ![t] = s]}
    BY <1>2, Zenon DEF HandOut
  <2> QED
    BY <2>1
<1> DEFINE e == base[s]
<1>4. /\ lock[h] = t /\ h \in Shards
      /\ s \in SpanObjs /\ e # None /\ e \in Extents /\ pageMap[e] = None
      /\ owner[s] = h /\ owner[s] \in Shards
      /\ freeBlocks[s] = BlocksPerSpan /\ freeList[s] = BlocksOf(e)
  <2>1. lock[h] = t /\ h \in Shards
    BY <1>2, Constants DEF IInv, LocksHeld, Growing, GrowLabels
  <2>2. Owns(t)
    BY <1>2 DEF Owns
  <2>3. s \in SpanObjs /\ e # None /\ pageMap[e] = None /\ lock[owner[s]] = t
    BY <1>1, <2>2 DEF IInv, SpansOwned
  <2>4. e \in Extents /\ owner[s] \in Shards
    BY <2>3 DEF IInv, TypeOK
  <2>5. owner[s] = h
    BY <2>1, <2>3, <2>4, Constants DEF IInv, LocksHeld
  <2>6. freeBlocks[s] = BlocksPerSpan /\ freeList[s] = BlocksOf(e)
    BY <1>1, <2>2 DEF IInv, CountersExact, BlocksPlaced
  <2> QED
    BY <2>1, <2>3, <2>4, <2>5, <2>6
<1>5. e \notin freeExtents
  <2> SUFFICES ASSUME e \in freeExtents PROVE FALSE
    OBVIOUS
  <2>1. PICK u \in Threads : pc[u] \in {"abandon", "mark", "recycle"} /\ obj[u] = s
    BY <1>4 DEF IInv, ExtentsPlaced
  <2>2. lock[owner[s]] = u
    BY <2>1 DEF IInv, SpansOwned, Owns
  <2> QED
    BY <1>2, <1>4, <2>1, <2>2
<1>6. BlocksOf(e) \cap Outstanding = {}
  <2> SUFFICES ASSUME NEW b \in BlocksOf(e), b \in Outstanding PROVE FALSE
    OBVIOUS
  <2>1. b[1] = e
    BY DEF BlocksOf
  <2> QED
    BY <1>4, <2>1 DEF IInv, BlocksPlaced
<1>7. /\ Cardinality(freeList[s]) = BlocksPerSpan /\ BlocksPerSpan \in 1 .. BlocksPerSpan
      /\ B \subseteq freeList[s] /\ Cardinality(B) \in 1 .. BlocksPerSpan
      /\ Cardinality(freeList[s] \ B) = BlocksPerSpan - Cardinality(B)
  <2>1. want[t] \in Nat \ {0}
    BY <1>2, CountsAssumption DEF IInv, CountersExact, TypeOK
  <2>2. Cardinality(freeList[s]) = BlocksPerSpan
    BY <1>4, BlocksCounted
  <2>3. /\ B \subseteq freeList[s] /\ Cardinality(B) \in 0 .. BlocksPerSpan
        /\ Cardinality(freeList[s] \ B) = BlocksPerSpan - Cardinality(B)
        /\ freeList[s] # {} => Cardinality(B) # 0
    BY <1>4, <2>1, <2>2, PoppedCounted
  <2>4. freeList[s] # {}
    BY <2>2, FS_EmptySet, CountsAssumption
  <2> QED
    BY <2>2, <2>3, <2>4, CountsAssumption
<1>8. /\ \A u \in Threads : /\ pc'[u] = IF u = t THEN "idle" ELSE pc[u]
                            /\ obj'[u] = IF u = t THEN None ELSE obj[u]
                            /\ want'[u] = IF u = t THEN 0 ELSE want[u]
      /\ \A g \in Shards : lock'[g] = IF g = h THEN None ELSE lock[g]
  BY <1>2 DEF IInv, TypeOK
<1>9. \A u \in Threads : /\ Owns(u)' <=> Owns(u) /\ u # t
                         /\ Owns(u)' => obj'[u] = obj[u] /\ obj[u] # s
  <2>1. \A u \in Threads : Owns(u)' <=> Owns(u) /\ u # t
    BY <1>2, <1>8 DEF Owns
  <2>2. \A u \in Threads : Owns(u) /\ u # t => obj[u] # s
    BY <1>4 DEF IInv, SpansOwned
  <2> QED
    BY <1>8, <2>1, <2>2
<1>10. s \notin empty[h]
  BY <1>4, Constants DEF IInv, ListsMatchState, Live
<1>11. /\ empty' = [empty EXCEPT ![h] = @ \ {s}]
       /\ emptyCount' = [emptyCount EXCEPT ![h] = IF s \in empty[h] /\ @ > 0 THEN @ - 1 ELSE @]
  BY <1>2, <1>4, <1>10 DEF IInv, TypeOK
<1>12. /\ freeList' \in [SpanObjs -> SUBSET Block]
       /\ freeBlocks' \in [SpanObjs -> 0 .. BlocksPerSpan]
       /\ partial' \in [Shards -> SUBSET SpanObjs]
       /\ pageMap' \in [Extents -> SpanObjs \cup {None}]
       /\ held' \in SUBSET Block
       /\ \A r \in SpanObjs : Live(r)' <=> Live(r) \/ r = s
       /\ \A x \in Extents : pageMap'[x] # None => base[pageMap'[x]] = x /\ x \notin freeExtents
       /\ OneHand' /\ BlocksPlaced'
       /\ \A u \in Threads, r \in SpanObjs : \A b \in group[u][r] :
            pageMap'[b[1]] = r /\ batchShard[u][r] = owner[r]
       /\ FreeBlocksExact'
       /\ \A u \in Threads : Owns(u)' => freeBlocks'[obj'[u]] = BlocksPerSpan
       /\ ListsMatchState'
  <2>1. /\ freeBlocks' = [freeBlocks EXCEPT ![s] = BlocksPerSpan - Cardinality(B)]
        /\ partial' = [partial EXCEPT ![h] =
                         IF BlocksPerSpan = Cardinality(B) THEN @ \ {s} ELSE @ \cup {s}]
    BY <1>3, <1>4
  <2>2. /\ freeList[s] \subseteq BlocksOf(e) /\ freeList[s] \cap Outstanding = {}
        /\ BlocksOf(e) \ Outstanding \subseteq freeList[s]
    BY <1>4, <1>6
  <2>3. UNCHANGED <<base, owner, freeExtents, regionShard, todo, group, batchShard, pages>>
    BY <1>2 DEF pageVars, batchVars
  <2>4. \A u \in Threads : Owns(u)' => Owns(u) /\ obj'[u] = obj[u] /\ obj[u] # s
    BY <1>9
  <2>5. pageMap[base[s]] \in {s, None} /\ pageMap' = [pageMap EXCEPT ![base[s]] = s]
    BY <1>2, <1>4
  <2>6. freeList' = [freeList EXCEPT ![s] = @ \ B] /\ held' = held \cup B
    BY <1>3
  <2> QED
    BY <1>4, <1>5, <1>7, <1>11, <2>1, <2>2, <2>3, <2>4, <2>5, <2>6, HandedOut
<1>13. TypeOK'
  <2>1. 0 \in 0 .. MaxBatch
    BY CountsAssumption
  <2>2. /\ want' \in [Threads -> 0 .. MaxBatch]
        /\ lock' \in [Shards -> Threads \cup {None}]
        /\ obj' \in [Threads -> SpanObjs \cup {None}]
        /\ pc' \in [Threads -> Labels]
    BY <1>2, <2>1 DEF IInv, TypeOK, Labels
  <2>3. hint' \in [Threads -> SpanObjs \cup {None}]
    BY <1>3, <1>4 DEF IInv, TypeOK
  <2> QED
    BY <1>2, <1>12, <2>2, <2>3 DEF IInv, TypeOK, pageVars, batchVars
<1>14. LocksHeld'
  <2>1. pc'[t] \notin GrowLabels /\ pc'[t] \notin TrimLabels
    BY <1>8 DEF GrowLabels, TrimLabels
  <2>2. \A u \in Threads \ {t} : pc'[u] = pc[u]
    BY <1>8
  <2> QED
    BY <1>2, <1>4, <2>1, <2>2, LockGiven DEF IInv
<1>15. SpansOwned'
  <2>1. \A r \in SpanObjs : base'[r] # None =>
          Live(r)' \/ \E u \in Threads : Owns(u)' /\ obj'[u] = r
    BY <1>1, <1>2, <1>9, <1>12 DEF IInv, SpansOwned
  <2>2. \A u \in Threads : Owns(u)' =>
          /\ obj'[u] \in SpanObjs
          /\ base'[obj'[u]] # None
          /\ pageMap'[base'[obj'[u]]] = None
          /\ lock'[owner'[obj'[u]]] = u
    <3> SUFFICES ASSUME NEW u \in Threads, Owns(u)'
                 PROVE  /\ obj[u] \in SpanObjs
                        /\ base[obj[u]] # None
                        /\ pageMap'[base[obj[u]]] = None
                        /\ lock'[owner[obj[u]]] = u
      BY <1>2, <1>9
    <3>1. /\ obj[u] \in SpanObjs /\ base[obj[u]] # None /\ pageMap[base[obj[u]]] = None
          /\ lock[owner[obj[u]]] = u /\ obj[u] # s /\ u # t
      BY <1>9 DEF IInv, SpansOwned
    <3>2. base[obj[u]] # e /\ base[obj[u]] \in Extents /\ owner[obj[u]] \in Shards
      BY <1>4, <3>1 DEF IInv, ExtentsPlaced, TypeOK
    <3> QED
      BY <1>2, <1>4, <1>8, <3>1, <3>2 DEF IInv, TypeOK
  <2>3. \A r \in released' : \E u \in Threads : pc'[u] = "recycle" /\ obj'[u] = r
    BY <1>2, <1>8 DEF IInv, SpansOwned
  <2> QED
    BY <1>2, <2>1, <2>2, <2>3 DEF IInv, SpansOwned
<1>16. ExtentsPlaced'
  <2>1. \A u \in Threads : pc'[u] = "alloc_span" =>
          pc[u] = "alloc_span" /\ pages[u] # e /\ pageMap'[pages[u]] = None
    BY <1>2, <1>4, <1>8 DEF IInv, ExtentsPlaced, TypeOK
  <2>2. \A r \in SpanObjs : base'[r] \in freeExtents' =>
          \E u \in Threads : pc'[u] \in {"abandon", "mark", "recycle"} /\ obj'[u] = r
    BY <1>2, <1>8 DEF IInv, ExtentsPlaced, pageVars
  <2> QED
    BY <1>2, <1>12, <2>1, <2>2 DEF IInv, ExtentsPlaced, pageVars
<1>17. RegionsOfShards'
  BY <1>2, RegionsKept DEF IInv, pageVars
<1>18. BatchesOfSpans'
  BY <1>2, <1>8, <1>12 DEF IInv, BatchesOfSpans, Growing, GrowLabels, batchVars
<1>19. CountersExact'
  BY <1>2, <1>8, <1>12 DEF IInv, CountersExact, Growing, GrowLabels
<1>20. emptyCount[h] <= MaxRetainedEmptySpans
  BY <1>2 DEF IInv, CountersExact, Growing, GrowLabels
<1>21. RetainedBounded'
  BY <1>2, <1>8, <1>20 DEF IInv, RetainedBounded
<1> QED
  BY <1>12, <1>13, <1>14, <1>15, <1>16, <1>17, <1>18, <1>19, <1>21 DEF IInv

-----------------------------------------------------------------------------
(* returnBatch *)

(* Whatever the hint, findSpanHinted gives the span that serves the block. *)
LEMMA SpanFound ==
  ASSUME IInv, NEW b \in Outstanding, NEW s \in SpanObjs \cup {None}
  PROVE  /\ FindSpanHinted(b, s) = pageMap[b[1]]
         /\ b[1] \in Extents /\ pageMap[b[1]] \in SpanObjs
         /\ base[pageMap[b[1]]] = b[1]
<1> DEFINE r == pageMap[b[1]]
<1>1. b[1] \in Extents
  BY OutstandingTyped, BlockOfExtent DEF IInv
<1>2. r \in SpanObjs /\ base[r] = b[1]
  BY <1>1 DEF IInv, BlocksPlaced, ExtentsPlaced, TypeOK
<1>3. r \notin released
  <2>1. Live(r)
    BY <1>1, <1>2, Constants DEF Live
  <2> QED
    BY <1>2, <2>1, LiveSpan
<1>4. s # None /\ base[s] = b[1] => s = r
  BY <1>1, <1>2, Constants DEF IInv, ExtentsPlaced
<1> QED
  BY <1>1, <1>2, <1>3, <1>4, Constants DEF FindSpanHinted, IsBlockInSpan

LEMMA CacheHintStep ==
  ASSUME IInv, NEW t \in Threads, NEW b \in held, CacheHint(t, b) PROVE IInv'
<1>1. /\ hint' = [hint EXCEPT ![t] = FindSpanHinted(b, hint[t])]
      /\ UNCHANGED <<spanVars, listVars, lock, pageMap, pageVars, spanPool,
                     held, pc, obj, fetchVars, batchVars>>
  BY DEF CacheHint
<1>2. hint' \in [Threads -> SpanObjs \cup {None}]
  <2>1. b \in Outstanding /\ hint[t] \in SpanObjs \cup {None}
    BY InHands DEF IInv, TypeOK
  <2>2. FindSpanHinted(b, hint[t]) \in SpanObjs
    BY <2>1, SpanFound
  <2> QED
    BY <1>1, <2>2 DEF IInv, TypeOK
<1>3. TypeOK'
  BY <1>1, <1>2 DEF IInv, TypeOK, spanVars, listVars, pageVars, fetchVars, batchVars
<1>4. \A u \in Threads : (Owns(u)' <=> Owns(u)) /\ (Growing(u)' <=> Growing(u))
                         /\ (Trimming(u)' <=> Trimming(u))
  BY <1>1 DEF Owns, Growing, Trimming
<1>5. LocksHeld' /\ SpansOwned' /\ ExtentsPlaced' /\ RegionsOfShards'
  BY <1>1, <1>4, LocksKept, SpansKept, ExtentsKept, RegionsKept
  DEF IInv, spanVars, pageVars, fetchVars
<1>6. OneHand' /\ Outstanding' = Outstanding
  BY <1>1, HandsKept DEF IInv, batchVars
<1>7. BlocksPlaced' /\ BatchesOfSpans'
  BY <1>1, <1>4, <1>6, BlocksKept, BatchesKept DEF IInv, spanVars, batchVars
<1>8. CountersExact' /\ ListsMatchState' /\ RetainedBounded'
  BY <1>1, <1>4, CountersKept, ListsKept
  DEF IInv, CountersExact, RetainedBounded, Growing, spanVars, listVars, fetchVars
<1> QED
  BY <1>3, <1>5, <1>6, <1>7, <1>8 DEF IInv

(* A block changes hands: from held to the chain of a call, from there to  *)
(* a batch.  What is out does not change.                                  *)
LEMMA ReturnBatchStep ==
  ASSUME IInv, NEW t \in Threads, NEW B \in SUBSET held, ReturnBatch(t, B) PROVE IInv'
<1>1. /\ pc[t] = "idle"
      /\ held' = held \ B
      /\ todo' = [todo EXCEPT ![t] = B]
      /\ near' \in {[near EXCEPT ![t] = s] : s \in {None, hint[t]}}
      /\ pc' = [pc EXCEPT ![t] = "return"]
      /\ UNCHANGED <<spanVars, listVars, lock, pageMap, pageVars, spanPool,
                     hint, obj, fetchVars, group, batchShard>>
  BY DEF ReturnBatch, GoTo
<1>2. /\ \A u \in Threads : /\ todo'[u] = IF u = t THEN B ELSE todo[u]
                            /\ pc'[u] = IF u = t THEN "return" ELSE pc[u]
      /\ todo[t] = {} /\ \A s \in SpanObjs : group[t][s] = {}
  BY <1>1 DEF IInv, TypeOK, BatchesOfSpans
<1>3. TypeOK'
  <2>1. near' \in [Threads -> SpanObjs \cup {None}]
    BY <1>1 DEF IInv, TypeOK
  <2>2. /\ held' \in SUBSET Block /\ todo' \in [Threads -> SUBSET Block]
        /\ pc' \in [Threads -> Labels]
    BY <1>1 DEF IInv, TypeOK, Labels
  <2> QED
    BY <1>1, <2>1, <2>2 DEF IInv, TypeOK, spanVars, listVars, pageVars, fetchVars
<1>4. \A u \in Threads : (Owns(u)' <=> Owns(u)) /\ (Growing(u)' <=> Growing(u))
                         /\ (Trimming(u)' <=> Trimming(u))
  BY <1>1, <1>2 DEF Owns, Growing, Trimming, GrowLabels, TrimLabels
<1>5. \A u \in Threads : Owns(u) => pc'[u] = pc[u]
  BY <1>1, <1>2 DEF Owns
<1>6. LocksHeld' /\ SpansOwned' /\ ExtentsPlaced' /\ RegionsOfShards'
  BY <1>1, <1>2, <1>4, <1>5, LocksKept, SpansKept, ExtentsKept, RegionsKept
  DEF IInv, spanVars, pageVars, fetchVars
<1>7. Outstanding' = Outstanding
  <2>1. \A b : b \in Outstanding' <=> b \in Outstanding
    BY <1>1, <1>2, InHands
  <2> QED
    BY <2>1
<1>8. OneHand'
  <2>1. \A b \in held' : \A u \in Threads :
          b \notin todo'[u] /\ \A s \in SpanObjs : b \notin group'[u][s]
    BY <1>1, <1>2 DEF IInv, OneHand
  <2>2. \A u, v \in Threads : \A b \in todo'[u] :
          /\ b \in todo'[v] => u = v
          /\ \A s \in SpanObjs : b \notin group'[v][s]
    BY <1>1, <1>2 DEF IInv, OneHand
  <2> QED
    BY <1>1, <2>1, <2>2 DEF IInv, OneHand
<1>9. BlocksPlaced'
  BY <1>1, <1>4, <1>7, BlocksKept DEF IInv, spanVars
<1>10. BatchesOfSpans'
  <2>1. \A u \in Threads : pc'[u] = "idle" \/ Growing(u)' => u # t /\ (pc[u] = "idle" \/ Growing(u))
    BY <1>1, <1>2 DEF Growing, GrowLabels
  <2> QED
    BY <1>1, <1>2, <2>1 DEF IInv, BatchesOfSpans, spanVars
<1>11. CountersExact' /\ ListsMatchState' /\ RetainedBounded'
  BY <1>1, <1>2, <1>4, CountersKept, ListsKept
  DEF IInv, CountersExact, RetainedBounded, spanVars, listVars, fetchVars
<1> QED
  BY <1>3, <1>6, <1>8, <1>9, <1>10, <1>11 DEF IInv

LEMMA ResolveBlockStep ==
  ASSUME IInv, NEW t \in Threads, NEW b \in todo[t], ResolveBlock(t, b) PROVE IInv'
<1>1. PICK s : s = FindSpanHinted(b, near[t])
  OBVIOUS
<1>2. b \in Outstanding /\ b \in Block
  BY InHands, OutstandingTyped DEF IInv
<1>3. s = pageMap[b[1]] /\ b[1] \in Extents /\ s \in SpanObjs /\ base[s] = b[1]
  <2>1. near[t] \in SpanObjs \cup {None}
    BY DEF IInv, TypeOK
  <2> QED
    BY <1>1, <1>2, <2>1, SpanFound
<1>4. /\ pc[t] = "return"
      /\ todo' = [todo EXCEPT ![t] = @ \ {b}]
      /\ group' = [group EXCEPT ![t][s] = @ \cup {b}]
      /\ batchShard' = [batchShard EXCEPT ![t][s] = IF s \in Groups(t) THEN @ ELSE owner[s]]
      /\ near' = [near EXCEPT ![t] = s]
      /\ \/ UNCHANGED <<pc, obj>>
         \/ pc' = [pc EXCEPT ![t] = "flush"] /\ obj' = [obj EXCEPT ![t] = s]
      /\ UNCHANGED <<spanVars, listVars, lock, pageMap, pageVars, spanPool,
                     held, hint, fetchVars>>
  BY <1>1, <1>3, Constants DEF ResolveBlock, GoTo
<1>5. /\ \A u \in Threads : /\ u # t => pc'[u] = pc[u] /\ obj'[u] = obj[u]
                            /\ todo'[u] = IF u = t THEN todo[t] \ {b} ELSE todo[u]
      /\ pc'[t] \in {"return", "flush"}
      /\ \A u \in Threads, r \in SpanObjs :
           /\ group'[u][r] = IF u = t /\ r = s THEN group[t][s] \cup {b} ELSE group[u][r]
           /\ batchShard'[u][r] = IF u = t /\ r = s /\ group[t][s] = {} THEN owner[s]
                                                                     ELSE batchShard[u][r]
  BY <1>3, <1>4 DEF IInv, TypeOK, Groups
<1>6. TypeOK'
  <2>1. /\ todo' \in [Threads -> SUBSET Block]
        /\ group' \in [Threads -> [SpanObjs -> SUBSET Block]]
        /\ near' \in [Threads -> SpanObjs \cup {None}]
    BY <1>2, <1>3, <1>4 DEF IInv, TypeOK
  <2>2. batchShard' \in [Threads -> [SpanObjs -> Shards]]
    BY <1>3, <1>4 DEF IInv, TypeOK
  <2>3. pc' \in [Threads -> Labels] /\ obj' \in [Threads -> SpanObjs \cup {None}]
    BY <1>3, <1>4 DEF IInv, TypeOK, Labels
  <2> QED
    BY <1>4, <2>1, <2>2, <2>3 DEF IInv, TypeOK, spanVars, listVars, pageVars, fetchVars
<1>7. \A u \in Threads : (Owns(u)' <=> Owns(u)) /\ (Growing(u)' <=> Growing(u))
                         /\ (Trimming(u)' <=> Trimming(u))
  BY <1>4, <1>5 DEF Owns, Growing, Trimming, GrowLabels, TrimLabels
<1>8. \A u \in Threads : Owns(u) => pc'[u] = pc[u] /\ obj'[u] = obj[u]
  BY <1>4, <1>5 DEF Owns
<1>9. LocksHeld' /\ SpansOwned' /\ ExtentsPlaced' /\ RegionsOfShards'
  BY <1>4, <1>5, <1>7, <1>8, LocksKept, SpansKept, ExtentsKept, RegionsKept
  DEF IInv, spanVars, pageVars, fetchVars
<1>10. Outstanding' = Outstanding
  <2>1. \A x : x \in Outstanding' <=> x \in Outstanding
    BY <1>3, <1>4, <1>5, InHands
  <2> QED
    BY <2>1
<1>11. OneHand'
  <2>1. \A x \in held' : \A u \in Threads :
          x \notin todo'[u] /\ \A r \in SpanObjs : x \notin group'[u][r]
    BY <1>4, <1>5 DEF IInv, OneHand
  <2>2. \A u, v \in Threads : \A x \in todo'[u] :
          /\ x \in todo'[v] => u = v
          /\ \A r \in SpanObjs : x \notin group'[v][r]
    BY <1>5 DEF IInv, OneHand
  <2>3. \A u, v \in Threads : \A q, r \in SpanObjs : \A x \in group'[u][q] :
          x \in group'[v][r] => u = v /\ q = r
    BY <1>5 DEF IInv, OneHand
  <2> QED
    BY <2>1, <2>2, <2>3 DEF OneHand
<1>12. BlocksPlaced'
  BY <1>4, <1>7, <1>8, <1>10, BlocksKept DEF IInv, spanVars
<1>13. BatchesOfSpans'
  BY <1>3, <1>4, <1>5, <1>7 DEF IInv, BatchesOfSpans, Growing, GrowLabels, spanVars
<1>14. CountersExact' /\ ListsMatchState' /\ RetainedBounded'
  BY <1>4, <1>5, <1>7, <1>8, CountersKept, ListsKept
  DEF IInv, CountersExact, RetainedBounded, spanVars, listVars, fetchVars
<1> QED
  BY <1>6, <1>9, <1>11, <1>12, <1>13, <1>14 DEF IInv

LEMMA ReturnDoneStep ==
  ASSUME IInv, NEW t \in Threads, ReturnDone(t) PROVE IInv'
<1>1. /\ pc[t] = "return" /\ todo[t] = {} /\ \A s \in SpanObjs : group[t][s] = {}
      /\ near' = [near EXCEPT ![t] = None]
      /\ pc' = [pc EXCEPT ![t] = "idle"]
      /\ UNCHANGED <<spanVars, listVars, lock, pageMap, pageVars, spanPool,
                     held, hint, obj, fetchVars, todo, group, batchShard>>
  BY DEF ReturnDone, GoTo, Groups
<1>2. \A u \in Threads : pc'[u] = IF u = t THEN "idle" ELSE pc[u]
  BY <1>1 DEF IInv, TypeOK
<1>3. TypeOK'
  BY <1>1 DEF IInv, TypeOK, Labels, spanVars, listVars, pageVars, fetchVars
<1>4. \A u \in Threads : (Owns(u)' <=> Owns(u)) /\ (Growing(u)' <=> Growing(u))
                         /\ (Trimming(u)' <=> Trimming(u))
  BY <1>1, <1>2 DEF Owns, Growing, Trimming, GrowLabels, TrimLabels
<1>5. \A u \in Threads : Owns(u) => pc'[u] = pc[u]
  BY <1>1, <1>2 DEF Owns
<1>6. LocksHeld' /\ SpansOwned' /\ ExtentsPlaced' /\ RegionsOfShards'
  BY <1>1, <1>2, <1>4, <1>5, LocksKept, SpansKept, ExtentsKept, RegionsKept
  DEF IInv, spanVars, pageVars, fetchVars
<1>7. OneHand' /\ Outstanding' = Outstanding
  BY <1>1, HandsKept DEF IInv
<1>8. BlocksPlaced'
  BY <1>1, <1>4, <1>7, BlocksKept DEF IInv, spanVars
<1>9. BatchesOfSpans'
  BY <1>1, <1>2, <1>4 DEF IInv, BatchesOfSpans, spanVars
<1>10. CountersExact' /\ ListsMatchState' /\ RetainedBounded'
  BY <1>1, <1>2, <1>4, CountersKept, ListsKept
  DEF IInv, CountersExact, RetainedBounded, spanVars, listVars, fetchVars
<1> QED
  BY <1>3, <1>6, <1>7, <1>8, <1>9, <1>10 DEF IInv

(* applyReturnedBatchLocked: the blocks of the batch are of s, none is on  *)
(* its list, so that the clamp of pushBatch never bites.                   *)
LEMMA ApplyGroupStep ==
  ASSUME IInv, NEW t \in Threads, NEW s \in SpanObjs, ApplyGroup(t, s) PROVE IInv'
<1> DEFINE B == group[t][s]
           h == owner[s]
           e == base[s]
           after == freeBlocks[s] + Cardinality(B)
           isEmpty == after = BlocksPerSpan
<1>1. /\ pc[t] \in {"return", "flush"} /\ B # {} /\ h \in Shards
      /\ \A b \in B : pageMap[b[1]] = s
      /\ batchShard[t][s] = h
  <2>1. pc[t] \in {"return", "flush"} /\ B # {}
    BY DEF ApplyGroup
  <2> QED
    BY <2>1 DEF IInv, BatchesOfSpans, TypeOK
<1>2. \A b \in B : b[1] = e /\ b \in Block /\ b \in Outstanding /\ b \in BlocksOf(e)
  <2> SUFFICES ASSUME NEW b \in B PROVE b[1] = e /\ b \in Block /\ b \in Outstanding /\ b \in BlocksOf(e)
    OBVIOUS
  <2>1. b \in Outstanding /\ b \in Block
    BY InHands DEF IInv, TypeOK
  <2>2. b[1] \in Extents /\ b \in BlocksOf(b[1])
    BY <2>1, BlockOfExtent
  <2>3. e = b[1]
    BY <1>1, <2>2, Constants DEF IInv, ExtentsPlaced
  <2> QED
    BY <2>1, <2>2, <2>3
<1>3. Live(s) /\ e \in Extents /\ e # None /\ pageMap[e] = s
  BY <1>1, <1>2, BlockOfExtent, Constants DEF Live
<1>4. /\ s \notin released
      /\ freeList[s] \subseteq BlocksOf(e)
      /\ freeList[s] \cap Outstanding = {}
      /\ BlocksOf(e) \ Outstanding \subseteq freeList[s]
      /\ freeBlocks[s] = Cardinality(freeList[s])
      /\ \A u \in Threads : Owns(u) => obj[u] # s
  BY <1>3, LiveSpan
<1>5. /\ B \in SUBSET BlocksOf(e) /\ freeList[s] \in SUBSET BlocksOf(e) /\ freeList[s] \cap B = {}
      /\ freeBlocks[s] \in Nat /\ Cardinality(B) \in Nat \ {0}
      /\ after <= BlocksPerSpan
      /\ Cardinality(freeList[s] \cup B) = after
  <2>1. B \in SUBSET BlocksOf(e) /\ freeList[s] \in SUBSET BlocksOf(e) /\ freeList[s] \cap B = {}
    BY <1>2, <1>4
  <2>2. Cardinality(B) \in 0 .. BlocksPerSpan /\ Cardinality(freeList[s]) \in 0 .. BlocksPerSpan
        /\ Cardinality(B) # 0
    BY <1>1, <2>1, ListCounted
  <2>3. /\ Cardinality(freeList[s] \cup B) = Cardinality(freeList[s]) + Cardinality(B)
        /\ Cardinality(freeList[s]) + Cardinality(B) <= BlocksPerSpan
    BY <2>1, PushedCounted
  <2> QED
    BY <1>4, <2>1, <2>2, <2>3
<1>6. FreeAfterPush(s, Cardinality(B)) = after /\ TotalBlocks(s) = BlocksPerSpan
  BY <1>3, <1>5, CountsAssumption DEF FreeAfterPush, TotalBlocks, MinOf
<1>7. /\ group' = [group EXCEPT ![t][s] = {}]
      /\ batchShard' = [batchShard EXCEPT ![t][s] = 0]
      /\ freeList' = [freeList EXCEPT ![s] = @ \cup B]
      /\ freeBlocks' = [freeBlocks EXCEPT ![s] = after]
      /\ partial' = [partial EXCEPT ![h] = PartialAfterPush(h, s, isEmpty)]
      /\ empty' = [empty EXCEPT ![h] = IF isEmpty THEN @ \cup {s} ELSE @]
      /\ emptyCount' = [emptyCount EXCEPT ![h] =
                          IF isEmpty /\ s \notin empty[h] THEN emptyCount[h] + 1 ELSE emptyCount[h]]
      /\ obj' = [obj EXCEPT ![t] = None]
      /\ lock[h] = None
      /\ \/ NeedsTrim(emptyCount'[h]) /\ lock' = [lock EXCEPT ![h] = t] /\ pc' = [pc EXCEPT ![t] = "trim"]
         \/ ~ NeedsTrim(emptyCount'[h]) /\ UNCHANGED lock /\ pc' = [pc EXCEPT ![t] = "return"]
      /\ UNCHANGED <<base, owner, released, pageMap, pageVars, spanPool, held,
                     hint, fetchVars, todo, near>>
  BY <1>1, <1>4, <1>6 DEF ApplyGroup, GoTo
<1>8. /\ \A u \in Threads, r \in SpanObjs :
           /\ group'[u][r] = IF u = t /\ r = s THEN {} ELSE group[u][r]
           /\ batchShard'[u][r] = IF u = t /\ r = s THEN 0 ELSE batchShard[u][r]
      /\ \A r \in SpanObjs : /\ freeList'[r] = IF r = s THEN freeList[s] \cup B ELSE freeList[r]
                             /\ freeBlocks'[r] = IF r = s THEN after ELSE freeBlocks[r]
      /\ \A u \in Threads : u # t => pc'[u] = pc[u] /\ obj'[u] = obj[u]
      /\ pc'[t] \in {"trim", "return"}
  BY <1>7 DEF IInv, TypeOK
<1>9. \A x \in Extents : pageMap[x] = s => x = e
  BY <1>3, Constants DEF IInv, ExtentsPlaced
<1>10. \A u \in Threads : (Owns(u)' <=> Owns(u)) /\ (Growing(u)' <=> Growing(u))
                          /\ (Owns(u) => pc'[u] = pc[u] /\ obj'[u] = obj[u])
  BY <1>1, <1>8 DEF Owns, Growing, GrowLabels
<1>11. /\ \A g \in Shards : /\ partial'[g] = IF g = h THEN PartialAfterPush(h, s, isEmpty) ELSE partial[g]
                            /\ empty'[g] = IF g = h /\ isEmpty THEN empty[h] \cup {s} ELSE empty[g]
       /\ s \notin empty[h]
       /\ s \in partial[h] <=> freeBlocks[s] # 0
       /\ \A g \in Shards : g # h => s \notin partial[g] /\ s \notin empty[g]
  <2>1. freeBlocks[s] \in 0 .. BlocksPerSpan - 1
    BY <1>5, CountsAssumption
  <2> QED
    BY <1>1, <1>3, <1>7, <2>1 DEF IInv, TypeOK, ListsMatchState
<1>12. /\ emptyCount' \in [Shards -> Nat]
       /\ \A g \in Shards : emptyCount'[g] = Cardinality(empty'[g])
       /\ \A g \in Shards : g # h => emptyCount'[g] = emptyCount[g]
  <2>1. empty[h] \in SUBSET SpanObjs /\ emptyCount[h] = Cardinality(empty[h])
    BY <1>1 DEF IInv, TypeOK, ListsMatchState
  <2>2. IsFiniteSet(empty[h]) /\ emptyCount[h] \in Nat
    BY <2>1, SpansCounted
  <2>3. Cardinality(empty[h] \cup {s}) = emptyCount[h] + 1
    <3>1. s \notin empty[h]
      BY <1>11
    <3>2. Cardinality(empty[h] \cup {s}) =
            IF s \in empty[h] THEN Cardinality(empty[h]) ELSE Cardinality(empty[h]) + 1
      BY <2>2, FS_AddElement, Zenon
    <3> QED
      BY <2>1, <3>1, <3>2
  <2>4. \A g \in Shards : emptyCount'[g] = IF g = h /\ isEmpty THEN emptyCount[h] + 1 ELSE emptyCount[g]
    BY <1>7, <1>11 DEF IInv, TypeOK
  <2>5. emptyCount' \in [Shards -> Nat]
    BY <1>7, <2>2 DEF IInv, TypeOK
  <2> QED
    BY <1>11, <2>1, <2>3, <2>4, <2>5 DEF IInv, ListsMatchState
<1>13. TypeOK'
  <2>1. /\ freeList' \in [SpanObjs -> SUBSET Block]
        /\ group' \in [Threads -> [SpanObjs -> SUBSET Block]]
    BY <1>2, <1>7 DEF IInv, TypeOK
  <2>2. batchShard' \in [Threads -> [SpanObjs -> Shards]]
    <3>1. 0 \in Shards
      BY CountsAssumption DEF Shards
    <3> QED
      BY <1>7, <3>1 DEF IInv, TypeOK
  <2>3. freeBlocks' \in [SpanObjs -> 0 .. BlocksPerSpan]
    <3>1. after \in 0 .. BlocksPerSpan
      BY <1>5, CountsAssumption
    <3> QED
      BY <1>7, <3>1 DEF IInv, TypeOK
  <2>4. /\ partial' \in [Shards -> SUBSET SpanObjs]
        /\ empty' \in [Shards -> SUBSET SpanObjs]
    BY <1>1, <1>7 DEF IInv, TypeOK, PartialAfterPush
  <2>5. obj' \in [Threads -> SpanObjs \cup {None}]
    BY <1>7 DEF IInv, TypeOK
  <2>7. lock' \in [Shards -> Threads \cup {None}]
    <3>1. lock' = [lock EXCEPT ![h] = t] \/ lock' = lock
      BY <1>7
    <3> QED
      BY <3>1 DEF IInv, TypeOK
  <2>6. pc' \in [Threads -> Labels]
    BY <1>7 DEF IInv, TypeOK, Labels
  <2> QED
    BY <1>7, <1>12, <2>1, <2>2, <2>3, <2>4, <2>5, <2>6, <2>7 DEF IInv, TypeOK, pageVars, fetchVars
<1>14. \A u \in Threads, g \in Shards : lock[g] = u => lock'[g] = u
  BY <1>7, Constants DEF IInv, TypeOK
<1>15. LocksHeld'
  <2>1. pc[t] \notin GrowLabels /\ pc[t] \notin TrimLabels
    BY <1>1 DEF GrowLabels, TrimLabels
  <2>2. CASE lock' = [lock EXCEPT ![h] = t] /\ pc' = [pc EXCEPT ![t] = "trim"]
    <3>1. pc'[t] \in TrimLabels /\ pc'[t] \notin GrowLabels /\ \A u \in Threads \ {t} : pc'[u] = pc[u]
      BY <2>2 DEF IInv, TypeOK, GrowLabels, TrimLabels
    <3> QED
      BY <1>1, <1>7, <2>1, <2>2, <3>1, LockTaken DEF IInv
  <2>3. CASE UNCHANGED lock /\ pc' = [pc EXCEPT ![t] = "return"]
    <3>1. \A u \in Threads : (Growing(u)' <=> Growing(u)) /\ (Trimming(u)' <=> Trimming(u))
      BY <2>1, <2>3 DEF IInv, TypeOK, Growing, Trimming, GrowLabels, TrimLabels
    <3> QED
      BY <2>3, <3>1, LocksKept DEF IInv
  <2> QED
    BY <1>7, <2>2, <2>3
<1>16. SpansOwned' /\ RegionsOfShards'
  BY <1>7, <1>10, <1>14, SpansKept, RegionsKept DEF IInv, pageVars
<1>17. ExtentsPlaced'
  BY <1>1, <1>7, <1>8, ExtentsKept DEF IInv, pageVars, fetchVars
<1>18. OneHand'
  BY <1>7, <1>8 DEF IInv, OneHand
<1>19. \A b : b \in Outstanding' <=> b \in Outstanding /\ b \notin B
  BY <1>7, <1>8, InHands DEF IInv, OneHand
<1>20. BlocksPlaced'
  <2>1. \A b \in Outstanding' : pageMap'[b[1]] # None /\ b \notin freeList'[pageMap'[b[1]]]
    <3> SUFFICES ASSUME NEW b \in Outstanding, b \notin B
                 PROVE  pageMap[b[1]] # None /\ b \notin freeList'[pageMap[b[1]]]
      BY <1>7, <1>19
    <3>1. b[1] \in Extents
      BY OutstandingTyped, BlockOfExtent DEF IInv
    <3>2. pageMap[b[1]] # None /\ pageMap[b[1]] \in SpanObjs /\ b \notin freeList[pageMap[b[1]]]
      BY <3>1 DEF IInv, BlocksPlaced, TypeOK
    <3> QED
      BY <1>8, <3>2
  <2>2. ASSUME NEW x \in Extents, pageMap[x] # None
        PROVE  /\ freeList'[pageMap[x]] \subseteq BlocksOf(x)
               /\ BlocksOf(x) \ Outstanding' \subseteq freeList'[pageMap[x]]
    <3>1. CASE x = e
      BY <1>3, <1>4, <1>5, <1>8, <1>19, <3>1
    <3>2. CASE x # e
      <4>1. pageMap[x] # s /\ BlocksOf(x) \cap B = {}
        BY <1>2, <1>9, <3>2 DEF BlocksOf
      <4> QED
        BY <1>8, <1>19, <2>2, <4>1 DEF IInv, BlocksPlaced, TypeOK
    <3> QED
      BY <3>1, <3>2
  <2>3. \A u \in Threads : Owns(u)' => freeList'[obj'[u]] = BlocksOf(base'[obj'[u]])
    BY <1>4, <1>7, <1>8, <1>10 DEF IInv, BlocksPlaced, SpansOwned
  <2> QED
    BY <1>7, <2>1, <2>2, <2>3 DEF BlocksPlaced, BlocksOf
<1>21. BatchesOfSpans'
  <2>1. \A u \in Threads : pc'[u] = "idle" \/ Growing(u)' => u # t /\ (pc[u] = "idle" \/ Growing(u))
    BY <1>1, <1>8, <1>10 DEF Growing, GrowLabels
  <2> QED
    BY <1>7, <1>8, <2>1 DEF IInv, BatchesOfSpans
<1>22. CountersExact'
  <2>1. FreeBlocksExact'
    BY <1>5, <1>7, <1>8 DEF IInv, CountersExact, FreeBlocksExact, TypeOK
  <2>2. \A u \in Threads : Owns(u)' => freeBlocks'[obj'[u]] = BlocksPerSpan
    BY <1>4, <1>8, <1>10 DEF IInv, CountersExact, SpansOwned
  <2>3. \A u \in Threads : pc'[u] \in {"alloc_pages", "alloc_span", "register"} => want'[u] # 0
    BY <1>7, <1>8 DEF IInv, CountersExact, fetchVars
  <2>4. \A u \in Threads : Growing(u)' => emptyCount'[ShardOf[u]] <= MaxRetainedEmptySpans
    <3> SUFFICES ASSUME NEW u \in Threads, Growing(u)
                 PROVE  emptyCount'[ShardOf[u]] <= MaxRetainedEmptySpans
      BY <1>10
    <3>1. lock[ShardOf[u]] = u /\ ShardOf[u] \in Shards
      BY Constants DEF IInv, LocksHeld
    <3>2. ShardOf[u] # h
      BY <1>7, <3>1, Constants
    <3> QED
      BY <1>12, <3>1, <3>2 DEF IInv, CountersExact
  <2> QED
    BY <2>1, <2>2, <2>3, <2>4 DEF CountersExact
<1>23. ListsMatchState'
  <2>1. \A r \in SpanObjs : Live(r)' <=> Live(r)
    BY <1>7 DEF Live
  <2>2. ASSUME NEW g \in Shards, NEW r \in SpanObjs
        PROVE  /\ r \in partial'[g] <=> /\ Live(r) /\ owner[r] = g
                                        /\ freeBlocks'[r] \in 1 .. BlocksPerSpan - 1
               /\ r \in empty'[g] <=> Live(r) /\ owner[r] = g /\ freeBlocks'[r] = BlocksPerSpan
    <3>1. CASE r # s
      BY <1>8, <1>11, <3>1 DEF IInv, ListsMatchState, PartialAfterPush
    <3>2. CASE r = s /\ g # h
      BY <1>11, <3>2
    <3>3. CASE r = s /\ g = h
      BY <1>3, <1>5, <1>8, <1>11, <3>3, CountsAssumption DEF PartialAfterPush
    <3> QED
      BY <3>1, <3>2, <3>3
  <2>3. \A g \in Shards : partial'[g] \subseteq SpanObjs /\ empty'[g] \subseteq SpanObjs
    BY <1>13 DEF TypeOK
  <2>4. ASSUME NEW g \in Shards
        PROVE  /\ partial'[g] = {r \in SpanObjs : /\ Live(r)' /\ owner'[r] = g
                                                 /\ freeBlocks'[r] \in 1 .. BlocksPerSpan - 1}
               /\ empty'[g] = {r \in SpanObjs : /\ Live(r)' /\ owner'[r] = g
                                               /\ freeBlocks'[r] = BlocksPerSpan}
    BY <1>7, <2>1, <2>2, <2>3
  <2> QED
    BY <1>12, <2>4 DEF ListsMatchState
<1>24. RetainedBounded'
  <2> SUFFICES ASSUME NEW g \in Shards, lock'[g] = None PROVE emptyCount'[g] <= MaxRetainedEmptySpans
    BY DEF RetainedBounded
  <2>1. CASE g = h
    <3>1. ~ NeedsTrim(emptyCount'[h]) /\ emptyCount'[h] \in Nat
      BY <1>1, <1>7, <1>12, <2>1, Constants DEF IInv, TypeOK
    <3> QED
      BY <2>1, <3>1, CountsAssumption DEF NeedsTrim
  <2>2. CASE g # h
    <3>1. lock[g] = None
      BY <1>14, Constants DEF IInv, TypeOK
    <3> QED
      BY <1>12, <2>2, <3>1 DEF IInv, RetainedBounded
  <2> QED
    BY <2>1, <2>2
<1> QED
  BY <1>13, <1>15, <1>16, <1>17, <1>18, <1>20, <1>21, <1>22, <1>23, <1>24 DEF IInv

-----------------------------------------------------------------------------
(* trimEmptySpansLocked *)

(* The lock of a thread in trimEmptySpansLocked is the only one it has.    *)
LEMMA TrimLock ==
  ASSUME IInv, NEW t \in Threads, NEW h \in Shards, lock[h] = t, pc[t] = "trim"
  PROVE  \A u \in Threads : Growing(u) => ShardOf[u] # h
<1> SUFFICES ASSUME NEW u \in Threads, Growing(u), ShardOf[u] = h PROVE FALSE
  OBVIOUS
<1>1. u = t
  BY DEF IInv, LocksHeld
<1> QED
  BY <1>1 DEF Growing, GrowLabels

(* An empty span that is detached has all its blocks at home, so that      *)
(* nobody can resolve a block to it any more.                              *)
LEMMA DetachEmptyStep ==
  ASSUME IInv, NEW t \in Threads, NEW h \in Shards, NEW s \in SpanObjs, DetachEmpty(t, h, s)
  PROVE  IInv'
<1> DEFINE e == base[s]
<1>1. /\ pc[t] = "trim" /\ lock[h] = t
      /\ s \in empty[h]
      /\ partial' = [partial EXCEPT ![h] = @ \ {s}]
      /\ empty' = [empty EXCEPT ![h] = @ \ {s}]
      /\ emptyCount' = [emptyCount EXCEPT ![h] = IF @ > 0 THEN @ - 1 ELSE @]
      /\ pageMap' = [pageMap EXCEPT ![e] = None]
      /\ obj' = [obj EXCEPT ![t] = s]
      /\ pc' = [pc EXCEPT ![t] = "release_pages"]
      /\ UNCHANGED <<spanVars, lock, pageVars, spanPool, held, hint, fetchVars, batchVars>>
  BY DEF DetachEmpty, Unregistered, GoTo
<1>2. Live(s) /\ owner[s] = h /\ freeBlocks[s] = BlocksPerSpan /\ e # None /\ pageMap[e] = s
  BY <1>1 DEF IInv, ListsMatchState, Live
<1>3. /\ e \in Extents /\ e \notin freeExtents
      /\ freeList[s] \in SUBSET BlocksOf(e) /\ freeList[s] \cap Outstanding = {}
      /\ Cardinality(freeList[s]) = BlocksPerSpan
      /\ \A u \in Threads : Owns(u) => obj[u] # s
  BY <1>2, LiveSpan
<1>4. freeList[s] = BlocksOf(e) /\ BlocksOf(e) \cap Outstanding = {}
  BY <1>3, ListCounted
<1>5. \A b \in Outstanding : b[1] # e /\ b[1] \in Extents
  BY <1>4, OutstandingTyped, BlockOfExtent DEF IInv
<1>6. /\ \A x \in Extents : pageMap'[x] = IF x = e THEN None ELSE pageMap[x]
      /\ \A u \in Threads : /\ pc'[u] = IF u = t THEN "release_pages" ELSE pc[u]
                            /\ obj'[u] = IF u = t THEN s ELSE obj[u]
      /\ \A g \in Shards : /\ partial'[g] = IF g = h THEN partial[h] \ {s} ELSE partial[g]
                           /\ empty'[g] = IF g = h THEN empty[h] \ {s} ELSE empty[g]
  BY <1>1 DEF IInv, TypeOK
<1>7. \A x \in Extents : pageMap'[x] # s
  BY <1>2, <1>6, Constants DEF IInv, ExtentsPlaced
<1>8. \A u \in Threads : /\ Owns(u)' <=> Owns(u) \/ u = t
                         /\ Owns(u) => u # t
                         /\ Growing(u)' <=> Growing(u)
                         /\ Trimming(u)' <=> Trimming(u)
  BY <1>1, <1>6 DEF Owns, Growing, Trimming, GrowLabels, TrimLabels
<1>9. /\ emptyCount' \in [Shards -> Nat]
      /\ \A g \in Shards : emptyCount'[g] = Cardinality(empty'[g])
      /\ \A g \in Shards : g # h => emptyCount'[g] = emptyCount[g]
  <2>1. empty[h] \in SUBSET SpanObjs /\ emptyCount[h] = Cardinality(empty[h])
    BY DEF IInv, TypeOK, ListsMatchState
  <2>2. IsFiniteSet(empty[h]) /\ emptyCount[h] \in Nat /\ emptyCount[h] > 0
    BY <1>1, <2>1, SpansCounted
  <2>3. Cardinality(empty[h] \ {s}) =
          IF s \in empty[h] THEN Cardinality(empty[h]) - 1 ELSE Cardinality(empty[h])
    BY <2>2, FS_RemoveElement, Zenon
  <2>4. \A g \in Shards : emptyCount'[g] = IF g = h THEN emptyCount[h] - 1 ELSE emptyCount[g]
    BY <1>1, <2>2 DEF IInv, TypeOK
  <2>5. emptyCount' \in [Shards -> Nat]
    BY <1>1, <2>2 DEF IInv, TypeOK
  <2> QED
    BY <1>1, <1>6, <2>1, <2>3, <2>4, <2>5 DEF IInv, ListsMatchState
<1>10. TypeOK'
  <2>1. /\ partial' \in [Shards -> SUBSET SpanObjs]
        /\ empty' \in [Shards -> SUBSET SpanObjs]
        /\ pageMap' \in [Extents -> SpanObjs \cup {None}]
    BY <1>1 DEF IInv, TypeOK
  <2>2. /\ obj' \in [Threads -> SpanObjs \cup {None}]
        /\ pc' \in [Threads -> Labels]
    BY <1>1 DEF IInv, TypeOK, Labels
  <2> QED
    BY <1>1, <1>9, <2>1, <2>2 DEF IInv, TypeOK, spanVars, pageVars, fetchVars, batchVars
<1>11. LocksHeld'
  BY <1>1, <1>8, LocksKept DEF IInv
<1>12. SpansOwned'
  <2>1. \A r \in SpanObjs : base'[r] # None =>
          Live(r)' \/ \E u \in Threads : Owns(u)' /\ obj'[u] = r
    <3> SUFFICES ASSUME NEW r \in SpanObjs, base[r] # None, r # s
                 PROVE  Live(r)' \/ \E u \in Threads : Owns(u)' /\ obj'[u] = r
      BY <1>1, <1>6, <1>8 DEF spanVars
    <3>1. CASE Live(r)
      <4>1. base[r] # e /\ base[r] \in Extents
        BY <1>2 DEF IInv, ExtentsPlaced, TypeOK
      <4> QED
        BY <1>1, <1>6, <3>1, <4>1 DEF Live, spanVars
    <3>2. CASE \E u \in Threads : Owns(u) /\ obj[u] = r
      BY <1>6, <1>8, <3>2
    <3> QED
      BY <3>1, <3>2 DEF IInv, SpansOwned
  <2>2. \A u \in Threads : Owns(u)' =>
          /\ obj'[u] \in SpanObjs
          /\ base'[obj'[u]] # None
          /\ pageMap'[base'[obj'[u]]] = None
          /\ lock'[owner'[obj'[u]]] = u
    <3> SUFFICES ASSUME NEW u \in Threads, Owns(u)'
                 PROVE  /\ obj'[u] \in SpanObjs
                        /\ base[obj'[u]] # None
                        /\ pageMap'[base[obj'[u]]] = None
                        /\ lock[owner[obj'[u]]] = u
      BY <1>1 DEF spanVars
    <3>1. CASE u = t
      BY <1>1, <1>2, <1>3, <1>6, <3>1
    <3>2. CASE u # t
      <4>1. /\ obj[u] \in SpanObjs /\ base[obj[u]] # None /\ pageMap[base[obj[u]]] = None
            /\ lock[owner[obj[u]]] = u
        BY <1>8, <3>2 DEF IInv, SpansOwned
      <4>2. base[obj[u]] \in Extents
        BY <4>1 DEF IInv, TypeOK
      <4> QED
        BY <1>6, <3>2, <4>1, <4>2
    <3> QED
      BY <3>1, <3>2
  <2>3. \A r \in released' : \E u \in Threads : pc'[u] = "recycle" /\ obj'[u] = r
    BY <1>1, <1>6 DEF IInv, SpansOwned, spanVars
  <2> QED
    BY <1>1, <2>1, <2>2, <2>3 DEF IInv, SpansOwned, spanVars
<1>13. ExtentsPlaced'
  <2>1. \A x \in Extents : pageMap'[x] # None => base'[pageMap'[x]] = x /\ x \notin freeExtents'
    BY <1>1, <1>6 DEF IInv, ExtentsPlaced, spanVars, pageVars
  <2>2. \A r \in SpanObjs : base'[r] \in freeExtents' =>
          \E u \in Threads : pc'[u] \in {"abandon", "mark", "recycle"} /\ obj'[u] = r
    BY <1>1, <1>6 DEF IInv, ExtentsPlaced, spanVars, pageVars
  <2>3. \A u \in Threads : pc'[u] = "alloc_span" =>
          pc[u] = "alloc_span" /\ pageMap'[pages[u]] = None
    BY <1>6 DEF IInv, ExtentsPlaced, TypeOK
  <2> QED
    BY <1>1, <2>1, <2>2, <2>3 DEF IInv, ExtentsPlaced, spanVars, pageVars, fetchVars
<1>14. RegionsOfShards' /\ OneHand' /\ Outstanding' = Outstanding
  BY <1>1, RegionsKept, HandsKept DEF IInv, spanVars, pageVars, batchVars
<1>15. BlocksPlaced'
  <2>1. \A b \in Outstanding : pageMap'[b[1]] # None /\ b \notin freeList[pageMap'[b[1]]]
    BY <1>5, <1>6 DEF IInv, BlocksPlaced
  <2>2. \A x \in Extents : pageMap'[x] # None =>
          /\ freeList[pageMap'[x]] \subseteq BlocksOf(x)
          /\ BlocksOf(x) \ Outstanding \subseteq freeList[pageMap'[x]]
    BY <1>6 DEF IInv, BlocksPlaced
  <2>3. \A u \in Threads : Owns(u)' => freeList[obj'[u]] = BlocksOf(base[obj'[u]])
    BY <1>4, <1>6, <1>8 DEF IInv, BlocksPlaced
  <2> QED
    BY <1>1, <1>14, <2>1, <2>2, <2>3 DEF BlocksPlaced, BlocksOf, spanVars
<1>16. BatchesOfSpans'
  <2>1. \A u \in Threads, r \in SpanObjs : \A b \in group[u][r] :
          pageMap'[b[1]] = r /\ batchShard[u][r] = owner[r]
    <3> SUFFICES ASSUME NEW u \in Threads, NEW r \in SpanObjs, NEW b \in group[u][r]
                 PROVE  pageMap'[b[1]] = r /\ batchShard[u][r] = owner[r]
      OBVIOUS
    <3>1. b \in Outstanding
      BY InHands
    <3> QED
      BY <1>5, <1>6, <3>1 DEF IInv, BatchesOfSpans
  <2>2. \A u \in Threads : pc'[u] = "idle" \/ Growing(u)' => pc[u] = "idle" \/ Growing(u)
    BY <1>6, <1>8
  <2> QED
    BY <1>1, <2>1, <2>2 DEF IInv, BatchesOfSpans, spanVars, batchVars
<1>17. CountersExact'
  <2>1. FreeBlocksExact'
    BY <1>1, <1>6 DEF IInv, CountersExact, FreeBlocksExact, spanVars
  <2>2. \A u \in Threads : Owns(u)' => freeBlocks'[obj'[u]] = BlocksPerSpan
    BY <1>1, <1>2, <1>6, <1>8 DEF IInv, CountersExact, spanVars
  <2>3. \A u \in Threads : pc'[u] \in {"alloc_pages", "alloc_span", "register"} => want'[u] # 0
    BY <1>1, <1>6 DEF IInv, CountersExact, fetchVars
  <2>4. \A u \in Threads : Growing(u)' => emptyCount'[ShardOf[u]] <= MaxRetainedEmptySpans
    BY <1>1, <1>8, <1>9, TrimLock, Constants DEF IInv, CountersExact
  <2> QED
    BY <2>1, <2>2, <2>3, <2>4 DEF CountersExact
<1>18. ListsMatchState'
  <2>1. \A r \in SpanObjs : Live(r)' <=> Live(r) /\ r # s
    <3> SUFFICES ASSUME NEW r \in SpanObjs, base[r] # None PROVE Live(r)' <=> Live(r) /\ r # s
      BY <1>1 DEF Live, spanVars
    <3>1. base[r] \in Extents /\ (base[r] = e => r = s)
      BY <1>2 DEF IInv, ExtentsPlaced, TypeOK
    <3> QED
      BY <1>1, <1>6, <3>1, Constants DEF Live, spanVars
  <2>2. \A g \in Shards : s \notin partial[g] /\ (s \in empty[g] => g = h)
    BY <1>2, CountsAssumption DEF IInv, ListsMatchState
  <2>3. ASSUME NEW g \in Shards
        PROVE  /\ partial'[g] = {r \in SpanObjs : /\ Live(r)' /\ owner'[r] = g
                                                 /\ freeBlocks'[r] \in 1 .. BlocksPerSpan - 1}
               /\ empty'[g] = {r \in SpanObjs : /\ Live(r)' /\ owner'[r] = g
                                               /\ freeBlocks'[r] = BlocksPerSpan}
    <3>1. /\ partial'[g] = partial[g] \ {s} /\ empty'[g] = empty[g] \ {s}
      BY <1>6, <2>2
    <3>2. /\ partial[g] = {r \in SpanObjs : /\ Live(r) /\ owner[r] = g
                                           /\ freeBlocks[r] \in 1 .. BlocksPerSpan - 1}
          /\ empty[g] = {r \in SpanObjs : /\ Live(r) /\ owner[r] = g
                                         /\ freeBlocks[r] = BlocksPerSpan}
      BY DEF IInv, ListsMatchState
    <3> QED
      BY <1>1, <2>1, <3>1, <3>2 DEF spanVars
  <2> QED
    BY <1>9, <2>3 DEF ListsMatchState
<1>19. RetainedBounded'
  BY <1>1, <1>9, Constants DEF IInv, RetainedBounded
<1> QED
  BY <1>10, <1>11, <1>12, <1>13, <1>14, <1>15, <1>16, <1>17, <1>18, <1>19 DEF IInv

LEMMA ReleasePagesStep ==
  ASSUME IInv, NEW t \in Threads, ReleasePages(t) PROVE IInv'
<1>1. PICK s : s = obj[t]
  OBVIOUS
<1> DEFINE e == base[s]
<1>2. /\ pc[t] = "release_pages"
      /\ freeExtents' = freeExtents \cup {e}
      /\ pc' = [pc EXCEPT ![t] = "mark"]
      /\ UNCHANGED <<regionShard, spanVars, listVars, lock, pageMap, spanPool, held,
                     hint, obj, fetchVars, batchVars>>
  BY <1>1 DEF ReleasePages, GoTo
<1>3. s \in SpanObjs /\ e \in Extents /\ e # None /\ pageMap[e] = None
  BY <1>1, <1>2 DEF IInv, SpansOwned, Owns, TypeOK
<1>4. \A u \in Threads : pc'[u] = IF u = t THEN "mark" ELSE pc[u]
  BY <1>2 DEF IInv, TypeOK
<1>5. TypeOK'
  <2>1. pc' \in [Threads -> Labels]
    BY <1>2 DEF IInv, TypeOK, Labels
  <2> QED
    BY <1>2, <1>3, <2>1 DEF IInv, TypeOK, spanVars, listVars, fetchVars, batchVars
<1>6. \A u \in Threads : (Owns(u)' <=> Owns(u)) /\ (Growing(u)' <=> Growing(u))
                         /\ (Trimming(u)' <=> Trimming(u))
  BY <1>2, <1>4 DEF Owns, Growing, Trimming, GrowLabels, TrimLabels
<1>7. LocksHeld'
  BY <1>2, <1>6, LocksKept DEF IInv
<1>8. SpansOwned'
  <2>1. \A r \in SpanObjs : Live(r)' <=> Live(r)
    BY <1>2 DEF Live, spanVars
  <2>2. \A r \in released : \E u \in Threads : pc'[u] = "recycle" /\ obj'[u] = r
    BY <1>2, <1>4 DEF IInv, SpansOwned
  <2> QED
    BY <1>2, <1>6, <2>1, <2>2 DEF IInv, SpansOwned, spanVars
<1>9. ExtentsPlaced'
  <2>1. \A r \in SpanObjs : base[r] = e => r = s
    BY <1>3 DEF IInv, ExtentsPlaced
  <2>2. \A r \in SpanObjs : base'[r] \in freeExtents' =>
          \E u \in Threads : pc'[u] \in {"abandon", "mark", "recycle"} /\ obj'[u] = r
    BY <1>1, <1>2, <1>4, <2>1 DEF IInv, ExtentsPlaced, spanVars
  <2>3. \A u \in Threads : pc'[u] = "alloc_span" =>
          pc[u] = "alloc_span" /\ pages[u] # e
    BY <1>3, <1>4 DEF IInv, ExtentsPlaced
  <2> QED
    BY <1>2, <1>3, <1>4, <2>2, <2>3 DEF IInv, ExtentsPlaced, spanVars, fetchVars
<1>10. RegionsOfShards' /\ OneHand' /\ Outstanding' = Outstanding
  BY <1>2, RegionsKept, HandsKept DEF IInv, spanVars, batchVars
<1>11. BlocksPlaced'
  BY <1>2, <1>6, <1>10, BlocksKept DEF IInv, spanVars
<1>12. BatchesOfSpans'
  BY <1>2, <1>4, <1>6, BatchesKept DEF IInv, spanVars, batchVars
<1>13. CountersExact'
  BY <1>2, <1>4, <1>6, CountersKept DEF IInv, CountersExact, spanVars, listVars, fetchVars
<1>14. ListsMatchState' /\ RetainedBounded'
  BY <1>2, ListsKept DEF IInv, RetainedBounded, spanVars, listVars
<1> QED
  BY <1>5, <1>7, <1>8, <1>9, <1>10, <1>11, <1>12, <1>13, <1>14 DEF IInv

LEMMA MarkReleasedStep ==
  ASSUME IInv, NEW t \in Threads, MarkReleased(t) PROVE IInv'
<1>1. /\ pc[t] = "mark"
      /\ released' = released \cup {obj[t]}
      /\ pc' = [pc EXCEPT ![t] = "recycle"]
      /\ UNCHANGED <<base, owner, freeBlocks, freeList, listVars, lock, pageMap,
                     pageVars, spanPool, held, hint, obj, fetchVars, batchVars>>
  BY DEF MarkReleased, GoTo
<1>2. obj[t] \in SpanObjs
  BY <1>1 DEF IInv, SpansOwned, Owns
<1>3. \A u \in Threads : pc'[u] = IF u = t THEN "recycle" ELSE pc[u]
  BY <1>1 DEF IInv, TypeOK
<1>4. TypeOK'
  <2>1. pc' \in [Threads -> Labels]
    BY <1>1 DEF IInv, TypeOK, Labels
  <2> QED
    BY <1>1, <1>2, <2>1 DEF IInv, TypeOK, listVars, pageVars, fetchVars, batchVars
<1>5. \A u \in Threads : (Owns(u)' <=> Owns(u)) /\ (Growing(u)' <=> Growing(u))
                         /\ (Trimming(u)' <=> Trimming(u))
  BY <1>1, <1>3 DEF Owns, Growing, Trimming, GrowLabels, TrimLabels
<1>6. LocksHeld'
  BY <1>1, <1>5, LocksKept DEF IInv
<1>7. SpansOwned'
  <2>1. \A r \in SpanObjs : Live(r)' <=> Live(r)
    BY <1>1 DEF Live
  <2>2. \A r \in released' : \E u \in Threads : pc'[u] = "recycle" /\ obj'[u] = r
    BY <1>1, <1>3 DEF IInv, SpansOwned
  <2> QED
    BY <1>1, <1>5, <2>1, <2>2 DEF IInv, SpansOwned
<1>8. ExtentsPlaced'
  <2>1. \A r \in SpanObjs : base'[r] \in freeExtents' =>
          \E u \in Threads : pc'[u] \in {"abandon", "mark", "recycle"} /\ obj'[u] = r
    BY <1>1, <1>3 DEF IInv, ExtentsPlaced, pageVars
  <2> QED
    BY <1>1, <1>3, <2>1 DEF IInv, ExtentsPlaced, pageVars, fetchVars
<1>9. RegionsOfShards' /\ OneHand' /\ Outstanding' = Outstanding
  BY <1>1, RegionsKept, HandsKept DEF IInv, pageVars, batchVars
<1>10. BlocksPlaced'
  BY <1>1, <1>5, <1>9, BlocksKept DEF IInv
<1>11. BatchesOfSpans'
  BY <1>1, <1>3, <1>5, BatchesKept DEF IInv, batchVars
<1>12. CountersExact'
  BY <1>1, <1>3, <1>5, CountersKept DEF IInv, CountersExact, listVars, fetchVars
<1>13. ListsMatchState' /\ RetainedBounded'
  BY <1>1, ListsKept DEF IInv, RetainedBounded, listVars
<1> QED
  BY <1>4, <1>6, <1>7, <1>8, <1>9, <1>10, <1>11, <1>12, <1>13 DEF IInv

LEMMA RecycleStep ==
  ASSUME IInv, NEW t \in Threads, Recycle(t) PROVE IInv'
<1>1. /\ pc[t] = "recycle"
      /\ RecycleSpan(obj[t])
      /\ obj' = [obj EXCEPT ![t] = None]
      /\ pc' = [pc EXCEPT ![t] = "trim"]
      /\ UNCHANGED <<listVars, lock, pageMap, pageVars, held, hint, fetchVars, batchVars>>
  BY DEF Recycle, GoTo
<1>2. \A u \in Threads : pc'[u] = IF u = t THEN "trim" ELSE pc[u]
  BY <1>1 DEF IInv, TypeOK
<1>3. \A u \in Threads : (Growing(u)' <=> Growing(u)) /\ (Trimming(u)' <=> Trimming(u))
  BY <1>1, <1>2 DEF Growing, Trimming, GrowLabels, TrimLabels
<1>4. LocksHeld'
  BY <1>1, <1>3, LocksKept DEF IInv
<1>5. /\ /\ base' \in [SpanObjs -> Extents \cup {None}]
         /\ owner' \in [SpanObjs -> Shards]
         /\ freeBlocks' \in [SpanObjs -> 0 .. BlocksPerSpan]
         /\ freeList' \in [SpanObjs -> SUBSET Block]
         /\ released' \in SUBSET SpanObjs
         /\ spanPool' \in SUBSET SpanObjs
         /\ obj' \in [Threads -> SpanObjs \cup {None}]
      /\ SpansOwned' /\ ExtentsPlaced' /\ RegionsOfShards' /\ OneHand' /\ BlocksPlaced'
      /\ \A u \in Threads, r \in SpanObjs : \A b \in group'[u][r] :
           pageMap'[b[1]] = r /\ batchShard'[u][r] = owner'[r]
      /\ FreeBlocksExact'
      /\ \A u \in Threads : Owns(u)' => freeBlocks'[obj'[u]] = BlocksPerSpan
      /\ ListsMatchState'
  BY <1>1, <1>2, SpanRecycled DEF fetchVars
<1>6. TypeOK'
  <2>1. pc' \in [Threads -> Labels]
    BY <1>1 DEF IInv, TypeOK, Labels
  <2> QED
    BY <1>1, <1>5, <2>1 DEF IInv, TypeOK, listVars, pageVars, fetchVars, batchVars
<1>7. BatchesOfSpans'
  BY <1>1, <1>2, <1>3, <1>5 DEF IInv, BatchesOfSpans, batchVars
<1>8. CountersExact'
  BY <1>1, <1>2, <1>3, <1>5 DEF IInv, CountersExact, listVars, fetchVars
<1>9. RetainedBounded'
  BY <1>1 DEF IInv, RetainedBounded, listVars
<1> QED
  BY <1>4, <1>5, <1>6, <1>7, <1>8, <1>9 DEF IInv

LEMMA TrimDoneStep ==
  ASSUME IInv, NEW t \in Threads, NEW h \in Shards, TrimDone(t, h) PROVE IInv'
<1>1. /\ pc[t] = "trim" /\ lock[h] = t
      /\ ~ NeedsTrim(emptyCount[h]) \/ empty[h] = {}
      /\ lock' = [lock EXCEPT ![h] = None]
      /\ pc' = [pc EXCEPT ![t] = "return"]
      /\ UNCHANGED <<spanVars, listVars, pageMap, pageVars, spanPool, held,
                     hint, obj, fetchVars, batchVars>>
  BY DEF TrimDone, GoTo, Unlock
<1>2. /\ \A u \in Threads : pc'[u] = IF u = t THEN "return" ELSE pc[u]
      /\ \A g \in Shards : lock'[g] = IF g = h THEN None ELSE lock[g]
  BY <1>1 DEF IInv, TypeOK
<1>3. TypeOK'
  <2>1. pc' \in [Threads -> Labels] /\ lock' \in [Shards -> Threads \cup {None}]
    BY <1>1 DEF IInv, TypeOK, Labels
  <2> QED
    BY <1>1, <2>1 DEF IInv, TypeOK, spanVars, listVars, pageVars, fetchVars, batchVars
<1>4. LocksHeld'
  <2>1. pc'[t] \notin GrowLabels /\ pc'[t] \notin TrimLabels
    BY <1>2 DEF GrowLabels, TrimLabels
  <2>2. \A u \in Threads \ {t} : pc'[u] = pc[u]
    BY <1>2
  <2> QED
    BY <1>1, <2>1, <2>2, LockGiven DEF IInv
<1>5. \A u \in Threads : /\ Owns(u)' <=> Owns(u)
                         /\ Owns(u) => u # t
                         /\ Growing(u)' <=> Growing(u)
  BY <1>1, <1>2 DEF Owns, Growing, GrowLabels
<1>6. SpansOwned'
  BY <1>1, <1>2, <1>5, SpansKept DEF IInv, spanVars
<1>7. ExtentsPlaced' /\ RegionsOfShards' /\ OneHand' /\ Outstanding' = Outstanding
  BY <1>1, <1>2, ExtentsKept, RegionsKept, HandsKept
  DEF IInv, spanVars, pageVars, fetchVars, batchVars
<1>8. BlocksPlaced'
  BY <1>1, <1>5, <1>7, BlocksKept DEF IInv, spanVars
<1>9. BatchesOfSpans'
  BY <1>1, <1>2, <1>5, BatchesKept DEF IInv, spanVars, batchVars
<1>10. CountersExact'
  BY <1>1, <1>2, <1>5, CountersKept DEF IInv, CountersExact, spanVars, listVars, fetchVars
<1>11. ListsMatchState'
  BY <1>1, ListsKept DEF IInv, spanVars
<1>12. emptyCount[h] <= MaxRetainedEmptySpans
  <2>1. empty[h] = {} => emptyCount[h] = 0
    BY FS_EmptySet DEF IInv, ListsMatchState
  <2>2. emptyCount[h] \in Nat
    BY DEF IInv, TypeOK
  <2> QED
    BY <1>1, <2>1, <2>2, CountsAssumption DEF NeedsTrim
<1>13. RetainedBounded'
  BY <1>1, <1>2, <1>12 DEF IInv, RetainedBounded, listVars
<1> QED
  BY <1>3, <1>4, <1>6, <1>7, <1>8, <1>9, <1>10, <1>11, <1>13 DEF IInv

-----------------------------------------------------------------------------
(* The invariant holds *)

LEMMA InvariantInit == Init => IInv
<1> SUFFICES ASSUME Init PROVE IInv
  OBVIOUS
<1>1. 0 \in Shards /\ 0 \in 0 .. BlocksPerSpan /\ 0 \in 0 .. MaxBatch
  BY CountsAssumption DEF Shards
<1>2. TypeOK
  BY <1>1 DEF Init, TypeOK, Labels
<1>3. Outstanding = {}
  BY InHands DEF Init
<1>4. \A t \in Threads : ~ Owns(t) /\ ~ Growing(t) /\ ~ Trimming(t) /\ pc[t] = "idle"
  BY DEF Init, Owns, Growing, Trimming, GrowLabels, TrimLabels
<1>5. LocksHeld /\ SpansOwned /\ ExtentsPlaced /\ RegionsOfShards
  BY <1>4, Constants
  DEF Init, LocksHeld, SpansOwned, ExtentsPlaced, RegionsOfShards
<1>6. OneHand /\ BlocksPlaced /\ BatchesOfSpans
  BY <1>3, <1>4 DEF Init, OneHand, BlocksPlaced, BatchesOfSpans
<1>7. CountersExact
  BY <1>4 DEF Init, CountersExact, FreeBlocksExact
<1>8. ListsMatchState
  BY FS_EmptySet, Constants DEF Init, ListsMatchState, Live
<1>9. RetainedBounded
  BY CountsAssumption DEF Init, RetainedBounded
<1> QED
  BY <1>2, <1>5, <1>6, <1>7, <1>8, <1>9 DEF IInv

LEMMA InvariantStep == ASSUME ShardsAgree PROVE IInv /\ [Next]_vars => IInv'
<1> SUFFICES ASSUME IInv, [Next]_vars PROVE IInv'
  OBVIOUS
<1>1. ASSUME NEW t \in Threads, Fetch(t) PROVE IInv'
  BY <1>1, FetchListedStep, FetchGrowStep DEF Fetch
<1>2. ASSUME NEW t \in Threads, InsideLock(t) PROVE IInv'
  BY <1>2, AcquirePagesStep, SetupSpanStep, SpanObjectFailsStep, RegisterPagesStep,
     RegisterFailsStep, AbandonStep, DetachEmptyStep, ReleasePagesStep, MarkReleasedStep,
     RecycleStep, TrimDoneStep
  DEF InsideLock
<1>3. ASSUME NEW t \in Threads, NEW b \in held, CacheHint(t, b) PROVE IInv'
  BY <1>3, CacheHintStep
<1>4. ASSUME NEW t \in Threads, NEW B \in SUBSET held, ReturnBatch(t, B) PROVE IInv'
  BY <1>4, ReturnBatchStep
<1>5. ASSUME NEW t \in Threads, NEW b \in todo[t], ResolveBlock(t, b) PROVE IInv'
  BY <1>5, ResolveBlockStep
<1>6. ASSUME NEW t \in Threads, NEW s \in SpanObjs, ApplyGroup(t, s) PROVE IInv'
  BY <1>6, ApplyGroupStep
<1>7. ASSUME NEW t \in Threads, ReturnDone(t) PROVE IInv'
  BY <1>7, ReturnDoneStep
<1>8. CASE UNCHANGED vars
  <2>1. TypeOK' /\ Outstanding' = Outstanding
    BY <1>8 DEF IInv, TypeOK, Outstanding, vars, spanVars, listVars, pageVars, fetchVars, batchVars
  <2>2. LocksHeld' /\ SpansOwned' /\ ExtentsPlaced' /\ RegionsOfShards' /\ OneHand'
    BY <1>8, LocksKept, SpansKept, ExtentsKept, RegionsKept, HandsKept
    DEF IInv, Owns, Growing, Trimming, vars, spanVars, pageVars, fetchVars, batchVars
  <2>3. BlocksPlaced' /\ BatchesOfSpans'
    BY <1>8, <2>1, BlocksKept, BatchesKept DEF IInv, Owns, Growing, vars, spanVars, batchVars
  <2>4. CountersExact' /\ ListsMatchState' /\ RetainedBounded'
    BY <1>8, CountersKept, ListsKept
    DEF IInv, CountersExact, RetainedBounded, Owns, Growing, vars, spanVars, listVars, fetchVars
  <2> QED
    BY <2>1, <2>2, <2>3, <2>4 DEF IInv
<1> QED
  BY <1>1, <1>2, <1>3, <1>4, <1>5, <1>6, <1>7, <1>8 DEF Next

(* Every reachable state of the pool satisfies the inductive invariant.    *)
THEOREM Inductive == ASSUME ShardsAgree PROVE Spec => []IInv
  BY InvariantInit, InvariantStep, PTL DEF Spec

(* The variables of the pool have their types; in particular no counter of *)
(* free blocks leaves 0 .. BlocksPerSpan.                                  *)
THEOREM TypeCorrect == ASSUME ShardsAgree PROVE Spec => []TypeOK
<1>1. IInv => TypeOK
  BY DEF IInv
<1> QED
  BY <1>1, Inductive, PTL

(* Every block of a registered span is on the span's free list or in       *)
(* exactly one pair of hands, however fetchBatch, returnBatch and the      *)
(* release of empty spans interleave.                                      *)
THEOREM BlocksAreAccounted == ASSUME ShardsAgree PROVE Spec => []BlocksAccounted
<1>1. IInv => BlocksAccounted
  <2> SUFFICES ASSUME IInv PROVE BlocksAccounted
    OBVIOUS
  <2>1. ASSUME NEW e \in Extents, NEW b \in BlocksOf(e)
        PROVE  IF pageMap[e] = None THEN b \notin Outstanding
               ELSE b \in freeList[pageMap[e]] <=> b \notin Outstanding
    <3>1. b[1] = e
      BY DEF BlocksOf
    <3> QED
      BY <3>1 DEF IInv, BlocksPlaced
  <2>2. ASSUME NEW t \in Threads, NEW u \in Threads, NEW s \in SpanObjs
        PROVE  /\ held \cap todo[t] = {}
               /\ held \cap group[t][s] = {}
               /\ u # t => todo[t] \cap todo[u] = {}
               /\ todo[t] \cap group[u][s] = {}
               /\ \A r \in SpanObjs : <<t, s>> # <<u, r>> => group[t][s] \cap group[u][r] = {}
    BY DEF IInv, OneHand
  <2>3. ASSUME NEW t \in Threads PROVE held \cap todo[t] = {}
    BY DEF IInv, OneHand
  <2> QED
    BY <2>1, <2>2, <2>3, ZenonT(40) DEF BlocksAccounted
<1> QED
  BY <1>1, Inductive, PTL

(* FreeBlocks is the length of the chain, the lists of a shard hold exactly *)
(* its partial and its empty spans, EmptySpanCount counts them, and a shard *)
(* whose lock is free retains no more of them than it may.                 *)
THEOREM SpansAreConsistent == ASSUME ShardsAgree PROVE Spec => []SpansConsistent
<1>1. IInv => SpansConsistent
  BY DEF IInv, CountersExact, SpansConsistent
<1> QED
  BY <1>1, Inductive, PTL

(* An extent serves one span at a time, and while the page allocator may   *)
(* hand it out nobody holds a block of it.                                 *)
THEOREM PagesAreExclusive == ASSUME ShardsAgree PROVE Spec => []PagesExclusive
<1>1. IInv => PagesExclusive
  <2> SUFFICES ASSUME IInv PROVE PagesExclusive
    OBVIOUS
  <2>1. \A e \in freeExtents : e \in Extents /\ pageMap[e] = None
    BY DEF IInv, TypeOK, ExtentsPlaced
  <2>2. ReleasedPagesUnused
    <3> SUFFICES ASSUME NEW e \in freeExtents, NEW b \in BlocksOf(e), b \in Outstanding
                 PROVE  FALSE
      BY DEF ReleasedPagesUnused
    <3>1. b[1] = e
      BY DEF BlocksOf
    <3> QED
      BY <2>1, <3>1 DEF IInv, BlocksPlaced
  <2>3. \A t \in Threads : Owns(t) => obj[t] \notin spanPool
    BY DEF IInv, SpansOwned
  <2>4. \A t, u \in Threads : t # u /\ Owns(t) /\ Owns(u) => obj[t] # obj[u]
    BY DEF IInv, SpansOwned
  <2> QED
    BY <2>1, <2>2, <2>3, <2>4 DEF IInv, ExtentsPlaced, PagesExclusive, ExtentsExclusive
<1> QED
  BY <1>1, Inductive, PTL

=============================================================================
