----------------------------- MODULE CentralPool -----------------------------
(***************************************************************************)
(* The central pool of one size class (src/Core/Memory/central_pool.h):    *)
(* spans of equal blocks, kept per bucket shard in a partial and an empty  *)
(* list behind the shard's spin lock; fetchBatch hands blocks out of one   *)
(* span, returnBatch resolves each block to its span without that lock,    *)
(* groups the blocks by span and merges every group under the lock of the  *)
(* span's own shard, and a shard that retains too many empty spans gives   *)
(* their pages back.                                                       *)
(*                                                                         *)
(* An extent stands for the PagesPerSpan contiguous pages of one span; the *)
(* page allocator is the set of free extents (its own module is            *)
(* PageAllocator).  Blocks of extent e are <<e, i>>.  An atomic step is    *)
(* what no other thread can observe half done: a critical section of a     *)
(* spin lock, cut wherever it touches state that is read without it.       *)
(* Lists are sets: which member is the head is left open, a superset of    *)
(* the code's choice.                                                      *)
(***************************************************************************)
EXTENDS Integers, FiniteSets

CONSTANTS
  Threads,                \* threads that call the pool
  NumShards,              \* ActiveBucketShardCount
  ShardOf,                \* getThreadShardIndex: the shard a thread hashes to
  PageShardOf,            \* PageAllocator::selectShardIndex: its page shard
  SpanObjs,               \* the Span objects of the span object pool
  Extents,                \* page runs the page allocator can hand out
  BlocksPerSpan,          \* SizeClass::BlocksPerSpan
  MaxBatch,               \* bound: largest batch fetched or returned at once
  MaxReturnBatchGroups,   \* groups returnBatch keeps before it falls back
  MaxRetainedEmptySpans,  \* MaxRetainedEmptySpansPerClass
  None                    \* nullptr

Shards == 0 .. NumShards - 1
Block  == Extents \X (1 .. BlocksPerSpan)

ASSUME CountsAssumption ==
  /\ NumShards \in Nat \ {0}
  /\ BlocksPerSpan \in Nat \ {0}
  /\ MaxBatch \in Nat \ {0}
  /\ MaxReturnBatchGroups \in Nat \ {0}
  /\ MaxRetainedEmptySpans \in Nat

ASSUME SetsAssumption ==
  /\ ShardOf \in [Threads -> Shards]
  /\ PageShardOf \in [Threads -> Nat]
  /\ IsFiniteSet(SpanObjs)
  /\ None \notin Threads \cup SpanObjs \cup Extents \cup Nat

VARIABLES
  base,         \* Span::SpanBase and BackingSpan: the extent, None after reset()
  owner,        \* Span::BucketShardIndex
  freeBlocks,   \* Span::FreeBlocks, the counter
  freeList,     \* Span::FreeList, the blocks chained on the span
  released,     \* the spans whose IsReleased flag is set
  partial,      \* SizeClassBucketShard::PartialSpans
  empty,        \* SizeClassBucketShard::EmptySpans
  emptyCount,   \* SizeClassBucketShard::EmptySpanCount
  lock,         \* SizeClassBucketShard::Lock: its holder or None
  pageMap,      \* PageToSpanShards: extent -> span or None
  freeExtents,  \* what the page allocator can hand out
  regionShard,  \* the page shard whose region an extent is in, None if unreserved
  spanPool,     \* Span objects in the free lists of the object pool
  held,         \* blocks in the hands of callers (user code, thread caches)
  hint,         \* the SpanHint the thread's cache passes with its next batch
  pc,           \* where the thread's call stands
  want,         \* fetchBatch: MaxBlocks
  pages,        \* allocateSpanForClass: the acquired extent
  obj,          \* the span the call works on
  todo,         \* returnBatch: blocks of the chain not yet resolved
  group,        \* returnBatch: Batches, blocks grouped by span
  batchShard,   \* returnBatch: SpanBatch::ShardIndex of each group
  near          \* returnBatch: SpanHint, the last span resolved

spanVars == <<base, owner, freeBlocks, freeList, released>>
listVars == <<partial, empty, emptyCount>>
fetchVars == <<want, pages>>
batchVars == <<todo, group, batchShard, near>>
pageVars == <<freeExtents, regionShard>>
vars == <<spanVars, listVars, lock, pageMap, pageVars, spanPool, held, hint,
          pc, obj, fetchVars, batchVars>>

BlocksOf(e) == {e} \X (1 .. BlocksPerSpan)

(* Span::TotalBlocks: set by setup(), zero after reset().                  *)
TotalBlocks(s) == IF base[s] = None THEN 0 ELSE BlocksPerSpan

(* The pages of s are registered and s serves blocks.                      *)
Live(s) == base[s] # None /\ pageMap[base[s]] = s

Init ==
  /\ base = [s \in SpanObjs |-> None]
  /\ owner = [s \in SpanObjs |-> 0]
  /\ freeBlocks = [s \in SpanObjs |-> 0]
  /\ freeList = [s \in SpanObjs |-> {}]
  /\ released = {}
  /\ partial = [h \in Shards |-> {}]
  /\ empty = [h \in Shards |-> {}]
  /\ emptyCount = [h \in Shards |-> 0]
  /\ lock = [h \in Shards |-> None]
  /\ pageMap = [e \in Extents |-> None]
  /\ freeExtents = Extents
  /\ regionShard = [e \in Extents |-> None]
  /\ spanPool = SpanObjs
  /\ held = {}
  /\ hint = [t \in Threads |-> None]
  /\ pc = [t \in Threads |-> "idle"]
  /\ want = [t \in Threads |-> 0]
  /\ pages = [t \in Threads |-> None]
  /\ obj = [t \in Threads |-> None]
  /\ todo = [t \in Threads |-> {}]
  /\ group = [t \in Threads |-> [s \in SpanObjs |-> {}]]
  /\ batchShard = [t \in Threads |-> [s \in SpanObjs |-> 0]]
  /\ near = [t \in Threads |-> None]

(* SpinLock::lock and unlock, by std::lock_guard in the code.              *)
Lock(t, h) == lock[h] = None /\ lock' = [lock EXCEPT ![h] = t]

Unlock(h) == lock' = [lock EXCEPT ![h] = None]

GoTo(t, l) == pc' = [pc EXCEPT ![t] = l]

MinOf(a, b) == IF a < b THEN a ELSE b

-----------------------------------------------------------------------------
(* fetchBatch *)

(* The span fetchBatch takes from its shard: a partial one, else a retained *)
(* empty one.                                                              *)
FetchCandidates(h) == IF partial[h] # {} THEN partial[h] ELSE empty[h]

(* The popBlock loop: up to n blocks, stopping when the chain is empty.    *)
Popped(list, n) ==
  {B \in SUBSET list : Cardinality(B) = MinOf(n, Cardinality(list))}

(* The tail of fetchBatch for span s with free blocks `list` and counter   *)
(* `count`: link s into the partial list, pop, unlink it again if full.    *)
(* The caller's free list takes s as its hint; its deferred list, which    *)
(* may be drained first, keeps the hint it has.                            *)
HandOut(t, s, n, list, count) ==
  \E B \in Popped(list, n) :
    LET h == ShardOf[t] IN
    /\ freeList' = [freeList EXCEPT ![s] = list \ B]
    /\ freeBlocks' = [freeBlocks EXCEPT ![s] = count - Cardinality(B)]
    /\ partial' = [partial EXCEPT ![h] =
                     IF count = Cardinality(B) THEN @ \ {s} ELSE @ \cup {s}]
    /\ held' = held \cup B
    /\ hint' \in {hint, [hint EXCEPT ![t] = s]}

(* fetchBatch when the shard lists a span: one critical section.           *)
FetchListed(t, n) ==
  LET h == ShardOf[t] IN
  /\ pc[t] = "idle"
  /\ lock[h] = None
  /\ \E s \in FetchCandidates(h) :
       /\ HandOut(t, s, n, freeList[s], freeBlocks[s])
       /\ empty' = [empty EXCEPT ![h] = @ \ {s}]
       /\ emptyCount' = [emptyCount EXCEPT ![h] =
                           IF s \in empty[h] /\ @ > 0 THEN @ - 1 ELSE @]
  /\ UNCHANGED <<base, owner, released, lock, pageMap, pageVars, spanPool,
                 pc, obj, fetchVars, batchVars>>

(* fetchBatch when the shard lists none: the lock stays held while         *)
(* allocateSpanForClass makes a span.                                      *)
FetchGrow(t, n) ==
  LET h == ShardOf[t] IN
  /\ pc[t] = "idle"
  /\ FetchCandidates(h) = {}
  /\ Lock(t, h)
  /\ GoTo(t, "alloc_pages")
  /\ want' = [want EXCEPT ![t] = n]
  /\ UNCHANGED <<spanVars, listVars, pageMap, pageVars, spanPool, held,
                 hint, obj, pages, batchVars>>

(* PageAllocator::acquireSpan: an extent cached in, or newly reserved by,  *)
(* the caller's page shard, or none (the reservation or the commit failed): *)
(* fetchBatch returns 0.  A cached extent that cannot be committed again   *)
(* has already left the cache and is not put back.                         *)
AcquirePages(t) ==
  /\ pc[t] = "alloc_pages"
  /\ \/ \E e \in freeExtents :
          /\ regionShard[e] \in {None, PageShardOf[t]}
          /\ freeExtents' = freeExtents \ {e}
          /\ regionShard' = [regionShard EXCEPT ![e] = PageShardOf[t]]
          /\ pages' = [pages EXCEPT ![t] = e]
          /\ GoTo(t, "alloc_span")
          /\ UNCHANGED <<want, lock>>
     \/ /\ want' = [want EXCEPT ![t] = 0]
        /\ GoTo(t, "idle")
        /\ Unlock(ShardOf[t])
        /\ freeExtents' \in {freeExtents} \cup
             {freeExtents \ {e} : e \in {x \in freeExtents : regionShard[x] = PageShardOf[t]}}
        /\ UNCHANGED <<regionShard, pages>>
  /\ UNCHANGED <<spanVars, listVars, pageMap, spanPool, held, hint, obj,
                 batchVars>>

(* acquireSpanObject and Span::setup(): every block goes on the free list. *)
SetupSpan(t, s) ==
  /\ pc[t] = "alloc_span"
  /\ s \in spanPool
  /\ spanPool' = spanPool \ {s}
  /\ base' = [base EXCEPT ![s] = pages[t]]
  /\ owner' = [owner EXCEPT ![s] = ShardOf[t]]
  /\ freeBlocks' = [freeBlocks EXCEPT ![s] = BlocksPerSpan]
  /\ freeList' = [freeList EXCEPT ![s] = BlocksOf(pages[t])]
  /\ released' = released \ {s}
  /\ obj' = [obj EXCEPT ![t] = s]
  /\ pages' = [pages EXCEPT ![t] = None]
  /\ GoTo(t, "register")
  /\ UNCHANGED <<listVars, lock, pageMap, pageVars, held, hint, want,
                 batchVars>>

(* acquireSpanObject found no object and could not grow the pool: the pages *)
(* are given back and fetchBatch returns 0.                                *)
SpanObjectFails(t) ==
  /\ pc[t] = "alloc_span"
  /\ freeExtents' = freeExtents \cup {pages[t]}
  /\ pages' = [pages EXCEPT ![t] = None]
  /\ want' = [want EXCEPT ![t] = 0]
  /\ GoTo(t, "idle")
  /\ Unlock(ShardOf[t])
  /\ UNCHANGED <<regionShard, spanVars, listVars, pageMap, spanPool, held, hint, obj,
                 batchVars>>

(* registerSpanPages succeeded: the new span passes through the empty list *)
(* (inserted, counted, removed, uncounted) and serves the request.         *)
RegisterPages(t) ==
  LET s == obj[t] IN
  /\ pc[t] = "register"
  /\ pageMap' = [pageMap EXCEPT ![base[s]] = s]
  /\ HandOut(t, s, want[t], freeList[s], freeBlocks[s])
  /\ want' = [want EXCEPT ![t] = 0]
  /\ obj' = [obj EXCEPT ![t] = None]
  /\ GoTo(t, "idle")
  /\ Unlock(ShardOf[t])
  /\ UNCHANGED <<base, owner, released, empty, emptyCount, pageVars,
                 spanPool, pages, batchVars>>

(* registerSpanPages ran out of map nodes and rolled back: the pages are   *)
(* released first, the span object still describes them.                   *)
RegisterFails(t) ==
  /\ pc[t] = "register"
  /\ freeExtents' = freeExtents \cup {base[obj[t]]}
  /\ want' = [want EXCEPT ![t] = 0]
  /\ GoTo(t, "abandon")
  /\ UNCHANGED <<regionShard, spanVars, listVars, lock, pageMap, spanPool, held, hint, obj,
                 pages, batchVars>>

-----------------------------------------------------------------------------
(* releaseSpanObject *)

(* Span::reset(), which also clears IsReleased, and the push on the pool.  *)
RecycleSpan(s) ==
  /\ base' = [base EXCEPT ![s] = None]
  /\ owner' = [owner EXCEPT ![s] = 0]
  /\ freeBlocks' = [freeBlocks EXCEPT ![s] = 0]
  /\ freeList' = [freeList EXCEPT ![s] = {}]
  /\ released' = released \ {s}
  /\ spanPool' = spanPool \cup {s}

Abandon(t) ==
  /\ pc[t] = "abandon"
  /\ RecycleSpan(obj[t])
  /\ obj' = [obj EXCEPT ![t] = None]
  /\ GoTo(t, "idle")
  /\ Unlock(ShardOf[t])
  /\ UNCHANGED <<listVars, pageMap, pageVars, held, hint, fetchVars,
                 batchVars>>

-----------------------------------------------------------------------------
(* returnBatch *)

(* isBlockInSpan, for a block and a span of the one size class.            *)
IsBlockInSpan(s, b) == base[s] = b[1]

(* Mutant of FindSpanHinted: the hint is not checked against the address.  *)
FindSpanHintedBlindly(b, h) ==
  IF h # None /\ h \notin released THEN h ELSE pageMap[b[1]]

(* findSpanHinted: the hint if it still claims the address, else the page  *)
(* map, which must agree.                                                  *)
FindSpanHinted(b, h) ==
  LET Claims(s) == s # None /\ s \notin released /\ IsBlockInSpan(s, b) IN
  IF Claims(h) THEN h
  ELSE IF Claims(pageMap[b[1]]) THEN pageMap[b[1]] ELSE None

(* A thread cache looks the span of a block up before it keeps it, and     *)
(* caches the answer as its SpanHint.                                      *)
CacheHint(t, b) ==
  LET s == FindSpanHinted(b, hint[t]) IN
  /\ pc[t] = "idle"
  /\ b \in held
  /\ s # None
  /\ hint' = [hint EXCEPT ![t] = s]
  /\ UNCHANGED <<spanVars, listVars, lock, pageMap, pageVars, spanPool,
                 held, pc, obj, fetchVars, batchVars>>

(* Any caller gives blocks back, whoever fetched them.                     *)
ReturnBatch(t, B) ==
  /\ pc[t] = "idle"
  /\ B # {} /\ Cardinality(B) <= MaxBatch
  /\ held' = held \ B
  /\ todo' = [todo EXCEPT ![t] = B]
  /\ near' \in {[near EXCEPT ![t] = s] : s \in {None, hint[t]}}
  /\ GoTo(t, "return")
  /\ UNCHANGED <<spanVars, listVars, lock, pageMap, pageVars, spanPool,
                 hint, obj, fetchVars, group, batchShard>>

Groups(t) == {s \in SpanObjs : group[t][s] # {}}

(* One turn of the grouping loop: the block joins its span's batch; when   *)
(* the batches are used up it is flushed alone, and a block of no span is  *)
(* skipped.                                                                *)
ResolveBlock(t, b) ==
  LET s == FindSpanHinted(b, near[t]) IN
  /\ pc[t] = "return"
  /\ b \in todo[t]
  /\ todo' = [todo EXCEPT ![t] = @ \ {b}]
  /\ IF s = None
       THEN UNCHANGED <<group, batchShard, near, pc, obj>>
       ELSE /\ group' = [group EXCEPT ![t][s] = @ \cup {b}]
            /\ batchShard' = [batchShard EXCEPT ![t][s] =
                                IF s \in Groups(t) THEN @ ELSE owner[s]]
            /\ near' = [near EXCEPT ![t] = s]
            /\ IF s \in Groups(t) \/ Cardinality(Groups(t)) < MaxReturnBatchGroups
                 THEN UNCHANGED <<pc, obj>>
                 ELSE GoTo(t, "flush") /\ obj' = [obj EXCEPT ![t] = s]
  /\ UNCHANGED <<spanVars, listVars, lock, pageMap, pageVars, spanPool,
                 held, hint, fetchVars>>

(* Mutants of FreeAfterPush: no clamp and the batch counted twice; one     *)
(* block too many.                                                         *)
FreeAfterPushTwice(s, n) == freeBlocks[s] + 2 * n
FreeAfterPushOneMore(s, n) == MinOf(TotalBlocks(s), freeBlocks[s] + n + 1)

(* The counter after pushBatch, clamped to TotalBlocks.                    *)
FreeAfterPush(s, n) == MinOf(TotalBlocks(s), freeBlocks[s] + n)

(* Mutant of PartialAfterPush: a span that was full stays unlinked.        *)
PartialAfterPushForgets(h, s, isEmpty) ==
  IF isEmpty THEN partial[h] \ {s} ELSE partial[h]

(* The partial list after a batch: a span that was full is linked again, a *)
(* span whose blocks are all home leaves it.                               *)
PartialAfterPush(h, s, isEmpty) ==
  IF isEmpty THEN partial[h] \ {s}
  ELSE IF freeBlocks[s] = 0 THEN partial[h] \cup {s} ELSE partial[h]

(* trimEmptySpansLocked keeps looping.                                     *)
NeedsTrim(count) == count > MaxRetainedEmptySpans

(* applyReturnedBatchLocked under the lock of the span's shard, as stored  *)
(* when the batch was formed or, for a block flushed alone, as read now;   *)
(* then the first test of trimEmptySpansLocked.                            *)
ApplyGroup(t, s) ==
  LET h       == IF pc[t] = "flush" THEN owner[s] ELSE batchShard[t][s]
      B       == group[t][s]
      after   == FreeAfterPush(s, Cardinality(B))
      isEmpty == after = TotalBlocks(s)
      newCount == IF isEmpty /\ s \notin empty[h] THEN emptyCount[h] + 1
                                                  ELSE emptyCount[h]
  IN
  /\ \/ pc[t] = "return" /\ todo[t] = {}
     \/ pc[t] = "flush" /\ s = obj[t]
  /\ B # {}
  /\ lock[h] = None
  /\ group' = [group EXCEPT ![t][s] = {}]
  /\ batchShard' = [batchShard EXCEPT ![t][s] = 0]
  /\ IF s \in released
       THEN UNCHANGED <<freeList, freeBlocks, partial, empty, emptyCount>>
       ELSE /\ freeList' = [freeList EXCEPT ![s] = @ \cup B]
            /\ freeBlocks' = [freeBlocks EXCEPT ![s] = after]
            /\ partial' = [partial EXCEPT ![h] = PartialAfterPush(h, s, isEmpty)]
            /\ empty' = [empty EXCEPT ![h] = IF isEmpty THEN @ \cup {s} ELSE @]
            /\ emptyCount' = [emptyCount EXCEPT ![h] = newCount]
  /\ obj' = [obj EXCEPT ![t] = None]
  /\ IF NeedsTrim(emptyCount'[h])
       THEN lock' = [lock EXCEPT ![h] = t] /\ GoTo(t, "trim")
       ELSE UNCHANGED lock /\ GoTo(t, "return")
  /\ UNCHANGED <<base, owner, released, pageMap, pageVars, spanPool, held,
                 hint, fetchVars, todo, near>>

(* The call is over when nothing is left to resolve or to apply.           *)
ReturnDone(t) ==
  /\ pc[t] = "return"
  /\ todo[t] = {} /\ Groups(t) = {}
  /\ near' = [near EXCEPT ![t] = None]
  /\ GoTo(t, "idle")
  /\ UNCHANGED <<spanVars, listVars, lock, pageMap, pageVars, spanPool,
                 held, hint, obj, fetchVars, todo, group, batchShard>>

-----------------------------------------------------------------------------
(* trimEmptySpansLocked and releaseEmptySpan, under the shard lock *)

(* Mutant of Unregistered: the page map keeps the span.                    *)
UnregisteredNot(s) == pageMap

(* unregisterSpanPages *)
Unregistered(s) == [pageMap EXCEPT ![base[s]] = None]

(* Unlink an empty span from its shard and its pages from the page map.    *)
DetachEmpty(t, h, s) ==
  /\ pc[t] = "trim"
  /\ lock[h] = t
  /\ NeedsTrim(emptyCount[h])
  /\ s \in empty[h] \ released
  /\ partial' = [partial EXCEPT ![h] = @ \ {s}]
  /\ empty' = [empty EXCEPT ![h] = @ \ {s}]
  /\ emptyCount' = [emptyCount EXCEPT ![h] = IF @ > 0 THEN @ - 1 ELSE @]
  /\ pageMap' = Unregistered(s)
  /\ obj' = [obj EXCEPT ![t] = s]
  /\ GoTo(t, "release_pages")
  /\ UNCHANGED <<spanVars, lock, pageVars, spanPool, held, hint, fetchVars,
                 batchVars>>

(* PageAllocator::releaseSpan: from here on anybody may get the pages,     *)
(* while the span object still describes them.                             *)
ReleasePages(t) ==
  /\ pc[t] = "release_pages"
  /\ freeExtents' = freeExtents \cup {base[obj[t]]}
  /\ GoTo(t, "mark")
  /\ UNCHANGED <<regionShard, spanVars, listVars, lock, pageMap, spanPool, held, hint, obj,
                 fetchVars, batchVars>>

(* Mutant of MarkReleased: the release is tried again and again.           *)
MarkReleasedRetries(t) ==
  /\ pc[t] = "mark"
  /\ released' = released \cup {obj[t]}
  /\ GoTo(t, "release_pages")
  /\ UNCHANGED <<base, owner, freeBlocks, freeList, listVars, lock, pageMap,
                 pageVars, spanPool, held, hint, obj, fetchVars, batchVars>>

(* setReleased(true) *)
MarkReleased(t) ==
  /\ pc[t] = "mark"
  /\ released' = released \cup {obj[t]}
  /\ GoTo(t, "recycle")
  /\ UNCHANGED <<base, owner, freeBlocks, freeList, listVars, lock, pageMap,
                 pageVars, spanPool, held, hint, obj, fetchVars, batchVars>>

Recycle(t) ==
  /\ pc[t] = "recycle"
  /\ RecycleSpan(obj[t])
  /\ obj' = [obj EXCEPT ![t] = None]
  /\ GoTo(t, "trim")
  /\ UNCHANGED <<listVars, lock, pageMap, pageVars, held, hint, fetchVars,
                 batchVars>>

(* Few enough empty spans, or none listed: unlock and go on with the batch. *)
TrimDone(t, h) ==
  /\ pc[t] = "trim"
  /\ lock[h] = t
  /\ ~NeedsTrim(emptyCount[h]) \/ empty[h] = {}
  /\ Unlock(h)
  /\ GoTo(t, "return")
  /\ UNCHANGED <<spanVars, listVars, pageMap, pageVars, spanPool, held,
                 hint, obj, fetchVars, batchVars>>

-----------------------------------------------------------------------------
Fetch(t) == \E n \in 1 .. MaxBatch : FetchListed(t, n) \/ FetchGrow(t, n)

(* The steps a thread takes with a shard lock in its hands.                *)
InsideLock(t) ==
  \/ AcquirePages(t)
  \/ \E s \in SpanObjs : SetupSpan(t, s)
  \/ SpanObjectFails(t)
  \/ RegisterPages(t)
  \/ RegisterFails(t)
  \/ Abandon(t)
  \/ \E h \in Shards, s \in SpanObjs : DetachEmpty(t, h, s)
  \/ ReleasePages(t)
  \/ MarkReleased(t)
  \/ Recycle(t)
  \/ \E h \in Shards : TrimDone(t, h)

Next ==
  \E t \in Threads :
    \/ Fetch(t)
    \/ InsideLock(t)
    \/ \E b \in held : CacheHint(t, b)
    \/ \E B \in SUBSET held : ReturnBatch(t, B)
    \/ \E b \in todo[t] : ResolveBlock(t, b)
    \/ \E s \in SpanObjs : ApplyGroup(t, s)
    \/ ReturnDone(t)

(* A thread in a critical section is not descheduled for ever; nothing is  *)
(* assumed of who wins a spin lock, nor that anybody calls.                *)
Spec == Init /\ [][Next]_vars /\ \A t \in Threads : WF_vars(InsideLock(t))

-----------------------------------------------------------------------------
Labels == {"idle", "alloc_pages", "alloc_span", "register", "abandon", "return",
           "flush", "trim", "release_pages", "mark", "recycle"}

TypeOK ==
  /\ base \in [SpanObjs -> Extents \cup {None}]
  /\ owner \in [SpanObjs -> Shards]
  /\ freeBlocks \in [SpanObjs -> 0 .. BlocksPerSpan]
  /\ freeList \in [SpanObjs -> SUBSET Block]
  /\ released \in SUBSET SpanObjs
  /\ partial \in [Shards -> SUBSET SpanObjs]
  /\ empty \in [Shards -> SUBSET SpanObjs]
  /\ emptyCount \in [Shards -> Nat]
  /\ lock \in [Shards -> Threads \cup {None}]
  /\ pageMap \in [Extents -> SpanObjs \cup {None}]
  /\ freeExtents \in SUBSET Extents
  /\ regionShard \in [Extents -> Nat \cup {None}]
  /\ spanPool \in SUBSET SpanObjs
  /\ held \in SUBSET Block
  /\ hint \in [Threads -> SpanObjs \cup {None}]
  /\ pc \in [Threads -> Labels]
  /\ want \in [Threads -> 0 .. MaxBatch]
  /\ pages \in [Threads -> Extents \cup {None}]
  /\ obj \in [Threads -> SpanObjs \cup {None}]
  /\ todo \in [Threads -> SUBSET Block]
  /\ group \in [Threads -> [SpanObjs -> SUBSET Block]]
  /\ batchShard \in [Threads -> [SpanObjs -> Shards]]
  /\ near \in [Threads -> SpanObjs \cup {None}]

(* The blocks that callers, or batches on their way back, hold.            *)
Outstanding ==
  held \cup (UNION {todo[t] : t \in Threads})
       \cup (UNION {group[t][s] : t \in Threads, s \in SpanObjs})

(* Every block of a registered span is either on the span's free list or   *)
(* in exactly one pair of hands, and no block of unregistered pages is in  *)
(* anybody's: no block is handed out twice, none is lost on its way back   *)
(* through the groups of returnBatch.                                      *)
BlocksAccounted ==
  /\ \A e \in Extents : \A b \in BlocksOf(e) :
       IF pageMap[e] = None THEN b \notin Outstanding
       ELSE b \in freeList[pageMap[e]] <=> b \notin Outstanding
  /\ \A t \in Threads :
       /\ held \cap todo[t] = {}
       /\ \A s \in SpanObjs : held \cap group[t][s] = {}
       /\ \A u \in Threads, s \in SpanObjs :
            /\ u # t => todo[t] \cap todo[u] = {}
            /\ todo[t] \cap group[u][s] = {}
            /\ \A r \in SpanObjs :
                 <<t, s>> # <<u, r>> => group[t][s] \cap group[u][r] = {}

(* Memory/readme.md 6.3: returnBatch "groups by span first, then goes back *)
(* to each span's shard and merges the free list": a block that is in      *)
(* nobody's hands is on the free list of the span that its address is in.  *)
ReturnedToOwnSpan ==
  \A e \in Extents : pageMap[e] # None =>
    BlocksOf(e) \ Outstanding \subseteq freeList[pageMap[e]]

(* Pages that the page allocator may hand out again hold no block that     *)
(* anybody still uses: a span is given back only whole.                    *)
ReleasedPagesUnused ==
  \A e \in freeExtents : BlocksOf(e) \cap Outstanding = {}

(* FreeBlocks, the counter that drives the span's state machine, is the    *)
(* length of its chain.                                                    *)
FreeBlocksExact ==
  \A e \in Extents :
    LET s == pageMap[e] IN s # None => freeBlocks[s] = Cardinality(freeList[s])

(* Full, partial and empty spans are exactly where fetchBatch looks for    *)
(* them: partial and empty ones in the lists of their own shard, full ones *)
(* in none, spans without pages in none, and EmptySpanCount counts.        *)
ListsMatchState ==
  \A h \in Shards :
    /\ partial[h] = {s \in SpanObjs : /\ Live(s) /\ owner[s] = h
                                      /\ freeBlocks[s] \in 1 .. BlocksPerSpan - 1}
    /\ empty[h] = {s \in SpanObjs : /\ Live(s) /\ owner[s] = h
                                    /\ freeBlocks[s] = BlocksPerSpan}
    /\ emptyCount[h] = Cardinality(empty[h])

(* Whenever its lock is free a shard retains at most                       *)
(* MaxRetainedEmptySpans empty spans.                                      *)
RetainedBounded ==
  \A h \in Shards : lock[h] = None => emptyCount[h] <= MaxRetainedEmptySpans

(* What a shard knows of its spans, it knows three times alike, and of     *)
(* empty spans it keeps only the few it may.                               *)
SpansConsistent == FreeBlocksExact /\ ListsMatchState /\ RetainedBounded

(* The thread is making or releasing the span obj[t], in no list.          *)
Owns(t) == pc[t] \in {"register", "abandon", "release_pages", "mark", "recycle"}

(* An extent is free, or mapped to the one span that serves it, or in the  *)
(* hands of one thread that is making or releasing that span; a free       *)
(* extent is unmapped, and a pooled span object is in nobody's hands.      *)
ExtentsExclusive ==
  /\ \A e \in freeExtents : pageMap[e] = None
  /\ \A e \in Extents : pageMap[e] # None => base[pageMap[e]] = e
  /\ \A t \in Threads : Owns(t) => obj[t] \notin spanPool
  /\ \A t, u \in Threads : t # u /\ Owns(t) /\ Owns(u) => obj[t] # obj[u]

(* Pages serve one span at a time, and none while they are free.           *)
PagesExclusive == ReleasedPagesUnused /\ ExtentsExclusive

(* A shard lock that is taken is given back: trimEmptySpansLocked and      *)
(* allocateSpanForClass end.                                               *)
CriticalSectionsEnd ==
  \A h \in Shards : lock[h] # None ~> lock[h] = None

=============================================================================
