----------------------------- MODULE ThreadCache -----------------------------
(***************************************************************************)
(* ThreadCache (src/Core/Memory/thread_cache.h): each thread keeps blocks  *)
(* of every size class in a free list and in a deferred list, counts them  *)
(* in blocks and in bytes, and gives them back to the central pool by the  *)
(* batch to stay near its budgets.                                         *)
(*                                                                         *)
(* The blocks of a class are alike, so a list is its length; the counters  *)
(* that the code keeps beside its lists are variables of their own.  A     *)
(* cache belongs to one thread and a call fetches from the central pool at *)
(* most once, or only gives blocks back, so a call is a step.  Span hints  *)
(* are CentralPool's matter and left out.                                  *)
(***************************************************************************)
EXTENDS Integers, Functions

CONSTANTS
  Threads,
  NumSizeClasses,
  BlockBytes,         \* classIndexToSize
  Blocks,             \* bound: the blocks that the central pool has
  MaxBytes,           \* ThreadCacheMaxBytes
  MaxCount,           \* FreeList::MaxCount
  RefillBatch,        \* RefillBatchSize
  MaxBatch,           \* room for one batch on allocate's stack
  MinDrainBatch,      \* ThreadCacheDeferredDrainMinBatch
  MaxDrainBatch,      \* ThreadCacheDeferredDrainMaxBatch
  MinDrainChunk,      \* ThreadCacheTrimMinDrainChunk
  MaxDrainChunk,      \* ThreadCacheTrimMaxDrainChunk
  CountModulus        \* 2^16, the width of both lists' Count

Classes == 0 .. NumSizeClasses - 1

ASSUME ParametersAssumption ==
  /\ NumSizeClasses \in Nat \ {0}
  /\ BlockBytes \in [Classes -> Nat \ {0}]
  /\ Blocks \in [Classes -> Nat]
  /\ MaxCount \in [Classes -> Nat]
  /\ {MaxBytes, RefillBatch, MaxBatch} \subseteq Nat
  /\ {MinDrainBatch, MaxDrainBatch, MinDrainChunk, MaxDrainChunk} \subseteq Nat
  /\ CountModulus \in Nat \ {0}

Least(a, b) == IF a <= b THEN a ELSE b
Greatest(a, b) == IF a >= b THEN a ELSE b

DeferredBudgetBytes == Greatest(1, MaxBytes \div 2)
TriggerBytes == (MaxBytes * 5) \div 4
TargetBytes == (MaxBytes * 9) \div 8
MaxBatches == NumSizeClasses * 2
DrainBatch == Greatest(MinDrainBatch, Least(MaxDrainBatch, RefillBatch))
DrainChunk == Greatest(1, Least(MaxDrainChunk, Greatest(MinDrainChunk, RefillBatch \div 2)))
SpillCount(c) ==
  IF MaxCount[c] > 0 THEN Greatest(2, Least(RefillBatch, MaxCount[c] \div 4 + 1)) ELSE 1

VARIABLES
  central,   \* blocks in the central pool, by class
  held,      \* blocks that callers hold
  cache      \* the threads' caches

vars == <<central, held, cache>>

NoBlocks == [c \in Classes |-> 0]

(* returned counts what a call has given back; it is zero between calls.   *)
Fresh ==
  [list |-> NoBlocks, count |-> NoBlocks, currentBytes |-> 0,
   deferred |-> NoBlocks, deferredCount |-> NoBlocks, deferredBytes |-> 0,
   lastDrainClass |-> 0, lastDeferredDrainClass |-> 0, returned |-> NoBlocks]

Init ==
  /\ central = Blocks
  /\ held = NoBlocks
  /\ cache = [t \in Threads |-> Fresh]

-----------------------------------------------------------------------------
(* The lists and the counters that move with them; n may be negative.      *)

(* Mutant of PushList: the bytes are forgotten when blocks leave.          *)
PushListOnly(k, c, n) ==
  [k EXCEPT !.list[c] = @ + n, !.count[c] = (@ + n) % CountModulus,
            !.currentBytes = @ + Greatest(n, 0) * BlockBytes[c]]

PushList(k, c, n) ==
  [k EXCEPT !.list[c] = @ + n, !.count[c] = (@ + n) % CountModulus,
            !.currentBytes = @ + n * BlockBytes[c]]

PushDeferred(k, c, n) ==
  [k EXCEPT !.deferred[c] = @ + n, !.deferredCount[c] = (@ + n) % CountModulus,
            !.deferredBytes = @ + n * BlockBytes[c]]

Return(k, c, n) == [k EXCEPT !.returned[c] = @ + n]

TotalRetainedBytes(k) == k.currentBytes + k.deferredBytes

RefillFromDeferred(k, c) ==
  LET n == Least(Greatest(1, RefillBatch), k.deferred[c])
  IN  PushList(PushDeferred(k, c, -n), c, n)

(* Mutant of SpillToDeferred: one block falls between the lists.           *)
SpillDropping(k, c) ==
  LET n == Least(SpillCount(c), k.list[c])
  IN  PushDeferred(PushList(k, c, -n), c, n - 1)

SpillToDeferred(k, c) ==
  LET n == Least(SpillCount(c), k.list[c])
  IN  PushDeferred(PushList(k, c, -n), c, n)

DrainDeferredClass(k, c, requested) ==
  LET n == Least(requested, k.deferred[c])
  IN  Return(PushDeferred(k, c, -n), c, n)

DrainClass(k, c, requested) ==
  LET n == Least(requested, k.list[c])
  IN  Return(PushList(k, c, -n), c, n)

(* The first class of S when one counts round from class at.               *)
FirstFrom(S, at) ==
  CHOOSE c \in S : \A d \in S : (c - at) % NumSizeClasses <= (d - at) % NumSizeClasses

(* step applied once for every class, or once for every batch; a batch     *)
(* that finds nothing to do leaves nothing for the next one.               *)
ForEachClass(step(_, _), k) ==
  LET done[n \in 0 .. NumSizeClasses] == IF n = 0 THEN k ELSE step(done[n - 1], n - 1)
  IN  done[NumSizeClasses]

InBatches(step(_), k) ==
  LET done[n \in 0 .. MaxBatches] == IF n = 0 THEN k ELSE step(done[n - 1])
  IN  done[MaxBatches]

-----------------------------------------------------------------------------
(* drainDeferredToCentral *)

OverBudget(k) == k.deferredBytes > DeferredBudgetBytes

DrainDeferredBatch(k) ==
  LET waiting == {c \in Classes : k.deferred[c] > 0}
      c       == FirstFrom(waiting, k.lastDeferredDrainClass)
  IN  IF OverBudget(k) /\ waiting # {}
      THEN [DrainDeferredClass(k, c, Least(k.deferredCount[c], DrainBatch))
              EXCEPT !.lastDeferredDrainClass = (c + 1) % NumSizeClasses]
      ELSE k

DrainAllDeferred(k) ==
  ForEachClass(LAMBDA j, c : DrainDeferredClass(j, c, j.deferredCount[c]), k)

DrainDeferred(k) == InBatches(DrainDeferredBatch, k)

-----------------------------------------------------------------------------
(* trimToBudget *)

Trimmable(k) == {c \in Classes : k.list[c] > 0 /\ k.count[c] # 0}

(* Mutant of TrimBatch: the drain always starts at the same class and      *)
(* gives up when that class has nothing.                                   *)
TrimBatchFirstOnly(k) ==
  IF k.currentBytes > TargetBytes /\ 0 \in Trimmable(k)
  THEN DrainClass(k, 0, Least(k.count[0], DrainChunk))
  ELSE k

TrimBatch(k) ==
  LET c == FirstFrom(Trimmable(k), k.lastDrainClass)
  IN  IF k.currentBytes > TargetBytes /\ Trimmable(k) # {}
      THEN [DrainClass(k, c, Least(k.count[c], DrainChunk))
              EXCEPT !.lastDrainClass = (c + 1) % NumSizeClasses]
      ELSE k

DrainAllLists(k) == ForEachClass(LAMBDA j, c : DrainClass(j, c, j.count[c]), k)

TrimToBudget(k) ==
  IF TotalRetainedBytes(k) > MaxBytes THEN InBatches(TrimBatch, DrainDeferred(k)) ELSE k

-----------------------------------------------------------------------------
(* The calls *)

Finish(t, k) ==
  /\ cache' = [cache EXCEPT ![t] = [k EXCEPT !.returned = NoBlocks]]
  /\ central' = [c \in Classes |-> central[c] + k.returned[c]]

Refilled(k, c) == IF k.list[c] = 0 THEN RefillFromDeferred(k, c) ELSE k

AllocateHit(t, c) ==
  LET k == Refilled(cache[t], c) IN
  /\ k.list[c] > 0
  /\ held' = [held EXCEPT ![c] = @ + 1]
  /\ Finish(t, PushList(k, c, -1))

(* The central pool gives what the span at hand has; the first block goes  *)
(* to the caller.  When it gives nothing the call fails and nothing has    *)
(* changed.                                                                *)
AllocateMiss(t, c) ==
  /\ Refilled(cache[t], c).list[c] = 0
  /\ \E n \in 1 .. Least(Least(RefillBatch, MaxBatch), central[c]) :
       /\ cache' = [cache EXCEPT ![t] = PushList(@, c, n - 1)]
       /\ central' = [central EXCEPT ![c] = @ - n]
       /\ held' = [held EXCEPT ![c] = @ + 1]

Allocate(t, c) == AllocateHit(t, c) \/ AllocateMiss(t, c)

(* A block of another shard's span goes to the deferred list at once.      *)
Routed(k, c, deferred) == IF deferred THEN PushDeferred(k, c, 1) ELSE PushList(k, c, 1)

Spilled(k, c) ==
  IF k.count[c] > MaxCount[c] \/ k.currentBytes > MaxBytes THEN SpillToDeferred(k, c) ELSE k

(* Any thread may free what another one allocated.                         *)
Deallocate(t, c) ==
  /\ held[c] > 0
  /\ held' = [held EXCEPT ![c] = @ - 1]
  /\ \E deferred \in BOOLEAN :
       LET k == DrainDeferred(Spilled(Routed(cache[t], c, deferred), c)) IN
       Finish(t, IF TotalRetainedBytes(k) > TriggerBytes THEN TrimToBudget(k) ELSE k)

OnIdle(t) ==
  /\ UNCHANGED held
  /\ Finish(t, DrainAllLists(DrainAllDeferred(cache[t])))

(* Mutant of FlushAll: the deferred lists are left.                        *)
FlushListsOnly(k) == DrainAllLists(k)

FlushAll(k) == DrainAllLists(DrainAllDeferred(k))

(* The cache is deleted; the thread, or the next one, starts afresh.       *)
OnThreadExit(t) ==
  /\ UNCHANGED held
  /\ central' = [c \in Classes |-> central[c] + FlushAll(cache[t]).returned[c]]
  /\ cache' = [cache EXCEPT ![t] = Fresh]

Next ==
  \E t \in Threads :
    \/ \E c \in Classes : Allocate(t, c) \/ Deallocate(t, c)
    \/ OnIdle(t)
    \/ OnThreadExit(t)

Spec == Init /\ [][Next]_vars

-----------------------------------------------------------------------------
Bytes(lengths) == SumFunction([c \in Classes |-> lengths[c] * BlockBytes[c]])

Cache ==
  [list : [Classes -> Nat], count : [Classes -> 0 .. CountModulus - 1], currentBytes : Nat,
   deferred : [Classes -> Nat], deferredCount : [Classes -> 0 .. CountModulus - 1],
   deferredBytes : Nat, lastDrainClass : Classes, lastDeferredDrainClass : Classes,
   returned : {NoBlocks}]

TypeOK ==
  /\ central \in [Classes -> Nat]
  /\ held \in [Classes -> Nat]
  /\ cache \in [Threads -> Cache]

(* Every block is in the central pool, with a caller or in a list of a     *)
(* cache: refills, spills, drains and the end of a thread lose none, and   *)
(* none is handed out twice.                                               *)
BlocksAccounted ==
  \A c \in Classes :
    Blocks[c] = central[c] + held[c]
                + SumFunction([t \in Threads |-> cache[t].list[c] + cache[t].deferred[c]])

(* The byte counters, from which all budgets are judged, say what the      *)
(* lists hold, and so do the counts, in the types they have.               *)
CountersExact ==
  /\ TypeOK
  /\ \A t \in Threads :
    /\ cache[t].currentBytes = Bytes(cache[t].list)
    /\ cache[t].deferredBytes = Bytes(cache[t].deferred)
    /\ \A c \in Classes : cache[t].count[c] = cache[t].list[c] % CountModulus
    /\ \A c \in Classes : cache[t].deferredCount[c] = cache[t].deferred[c] % CountModulus

(* However calls follow each other, a call leaves no more in the deferred  *)
(* lists than their budget: the batches that a drain may take are enough.  *)
DeferredInBudget == \A t \in Threads : cache[t].deferredBytes <= DeferredBudgetBytes

(* A free leaves no more in the free lists than a quarter above the        *)
(* budget, whatever allocations have piled up before it.                   *)
FreesReachBudget ==
  [][\A t \in Threads :
       (\E c \in Classes : Deallocate(t, c)) => cache'[t].currentBytes <= TriggerBytes]_vars

(* Both budgets are kept: of the deferred lists after every call, of the   *)
(* free lists after every free.                                            *)
BudgetsKept == []DeferredInBudget /\ FreesReachBudget

(* memory_facade.h:1712, "flush and release current thread Cache": when the*)
(* cache is deleted all its blocks have gone back to the central pool.     *)
ExitFlushes ==
  [][\A t \in Threads :
       OnThreadExit(t) =>
         \A c \in Classes : central'[c] = central[c] + cache[t].list[c] + cache[t].deferred[c]]_vars

(* An idle thread keeps nothing.                                           *)
IdleKeepsNothing ==
  [][\A t \in Threads :
       OnIdle(t) => TotalRetainedBytes(cache'[t]) = 0]_vars

(* Neither an idle thread nor one that ends leaves a block behind.         *)
NothingLeft == IdleKeepsNothing /\ ExitFlushes
=============================================================================
