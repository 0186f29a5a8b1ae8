-------------------------- MODULE ThreadCache_proofs --------------------------
(***************************************************************************)
(* Proofs about ThreadCache, for every number of size classes, every limit *)
(* and batch size and any number of threads.                               *)
(*                                                                         *)
(* A call works on one cache by pushing, refilling, spilling and draining. *)
(* Each of these keeps the counters exact and the blocks of every class    *)
(* together, those given back included; so do the loops that repeat them,  *)
(* and so does the call.                                                   *)
(***************************************************************************)
EXTENDS ThreadCache, FoldLemmas

LEMMA Constants ==
  /\ NumSizeClasses \in Nat /\ NumSizeClasses # 0
  /\ BlockBytes \in [Classes -> Nat]
  /\ Blocks \in [Classes -> Nat]
  /\ MaxCount \in [Classes -> Nat]
  /\ MaxBytes \in Nat /\ RefillBatch \in Nat /\ MaxBatch \in Nat
  /\ MinDrainBatch \in Nat /\ MaxDrainBatch \in Nat
  /\ MinDrainChunk \in Nat /\ MaxDrainChunk \in Nat
  /\ CountModulus \in Nat /\ CountModulus # 0
  BY ParametersAssumption

LEMMA ClassesFinite == IsFiniteSet(Classes) /\ Classes \subseteq Nat /\ 0 \in Classes
<1>1. IsFiniteSet(0 .. NumSizeClasses - 1)
  BY Constants, FS_Interval
<1> QED
  BY <1>1, Constants DEF Classes

LEMMA ClassAfter == ASSUME NEW c \in Classes PROVE (c + 1) % NumSizeClasses \in Classes
<1>1. \A n \in Nat \ {0}, p \in Nat : p % n \in 0 .. n - 1
  BY SMT
<1>2. NumSizeClasses \in Nat \ {0} /\ c + 1 \in Nat
  BY Constants DEF Classes
<1> QED
  BY <1>1, <1>2 DEF Classes

-----------------------------------------------------------------------------
(* Arithmetic *)

LEMMA OneIsNumber == 1 \in Int
  OBVIOUS

LEMMA ProductMoves ==
  ASSUME NEW a \in Int, NEW n \in Int, NEW b \in Int
  PROVE  (a + n) * b - a * b = n * b /\ a * b \in Int /\ n * b \in Int
  BY SMT

LEMMA ProductNotNegative == ASSUME NEW a \in Nat, NEW b \in Nat PROVE a * b \in Nat
  BY SMT

LEMMA LeastOf ==
  ASSUME NEW a \in Nat, NEW b \in Nat
  PROVE  Least(a, b) \in Nat /\ Least(a, b) <= a /\ Least(a, b) <= b
  BY DEF Least

LEMMA GreatestOf ==
  ASSUME NEW a \in Nat, NEW b \in Nat
  PROVE  Greatest(a, b) \in Nat /\ Greatest(a, b) >= a /\ Greatest(a, b) >= b
  BY DEF Greatest

LEMMA AmountsAreNumbers ==
  /\ DrainBatch \in Nat /\ DrainChunk \in Nat /\ MaxBatches \in Nat
  /\ \A c \in Classes : SpillCount(c) \in Nat
<1>1. DrainBatch \in Nat
  BY Constants, LeastOf, GreatestOf DEF DrainBatch
<1>2. RefillBatch \div 2 \in Nat
  BY Constants, SMT
<1>3. DrainChunk \in Nat
  BY <1>2, Constants, LeastOf, GreatestOf DEF DrainChunk
<1>4. ASSUME NEW c \in Classes PROVE SpillCount(c) \in Nat
  <2>1. MaxCount[c] \in Nat
    BY Constants
  <2>2. MaxCount[c] \div 4 + 1 \in Nat
    BY <2>1, SMT
  <2>3. Greatest(2, Least(RefillBatch, MaxCount[c] \div 4 + 1)) \in Nat
    BY <2>2, Constants, LeastOf, GreatestOf
  <2> QED
    BY <2>3 DEF SpillCount
<1> QED
  BY <1>1, <1>3, <1>4, Constants DEF MaxBatches

-----------------------------------------------------------------------------
(* Bytes *)

LEMMA BytesType ==
  ASSUME NEW l \in [Classes -> Nat]
  PROVE  Bytes(l) \in Nat
<1>1. \A c \in Classes : l[c] * BlockBytes[c] \in Nat
  BY Constants, ProductNotNegative
<1> DEFINE f == [c \in Classes |-> l[c] * BlockBytes[c]]
<1>2. f \in [Classes -> Nat]
  BY <1>1
<1> HIDE DEF f
<1>3. SumFunction(f) \in Nat
  BY <1>2, ClassesFinite, SumNotNegative
<1> QED
  BY <1>3 DEF Bytes, f

LEMMA BytesOfNothing == Bytes(NoBlocks) = 0
<1> DEFINE f == [c \in Classes |-> NoBlocks[c] * BlockBytes[c]]
<1>1. f \in [Classes -> Int] /\ \A c \in Classes : f[c] = 0
  BY Constants DEF NoBlocks
<1> HIDE DEF f
<1>2. SumFunction(f) = 0
  BY <1>1, ClassesFinite, SumOfZeros
<1> QED
  BY <1>2 DEF Bytes, f

(* Moving n blocks of a class moves the bytes by theirs.                   *)
LEMMA BytesMove ==
  ASSUME NEW l \in [Classes -> Nat], NEW c \in Classes, NEW n \in Int, l[c] + n \in Nat
  PROVE  Bytes([l EXCEPT ![c] = @ + n]) = Bytes(l) + n * BlockBytes[c]
<1> DEFINE m == [l EXCEPT ![c] = @ + n]
           f == [d \in Classes |-> l[d] * BlockBytes[d]]
           g == [d \in Classes |-> m[d] * BlockBytes[d]]
<1>1. m \in [Classes -> Nat] /\ m[c] = l[c] + n /\ \A d \in Classes \ {c} : m[d] = l[d]
  OBVIOUS
<1> HIDE DEF m
<1>2. f \in [Classes -> Int] /\ g \in [Classes -> Int]
  <2>1. \A d \in Classes : l[d] * BlockBytes[d] \in Nat /\ m[d] * BlockBytes[d] \in Nat
    BY <1>1, Constants, ProductNotNegative
  <2> QED
    BY <2>1
<1>3. \A d \in Classes \ {c} : g[d] = f[d]
  BY <1>1
<1>4. g[c] - f[c] = n * BlockBytes[c]
  <2>1. g[c] = (l[c] + n) * BlockBytes[c] /\ f[c] = l[c] * BlockBytes[c]
    BY <1>1
  <2>2. l[c] \in Int /\ BlockBytes[c] \in Int
    BY Constants
  <2> QED
    BY <2>1, <2>2, ProductMoves
<1> HIDE DEF f, g
<1>5. SumFunction(g) = SumFunction(f) + (g[c] - f[c])
  <2>1. IsFiniteSet(Classes)
    BY ClassesFinite
  <2>2. f \in [Classes -> Int]
    BY <1>2
  <2>3. g \in [Classes -> Int]
    BY <1>2
  <2> QED
    BY <1>3, <2>1, <2>2, <2>3, SumOfChanged, ZenonT(40)
<1>6. SumFunction(g) = SumFunction(f) + n * BlockBytes[c]
  BY <1>4, <1>5
<1> QED
  BY <1>6 DEF Bytes, m, f, g

-----------------------------------------------------------------------------
(* A cache in the middle of a call *)

CountersOf(k) ==
  /\ k.currentBytes = Bytes(k.list)
  /\ k.deferredBytes = Bytes(k.deferred)
  /\ \A c \in Classes : k.count[c] = k.list[c] % CountModulus
  /\ \A c \in Classes : k.deferredCount[c] = k.deferred[c] % CountModulus

WorkingCache ==
  [list : [Classes -> Nat], count : [Classes -> 0 .. CountModulus - 1], currentBytes : Nat,
   deferred : [Classes -> Nat], deferredCount : [Classes -> 0 .. CountModulus - 1],
   deferredBytes : Nat, lastDrainClass : Classes, lastDeferredDrainClass : Classes,
   returned : [Classes -> Nat]]

(* The blocks of a class the call knows of.                                *)
Together(k, c) == k.list[c] + k.deferred[c] + k.returned[c]

(* The caches with exact counters that have b[c] blocks of each class c.   *)
Holding(b) == {k \in WorkingCache : CountersOf(k) /\ \A c \in Classes : Together(k, c) = b[c]}

(* What n blocks more or less in the free list, or in the deferred list,   *)
(* change.                                                                 *)
LEMMA PushListExact ==
  ASSUME NEW k \in WorkingCache, CountersOf(k), NEW c \in Classes, NEW n \in Int,
         k.list[c] + n \in Nat
  PROVE  /\ PushList(k, c, n) \in WorkingCache
         /\ CountersOf(PushList(k, c, n))
         /\ PushList(k, c, n).list = [k.list EXCEPT ![c] = @ + n]
         /\ PushList(k, c, n).deferred = k.deferred
         /\ PushList(k, c, n).returned = k.returned
<1> DEFINE q == PushList(k, c, n)
           l == [k.list EXCEPT ![c] = @ + n]
           m == [k.count EXCEPT ![c] = (@ + n) % CountModulus]
           bytes == k.currentBytes + n * BlockBytes[c]
<1>a. q = [k EXCEPT !.list = l, !.count = m, !.currentBytes = bytes]
  BY DEF PushList, WorkingCache
<1>b. k = [list |-> k.list, count |-> k.count, currentBytes |-> k.currentBytes,
           deferred |-> k.deferred, deferredCount |-> k.deferredCount,
           deferredBytes |-> k.deferredBytes, lastDrainClass |-> k.lastDrainClass,
           lastDeferredDrainClass |-> k.lastDeferredDrainClass, returned |-> k.returned]
  BY DEF WorkingCache
<1>1. q = [list |-> l, count |-> m, currentBytes |-> bytes, deferred |-> k.deferred,
           deferredCount |-> k.deferredCount, deferredBytes |-> k.deferredBytes,
           lastDrainClass |-> k.lastDrainClass,
           lastDeferredDrainClass |-> k.lastDeferredDrainClass, returned |-> k.returned]
  <2> HIDE DEF q, l, m, bytes
  <2> QED
    BY <1>a, <1>b
<1>2. /\ k.list \in [Classes -> Nat] /\ k.count \in [Classes -> 0 .. CountModulus - 1]
      /\ k.currentBytes = Bytes(k.list) /\ k.count[c] = k.list[c] % CountModulus
  BY DEF WorkingCache, CountersOf
<1>3. l \in [Classes -> Nat] /\ bytes = Bytes(l) /\ Bytes(l) \in Nat
  <2>1. l \in [Classes -> Nat]
    BY <1>2
  <2>2. Bytes(l) = Bytes(k.list) + n * BlockBytes[c]
    BY <1>2, BytesMove, Zenon
  <2> QED
    BY <2>1, <2>2, <1>2, BytesType
<1>4. /\ m \in [Classes -> 0 .. CountModulus - 1]
      /\ \A d \in Classes : m[d] = l[d] % CountModulus
  <2>1. k.list[c] \in Int /\ CountModulus \in Nat /\ CountModulus # 0
    BY <1>2, Constants
  <2>2. /\ ((k.list[c] % CountModulus) + n) % CountModulus = (k.list[c] + n) % CountModulus
        /\ (k.list[c] + n) % CountModulus \in 0 .. CountModulus - 1
    BY <2>1, CountMoves, Zenon
  <2>3. /\ (k.count[c] + n) % CountModulus = (k.list[c] + n) % CountModulus
        /\ (k.count[c] + n) % CountModulus \in 0 .. CountModulus - 1
    BY <2>2, <1>2, Zenon
  <2> QED
    BY <2>3, <1>2 DEF CountersOf
<1> HIDE DEF l, m, bytes
<1>5. q \in WorkingCache
  BY <1>1, <1>3, <1>4 DEF WorkingCache
<1>6. CountersOf(q)
  BY <1>1, <1>3, <1>4 DEF CountersOf
<1> QED
  BY <1>1, <1>5, <1>6 DEF l

LEMMA PushDeferredExact ==
  ASSUME NEW k \in WorkingCache, CountersOf(k), NEW c \in Classes, NEW n \in Int,
         k.deferred[c] + n \in Nat
  PROVE  /\ PushDeferred(k, c, n) \in WorkingCache
         /\ CountersOf(PushDeferred(k, c, n))
         /\ PushDeferred(k, c, n).list = k.list
         /\ PushDeferred(k, c, n).deferred = [k.deferred EXCEPT ![c] = @ + n]
         /\ PushDeferred(k, c, n).returned = k.returned
<1> DEFINE q == PushDeferred(k, c, n)
           l == [k.deferred EXCEPT ![c] = @ + n]
           m == [k.deferredCount EXCEPT ![c] = (@ + n) % CountModulus]
           bytes == k.deferredBytes + n * BlockBytes[c]
<1>a. q = [k EXCEPT !.deferred = l, !.deferredCount = m, !.deferredBytes = bytes]
  BY DEF PushDeferred, WorkingCache
<1>b. k = [list |-> k.list, count |-> k.count, currentBytes |-> k.currentBytes,
           deferred |-> k.deferred, deferredCount |-> k.deferredCount,
           deferredBytes |-> k.deferredBytes, lastDrainClass |-> k.lastDrainClass,
           lastDeferredDrainClass |-> k.lastDeferredDrainClass, returned |-> k.returned]
  BY DEF WorkingCache
<1>1. q = [list |-> k.list, count |-> k.count, currentBytes |-> k.currentBytes,
           deferred |-> l, deferredCount |-> m, deferredBytes |-> bytes,
           lastDrainClass |-> k.lastDrainClass,
           lastDeferredDrainClass |-> k.lastDeferredDrainClass, returned |-> k.returned]
  <2> HIDE DEF q, l, m, bytes
  <2> QED
    BY <1>a, <1>b
<1>2. /\ k.deferred \in [Classes -> Nat] /\ k.deferredCount \in [Classes -> 0 .. CountModulus - 1]
      /\ k.deferredBytes = Bytes(k.deferred) /\ k.deferredCount[c] = k.deferred[c] % CountModulus
  BY DEF WorkingCache, CountersOf
<1>3. l \in [Classes -> Nat] /\ bytes = Bytes(l) /\ Bytes(l) \in Nat
  <2>1. l \in [Classes -> Nat]
    BY <1>2
  <2>2. Bytes(l) = Bytes(k.deferred) + n * BlockBytes[c]
    BY <1>2, BytesMove, Zenon
  <2> QED
    BY <2>1, <2>2, <1>2, BytesType
<1>4. /\ m \in [Classes -> 0 .. CountModulus - 1]
      /\ \A d \in Classes : m[d] = l[d] % CountModulus
  <2>1. k.deferred[c] \in Int /\ CountModulus \in Nat /\ CountModulus # 0
    BY <1>2, Constants
  <2>2. /\ ((k.deferred[c] % CountModulus) + n) % CountModulus = (k.deferred[c] + n) % CountModulus
        /\ (k.deferred[c] + n) % CountModulus \in 0 .. CountModulus - 1
    BY <2>1, CountMoves, Zenon
  <2>3. /\ (k.deferredCount[c] + n) % CountModulus = (k.deferred[c] + n) % CountModulus
        /\ (k.deferredCount[c] + n) % CountModulus \in 0 .. CountModulus - 1
    BY <2>2, <1>2, Zenon
  <2> QED
    BY <2>3, <1>2 DEF CountersOf
<1> HIDE DEF l, m, bytes
<1>5. q \in WorkingCache
  BY <1>1, <1>3, <1>4 DEF WorkingCache
<1>6. CountersOf(q)
  BY <1>1, <1>3, <1>4 DEF CountersOf
<1> QED
  BY <1>1, <1>5, <1>6 DEF l


LEMMA HoldingFields ==
  ASSUME NEW b, NEW k \in Holding(b)
  PROVE  /\ k \in WorkingCache /\ CountersOf(k)
         /\ \A c \in Classes : /\ k.list[c] \in Nat /\ k.deferred[c] \in Nat /\ k.returned[c] \in Nat
                               /\ k.count[c] \in Nat /\ k.deferredCount[c] \in Nat
         /\ k.lastDrainClass \in Classes /\ k.lastDeferredDrainClass \in Classes
  BY Constants DEF Holding, WorkingCache

(* The cursors and what has been given back are no matter of the counters. *)
LEMMA ReturnExact ==
  ASSUME NEW k \in WorkingCache, CountersOf(k), NEW c \in Classes, NEW n \in Nat
  PROVE  /\ Return(k, c, n) \in WorkingCache
         /\ CountersOf(Return(k, c, n))
         /\ Return(k, c, n).list = k.list
         /\ Return(k, c, n).deferred = k.deferred
         /\ Return(k, c, n).returned = [k.returned EXCEPT ![c] = @ + n]
  BY DEF Return, WorkingCache, CountersOf

LEMMA CursorsFree ==
  ASSUME NEW b, NEW k \in Holding(b), NEW c \in Classes
  PROVE  /\ [k EXCEPT !.lastDrainClass = c] \in Holding(b)
         /\ [k EXCEPT !.lastDeferredDrainClass = c] \in Holding(b)
  BY DEF Holding, WorkingCache, CountersOf, Together

(* Blocks that go from one list to the other stay together.                *)
LEMMA RefillKeeps ==
  ASSUME NEW b, NEW k \in Holding(b), NEW c \in Classes
  PROVE  RefillFromDeferred(k, c) \in Holding(b)
<1> DEFINE n == Least(Greatest(1, RefillBatch), k.deferred[c])
           j == PushDeferred(k, c, -n)
           q == PushList(j, c, n)
<1>1. k \in WorkingCache /\ CountersOf(k) /\ k.list[c] \in Nat /\ k.deferred[c] \in Nat
  BY HoldingFields
<1>2. n \in Nat /\ n <= k.deferred[c]
  BY <1>1, Constants, LeastOf, GreatestOf
<1>3. q = RefillFromDeferred(k, c)
  BY DEF RefillFromDeferred
<1> HIDE DEF n, q
<1>4. /\ j \in WorkingCache /\ CountersOf(j) /\ j.list = k.list /\ j.returned = k.returned
      /\ j.deferred = [k.deferred EXCEPT ![c] = @ - n]
  <2>1. -n \in Int /\ k.deferred[c] + (-n) \in Nat
    BY <1>1, <1>2
  <2>2. /\ j \in WorkingCache /\ CountersOf(j) /\ j.list = k.list /\ j.returned = k.returned
        /\ j.deferred = [k.deferred EXCEPT ![c] = @ + (-n)]
    BY <1>1, <2>1, PushDeferredExact, ZenonT(40)
  <2>3. k.deferred[c] + (-n) = k.deferred[c] - n
    BY <1>1, <1>2
  <2> QED
    BY <2>2, <2>3
<1> HIDE DEF j
<1>5. /\ q \in WorkingCache /\ CountersOf(q) /\ q.deferred = j.deferred /\ q.returned = j.returned
      /\ q.list = [j.list EXCEPT ![c] = @ + n]
  <2>1. n \in Int /\ j.list[c] + n \in Nat
    BY <1>1, <1>2, <1>4
  <2>2. j \in WorkingCache /\ CountersOf(j)
    BY <1>4
  <2> QED
    BY <2>1, <2>2, PushListExact, ZenonT(40) DEF q
<1>6. \A d \in Classes : Together(q, d) = Together(k, d)
  BY <1>1, <1>2, <1>4, <1>5 DEF Together, WorkingCache
<1> QED
  BY <1>3, <1>5, <1>6 DEF Holding


LEMMA SpillKeeps ==
  ASSUME NEW b, NEW k \in Holding(b), NEW c \in Classes
  PROVE  SpillToDeferred(k, c) \in Holding(b)
<1> DEFINE n == Least(SpillCount(c), k.list[c])
           j == PushList(k, c, -n)
           q == PushDeferred(j, c, n)
<1>1. k \in WorkingCache /\ CountersOf(k) /\ k.list[c] \in Nat /\ k.deferred[c] \in Nat
  BY HoldingFields
<1>2. n \in Nat /\ n <= k.list[c]
  BY <1>1, AmountsAreNumbers, LeastOf
<1>3. q = SpillToDeferred(k, c)
  BY DEF SpillToDeferred
<1> HIDE DEF n, q
<1>4. /\ j \in WorkingCache /\ CountersOf(j) /\ j.deferred = k.deferred /\ j.returned = k.returned
      /\ j.list = [k.list EXCEPT ![c] = @ - n]
  <2>1. -n \in Int /\ k.list[c] + (-n) \in Nat
    BY <1>1, <1>2
  <2>2. /\ j \in WorkingCache /\ CountersOf(j) /\ j.deferred = k.deferred /\ j.returned = k.returned
        /\ j.list = [k.list EXCEPT ![c] = @ + (-n)]
    BY <1>1, <2>1, PushListExact, ZenonT(40)
  <2>3. k.list[c] + (-n) = k.list[c] - n
    BY <1>1, <1>2
  <2> QED
    BY <2>2, <2>3
<1> HIDE DEF j
<1>5. /\ q \in WorkingCache /\ CountersOf(q) /\ q.list = j.list /\ q.returned = j.returned
      /\ q.deferred = [j.deferred EXCEPT ![c] = @ + n]
  <2>1. n \in Int /\ j.deferred[c] + n \in Nat
    BY <1>1, <1>2, <1>4
  <2>2. j \in WorkingCache /\ CountersOf(j)
    BY <1>4
  <2> QED
    BY <2>1, <2>2, PushDeferredExact, ZenonT(40) DEF q
<1>6. \A d \in Classes : Together(q, d) = Together(k, d)
  BY <1>1, <1>2, <1>4, <1>5 DEF Together, WorkingCache
<1> QED
  BY <1>3, <1>5, <1>6 DEF Holding

(* Blocks that are drained are given back; the rest stays.                 *)
LEMMA DrainDeferredClassKeeps ==
  ASSUME NEW b, NEW k \in Holding(b), NEW c \in Classes, NEW requested \in Nat
  PROVE  /\ DrainDeferredClass(k, c, requested) \in Holding(b)
         /\ DrainDeferredClass(k, c, requested).list = k.list
         /\ DrainDeferredClass(k, c, requested).deferred
              = [k.deferred EXCEPT ![c] = @ - Least(requested, @)]
<1> DEFINE n == Least(requested, k.deferred[c])
           j == PushDeferred(k, c, -n)
           q == Return(j, c, n)
<1>1. k \in WorkingCache /\ CountersOf(k) /\ k.list[c] \in Nat /\ k.deferred[c] \in Nat
  BY HoldingFields
<1>2. n \in Nat /\ n <= k.deferred[c]
  BY <1>1, LeastOf
<1>3. q = DrainDeferredClass(k, c, requested)
  BY DEF DrainDeferredClass
<1>4. n = Least(requested, k.deferred[c])
  OBVIOUS
<1> HIDE DEF n, q
<1>5. /\ j \in WorkingCache /\ CountersOf(j) /\ j.list = k.list /\ j.returned = k.returned
      /\ j.deferred = [k.deferred EXCEPT ![c] = @ - n]
  <2>1. -n \in Int /\ k.deferred[c] + (-n) \in Nat
    BY <1>1, <1>2
  <2>2. /\ j \in WorkingCache /\ CountersOf(j) /\ j.list = k.list /\ j.returned = k.returned
        /\ j.deferred = [k.deferred EXCEPT ![c] = @ + (-n)]
    BY <1>1, <2>1, PushDeferredExact, ZenonT(40)
  <2>3. k.deferred[c] + (-n) = k.deferred[c] - n
    BY <1>1, <1>2
  <2> QED
    BY <2>2, <2>3
<1> HIDE DEF j
<1>6. /\ q \in WorkingCache /\ CountersOf(q) /\ q.list = j.list /\ q.deferred = j.deferred
      /\ q.returned = [j.returned EXCEPT ![c] = @ + n]
  <2>1. j \in WorkingCache /\ CountersOf(j)
    BY <1>5
  <2> QED
    BY <1>2, <2>1, ReturnExact, ZenonT(40) DEF q
<1>7. \A d \in Classes : Together(q, d) = Together(k, d)
  BY <1>1, <1>2, <1>5, <1>6 DEF Together, WorkingCache
<1>8. q.list = k.list /\ q.deferred = [k.deferred EXCEPT ![c] = @ - Least(requested, @)]
  BY <1>4, <1>5, <1>6
<1> QED
  BY <1>3, <1>6, <1>7, <1>8 DEF Holding

LEMMA DrainClassKeeps ==
  ASSUME NEW b, NEW k \in Holding(b), NEW c \in Classes, NEW requested \in Nat
  PROVE  /\ DrainClass(k, c, requested) \in Holding(b)
         /\ DrainClass(k, c, requested).list = [k.list EXCEPT ![c] = @ - Least(requested, @)]
         /\ DrainClass(k, c, requested).deferred = k.deferred
<1> DEFINE n == Least(requested, k.list[c])
           j == PushList(k, c, -n)
           q == Return(j, c, n)
<1>1. k \in WorkingCache /\ CountersOf(k) /\ k.list[c] \in Nat /\ k.deferred[c] \in Nat
  BY HoldingFields
<1>2. n \in Nat /\ n <= k.list[c]
  BY <1>1, LeastOf
<1>3. q = DrainClass(k, c, requested)
  BY DEF DrainClass
<1>4. n = Least(requested, k.list[c])
  OBVIOUS
<1> HIDE DEF n, q
<1>5. /\ j \in WorkingCache /\ CountersOf(j) /\ j.deferred = k.deferred /\ j.returned = k.returned
      /\ j.list = [k.list EXCEPT ![c] = @ - n]
  <2>1. -n \in Int /\ k.list[c] + (-n) \in Nat
    BY <1>1, <1>2
  <2>2. /\ j \in WorkingCache /\ CountersOf(j) /\ j.deferred = k.deferred /\ j.returned = k.returned
        /\ j.list = [k.list EXCEPT ![c] = @ + (-n)]
    BY <1>1, <2>1, PushListExact, ZenonT(40)
  <2>3. k.list[c] + (-n) = k.list[c] - n
    BY <1>1, <1>2
  <2> QED
    BY <2>2, <2>3
<1> HIDE DEF j
<1>6. /\ q \in WorkingCache /\ CountersOf(q) /\ q.list = j.list /\ q.deferred = j.deferred
      /\ q.returned = [j.returned EXCEPT ![c] = @ + n]
  <2>1. j \in WorkingCache /\ CountersOf(j)
    BY <1>5
  <2> QED
    BY <1>2, <2>1, ReturnExact, ZenonT(40) DEF q
<1>7. \A d \in Classes : Together(q, d) = Together(k, d)
  BY <1>1, <1>2, <1>5, <1>6 DEF Together, WorkingCache
<1>8. q.deferred = k.deferred /\ q.list = [k.list EXCEPT ![c] = @ - Least(requested, @)]
  BY <1>4, <1>5, <1>6
<1> QED
  BY <1>3, <1>6, <1>7, <1>8 DEF Holding

(* A batch is one drain of a class that has something, or nothing.         *)
LEMMA FirstIsClass ==
  ASSUME NEW S \in SUBSET Classes, S # {}, NEW at \in Classes
  PROVE  FirstFrom(S, at) \in S
<1> DEFINE Distance(c) == (c - at) % NumSizeClasses
           T == {Distance(c) : c \in S}
<1>1. \A n \in Nat \ {0}, p \in Int : p % n \in Nat
  BY SMT
<1>2. NumSizeClasses \in Nat \ {0} /\ \A c \in S : c - at \in Int
  BY Constants, ClassesFinite
<1>3. \A c \in S : Distance(c) \in Nat
  BY <1>1, <1>2
<1> HIDE DEF Distance
<1>4. T \in SUBSET Nat /\ T # {}
  BY <1>3
<1>5. PICK n \in T : \A m \in T : n <= m
  <2> HIDE DEF T
  <2> QED
    BY <1>4, LeastNumber, Zenon
<1>6. PICK c \in S : n = Distance(c)
  OBVIOUS
<1>7. \A d \in S : Distance(c) <= Distance(d)
  BY <1>5, <1>6
<1> QED
  BY <1>7 DEF FirstFrom, Distance

LEMMA DrainDeferredBatchKeeps ==
  ASSUME NEW b, NEW k \in Holding(b)
  PROVE  DrainDeferredBatch(k) \in Holding(b)
<1> DEFINE waiting == {c \in Classes : k.deferred[c] > 0}
           c == FirstFrom(waiting, k.lastDeferredDrainClass)
           n == Least(k.deferredCount[c], DrainBatch)
           q == DrainDeferredClass(k, c, n)
<1>1. CASE OverBudget(k) /\ waiting # {}
  <2>1. waiting \in SUBSET Classes /\ waiting # {} /\ k.lastDeferredDrainClass \in Classes
    BY <1>1, HoldingFields
  <2>2. c \in Classes
    BY <2>1, FirstIsClass
  <2>3. DrainDeferredBatch(k) = [q EXCEPT !.lastDeferredDrainClass = (c + 1) % NumSizeClasses]
    BY <1>1 DEF DrainDeferredBatch
  <2> HIDE DEF c
  <2>4. n \in Nat
    BY <2>2, HoldingFields, AmountsAreNumbers, LeastOf
  <2> HIDE DEF n
  <2>5. q \in Holding(b)
    BY <2>2, <2>4, DrainDeferredClassKeeps, Zenon
  <2> QED
    BY <2>2, <2>3, <2>5, ClassAfter, CursorsFree
<1>2. CASE ~ (OverBudget(k) /\ waiting # {})
  BY <1>2 DEF DrainDeferredBatch
<1> QED
  BY <1>1, <1>2

LEMMA TrimBatchKeeps ==
  ASSUME NEW b, NEW k \in Holding(b)
  PROVE  TrimBatch(k) \in Holding(b)
<1> DEFINE c == FirstFrom(Trimmable(k), k.lastDrainClass)
           n == Least(k.count[c], DrainChunk)
           q == DrainClass(k, c, n)
<1>1. CASE k.currentBytes > TargetBytes /\ Trimmable(k) # {}
  <2>1. Trimmable(k) \in SUBSET Classes /\ Trimmable(k) # {} /\ k.lastDrainClass \in Classes
    BY <1>1, HoldingFields DEF Trimmable
  <2>2. c \in Classes
    BY <2>1, FirstIsClass
  <2>3. TrimBatch(k) = [q EXCEPT !.lastDrainClass = (c + 1) % NumSizeClasses]
    BY <1>1 DEF TrimBatch
  <2> HIDE DEF c
  <2>4. n \in Nat
    BY <2>2, HoldingFields, AmountsAreNumbers, LeastOf
  <2> HIDE DEF n
  <2>5. q \in Holding(b)
    BY <2>2, <2>4, DrainClassKeeps, Zenon
  <2> QED
    BY <2>2, <2>3, <2>5, ClassAfter, CursorsFree
<1>2. CASE ~ (k.currentBytes > TargetBytes /\ Trimmable(k) # {})
  BY <1>2 DEF TrimBatch
<1> QED
  BY <1>1, <1>2


-----------------------------------------------------------------------------
(* Loops over the batches and over the classes *)

LEMMA DrainDeferredKeeps ==
  ASSUME NEW b, NEW k \in Holding(b)
  PROVE  DrainDeferred(k) \in Holding(b)
<1> DEFINE Loop(d) == [n \in 0 .. MaxBatches |-> IF n = 0 THEN k ELSE DrainDeferredBatch(d[n - 1])]
           done == CHOOSE d : d = Loop(d)
           G == [x \in Holding(b) \X Nat |-> DrainDeferredBatch(x[1])]
           I == {n \in 0 .. MaxBatches : done[n] \in Holding(b)}
<1>1. MaxBatches \in Nat
  BY AmountsAreNumbers
<1>2. \E d : d = Loop(d)
  <2>1. G \in [Holding(b) \X Nat -> Holding(b)]
    BY DrainDeferredBatchKeeps
  <2>2. \A x \in Holding(b), n \in Nat : G[<<x, n>>] = DrainDeferredBatch(x)
    OBVIOUS
  <2> HIDE DEF G
  <2>3. PICK d \in [0 .. MaxBatches -> Holding(b)] : IsLoop(d, k, G, MaxBatches)
    BY <1>1, <2>1, LoopExists, Zenon
  <2>4. \A n \in 0 .. MaxBatches : n # 0 => G[<<d[n - 1], n - 1>>] = DrainDeferredBatch(d[n - 1])
    BY <1>1, <2>2
  <2>5. d = Loop(d)
    BY <2>3, <2>4 DEF IsLoop
  <2> QED
    BY <2>5
<1>3. done = Loop(done)
  BY <1>2
<1>4. DrainDeferred(k) = done[MaxBatches]
  BY DEF DrainDeferred, InBatches
<1> HIDE DEF done
<1>5. 0 \in I
  BY <1>1, <1>3
<1>6. \A n \in 0 .. MaxBatches : n # MaxBatches /\ n \in I => n + 1 \in I
  <2> SUFFICES ASSUME NEW n \in 0 .. MaxBatches, n # MaxBatches, n \in I PROVE n + 1 \in I
    OBVIOUS
  <2>1. n + 1 \in 0 .. MaxBatches /\ n + 1 # 0 /\ (n + 1) - 1 = n
    BY <1>1
  <2>2. done[n + 1] = DrainDeferredBatch(done[n])
    BY <1>3, <2>1
  <2> QED
    BY <2>1, <2>2, DrainDeferredBatchKeeps
<1>7. 0 .. MaxBatches \subseteq I
  <2> HIDE DEF I
  <2> QED
    BY <1>1, <1>5, <1>6, LoopInvariant
<1>8. MaxBatches \in 0 .. MaxBatches
  BY <1>1
<1> QED
  BY <1>4, <1>7, <1>8


LEMMA TrimBatchesKeep ==
  ASSUME NEW b, NEW k \in Holding(b)
  PROVE  InBatches(TrimBatch, k) \in Holding(b)
<1> DEFINE Loop(d) == [n \in 0 .. MaxBatches |-> IF n = 0 THEN k ELSE TrimBatch(d[n - 1])]
           done == CHOOSE d : d = Loop(d)
           G == [x \in Holding(b) \X Nat |-> TrimBatch(x[1])]
           I == {n \in 0 .. MaxBatches : done[n] \in Holding(b)}
<1>1. MaxBatches \in Nat
  BY AmountsAreNumbers
<1>2. \E d : d = Loop(d)
  <2>1. G \in [Holding(b) \X Nat -> Holding(b)]
    BY TrimBatchKeeps
  <2>2. \A x \in Holding(b), n \in Nat : G[<<x, n>>] = TrimBatch(x)
    OBVIOUS
  <2> HIDE DEF G
  <2>3. PICK d \in [0 .. MaxBatches -> Holding(b)] : IsLoop(d, k, G, MaxBatches)
    BY <1>1, <2>1, LoopExists, Zenon
  <2>4. \A n \in 0 .. MaxBatches : n # 0 => G[<<d[n - 1], n - 1>>] = TrimBatch(d[n - 1])
    BY <1>1, <2>2
  <2>5. d = Loop(d)
    BY <2>3, <2>4 DEF IsLoop
  <2> QED
    BY <2>5
<1>3. done = Loop(done)
  BY <1>2
<1>4. InBatches(TrimBatch, k) = done[MaxBatches]
  BY DEF InBatches
<1> HIDE DEF done
<1>5. 0 \in I
  BY <1>1, <1>3
<1>6. \A n \in 0 .. MaxBatches : n # MaxBatches /\ n \in I => n + 1 \in I
  <2> SUFFICES ASSUME NEW n \in 0 .. MaxBatches, n # MaxBatches, n \in I PROVE n + 1 \in I
    OBVIOUS
  <2>1. n + 1 \in 0 .. MaxBatches /\ n + 1 # 0 /\ (n + 1) - 1 = n
    BY <1>1
  <2>2. done[n + 1] = TrimBatch(done[n])
    BY <1>3, <2>1
  <2> QED
    BY <2>1, <2>2, TrimBatchKeeps
<1>7. 0 .. MaxBatches \subseteq I
  <2> HIDE DEF I
  <2> QED
    BY <1>1, <1>5, <1>6, LoopInvariant
<1>8. MaxBatches \in 0 .. MaxBatches
  BY <1>1
<1> QED
  BY <1>4, <1>7, <1>8

(* After a drain of every class no deferred list has blocks that its count *)
(* knew of.                                                                *)
LEMMA DrainAllDeferredKeeps ==
  ASSUME NEW b, NEW k \in Holding(b)
  PROVE  /\ DrainAllDeferred(k) \in Holding(b)
         /\ DrainAllDeferred(k).list = k.list
         /\ \A c \in Classes : k.deferred[c] < CountModulus => DrainAllDeferred(k).deferred[c] = 0
<1> DEFINE step(j, c) == DrainDeferredClass(j, c, j.deferredCount[c])
           Loop(d) == [n \in 0 .. NumSizeClasses |-> IF n = 0 THEN k ELSE step(d[n - 1], n - 1)]
           done == CHOOSE d : d = Loop(d)
           G == [x \in Holding(b) \X Nat |-> IF x[2] \in Classes THEN step(x[1], x[2]) ELSE x[1]]
           Drained(j, n) == /\ j \in Holding(b)
                            /\ j.list = k.list
                            /\ \A c \in Classes : IF c < n THEN k.deferred[c] < CountModulus => j.deferred[c] = 0
                                                  ELSE j.deferred[c] = k.deferred[c]
           I == {n \in 0 .. NumSizeClasses : Drained(done[n], n)}
<1>1. NumSizeClasses \in Nat /\ \A n \in 0 .. NumSizeClasses : n # 0 => n - 1 \in Classes
  BY Constants DEF Classes
<1>2. \A j \in Holding(b), c \in Classes :
        /\ step(j, c) \in Holding(b)
        /\ step(j, c).list = j.list
        /\ step(j, c).deferred = [j.deferred EXCEPT ![c] = @ - Least(j.deferredCount[c], @)]
  BY HoldingFields, DrainDeferredClassKeeps
<1>3. ASSUME NEW j \in Holding(b), NEW c \in Classes
      PROVE  /\ j.deferred[c] \in Nat
             /\ step(j, c).deferred = [j.deferred EXCEPT ![c] = @ - Least(@ % CountModulus, @)]
  <2>1. j.deferred[c] \in Nat /\ j.deferredCount[c] = j.deferred[c] % CountModulus
    BY <1>3, HoldingFields DEF CountersOf
  <2>2. step(j, c).deferred = [j.deferred EXCEPT ![c] = @ - Least(j.deferredCount[c], @)]
    BY <1>2, <1>3
  <2> HIDE DEF step
  <2> QED
    BY <2>1, <2>2
<1> HIDE DEF step
<1>4. \E d : d = Loop(d)
  <2>1. G \in [Holding(b) \X Nat -> Holding(b)]
    BY <1>2
  <2>2. \A x \in Holding(b), c \in Classes : G[<<x, c>>] = step(x, c)
    BY ClassesFinite
  <2> HIDE DEF G
  <2>3. PICK d \in [0 .. NumSizeClasses -> Holding(b)] : IsLoop(d, k, G, NumSizeClasses)
    BY <1>1, <2>1, LoopExists, Zenon
  <2>4. \A n \in 0 .. NumSizeClasses : n # 0 => G[<<d[n - 1], n - 1>>] = step(d[n - 1], n - 1)
    BY <1>1, <2>2
  <2>5. d = Loop(d)
    BY <2>3, <2>4 DEF IsLoop
  <2> QED
    BY <2>5
<1>5. done = Loop(done)
  BY <1>4
<1>6. DrainAllDeferred(k) = done[NumSizeClasses]
  BY DEF DrainAllDeferred, ForEachClass, step
<1> HIDE DEF done
<1>7. 0 \in I
  <2>1. done[0] = k
    BY <1>1, <1>5
  <2> QED
    BY <2>1, <1>1, ClassesFinite
<1>8. ASSUME NEW n \in 0 .. NumSizeClasses, n # NumSizeClasses, n \in I PROVE n + 1 \in I
  <2>1. n + 1 \in 0 .. NumSizeClasses /\ n + 1 # 0 /\ (n + 1) - 1 = n /\ n \in Classes
    BY <1>1, <1>8
  <2>2. done[n + 1] = step(done[n], n)
    BY <1>5, <2>1
  <2> DEFINE j == done[n]
             q == done[n + 1]
  <2>3. j \in Holding(b) /\ j.list = k.list
    BY <1>8
  <2>4. \A c \in Classes : IF c < n THEN k.deferred[c] < CountModulus => j.deferred[c] = 0
                           ELSE j.deferred[c] = k.deferred[c]
    BY <1>8
  <2>5. q \in Holding(b) /\ q.list = j.list
    <3>1. q = step(j, n)
      BY <2>2
    <3> HIDE DEF j, q
    <3> QED
      BY <1>2, <2>1, <2>3, <3>1
  <2>6. q.deferred = [j.deferred EXCEPT ![n] = @ - Least(@ % CountModulus, @)]
    BY <1>3, <2>1, <2>2, <2>3
  <2>7. j.deferred \in [Classes -> Nat]
    BY <2>3 DEF Holding, WorkingCache
  <2> HIDE DEF j, q
  <2>8. \A c \in Classes \ {n} : q.deferred[c] = j.deferred[c]
    BY <2>6, <2>7
  <2>9. k.deferred[n] < CountModulus => q.deferred[n] = 0
    <3>1. q.deferred[n] = j.deferred[n] - Least(j.deferred[n] % CountModulus, j.deferred[n])
      BY <2>1, <2>6, <2>7
    <3>2. j.deferred[n] = k.deferred[n] /\ j.deferred[n] \in Nat
      BY <2>1, <2>4, <2>7
    <3>3. \A a \in Nat, m \in Nat : a < m => a % m = a
      BY SMT
    <3> QED
      BY <3>1, <3>2, <3>3, Constants DEF Least
  <2>10. \A c \in Classes : IF c < n + 1 THEN k.deferred[c] < CountModulus => q.deferred[c] = 0
                            ELSE q.deferred[c] = k.deferred[c]
    BY <2>1, <2>4, <2>8, <2>9, ClassesFinite
  <2> QED
    BY <2>1, <2>3, <2>5, <2>10 DEF q, j
<1>9. 0 .. NumSizeClasses \subseteq I
  <2> HIDE DEF I
  <2> QED
    BY <1>1, <1>7, <1>8, LoopInvariant
<1>10. NumSizeClasses \in 0 .. NumSizeClasses /\ \A c \in Classes : c < NumSizeClasses
  BY <1>1 DEF Classes
<1> QED
  BY <1>6, <1>9, <1>10

(* The same for the free lists.                                            *)
LEMMA DrainAllListsKeeps ==
  ASSUME NEW b, NEW k \in Holding(b)
  PROVE  /\ DrainAllLists(k) \in Holding(b)
         /\ DrainAllLists(k).deferred = k.deferred
         /\ \A c \in Classes : k.list[c] < CountModulus => DrainAllLists(k).list[c] = 0
<1> DEFINE step(j, c) == DrainClass(j, c, j.count[c])
           Loop(d) == [n \in 0 .. NumSizeClasses |-> IF n = 0 THEN k ELSE step(d[n - 1], n - 1)]
           done == CHOOSE d : d = Loop(d)
           G == [x \in Holding(b) \X Nat |-> IF x[2] \in Classes THEN step(x[1], x[2]) ELSE x[1]]
           Drained(j, n) == /\ j \in Holding(b)
                            /\ j.deferred = k.deferred
                            /\ \A c \in Classes : IF c < n THEN k.list[c] < CountModulus => j.list[c] = 0
                                                  ELSE j.list[c] = k.list[c]
           I == {n \in 0 .. NumSizeClasses : Drained(done[n], n)}
<1>1. NumSizeClasses \in Nat /\ \A n \in 0 .. NumSizeClasses : n # 0 => n - 1 \in Classes
  BY Constants DEF Classes
<1>2. \A j \in Holding(b), c \in Classes :
        /\ step(j, c) \in Holding(b)
        /\ step(j, c).deferred = j.deferred
        /\ step(j, c).list = [j.list EXCEPT ![c] = @ - Least(j.count[c], @)]
  BY HoldingFields, DrainClassKeeps
<1>3. ASSUME NEW j \in Holding(b), NEW c \in Classes
      PROVE  /\ j.list[c] \in Nat
             /\ step(j, c).list = [j.list EXCEPT ![c] = @ - Least(@ % CountModulus, @)]
  <2>1. j.list[c] \in Nat /\ j.count[c] = j.list[c] % CountModulus
    BY <1>3, HoldingFields DEF CountersOf
  <2>2. step(j, c).list = [j.list EXCEPT ![c] = @ - Least(j.count[c], @)]
    BY <1>2, <1>3
  <2> HIDE DEF step
  <2> QED
    BY <2>1, <2>2
<1> HIDE DEF step
<1>4. \E d : d = Loop(d)
  <2>1. G \in [Holding(b) \X Nat -> Holding(b)]
    BY <1>2
  <2>2. \A x \in Holding(b), c \in Classes : G[<<x, c>>] = step(x, c)
    BY ClassesFinite
  <2> HIDE DEF G
  <2>3. PICK d \in [0 .. NumSizeClasses -> Holding(b)] : IsLoop(d, k, G, NumSizeClasses)
    BY <1>1, <2>1, LoopExists, Zenon
  <2>4. \A n \in 0 .. NumSizeClasses : n # 0 => G[<<d[n - 1], n - 1>>] = step(d[n - 1], n - 1)
    BY <1>1, <2>2
  <2>5. d = Loop(d)
    BY <2>3, <2>4 DEF IsLoop
  <2> QED
    BY <2>5
<1>5. done = Loop(done)
  BY <1>4
<1>6. DrainAllLists(k) = done[NumSizeClasses]
  BY DEF DrainAllLists, ForEachClass, step
<1> HIDE DEF done
<1>7. 0 \in I
  <2>1. done[0] = k
    BY <1>1, <1>5
  <2> QED
    BY <2>1, <1>1, ClassesFinite
<1>8. ASSUME NEW n \in 0 .. NumSizeClasses, n # NumSizeClasses, n \in I PROVE n + 1 \in I
  <2>1. n + 1 \in 0 .. NumSizeClasses /\ n + 1 # 0 /\ (n + 1) - 1 = n /\ n \in Classes
    BY <1>1, <1>8
  <2>2. done[n + 1] = step(done[n], n)
    BY <1>5, <2>1
  <2> DEFINE j == done[n]
             q == done[n + 1]
  <2>3. j \in Holding(b) /\ j.deferred = k.deferred
    BY <1>8
  <2>4. \A c \in Classes : IF c < n THEN k.list[c] < CountModulus => j.list[c] = 0
                           ELSE j.list[c] = k.list[c]
    BY <1>8
  <2>5. q \in Holding(b) /\ q.deferred = j.deferred
    <3>1. q = step(j, n)
      BY <2>2
    <3> HIDE DEF j, q
    <3> QED
      BY <1>2, <2>1, <2>3, <3>1
  <2>6. q.list = [j.list EXCEPT ![n] = @ - Least(@ % CountModulus, @)]
    BY <1>3, <2>1, <2>2, <2>3
  <2>7. j.list \in [Classes -> Nat]
    BY <2>3 DEF Holding, WorkingCache
  <2> HIDE DEF j, q
  <2>8. \A c \in Classes \ {n} : q.list[c] = j.list[c]
    BY <2>6, <2>7
  <2>9. k.list[n] < CountModulus => q.list[n] = 0
    <3>1. q.list[n] = j.list[n] - Least(j.list[n] % CountModulus, j.list[n])
      BY <2>1, <2>6, <2>7
    <3>2. j.list[n] = k.list[n] /\ j.list[n] \in Nat
      BY <2>1, <2>4, <2>7
    <3>3. \A a \in Nat, m \in Nat : a < m => a % m = a
      BY SMT
    <3> QED
      BY <3>1, <3>2, <3>3, Constants DEF Least
  <2>10. \A c \in Classes : IF c < n + 1 THEN k.list[c] < CountModulus => q.list[c] = 0
                            ELSE q.list[c] = k.list[c]
    BY <2>1, <2>4, <2>8, <2>9, ClassesFinite
  <2> QED
    BY <2>1, <2>3, <2>5, <2>10 DEF q, j
<1>9. 0 .. NumSizeClasses \subseteq I
  <2> HIDE DEF I
  <2> QED
    BY <1>1, <1>7, <1>8, LoopInvariant
<1>10. NumSizeClasses \in 0 .. NumSizeClasses /\ \A c \in Classes : c < NumSizeClasses
  BY <1>1 DEF Classes
<1> QED
  BY <1>6, <1>9, <1>10


-----------------------------------------------------------------------------
(* Calls *)

(* What a cache has of each class.                                         *)
Own(k) == [c \in Classes |-> k.list[c] + k.deferred[c]]

LEMMA CachesWork ==
  ASSUME CountersExact, NEW t \in Threads
  PROVE  cache[t] \in Holding(Own(cache[t])) /\ Own(cache[t]) \in [Classes -> Nat]
<1>1. cache[t] \in Cache
  BY DEF CountersExact, TypeOK
<1>2. CountersOf(cache[t])
  BY DEF CountersExact, CountersOf
<1>3. cache[t] \in WorkingCache /\ cache[t].returned = NoBlocks
  <2>1. NoBlocks \in [Classes -> Nat]
    BY DEF NoBlocks
  <2> QED
    BY <1>1, <2>1 DEF Cache, WorkingCache
<1>4. \A c \in Classes : cache[t].list[c] \in Nat /\ cache[t].deferred[c] \in Nat
  BY <1>1 DEF Cache
<1> QED
  BY <1>2, <1>3, <1>4 DEF Holding, Together, Own, NoBlocks

LEMMA PushListHolds ==
  ASSUME NEW b \in [Classes -> Int], NEW k \in Holding(b), NEW c \in Classes, NEW n \in Int,
         k.list[c] + n \in Nat
  PROVE  PushList(k, c, n) \in Holding([b EXCEPT ![c] = @ + n])
<1> DEFINE q == PushList(k, c, n)
<1>1. k \in WorkingCache /\ CountersOf(k)
  BY HoldingFields
<1>2. /\ q \in WorkingCache /\ CountersOf(q)
      /\ q.list = [k.list EXCEPT ![c] = @ + n] /\ q.deferred = k.deferred /\ q.returned = k.returned
  BY <1>1, PushListExact, ZenonT(40)
<1> HIDE DEF q
<1>3. \A d \in Classes : Together(k, d) = b[d]
  BY DEF Holding
<1>4. \A d \in Classes : Together(q, d) = [b EXCEPT ![c] = @ + n][d]
  BY <1>1, <1>2, <1>3 DEF Together, WorkingCache
<1> QED
  BY <1>2, <1>4 DEF Holding, q

LEMMA PushDeferredHolds ==
  ASSUME NEW b \in [Classes -> Int], NEW k \in Holding(b), NEW c \in Classes, NEW n \in Int,
         k.deferred[c] + n \in Nat
  PROVE  PushDeferred(k, c, n) \in Holding([b EXCEPT ![c] = @ + n])
<1> DEFINE q == PushDeferred(k, c, n)
<1>1. k \in WorkingCache /\ CountersOf(k)
  BY HoldingFields
<1>2. /\ q \in WorkingCache /\ CountersOf(q)
      /\ q.list = k.list /\ q.deferred = [k.deferred EXCEPT ![c] = @ + n] /\ q.returned = k.returned
  BY <1>1, PushDeferredExact, ZenonT(40)
<1> HIDE DEF q
<1>3. \A d \in Classes : Together(k, d) = b[d]
  BY DEF Holding
<1>4. \A d \in Classes : Together(q, d) = [b EXCEPT ![c] = @ + n][d]
  BY <1>1, <1>2, <1>3 DEF Together, WorkingCache
<1> QED
  BY <1>2, <1>4 DEF Holding, q

(* The cache once what it returns has been handed to the central pool.     *)
LEMMA Emptied ==
  ASSUME NEW b, NEW k \in Holding(b)
  PROVE  /\ [k EXCEPT !.returned = NoBlocks] \in Cache
         /\ CountersOf([k EXCEPT !.returned = NoBlocks])
         /\ [k EXCEPT !.returned = NoBlocks].list = k.list
         /\ [k EXCEPT !.returned = NoBlocks].deferred = k.deferred
  BY DEF Holding, WorkingCache, Cache, CountersOf

LEMMA FreshExact == Fresh \in Cache /\ CountersOf(Fresh) /\ Fresh \in WorkingCache
<1>1. NoBlocks \in [Classes -> Nat] /\ NoBlocks \in [Classes -> 0 .. CountModulus - 1]
  BY Constants DEF NoBlocks
<1>2. 0 % CountModulus = 0
  BY Constants, SMT
<1> QED
  BY <1>1, <1>2, BytesOfNothing, ClassesFinite DEF Fresh, Cache, WorkingCache, CountersOf, NoBlocks

(* A call of t that leaves k keeps every block and the exact counters.     *)
Keeps(t) ==
  /\ cache' \in [Threads -> Cache]
  /\ central' \in [Classes -> Nat]
  /\ held' \in [Classes -> Nat]
  /\ CountersOf(cache'[t])
  /\ \A u \in Threads \ {t} : cache'[u] = cache[u]
  /\ \A c \in Classes :
       central'[c] + held'[c] + (cache'[t].list[c] + cache'[t].deferred[c])
         = central[c] + held[c] + (cache[t].list[c] + cache[t].deferred[c])

LEMMA FinishKeeps ==
  ASSUME CountersExact, NEW t \in Threads, NEW b \in [Classes -> Int], NEW k \in Holding(b),
         Finish(t, k), held' \in [Classes -> Nat],
         \A c \in Classes : b[c] + held'[c] = Own(cache[t])[c] + held[c]
  PROVE  Keeps(t)
<1> DEFINE e == [k EXCEPT !.returned = NoBlocks]
<1>1. e \in Cache /\ CountersOf(e) /\ e.list = k.list /\ e.deferred = k.deferred
  BY Emptied, Zenon
<1>2. cache' = [cache EXCEPT ![t] = e]
  BY DEF Finish
<1> HIDE DEF e
<1>3. cache \in [Threads -> Cache] /\ central \in [Classes -> Nat] /\ held \in [Classes -> Nat]
  BY DEF CountersExact, TypeOK
<1>4. cache' \in [Threads -> Cache] /\ cache'[t] = e /\ \A u \in Threads \ {t} : cache'[u] = cache[u]
  BY <1>1, <1>2, <1>3
<1>5. \A c \in Classes : k.returned[c] \in Nat /\ k.list[c] \in Nat /\ k.deferred[c] \in Nat
  BY HoldingFields
<1>6. central' = [c \in Classes |-> central[c] + k.returned[c]]
  BY DEF Finish
<1>7. central' \in [Classes -> Nat]
  BY <1>3, <1>5, <1>6
<1>8. \A c \in Classes : k.list[c] + k.deferred[c] + k.returned[c] = b[c]
  BY DEF Holding, Together
<1>9. \A c \in Classes :
        central'[c] + held'[c] + (cache'[t].list[c] + cache'[t].deferred[c])
          = central[c] + held[c] + (cache[t].list[c] + cache[t].deferred[c])
  <2> SUFFICES ASSUME NEW c \in Classes
               PROVE  central'[c] + held'[c] + (cache'[t].list[c] + cache'[t].deferred[c])
                        = central[c] + held[c] + (cache[t].list[c] + cache[t].deferred[c])
    OBVIOUS
  <2>1. central'[c] = central[c] + k.returned[c]
    BY <1>6
  <2>2. cache'[t].list[c] = k.list[c] /\ cache'[t].deferred[c] = k.deferred[c]
    BY <1>1, <1>4
  <2>3. b[c] + held'[c] = (cache[t].list[c] + cache[t].deferred[c]) + held[c]
    BY DEF Own
  <2>4. /\ central[c] \in Nat /\ held[c] \in Nat /\ held'[c] \in Nat /\ b[c] \in Int
        /\ cache[t].list[c] \in Nat /\ cache[t].deferred[c] \in Nat
    BY <1>3 DEF Cache
  <2>5. /\ k.list[c] \in Nat /\ k.deferred[c] \in Nat /\ k.returned[c] \in Nat
        /\ k.list[c] + k.deferred[c] + k.returned[c] = b[c]
    BY <1>5, <1>8
  <2>6. central'[c] + held'[c] + (k.list[c] + k.deferred[c])
          = central[c] + held[c] + (cache[t].list[c] + cache[t].deferred[c])
    <3>1. (k.list[c] + k.deferred[c] + k.returned[c]) + held'[c]
            = (cache[t].list[c] + cache[t].deferred[c]) + held[c]
      BY <2>3, <2>5
    <3> DEFINE x == central[c]
               h == held[c]
               g == held'[c]
               l == k.list[c]
               d == k.deferred[c]
               r == k.returned[c]
               a == cache[t].list[c] + cache[t].deferred[c]
    <3>2. /\ x \in Int /\ h \in Int /\ g \in Int /\ l \in Int /\ d \in Int /\ r \in Int /\ a \in Int
          /\ (l + d + r) + g = a + h
      BY <2>4, <2>5, <3>1
    <3> HIDE DEF x, h, g, l, d, r, a
    <3>3. (x + r) + g + (l + d) = x + h + a
      BY <3>2
    <3> QED
      BY <2>1, <3>3 DEF x, h, g, l, d, r, a
  <2> QED
    BY <2>2, <2>6
<1> QED
  BY <1>1, <1>4, <1>7, <1>9 DEF Keeps


LEMMA Moved ==
  ASSUME NEW b \in [Classes -> Int], NEW c \in Classes, NEW n \in Int
  PROVE  /\ [b EXCEPT ![c] = @ + n] \in [Classes -> Int]
         /\ [b EXCEPT ![c] = @ + n][c] = b[c] + n
         /\ \A d \in Classes \ {c} : [b EXCEPT ![c] = @ + n][d] = b[d]
  OBVIOUS

LEMMA HeldMoves ==
  ASSUME CountersExact, NEW c \in Classes, NEW n \in Int, held[c] + n \in Nat,
         held' = [held EXCEPT ![c] = @ + n]
  PROVE  /\ held' \in [Classes -> Nat]
         /\ held'[c] = held[c] + n
         /\ \A d \in Classes \ {c} : held'[d] = held[d]
  BY DEF CountersExact, TypeOK

LEMMA AllocateHitKeeps ==
  ASSUME CountersExact, NEW t \in Threads, NEW c \in Classes, AllocateHit(t, c)
  PROVE  Keeps(t)
<1> DEFINE k == Refilled(cache[t], c)
           b == Own(cache[t])
           q == PushList(k, c, -1)
           e == [b EXCEPT ![c] = @ + (-1)]
<1>1. cache[t] \in Holding(b) /\ b \in [Classes -> Nat]
  BY CachesWork
<1>2. k.list[c] > 0 /\ held' = [held EXCEPT ![c] = @ + 1] /\ Finish(t, q)
  BY DEF AllocateHit
<1>3. b \in [Classes -> Int]
  BY <1>1
<1> HIDE DEF b
<1>4. k \in Holding(b)
  BY <1>1, RefillKeeps DEF Refilled
<1> HIDE DEF k
<1>5. k.list[c] \in Nat
  BY <1>4, HoldingFields
<1>6. q \in Holding(e)
  <2>1. -1 \in Int /\ k.list[c] + (-1) \in Nat
    BY <1>2, <1>5
  <2> QED
    BY <1>3, <1>4, <2>1, PushListHolds, Zenon
<1>7. e \in [Classes -> Int] /\ e[c] = b[c] + (-1) /\ \A d \in Classes \ {c} : e[d] = b[d]
  BY <1>3, Moved
<1>8. held \in [Classes -> Nat]
  BY DEF CountersExact, TypeOK
<1>9. /\ held' \in [Classes -> Nat] /\ held'[c] = held[c] + 1
      /\ \A d \in Classes \ {c} : held'[d] = held[d]
  BY <1>2, <1>8
<1> HIDE DEF e, q
<1>10. \A d \in Classes : e[d] + held'[d] = b[d] + held[d]
  BY <1>3, <1>7, <1>8, <1>9
<1>11. \A d \in Classes : e[d] + held'[d] = Own(cache[t])[d] + held[d]
  BY <1>10 DEF b
<1> QED
  BY <1>2, <1>6, <1>7, <1>9, <1>11, FinishKeeps

LEMMA AllocateMissKeeps ==
  ASSUME CountersExact, NEW t \in Threads, NEW c \in Classes, AllocateMiss(t, c)
  PROVE  Keeps(t)
<1>1. PICK n \in 1 .. Least(Least(RefillBatch, MaxBatch), central[c]) :
        /\ cache' = [cache EXCEPT ![t] = PushList(@, c, n - 1)]
        /\ central' = [central EXCEPT ![c] = @ - n]
        /\ held' = [held EXCEPT ![c] = @ + 1]
  BY DEF AllocateMiss
<1>2. cache \in [Threads -> Cache] /\ central \in [Classes -> Nat] /\ held \in [Classes -> Nat]
  BY DEF CountersExact, TypeOK
<1>3. n \in Nat /\ n - 1 \in Nat /\ n <= central[c]
  <2>1. central[c] \in Nat /\ Least(RefillBatch, MaxBatch) \in Nat
    BY <1>2, Constants, LeastOf
  <2>2. /\ Least(Least(RefillBatch, MaxBatch), central[c]) \in Nat
        /\ Least(Least(RefillBatch, MaxBatch), central[c]) <= central[c]
    BY <2>1, LeastOf
  <2> QED
    BY <1>1, <2>1, <2>2
<1> DEFINE k == cache[t]
           q == PushList(k, c, n - 1)
<1>4. /\ k \in WorkingCache /\ CountersOf(k) /\ k.returned = NoBlocks /\ k.list \in [Classes -> Nat]
      /\ k.deferred \in [Classes -> Nat]
  <2>1. k \in Holding(Own(k))
    BY CachesWork
  <2>2. k \in Cache
    BY <1>2
  <2> QED
    BY <2>1, <2>2, HoldingFields DEF Cache
<1>5. cache' = [cache EXCEPT ![t] = q]
  BY <1>1
<1> HIDE DEF k
<1>6. /\ q \in WorkingCache /\ CountersOf(q) /\ q.list = [k.list EXCEPT ![c] = @ + (n - 1)]
      /\ q.deferred = k.deferred /\ q.returned = k.returned
  <2>1. n - 1 \in Int /\ k.list[c] + (n - 1) \in Nat
    BY <1>3, <1>4
  <2>2. k \in WorkingCache /\ CountersOf(k)
    BY <1>4
  <2> DEFINE m == n - 1
  <2>3. m \in Int /\ k.list[c] + m \in Nat
    BY <2>1
  <2> HIDE DEF m
  <2>4. /\ PushList(k, c, m) \in WorkingCache /\ CountersOf(PushList(k, c, m))
        /\ PushList(k, c, m).list = [k.list EXCEPT ![c] = @ + m]
        /\ PushList(k, c, m).deferred = k.deferred /\ PushList(k, c, m).returned = k.returned
    BY <2>2, <2>3, PushListExact, ZenonT(40)
  <2> QED
    BY <2>4 DEF m
<1> HIDE DEF q
<1>7. q \in Cache
  BY <1>4, <1>6 DEF WorkingCache, Cache
<1>8. cache' \in [Threads -> Cache] /\ cache'[t] = q /\ \A u \in Threads \ {t} : cache'[u] = cache[u]
  BY <1>2, <1>5, <1>7
<1>9. central' \in [Classes -> Nat] /\ held' \in [Classes -> Nat]
  BY <1>1, <1>2, <1>3
<1>10. ASSUME NEW d \in Classes
       PROVE  central'[d] + held'[d] + (q.list[d] + q.deferred[d])
                = central[d] + held[d] + (k.list[d] + k.deferred[d])
  <2>1. CASE d = c
    <3>1. /\ central'[d] = central[d] - n /\ held'[d] = held[d] + 1
          /\ q.list[d] = k.list[d] + (n - 1) /\ q.deferred[d] = k.deferred[d]
      BY <1>1, <1>2, <1>4, <1>6, <2>1
    <3>2. central[d] \in Int /\ held[d] \in Int /\ k.list[d] \in Int /\ k.deferred[d] \in Int /\ n \in Int
      BY <1>2, <1>3, <1>4
    <3> QED
      BY <3>1, <3>2
  <2>2. CASE d # c
    BY <1>1, <1>2, <1>4, <1>6, <2>2
  <2> QED
    BY <2>1, <2>2
<1> QED
  BY <1>6, <1>8, <1>9, <1>10 DEF Keeps, k


LEMMA DeallocateKeeps ==
  ASSUME CountersExact, NEW t \in Threads, NEW c \in Classes, Deallocate(t, c)
  PROVE  Keeps(t)
<1> DEFINE b == Own(cache[t])
           e == [b EXCEPT ![c] = @ + 1]
<1>1. cache[t] \in Holding(b) /\ b \in [Classes -> Int]
  BY CachesWork
<1>2. PICK deferred \in BOOLEAN :
        LET k == DrainDeferred(Spilled(Routed(cache[t], c, deferred), c))
        IN  Finish(t, IF TotalRetainedBytes(k) > TriggerBytes THEN TrimToBudget(k) ELSE k)
  BY DEF Deallocate
<1> DEFINE r == Routed(cache[t], c, deferred)
           s == Spilled(r, c)
           k == DrainDeferred(s)
           q == IF TotalRetainedBytes(k) > TriggerBytes THEN TrimToBudget(k) ELSE k
<1>3. Finish(t, q)
  BY <1>2
<1>4. cache[t].list[c] + 1 \in Nat /\ cache[t].deferred[c] + 1 \in Nat
  BY <1>1, HoldingFields
<1> HIDE DEF b
<1>5. e \in [Classes -> Int] /\ e[c] = b[c] + 1 /\ \A d \in Classes \ {c} : e[d] = b[d]
  BY <1>1, Moved
<1>6. r \in Holding(e)
  <2>1. PushDeferred(cache[t], c, 1) \in Holding(e)
    BY <1>1, <1>4, PushDeferredHolds, OneIsNumber, Zenon
  <2>2. PushList(cache[t], c, 1) \in Holding(e)
    BY <1>1, <1>4, PushListHolds, OneIsNumber, Zenon
  <2> QED
    BY <2>1, <2>2 DEF Routed
<1> HIDE DEF e, r
<1>7. s \in Holding(e)
  BY <1>6, SpillKeeps DEF Spilled
<1> HIDE DEF s
<1>8. k \in Holding(e)
  BY <1>7, DrainDeferredKeeps
<1> HIDE DEF k
<1>9. q \in Holding(e)
  BY <1>8, DrainDeferredKeeps, TrimBatchesKeep DEF TrimToBudget
<1> HIDE DEF q
<1>10. held \in [Classes -> Nat] /\ held[c] > 0 /\ held' = [held EXCEPT ![c] = @ - 1]
  BY DEF CountersExact, TypeOK, Deallocate
<1>11. /\ held' \in [Classes -> Nat] /\ held'[c] = held[c] - 1
       /\ \A d \in Classes \ {c} : held'[d] = held[d]
  BY <1>10
<1>12. \A d \in Classes : e[d] + held'[d] = b[d] + held[d]
  BY <1>1, <1>5, <1>10, <1>11
<1>13. \A d \in Classes : e[d] + held'[d] = Own(cache[t])[d] + held[d]
  BY <1>12 DEF b
<1> QED
  BY <1>3, <1>5, <1>9, <1>11, <1>13, FinishKeeps

LEMMA OnIdleKeeps ==
  ASSUME CountersExact, NEW t \in Threads, OnIdle(t)
  PROVE  Keeps(t)
<1> DEFINE b == Own(cache[t])
           q == DrainAllLists(DrainAllDeferred(cache[t]))
<1>1. cache[t] \in Holding(b) /\ b \in [Classes -> Nat]
  BY CachesWork
<1>2. q \in Holding(b)
  BY <1>1, DrainAllDeferredKeeps, DrainAllListsKeeps
<1>3. Finish(t, q) /\ held' = held /\ held \in [Classes -> Nat]
  BY DEF OnIdle, CountersExact, TypeOK
<1>4. b \in [Classes -> Int] /\ \A c \in Classes : b[c] + held'[c] = Own(cache[t])[c] + held[c]
  BY <1>1, <1>3
<1> HIDE DEF q, b
<1> QED
  BY <1>2, <1>3, <1>4, FinishKeeps

(* What a call that flushes leaves in the cache: nothing a count knew of.  *)
LEMMA FlushAllDrains ==
  ASSUME CountersExact, NEW t \in Threads
  PROVE  /\ FlushAll(cache[t]) \in Holding(Own(cache[t]))
         /\ \A c \in Classes :
              cache[t].deferred[c] < CountModulus => FlushAll(cache[t]).deferred[c] = 0
         /\ \A c \in Classes :
              cache[t].list[c] < CountModulus => FlushAll(cache[t]).list[c] = 0
<1> DEFINE b == Own(cache[t])
           k == DrainAllDeferred(cache[t])
           q == DrainAllLists(k)
<1>1. cache[t] \in Holding(b)
  BY CachesWork
<1> HIDE DEF b
<1>2. /\ k \in Holding(b) /\ k.list = cache[t].list
      /\ \A c \in Classes : cache[t].deferred[c] < CountModulus => k.deferred[c] = 0
  BY <1>1, DrainAllDeferredKeeps
<1> HIDE DEF k
<1>3. /\ q \in Holding(b) /\ q.deferred = k.deferred
      /\ \A c \in Classes : k.list[c] < CountModulus => q.list[c] = 0
  BY <1>2, DrainAllListsKeeps
<1>4. q = FlushAll(cache[t])
  BY DEF FlushAll, k
<1> HIDE DEF q
<1> QED
  BY <1>2, <1>3, <1>4 DEF b


LEMMA ExitCounters ==
  ASSUME CountersExact, NEW t \in Threads, OnThreadExit(t)
  PROVE  /\ cache' \in [Threads -> Cache] /\ cache'[t] = Fresh
         /\ \A u \in Threads \ {t} : cache'[u] = cache[u]
         /\ central' \in [Classes -> Nat]
         /\ \A c \in Classes : central'[c] = central[c] + FlushAll(cache[t]).returned[c]
         /\ held' = held /\ held \in [Classes -> Nat]
<1> DEFINE q == FlushAll(cache[t])
           b == Own(cache[t])
<1>1. q \in Holding(b)
  BY FlushAllDrains
<1>2. /\ cache \in [Threads -> Cache] /\ central \in [Classes -> Nat] /\ held \in [Classes -> Nat]
  BY DEF CountersExact, TypeOK
<1>3. /\ cache' = [cache EXCEPT ![t] = Fresh] /\ held' = held
      /\ central' = [c \in Classes |-> central[c] + q.returned[c]]
  BY DEF OnThreadExit
<1> HIDE DEF q, b
<1>4. \A c \in Classes : q.returned[c] \in Nat
  BY <1>1, HoldingFields
<1> QED
  BY <1>2, <1>3, <1>4, FreshExact DEF q

(* A thread that ends, and whose lists its counts can count, loses nothing.*)
LEMMA OnThreadExitKeeps ==
  ASSUME CountersExact, NEW t \in Threads, OnThreadExit(t),
         \A c \in Classes : cache[t].list[c] < CountModulus /\ cache[t].deferred[c] < CountModulus
  PROVE  /\ Keeps(t)
         /\ \A c \in Classes : central'[c] = central[c] + cache[t].list[c] + cache[t].deferred[c]
<1> DEFINE q == FlushAll(cache[t])
           b == Own(cache[t])
<1>1. /\ q \in Holding(b)
      /\ \A c \in Classes : q.deferred[c] = 0
      /\ \A c \in Classes : q.list[c] = 0
  BY FlushAllDrains
<1> HIDE DEF q
<1>2. \A c \in Classes : q.returned[c] = b[c]
  <2>1. \A c \in Classes : Together(q, c) = b[c] /\ q.returned[c] \in Nat
    BY <1>1, HoldingFields DEF Holding
  <2> QED
    BY <1>1, <2>1 DEF Together
<1>3. /\ cache' \in [Threads -> Cache] /\ cache'[t] = Fresh
      /\ \A u \in Threads \ {t} : cache'[u] = cache[u]
      /\ central' \in [Classes -> Nat]
      /\ \A c \in Classes : central'[c] = central[c] + q.returned[c]
      /\ held' = held /\ held \in [Classes -> Nat]
  BY ExitCounters DEF q
<1>4. \A c \in Classes : /\ central[c] \in Nat /\ cache[t].list[c] \in Nat /\ cache[t].deferred[c] \in Nat
                         /\ held[c] \in Nat
  BY DEF CountersExact, TypeOK, Cache
<1>5. \A c \in Classes : central'[c] = central[c] + (cache[t].list[c] + cache[t].deferred[c])
  BY <1>2, <1>3 DEF Own
<1>6. \A c \in Classes : Fresh.list[c] = 0 /\ Fresh.deferred[c] = 0
  BY DEF Fresh, NoBlocks
<1>7. ASSUME NEW c \in Classes
      PROVE  central'[c] + held'[c] + (cache'[t].list[c] + cache'[t].deferred[c])
               = central[c] + held[c] + (cache[t].list[c] + cache[t].deferred[c])
  <2>1. cache'[t].list[c] = 0 /\ cache'[t].deferred[c] = 0 /\ held'[c] = held[c]
    BY <1>3, <1>6
  <2> QED
    BY <2>1, <1>4, <1>5
<1>8. Keeps(t)
  BY <1>3, <1>7, FreshExact DEF Keeps
<1>9. \A c \in Classes : central'[c] = central[c] + cache[t].list[c] + cache[t].deferred[c]
  BY <1>4, <1>5
<1> QED
  BY <1>8, <1>9

(* Any step is a call of some thread, or changes nothing.                  *)
LEMMA CallKeeps ==
  ASSUME CountersExact, NEW t \in Threads, NEW c \in Classes, Allocate(t, c) \/ Deallocate(t, c)
  PROVE  Keeps(t)
  BY AllocateHitKeeps, AllocateMissKeeps, DeallocateKeeps DEF Allocate

LEMMA CountersFollow ==
  ASSUME CountersExact, NEW t \in Threads,
         cache' \in [Threads -> Cache], central' \in [Classes -> Nat], held' \in [Classes -> Nat],
         CountersOf(cache'[t]), \A u \in Threads \ {t} : cache'[u] = cache[u]
  PROVE  CountersExact'
<1>1. ASSUME NEW u \in Threads PROVE CountersOf(cache'[u])
  <2>1. CASE u = t
    BY <2>1
  <2>2. CASE u # t
    <3>1. CountersOf(cache[u])
      BY DEF CountersExact, CountersOf
    <3> QED
      BY <2>2, <3>1
  <2> QED
    BY <2>1, <2>2
<1>2. TypeOK'
  BY DEF TypeOK
<1> QED
  BY <1>1, <1>2 DEF CountersExact, CountersOf

LEMMA CountersStep == CountersExact /\ [Next]_vars => CountersExact'
<1> SUFFICES ASSUME CountersExact, [Next]_vars PROVE CountersExact'
  OBVIOUS
<1>1. ASSUME NEW t \in Threads, Keeps(t) PROVE CountersExact'
  BY <1>1, CountersFollow DEF Keeps
<1>2. ASSUME NEW t \in Threads, NEW c \in Classes, Allocate(t, c) \/ Deallocate(t, c)
      PROVE  CountersExact'
  BY <1>1, <1>2, CallKeeps
<1>3. ASSUME NEW t \in Threads, OnIdle(t) PROVE CountersExact'
  BY <1>1, <1>3, OnIdleKeeps
<1>4. ASSUME NEW t \in Threads, OnThreadExit(t) PROVE CountersExact'
  <2>1. /\ cache' \in [Threads -> Cache] /\ central' \in [Classes -> Nat] /\ held' \in [Classes -> Nat]
        /\ cache'[t] = Fresh /\ \A u \in Threads \ {t} : cache'[u] = cache[u]
    BY <1>4, ExitCounters
  <2>2. CountersOf(cache'[t])
    BY <2>1, FreshExact
  <2> QED
    BY <2>1, <2>2, CountersFollow
<1>5. CASE UNCHANGED vars
  BY <1>5 DEF vars, CountersExact, TypeOK
<1> QED
  BY <1>2, <1>3, <1>4, <1>5 DEF Next

LEMMA CountersInit == Init => CountersExact
<1> SUFFICES ASSUME Init PROVE CountersExact
  OBVIOUS
<1>1. NoBlocks \in [Classes -> Nat]
  BY DEF NoBlocks
<1>2. TypeOK
  BY <1>1, Constants, FreshExact DEF Init, TypeOK
<1>3. \A t \in Threads : cache[t] = Fresh
  BY DEF Init
<1> QED
  BY <1>2, <1>3, FreshExact DEF CountersExact, CountersOf

(* The counters of every cache, in blocks and in bytes, agree with its     *)
(* lists, in the types they have, after any calls.                         *)
THEOREM CountersAreExact == Spec => []CountersExact
  BY CountersInit, CountersStep, PTL DEF Spec


-----------------------------------------------------------------------------
(* Blocks *)

(* The counts are wide enough for all the blocks of a class; the two bytes *)
(* of the code are when a class has fewer than 65536 blocks.  Where they   *)
(* are not, a thread that ends leaves blocks behind: see ThreadCache_wrap. *)
CountsHoldAll == \A c \in Classes : Blocks[c] < CountModulus

LEMMA ListsFit ==
  ASSUME IsFiniteSet(Threads), CountsHoldAll, CountersExact, BlocksAccounted,
         NEW t \in Threads, NEW c \in Classes
  PROVE  cache[t].list[c] < CountModulus /\ cache[t].deferred[c] < CountModulus
<1> DEFINE f == [u \in Threads |-> cache[u].list[c] + cache[u].deferred[c]]
<1>1. \A u \in Threads : cache[u].list[c] \in Nat /\ cache[u].deferred[c] \in Nat
  BY DEF CountersExact, TypeOK, Cache
<1>2. f \in [Threads -> Nat]
  BY <1>1
<1>3. f[t] = cache[t].list[c] + cache[t].deferred[c]
  OBVIOUS
<1>4. Blocks[c] = central[c] + held[c] + SumFunction(f)
  BY DEF BlocksAccounted
<1> HIDE DEF f
<1>5. f[t] <= SumFunction(f) /\ SumFunction(f) \in Nat
  BY <1>2, SumBoundsEntries, SumNotNegative
<1>6. central[c] \in Nat /\ held[c] \in Nat /\ Blocks[c] \in Nat
  BY Constants DEF CountersExact, TypeOK
<1>7. Blocks[c] < CountModulus /\ CountModulus \in Nat
  BY Constants DEF CountsHoldAll
<1>8. cache[t].list[c] \in Nat /\ cache[t].deferred[c] \in Nat
  BY <1>1
<1> QED
  BY <1>3, <1>4, <1>5, <1>6, <1>7, <1>8

LEMMA BlocksFollow ==
  ASSUME IsFiniteSet(Threads), CountersExact, BlocksAccounted, NEW t \in Threads, Keeps(t)
  PROVE  BlocksAccounted'
<1> SUFFICES ASSUME NEW c \in Classes
             PROVE  Blocks[c] = central'[c] + held'[c]
                      + SumFunction([u \in Threads |-> cache'[u].list[c] + cache'[u].deferred[c]])
  BY DEF BlocksAccounted
<1> DEFINE f == [u \in Threads |-> cache[u].list[c] + cache[u].deferred[c]]
           g == [u \in Threads |-> cache'[u].list[c] + cache'[u].deferred[c]]
<1>1. \A u \in Threads : /\ cache[u].list[c] \in Nat /\ cache[u].deferred[c] \in Nat
                         /\ cache'[u].list[c] \in Nat /\ cache'[u].deferred[c] \in Nat
  BY DEF CountersExact, TypeOK, Cache, Keeps
<1>2. f \in [Threads -> Int]
  BY <1>1
<1>3. g \in [Threads -> Int]
  BY <1>1
<1>4. \A u \in Threads \ {t} : g[u] = f[u]
  BY DEF Keeps
<1>5. Blocks[c] = central[c] + held[c] + SumFunction(f)
  BY DEF BlocksAccounted
<1>6. central'[c] + held'[c] + g[t] = central[c] + held[c] + f[t]
  BY DEF Keeps
<1> HIDE DEF f, g
<1>7. SumFunction(g) = SumFunction(f) + (g[t] - f[t])
  BY <1>2, <1>3, <1>4, SumOfChanged, ZenonT(40)
<1>8. SumFunction(f) \in Int /\ f[t] \in Int /\ g[t] \in Int
  BY <1>2, <1>3, SumType
<1>9. central[c] \in Int /\ held[c] \in Int /\ central'[c] \in Int /\ held'[c] \in Int
  BY DEF CountersExact, TypeOK, Keeps
<1>10. Blocks[c] = central'[c] + held'[c] + SumFunction(g)
  <2> DEFINE x == central[c] + held[c]
             y == central'[c] + held'[c]
             m == SumFunction(f)
             n == SumFunction(g)
  <2>1. x \in Int /\ y \in Int /\ m \in Int
    BY <1>8, <1>9
  <2>2. Blocks[c] = x + m /\ y + g[t] = x + f[t] /\ n = m + (g[t] - f[t])
    BY <1>5, <1>6, <1>7
  <2> HIDE DEF x, y, m, n
  <2>3. Blocks[c] = y + n
    BY <1>8, <2>1, <2>2
  <2> QED
    BY <2>3 DEF y, n
<1> QED
  BY <1>10 DEF g

LEMMA BlocksInit == ASSUME IsFiniteSet(Threads), Init PROVE BlocksAccounted
<1> SUFFICES ASSUME NEW c \in Classes
             PROVE  Blocks[c] = central[c] + held[c]
                      + SumFunction([u \in Threads |-> cache[u].list[c] + cache[u].deferred[c]])
  BY DEF BlocksAccounted
<1> DEFINE f == [u \in Threads |-> cache[u].list[c] + cache[u].deferred[c]]
<1>1. \A u \in Threads : cache[u].list[c] = 0 /\ cache[u].deferred[c] = 0
  BY DEF Init, Fresh, NoBlocks
<1>2. f \in [Threads -> Int] /\ \A u \in Threads : f[u] = 0
  BY <1>1
<1> HIDE DEF f
<1>3. SumFunction(f) = 0
  BY <1>2, SumOfZeros
<1>4. central[c] = Blocks[c] /\ held[c] = 0 /\ Blocks[c] \in Nat
  BY Constants DEF Init, NoBlocks
<1> QED
  BY <1>3, <1>4 DEF f

(* The counters are needed to know where the blocks are: a drain takes as  *)
(* many as the count says.                                                 *)
IInv == CountersExact /\ BlocksAccounted

LEMMA BlocksStep ==
  ASSUME IsFiniteSet(Threads), CountsHoldAll
  PROVE  IInv /\ [Next]_vars => IInv'
<1> SUFFICES ASSUME CountersExact, BlocksAccounted, [Next]_vars PROVE BlocksAccounted'
  BY CountersStep DEF IInv
<1>1. ASSUME NEW t \in Threads, Keeps(t) PROVE BlocksAccounted'
  BY <1>1, BlocksFollow
<1>2. ASSUME NEW t \in Threads, NEW c \in Classes, Allocate(t, c) \/ Deallocate(t, c)
      PROVE  BlocksAccounted'
  BY <1>1, <1>2, CallKeeps
<1>3. ASSUME NEW t \in Threads, OnIdle(t) PROVE BlocksAccounted'
  BY <1>1, <1>3, OnIdleKeeps
<1>4. ASSUME NEW t \in Threads, OnThreadExit(t) PROVE BlocksAccounted'
  BY <1>1, <1>4, ListsFit, OnThreadExitKeeps
<1>5. CASE UNCHANGED vars
  BY <1>5 DEF vars, BlocksAccounted
<1> QED
  BY <1>2, <1>3, <1>4, <1>5 DEF Next

(* With counts that hold all blocks of a class every block is, after any   *)
(* calls, in the central pool, with a caller, or in a list of a cache.     *)
THEOREM BlocksAreAccounted ==
  ASSUME IsFiniteSet(Threads), CountsHoldAll
  PROVE  Spec => []BlocksAccounted
<1>1. Init => IInv
  BY CountersInit, BlocksInit DEF IInv
<1>2. IInv /\ [Next]_vars => IInv'
  BY BlocksStep
<1>3. IInv => BlocksAccounted
  BY DEF IInv
<1> QED
  BY <1>1, <1>2, <1>3, PTL DEF Spec

-----------------------------------------------------------------------------
(* Threads that rest or end *)

LEMMA IdleEmpties ==
  ASSUME IsFiniteSet(Threads), CountsHoldAll, IInv, NEW t \in Threads, OnIdle(t)
  PROVE  TotalRetainedBytes(cache'[t]) = 0
<1> DEFINE q == FlushAll(cache[t])
           e == [q EXCEPT !.returned = NoBlocks]
<1>1. \A c \in Classes : cache[t].list[c] < CountModulus /\ cache[t].deferred[c] < CountModulus
  BY ListsFit DEF IInv
<1>2. q \in Holding(Own(cache[t])) /\ \A c \in Classes : q.list[c] = 0 /\ q.deferred[c] = 0
  BY <1>1, FlushAllDrains DEF IInv
<1>3. Finish(t, q)
  BY DEF OnIdle, FlushAll
<1> HIDE DEF q
<1>4. e \in Cache /\ CountersOf(e) /\ e.list = q.list /\ e.deferred = q.deferred
  BY <1>2, Emptied
<1>5. cache'[t] = e
  BY <1>3 DEF Finish, IInv, CountersExact, TypeOK
<1> HIDE DEF e
<1>6. e.list = NoBlocks /\ e.deferred = NoBlocks
  BY <1>2, <1>4 DEF Cache, NoBlocks
<1>7. e.currentBytes = 0 /\ e.deferredBytes = 0
  BY <1>4, <1>6, BytesOfNothing DEF CountersOf
<1> QED
  BY <1>5, <1>7 DEF TotalRetainedBytes

(* With counts that hold all blocks of a class an idle thread keeps nothing*)
(* and a thread that ends has given back every block of its lists.         *)
THEOREM NothingIsLeft ==
  ASSUME IsFiniteSet(Threads), CountsHoldAll
  PROVE  Spec => NothingLeft
<1>1. Init => IInv
  BY CountersInit, BlocksInit DEF IInv
<1>2. IInv /\ [Next]_vars => IInv'
  BY BlocksStep
<1>3. IInv /\ [Next]_vars =>
        [\A t \in Threads : OnIdle(t) => TotalRetainedBytes(cache'[t]) = 0]_vars
  BY IdleEmpties
<1>4. IInv /\ [Next]_vars =>
        [\A t \in Threads :
           OnThreadExit(t) =>
             \A c \in Classes : central'[c] = central[c] + cache[t].list[c] + cache[t].deferred[c]]_vars
  BY ListsFit, OnThreadExitKeeps DEF IInv
<1> QED
  BY <1>1, <1>2, <1>3, <1>4, PTL DEF Spec, NothingLeft, IdleKeepsNothing, ExitFlushes

=============================================================================
