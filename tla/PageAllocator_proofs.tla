------------------------ MODULE PageAllocator_proofs ------------------------
(***************************************************************************)
(* Proofs about PageAllocator, for any number of shards and regions, any   *)
(* sizes of spans and regions and any granule.                             *)
(***************************************************************************)
EXTENDS PageAllocator, TLAPS

USE ParametersAssumption

-----------------------------------------------------------------------------
(* Arithmetic *)

LEMMA HomeIsShard ==
  ASSUME NEW r \in Nat PROVE HomeShard(r) \in Shards
  BY SMT DEF HomeShard, Shards

LEMMA HomeOfShard ==
  /\ \A h \in Shards : HomeShard(h) = h
  /\ HomeShard(NumShards) = 0
  BY SMT DEF HomeShard, Shards

LEMMA MultipleBelow ==
  ASSUME NEW n \in Nat \ {0}, NEW d \in Int, -n < n * d, n * d < n PROVE d = 0
<1>1. CASE d >= 1
  <2>1. n * d = n + n * (d - 1) /\ n * (d - 1) >= 0
    BY <1>1, SMT
  <2> QED
    BY <2>1, SMT
<1>2. CASE d <= -1
  <2>1. n * d = -n - n * (-d - 1) /\ n * (-d - 1) >= 0
    BY <1>2, SMT
  <2> QED
    BY <2>1, SMT
<1> QED
  BY <1>1, <1>2, SMT

(* The next number of a shard belongs to that shard again.                 *)
LEMMA HomeRepeats ==
  ASSUME NEW r \in Nat PROVE HomeShard(r + NumShards) = HomeShard(r)
<1> DEFINE n  == NumShards
           a  == r \div n
           b  == (r + n) \div n
<1>1. n \in Nat \ {0} /\ a \in Int /\ b \in Int
  BY SMT
<1>2. /\ r = n * a + (r % n)
      /\ r % n \in 0 .. n - 1
  BY SMT
<1>3. /\ r + n = n * b + ((r + n) % n)
      /\ (r + n) % n \in 0 .. n - 1
  BY SMT
<1> HIDE DEF n, a, b
<1>4. n * b - n * a - n = n * (b - a - 1)
  BY <1>1, SMT
<1>5. -n < n * (b - a - 1) /\ n * (b - a - 1) < n
  BY <1>1, <1>2, <1>3, <1>4, SMT
<1>6. b - a - 1 = 0
  BY <1>1, <1>5, MultipleBelow
<1>7. n * (b - a - 1) = 0
  BY <1>1, <1>6, SMT
<1>8. (r + n) % n = r % n
  BY <1>1, <1>2, <1>3, <1>4, <1>7, SMT
<1> QED
  BY <1>8 DEF HomeShard, n

LEMMA RoundedType ==
  ASSUME NEW n \in Nat PROVE RoundedUp(n) \in Nat
<1>1. (n + Granule - 1) \div Granule \in Nat
  BY SMT
<1> QED
  BY <1>1, SMT DEF RoundedUp

LEMMA RangeType ==
  ASSUME NEW s \in Span PROVE SystemRange(s) \subseteq RegionIds \X Nat
<1>1. s.first \in Nat /\ s.count \in Nat /\ s.region \in RegionIds
  BY DEF Span
<1>2. RoundedUp(s.first) \in Nat /\ RoundedUp(s.count) \in Nat
  BY <1>1, RoundedType
<1> QED
  BY <1>1, <1>2, SMT DEF SystemRange

-----------------------------------------------------------------------------
(* Type correctness *)

LEMMA TypeInit == Init => TypeOK
  BY SMT DEF Init, TypeOK, Shards, RegionIds

LEMMA CommitType ==
  ASSUME NEW s \in Span, NEW pages, TypeOK, Commit(s, pages)
  PROVE  committed' \in SUBSET (RegionIds \X Nat)
  BY RangeType DEF TypeOK, Commit, Committed

LEMMA TypeCached ==
  ASSUME TypeOK, NEW h \in Shards, NEW n \in PageCounts, AcquireCached(h, n)
  PROVE  TypeOK'
<1>1. PICK s \in Cached(h, n) :
        /\ cache' = [cache EXCEPT ![h] = @ \ {s}]
        /\ \/ Commit(s, size[s.region]) /\ held' = held \cup {s} /\ UNCHANGED lost
           \/ lost' = lost \cup {s} /\ UNCHANGED <<held, committed>>
        /\ UNCHANGED regionVars
  BY DEF AcquireCached
<1>2. s \in Span
  BY DEF Cached, TypeOK
<1>3. committed' \in SUBSET (RegionIds \X Nat)
  BY <1>1, <1>2, CommitType DEF TypeOK
<1>4. cache' \in [Shards -> SUBSET Span]
  BY <1>1 DEF TypeOK
<1> QED
  BY <1>1, <1>2, <1>3, <1>4 DEF TypeOK, regionVars

LEMMA TypeCut ==
  ASSUME TypeOK, NEW h \in Shards, NEW n \in PageCounts, CutFromRegion(h, n)
  PROVE  TypeOK'
<1>1. PICK r \in Roomy(h, n) :
        LET s == [region |-> r, first |-> nextPage[r], count |-> n] IN
        /\ Commit(s, size[r])
        /\ nextPage' = [nextPage EXCEPT ![r] = CutTo(s)]
        /\ held' = held \cup {s}
        /\ UNCHANGED <<nextId, regions, size, cache, lost>>
  BY Zenon DEF CutFromRegion
<1> DEFINE s == [region |-> r, first |-> nextPage[r], count |-> n]
<1>2. r \in RegionIds /\ size[r] - nextPage[r] >= n /\ nextPage[r] \in Nat /\ size[r] \in Nat /\ n \in Nat
  BY DEF Roomy, TypeOK
<1>3. s \in Span
  BY <1>2 DEF Span
<1>4. committed' \in SUBSET (RegionIds \X Nat)
  BY <1>1, <1>3, CommitType, Zenon
<1>5. CutTo(s) \in Nat /\ CutTo(s) <= size[r]
  BY <1>2 DEF CutTo
<1> HIDE DEF s
<1>6. nextPage' = [nextPage EXCEPT ![r] = CutTo(s)] /\ size' = size
  BY <1>1 DEF s
<1>7. /\ nextPage' \in [RegionIds -> Nat]
      /\ \A q \in RegionIds : nextPage'[q] <= size'[q]
  BY <1>2, <1>5, <1>6 DEF TypeOK
<1>8. held' \in SUBSET Span
  BY <1>1, <1>3 DEF TypeOK, s
<1> QED
  BY <1>1, <1>4, <1>7, <1>8 DEF TypeOK

LEMMA TypeReserve ==
  ASSUME TypeOK, NEW h \in Shards, NEW n \in PageCounts, ReserveRegion(h, n)
  PROVE  TypeOK'
<1> DEFINE r     == nextId[h]
           pages == IF n > RegionPages THEN n ELSE RegionPages
           s     == [region |-> r, first |-> 0, count |-> n]
<1>1. /\ r \in RegionIds
      /\ nextId' = [nextId EXCEPT ![h] = @ + NumShards]
      /\ \/ /\ Commit(s, pages)
            /\ regions' = regions \cup {r}
            /\ size' = [size EXCEPT ![r] = pages]
            /\ nextPage' = [nextPage EXCEPT ![r] = CutTo(s)]
            /\ held' = held \cup {s}
         \/ UNCHANGED <<regions, size, nextPage, committed, held>>
      /\ UNCHANGED <<cache, lost>>
  BY Zenon DEF ReserveRegion
<1>2. n \in Nat /\ pages \in Nat /\ n <= pages
  BY SMT
<1>3. s \in Span
  BY <1>1 DEF Span
<1>4. committed' \in SUBSET (RegionIds \X Nat)
  BY <1>1, <1>3, CommitType, Zenon DEF TypeOK
<1>5. CutTo(s) = n
  BY <1>2 DEF CutTo
<1> HIDE DEF s, pages
<1>6. nextId' \in [Shards -> Nat]
  BY <1>1, SMT DEF TypeOK
<1>7. /\ size' \in [RegionIds -> Nat]
      /\ nextPage' \in [RegionIds -> Nat]
      /\ \A q \in RegionIds : nextPage'[q] <= size'[q]
  BY <1>1, <1>2, <1>5 DEF TypeOK
<1>8. held' \in SUBSET Span /\ regions' \in SUBSET RegionIds
  BY <1>1, <1>3 DEF TypeOK
<1> QED
  BY <1>1, <1>4, <1>6, <1>7, <1>8 DEF TypeOK

LEMMA TypeRelease ==
  ASSUME TypeOK, NEW s \in held, ReleaseSpan(s)
  PROVE  TypeOK'
<1>1. s \in Span
  BY DEF TypeOK
<1>2. cache' \in [Shards -> SUBSET Span]
  BY <1>1 DEF TypeOK, ReleaseSpan
<1>3. committed' \in SUBSET (RegionIds \X Nat)
  BY DEF TypeOK, ReleaseSpan, Decommit
<1> QED
  BY <1>1, <1>2, <1>3 DEF TypeOK, ReleaseSpan, regionVars

LEMMA TypeStep == TypeOK /\ [Next]_vars => TypeOK'
<1> SUFFICES ASSUME TypeOK, [Next]_vars PROVE TypeOK'
  OBVIOUS
<1>1. CASE \E h \in Shards, n \in PageCounts : AcquireSpan(h, n)
  BY <1>1, TypeCached, TypeCut, TypeReserve DEF AcquireSpan
<1>2. CASE \E s \in held : ReleaseSpan(s)
  BY <1>2, TypeRelease
<1>3. CASE UNCHANGED vars
  BY <1>3 DEF vars, regionVars, TypeOK
<1> QED
  BY <1>1, <1>2, <1>3 DEF Next

(* The allocator's state keeps its types and no cursor passes the end of   *)
(* its region.                                                             *)
THEOREM TypeCorrect == Spec => []TypeOK
  BY TypeInit, TypeStep, PTL DEF Spec

-----------------------------------------------------------------------------
(* The inductive invariant *)

LEMMA InvInit == Init => IInv
<1> SUFFICES ASSUME Init PROVE IInv
  OBVIOUS
<1>1. Spans = {}
  BY DEF Init, Spans
<1>2. NumbersInv
  BY HomeOfShard, SMT DEF Init, NumbersInv, Shards
<1> QED
  BY <1>1, <1>2, TypeInit
     DEF Init, IInv, BelowInv, HomeInv, PagesExclusive, PagesAccounted

LEMMA SpansType ==
  ASSUME TypeOK, NEW s \in Spans
  PROVE  /\ s \in Span
         /\ s.region \in RegionIds
         /\ s.first \in Nat
         /\ s.count \in Nat \ {0}
<1>1. s \in Span
  BY DEF TypeOK, Spans
<1> QED
  BY <1>1 DEF Span

(* A span that starts where all others of its region end meets none.       *)
LEMMA FreshSpan ==
  ASSUME TypeOK, NEW r \in RegionIds, NEW f \in Nat, NEW n \in PageCounts,
         \A q \in Spans : q.region = r => q.first + q.count <= f
  PROVE  LET s == [region |-> r, first |-> f, count |-> n] IN
         \A q \in Spans : q # s /\ Pages(s) \cap Pages(q) = {}
<1> DEFINE s == [region |-> r, first |-> f, count |-> n]
<1> SUFFICES ASSUME NEW q \in Spans PROVE q # s /\ Pages(s) \cap Pages(q) = {}
  OBVIOUS
<1>1. /\ q.first \in Nat
      /\ q.count \in Nat \ {0}
      /\ s.region = r /\ s.first = f /\ s.count = n
  BY SpansType
<1>2. q # s
  BY <1>1
<1>3. ASSUME NEW p, p \in Pages(s), p \in Pages(q) PROVE FALSE
  <2>1. p[1] = r /\ p[2] \in f .. f + n - 1
    BY <1>1, <1>3 DEF Pages
  <2>2. p[1] = q.region /\ p[2] \in q.first .. q.first + q.count - 1
    BY <1>1, <1>3 DEF Pages
  <2>3. q.first + q.count <= f
    BY <2>1, <2>2
  <2> QED
    BY <1>1, <2>1, <2>2, <2>3
<1> QED
  BY <1>2, <1>3, Zenon

(* What AcquireCached and ReleaseSpan have in common: a span changes its   *)
(* place.                                                                  *)
LEMMA InvMoves ==
  ASSUME IInv, TypeOK', UNCHANGED regionVars, Spans' = Spans, HomeInv',
         \A h \in Shards : held' \cap cache'[h] = {},
         \A g, h \in Shards : g # h => cache'[g] \cap cache'[h] = {}
  PROVE  IInv'
<1>1. NumbersInv' /\ BelowInv' /\ PagesAccounted'
  BY DEF IInv, NumbersInv, BelowInv, PagesAccounted, regionVars
<1>2. PagesExclusive'
  BY DEF IInv, PagesExclusive
<1> QED
  BY <1>1, <1>2 DEF IInv

LEMMA InvCached ==
  ASSUME IInv, TypeOK', NEW h \in Shards, NEW n \in PageCounts, AcquireCached(h, n)
  PROVE  IInv'
<1>1. PICK s \in Cached(h, n) :
        /\ cache' = [cache EXCEPT ![h] = @ \ {s}]
        /\ \/ Commit(s, size[s.region]) /\ held' = held \cup {s} /\ UNCHANGED lost
           \/ lost' = lost \cup {s} /\ UNCHANGED <<held, committed>>
        /\ UNCHANGED regionVars
  BY DEF AcquireCached
<1>2. s \in cache[h] /\ cache \in [Shards -> SUBSET Span]
  BY DEF Cached, IInv, TypeOK
<1>3. /\ \A g \in Shards : cache'[g] \subseteq cache[g]
      /\ cache'[h] = cache[h] \ {s}
      /\ \A g \in Shards : g # h => cache'[g] = cache[g]
  BY <1>1, <1>2
<1>4. (held' = held \cup {s} /\ lost' = lost) \/ (lost' = lost \cup {s} /\ held' = held)
  BY <1>1
<1>5. \A g \in Shards : s \in cache'[g] => FALSE
  BY <1>2, <1>3 DEF IInv, PagesExclusive
<1>6. Spans' = Spans
  BY <1>2, <1>3, <1>4 DEF Spans
<1>7. HomeInv'
  BY <1>3 DEF IInv, HomeInv
<1>8. \A g \in Shards : held' \cap cache'[g] = {}
  BY <1>3, <1>4, <1>5 DEF IInv, PagesExclusive
<1>9. \A g, k \in Shards : g # k => cache'[g] \cap cache'[k] = {}
  BY <1>3 DEF IInv, PagesExclusive
<1> QED
  BY <1>1, <1>6, <1>7, <1>8, <1>9, InvMoves

LEMMA InvRelease ==
  ASSUME IInv, TypeOK', NEW s \in held, ReleaseSpan(s)
  PROVE  IInv'
<1> DEFINE h == HomeShard(s.region)
<1>1. s \in Spans /\ s.region \in Nat
  BY SpansType DEF Spans, IInv, RegionIds
<1>2. h \in Shards
  BY <1>1, HomeIsShard
<1>3. /\ held' = held \ {s}
      /\ cache' = [cache EXCEPT ![h] = @ \cup {s}]
      /\ lost' = lost
      /\ UNCHANGED regionVars
  BY DEF ReleaseSpan
<1> HIDE DEF h
<1>4. /\ cache'[h] = cache[h] \cup {s}
      /\ \A g \in Shards : g # h => cache'[g] = cache[g]
  BY <1>2, <1>3 DEF IInv, TypeOK
<1>5. Spans' = Spans
  BY <1>2, <1>3, <1>4 DEF Spans
<1>6. HomeInv'
  BY <1>4 DEF IInv, HomeInv, h
<1>7. \A g \in Shards : held' \cap cache'[g] = {}
  BY <1>3, <1>4 DEF IInv, PagesExclusive
<1>8. \A g \in Shards : s \notin cache[g]
  BY DEF IInv, PagesExclusive
<1>9. \A g, k \in Shards : g # k => cache'[g] \cap cache'[k] = {}
  BY <1>4, <1>8 DEF IInv, PagesExclusive
<1> QED
  BY <1>3, <1>5, <1>6, <1>7, <1>9, InvMoves

(* What CutFromRegion and a successful ReserveRegion have in common: a     *)
(* span is cut at the cursor of a region.                                  *)
LEMMA InvCut ==
  ASSUME IInv, NEW r \in RegionIds, NEW n \in PageCounts, NEW f \in Nat,
         r \in regions => f = nextPage[r],
         r \notin regions => f = 0,
         regions' = regions \cup {r},
         nextPage' = [nextPage EXCEPT ![r] = f + n],
         held' = held \cup {[region |-> r, first |-> f, count |-> n]},
         cache' = cache, lost' = lost, TypeOK', NumbersInv'
  PROVE  IInv'
<1> DEFINE s == [region |-> r, first |-> f, count |-> n]
<1>1. n \in Nat \ {0} /\ nextPage \in [RegionIds -> Nat]
  BY DEF IInv, TypeOK
<1>2. s.region = r /\ s.first = f /\ s.count = n
  OBVIOUS
<1>3. \A q \in Spans : q.region = r => r \in regions /\ q.first + q.count <= f
  BY DEF IInv, BelowInv
<1>4. \A q \in Spans : q # s /\ Pages(s) \cap Pages(q) = {}
  BY <1>3, FreshSpan DEF IInv
<1> HIDE DEF s
<1>5. Spans' = Spans \cup {s} /\ held' = held \cup {s}
  BY DEF Spans, s
<1>6. BelowInv'
  <2> SUFFICES ASSUME NEW q \in Spans' PROVE q.region \in regions' /\ q.first + q.count <= nextPage'[q.region]
    BY DEF BelowInv
  <2>1. CASE q = s
    BY <2>1, <1>1, <1>2
  <2>2. CASE q \in Spans /\ q.region = r
    <3>1. q.first + q.count <= f /\ q.first \in Nat /\ q.count \in Nat
      BY <2>2, <1>3, SpansType DEF IInv
    <3> QED
      BY <2>2, <3>1, <1>1
  <2>3. CASE q \in Spans /\ q.region # r
    BY <2>3, <1>1, SpansType DEF IInv, BelowInv
  <2> QED
    BY <1>5, <2>1, <2>2, <2>3
<1>7. HomeInv'
  BY DEF IInv, HomeInv
<1>8. PagesExclusive'
  <2>1. \A q \in Spans : Pages(q) \cap Pages(s) = {}
    BY <1>4
  <2>2. \A q, t \in Spans' : q # t => Pages(q) \cap Pages(t) = {}
    BY <1>4, <1>5, <2>1 DEF IInv, PagesExclusive
  <2>3. \A h \in Shards : s \notin cache[h]
    BY <1>4 DEF Spans
  <2> QED
    BY <1>5, <2>2, <2>3 DEF IInv, PagesExclusive
<1>9. PagesAccounted'
  <2> SUFFICES ASSUME NEW q \in regions', NEW p \in 0 .. nextPage'[q] - 1
               PROVE  \E t \in Spans' : <<q, p>> \in Pages(t)
    BY DEF PagesAccounted
  <2>1. CASE q = r /\ p \in f .. f + n - 1
    <3>1. <<q, p>> \in Pages(s)
      BY <2>1, <1>2 DEF Pages
    <3> QED
      BY <3>1, <1>5
  <2>2. CASE q \in regions /\ p \in 0 .. nextPage[q] - 1
    BY <2>2, <1>5 DEF IInv, PagesAccounted
  <2>3. q = r => p \in 0 .. f + n - 1
    BY <1>1
  <2>4. q # r => q \in regions /\ nextPage'[q] = nextPage[q]
    BY <1>1 DEF IInv, TypeOK
  <2> QED
    BY <1>1, <2>1, <2>2, <2>3, <2>4
<1> QED
  BY <1>6, <1>7, <1>8, <1>9 DEF IInv

LEMMA NumbersStep ==
  ASSUME IInv, NEW h \in Shards, nextId[h] \in RegionIds,
         nextId' = [nextId EXCEPT ![h] = @ + NumShards],
         regions' = regions \/ regions' = regions \cup {nextId[h]}
  PROVE  NumbersInv'
<1>1. nextId \in [Shards -> Nat] /\ NumbersInv /\ \A r \in regions : r \in Nat
  BY DEF IInv, TypeOK, RegionIds
<1> SUFFICES ASSUME NEW g \in Shards
             PROVE  /\ HomeShard(nextId'[g]) = g
                    /\ \A r \in regions' : HomeShard(r) = g => r < nextId'[g]
  BY DEF NumbersInv
<1>2. CASE g = h
  <2>1. nextId'[g] = nextId[h] + NumShards /\ nextId[h] \in Nat
    BY <1>1, <1>2
  <2>2. HomeShard(nextId'[g]) = g
    BY <1>1, <1>2, <2>1, HomeRepeats DEF NumbersInv
  <2>3. \A r \in regions' : HomeShard(r) = g => r < nextId'[g]
    BY <1>1, <1>2, <2>1 DEF NumbersInv
  <2> QED
    BY <2>2, <2>3
<1>3. CASE g # h
  BY <1>1, <1>3 DEF NumbersInv
<1> QED
  BY <1>2, <1>3

LEMMA InvStep == IInv /\ [Next]_vars => IInv'
<1> SUFFICES ASSUME IInv, [Next]_vars PROVE IInv'
  OBVIOUS
<1>1. TypeOK /\ TypeOK'
  BY TypeStep DEF IInv
<1>2. ASSUME NEW h \in Shards, NEW n \in PageCounts, CutFromRegion(h, n) PROVE IInv'
  <2>1. PICK r \in Roomy(h, n) :
          LET s == [region |-> r, first |-> nextPage[r], count |-> n] IN
          /\ nextPage' = [nextPage EXCEPT ![r] = CutTo(s)]
          /\ held' = held \cup {s}
          /\ UNCHANGED <<nextId, regions, size, cache, lost>>
    BY <1>2, Zenon DEF CutFromRegion
  <2>2. r \in regions /\ r \in RegionIds /\ nextPage[r] \in Nat
    BY <1>1 DEF Roomy, TypeOK
  <2>3. nextPage' = [nextPage EXCEPT ![r] = nextPage[r] + n]
    BY <2>1 DEF CutTo
  <2>4. NumbersInv'
    BY <2>1 DEF IInv, NumbersInv
  <2>5. regions' = regions \cup {r}
    BY <2>1, <2>2
  <2>6. held' = held \cup {[region |-> r, first |-> nextPage[r], count |-> n]} /\ cache' = cache /\ lost' = lost
    BY <2>1
  <2> QED
    BY <1>1, <2>2, <2>3, <2>4, <2>5, <2>6, InvCut
<1>3. ASSUME NEW h \in Shards, NEW n \in PageCounts, ReserveRegion(h, n) PROVE IInv'
  <2> DEFINE r == nextId[h]
             s == [region |-> r, first |-> 0, count |-> n]
  <2>1. /\ r \in RegionIds
        /\ nextId' = [nextId EXCEPT ![h] = @ + NumShards]
        /\ \/ /\ regions' = regions \cup {r}
              /\ nextPage' = [nextPage EXCEPT ![r] = CutTo(s)]
              /\ held' = held \cup {s}
           \/ UNCHANGED <<regions, size, nextPage, committed, held>>
        /\ UNCHANGED <<cache, lost>>
    BY <1>3, Zenon DEF ReserveRegion
  <2>2. NumbersInv'
    BY <2>1, NumbersStep
  <2>3. CASE regions' = regions \cup {r} /\ nextPage' = [nextPage EXCEPT ![r] = CutTo(s)] /\ held' = held \cup {s}
    <3>1. r \notin regions
      BY <1>1, <2>1 DEF IInv, NumbersInv, TypeOK
    <3>2. CutTo(s) = 0 + n
      BY DEF CutTo
    <3> QED
      BY <1>1, <2>1, <2>2, <2>3, <3>1, <3>2, InvCut
  <2>4. CASE UNCHANGED <<regions, size, nextPage, committed, held>>
    <3>1. Spans' = Spans
      BY <2>1, <2>4 DEF Spans
    <3> QED
      BY <1>1, <2>1, <2>2, <2>4, <3>1 DEF IInv, BelowInv, HomeInv, PagesExclusive, PagesAccounted
  <2> QED
    BY <2>1, <2>3, <2>4
<1>4. CASE UNCHANGED vars
  BY <1>4, <1>1 DEF vars, regionVars, IInv, NumbersInv, BelowInv, HomeInv, PagesExclusive, PagesAccounted, Spans
<1>5. CASE \E h \in Shards, n \in PageCounts : AcquireSpan(h, n)
  BY <1>1, <1>2, <1>3, <1>5, InvCached DEF AcquireSpan
<1>6. CASE \E s \in held : ReleaseSpan(s)
  BY <1>1, <1>6, InvRelease
<1> QED
  BY <1>4, <1>5, <1>6 DEF Next

(* A number is given to one region and a new span starts where all others  *)
(* of its region end.                                                      *)
THEOREM Inductive == Spec => []IInv
  BY InvInit, InvStep, PTL DEF Spec

(* No page is ever in two spans.                                           *)
THEOREM NoPageTwice == Spec => []PagesExclusive
<1>1. IInv => PagesExclusive
  BY DEF IInv
<1> QED
  BY <1>1, Inductive, PTL

(* A released span is in the cache of the shard that numbered its region.  *)
THEOREM SpansComeHome == Spec => []ComesHome
<1>1. IInv => ComesHome
  BY DEF IInv, HomeInv, BelowInv, Spans, ComesHome, HomeShard
<1> QED
  BY <1>1, Inductive, PTL

(* Every page below a cursor is in a span.                                 *)
THEOREM NoPageLost == Spec => []PagesAccounted
<1>1. IInv => PagesAccounted
  BY DEF IInv
<1> QED
  BY <1>1, Inductive, PTL

-----------------------------------------------------------------------------
(* Without huge pages, what is handed out is committed.                    *)

LEMMA RangeExact ==
  ASSUME Granule = 1, NEW s \in Span PROVE SystemRange(s) = Pages(s)
<1>1. \A n \in Nat : RoundedUp(n) = n
  BY SMT DEF RoundedUp
<1>2. s.first \in Nat /\ s.count \in Nat
  BY DEF Span
<1> QED
  BY <1>1, <1>2, Zenon DEF SystemRange, Pages

LEMMA CommittedKept ==
  ASSUME Granule = 1, TypeOK, NEW s \in Span, NEW pages, Commit(s, pages),
         HeldCommitted, held' = held \cup {s}
  PROVE  HeldCommitted'
<1>1. committed' = committed \cup Pages(s)
  BY RangeExact DEF Commit, Committed
<1>2. \A q : Pages(q)' = Pages(q)
  BY DEF Pages
<1> QED
  BY <1>1 DEF HeldCommitted, Pages

LEMMA CommittedStep ==
  ASSUME Granule = 1, IInv, HeldCommitted, [Next]_vars PROVE HeldCommitted'
<1>1. TypeOK /\ PagesExclusive
  BY DEF IInv
<1>2. ASSUME NEW h \in Shards, NEW n \in PageCounts, AcquireCached(h, n) PROVE HeldCommitted'
  <2>1. PICK s \in Cached(h, n) :
          \/ Commit(s, size[s.region]) /\ held' = held \cup {s} /\ UNCHANGED lost
          \/ lost' = lost \cup {s} /\ UNCHANGED <<held, committed>>
    BY <1>2 DEF AcquireCached
  <2>2. s \in Span
    BY <1>1 DEF Cached, TypeOK
  <2> QED
    BY <1>1, <2>1, <2>2, CommittedKept DEF HeldCommitted, Pages
<1>3. ASSUME NEW h \in Shards, NEW n \in PageCounts, CutFromRegion(h, n) PROVE HeldCommitted'
  <2>1. PICK r \in Roomy(h, n) :
          LET s == [region |-> r, first |-> nextPage[r], count |-> n] IN
          Commit(s, size[r]) /\ held' = held \cup {s}
    BY <1>3, Zenon DEF CutFromRegion
  <2> DEFINE s == [region |-> r, first |-> nextPage[r], count |-> n]
  <2>2. s \in Span
    BY <1>1 DEF Roomy, TypeOK, Span
  <2> HIDE DEF s
  <2>3. Commit(s, size[r]) /\ held' = held \cup {s}
    BY <2>1 DEF s
  <2> QED
    BY <1>1, <2>2, <2>3, CommittedKept
<1>4. ASSUME NEW h \in Shards, NEW n \in PageCounts, ReserveRegion(h, n) PROVE HeldCommitted'
  <2> DEFINE pages == IF n > RegionPages THEN n ELSE RegionPages
             s == [region |-> nextId[h], first |-> 0, count |-> n]
  <2>1. /\ nextId[h] \in RegionIds
        /\ \/ Commit(s, pages) /\ held' = held \cup {s}
           \/ UNCHANGED <<committed, held>>
    BY <1>4, Zenon DEF ReserveRegion
  <2>2. s \in Span
    BY <2>1 DEF Span
  <2> HIDE DEF s, pages
  <2> QED
    BY <1>1, <2>1, <2>2, CommittedKept DEF HeldCommitted, Pages
<1>5. ASSUME NEW s \in held, ReleaseSpan(s) PROVE HeldCommitted'
  <2>1. s \in Spans /\ held \subseteq Spans /\ s \in Span
    BY <1>1 DEF Spans, TypeOK
  <2>2. held' = held \ {s} /\ (committed' = committed \ Pages(s) \/ committed' = committed)
    BY <1>5, <2>1, RangeExact DEF ReleaseSpan, Decommit
  <2>3. \A q \in held' : Pages(q) \cap Pages(s) = {}
    BY <1>1, <2>1, <2>2 DEF PagesExclusive
  <2>4. \A q \in held' : Pages(q) \subseteq committed'
    BY <2>2, <2>3 DEF HeldCommitted
  <2> QED
    BY <2>4 DEF HeldCommitted, Pages
<1>6. CASE UNCHANGED vars
  BY <1>6 DEF vars, HeldCommitted, Pages
<1>7. CASE \E h \in Shards, n \in PageCounts : AcquireSpan(h, n)
  BY <1>2, <1>3, <1>4, <1>7 DEF AcquireSpan
<1>8. CASE \E s \in held : ReleaseSpan(s)
  BY <1>5, <1>8
<1> QED
  BY <1>6, <1>7, <1>8 DEF Next

(* With a granule of one page, every page of a span that a caller holds is *)
(* committed, whatever the spans next to it go through.                    *)
THEOREM HandedOutCommitted ==
  ASSUME Granule = 1 PROVE Spec => []HeldCommitted
<1>1. Init => HeldCommitted
  BY DEF Init, HeldCommitted
<1>2. IInv /\ HeldCommitted /\ [Next]_vars => HeldCommitted'
  BY CommittedStep
<1> QED
  BY <1>1, <1>2, Inductive, PTL DEF Spec

=============================================================================
