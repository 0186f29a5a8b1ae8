---------------------------- MODULE PageAllocator ----------------------------
(***************************************************************************)
(* PageAllocator (src/Core/Memory/virtual_memory_backend.h): each shard    *)
(* reserves regions of address space, cuts page spans off their front and  *)
(* keeps the spans that come back in a cache by page count.  A call holds  *)
(* the spin lock of the one shard it works in, so a call is a step.        *)
(*                                                                         *)
(* Page p of region r is <<r, p>>.  The caches' buckets, which a span      *)
(* enters and leaves by its page count, are one set; RegionIndex holds     *)
(* what Regions holds.  Whether a released span is also decommitted is a   *)
(* matter of size and sampling in the code and left open here.             *)
(***************************************************************************)
EXTENDS Integers, FiniteSets

CONSTANTS
  NumShards,     \* ShardCount
  PageCounts,    \* the sizes that are asked for
  RegionPages,   \* SmallRegionReserveBytes in pages
  Granule,       \* pages per VirtualRegion::PageSize, 1 without huge pages
  MaxRegionId    \* bound: the last region that is numbered

ASSUME ParametersAssumption ==
  /\ NumShards \in Nat \ {0}
  /\ PageCounts \subseteq Nat \ {0}
  /\ RegionPages \in Nat \ {0}
  /\ Granule \in Nat \ {0}
  /\ MaxRegionId \in Nat

Shards == 0 .. NumShards - 1

(* Shard i numbers its regions i, i + NumShards, ..., and 0 is no region.  *)
RegionIds == 1 .. MaxRegionId

Span == [region : RegionIds, first : Nat, count : PageCounts]

VARIABLES
  nextId,      \* Shard::NextRegionId
  regions,     \* the regions of all shards
  size,        \* RegionCursor::ReservedPages
  nextPage,    \* RegionCursor::NextPage
  committed,   \* the pages that may be read and written
  cache,       \* FreeSpanCache and OversizedFreeSpanCache
  held,        \* the spans that callers hold
  lost         \* spans that nobody can have again

regionVars == <<nextId, regions, size, nextPage>>
vars == <<regionVars, committed, cache, held, lost>>

Init ==
  /\ nextId = [h \in Shards |-> IF h = 0 THEN NumShards ELSE h]
  /\ regions = {}
  /\ size = [r \in RegionIds |-> 0]
  /\ nextPage = [r \in RegionIds |-> 0]
  /\ committed = {}
  /\ cache = [h \in Shards |-> {}]
  /\ held = {}
  /\ lost = {}

Pages(s) == {s.region} \X (s.first .. s.first + s.count - 1)

-----------------------------------------------------------------------------
(* VirtualMemoryManager *)

RoundedUp(n) == ((n + Granule - 1) \div Granule) * Granule

(* The pages that commit and decommit of a span name to the system.        *)
SystemRange(s) ==
  {s.region} \X (RoundedUp(s.first) .. RoundedUp(s.first) + RoundedUp(s.count) - 1)

InsideRegion(s, pages) == RoundedUp(s.first) + RoundedUp(s.count) <= RoundedUp(pages)

(* Mutant of Committed: a range that was once committed stays so.          *)
CommittedAlready(s) == committed

Committed(s) == committed \cup SystemRange(s)

Commit(s, pages) == InsideRegion(s, pages) /\ committed' = Committed(s)

Decommit(s) == InsideRegion(s, size[s.region]) /\ committed' = committed \ SystemRange(s)

-----------------------------------------------------------------------------
(* acquireSpan *)

Cached(h, n) == {s \in cache[h] : s.count = n}

(* getShard                                                                *)
HomeShard(r) == r % NumShards

(* The regions of a shard whose rest has room for n pages.                 *)
Roomy(h, n) == {r \in regions : HomeShard(r) = h /\ size[r] - nextPage[r] >= n}

AcquireCached(h, n) ==
  \E s \in Cached(h, n) :
    /\ cache' = [cache EXCEPT ![h] = @ \ {s}]
    /\ \/ Commit(s, size[s.region]) /\ held' = held \cup {s} /\ UNCHANGED lost
       \/ lost' = lost \cup {s} /\ UNCHANGED <<held, committed>>
    /\ UNCHANGED regionVars

(* Mutant of CutTo: the cursor is one page short.                          *)
CutToShort(s) == s.first + s.count - 1

(* Mutant of CutTo: the cursor is one page too far.                        *)
CutToPast(s) == s.first + s.count + 1

CutTo(s) == s.first + s.count

(* Regions are tried in the order in which they were reserved.  A failing  *)
(* commit moves the cursor back: nothing has changed.                      *)
CutFromRegion(h, n) ==
  \E r \in Roomy(h, n) :
    LET s == [region |-> r, first |-> nextPage[r], count |-> n] IN
    /\ Cached(h, n) = {}
    /\ \A q \in Roomy(h, n) : r <= q
    /\ Commit(s, size[r])
    /\ nextPage' = [nextPage EXCEPT ![r] = CutTo(s)]
    /\ held' = held \cup {s}
    /\ UNCHANGED <<nextId, regions, size, cache, lost>>

(* A region of the usual size, or of the size that was asked for.  If it   *)
(* cannot be indexed or its first pages cannot be committed it is released *)
(* again, and only its number is used up.                                  *)
ReserveRegion(h, n) ==
  LET r     == nextId[h]
      pages == IF n > RegionPages THEN n ELSE RegionPages
      s     == [region |-> r, first |-> 0, count |-> n]
  IN
  /\ Cached(h, n) = {}
  /\ Roomy(h, n) = {}
  /\ r \in RegionIds
  /\ nextId' = [nextId EXCEPT ![h] = @ + NumShards]
  /\ \/ /\ Commit(s, pages)
        /\ regions' = regions \cup {r}
        /\ size' = [size EXCEPT ![r] = pages]
        /\ nextPage' = [nextPage EXCEPT ![r] = CutTo(s)]
        /\ held' = held \cup {s}
     \/ UNCHANGED <<regions, size, nextPage, committed, held>>
  /\ UNCHANGED <<cache, lost>>

-----------------------------------------------------------------------------
(* Any thread may release what another one acquired.                       *)
ReleaseSpan(s) ==
  /\ s \in held
  /\ held' = held \ {s}
  /\ cache' = [cache EXCEPT ![HomeShard(s.region)] = @ \cup {s}]
  /\ Decommit(s) \/ UNCHANGED committed
  /\ UNCHANGED <<regionVars, lost>>

AcquireSpan(h, n) == AcquireCached(h, n) \/ CutFromRegion(h, n) \/ ReserveRegion(h, n)

Next ==
  \/ \E h \in Shards, n \in PageCounts : AcquireSpan(h, n)
  \/ \E s \in held : ReleaseSpan(s)

Spec == Init /\ [][Next]_vars

-----------------------------------------------------------------------------
(* The variables have their types and no cursor passes the end of its      *)
(* region.                                                                 *)
TypeOK ==
  /\ nextId \in [Shards -> Nat]
  /\ regions \in SUBSET RegionIds
  /\ size \in [RegionIds -> Nat]
  /\ nextPage \in [RegionIds -> Nat]
  /\ \A r \in RegionIds : nextPage[r] <= size[r]
  /\ committed \in SUBSET (RegionIds \X Nat)
  /\ cache \in [Shards -> SUBSET Span]
  /\ held \in SUBSET Span
  /\ lost \in SUBSET Span

Spans == held \cup lost \cup UNION {cache[h] : h \in Shards}

(* No page is in two spans, whether callers hold them or they wait in a    *)
(* cache: no two callers are ever given the same memory.                   *)
PagesExclusive ==
  /\ \A s, q \in Spans : s # q => Pages(s) \cap Pages(q) = {}
  /\ \A h \in Shards : held \cap cache[h] = {}
  /\ \A g, h \in Shards : g # h => cache[g] \cap cache[h] = {}

(* memory/readme.md 6.1, "released spans go back to their shard by         *)
(* OwnerRegionId": a cached span lies below the cursor of a region of the  *)
(* shard that caches it, which acquireSpan relies on to find its region.   *)
ComesHome ==
  \A h \in Shards : \A s \in cache[h] :
    s.region \in regions /\ s.region % NumShards = h /\ s.first + s.count <= nextPage[s.region]

(* Every page that was cut off a region is in a span; pages drop out of    *)
(* use only by the failing commit that is counted as lost.                 *)
PagesAccounted ==
  \A r \in regions : \A p \in 0 .. nextPage[r] - 1 :
    \E s \in Spans : <<r, p>> \in Pages(s)

(* virtual_memory_backend.h:208, "call before handing a page span to upper *)
(* allocator layers": every page of a span that a caller holds may be      *)
(* read and written, however often its neighbours come and go.             *)
HeldCommitted == \A s \in held : Pages(s) \subseteq committed

-----------------------------------------------------------------------------
(* The numbers that a shard has not given out yet are its own and new.     *)
NumbersInv ==
  \A h \in Shards :
    /\ HomeShard(nextId[h]) = h
    /\ \A r \in regions : HomeShard(r) = h => r < nextId[h]

(* Spans lie below the cursor of a region.                                 *)
BelowInv ==
  \A s \in Spans : s.region \in regions /\ s.first + s.count <= nextPage[s.region]

HomeInv == \A h \in Shards : \A s \in cache[h] : HomeShard(s.region) = h

(* The inductive invariant: a number is never given out twice, so a new    *)
(* region holds no span yet, and a new span starts where all others end.   *)
IInv ==
  /\ TypeOK
  /\ NumbersInv
  /\ BelowInv
  /\ HomeInv
  /\ PagesExclusive
  /\ PagesAccounted
=============================================================================
