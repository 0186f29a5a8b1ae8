------------------------------ MODULE ActiveSet ------------------------------
(***************************************************************************)
(* IdDestributor::ActiveSetImpl (id_distubutor.cpp): the open-addressing   *)
(* hash table with linear probing and tombstones that holds the ids in use *)
(* of one stripe.  It is only reached under the stripe's mutex, so a call  *)
(* is one step.  A slot holds an id, Empty or Tombstone.                   *)
(***************************************************************************)
EXTENDS Integers, FiniteSets

CONSTANTS
  Ids,
  Hash,              \* mix64
  MinCapacity,       \* 16 in normalizeCapacity and rehash
  InitialCapacity,   \* what the constructor reserves
  TombstoneFloor,    \* 32 in ensureInsertCapacity
  MaxLive,           \* bound: ids in the set at once
  Empty,
  Tombstone

(* What a run must choose.                                                 *)
ParametersAssumption ==
  /\ Hash \in [Ids -> Nat]
  /\ MinCapacity \in Nat \ {0}
  /\ InitialCapacity \in Nat \ {0}
  /\ TombstoneFloor \in Nat
  /\ MaxLive \in Nat \ {0}
  /\ Empty # Tombstone
  /\ {Empty, Tombstone} \cap Ids = {}

VARIABLES
  slots,            \* Keys and States, one function; its domain is Capacity
  size,             \* Size
  tombstoneCount,   \* TombstoneCount
  call              \* the last call, its id and what it returned

vars == <<slots, size, tombstoneCount, call>>

(* The call that this step is, and what it returns.                        *)
Called(op, id, answer) == call' = [op |-> op, id |-> id, answer |-> answer]

Indices(capacity) == 0 .. capacity - 1

CapacityOf(table) == Cardinality(DOMAIN table)

Least(S) == CHOOSE x \in S : \A y \in S : x <= y

(* std::bit_ceil                                                           *)
BitCeil(n) == Least({2 ^ k : k \in 0 .. n} \ (0 .. n - 1))

NormalizeCapacity(n) == BitCeil(IF n < MinCapacity THEN MinCapacity ELSE n)

(* The slot of id's probe-th try.                                          *)
Index(table, id, probe) == (Hash[id] + probe) % CapacityOf(table)

(* The probes at which the loops of insert, erase and contains may stop.   *)
Stops(table, id) ==
  {p \in Indices(CapacityOf(table)) : table[Index(table, id, p)] \in {Empty, id}}

(* Mutant of Found: tombstones end the search.                             *)
FoundBeforeTombstone(table, id) ==
  \E p \in Indices(CapacityOf(table)) :
    /\ table[Index(table, id, p)] = id
    /\ \A q \in 0 .. p - 1 : table[Index(table, id, q)] \notin {Empty, Tombstone}

(* The probe loop reaches id before an empty slot.                         *)
Found(table, id) ==
  /\ Stops(table, id) # {}
  /\ table[Index(table, id, Least(Stops(table, id)))] = id

EmptyTable(capacity) == [i \in Indices(capacity) |-> Empty]

(* insertDuringRehash: the first empty slot; none would lose the id.       *)
Placed(table, id) ==
  LET Free == {p \in Indices(CapacityOf(table)) : table[Index(table, id, p)] = Empty}
  IN  IF Free = {} THEN table
      ELSE [table EXCEPT ![Index(table, id, Least(Free))] = id]

(* rehash: the ids of the old slots, in order, into a table of the new     *)
(* capacity or more.                                                       *)
Rehashed(table, n, capacity) ==
  LET room  == IF capacity < n * 2 + MinCapacity THEN n * 2 + MinCapacity ELSE capacity
      moved[i \in 0 .. CapacityOf(table)] ==
        IF i = 0 THEN EmptyTable(NormalizeCapacity(room))
        ELSE IF table[i - 1] \in Ids THEN Placed(moved[i - 1], table[i - 1])
        ELSE moved[i - 1]
  IN  moved[CapacityOf(table)]

NeedsRoom(capacity) == (size + tombstoneCount + 1) * 10 > capacity * 7

NeedsCleanup == tombstoneCount > TombstoneFloor /\ tombstoneCount > size

(* ensureInsertCapacity                                                    *)
Ensured ==
  LET capacity == CapacityOf(slots) IN
  IF NeedsRoom(capacity) THEN Rehashed(slots, size, NormalizeCapacity(capacity * 2))
  ELSE IF NeedsCleanup THEN Rehashed(slots, size, capacity)
  ELSE slots

LiveIn(table) == Cardinality({i \in DOMAIN table : table[i] \in Ids})

TombstonesOf(table) == Cardinality({i \in DOMAIN table : table[i] = Tombstone})

(* Mutant of Target: the slot just before the empty one.                   *)
TargetBefore(table, id) ==
  Index(table, id, Least(Stops(table, id)) + CapacityOf(table) - 1)

(* The first tombstone on the way, else the empty slot that ended it.      *)
Target(table, id) ==
  LET stop == Least(Stops(table, id))
      Reusable == {p \in 0 .. stop - 1 : table[Index(table, id, p)] = Tombstone}
  IN  Index(table, id, IF Reusable = {} THEN stop ELSE Least(Reusable))

(* The fallback behind the loop, for a table without an empty slot.        *)
Probed(table, id) ==
  IF Stops(table, id) = {} THEN Rehashed(table, size, CapacityOf(table) * 2) ELSE table

Insert(id) ==
  LET table  == Probed(Ensured, id)
      target == Target(table, id)
      live   == IF table = slots THEN size ELSE LiveIn(table)
      dead   == IF table = slots THEN tombstoneCount ELSE 0
  IN
  /\ size < MaxLive \/ Found(slots, id)
  /\ Called("insert", id, ~Found(table, id))
  /\ IF Found(table, id)
       THEN /\ slots' = table
            /\ size' = live
            /\ tombstoneCount' = dead
       ELSE /\ slots' = [table EXCEPT ![target] = id]
            /\ size' = live + 1
            /\ tombstoneCount' = IF table[target] = Tombstone THEN dead - 1 ELSE dead

Erase(id) ==
  /\ Called("erase", id, Found(slots, id))
  /\ IF Found(slots, id)
       THEN /\ slots' = [slots EXCEPT ![Index(slots, id, Least(Stops(slots, id)))] = Tombstone]
            /\ size' = size - 1
            /\ tombstoneCount' = tombstoneCount + 1
       ELSE UNCHANGED <<slots, size, tombstoneCount>>

Contains(id) ==
  /\ Called("contains", id, Found(slots, id))
  /\ UNCHANGED <<slots, size, tombstoneCount>>

(* The constructor reserves before the first call.                         *)
Init ==
  /\ slots = EmptyTable(NormalizeCapacity(InitialCapacity))
  /\ size = 0
  /\ tombstoneCount = 0
  /\ call = [op |-> "none"]

Next == \E id \in Ids : Insert(id) \/ Erase(id) \/ Contains(id)

Spec == Init /\ [][Next]_vars

-----------------------------------------------------------------------------
TypeOK ==
  /\ \E k \in 0 .. 10 : slots \in [Indices(2 ^ k) -> Ids \cup {Empty, Tombstone}]
  /\ size \in Nat
  /\ tombstoneCount \in Nat

Set == INSTANCE IdSet WITH
  members <- {id \in Ids : Found(slots, id)}

(* Through growth, sweeps and reused tombstones the table is a set: every  *)
(* call answers what a set would and changes the membership of its own id  *)
(* only.                                                                   *)
ImplementsSet == Set!Spec

(* Size and TombstoneCount, from which ensureInsertCapacity decides, are   *)
(* what is in the table.                                                   *)
CountsExact ==
  /\ size = LiveIn(slots)
  /\ tombstoneCount = TombstonesOf(slots)

(* The comments "Unreachable" behind the loops of insert and of            *)
(* insertDuringRehash (:111, :240): a probe always meets an empty slot     *)
(* before it has tried them all.                                           *)
EmptySlotLeft == \E i \in DOMAIN slots : slots[i] = Empty

(* Inserting and erasing for ever does not make the table grow for ever:   *)
(* beyond its first size its capacity is limited by what is live at once   *)
(* and by the tombstones that ensureInsertCapacity tolerates.              *)
CapacityBounded ==
  LET capacity == CapacityOf(slots)
      used == MaxLive + (IF TombstoneFloor > MaxLive - 1 THEN TombstoneFloor
                                                         ELSE MaxLive - 1)
  IN  \/ capacity = NormalizeCapacity(InitialCapacity)
      \/ capacity * 7 < 20 * (used + 1)
      \/ capacity < 4 * MaxLive + 2 * MinCapacity
=============================================================================
