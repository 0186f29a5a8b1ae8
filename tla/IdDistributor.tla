--------------------------- MODULE IdDistributor ---------------------------
(***************************************************************************)
(* core::components::IdDestributor (src/Core/Components/Distrubutor): ids  *)
(* are handed out from striped free lists or from a counter that wraps,    *)
(* and each id in use is a member of a striped hash set (module ActiveSet  *)
(* shows that the stripe's table is a set).  Every stripe is reached under *)
(* its own mutex, one at a time, so a step is one critical section or one  *)
(* atomic operation, and calls interleave between them.                    *)
(*                                                                         *)
(* A mutex is taken to be lockable: the catch (...) around a lock is not   *)
(* modelled.  Callers release only ids that they hold.                     *)
(***************************************************************************)
EXTENDS Integers, Sequences, FiniteSets

CONSTANTS
  Threads,
  NumStripes,   \* StripeCount, a power of two
  StripeOf,     \* stripeIndex: the stripe an id hashes to
  Width,        \* DestributedIdType counts modulo Width (2^64)
  MaxCalls,     \* bound: calls of the three operations
  MayFail       \* whether allocations may fail (bad_alloc)

Stripes == 0 .. NumStripes - 1
Invalid == 0                     \* InvalidDestributedId
Ids     == 1 .. Width - 1
AnyId   == 0 .. Width - 1

ASSUME ParametersAssumption ==
  /\ NumStripes \in Nat \ {0}
  /\ Width \in Nat \ {0, 1}
  /\ StripeOf \in [Ids -> Stripes]
  /\ MaxCalls \in Nat
  /\ MayFail \in BOOLEAN

VARIABLES
  active,    \* the ids in the ActiveStripes
  freeIds,   \* FreeStripes[i].Ids, used as a stack
  nextId,    \* NextId
  cursor,    \* FreeCursor, of which only the low bits are used
  handles,   \* how many callers hold each id
  dropped,   \* ids that a failed allocation took out of circulation
  calls,     \* calls made so far
  pc,        \* where the thread's call stands
  id,        \* the id the call works on
  start,     \* popFree: Start
  probe      \* popFree: I

scanVars == <<start, probe>>
vars == <<active, freeIds, nextId, cursor, handles, dropped, calls, pc, id,
          scanVars>>

Init ==
  /\ active = {}
  /\ freeIds = [s \in Stripes |-> <<>>]
  /\ nextId = 1
  /\ cursor = 0
  /\ handles = [i \in Ids |-> 0]
  /\ dropped = {}
  /\ calls = 0
  /\ pc = [t \in Threads |-> "idle"]
  /\ id = [t \in Threads |-> Invalid]
  /\ start = [t \in Threads |-> 0]
  /\ probe = [t \in Threads |-> 0]

At(t, l)   == pc[t] = l
GoTo(t, l) == pc' = [pc EXCEPT ![t] = l]

Call(t) == At(t, "idle") /\ calls < MaxCalls /\ calls' = calls + 1

-----------------------------------------------------------------------------
(* acquireId, and occupyId and releaseId of an actual id *)

AcquireId(t) ==
  /\ Call(t)
  /\ GoTo(t, "pop")
  /\ UNCHANGED <<active, freeIds, nextId, cursor, handles, dropped, id, scanVars>>

(* Any id at all, used or not: the caller read it from a file.             *)
OccupyId(t, i) ==
  /\ Call(t)
  /\ id' = [id EXCEPT ![t] = i]
  /\ GoTo(t, "occupy")
  /\ UNCHANGED <<active, freeIds, nextId, cursor, handles, dropped, scanVars>>

ReleaseId(t, i) ==
  /\ Call(t)
  /\ handles[i] > 0
  /\ handles' = [handles EXCEPT ![i] = @ - 1]
  /\ id' = [id EXCEPT ![t] = i]
  /\ GoTo(t, "erase")
  /\ UNCHANGED <<active, freeIds, nextId, cursor, dropped, scanVars>>

-----------------------------------------------------------------------------
(* popFree: one stripe after the other, from where the cursor stood *)

PopFree(t) ==
  /\ At(t, "pop")
  /\ start' = [start EXCEPT ![t] = cursor]
  /\ probe' = [probe EXCEPT ![t] = 0]
  /\ cursor' = (cursor + 1) % NumStripes
  /\ GoTo(t, "scan")
  /\ UNCHANGED <<active, freeIds, nextId, handles, dropped, calls, id>>

(* Mutant of NextStripe: the scan steps by two and misses stripes.         *)
NextStripeSkipping(t) == (start[t] + 2 * probe[t]) % NumStripes

(* cursorStripeIndex(Start + I)                                            *)
NextStripe(t) == (start[t] + probe[t]) % NumStripes

Front(ids) == SubSeq(ids, 1, Len(ids) - 1)

ScanStripe(t) ==
  LET s == NextStripe(t) IN
  /\ At(t, "scan")
  /\ probe[t] < NumStripes
  /\ IF freeIds[s] # <<>>
       THEN /\ id' = [id EXCEPT ![t] = freeIds[s][Len(freeIds[s])]]
            /\ freeIds' = [freeIds EXCEPT ![s] = Front(@)]
            /\ GoTo(t, "recycle")
            /\ UNCHANGED probe
       ELSE /\ probe' = [probe EXCEPT ![t] = @ + 1]
            /\ UNCHANGED <<id, freeIds, pc>>
  /\ UNCHANGED <<active, nextId, cursor, handles, dropped, calls, start>>

NoneFree(t) ==
  /\ At(t, "scan")
  /\ probe[t] = NumStripes
  /\ GoTo(t, "fresh")
  /\ UNCHANGED <<active, freeIds, nextId, cursor, handles, dropped, calls, id,
                 scanVars>>

-----------------------------------------------------------------------------
Issuable(i) == i # Invalid

(* acquireFreshId: the counter's next value, unless it is the invalid id.  *)
FreshId(t) ==
  /\ At(t, "fresh")
  /\ nextId' = (nextId + 1) % Width
  /\ id' = [id EXCEPT ![t] = nextId]
  /\ IF Issuable(nextId) THEN GoTo(t, "insert") ELSE UNCHANGED pc
  /\ UNCHANGED <<active, freeIds, cursor, handles, dropped, calls, scanVars>>

(* Mutant of Claimable: the answer of activeInsert is ignored.             *)
ClaimableAlways(i) == TRUE

(* activeInsert answers true                                               *)
Claimable(i) == i \notin active

(* Mutant of AfterTaken: a fresh id that was taken is tried again.         *)
AfterTakenStuck(l) == IF l = "insert" THEN "insert" ELSE "pop"

(* Where a call goes on whose id was taken: acquireFreshId counts on,      *)
(* acquireId and occupyId look for a free id.                              *)
AfterTaken(l) == IF l = "insert" THEN "fresh" ELSE "pop"

(* activeInsert for a recycled, a fresh or an occupied id.                 *)
ActiveInsert(t) ==
  /\ pc[t] \in {"recycle", "insert", "occupy"}
  /\ IF Claimable(id[t])
       THEN /\ active' = active \cup {id[t]}
            /\ handles' = [handles EXCEPT ![id[t]] = @ + 1]
            /\ GoTo(t, "idle")
       ELSE GoTo(t, AfterTaken(pc[t])) /\ UNCHANGED <<active, handles>>
  /\ UNCHANGED <<freeIds, nextId, cursor, dropped, calls, id, scanVars>>

(* The table could not grow: the exception leaves the call, and an id that *)
(* the call had taken from the free list or the counter is gone.           *)
InsertThrows(t) ==
  /\ MayFail
  /\ pc[t] \in {"recycle", "insert", "occupy"}
  /\ dropped' = IF At(t, "occupy") THEN dropped ELSE dropped \cup {id[t]}
  /\ GoTo(t, "idle")
  /\ UNCHANGED <<active, freeIds, nextId, cursor, handles, calls, id, scanVars>>

-----------------------------------------------------------------------------
(* releaseId: activeErase, then pushFree *)

Erased(i) == active \ {i}

ActiveErase(t) ==
  /\ At(t, "erase")
  /\ active' = Erased(id[t])
  /\ GoTo(t, IF id[t] \in active THEN "push" ELSE "idle")
  /\ UNCHANGED <<freeIds, nextId, cursor, handles, dropped, calls, id, scanVars>>

(* Mutant of Pushed: the stripe keeps one id only.                         *)
PushedOver(i) == [freeIds EXCEPT ![StripeOf[i]] = <<i>>]

Pushed(i) == [freeIds EXCEPT ![StripeOf[i]] = Append(@, i)]

PushFree(t) ==
  /\ At(t, "push")
  /\ \/ freeIds' = Pushed(id[t]) /\ UNCHANGED dropped
     \/ MayFail /\ dropped' = dropped \cup {id[t]} /\ UNCHANGED freeIds
  /\ GoTo(t, "idle")
  /\ UNCHANGED <<active, nextId, cursor, handles, calls, id, scanVars>>

-----------------------------------------------------------------------------
Begin(t) ==
  \/ AcquireId(t)
  \/ \E i \in Ids : OccupyId(t, i)
  \/ \E i \in Ids : ReleaseId(t, i)

Continue(t) ==
  \/ PopFree(t) \/ ScanStripe(t) \/ NoneFree(t) \/ FreshId(t)
  \/ ActiveInsert(t) \/ ActiveErase(t) \/ PushFree(t)

Next == \E t \in Threads : Begin(t) \/ Continue(t) \/ InsertThrows(t)

(* A thread inside a call is scheduled again; nobody has to call, and no   *)
(* allocation has to fail.                                                 *)
Spec == Init /\ [][Next]_vars /\ \A t \in Threads : WF_vars(Continue(t))

-----------------------------------------------------------------------------
Labels == {"idle", "pop", "scan", "recycle", "fresh", "insert", "occupy",
           "erase", "push"}

IdInHand ==
  \A t \in Threads :
    pc[t] \in {"recycle", "insert", "occupy", "erase", "push"} => id[t] \in Ids

TypeOK ==
  /\ active \in SUBSET Ids
  /\ freeIds \in [Stripes -> Seq(Ids)]
  /\ nextId \in AnyId
  /\ cursor \in Stripes
  /\ handles \in [Ids -> Nat]
  /\ dropped \in SUBSET Ids
  /\ calls \in Nat
  /\ pc \in [Threads -> Labels]
  /\ id \in [Threads -> AnyId]
  /\ IdInHand
  /\ start \in [Threads -> Stripes]
  /\ probe \in [Threads -> 0 .. NumStripes]

(* No two callers ever hold the same id, whether it was fresh, recycled or *)
(* occupied, also when the counter has wrapped and when a stale entry of a *)
(* free list names an id that was occupied in the meantime.                *)
OneHolder == \A i \in Ids : handles[i] <= 1

Erasing == {i \in Ids : \E t \in Threads : At(t, "erase") /\ id[t] = i}

(* The active set is the ids in use, no more and no less: every id a       *)
(* caller holds is protected, and none stays blocked after its release.    *)
ActiveExact == active = {i \in Ids : handles[i] > 0} \cup Erasing

(* What these two rest on: between its release and its erase an id has no  *)
(* holder, and no two releases are under way for it.                       *)
ReleaseInv ==
  /\ \A t \in Threads : At(t, "erase") => handles[id[t]] = 0
  /\ \A t, u \in Threads :
       t # u /\ At(t, "erase") /\ At(u, "erase") => id[t] # id[u]

(* The inductive invariant that carries the uniqueness of ids through the  *)
(* window in which an id is released but still active.                     *)
IInv == OneHolder /\ ActiveExact /\ ReleaseInv

Listed(i) ==
  \E s \in Stripes : \E k \in 1 .. Len(freeIds[s]) : freeIds[s][k] = i

InFlight(i) ==
  \E t \in Threads : pc[t] \in {"recycle", "insert", "push"} /\ id[t] = i

(* releaseId's comment, "the ID simply won't be reused", is the only way   *)
(* an id leaves circulation: every id the counter has passed is in use,    *)
(* on a free list, in a call's hands or was dropped by a failed            *)
(* allocation.                                                             *)
NothingLost ==
  \A i \in Ids : i < nextId =>
    i \in active \/ Listed(i) \/ InFlight(i) \/ i \in dropped

(* Every call returns, unless all ids are in use: the loops of acquireId   *)
(* and acquireFreshId end although other calls occupy what they find.      *)
CallsReturn ==
  \A t \in Threads : pc[t] # "idle" ~> pc[t] = "idle" \/ active = Ids

(* A call that finds the free lists empty while it scans them, and no      *)
(* other call running, had nothing to recycle: a free id is found in       *)
(* whatever stripe it lies.                                                *)
ScanComplete ==
  \A t \in Threads :
    /\ At(t, "fresh")
    /\ \A u \in Threads \ {t} : At(u, "idle") /\ id[u] = Invalid
    => \A s \in Stripes : freeIds[s] = <<>>
=============================================================================
