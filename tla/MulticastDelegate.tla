------------------------- MODULE MulticastDelegate -------------------------
(***************************************************************************)
(* multicast_delegate (delegate.h): callbacks in reusable slots, called in *)
(* the order they were added.  A callback may add, remove, clear and       *)
(* broadcast again, and so may the destructor of a callback that is being  *)
(* dropped, so the module keeps the stack of calls in progress: a          *)
(* broadcast with its position, or the release of a retired slot.  One     *)
(* thread uses a delegate; a step is what runs between two calls out.      *)
(*                                                                         *)
(* Slot numbers start at 1 here, as in a handle's low word; 0 stands for   *)
(* InvalidSlot.                                                            *)
(***************************************************************************)
EXTENDS Naturals, Sequences, FiniteSets, SequencesExt

CONSTANTS
  LastGeneration,   \* generations are 1 .. LastGeneration, 2^32 - 1 in the code
  CompactAt,        \* 16 in shouldCompactOrder
  MaxAdds,          \* bound: calls of add
  MaxFrames         \* bound: nested calls

(* What a run must choose.                                                 *)
ParametersAssumption ==
  /\ LastGeneration \in Nat \ {0}
  /\ CompactAt \in Nat \ {0}
  /\ MaxAdds \in Nat
  /\ MaxFrames \in Nat \ {0}

VARIABLES
  slots,          \* Slots: callback, generation, next, active
  order,          \* Order: index and generation of each registration
  freeHead,       \* FreeHead
  retiredHead,    \* RetiredHead
  activeCount,    \* ActiveCount
  depth,          \* BroadcastDepth
  tombstones,     \* TombstoneCount
  frames,         \* the calls in progress, the innermost last
  handles,        \* the handles add returned; callback c is the c-th added
  removed         \* callbacks remove or clear has retired

list == <<slots, order, freeHead, retiredHead, activeCount, depth, tombstones>>
vars == <<list, frames, handles, removed>>

None == 0

(* makeHandle                                                              *)
Handle(index, generation) == [index |-> index, generation |-> generation]

NextGeneration(g) == IF g = LastGeneration THEN 1 ELSE g + 1

IsActive(s, entry) ==
  /\ entry.index \in DOMAIN s
  /\ s[entry.index].active
  /\ s[entry.index].generation = entry.generation

(***************************************************************************)
(* The caller runs when nothing is in progress, or inside a callback or a  *)
(* callback's destructor.                                                  *)
(***************************************************************************)
BroadcastFrame(f) == f.kind = "broadcast"

CallerRuns == frames # <<>> => Last(frames).running

SetTop(f) == [frames EXCEPT ![Len(frames)] = f]

(***************************************************************************)
(* The release of the retired slots, after which Order may be compacted.   *)
(* Resetting a slot's callback runs its destructor: the frame of the       *)
(* release is left on the stack until Released.                            *)
(***************************************************************************)
Live(s, o) ==
  LET kept[i \in 0 .. Len(o)] ==
        IF i = 0 THEN <<>> ELSE IF IsActive(s, o[i]) THEN Append(kept[i - 1], o[i]) ELSE kept[i - 1]
  IN  kept[Len(o)]

ShouldCompact(active, dead, o) ==
  active = 0 \/ (dead >= CompactAt /\ dead * 2 >= Len(o))

(* compactOrder, when shouldCompactOrder says so.                          *)
CompactedOrder(s, o, active, dead) ==
  IF ShouldCompact(active, dead, o) THEN Live(s, o) ELSE o

CompactedDead(o, active, dead) == IF ShouldCompact(active, dead, o) THEN 0 ELSE dead

(* finalizeRetiredSlots of a delegate with these slots, order and counts:  *)
(* take the first retired slot off its list and enter the destructor, or   *)
(* compact and leave.  rest is the stack below.                            *)
Finalize(s, o, free, retired, active, dead, rest) ==
  /\ slots' = s
  /\ freeHead' = free
  /\ activeCount' = active
  /\ IF retired # None
     THEN /\ retiredHead' = s[retired].next
          /\ frames' = Append(rest, [kind |-> "release", slot |-> retired, running |-> TRUE])
          /\ order' = o
          /\ tombstones' = dead
     ELSE /\ retiredHead' = None
          /\ frames' = rest
          /\ order' = CompactedOrder(s, o, active, dead)
          /\ tombstones' = CompactedDead(o, active, dead)

(* The destructor returns; the slot joins the free list.                   *)
Released ==
  /\ frames # <<>>
  /\ Last(frames).kind = "release"
  /\ LET slot == Last(frames).slot
     IN  Finalize([slots EXCEPT ![slot].callback = None, ![slot].next = freeHead],
                  order, slot, retiredHead, activeCount, tombstones, Front(frames))
  /\ UNCHANGED <<depth, handles, removed>>

(***************************************************************************)
(* add: a slot from the free list or a new one, an entry at the end of     *)
(* Order, and the callback.                                                *)
(***************************************************************************)
NewSlot == [callback |-> None, generation |-> 1, next |-> None, active |-> FALSE]

(* The slots once acquireSlot has taken one.                               *)
AcquiredSlots ==
  IF freeHead # None THEN [slots EXCEPT ![freeHead].next = None] ELSE Append(slots, NewSlot)

AcquiredIndex == IF freeHead # None THEN freeHead ELSE Len(slots) + 1

AcquiredFree == IF freeHead # None THEN slots[freeHead].next ELSE None

Add ==
  /\ CallerRuns
  /\ Len(handles) < MaxAdds
  /\ LET i == AcquiredIndex
         g == AcquiredSlots[i].generation
     IN  /\ slots' = [AcquiredSlots EXCEPT ![i].callback = Len(handles) + 1, ![i].active = TRUE]
         /\ order' = Append(order, Handle(i, g))
         /\ handles' = Append(handles, Handle(i, g))
  /\ freeHead' = AcquiredFree
  /\ activeCount' = activeCount + 1
  /\ UNCHANGED <<retiredHead, depth, tombstones, frames, removed>>

(* Order.push_back throws: releaseUnboundSlot returns the slot.            *)
AddFails ==
  /\ CallerRuns
  /\ Len(handles) < MaxAdds
  /\ slots' = [AcquiredSlots EXCEPT ![AcquiredIndex].next = AcquiredFree]
  /\ freeHead' = AcquiredIndex
  /\ UNCHANGED <<order, retiredHead, activeCount, depth, tombstones, frames, handles, removed>>

(***************************************************************************)
(* remove and clear                                                        *)
(***************************************************************************)

(* retireSlot                                                              *)
Retired(s, slot, head) ==
  [s EXCEPT ![slot].active = FALSE,
            ![slot].generation = NextGeneration(@),
            ![slot].next = head]

(* A broadcast in progress defers the release.                             *)
Deferred == depth # 0

FinalizeUnlessDeferred(s, retired, active, dead) ==
  IF Deferred
  THEN /\ slots' = s
       /\ retiredHead' = retired
       /\ activeCount' = active
       /\ tombstones' = dead
       /\ UNCHANGED <<order, freeHead, frames>>
  ELSE Finalize(s, order, freeHead, retired, active, dead, frames)

RemoveCallback(c) ==
  /\ CallerRuns
  /\ Len(frames) < MaxFrames
  /\ IsActive(slots, handles[c])
  /\ removed' = removed \cup {c}
  /\ LET slot == handles[c].index
     IN  FinalizeUnlessDeferred(Retired(slots, slot, retiredHead), slot,
                                activeCount - 1, tombstones + 1)
  /\ UNCHANGED <<depth, handles>>

(* The entries clear retires, in order.                                    *)
ActiveEntries == Live(slots, order)

(* The slots and RetiredHead once the slots of these entries are retired.  *)
Cleared(entries) ==
  LET after[i \in 0 .. Len(entries)] ==
        IF i = 0 THEN [s |-> slots, head |-> retiredHead]
        ELSE [s |-> Retired(after[i - 1].s, entries[i].index, after[i - 1].head), head |-> entries[i].index]
  IN  after[Len(entries)]

Clear ==
  /\ CallerRuns
  /\ Len(frames) < MaxFrames
  /\ LET n == Len(ActiveEntries)
         After == Cleared(ActiveEntries)
     IN  FinalizeUnlessDeferred(After.s, After.head, activeCount - n, tombstones + n)
  /\ removed' = 1 .. Len(handles)
  /\ UNCHANGED <<depth, handles>>

(***************************************************************************)
(* broadcast and collect: the scope raises BroadcastDepth; the loop runs   *)
(* over the entries Order had at the start.  due and called are history:   *)
(* the callbacks registered at the start and those called, in order.       *)
(***************************************************************************)
Registered == 1 .. Len(handles) \ removed

BroadcastBegin ==
  /\ CallerRuns
  /\ Len(frames) < MaxFrames
  /\ depth' = depth + 1
  /\ frames' = Append(frames, [kind |-> "broadcast", running |-> FALSE, at |-> 1,
                               end |-> Len(order), due |-> Registered, called |-> <<>>])
  /\ UNCHANGED <<slots, order, freeHead, retiredHead, activeCount, tombstones, handles, removed>>

Looping == frames # <<>> /\ BroadcastFrame(Last(frames)) /\ ~Last(frames).running

(* Mutant of LastEntry: the loop runs to the end Order has now.            *)
LastEntryNow(f) == Len(order)

(* InitialOrderSize                                                        *)
LastEntry(f) == f.end

(* Mutant of BroadcastStep: the entry is not looked at before the call.    *)
BroadcastStepUnchecked ==
  /\ Looping
  /\ LET f == Last(frames)
     IN  /\ f.at <= LastEntry(f)
         /\ frames' = SetTop([f EXCEPT !.running = TRUE,
              !.called = Append(@, slots[order[f.at].index].callback)])
  /\ UNCHANGED <<list, handles, removed>>

(* The next active entry's callback is entered; an entry that is no longer *)
(* active is passed over.                                                  *)
BroadcastStep ==
  /\ Looping
  /\ LET f == Last(frames)
     IN  /\ f.at <= LastEntry(f)
         /\ IF IsActive(slots, order[f.at])
            THEN frames' = SetTop([f EXCEPT !.running = TRUE,
                     !.called = Append(@, slots[order[f.at].index].callback)])
            ELSE frames' = SetTop([f EXCEPT !.at = @ + 1])
  /\ UNCHANGED <<list, handles, removed>>

(* The callback returns.                                                   *)
CallbackReturns ==
  /\ frames # <<>>
  /\ BroadcastFrame(Last(frames))
  /\ Last(frames).running
  /\ frames' = SetTop([Last(frames) EXCEPT !.running = FALSE, !.at = @ + 1])
  /\ UNCHANGED <<list, handles, removed>>

(* ~BroadcastScope, at the end of the loop or when a callback throws.      *)
LeaveScope ==
  /\ depth' = depth - 1
  /\ IF depth = 1
     THEN Finalize(slots, order, freeHead, retiredHead, activeCount, tombstones, Front(frames))
     ELSE /\ frames' = Front(frames)
          /\ UNCHANGED <<slots, order, freeHead, retiredHead, activeCount, tombstones>>
  /\ UNCHANGED <<handles, removed>>

BroadcastEnd ==
  /\ Looping
  /\ Last(frames).at > LastEntry(Last(frames))
  /\ LeaveScope

CallbackThrows ==
  /\ frames # <<>>
  /\ BroadcastFrame(Last(frames))
  /\ Last(frames).running
  /\ LeaveScope

Init ==
  /\ slots = <<>>
  /\ order = <<>>
  /\ freeHead = None
  /\ retiredHead = None
  /\ activeCount = 0
  /\ depth = 0
  /\ tombstones = 0
  /\ frames = <<>>
  /\ handles = <<>>
  /\ removed = {}

Next ==
  \/ Add
  \/ AddFails
  \/ \E c \in 1 .. Len(handles) : RemoveCallback(c)
  \/ Clear
  \/ BroadcastBegin
  \/ BroadcastStep
  \/ CallbackReturns
  \/ CallbackThrows
  \/ BroadcastEnd
  \/ Released

Spec == Init /\ [][Next]_vars

-----------------------------------------------------------------------------
Slots == DOMAIN slots

Frame ==
  [kind : {"release"}, slot : Slots, running : {TRUE}]
    \cup
  [kind : {"broadcast"}, running : BOOLEAN, at : 1 .. Len(order) + 1, end : 0 .. Len(order),
   due : SUBSET (1 .. Len(handles)), called : Seq(1 .. Len(handles))]

(* Heads and links name slots, counters stay within their sizes.           *)
TypeOK ==
  /\ slots \in Seq([callback : 0 .. MaxAdds, generation : 1 .. LastGeneration,
                    next : 0 .. Len(slots), active : BOOLEAN])
  /\ order \in Seq([index : Slots, generation : 1 .. LastGeneration])
  /\ freeHead \in 0 .. Len(slots) /\ retiredHead \in 0 .. Len(slots)
  /\ activeCount \in 0 .. Len(slots)
  /\ depth \in 0 .. MaxFrames
  /\ tombstones \in 0 .. Len(order)
  /\ frames \in Seq(Frame)
  /\ handles \in Seq([index : Slots, generation : 1 .. LastGeneration])
  /\ removed \subseteq 1 .. Len(handles)

(* The slots of a list, from its head.                                     *)
Chain(first) ==
  LET reach[i \in 0 .. Len(slots)] ==
        IF i = 0 THEN {first} \ {None}
        ELSE reach[i - 1] \cup ({slots[k].next : k \in reach[i - 1]} \ {None})
  IN  reach[Len(slots)]

BeingReleased == {frames[k].slot : k \in {k \in DOMAIN frames : frames[k].kind = "release"}}

(* A slot is active, free, retired or being released, one of the four, and *)
(* none is lost: neither by a nested release nor by an add that throws.    *)
SlotsAccounted ==
  LET Active == {i \in Slots : slots[i].active}
      Parts  == <<Active, Chain(freeHead), Chain(retiredHead), BeingReleased>>
  IN  /\ UNION {Parts[p] : p \in 1 .. 4} = Slots
      /\ \A p, q \in 1 .. 4 : p # q => Parts[p] \cap Parts[q] = {}

(* ActiveCount and TombstoneCount, which size, bound and the compaction    *)
(* rely on, agree with the slots and with Order.                           *)
CountsExact ==
  /\ activeCount = Cardinality({i \in Slots : slots[i].active})
  /\ activeCount = Cardinality(Registered)
  /\ tombstones = Len(order) - Len(Live(slots, order))

(* A handle reaches its own callback until that is removed and nothing     *)
(* afterwards, however often its slot is used again.                       *)
HandlesOwn ==
  \A c \in 1 .. Len(handles) :
    /\ IsActive(slots, handles[c]) <=> c \notin removed
    /\ c \notin removed => slots[handles[c].index].callback = c

(* The callback a broadcast is inside of is not destroyed and its slot not *)
(* given away, even when it removes itself.                                *)
RunningKept ==
  \A k \in DOMAIN frames :
    BroadcastFrame(frames[k]) /\ frames[k].running =>
      /\ frames[k].at \in DOMAIN order
      /\ slots[order[frames[k].at].index].callback = Last(frames[k].called)

(* A broadcast calls each callback at most once, in the order they were    *)
(* added, none that joined after it started, and misses none that was      *)
(* there throughout.                                                       *)
BroadcastExact ==
  \A k \in DOMAIN frames : BroadcastFrame(frames[k]) =>
    LET f == frames[k]
    IN  /\ \A i, j \in DOMAIN f.called : i < j => f.called[i] < f.called[j]
        /\ ToSet(f.called) \subseteq f.due
        /\ f.at > f.end => f.due \subseteq ToSet(f.called) \cup removed

(* Once no call is in progress every removed callback has been destroyed   *)
(* and the dead entries of Order stay few.                                 *)
NothingDeferred ==
  frames = <<>> =>
    /\ depth = 0
    /\ retiredHead = None
    /\ {slots[i].callback : i \in Slots} \ {None} = Registered
    /\ tombstones < CompactAt \/ tombstones * 2 < Len(order)

(* No removed callback is entered: a callback a broadcast calls is         *)
(* registered at that moment.                                              *)
CallsRegistered ==
  [][\A k \in DOMAIN frames \cap DOMAIN frames' :
       /\ BroadcastFrame(frames[k]) /\ BroadcastFrame(frames'[k])
       /\ Len(frames'[k].called) > Len(frames[k].called)
       => Last(frames'[k].called) \notin removed]_vars
=============================================================================
