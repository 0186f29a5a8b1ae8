---------------------------- MODULE MemoryEvents ----------------------------
(***************************************************************************)
(* The event bus of the allocator (memory_common.h), the events a call     *)
(* announces once its block is taken or already given back                 *)
(* (memory_facade.h), and its two observers: the map of live allocations   *)
(* of MemoryLeakDetectorObserver and the counters of                       *)
(* MemoryStatisticsObserver.  bind and unbind copy the list of observers   *)
(* under a mutex; emit reads it without.  One step per lock, load of the   *)
(* list, callback and access to the byte counters.                         *)
(***************************************************************************)
EXTENDS Integers, Sequences, FiniteSets, Functions

CONSTANTS
  Threads,
  Pointers,       \* what the allocator may return
  SizeOf,         \* the size asked of each
  OsPointers,     \* those of dedicated regions
  Detector, Statistics,
  BoundFirst,     \* the observers bound at start-up
  None,
  ByteModulus,    \* width of CurrentBytes
  MaxCalls        \* bound: calls

(* CurrentBytes can count every block at once, and again one of each thread*)
(* whose release is announced late.                                        *)
WideEnough ==
  \E most \in 0 .. ByteModulus :
    /\ \A p \in Pointers : SizeOf[p] <= most
    /\ SumFunction(SizeOf) + SumFunction([t \in Threads |-> most]) < ByteModulus

ParametersAssumption ==
  /\ IsFiniteSet(Threads) /\ IsFiniteSet(Pointers) /\ None \notin Threads \cup Pointers \cup Nat
  /\ SizeOf \in [Pointers -> Nat \ {0}] /\ OsPointers \subseteq Pointers
  /\ Detector # Statistics /\ BoundFirst \in Seq({Detector, Statistics}) /\ ByteModulus \in Nat /\ MaxCalls \in Nat
  /\ WideEnough

VARIABLES
  snapshot,   \* the objects of Snapshot, in the order they are called
  mutex,      \* who holds MutationMutex
  held,       \* number of the allocation that has a block; None once given back
  live,       \* LiveAllocations: the number of the allocation recorded
  current, peak, counts,
  pc, work,
  calls,
  times,      \* ghost: how often an object has been bound since its last unbind
  skewed,     \* ghost: objects some event was not announced to exactly once
  lost        \* ghost: allocations whose record the event of an older one erased

busVars == <<snapshot, mutex, times>>
seenVars == <<live, current, peak, counts, lost>>
vars == <<busVars, held, seenVars, pc, work, calls, skewed>>

Observers == {Detector, Statistics}
Counted == {"Allocate", "Deallocate", "ThreadCacheHit", "ThreadCacheMiss", "CentralFetch",
            "CentralReturn", "OsAllocate", "OsRelease", "GuardCorruption"}
NoWork == [ptr |-> None, number |-> 0, events |-> <<>>, list |-> <<>>, seen |-> 0, object |-> None, next |-> <<>>]

Init ==
  /\ snapshot = BoundFirst /\ mutex = None
  /\ held = [p \in Pointers |-> None] /\ live = held
  /\ current = 0 /\ peak = 0 /\ counts = [e \in Counted |-> 0]
  /\ pc = [t \in Threads |-> "idle"] /\ work = [t \in Threads |-> NoWork]
  /\ calls = 0
  /\ times = [o \in Observers |-> Cardinality({i \in DOMAIN BoundFirst : BoundFirst[i] = o})] /\ skewed = {} /\ lost = {}

Goto(t, where) == pc' = [pc EXCEPT ![t] = where]

Begin(t, where, w) ==
  /\ pc[t] = "idle"
  /\ calls < MaxCalls
  /\ calls' = calls + 1
  /\ Goto(t, where)
  /\ work' = [work EXCEPT ![t] = w]

-----------------------------------------------------------------------------
(* bind and unbind                                                         *)

MayMutate == mutex = None

(* unbind copies the entries that are not of the object. *)
Without(q, o) ==
  LET kept[i \in 0 .. Len(q)] ==
        IF i = 0 THEN <<>> ELSE IF q[i] = o THEN kept[i - 1] ELSE Append(kept[i - 1], q[i])
  IN  kept[Len(q)]

(* bind adds an entry, also for an object that has one; unbind erases all. *)
Mutate(t) ==
  \E o \in Observers, bind \in BOOLEAN :
    /\ MayMutate
    /\ Begin(t, "publish",
             [NoWork EXCEPT !.object = o, !.events = IF bind THEN <<"bind">> ELSE <<"unbind">>,
                            !.next = IF bind THEN Append(snapshot, o) ELSE Without(snapshot, o)])
    /\ mutex' = t
    /\ UNCHANGED <<snapshot, times, held, seenVars, skewed>>

Publish(t) ==
  /\ pc[t] = "publish"
  /\ snapshot' = work[t].next
  /\ times' = [times EXCEPT ![work[t].object] = IF work[t].events = <<"bind">> THEN @ + 1 ELSE 0]
  /\ mutex' = None
  /\ Goto(t, "idle") /\ work' = [work EXCEPT ![t] = NoWork]
  /\ UNCHANGED <<held, seenVars, calls, skewed>>

-----------------------------------------------------------------------------
(* The calls of the allocator                                              *)

(* emitAllocationEvent: what is announced depends on where the block came  *)
(* from.                                                                   *)
AllocationEvents(p) ==
  IF p \in OsPointers THEN {<<"Allocate", "ThreadCacheMiss">>}
  ELSE {<<"Allocate", "ThreadCacheHit">>, <<"Allocate", "ThreadCacheMiss", "CentralFetch">>}

(* emitDeallocationEvent                                                   *)
DeallocationEvents(p) ==
  IF p \in OsPointers THEN <<"Deallocate">> ELSE <<"Deallocate", "CentralReturn">>

(* allocateWithLifetime: the block is taken before it is announced, and the*)
(* client gets it after.                                                   *)
Allocate(t) ==
  \E p \in Pointers : \E events \in AllocationEvents(p) :
    /\ held[p] = None
    /\ Begin(t, "notify", [NoWork EXCEPT !.ptr = p, !.number = calls + 1, !.events = events])
    /\ held' = [held EXCEPT ![p] = calls + 1]
    /\ UNCHANGED <<busVars, seenVars, skewed>>

(* deallocateWithLifetime: the block can be another client's before its    *)
(* release is announced.                                                   *)
Deallocate(t) ==
  \E p \in Pointers :
    /\ held[p] # None
    /\ \A u \in Threads : work[u].number # held[p]
    /\ Begin(t, "notify", [NoWork EXCEPT !.ptr = p, !.number = held[p], !.events = DeallocationEvents(p)])
    /\ held' = [held EXCEPT ![p] = None]
    /\ UNCHANGED <<busVars, seenVars, skewed>>

(* emitValidationFailure and emitGuardCorruption: nothing is done to the   *)
(* block by the report.                                                    *)
Report(t) ==
  \E e \in {"ValidationError", "GuardCorruption"} :
    /\ Begin(t, "notify", [NoWork EXCEPT !.events = <<e>>])
    /\ UNCHANGED <<busVars, held, seenVars, skewed>>

(* The objects that one call for each entry of the list serves badly.      *)
Misserved(list) == {o \in Observers : Cardinality({i \in DOMAIN list : list[i] = o}) # 1}

(* hasObservers: no event of this call is announced without any.           *)
Notify(t) ==
  /\ pc[t] = "notify"
  /\ IF snapshot = <<>>
       THEN /\ Goto(t, "idle") /\ work' = [work EXCEPT ![t] = NoWork]
            /\ skewed' = Observers
       ELSE Goto(t, "emit") /\ UNCHANGED <<work, skewed>>
  /\ UNCHANGED <<busVars, held, seenVars, calls>>

(* emit: each event loads the list again.                                  *)
Emit(t) ==
  /\ pc[t] = "emit"
  /\ IF work[t].events = <<>>
       THEN /\ Goto(t, "idle") /\ work' = [work EXCEPT ![t] = NoWork]
            /\ UNCHANGED skewed
       ELSE /\ work' = [work EXCEPT ![t].list = snapshot]
            /\ Goto(t, "call")
            /\ skewed' = skewed \cup Misserved(snapshot)
  /\ UNCHANGED <<busVars, held, seenVars, calls>>

(* The list is done: on to the next event.                                 *)
NextEvent(t) ==
  /\ pc[t] = "call"
  /\ work[t].list = <<>>
  /\ work' = [work EXCEPT ![t].events = Tail(@)]
  /\ Goto(t, "emit")
  /\ UNCHANGED <<busVars, held, seenVars, calls, skewed>>

Entry(t) == pc[t] = "call" /\ work[t].list # <<>>
Event(t) == Head(work[t].events)
Called(t) == work' = [work EXCEPT ![t].list = Tail(@)]

(* Mutant of Recorded: a record that is there is kept (emplace).           *)
RecordedOnce(old, n) == IF old = None THEN n ELSE old

(* LiveAllocations[Event.UserPtr] = Record                                 *)
Recorded(old, n) == n

(* MemoryLeakDetectorObserver::onMemoryEvent                               *)
CallDetector(t) ==
  LET p == work[t].ptr IN
  /\ Entry(t) /\ Head(work[t].list) = Detector
  /\ CASE Event(t) = "Allocate" ->
            live' = [live EXCEPT ![p] = Recorded(@, work[t].number)] /\ UNCHANGED lost
       [] Event(t) = "Deallocate" ->
            /\ live' = [live EXCEPT ![p] = None]
            /\ lost' = lost \cup ({live[p]} \ {None, work[t].number})
       [] OTHER -> UNCHANGED <<live, lost>>
  /\ Called(t)
  /\ UNCHANGED <<busVars, held, current, peak, counts, pc, calls, skewed>>

(* MemoryStatisticsObserver::onMemoryEvent: an event of a dedicated block  *)
(* counts twice, one that is not counted changes nothing.                  *)
Counts(t) ==
  LET os == CASE Event(t) = "Allocate" -> {"OsAllocate"} [] Event(t) = "Deallocate" -> {"OsRelease"} [] OTHER -> {}
      which == {Event(t)} \cup IF work[t].ptr \in OsPointers THEN os ELSE {} IN
  counts' = [e \in Counted |-> counts[e] + IF e \in which THEN 1 ELSE 0]

CallStatistics(t) ==
  LET size == SizeOf[work[t].ptr] IN
  /\ Entry(t) /\ Head(work[t].list) = Statistics
  /\ Counts(t)
  /\ current' = CASE Event(t) = "Allocate" -> (current + size) % ByteModulus
                  [] Event(t) = "Deallocate" -> (current - size) % ByteModulus
                  [] OTHER -> current
  /\ IF Event(t) = "Allocate" THEN Goto(t, "load") /\ UNCHANGED work ELSE Called(t) /\ UNCHANGED pc
  /\ UNCHANGED <<busVars, held, live, peak, lost, calls, skewed>>

(* updatePeak                                                              *)
LoadCurrent(t) ==
  /\ pc[t] = "load"
  /\ work' = [work EXCEPT ![t].seen = current]
  /\ Goto(t, "raise")
  /\ UNCHANGED <<busVars, held, seenVars, calls, skewed>>

(* The compare-exchange loop as a whole.                                   *)
Raised(old, seen) == IF seen > old THEN seen ELSE old

RaisePeak(t) ==
  /\ pc[t] = "raise"
  /\ peak' = Raised(peak, work[t].seen)
  /\ Called(t)
  /\ Goto(t, "call")
  /\ UNCHANGED <<busVars, held, live, current, counts, lost, calls, skewed>>

Step(t) ==
  \/ Publish(t) \/ Notify(t) \/ Emit(t) \/ NextEvent(t)
  \/ CallDetector(t) \/ CallStatistics(t) \/ LoadCurrent(t) \/ RaisePeak(t)

Rest == (\A t \in Threads : pc[t] = "idle") /\ UNCHANGED vars

Next ==
  \/ \E t \in Threads : Mutate(t) \/ Allocate(t) \/ Deallocate(t) \/ Report(t) \/ Step(t)
  \/ Rest

Fairness == \A t \in Threads : WF_vars(Step(t))

Spec == Init /\ [][Next]_vars /\ Fairness

-----------------------------------------------------------------------------
Holding == {p \in Pointers : held[p] # None}

(* bind and unbind: no change of the list is lost to another thread's; it  *)
(* has each object as often as it has been bound.                          *)
ListExact ==
  mutex = None =>
    \A o \in Observers : Cardinality({i \in DOMAIN snapshot : snapshot[i] = o}) = times[o]

(* The leak detector, told of every event once: a block in use that no call*)
(* works on has a record, the one of its allocation, unless a belated      *)
(* Deallocate event of the block's former owner erased it; a block not in  *)
(* use has none, so that no leak is reported that is none.                 *)
LeaksExact ==
  Detector \notin skewed =>
    \A p \in Pointers :
      (\A t \in Threads : work[t].ptr # p) =>
        live[p] = IF held[p] \in lost THEN None ELSE held[p]

(* The statistics, told of every event once: between calls the bytes are   *)
(* those of the blocks in use, the counters add up, and the peak is no     *)
(* less than the bytes.                                                    *)
StatisticsExact ==
  (Statistics \notin skewed /\ \A t \in Threads : pc[t] \in {"idle", "publish"}) =>
    /\ current = SumFunction([p \in Pointers |-> IF held[p] # None THEN SizeOf[p] ELSE 0])
    /\ peak >= current
    /\ counts["Allocate"] - counts["Deallocate"] = Cardinality(Holding)
    /\ counts["Allocate"] = counts["ThreadCacheHit"] + counts["ThreadCacheMiss"]
    /\ counts["OsAllocate"] - counts["OsRelease"] = Cardinality(Holding \cap OsPointers)
    /\ counts["Deallocate"] = counts["CentralReturn"] + counts["OsRelease"]

EventsExact == ListExact /\ LeaksExact /\ StatisticsExact

(* As many calls as are made, every announcement ends, whoever binds and   *)
(* unbinds meanwhile.                                                      *)
AtRest == \A t \in Threads : pc[t] = "idle"

CallsEnd == []<>AtRest
=============================================================================
