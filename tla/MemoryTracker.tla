---------------------------- MODULE MemoryTracker ----------------------------
(***************************************************************************)
(* The diagnostic tracker (memory_tracker.h) and the hooks of malloc and   *)
(* new that feed it (new_malloc_tracker.cpp), beside the events of the     *)
(* allocator.  Each record is made in one critical section, but apart from *)
(* the call it reports: a hook records an allocation after it, a free      *)
(* before, a reallocation after it; the allocator announces a block after  *)
(* it was given back.  The hooks' records of one call are suppressed while *)
(* the tracker itself allocates, but not in the setters of its limits.     *)
(* Left out are the counters of each kind of event and operation, the call *)
(* stacks and payloads, and the issues that stand for an event of the      *)
(* allocator itself: GuardCorruption, UseAfterFree and ValidationError.    *)
(***************************************************************************)
EXTENDS Integers, Sequences, FiniteSets, FiniteSetsExt

CONSTANTS
  Threads,
  HookPointers,    \* addresses malloc may return
  EnginePointers,  \* addresses the allocator may return
  Requests,        \* calls of malloc and operator new, [op, size, align]
  Returns,         \* calls of free and operator delete, [op, size, align]
  Sizes,           \* sizes asked of realloc and of the allocator
  FreedFirst,      \* an address a client has freed already
  HistoryLimits,   \* what FreedHistoryLimit may be set to, its default the largest
  TimelineLimits,  \* the same for MaxTimelineEntries
  None,            \* also an unknown size or alignment
  MaxCalls         \* bound: calls of each thread

ParametersAssumption ==
  /\ HookPointers \cap EnginePointers = {} /\ FreedFirst \in HookPointers
  /\ {r.op : r \in Requests} \subseteq {"New", "AlignedNew", "Malloc"}
  /\ {r.op : r \in Returns} \subseteq {"Free", "Delete", "AlignedDelete"}
  /\ Sizes \subseteq Nat \ {0}
  /\ HistoryLimits \subseteq Nat /\ TimelineLimits \subseteq Nat
  /\ MaxCalls \in [Threads -> Nat]

VARIABLES
  held,       \* what a client really has at an address: [op, size, align]
  tracker,    \* the state under Mutex
  hooked,     \* HookEnabled
  mutex,      \* who waits for Mutex while holding it
  work,       \* the call of a thread and the steps it has left
  calls,
  wrong,      \* ghost: the mistakes clients made, by the issue they should raise
  misled      \* ghost: a call went unrecorded, or its record came after a later call's

clientVars == <<held, work, calls, wrong, misled>>
vars == <<clientVars, tracker, hooked, mutex>>

Pointers == HookPointers \cup EnginePointers
Issues == {"DoubleAllocation", "DoubleFree", "InvalidFree", "MismatchedFreeFunction", "SizeMismatch",
           "AlignmentMismatch", "AllocationFailure", "ReallocFailure"}
NoIssues == [i \in Issues |-> 0]

Cleared(history, limit) ==
  [active |-> [p \in Pointers |-> None], freed |-> [p \in Pointers |-> None], order |-> <<>>, seq |-> 0,
   blocks |-> 0, bytes |-> 0, peakBlocks |-> 0, peakBytes |-> 0, allocated |-> 0, released |-> 0,
   issues |-> NoIssues, timeline |-> 0, history |-> history, limit |-> limit]

NoWork == [todo |-> <<>>, op |-> None, ptr |-> None, old |-> None, size |-> None, align |-> None]

-----------------------------------------------------------------------------
(* The tracker's bookkeeping                                               *)

Noted(T, issue) == [T EXCEPT !.issues[issue] = @ + 1]
NotedIf(T, issue, b) == IF b THEN Noted(T, issue) ELSE T
Lowered(n, d) == Max({n - d, 0})

(* appendTimelineLocked: the oldest entry makes room.                      *)
Traced(T) == [T EXCEPT !.timeline = Min({@ + 1, T.limit})]

Raised(T, bytes, blocks) ==
  [T EXCEPT !.bytes = @ + bytes, !.allocated = @ + bytes, !.blocks = @ + blocks,
            !.peakBytes = Max({@, T.bytes + bytes}), !.peakBlocks = Max({@, T.blocks + blocks})]

DroppedEntries(T) == {T.order[i] : i \in 1 .. Lowered(Len(T.order), T.history)}

(* Mutant of Outdated: the record of a pointer goes with any entry of it.  *)
OutdatedByPointer(T, p) == \E e \in DroppedEntries(T) : e.ptr = p

(* A record is dropped with its own entry, not with that of an older free. *)
Outdated(T, p) == T.freed[p] # None /\ [ptr |-> p, seq |-> T.freed[p].seq] \in DroppedEntries(T)

(* trimFreedHistoryLocked                                                  *)
Trimmed(T) ==
  [T EXCEPT !.order = SubSeq(@, Lowered(Len(@), T.history) + 1, Len(@)),
            !.freed = [p \in Pointers |-> IF Outdated(T, p) THEN None ELSE @[p]]]

(* rememberFreedAllocationLocked, and the block is no longer active.       *)
Forgotten(T, p, engine) ==
  LET n == T.seq + 1 IN
  Trimmed([T EXCEPT !.active[p] = None, !.seq = n,
                    !.freed[p] = [seq |-> n, engine |-> engine],
                    !.order = Append(@, [ptr |-> p, seq |-> n])])

Released(T, size) ==
  [T EXCEPT !.released = @ + size, !.bytes = Lowered(@, size), !.blocks = Lowered(@, 1)]

(* recordEngineEvent, Allocate: the allocator's record replaces any other. *)
EngineAllocate(T, p, size) ==
  LET a == T.active[p]
      op == IF a # None /\ a.engine THEN a.op ELSE "Unknown" IN
  [Raised(T, size, 1) EXCEPT
     !.active[p] = [op |-> op, size |-> size, align |-> None, engine |-> TRUE], !.freed[p] = None]

(* recordEngineEvent, Deallocate                                           *)
EngineDeallocate(T, p, size) ==
  IF T.active[p] # None
    THEN Released(Forgotten(T, p, TRUE), T.active[p].size)
    ELSE Released([T EXCEPT !.freed[p] = None], size)

(* recordHookAllocation: a block the allocator has announced is counted    *)
(* already; a block that is active must have been lost track of.           *)
HookAllocate(T, op, p, size, align) ==
  LET a == T.active[p]
      new == [op |-> op, size |-> size, align |-> align, engine |-> FALSE]
      known == [Noted(T, "DoubleAllocation") EXCEPT !.bytes = Lowered(@, a.size)] IN
  IF a # None /\ a.engine
    THEN [T EXCEPT !.active[p].op = IF @ = "Unknown" THEN op ELSE @, !.freed[p] = None]
    ELSE [Raised(IF a = None THEN T ELSE known, size, IF a = None THEN 1 ELSE 0)
            EXCEPT !.active[p] = new, !.freed[p] = None]

(* expectedFreeOperation                                                   *)
ExpectedFree(op) ==
  CASE op = "New" -> "Delete" [] op = "AlignedNew" -> "AlignedDelete" [] op \in {"Malloc", "Realloc"} -> "Free"
    [] OTHER -> "Unknown"

(* recordHookFreeNoLock: first a pointer that is not active ...            *)
HookFreeUnknown(T, p) ==
  CASE T.freed[p] = None -> Noted(T, "InvalidFree")
    [] T.freed[p] # None /\ T.freed[p].engine -> [T EXCEPT !.freed[p].engine = FALSE]
    [] OTHER -> Noted(T, "DoubleFree")

(* ... then one that is; the allocator's own events account for its blocks.*)
HookFree(T, op, p, size, align) ==
  LET a == T.active[p]
      U == NotedIf(T, "MismatchedFreeFunction", ExpectedFree(a.op) \notin {"Unknown", op})
      V == NotedIf(U, "SizeMismatch", a.size # 0 /\ size \notin {None, a.size})
      W == NotedIf(V, "AlignmentMismatch", None \notin {align, a.align} /\ align # a.align) IN
  CASE a = None -> HookFreeUnknown(T, p)
    [] a # None /\ a.engine -> T
    [] OTHER -> Released(Forgotten(W, p, FALSE), a.size)

(* recordHookReallocate, in place                                          *)
HookResize(T, p, size) ==
  LET a == T.active[p]
      U == [T EXCEPT !.active[p].op = "Realloc", !.active[p].size = size] IN
  CASE a = None -> Noted(T, "InvalidFree")
    [] a # None /\ a.engine -> T
    [] OTHER -> IF size >= a.size THEN Raised(U, size - a.size, 0)
                ELSE [U EXCEPT !.released = @ + a.size - size, !.bytes = Lowered(@, a.size - size)]

(* recordHookReallocate: a null result is taken for a failure, a new       *)
(* address for a free and an allocation.                                   *)
HookReallocate(T, old, new, size) ==
  CASE new = None -> Noted(T, "ReallocFailure")
    [] new # None /\ old = None -> HookAllocate(T, "Realloc", new, size, None)
    [] new # None /\ old = new -> HookResize(T, new, size)
    [] OTHER -> HookAllocate(HookFree(T, "Free", old, None, None), "Realloc", new, size, None)

(* A block has been allocated and freed before.                            *)
Init ==
  /\ held = [p \in Pointers |-> None]
  /\ LET T == Cleared(Max(HistoryLimits), Max(TimelineLimits)) IN
     tracker = HookFree(HookAllocate(T, "New", FreedFirst, 1, None), "Delete", FreedFirst, None, None)
  /\ hooked = TRUE /\ mutex = None
  /\ work = [t \in Threads |-> NoWork]
  /\ calls = [t \in Threads |-> 0] /\ wrong = NoIssues /\ misled = FALSE

-----------------------------------------------------------------------------
(* Calls of clients: what they do before their first record                *)

Idle(t) == work[t].todo = <<>>

Begin(t, w) ==
  /\ Idle(t)
  /\ calls[t] < MaxCalls[t]
  /\ calls' = [calls EXCEPT ![t] = @ + 1]
  /\ work' = [work EXCEPT ![t] = w]

(* Some call on this address has a record to make yet.                     *)
Pending(p) == \E t \in Threads : ~Idle(t) /\ p \in {work[t].ptr, work[t].old}

Take(p, owner) ==
  /\ held[p] = None
  /\ held' = [held EXCEPT ![p] = owner]
  /\ misled' = (misled \/ Pending(p))

(* malloc, operator new and its aligned form, or a null result of either.  *)
Malloc(t) ==
  \E r \in Requests :
    LET w == [NoWork EXCEPT !.op = r.op, !.size = r.size, !.align = r.align] IN
    /\ \/ \E p \in HookPointers :
            /\ Take(p, r)
            /\ Begin(t, [w EXCEPT !.todo = <<"allocate">>, !.ptr = p])
       \/ Begin(t, [w EXCEPT !.todo = <<"fail">>]) /\ UNCHANGED <<held, misled>>
    /\ UNCHANGED <<tracker, hooked, mutex, wrong>>

(* free and operator delete: by the right function or another, with or     *)
(* without a size.                                                         *)
Free(t) ==
  \E p \in HookPointers, r \in Returns :
    /\ held[p] # None /\ ~Pending(p)
    /\ Begin(t, [NoWork EXCEPT !.todo = <<"free", "giveBack">>, !.ptr = p,
                               !.op = r.op, !.size = r.size, !.align = r.align])
    /\ UNCHANGED <<tracker, hooked, mutex, held, wrong, misled>>

(* A free of what has been freed, or was never allocated.                  *)
FreeAgain(t) ==
  \E p \in HookPointers :
    /\ held[p] = None /\ ~Pending(p)
    /\ Begin(t, [NoWork EXCEPT !.todo = <<"free">>, !.op = "Free", !.ptr = p])
    /\ UNCHANGED <<tracker, hooked, mutex, held, wrong, misled>>

(* realloc, of a block of malloc or of none: moved, resized in place, or   *)
(* failed.  Size zero frees the block and returns null.                    *)
Realloc(t) ==
  \E old \in HookPointers \cup {None}, size \in Sizes \cup {0}, new \in HookPointers \cup {None} :
    LET owner == [op |-> "Realloc", size |-> size, align |-> None]
        gone(p) == IF old = None \/ p # old THEN held[p] ELSE None
        zero == old # None /\ size = 0 IN
    /\ old # None => held[old] # None /\ held[old].op \in {"Malloc", "Realloc"} /\ ~Pending(old)
    /\ size = 0 => zero /\ new = None
    /\ new \notin {None, old} => held[new] = None
    /\ held' = IF new = None /\ ~zero THEN held
               ELSE [p \in Pointers |-> IF p = new THEN owner ELSE gone(p)]
    /\ misled' = (misled \/ zero \/ (new # None /\ Pending(new)))
    /\ Begin(t, [NoWork EXCEPT !.todo = <<"realloc">>, !.ptr = new, !.old = old, !.size = size])
    /\ UNCHANGED <<tracker, hooked, mutex, wrong>>

(* The allocator, alone or under a hook that reports the address as well.  *)
EngineTake(t) ==
  \E p \in EnginePointers, size \in Sizes, both \in BOOLEAN :
    /\ Take(p, [op |-> "Malloc", size |-> size, align |-> None])
    /\ Begin(t, [NoWork EXCEPT !.todo = <<"engineAllocate">> \o IF both THEN <<"allocate">> ELSE <<>>,
                               !.op = "Malloc", !.ptr = p, !.size = size])
    /\ UNCHANGED <<tracker, hooked, mutex, wrong>>

EngineRelease(t) ==
  \E p \in EnginePointers, both \in BOOLEAN :
    /\ held[p] # None /\ ~Pending(p)
    /\ Begin(t, [NoWork EXCEPT !.todo = (IF both THEN <<"free">> ELSE <<>>) \o <<"giveBack", "engineDeallocate">>,
                               !.op = "Free", !.ptr = p, !.size = held[p].size])
    /\ UNCHANGED <<tracker, hooked, mutex, held, wrong, misled>>

-----------------------------------------------------------------------------
(* The steps left of a call                                                *)

At(t, step) == ~Idle(t) /\ Head(work[t].todo) = step
Done(t) == work' = [work EXCEPT ![t] = IF Len(@.todo) = 1 THEN NoWork ELSE [@ EXCEPT !.todo = Tail(@)]]

GiveBack(t) ==
  /\ At(t, "giveBack")
  /\ held' = [held EXCEPT ![work[t].ptr] = None]
  /\ Done(t)
  /\ UNCHANGED <<calls, wrong, misled, tracker, hooked, mutex>>

Right(op) == CASE op = "New" -> "Delete" [] op = "AlignedNew" -> "AlignedDelete" [] OTHER -> "Free"

(* The issues a free should raise: those of the client's mistakes.  The    *)
(* size of a block of none is not compared.                                *)
Mistakes(w) ==
  LET h == held[w.ptr] IN
  IF w.ptr \in EnginePointers THEN {}
  ELSE IF h = None
    THEN {IF \E i \in DOMAIN tracker.order : tracker.order[i].ptr = w.ptr THEN "DoubleFree" ELSE "InvalidFree"}
    ELSE (IF Right(h.op) # w.op THEN {"MismatchedFreeFunction"} ELSE {})
         \cup (IF h.size # 0 /\ w.size \notin {None, h.size} THEN {"SizeMismatch"} ELSE {})
         \cup (IF None \notin {w.align, h.align} /\ w.align # h.align THEN {"AlignmentMismatch"} ELSE {})

Recorded(t, w, step) ==
  CASE step = "allocate" -> HookAllocate(Traced(tracker), w.op, w.ptr, w.size, w.align)
    [] step = "free" -> HookFree(Traced(tracker), w.op, w.ptr, w.size, w.align)
    [] step = "realloc" -> HookReallocate(Traced(tracker), w.old, w.ptr, w.size)
    [] step = "fail" -> Noted(Traced(tracker), "AllocationFailure")

Expected(w, step) ==
  CASE step = "free" -> Mistakes(w)
    [] step = "realloc" /\ w.ptr = None -> {"ReallocFailure"}
    [] step = "fail" -> {"AllocationFailure"}
    [] OTHER -> {}

(* recordHookAllocation, recordHookFree, recordHookReallocate and          *)
(* recordHookAllocationFailure.  shouldTrack asked before whether the hooks*)
(* are enabled; what it refuses has no effect, as if refused here.         *)
RecordHook(t) ==
  \E step \in {"allocate", "free", "realloc", "fail"} :
    LET w == work[t] IN
    /\ At(t, step) /\ mutex = None
    /\ IF hooked
         THEN /\ tracker' = Recorded(t, w, step)
              /\ wrong' = [i \in Issues |-> wrong[i] + IF i \in Expected(w, step) THEN 1 ELSE 0]
         ELSE UNCHANGED <<tracker, wrong>>
    /\ misled' = (misled \/ ~hooked)
    /\ Done(t)
    /\ UNCHANGED <<held, calls, hooked, mutex>>

(* recordEngineEvent                                                       *)
RecordEngine(t) ==
  LET w == work[t] IN
  /\ mutex = None
  /\ \/ /\ At(t, "engineAllocate")
        /\ tracker' = EngineAllocate(Traced(tracker), w.ptr, w.size)
     \/ /\ At(t, "engineDeallocate")
        /\ tracker' = EngineDeallocate(Traced(tracker), w.ptr, w.size)
  /\ Done(t)
  /\ UNCHANGED <<held, calls, wrong, misled, hooked, mutex>>

-----------------------------------------------------------------------------
(* Controls                                                                *)

SetHookEnabled(t) ==
  /\ Begin(t, NoWork)
  /\ hooked' = ~hooked
  /\ UNCHANGED <<held, wrong, misled, tracker, mutex>>

(* clear, which suppresses the hooks: what it forgets goes unrecorded.     *)
Clear(t) ==
  /\ mutex = None
  /\ Begin(t, NoWork)
  /\ tracker' = Cleared(tracker.history, tracker.limit)
  /\ wrong' = NoIssues
  /\ misled' = (misled \/ \E p \in Pointers : held[p] # None \/ Pending(p))
  /\ UNCHANGED <<held, hooked, mutex>>

(* setFreedHistoryLimit and setMaxTimelineEntries do not suppress the      *)
(* hooks.  What they drop is freed in the critical section; where the      *)
(* hooks are enabled, the hook of that free waits for the mutex its own    *)
(* thread holds.  A dropped record is a node of its own; an entry of a     *)
(* deque is freed with the chunk it is in.                                 *)
SetLimit(t) ==
  /\ mutex = None
  /\ \E n \in HistoryLimits \cup TimelineLimits, which \in {"history", "limit"}, chunk \in BOOLEAN :
       LET T == IF which = "history" THEN Trimmed([tracker EXCEPT !.history = Max({n, 1})])
                ELSE [tracker EXCEPT !.limit = n, !.timeline = Min({@, n})]
           frees == T.freed # tracker.freed \/ (chunk /\ (T.order # tracker.order \/ T.timeline # tracker.timeline))
           stuck == hooked /\ frees IN
       /\ which = "history" => n \in HistoryLimits
       /\ which = "limit" => n \in TimelineLimits
       /\ Begin(t, [NoWork EXCEPT !.todo = IF stuck THEN <<"wait">> ELSE <<>>])
       /\ mutex' = IF stuck THEN t ELSE None
       /\ tracker' = T
  /\ UNCHANGED <<held, wrong, misled, hooked>>

Step(t) == GiveBack(t) \/ RecordHook(t) \/ RecordEngine(t)

(* Nothing else is left waiting: a setter that waits for itself is the only *)
(* way to stop before the calls are done.                                  *)
Rest == (mutex # None \/ \A t \in Threads : Idle(t)) /\ UNCHANGED vars

Next ==
  \/ \E t \in Threads :
       \/ Malloc(t) \/ Free(t) \/ FreeAgain(t) \/ Realloc(t) \/ EngineTake(t) \/ EngineRelease(t)
       \/ SetHookEnabled(t) \/ Clear(t) \/ SetLimit(t) \/ Step(t)
  \/ Rest

Spec == Init /\ [][Next]_vars

-----------------------------------------------------------------------------
Active == {p \in Pointers : tracker.active[p] # None}

(* Unless misled, the tracker has a record of every block in use that no   *)
(* call works on, and of no other, and its counters are those of its       *)
(* records: the double report of a block by hook and allocator counts once.*)
TrackedExact ==
  ~misled =>
    /\ \A p \in Pointers : ~Pending(p) =>
         /\ p \in Active <=> held[p] # None
         /\ p \in Active => tracker.active[p].size = held[p].size
    /\ tracker.blocks = Cardinality(Active)
    /\ tracker.bytes = MapThenSumSet(LAMBDA p : tracker.active[p].size, Active)
    /\ tracker.bytes = tracker.allocated - tracker.released
    /\ tracker.peakBytes >= tracker.bytes /\ tracker.peakBlocks >= tracker.blocks

(* Unless misled, an issue is recorded for each mistake and for no correct *)
(* call, in any interleaving of the calls.                                 *)
NoFalseAlarm == ~misled => tracker.issues = wrong

(* The history of frees: within its limit; each record goes with its entry,*)
(* and, unless misled, a pointer freed within the limit and not allocated  *)
(* since has the record of its last free.                                  *)
HistoryExact ==
  LET o == tracker.order IN
  /\ Len(o) <= tracker.history /\ tracker.timeline <= tracker.limit
  /\ \A p \in Pointers :
       /\ tracker.freed[p] # None => p \notin Active /\ [ptr |-> p, seq |-> tracker.freed[p].seq] \in {o[i] : i \in DOMAIN o}
       /\ ~misled /\ p \notin Active =>
            \A i \in DOMAIN o : o[i].ptr = p /\ (\A j \in i + 1 .. Len(o) : o[j].ptr # p) =>
              tracker.freed[p] # None /\ tracker.freed[p].seq = o[i].seq

RecordsExact == TrackedExact /\ NoFalseAlarm /\ HistoryExact
=============================================================================
