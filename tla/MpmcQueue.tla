------------------------------ MODULE MpmcQueue ------------------------------
(***************************************************************************)
(* core::mpmc_queue (src/Core/Containers/mpmc_queue.h): the bounded        *)
(* lock-free multi-producer multi-consumer ring.  One step per atomic      *)
(* access; the non-atomic access to m_Data is a step of its own.  Calls    *)
(* may be made by any thread at any time.                                  *)
(*                                                                         *)
(* compare_exchange_weak is taken not to fail spuriously (the library is   *)
(* built for x86, where it cannot); the positions do not reach 2^64.       *)
(***************************************************************************)
EXTENDS Integers, FiniteSets

CONSTANTS
  Threads,
  Capacity,
  MaxPushes,   \* bound: calls of try_push; the n-th call pushes value n
  MaxBulk,     \* bound: max_count of try_pop_bulk
  NoItem       \* an empty std::optional, or a cell not yet written

ASSUME ParametersAssumption ==
  /\ Capacity \in Nat \ {0}
  /\ MaxPushes \in Nat
  /\ MaxBulk \in Nat \ {0}
  /\ NoItem \notin Nat

VARIABLES
  seq,      \* m_Buffer[i].m_Sequence
  data,     \* m_Buffer[i].m_Data
  enq,      \* m_Enqueue_Pos
  deq,      \* m_Dequeue_Pos
  pushes,   \* calls of try_push made so far
  pc,       \* where the thread's call stands
  pos,      \* the call's local pos
  item,     \* try_push: item; try_pop: result
  left      \* try_pop_bulk: elements still wanted (1 for try_pop)

cellVars == <<seq, data>>
callVars == <<item, left>>
vars == <<seq, data, enq, deq, pushes, pc, pos, item, left>>

Slots == 0 .. Capacity - 1

Slot(p) == p % Capacity

Init ==
  /\ seq = [i \in Slots |-> i]
  /\ data = [i \in Slots |-> NoItem]
  /\ enq = 0
  /\ deq = 0
  /\ pushes = 0
  /\ pc = [t \in Threads |-> "idle"]
  /\ pos = [t \in Threads |-> 0]
  /\ item = [t \in Threads |-> NoItem]
  /\ left = [t \in Threads |-> 0]

At(t, l)   == pc[t] = l
GoTo(t, l) == pc' = [pc EXCEPT ![t] = l]

-----------------------------------------------------------------------------
(* try_push *)

(* The call and its first load of m_Enqueue_Pos.                           *)
PushBegin(t) ==
  /\ At(t, "idle")
  /\ pushes < MaxPushes
  /\ pushes' = pushes + 1
  /\ item' = [item EXCEPT ![t] = pushes + 1]
  /\ pos' = [pos EXCEPT ![t] = enq]
  /\ GoTo(t, "push_seq")
  /\ UNCHANGED <<cellVars, enq, deq, left>>

(* Load of the cell's sequence number: writable, full, or overtaken.       *)
PushLoadSeq(t) ==
  LET s == seq[Slot(pos[t])] IN
  /\ At(t, "push_seq")
  /\ \/ s = pos[t] /\ GoTo(t, "push_cas") /\ UNCHANGED item
     \/ s < pos[t] /\ GoTo(t, "idle") /\ item' = [item EXCEPT ![t] = NoItem]
     \/ s > pos[t] /\ GoTo(t, "push_reload") /\ UNCHANGED item
  /\ UNCHANGED <<cellVars, enq, deq, pushes, pos, left>>

(* Mutant of PushReload: the position is not read again.                   *)
PushReloadForgets(t) ==
  /\ At(t, "push_reload")
  /\ GoTo(t, "push_seq")
  /\ UNCHANGED <<cellVars, enq, deq, pushes, pos, callVars>>

PushReload(t) ==
  /\ At(t, "push_reload")
  /\ pos' = [pos EXCEPT ![t] = enq]
  /\ GoTo(t, "push_seq")
  /\ UNCHANGED <<cellVars, enq, deq, pushes, callVars>>

(* Mutant of PushCas: a store where the code compares and exchanges.       *)
PushCasStore(t) ==
  /\ At(t, "push_cas")
  /\ enq' = pos[t] + 1
  /\ GoTo(t, "push_write")
  /\ UNCHANGED <<cellVars, deq, pushes, pos, callVars>>

(* A failed exchange leaves the current position in pos.                   *)
PushCas(t) ==
  /\ At(t, "push_cas")
  /\ \/ /\ enq = pos[t]
        /\ enq' = enq + 1
        /\ GoTo(t, "push_write")
        /\ UNCHANGED pos
     \/ /\ enq # pos[t]
        /\ pos' = [pos EXCEPT ![t] = enq]
        /\ GoTo(t, "push_seq")
        /\ UNCHANGED enq
  /\ UNCHANGED <<cellVars, deq, pushes, callVars>>

PushWrite(t) ==
  /\ At(t, "push_write")
  /\ data' = [data EXCEPT ![Slot(pos[t])] = item[t]]
  /\ GoTo(t, "push_publish")
  /\ UNCHANGED <<seq, enq, deq, pushes, pos, callVars>>

(* The sequence number that tells consumers the cell is readable.          *)
Readable(p) == p + 1

PushPublish(t) ==
  /\ At(t, "push_publish")
  /\ seq' = [seq EXCEPT ![Slot(pos[t])] = Readable(pos[t])]
  /\ item' = [item EXCEPT ![t] = NoItem]
  /\ GoTo(t, "idle")
  /\ UNCHANGED <<data, enq, deq, pushes, pos, left>>

-----------------------------------------------------------------------------
(* try_pop, and try_pop_bulk, which repeats it until it fails *)

PopBegin(t, n) ==
  /\ At(t, "idle")
  /\ left' = [left EXCEPT ![t] = n]
  /\ pos' = [pos EXCEPT ![t] = deq]
  /\ GoTo(t, "pop_seq")
  /\ UNCHANGED <<cellVars, enq, deq, pushes, item>>

(* Load of the cell's sequence number: readable, empty, or overtaken.      *)
PopLoadSeq(t) ==
  LET s == seq[Slot(pos[t])] IN
  /\ At(t, "pop_seq")
  /\ \/ s = Readable(pos[t]) /\ GoTo(t, "pop_cas") /\ UNCHANGED left
     \/ s < pos[t] + 1 /\ GoTo(t, "idle") /\ left' = [left EXCEPT ![t] = 0]
     \/ s > pos[t] + 1 /\ GoTo(t, "pop_reload") /\ UNCHANGED left
  /\ UNCHANGED <<cellVars, enq, deq, pushes, pos, item>>

PopReload(t) ==
  /\ At(t, "pop_reload")
  /\ pos' = [pos EXCEPT ![t] = deq]
  /\ GoTo(t, "pop_seq")
  /\ UNCHANGED <<cellVars, enq, deq, pushes, callVars>>

(* Mutant of PopCas: a store where the code compares and exchanges.        *)
PopCasStore(t) ==
  /\ At(t, "pop_cas")
  /\ deq' = pos[t] + 1
  /\ GoTo(t, "pop_take")
  /\ UNCHANGED <<cellVars, enq, pushes, pos, callVars>>

PopCas(t) ==
  /\ At(t, "pop_cas")
  /\ \/ /\ deq = pos[t]
        /\ deq' = deq + 1
        /\ GoTo(t, "pop_take")
        /\ UNCHANGED pos
     \/ /\ deq # pos[t]
        /\ pos' = [pos EXCEPT ![t] = deq]
        /\ GoTo(t, "pop_seq")
        /\ UNCHANGED deq
  /\ UNCHANGED <<cellVars, enq, pushes, callVars>>

PopTake(t) ==
  /\ At(t, "pop_take")
  /\ item' = [item EXCEPT ![t] = data[Slot(pos[t])]]
  /\ GoTo(t, "pop_release")
  /\ UNCHANGED <<cellVars, enq, deq, pushes, pos, left>>

(* Mutant of Writable: one too many, which reads as published.             *)
WritableNext(p) == p + Capacity + 1

(* The sequence number that gives the cell to the producer of the next lap. *)
Writable(p) == p + Capacity

(* popped < max_count after the element in hand.                           *)
WantsMore(t) == left[t] > 1

(* The element is handed out; a bulk pop that wants more goes round again. *)
PopRelease(t) ==
  /\ At(t, "pop_release")
  /\ seq' = [seq EXCEPT ![Slot(pos[t])] = Writable(pos[t])]
  /\ item' = [item EXCEPT ![t] = NoItem]
  /\ left' = [left EXCEPT ![t] = @ - 1]
  /\ GoTo(t, IF WantsMore(t) THEN "pop_reload" ELSE "idle")
  /\ UNCHANGED <<data, enq, deq, pushes, pos>>

-----------------------------------------------------------------------------
(* size: m_Enqueue_Pos, then m_Dequeue_Pos; the answer is in left. *)

SizeBegin(t) ==
  /\ At(t, "idle")
  /\ pos' = [pos EXCEPT ![t] = enq]
  /\ GoTo(t, "size_deq")
  /\ UNCHANGED <<cellVars, enq, deq, pushes, callVars>>

(* Mutant of SizeAnswer: the difference is not clamped and wraps below 0.  *)
SizeAnswerUnclamped(t) == pos[t] - deq

SizeAnswer(t) == IF pos[t] >= deq THEN pos[t] - deq ELSE 0

SizeEnd(t) ==
  /\ At(t, "size_deq")
  /\ GoTo(t, "idle")
  /\ UNCHANGED <<cellVars, enq, deq, pushes, pos, callVars>>

-----------------------------------------------------------------------------
Begin(t) ==
  \/ PushBegin(t)
  \/ \E n \in 1 .. MaxBulk : PopBegin(t, n)
  \/ SizeBegin(t)

Continue(t) ==
  \/ PushLoadSeq(t) \/ PushReload(t) \/ PushCas(t)
  \/ PushWrite(t)   \/ PushPublish(t)
  \/ PopLoadSeq(t)  \/ PopReload(t)  \/ PopCas(t)
  \/ PopTake(t)     \/ PopRelease(t)
  \/ SizeEnd(t)

Next == \E t \in Threads : Begin(t) \/ Continue(t)

(* A thread inside a call is scheduled again; nobody has to call.          *)
Spec == Init /\ [][Next]_vars /\ \A t \in Threads : WF_vars(Continue(t))

-----------------------------------------------------------------------------
Labels == {"idle", "push_seq", "push_reload", "push_cas", "push_write",
           "push_publish", "pop_seq", "pop_reload", "pop_cas", "pop_take",
           "pop_release", "size_deq"}

TypeOK ==
  /\ seq \in [Slots -> Nat]
  /\ data \in [Slots -> Nat \cup {NoItem}]
  /\ enq \in Nat
  /\ deq \in Nat
  /\ pushes \in Nat
  /\ pc \in [Threads -> Labels]
  /\ pos \in [Threads -> Nat]
  /\ item \in [Threads -> Nat \cup {NoItem}]
  /\ left \in [Threads -> Nat]
  /\ \A t \in Threads :
       pc[t] \in {"pop_seq", "pop_reload", "pop_cas", "pop_take", "pop_release"}
         => left[t] > 0

(* The call won its position and has not yet passed the cell on.           *)
Pushing(t) == pc[t] \in {"push_write", "push_publish"}
Popping(t) == pc[t] \in {"pop_take", "pop_release"}
InCell(t)  == Pushing(t) \/ Popping(t)

(* m_Data is not atomic: no two calls ever work on one cell at once,       *)
(* whether two producers, two consumers or one of each, on this lap or on  *)
(* the next.                                                               *)
SlotExclusive ==
  \A t, u \in Threads :
    t # u /\ InCell(t) /\ InCell(u) => Slot(pos[t]) # Slot(pos[u])

(* mpmc_queue.h:12, "a bounded queue, its capacity fixed at compile time": *)
(* producers never run more than a lap ahead of consumers and consumers    *)
(* never overtake producers.                                               *)
Bounded == enq - deq \in 0 .. Capacity

(* size(), from two loads at different times, answers something a queue of *)
(* this capacity can hold; in particular the difference does not wrap.     *)
SizeInRange == \A t \in Threads : At(t, "size_deq") => SizeAnswer(t) \in 0 .. Capacity

(* Positions deq .. enq-1 are won by a producer and by no consumer yet,    *)
(* enq .. deq+Capacity-1 are the free rest of the lap.                     *)
WindowInv ==
  /\ Bounded
  /\ \A p \in deq .. enq - 1 : seq[Slot(p)] \in {p, p + 1}
  /\ \A p \in enq .. deq + Capacity - 1 : seq[Slot(p)] \in {p, p - Capacity + 1}

PushingInv ==
  \A t \in Threads : Pushing(t) =>
    pos[t] >= deq /\ pos[t] < enq /\ seq[Slot(pos[t])] = pos[t]

PoppingInv ==
  \A t \in Threads : Popping(t) =>
    pos[t] < deq /\ enq <= pos[t] + Capacity /\ seq[Slot(pos[t])] = pos[t] + 1

WinnersInv ==
  \A t, u \in Threads :
    t # u /\ ((Pushing(t) /\ Pushing(u)) \/ (Popping(t) /\ Popping(u)))
      => pos[t] # pos[u]

(* What a call has read is still good when its exchange succeeds.          *)
PushCasInv ==
  \A t \in Threads :
    /\ pc[t] \in {"push_seq", "push_cas", "size_deq"} => pos[t] <= enq
    /\ At(t, "push_cas") /\ pos[t] = enq
         => seq[Slot(pos[t])] = pos[t]

PopCasInv ==
  \A t \in Threads :
    /\ pc[t] \in {"pop_seq", "pop_cas"} => pos[t] <= deq
    /\ At(t, "pop_cas") /\ pos[t] = deq
         => seq[Slot(pos[t])] = pos[t] + 1

(* The inductive invariant of a ring of at least two cells: the sequence   *)
(* number of every cell tells which of the two laps owns it, a call that   *)
(* works in a cell is the only one its position has, and a successful      *)
(* compare-and-exchange proves that the sequence number read before it is  *)
(* still there.                                                            *)
IInv ==
  /\ WindowInv /\ PushingInv /\ PoppingInv /\ WinnersInv
  /\ PushCasInv /\ PopCasInv

(* The value at position p of the queue: still in the hands of the         *)
(* producer that won p, or in its cell.                                    *)
Value(p) ==
  LET Winners == {t \in Threads : Pushing(t) /\ pos[t] = p}
  IN  IF Winners # {} THEN item[CHOOSE t \in Winners : TRUE] ELSE data[Slot(p)]

Given(t) ==
  IF At(t, "pop_take") THEN data[Slot(pos[t])]
  ELSE IF At(t, "pop_release") THEN item[t] ELSE NoItem

Fifo == INSTANCE BoundedFifo WITH
  Values <- 1 .. MaxPushes,
  queue <- [i \in 1 .. enq - deq |-> Value(deq + i - 1)],
  given <- [t \in Threads |-> Given(t)]

(* The ring implements the bounded first-in first-out queue: a push takes  *)
(* effect when it wins its position and a pop when it wins the oldest one; *)
(* nothing is lost, duplicated or overtaken, and a value once given to a   *)
(* consumer is not overwritten by the next lap before the call ends.       *)
ImplementsFifo == Fifo!Spec

(* When producers stop calling, every call that was made returns: no call  *)
(* spins for ever on a cell that another thread has left behind.           *)
CallsReturn == \A t \in Threads : pc[t] # "idle" ~> pc[t] = "idle"
=============================================================================
