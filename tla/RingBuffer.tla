----------------------------- MODULE RingBuffer -----------------------------
(***************************************************************************)
(* core::ring_buffer (buffer.h), one queue for each of its four policies.  *)
(* SingleThread is used by one thread; the others by their producers and   *)
(* consumers at once, one step per atomic access and one for the           *)
(* construction, or the move out and the destruction, of an element.       *)
(* head stands for m_Head and m_DequeuePos, tail for m_Tail and            *)
(* m_EnqueuePos, mark for m_Ready and m_Sequence.                          *)
(*                                                                         *)
(* compare_exchange_weak is taken not to fail spuriously and positions not *)
(* to reach 2^64, as for mpmc_queue.  Moving a buffer is left out.         *)
(***************************************************************************)
EXTENDS Integers, FiniteSets

CONSTANTS
  Policies,     \* among "SingleThread", "SPSC", "MPSC", "MPMC"
  Producers,    \* of the policies with many producers
  Consumers,    \* of MPMC
  OneProducer,  \* of the other policies
  OneConsumer,
  Capacity,
  MaxPushes,    \* bound: pushes; the n-th pushes the value n
  NoItem

(* What a run must choose.                                                 *)
ParametersAssumption ==
  /\ Capacity \in Nat \ {0}
  /\ MaxPushes \in Nat
  /\ NoItem \notin Nat
  /\ OneProducer \in Producers /\ OneConsumer \in Consumers
  /\ Producers \cap Consumers = {}

VARIABLES
  policy,   \* the template argument
  head,
  tail,
  mark,
  data,     \* m_Buffer: the element alive in each slot
  pushes,
  pc,
  seen,     \* the local head of a push
  pos,      \* the local tail of a push, the local head of a pop
  item      \* the value being pushed, or the one popped

shared == <<head, tail, mark, data>>
vars == <<policy, shared, pushes, pc, seen, pos, item>>

Threads == Producers \cup Consumers
Slots == 0 .. Capacity - 1
Slot(p) == p % Capacity     \* & m_Mask, the capacity being a power of two

At(t, l) == pc[t] = l
GoTo(t, l) == pc' = [pc EXCEPT ![t] = l]

(* The call returns.                                                       *)
Return(t) == GoTo(t, "idle") /\ item' = [item EXCEPT ![t] = NoItem]

MayPush(t) ==
  IF policy \in {"MPSC", "MPMC"} THEN t \in Producers ELSE t = OneProducer

MayPop(t) ==
  CASE policy = "MPMC" -> t \in Consumers
    [] policy = "SingleThread" -> t = OneProducer
    [] OTHER -> t = OneConsumer

(* The constructors.                                                       *)
Init ==
  /\ policy \in Policies
  /\ head = 0
  /\ tail = 0
  /\ mark = [i \in Slots |-> IF policy = "MPMC" THEN i ELSE 0]
  /\ data = [i \in Slots |-> NoItem]
  /\ pushes = 0
  /\ pc = [t \in Threads |-> "idle"]
  /\ seen = [t \in Threads |-> 0]
  /\ pos = [t \in Threads |-> 0]
  /\ item = [t \in Threads |-> NoItem]

-----------------------------------------------------------------------------
(* SingleThread: push_back and emplace_back, which throw when full, and    *)
(* pop_front, which throws when empty. *)

Full(h, t) == t - h >= Capacity

PushBack(t) ==
  /\ policy = "SingleThread" /\ MayPush(t)
  /\ At(t, "idle")
  /\ pushes < MaxPushes
  /\ ~Full(head, tail)
  /\ data' = [data EXCEPT ![Slot(tail)] = pushes + 1]
  /\ tail' = tail + 1
  /\ pushes' = pushes + 1
  /\ UNCHANGED <<policy, head, mark, pc, seen, pos, item>>

(* The caller reads front and pops it; "front" is where it holds the value.*)
PopFront(t) ==
  /\ policy = "SingleThread" /\ MayPop(t)
  /\ At(t, "idle")
  /\ head # tail
  /\ item' = [item EXCEPT ![t] = data[Slot(head)]]
  /\ data' = [data EXCEPT ![Slot(head)] = NoItem]
  /\ head' = head + 1
  /\ GoTo(t, "front")
  /\ UNCHANGED <<policy, tail, mark, pushes, seen, pos>>

(* push_back on a full buffer and pop_front on an empty one.               *)
Throws(t) ==
  /\ policy = "SingleThread" /\ MayPop(t)
  /\ At(t, "idle")
  /\ Full(head, tail) \/ head = tail
  /\ UNCHANGED vars

FrontUsed(t) ==
  /\ At(t, "front")
  /\ Return(t)
  /\ UNCHANGED <<policy, shared, pushes, seen, pos>>

-----------------------------------------------------------------------------
(* try_push and try_emplace *)

Called(t) ==
  /\ policy # "SingleThread" /\ MayPush(t)
  /\ At(t, "idle")
  /\ pushes < MaxPushes
  /\ pushes' = pushes + 1
  /\ item' = [item EXCEPT ![t] = pushes + 1]

(* SPSC and MPSC load the head, MPMC its position.                         *)
PushBegin(t) ==
  /\ Called(t)
  /\ IF policy = "MPMC"
     THEN /\ pos' = [pos EXCEPT ![t] = tail]
          /\ GoTo(t, "push_seq")
          /\ UNCHANGED seen
     ELSE /\ seen' = [seen EXCEPT ![t] = head]
          /\ GoTo(t, "push_tail")
          /\ UNCHANGED pos
  /\ UNCHANGED <<policy, shared>>

(* The loop of MPSC loads the head again.                                  *)
PushLoadHead(t) ==
  /\ At(t, "push_head")
  /\ seen' = [seen EXCEPT ![t] = head]
  /\ GoTo(t, "push_tail")
  /\ UNCHANGED <<policy, shared, pushes, pos, item>>

PushLoadTail(t) ==
  /\ At(t, "push_tail")
  /\ pos' = [pos EXCEPT ![t] = tail]
  /\ IF Full(seen[t], tail) THEN Return(t)
     ELSE /\ GoTo(t, IF policy = "SPSC" THEN "push_write" ELSE "push_cas")
          /\ UNCHANGED item
  /\ UNCHANGED <<policy, shared, pushes, seen>>

(* MPMC: the slot's sequence number is the position, or the call gives up. *)
PushLoadSeq(t) ==
  /\ At(t, "push_seq")
  /\ IF mark[Slot(pos[t])] # pos[t] THEN Return(t)
     ELSE GoTo(t, "push_cas") /\ UNCHANGED item
  /\ UNCHANGED <<policy, shared, pushes, seen, pos>>

(* Mutant of PushCas: a store where the code compares and exchanges.       *)
PushCasStore(t) ==
  /\ At(t, "push_cas")
  /\ tail' = pos[t] + 1
  /\ GoTo(t, "push_write")
  /\ UNCHANGED <<policy, head, mark, data, pushes, seen, pos, item>>

PushCas(t) ==
  /\ At(t, "push_cas")
  /\ IF tail = pos[t]
     THEN /\ tail' = tail + 1
          /\ GoTo(t, "push_write")
          /\ UNCHANGED pos
     ELSE /\ pos' = [pos EXCEPT ![t] = tail]
          /\ GoTo(t, IF policy = "MPMC" THEN "push_seq" ELSE "push_head")
          /\ UNCHANGED tail
  /\ UNCHANGED <<policy, head, mark, data, pushes, seen, item>>

PushWrite(t) ==
  /\ At(t, "push_write")
  /\ data' = [data EXCEPT ![Slot(pos[t])] = item[t]]
  /\ GoTo(t, "push_publish")
  /\ UNCHANGED <<policy, head, tail, mark, pushes, seen, pos, item>>

PushPublish(t) ==
  /\ At(t, "push_publish")
  /\ \/ policy = "SPSC" /\ tail' = pos[t] + 1 /\ UNCHANGED mark
     \/ policy = "MPSC" /\ mark' = [mark EXCEPT ![Slot(pos[t])] = 1] /\ UNCHANGED tail
     \/ policy = "MPMC" /\ mark' = [mark EXCEPT ![Slot(pos[t])] = pos[t] + 1] /\ UNCHANGED tail
  /\ Return(t)
  /\ UNCHANGED <<policy, head, data, pushes, seen, pos>>

-----------------------------------------------------------------------------
(* try_pop *)

PopBegin(t) ==
  /\ policy # "SingleThread" /\ MayPop(t)
  /\ At(t, "idle")
  /\ pos' = [pos EXCEPT ![t] = head]
  /\ GoTo(t, "pop_check")
  /\ UNCHANGED <<policy, shared, pushes, seen, item>>

(* Mutant of Published: MPSC trusts the tail instead of the ready flag.    *)
PublishedByTail(p) ==
  IF policy = "MPMC" THEN mark[Slot(p)] = p + 1 ELSE p # tail

(* The element at position p may be taken.                                 *)
Published(p) ==
  CASE policy = "SPSC" -> p # tail
    [] policy = "MPSC" -> mark[Slot(p)] # 0
    [] OTHER -> mark[Slot(p)] = p + 1

PopCheck(t) ==
  /\ At(t, "pop_check")
  /\ GoTo(t, IF ~Published(pos[t]) THEN "idle"
             ELSE IF policy = "MPMC" THEN "pop_cas" ELSE "pop_take")
  /\ UNCHANGED <<policy, shared, pushes, seen, pos, item>>

PopCas(t) ==
  /\ At(t, "pop_cas")
  /\ IF head = pos[t]
     THEN /\ head' = head + 1
          /\ GoTo(t, "pop_take")
          /\ UNCHANGED pos
     ELSE /\ pos' = [pos EXCEPT ![t] = head]
          /\ GoTo(t, "pop_check")
          /\ UNCHANGED head
  /\ UNCHANGED <<policy, tail, mark, data, pushes, seen, item>>

PopTake(t) ==
  /\ At(t, "pop_take")
  /\ item' = [item EXCEPT ![t] = data[Slot(pos[t])]]
  /\ data' = [data EXCEPT ![Slot(pos[t])] = NoItem]
  /\ GoTo(t, "pop_free")
  /\ UNCHANGED <<policy, head, tail, mark, pushes, seen, pos>>

(* The mark that gives the slot back to producers.                         *)
Freed(p) == IF policy = "MPSC" THEN 0 ELSE p + Capacity

(* SPSC has no mark; MPSC stores the head after it, MPMC has already.      *)
PopFree(t) ==
  /\ At(t, "pop_free")
  /\ IF policy = "SPSC"
     THEN head' = pos[t] + 1 /\ UNCHANGED mark
     ELSE mark' = [mark EXCEPT ![Slot(pos[t])] = Freed(pos[t])] /\ UNCHANGED head
  /\ IF policy = "MPSC" THEN GoTo(t, "pop_head") /\ UNCHANGED item ELSE Return(t)
  /\ UNCHANGED <<policy, tail, data, pushes, seen, pos>>

PopStoreHead(t) ==
  /\ At(t, "pop_head")
  /\ head' = pos[t] + 1
  /\ Return(t)
  /\ UNCHANGED <<policy, tail, mark, data, pushes, seen, pos>>

-----------------------------------------------------------------------------
Continue(t) ==
  \/ PushLoadHead(t) \/ PushLoadTail(t) \/ PushLoadSeq(t)
  \/ PushCas(t) \/ PushWrite(t) \/ PushPublish(t)
  \/ PopCheck(t) \/ PopCas(t) \/ PopTake(t) \/ PopFree(t) \/ PopStoreHead(t) \/ FrontUsed(t)

Next ==
  \E t \in Threads :
    PushBack(t) \/ PopFront(t) \/ Throws(t) \/ PushBegin(t) \/ PopBegin(t) \/ Continue(t)

(* A thread inside a call is scheduled again; nobody has to call.          *)
Fairness == \A t \in Threads : WF_vars(Continue(t))

Spec == Init /\ [][Next]_vars /\ Fairness

-----------------------------------------------------------------------------
TypeOK ==
  /\ policy \in Policies
  /\ head \in 0 .. MaxPushes /\ tail \in 0 .. MaxPushes
  /\ mark \in [Slots -> 0 .. MaxPushes + Capacity]
  /\ data \in [Slots -> 1 .. MaxPushes \cup {NoItem}]
  /\ item \in [Threads -> 1 .. MaxPushes \cup {NoItem}]

(* An element is constructed only where none is alive and taken only where *)
(* one is, at every policy and however far producers and consumers are     *)
(* ahead of each other: no leak, no read of an unconstructed slot.         *)
SlotsMatch ==
  \A t \in Threads :
    /\ At(t, "push_write") => data[Slot(pos[t])] = NoItem
    /\ At(t, "pop_take") => data[Slot(pos[t])] # NoItem

InSlot(t) == pc[t] \in {"push_write", "push_publish", "pop_take", "pop_free"}

(* No two calls work on one slot at once.                                  *)
SlotExclusive ==
  \A t, u \in Threads : t # u /\ InSlot(t) /\ InSlot(u) => Slot(pos[t]) # Slot(pos[u])

(* Elements between the positions: of MPSC and SPSC, one the consumer has  *)
(* taken no longer counts.                                                 *)
Taken == \E t \in Threads : policy # "MPMC" /\ pc[t] \in {"pop_free", "pop_head"}
First == IF Taken THEN head + 1 ELSE head

(* linearize_views: the elements from the head's slot to the end of the    *)
(* buffer at most, then those from the buffer's start.                     *)
Views ==
  LET size  == tail - head
      first == IF Capacity - Slot(head) < size THEN Capacity - Slot(head) ELSE size
  IN  [i \in 1 .. size |-> data[IF i <= first THEN Slot(head) + i - 1 ELSE i - first - 1]]

Value(p) ==
  LET Writers == {t \in Threads : At(t, "push_write") /\ pos[t] = p}
  IN  IF Writers # {} THEN item[CHOOSE t \in Writers : TRUE] ELSE data[Slot(p)]

Given(t) ==
  CASE At(t, "pop_take") /\ policy = "MPMC" -> data[Slot(pos[t])]
    [] pc[t] \in {"pop_free", "pop_head", "front"} -> item[t]
    [] OTHER -> NoItem

Fifo == INSTANCE BoundedFifo WITH
  Values <- 1 .. MaxPushes,
  queue <- [i \in 1 .. tail - First |-> Value(First + i - 1)],
  given <- [t \in Threads |-> Given(t)]

(* A buffer of each policy is a first-in first-out queue of at most        *)
(* Capacity values: what a producer was told is in arrives once, whole and *)
(* in order, and lies where front, the iterators and linearize_views look. *)
ImplementsFifo == Fifo!Spec

(* While no call is in progress the two views together show the elements   *)
(* in the order in which they will be popped.                              *)
ViewsInOrder ==
  (\A t \in Threads : At(t, "idle")) => Views = [i \in 1 .. tail - head |-> Value(head + i - 1)]

(* A call returns, whatever the others do in between.  Stated for one      *)
(* producer and one consumer: the others of a policy are no different.     *)
CallsReturn == \A t \in {OneProducer, OneConsumer} : pc[t] # "idle" ~> pc[t] = "idle"
=============================================================================
