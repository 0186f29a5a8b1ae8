----------------------------- MODULE BoundedFifo -----------------------------
(***************************************************************************)
(* What mpmc_queue promises: a first-in first-out queue of at most         *)
(* Capacity values.  A consumer is given the oldest value and keeps it     *)
(* until its call ends.  A call that finds the queue full, or finds        *)
(* nothing to take, changes nothing.                                       *)
(***************************************************************************)
EXTENDS Naturals, Sequences

CONSTANTS
  Threads,
  Capacity,
  Values,     \* what can be pushed
  NoItem

VARIABLES
  queue,   \* the values inside, oldest first
  given    \* the value each consumer was given, NoItem when it has none

fifoVars == <<queue, given>>

Init ==
  /\ queue = <<>>
  /\ given = [t \in Threads |-> NoItem]

Push(v) ==
  /\ Len(queue) < Capacity
  /\ queue' = Append(queue, v)
  /\ UNCHANGED given

Pop(t) ==
  /\ queue # <<>>
  /\ given[t] = NoItem
  /\ given' = [given EXCEPT ![t] = Head(queue)]
  /\ queue' = Tail(queue)

Deliver(t) ==
  /\ given[t] # NoItem
  /\ given' = [given EXCEPT ![t] = NoItem]
  /\ UNCHANGED queue

Next ==
  \/ \E v \in Values : Push(v)
  \/ \E t \in Threads : Pop(t) \/ Deliver(t)

Spec == Init /\ [][Next]_fifoVars
=============================================================================
