---------------------------- MODULE ObserverList ----------------------------
(***************************************************************************)
(* Observer_List and observed (observed.h).  A list is a chain of nodes    *)
(* behind a dummy; several threads may append at once, without a lock,     *)
(* while the owner of an observed value assigns it and walks the list to   *)
(* notify.  Observers may assign the value again from inside their call.   *)
(* Clearing, copying, moving and swapping lists is left to a caller that   *)
(* knows nobody else uses them.  One step per atomic access.               *)
(***************************************************************************)
EXTENDS Naturals, FiniteSets, SequencesExt

CONSTANTS
  Threads,
  Lists,
  Subject,      \* the list of the observed value
  Nodes,        \* bound: nodes allocated at once
  MaxPushes,    \* bound: subscriptions; the n-th is observer n
  MaxValue,     \* bound: assignments of the value
  MaxDepth,     \* bound: nested notifications
  Null

(* What a run must choose.                                                 *)
ParametersAssumption ==
  /\ Subject \in Lists
  /\ IsFiniteSet(Nodes) /\ Null \notin Nodes
  /\ \E h \in [Lists -> Nodes] : \A l, k \in Lists : l # k => h[l] # h[k]    \* a dummy for each list
  /\ {MaxPushes, MaxValue, MaxDepth} \subseteq Nat

VARIABLES
  head, tail,   \* m_Head and m_Tail of each list
  next,         \* next of each node
  observer,     \* func of each node, 0 for a dummy
  free,         \* nodes not allocated
  pc, list, node, last, after,   \* AppendNode: this, node, tail, next
  pushes,       \* PushBack calls so far
  value,        \* the observed value
  frames,       \* the notifications in progress: the node each is at, the
                \* value each started with
  seen,         \* the value each observer was last called with
  subscribed,   \* history: the observers of each list, in order
  due           \* history: observers subscribed when the value was assigned

chain == <<head, tail, next, observer, free>>
appendVars == <<pc, list, node, last, after, pushes>>
notifyVars == <<value, frames, seen, due>>
vars == <<chain, appendVars, notifyVars, subscribed>>

Init ==
  /\ head = CHOOSE h \in [Lists -> Nodes] : \A l, k \in Lists : l # k => h[l] # h[k]
  /\ tail = head
  /\ next = [n \in Nodes |-> Null]
  /\ observer = [n \in Nodes |-> 0]
  /\ free = Nodes \ {head[l] : l \in Lists}
  /\ pc = [t \in Threads |-> "idle"]
  /\ list = [t \in Threads |-> Subject]
  /\ node = [t \in Threads |-> Null]
  /\ last = [t \in Threads |-> Null]
  /\ after = [t \in Threads |-> Null]
  /\ pushes = 0
  /\ value = 0 /\ frames = <<>> /\ seen = [o \in 1 .. MaxPushes |-> 0]
  /\ subscribed = [l \in Lists |-> <<>>]
  /\ due = {}

(* The node new returns; which one, nothing depends on.                    *)
NewNode == CHOOSE n \in free : TRUE

At(t, l) == pc[t] = l
GoTo(t, l) == pc' = [pc EXCEPT ![t] = l]

-----------------------------------------------------------------------------
(* PushBack: the node, then AppendNode *)

PushBack(t, l) ==
  /\ At(t, "idle")
  /\ pushes < MaxPushes
  /\ free # {}
  /\ free' = free \ {NewNode}
  /\ node' = [node EXCEPT ![t] = NewNode]
  /\ observer' = [observer EXCEPT ![NewNode] = pushes + 1]
  /\ next' = [next EXCEPT ![NewNode] = Null]
  /\ pushes' = pushes + 1
  /\ list' = [list EXCEPT ![t] = l]
  /\ GoTo(t, "tail")
  /\ UNCHANGED <<head, tail, last, after, notifyVars, subscribed>>

LoadTail(t) ==
  /\ At(t, "tail")
  /\ last' = [last EXCEPT ![t] = tail[list[t]]]
  /\ GoTo(t, "next")
  /\ UNCHANGED <<chain, list, node, after, pushes, notifyVars, subscribed>>

LoadNext(t) ==
  /\ At(t, "next")
  /\ after' = [after EXCEPT ![t] = next[last[t]]]
  /\ GoTo(t, "check")
  /\ UNCHANGED <<chain, list, node, last, pushes, notifyVars, subscribed>>

(* Mutant of CheckTail: a stale tail is not loaded again.                  *)
CheckTailStale(t) ==
  /\ At(t, "check")
  /\ GoTo(t, IF last[t] # tail[list[t]] THEN "next"
             ELSE IF after[t] = Null THEN "link" ELSE "help")
  /\ UNCHANGED <<chain, list, node, last, after, pushes, notifyVars, subscribed>>

CheckTail(t) ==
  /\ At(t, "check")
  /\ GoTo(t, IF last[t] # tail[list[t]] THEN "tail"
             ELSE IF after[t] = Null THEN "link" ELSE "help")
  /\ UNCHANGED <<chain, list, node, last, after, pushes, notifyVars, subscribed>>

Link(t) ==
  /\ At(t, "link")
  /\ IF next[last[t]] = Null
     THEN /\ next' = [next EXCEPT ![last[t]] = node[t]]
          /\ subscribed' = [subscribed EXCEPT ![list[t]] = Append(@, observer[node[t]])]
          /\ GoTo(t, "swing")
     ELSE /\ GoTo(t, "tail")
          /\ UNCHANGED <<next, subscribed>>
  /\ UNCHANGED <<head, tail, observer, free, list, node, last, after, pushes, notifyVars>>

(* Mutant of SwungTail: the tail is stored, not exchanged.                 *)
SwungTailStore(t, to) == [tail EXCEPT ![list[t]] = to]

(* m_Tail moves on from the tail this thread read.                         *)
SwungTail(t, to) ==
  IF tail[list[t]] = last[t] THEN [tail EXCEPT ![list[t]] = to] ELSE tail

Swing(t) ==
  /\ At(t, "swing")
  /\ tail' = SwungTail(t, node[t])
  /\ node' = [node EXCEPT ![t] = Null]
  /\ last' = [last EXCEPT ![t] = Null]
  /\ after' = [after EXCEPT ![t] = Null]
  /\ GoTo(t, "idle")
  /\ UNCHANGED <<head, next, observer, free, list, pushes, notifyVars, subscribed>>

(* The tail lags: another thread's node is helped on.                      *)
Help(t) ==
  /\ At(t, "help")
  /\ tail' = SwungTail(t, after[t])
  /\ GoTo(t, "tail")
  /\ UNCHANGED <<head, next, observer, free, list, node, last, after, pushes, notifyVars, subscribed>>

Append1(t) == LoadTail(t) \/ LoadNext(t) \/ CheckTail(t) \/ Link(t) \/ Swing(t) \/ Help(t)

-----------------------------------------------------------------------------
(* set_value, modify, the assignments, and notify: ForEach over the list.  *)
(* A frame stands at the node whose observer runs. *)

(* The value an observer is called with: the one there is now.             *)
Shown(f, v) == v

(* A notification goes on from node n to the next, whose observer is       *)
(* called with value v, or is over; rest is the stack below.               *)
Walks(f, n, v, rest) ==
  IF next[n] = Null
  THEN frames' = rest /\ UNCHANGED seen
  ELSE /\ frames' = Append(rest, [f EXCEPT !.node = next[n]])
       /\ seen' = [seen EXCEPT ![observer[next[n]]] = Shown(f, v)]

SetValue ==
  /\ value < MaxValue
  /\ Len(frames) < MaxDepth
  /\ value' = value + 1
  /\ due' = ToSet(subscribed[Subject])
  /\ Walks([node |-> head[Subject], from |-> value + 1], head[Subject], value + 1, frames)
  /\ UNCHANGED <<chain, appendVars, subscribed>>

(* The observer returns; the next is called, or the notification is over.  *)
NotifyNext ==
  /\ frames # <<>>
  /\ Walks(Last(frames), Last(frames).node, value, Front(frames))
  /\ UNCHANGED <<chain, appendVars, value, due, subscribed>>

-----------------------------------------------------------------------------
(* Whole lists, while nobody else uses them *)

Quiet == frames = <<>> /\ \A t \in Threads : At(t, "idle")

(* The nodes from n on; a walk that goes round sees them all as well.      *)
Walk(n) ==
  LET step[i \in 0 .. Cardinality(Nodes)] ==
        IF i = 0 THEN <<n>>
        ELSE LET path == step[i - 1]
             IN  IF next[Last(path)] = Null THEN path ELSE Append(path, next[Last(path)])
  IN  step[Cardinality(Nodes)]

ChainFrom(n) == ToSet(Walk(n))

(* Clear: the nodes behind the dummy are deleted.                          *)
Clear(l) ==
  /\ Quiet
  /\ free' = free \cup (ChainFrom(head[l]) \ {head[l]})
  /\ next' = [next EXCEPT ![head[l]] = Null]
  /\ tail' = [tail EXCEPT ![l] = head[l]]
  /\ subscribed' = [subscribed EXCEPT ![l] = <<>>]
  /\ UNCHANGED <<head, observer, appendVars, notifyVars>>

(* The tails once l has taken k's nodes and k has a new dummy.             *)
MovedTail(l, k, dummy) == [tail EXCEPT ![l] = tail[k], ![k] = dummy]

(* Move assignment: the target's nodes and dummy are deleted; the source   *)
(* gets a new dummy.                                                       *)
MoveAssign(l, k) ==
  /\ Quiet
  /\ l # k
  /\ free # {}
  /\ head' = [head EXCEPT ![l] = head[k], ![k] = NewNode]
  /\ tail' = MovedTail(l, k, NewNode)
  /\ free' = (free \ {NewNode}) \cup ChainFrom(head[l])
  /\ next' = [next EXCEPT ![NewNode] = Null]
  /\ observer' = [observer EXCEPT ![NewNode] = 0]
  /\ subscribed' = [subscribed EXCEPT ![l] = subscribed[k], ![k] = <<>>]
  /\ UNCHANGED <<appendVars, notifyVars>>

(* Swap, which copy assignment ends with.                                  *)
Swap(l, k) ==
  /\ Quiet
  /\ l # k
  /\ head' = [head EXCEPT ![l] = head[k], ![k] = head[l]]
  /\ tail' = [tail EXCEPT ![l] = tail[k], ![k] = tail[l]]
  /\ subscribed' = [subscribed EXCEPT ![l] = subscribed[k], ![k] = subscribed[l]]
  /\ UNCHANGED <<next, observer, free, appendVars, notifyVars>>

Next ==
  \/ \E t \in Threads : (\E l \in Lists : PushBack(t, l)) \/ Append1(t)
  \/ SetValue
  \/ NotifyNext
  \/ \E l \in Lists : Clear(l) \/ (\E k \in Lists : MoveAssign(l, k) \/ Swap(l, k))

(* An append in progress is scheduled again.                               *)
Fairness == \A t \in Threads : WF_vars(Append1(t))

Spec == Init /\ [][Next]_vars /\ Fairness

-----------------------------------------------------------------------------
Pointer == Nodes \cup {Null}

TypeOK ==
  /\ head \in [Lists -> Nodes] /\ tail \in [Lists -> Nodes]
  /\ next \in [Nodes -> Pointer]
  /\ observer \in [Nodes -> 0 .. MaxPushes]
  /\ free \subseteq Nodes
  /\ \A t \in Threads : {node[t], last[t], after[t]} \subseteq Pointer
  /\ value \in 0 .. MaxValue
  /\ \A i \in DOMAIN frames : frames[i].node \in Nodes /\ frames[i].from \in 1 .. value

(* Every subscription of concurrent threads is in its list once, in the    *)
(* order in which the nodes were linked; no append overwrites another's.   *)
SubscriptionsKept ==
  \A l \in Lists : LET path == Walk(head[l])
                   IN  [i \in 1 .. Len(path) - 1 |-> observer[path[i + 1]]] = subscribed[l]

(* A node belongs to one list, to the thread that is appending it, or is   *)
(* free: nothing leaks and nothing is deleted that a list still reaches.   *)
NodesOwned ==
  LET InHand == {node[t] : t \in {t \in Threads : pc[t] \notin {"idle", "swing"}}}
  IN  /\ (UNION {ChainFrom(head[l]) : l \in Lists}) \cup InHand \cup free = Nodes
      /\ \A l, k \in Lists : l # k => ChainFrom(head[l]) \cap ChainFrom(head[k]) = {}
      /\ \A l \in Lists : ChainFrom(head[l]) \cap (free \cup InHand) = {}
      /\ InHand \cap free = {}

(* m_Tail lies in its list, and at its end once no append is in progress.  *)
TailReached ==
  \A l \in Lists :
    /\ tail[l] \in ChainFrom(head[l])
    /\ (\A t \in Threads : At(t, "idle")) => next[tail[l]] = Null

(* When all notifications are over, every observer that was there when the *)
(* value was last assigned has been called with that value last, also when *)
(* observers assigned it from inside a notification.                       *)
LastSeenIsCurrent ==
  frames = <<>> => \A o \in due \cap ToSet(subscribed[Subject]) : seen[o] = value

(* An append ends, whatever the other threads do between its steps.        *)
AppendEnds == \A t \in Threads : pc[t] # "idle" ~> At(t, "idle")
=============================================================================
