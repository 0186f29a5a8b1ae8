---------------------------- MODULE MC_Containers ----------------------------
(* Small instances of the containers that are used on their own.  A        *)
(* behaviour exercises one of them, the subject; the others stay as they   *)
(* were constructed.                                                       *)
EXTENDS Naturals

CONSTANTS
  Empty, Tombstone,                          \* ActiveSet
  Keys, Values, KeyShift, Level0Size, Level1Size, Level2Size,             \* RadixTree
  Level1Nodes, Level2Nodes, Nil,
  Threads, Lists, Subject, Nodes, MaxPushes, MaxValue, MaxDepth, Null,    \* ObserverList
  Delegates, Callables, Small, Cells,        \* DelegateStorage
  Function, Instance, Nothing,
  LastGeneration, CompactAt, MaxAdds, MaxFrames    \* MulticastDelegate

VARIABLES
  subject,
  setSlots, setSize, setTombstones, setCall,
  root, children, values, used1, used2, free1, free2, treeSize, treeCall,
  head, tail, next, observer, free, pc, list, node, last, after,
  pushes, value, notifying, seen, subscribed, due,
  binding, pointer, memory, meant,
  slots, order, freeHead, retiredHead, activeCount, depth, tombstones,
  frames, handles, removed

(* Ids share a start or lie next to each other, so that chains form and    *)
(* run over the end of the table, and there are enough starts to fill it   *)
(* with tombstones.                                                        *)
Colliding == [i \in 1 .. 6 |-> CASE i \in {1, 2} -> 1 [] i = 3 -> 2 [] OTHER -> i]

AS == INSTANCE ActiveSet WITH
  Ids <- 1 .. 6, Hash <- Colliding, MinCapacity <- 2, InitialCapacity <- 3,
  TombstoneFloor <- 2, MaxLive <- 2,
  slots <- setSlots, size <- setSize, tombstoneCount <- setTombstones, call <- setCall

RT == INSTANCE RadixTree WITH size <- treeSize, call <- treeCall

OL == INSTANCE ObserverList WITH frames <- notifying

DS == INSTANCE DelegateStorage

MD == INSTANCE MulticastDelegate

(* The instances choose their parameters as the modules ask.               *)
ASSUME InstancesAssumption ==
  /\ AS!ParametersAssumption
  /\ RT!ParametersAssumption
  /\ OL!ParametersAssumption
  /\ DS!ParametersAssumption
  /\ MD!ParametersAssumption

set == <<setSlots, setSize, setTombstones, setCall>>
tree == <<root, children, values, used1, used2, free1, free2, treeSize, treeCall>>
observers == <<head, tail, next, observer, free, pc, list, node, last, after,
               pushes, value, notifying, seen, subscribed, due>>
delegates == <<binding, pointer, memory, meant>>
multicast == <<slots, order, freeHead, retiredHead, activeCount, depth, tombstones,
               frames, handles, removed>>
vars == <<subject, set, tree, observers, delegates, multicast>>

Init ==
  /\ subject \in {"set", "tree", "observers", "delegates", "multicast"}
  /\ AS!Init /\ RT!Init /\ OL!Init /\ DS!Init /\ MD!Init

Next ==
  /\ UNCHANGED subject
  /\ \/ subject = "set" /\ AS!Next /\ UNCHANGED <<tree, observers, delegates, multicast>>
     \/ subject = "tree" /\ RT!Next /\ UNCHANGED <<set, observers, delegates, multicast>>
     \/ subject = "observers" /\ OL!Next /\ UNCHANGED <<set, tree, delegates, multicast>>
     \/ subject = "delegates" /\ DS!Next /\ UNCHANGED <<set, tree, observers, multicast>>
     \/ subject = "multicast" /\ MD!Next /\ UNCHANGED <<set, tree, observers, delegates>>

Spec == Init /\ [][Next]_vars /\ OL!Fairness

-----------------------------------------------------------------------------
(* ActiveSetImpl and RadixTreeMap: counts and pools are exact, a probe     *)
(* always meets an empty slot, inserting and erasing for ever does not     *)
(* make the table grow, and the tree holds the inner nodes its keys need.  *)
TablesExact ==
  /\ subject = "set" =>
       AS!TypeOK /\ AS!CountsExact /\ AS!EmptySlotLeft /\ AS!CapacityBounded
  /\ subject = "tree" => RT!TypeOK /\ RT!NodesExact /\ RT!CountsExact

(* ActiveSetImpl is a set and RadixTreeMap a map: every call changes what  *)
(* is under its own id or key and answers accordingly, and a refused       *)
(* insertion changes nothing.                                              *)
ImplementsTables == AS!ImplementsSet /\ RT!ImplementsMap

(* Observer_List and observed: no concurrent PushBack loses an observer, a *)
(* node has one owner, the tail is reached, and when the notifications are *)
(* over every observer has seen the value that is current.                 *)
ObserversKept ==
  subject = "observers" =>
    OL!TypeOK /\ OL!SubscriptionsKept /\ OL!NodesOwned /\ OL!TailReached /\ OL!LastSeenIsCurrent

(* Observer_List: a PushBack ends.                                         *)
AppendEnds == OL!AppendEnds

(* delegate: what is executed is what was bound; a callable alive is       *)
(* destroyed by exactly one delegate, and no delegate points into          *)
(* another's inline buffer.                                                *)
DelegatesOwn ==
  subject = "delegates" =>
    DS!TypeOK /\ DS!RunsWhatWasBound /\ DS!OwnedOnce /\ DS!NoForeignBuffer

(* multicast_delegate: slots, counts and handles are exact, no callback is *)
(* destroyed while it runs, a broadcast calls those it should once and in  *)
(* order, and nothing deferred is left when no call is in progress.        *)
MulticastExact ==
  subject = "multicast" =>
    /\ MD!TypeOK /\ MD!SlotsAccounted /\ MD!CountsExact /\ MD!HandlesOwn
    /\ MD!RunningKept /\ MD!BroadcastExact /\ MD!NothingDeferred

(* multicast_delegate: no removed callback is entered.                     *)
CallsRegistered == MD!CallsRegistered
=============================================================================
