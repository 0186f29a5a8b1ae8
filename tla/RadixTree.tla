------------------------------ MODULE RadixTree ------------------------------
(***************************************************************************)
(* core::containers::RadixTreeMap (radix_tree.h): a radix tree of three    *)
(* levels over two fixed pools of nodes.  Its user locks around it, so a   *)
(* call is one step, kept with its key and what it returned.  A node is    *)
(* named; the pools' free lists are sets, and an acquired node is any free *)
(* one.  The counters of refused insertions, which are statistics, are left*)
(* out.                                                                    *)
(***************************************************************************)
EXTENDS Naturals, FiniteSets

CONSTANTS
  Keys,
  Values,
  KeyShift,
  Level0Size, Level1Size, Level2Size,   \* two to the power of the bits
  Level1Nodes, Level2Nodes,             \* the nodes of the pools
  Nil                                   \* nullptr

(* What a run must choose.  A power of two is positive: what the provers   *)
(* are to know of it.                                                      *)
ParametersAssumption ==
  /\ Keys \subseteq Nat
  /\ KeyShift \in Nat /\ 2 ^ KeyShift \in Nat \ {0}
  /\ {Level0Size, Level1Size, Level2Size} \subseteq Nat \ {0}
  /\ Nil \notin Values \cup Level1Nodes \cup Level2Nodes

VARIABLES
  root,       \* Root
  children,   \* Children of the level-1 nodes
  values,     \* Values of the level-2 nodes
  used1,      \* UsedCount of the level-1 nodes
  used2,      \* UsedCount of the level-2 nodes
  free1,      \* FreeList of Level1Pool
  free2,      \* FreeList of Level2Pool
  size,       \* Size
  call        \* the last call, its key and value, and what it returned

tree == <<root, children, values, used1, used2, free1, free2, size>>
vars == <<tree, call>>

Index0 == 0 .. Level0Size - 1
Index1 == 0 .. Level1Size - 1
Index2 == 0 .. Level2Size - 1

EmptyChildren == [i \in Index1 |-> Nil]
EmptyValues == [i \in Index2 |-> Nil]

(* decodeKey                                                               *)
Normalized(key) == key \div 2 ^ KeyShift
Decodes(key) == Normalized(key) < Level0Size * Level1Size * Level2Size
At2(key) == Normalized(key) % Level2Size
At1(key) == (Normalized(key) \div Level2Size) % Level1Size

At0(key) == (Normalized(key) \div (Level2Size * Level1Size)) % Level0Size

Level1Of(key) == root[At0(key)]
Level2Of(key) == IF Level1Of(key) = Nil THEN Nil ELSE children[Level1Of(key)][At1(key)]

(* find                                                                    *)
Find(key) ==
  IF ~Decodes(key) \/ Level2Of(key) = Nil THEN Nil ELSE values[Level2Of(key)][At2(key)]

Init ==
  /\ root = [i \in Index0 |-> Nil]
  /\ children = [n \in Level1Nodes |-> EmptyChildren]
  /\ values = [n \in Level2Nodes |-> EmptyValues]
  /\ used1 = [n \in Level1Nodes |-> 0]
  /\ used2 = [n \in Level2Nodes |-> 0]
  /\ free1 = Level1Nodes
  /\ free2 = Level2Nodes
  /\ size = 0
  /\ call = Nil

(* The call that this step is, and what it returns.                        *)
Called(op, key, value, answer) ==
  call' = [op |-> op, key |-> key, value |-> value, answer |-> answer]

FindKey(key) == Called("find", key, Find(key), Find(key) # Nil) /\ UNCHANGED tree

(* Level1Node::reset and Level2Node::reset                                 *)
Reset1(nodes) ==
  /\ children' = [n \in Level1Nodes |-> IF n \in nodes THEN EmptyChildren ELSE children[n]]
  /\ used1' = [n \in Level1Nodes |-> IF n \in nodes THEN 0 ELSE used1[n]]

Reset2(nodes) ==
  /\ values' = [n \in Level2Nodes |-> IF n \in nodes THEN EmptyValues ELSE values[n]]
  /\ used2' = [n \in Level2Nodes |-> IF n \in nodes THEN 0 ELSE used2[n]]

-----------------------------------------------------------------------------
(* insertOrAssign of a value.  Inner nodes are acquired as they are missing. *)
Insert(key, v) ==
  /\ Decodes(key)
  /\ Level1Of(key) # Nil \/ free1 # {}
  /\ Level2Of(key) # Nil \/ free2 # {}
  /\ Called("insert", key, v, TRUE)
  /\ \E n1 \in IF Level1Of(key) = Nil THEN free1 ELSE {Level1Of(key)},
        n2 \in IF Level2Of(key) = Nil THEN free2 ELSE {Level2Of(key)} :
       /\ root' = [root EXCEPT ![At0(key)] = n1]
       /\ free1' = free1 \ {n1}
       /\ free2' = free2 \ {n2}
       /\ children' = [children EXCEPT ![n1][At1(key)] = n2]
       /\ values' = [values EXCEPT ![n2][At2(key)] = v]
       /\ used1' = [used1 EXCEPT ![n1] = IF Level2Of(key) = Nil THEN @ + 1 ELSE @]
       /\ used2' = [used2 EXCEPT ![n2] = IF Find(key) = Nil THEN @ + 1 ELSE @]
  /\ size' = IF Find(key) = Nil THEN size + 1 ELSE size

(* Mutant of Undone: the slot keeps the node that goes back.               *)
UndoneInPool(acquired, i) == acquired

(* The root once the level-1 node acquired for index i has gone back.      *)
Undone(acquired, i) == [acquired EXCEPT ![i] = Nil]

(* The level-1 node is acquired, and no level-2 node is left for it.       *)
HalfWay(key) ==
  /\ Level1Of(key) = Nil
  /\ \E n1 \in free1 :
       /\ root' = Undone([root EXCEPT ![At0(key)] = n1], At0(key))
       /\ free1' = (free1 \ {n1}) \cup {n1}
       /\ Reset1({n1})
  /\ UNCHANGED <<values, used2, free2, size>>

(* An insertion that finds a pool empty, ...                               *)
InsertExhausted(key, v) ==
  /\ Decodes(key)
  /\ Called("insert", key, v, FALSE)
  /\ \/ Level1Of(key) = Nil /\ free1 = {} /\ UNCHANGED tree
     \/ Level2Of(key) = Nil /\ free2 = {} /\ Level1Of(key) # Nil /\ UNCHANGED tree
     \/ free2 = {} /\ HalfWay(key)

(* ... and one of a key beyond the tree.                                   *)
InsertOutOfRange(key, v) ==
  /\ ~Decodes(key)
  /\ Called("insert", key, v, FALSE)
  /\ UNCHANGED tree

-----------------------------------------------------------------------------
(* erase, which is also the insertion of nullptr: a level-2 node left      *)
(* empty goes back to its pool, and so does then an empty level-1 node.    *)

Emptied2(key) == used2[Level2Of(key)] = 1
Emptied1(key) == Emptied2(key) /\ used1[Level1Of(key)] = 1

(* Mutant of Erases: a node for the key is taken for an entry.             *)
ErasesNode(key) == Decodes(key) /\ Level2Of(key) # Nil

(* What erase returns.                                                     *)
Erases(key) == Find(key) # Nil

Removed(key) ==
  LET n1 == Level1Of(key)
      n2 == Level2Of(key)
  IN  /\ Find(key) # Nil
      /\ size' = size - 1
      /\ values' = [values EXCEPT ![n2][At2(key)] = Nil]
      /\ used2' = [used2 EXCEPT ![n2] = @ - 1]
      /\ IF Emptied2(key)
         THEN /\ free2' = free2 \cup {n2}
              /\ children' = [children EXCEPT ![n1][At1(key)] = Nil]
              /\ used1' = [used1 EXCEPT ![n1] = @ - 1]
         ELSE UNCHANGED <<free2, children, used1>>
      /\ IF Emptied1(key)
         THEN /\ free1' = free1 \cup {n1}
              /\ root' = [root EXCEPT ![At0(key)] = Nil]
         ELSE UNCHANGED <<free1, root>>

Erased(key) == Removed(key) \/ (Find(key) = Nil /\ UNCHANGED tree)

Erase(key) == Called("erase", key, Nil, Erases(key)) /\ Erased(key)

InsertNull(key) == Called("insert", key, Nil, TRUE) /\ Erased(key)

(* clear releases every node the tree reaches; release resets a node.      *)
Reached1 == {n \in Level1Nodes : \E i \in Index0 : root[i] = n}
Reached2 == {n \in Level2Nodes : \E p \in Reached1, i \in Index1 : children[p][i] = n}

Clear ==
  /\ root' = [i \in Index0 |-> Nil]
  /\ Reset1(Reached1) /\ free1' = free1 \cup Reached1
  /\ Reset2(Reached2) /\ free2' = free2 \cup Reached2
  /\ size' = 0
  /\ Called("clear", Nil, Nil, TRUE)

Next ==
  \/ \E key \in Keys :
       \/ \E v \in Values : Insert(key, v) \/ InsertExhausted(key, v) \/ InsertOutOfRange(key, v)
       \/ Erase(key) \/ InsertNull(key) \/ FindKey(key)
  \/ Clear

Spec == Init /\ [][Next]_vars

-----------------------------------------------------------------------------
TypeOK ==
  /\ root \in [Index0 -> Level1Nodes \cup {Nil}]
  /\ children \in [Level1Nodes -> [Index1 -> Level2Nodes \cup {Nil}]]
  /\ values \in [Level2Nodes -> [Index2 -> Values \cup {Nil}]]
  /\ used1 \in [Level1Nodes -> 0 .. Level1Size]
  /\ used2 \in [Level2Nodes -> 0 .. Level2Size]

Bound == {key \in Keys : Find(key) # Nil}
Cell(key) == Normalized(key)

(* The tree holds exactly the inner nodes its keys need: none is left      *)
(* behind by an insertion that failed half-way, an erasure or a clear, and *)
(* none is reached twice, so an insertion is refused only when the nodes   *)
(* for one key more really do not exist.                                   *)
NodesExact ==
  /\ Reached1 \cap free1 = {} /\ Reached1 \cup free1 = Level1Nodes
  /\ Reached2 \cap free2 = {} /\ Reached2 \cup free2 = Level2Nodes
  /\ Cardinality(Reached1) = Cardinality({At0(key) : key \in Bound})
  /\ Cardinality(Reached2) = Cardinality({<<At0(key), At1(key)>> : key \in Bound})

(* UsedCount, on which the release of a node rests, and Size count what is *)
(* there; a node in a pool is clean.                                       *)
CountsExact ==
  /\ \A n \in Level1Nodes : used1[n] = Cardinality({i \in Index1 : children[n][i] # Nil})
  /\ \A n \in Level2Nodes : used2[n] = Cardinality({i \in Index2 : values[n][i] # Nil})
  /\ size = Cardinality({Cell(key) : key \in Bound})
  /\ \A n \in free1 : children[n] = EmptyChildren
  /\ \A n \in free2 : values[n] = EmptyValues

Map == INSTANCE KeyMap WITH
  CellOf <- [key \in Keys |-> Cell(key)],
  map <- [c \in {Cell(key) : key \in Keys} |-> Find(c * 2 ^ KeyShift)]

(* The tree is a map: an insertion changes what find returns for the keys  *)
(* of its own cell, to its own value, and nothing if it is refused; an     *)
(* erasure answers whether there was something to erase.                   *)
ImplementsMap == Map!Spec
=============================================================================
