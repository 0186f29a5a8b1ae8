------------------------------- MODULE KeyMap -------------------------------
(***************************************************************************)
(* What RadixTreeMap promises: a map from cells of keys to values.  A step *)
(* is a call, and the call says what it changes and what it returns.       *)
(***************************************************************************)
CONSTANTS
  Keys,
  CellOf,   \* the cell of a key
  Values,
  Nil       \* nullptr: no value

VARIABLES
  map,
  call      \* the last call, its key and value, and what it returned

CellsOfKeys == {CellOf[k] : k \in Keys}

Called(op, key, value, answer) ==
  call' = [op |-> op, key |-> key, value |-> value, answer |-> answer]

Init == map = [c \in CellsOfKeys |-> Nil] /\ call = Nil

(* Inserting nothing erases.                                               *)
Insert(k, v) ==
  /\ Called("insert", k, v, TRUE)
  /\ map' = [map EXCEPT ![CellOf[k]] = v]

(* There is no room for a value: nothing changes.                          *)
Refuse(k, v) ==
  /\ Called("insert", k, v, FALSE)
  /\ UNCHANGED map

Erase(k) ==
  /\ Called("erase", k, Nil, map[CellOf[k]] # Nil)
  /\ map' = [map EXCEPT ![CellOf[k]] = Nil]

Find(k) ==
  /\ Called("find", k, map[CellOf[k]], map[CellOf[k]] # Nil)
  /\ UNCHANGED map

Clear ==
  /\ Called("clear", Nil, Nil, TRUE)
  /\ map' = [c \in CellsOfKeys |-> Nil]

Next ==
  \/ \E k \in Keys :
       \/ \E v \in Values : Insert(k, v) \/ Refuse(k, v)
       \/ Insert(k, Nil) \/ Erase(k) \/ Find(k)
  \/ Clear

Spec == Init /\ [][Next]_<<map, call>>
=============================================================================
