-------------------------------- MODULE IdSet --------------------------------
(***************************************************************************)
(* What a stripe's ActiveSetImpl promises: a set of ids.  A step is a call,*)
(* kept with its id and an answer that says whether the call changed the   *)
(* set (insert, erase) or found its id (contains).                         *)
(***************************************************************************)
CONSTANT Ids

VARIABLES
  members,
  call      \* the last call

NoCall == [op |-> "none"]
Called(op, i, answer) == call' = [op |-> op, id |-> i, answer |-> answer]

Init == members = {} /\ call = NoCall

Insert(i) == Called("insert", i, i \notin members) /\ members' = members \cup {i}

Erase(i) == Called("erase", i, i \in members) /\ members' = members \ {i}

Contains(i) == Called("contains", i, i \in members) /\ UNCHANGED members

Next == \E i \in Ids : Insert(i) \/ Erase(i) \/ Contains(i)

Spec == Init /\ [][Next]_<<members, call>>
=============================================================================
