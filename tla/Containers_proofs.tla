--------------------------- MODULE Containers_proofs ---------------------------
(***************************************************************************)
(* Proofs about the containers that MC_Containers puts side by side: about *)
(* delegates, for any number of them, of callables and of cells; about     *)
(* multicast delegates, for any numbers of callbacks and of nested calls;  *)
(* about observer lists, for any threads, lists, nodes and values; and     *)
(* about the radix tree, for any keys, values, sizes and numbers of nodes. *)
(***************************************************************************)
EXTENDS MC_Containers, FiniteSetTheorems, SequenceTheorems, FoldLemmas, TLAPS

-----------------------------------------------------------------------------
(* DelegateStorage: parameters *)

LEMMA SameCardinality == ASSUME NEW S PROVE DS!Cardinality(S) = Cardinality(S)
BY DEF DS!Cardinality, Cardinality

LEMMA PairIsSmall == ASSUME NEW a1, NEW a2 PROVE IsFiniteSet({a1, a2}) /\ Cardinality({a1, a2}) <= 2
<1>1. IsFiniteSet({a1}) /\ Cardinality({a1}) = 1
  BY FS_Singleton, Zenon
<1>2. {a1, a2} = {a1} \cup {a2}
  OBVIOUS
<1>3. /\ IsFiniteSet({a1} \cup {a2})
      /\ Cardinality({a1} \cup {a2}) = IF a2 \in {a1} THEN Cardinality({a1}) ELSE Cardinality({a1}) + 1
  BY <1>1, FS_AddElement
<1> QED
  BY <1>1, <1>2, <1>3

(* What is not owned is one of three things of its own.                    *)
LEMMA UnownedApart ==
  /\ Small \subseteq Callables
  /\ Function \notin Callables /\ Instance \notin Callables /\ Nothing \notin Callables
  /\ Function # Instance /\ Function # Nothing /\ Instance # Nothing
  /\ Instance \notin DS!Places /\ Nothing \notin DS!Places
<1> DEFINE three == {Function, Instance, Nothing}
<1>1. /\ Small \subseteq Callables /\ Cardinality(three \ Callables) = 3
      /\ {Instance, Nothing} \cap DS!Places = {}
  BY InstancesAssumption, SameCardinality DEF DS!ParametersAssumption
<1>2. \A x, y : ~ (three \ Callables \subseteq {x, y})
  <2> SUFFICES ASSUME NEW x, NEW y, three \ Callables \subseteq {x, y} PROVE FALSE
    OBVIOUS
  <2>1. IsFiniteSet({x, y}) /\ Cardinality({x, y}) <= 2
    BY PairIsSmall, Zenon
  <2>2. Cardinality(three \ Callables) <= Cardinality({x, y}) /\ Cardinality({x, y}) \in Nat
    BY <2>1, FS_Subset, FS_CardinalityType
  <2> QED
    BY <1>1, <2>1, <2>2
<1>3. ~ (three \ Callables \subseteq {Function, Instance})
  BY <1>2
<1>4. ~ (three \ Callables \subseteq {Function, Nothing})
  BY <1>2
<1>5. ~ (three \ Callables \subseteq {Instance, Nothing})
  BY <1>2
<1> QED
  BY <1>1, <1>3, <1>4, <1>5

LEMMA PlacesApart ==
  /\ \A d \in Delegates : DS!Buffer(d) \in DS!Places /\ DS!Buffer(d)[1] # "cell"
  /\ \A d, e \in Delegates : DS!Buffer(d) = DS!Buffer(e) => d = e
  BY DEF DS!Buffer, DS!Places

-----------------------------------------------------------------------------
(* DelegateStorage: the invariant *)

(* A delegate of bindings bd that owns a callable points (pt) at it in the *)
(* memory mem, in its own buffer if the callable is small.                 *)
PointsAtOwn(bd, pt, mem, d) ==
  /\ bd[d] \in Callables =>
       /\ pt[d] \in DS!Places
       /\ mem[pt[d]] = bd[d]
       /\ IF bd[d] \in Small THEN pt[d] = DS!Buffer(d) ELSE pt[d][1] = "cell"
  /\ bd[d] = Instance => pt[d] = Instance
  /\ bd[d] \in {Nothing, Function} => pt[d] = Nothing

(* No two delegates own the same, and what is alive has an owner.          *)
OwnersApart(bd, pt, mem) ==
  /\ \A d, e \in Delegates :
       d # e /\ bd[d] \in Callables /\ bd[e] \in Callables => pt[d] # pt[e]
  /\ \A p \in DS!Places :
       mem[p] # Nothing => \E d \in Delegates : bd[d] \in Callables /\ pt[d] = p

Typed(bd, pt, mem) ==
  /\ bd \in [Delegates -> Callables \cup {Function, Instance, Nothing}]
  /\ pt \in [Delegates -> DS!Places \cup {Instance, Nothing}]
  /\ mem \in [DS!Places -> Callables \cup {Nothing}]

Sound(bd, pt, mem) ==
  /\ Typed(bd, pt, mem)
  /\ \A d \in Delegates : PointsAtOwn(bd, pt, mem, d)
  /\ OwnersApart(bd, pt, mem)

DelegatesInv == Sound(binding, pointer, memory) /\ meant = binding

LEMMA DelegatesInvOwns ==
  DelegatesInv => DS!TypeOK /\ DS!RunsWhatWasBound /\ DS!OwnedOnce /\ DS!NoForeignBuffer
<1> SUFFICES ASSUME DelegatesInv
             PROVE  DS!TypeOK /\ DS!RunsWhatWasBound /\ DS!OwnedOnce /\ DS!NoForeignBuffer
  OBVIOUS
<1>. USE DEF DelegatesInv, Sound
<1>1. DS!TypeOK
  BY DEF Typed, DS!TypeOK
<1>2. DS!RunsWhatWasBound
  BY UnownedApart DEF Typed, PointsAtOwn, DS!RunsWhatWasBound, DS!Invoked
<1>3. DS!OwnedOnce
  <2> SUFFICES ASSUME NEW p \in DS!Places, memory[p] # Nothing
               PROVE  Cardinality({d \in Delegates : DS!Owned(binding[d]) /\ pointer[d] = p}) = 1
    BY SameCardinality DEF DS!OwnedOnce
  <2>1. PICK d \in Delegates : binding[d] \in Callables /\ pointer[d] = p
    BY DEF OwnersApart
  <2>2. {e \in Delegates : DS!Owned(binding[e]) /\ pointer[e] = p} = {d}
    BY <2>1 DEF OwnersApart, DS!Owned
  <2> QED
    BY <2>2, FS_Singleton, Zenon
<1>4. DS!NoForeignBuffer
  <2> SUFFICES ASSUME NEW d \in Delegates, NEW e \in Delegates, pointer[d] = DS!Buffer(e)
               PROVE  d = e /\ DS!Inline(binding[d])
    BY DEF DS!NoForeignBuffer
  <2>1. pointer[d] \in DS!Places /\ pointer[d][1] # "cell"
    BY PlacesApart
  <2>2. binding[d] \in Callables
    BY <2>1, UnownedApart DEF Typed, PointsAtOwn
  <2> QED
    BY <2>1, <2>2, PlacesApart DEF PointsAtOwn, DS!Inline
<1> QED
  BY <1>1, <1>2, <1>3, <1>4

-----------------------------------------------------------------------------
(* DelegateStorage: what every operation is made of *)

(* Without a small callable of its own a delegate's buffer is empty.       *)
LEMMA BufferEmpty ==
  ASSUME NEW bd, NEW pt, NEW mem, Sound(bd, pt, mem), NEW d \in Delegates, bd[d] \notin Small
  PROVE  mem[DS!Buffer(d)] = Nothing
<1> SUFFICES ASSUME mem[DS!Buffer(d)] # Nothing PROVE FALSE
  OBVIOUS
<1>1. DS!Buffer(d) \in DS!Places /\ DS!Buffer(d)[1] # "cell"
  BY PlacesApart
<1>2. PICK e \in Delegates : bd[e] \in Callables /\ pt[e] = DS!Buffer(d)
  BY <1>1 DEF Sound, OwnersApart
<1>3. bd[e] \in Small /\ pt[e] = DS!Buffer(e)
  BY <1>1, <1>2 DEF Sound, PointsAtOwn
<1>4. e = d
  BY <1>2, <1>3, PlacesApart, Zenon
<1> QED
  BY <1>3, <1>4

(* A delegate whose object has been destroyed can be left unbound.         *)
LEMMA Unbinding ==
  ASSUME NEW bd, NEW pt, NEW mem, Sound(bd, pt, mem), NEW d \in Delegates
  PROVE  Sound([bd EXCEPT ![d] = Nothing], [pt EXCEPT ![d] = Nothing], DS!Destroyed(mem, bd[d], pt[d]))
<1> DEFINE bd1 == [bd EXCEPT ![d] = Nothing]
           pt1 == [pt EXCEPT ![d] = Nothing]
           mem1 == DS!Destroyed(mem, bd[d], pt[d])
<1>1. Typed(bd1, pt1, mem1)
  BY Zenon DEF Sound, Typed, DS!Destroyed
<1>2. bd1[d] = Nothing /\ pt1[d] = Nothing /\ \A e \in Delegates \ {d} : bd1[e] = bd[e] /\ pt1[e] = pt[e]
  BY DEF Sound, Typed
<1>3. \A p \in DS!Places : mem1[p] = IF bd[d] \in Callables /\ p = pt[d] THEN Nothing ELSE mem[p]
  BY DEF Sound, Typed, DS!Destroyed, DS!Owned
<1> HIDE DEF bd1, pt1, mem1
<1>4. ASSUME NEW e \in Delegates PROVE PointsAtOwn(bd1, pt1, mem1, e)
  <2>1. CASE e = d
    BY <1>2, <2>1, UnownedApart DEF PointsAtOwn
  <2>2. CASE e # d
    <3>1. bd[e] \in Callables => pt[e] \in DS!Places /\ mem1[pt[e]] = mem[pt[e]]
      BY <1>3, <2>2 DEF Sound, PointsAtOwn, OwnersApart
    <3> QED
      BY <1>2, <2>2, <3>1 DEF Sound, PointsAtOwn
  <2> QED
    BY <2>1, <2>2
<1>5. OwnersApart(bd1, pt1, mem1)
  BY <1>2, <1>3, UnownedApart DEF Sound, OwnersApart
<1> QED
  BY <1>1, <1>4, <1>5, Zenon DEF Sound, bd1, pt1, mem1

(* An unbound delegate can be given something it does not own.             *)
LEMMA BindingUnowned ==
  ASSUME NEW bd, NEW pt, NEW mem, Sound(bd, pt, mem), NEW d \in Delegates, bd[d] = Nothing,
         NEW t \in {Function, Instance, Nothing}, NEW x, x = IF t = Instance THEN Instance ELSE Nothing
  PROVE  Sound([bd EXCEPT ![d] = t], [pt EXCEPT ![d] = x], mem)
<1> DEFINE bd1 == [bd EXCEPT ![d] = t]
           pt1 == [pt EXCEPT ![d] = x]
<1>1. Typed(bd1, pt1, mem)
  BY DEF Sound, Typed
<1>2. bd1[d] = t /\ pt1[d] = x /\ \A e \in Delegates \ {d} : bd1[e] = bd[e] /\ pt1[e] = pt[e]
  BY DEF Sound, Typed
<1> HIDE DEF bd1, pt1
<1>3. ASSUME NEW e \in Delegates PROVE PointsAtOwn(bd1, pt1, mem, e)
  <2>1. CASE e = d
    BY <1>2, <2>1, UnownedApart DEF PointsAtOwn
  <2>2. CASE e # d
    BY <1>2, <2>2 DEF Sound, PointsAtOwn
  <2> QED
    BY <2>1, <2>2
<1>4. OwnersApart(bd1, pt1, mem)
  BY <1>2, UnownedApart DEF Sound, OwnersApart
<1> QED
  BY <1>1, <1>3, <1>4, Zenon DEF Sound, bd1, pt1

(* An unbound delegate can be given a callable at a place of its own.      *)
LEMMA BindingOwned ==
  ASSUME NEW bd, NEW pt, NEW mem, Sound(bd, pt, mem), NEW d \in Delegates, bd[d] = Nothing,
         NEW c \in Callables, NEW p \in DS!Homes(mem, d, c)
  PROVE  Sound([bd EXCEPT ![d] = c], [pt EXCEPT ![d] = p], [mem EXCEPT ![p] = c])
<1> DEFINE bd1 == [bd EXCEPT ![d] = c]
           pt1 == [pt EXCEPT ![d] = p]
           mem1 == [mem EXCEPT ![p] = c]
<1>1. mem[DS!Buffer(d)] = Nothing
  BY BufferEmpty, UnownedApart
<1>2. /\ p \in DS!Places /\ mem[p] = Nothing
      /\ IF c \in Small THEN p = DS!Buffer(d) ELSE p[1] = "cell"
  BY <1>1, PlacesApart DEF DS!Homes, DS!Inline, DS!FreeCell
<1>3. Typed(bd1, pt1, mem1)
  BY <1>2 DEF Sound, Typed
<1>4. bd1[d] = c /\ pt1[d] = p /\ \A e \in Delegates \ {d} : bd1[e] = bd[e] /\ pt1[e] = pt[e]
  BY DEF Sound, Typed
<1>5. mem1[p] = c /\ \A x \in DS!Places \ {p} : mem1[x] = mem[x]
  BY <1>2 DEF Sound, Typed
<1>6. \A e \in Delegates \ {d} : bd[e] \in Callables => pt[e] \in DS!Places /\ pt[e] # p
  BY <1>2, UnownedApart DEF Sound, PointsAtOwn
<1> HIDE DEF bd1, pt1, mem1
<1>7. ASSUME NEW e \in Delegates PROVE PointsAtOwn(bd1, pt1, mem1, e)
  <2>1. CASE e = d
    BY <1>2, <1>4, <1>5, <2>1, UnownedApart DEF PointsAtOwn
  <2>2. CASE e # d
    BY <1>4, <1>5, <1>6, <2>2 DEF Sound, PointsAtOwn
  <2> QED
    BY <2>1, <2>2
<1>8. OwnersApart(bd1, pt1, mem1)
  BY <1>4, <1>5, <1>6, UnownedApart DEF Sound, OwnersApart
<1> QED
  BY <1>3, <1>7, <1>8, Zenon DEF Sound, bd1, pt1, mem1

(* What a delegate holds can be moved to an unbound one.                   *)
LEMMA Moving ==
  ASSUME NEW bd, NEW pt, NEW mem, Sound(bd, pt, mem),
         NEW d \in Delegates, NEW e \in Delegates, d # e, bd[d] = Nothing
  PROVE  Sound([bd EXCEPT ![d] = bd[e], ![e] = Nothing],
               [pt EXCEPT ![d] = IF bd[e] \in Small THEN DS!Buffer(d) ELSE pt[e], ![e] = Nothing],
               IF bd[e] \in Small
               THEN [mem EXCEPT ![DS!Buffer(d)] = bd[e], ![DS!Buffer(e)] = Nothing]
               ELSE mem)
<1> DEFINE x == IF bd[e] \in Small THEN DS!Buffer(d) ELSE pt[e]
           bd1 == [bd EXCEPT ![d] = bd[e], ![e] = Nothing]
           pt1 == [pt EXCEPT ![d] = x, ![e] = Nothing]
           mem1 == IF bd[e] \in Small
                 THEN [mem EXCEPT ![DS!Buffer(d)] = bd[e], ![DS!Buffer(e)] = Nothing]
                 ELSE mem
<1>1. Typed(bd1, pt1, mem1)
  BY PlacesApart, UnownedApart DEF Sound, Typed
<1>2. /\ bd1[d] = bd[e] /\ pt1[d] = x /\ bd1[e] = Nothing /\ pt1[e] = Nothing
      /\ \A f \in Delegates \ {d, e} : bd1[f] = bd[f] /\ pt1[f] = pt[f]
  BY DEF Sound, Typed
<1>3. CASE bd[e] \in Small
  <2>1. mem[DS!Buffer(d)] = Nothing /\ pt[e] = DS!Buffer(e) /\ x = DS!Buffer(d)
    BY <1>3, BufferEmpty, UnownedApart DEF Sound, PointsAtOwn
  <2>2. DS!Buffer(d) \in DS!Places /\ DS!Buffer(e) \in DS!Places /\ DS!Buffer(d) # DS!Buffer(e)
    BY PlacesApart
  <2>3. /\ mem1[DS!Buffer(d)] = bd[e] /\ mem1[DS!Buffer(e)] = Nothing
        /\ \A p \in DS!Places \ {DS!Buffer(d), DS!Buffer(e)} : mem1[p] = mem[p]
    BY <1>3, <2>2 DEF Sound, Typed
  <2>4. \A f \in Delegates \ {d, e} : bd[f] \in Callables =>
          pt[f] \in DS!Places /\ pt[f] # DS!Buffer(d) /\ pt[f] # DS!Buffer(e)
    BY <1>3, <2>1, UnownedApart DEF Sound, PointsAtOwn, OwnersApart
  <2> HIDE DEF bd1, pt1, mem1, x
  <2>5. ASSUME NEW f \in Delegates PROVE PointsAtOwn(bd1, pt1, mem1, f)
    <3>1. CASE f = d
      BY <1>2, <1>3, <2>1, <2>2, <2>3, <3>1, UnownedApart DEF PointsAtOwn
    <3>2. CASE f = e
      BY <1>2, <3>2, UnownedApart DEF PointsAtOwn
    <3>3. CASE f \notin {d, e}
      BY <1>2, <2>3, <2>4, <3>3 DEF Sound, PointsAtOwn
    <3> QED
      BY <3>1, <3>2, <3>3
  <2>6. OwnersApart(bd1, pt1, mem1)
    <3>1. \A f, g \in Delegates : f # g /\ bd1[f] \in Callables /\ bd1[g] \in Callables => pt1[f] # pt1[g]
      BY <1>2, <2>1, <2>4, UnownedApart DEF Sound, OwnersApart
    <3>2. ASSUME NEW p \in DS!Places, mem1[p] # Nothing
          PROVE  \E f \in Delegates : bd1[f] \in Callables /\ pt1[f] = p
      <4>1. CASE p = DS!Buffer(d)
        BY <1>2, <1>3, <2>1, <4>1, UnownedApart
      <4>2. CASE p # DS!Buffer(d)
        <5>1. p # DS!Buffer(e) /\ mem[p] # Nothing
          BY <2>3, <3>2, <4>2
        <5>2. PICK f \in Delegates : bd[f] \in Callables /\ pt[f] = p
          BY <5>1 DEF Sound, OwnersApart
        <5>3. f # e /\ f # d
          BY <2>1, <5>1, <5>2, UnownedApart
        <5> QED
          BY <1>2, <5>2, <5>3
      <4> QED
        BY <4>1, <4>2
    <3> QED
      BY <3>1, <3>2 DEF OwnersApart
  <2> QED
    BY <1>1, <2>5, <2>6, Zenon DEF Sound, bd1, pt1, mem1, x
<1>4. CASE bd[e] \notin Small
  <2>1. mem1 = mem /\ x = pt[e]
    BY <1>4
  <2> HIDE DEF bd1, pt1, mem1, x
  <2>2. ASSUME NEW f \in Delegates PROVE PointsAtOwn(bd1, pt1, mem1, f)
    <3>1. CASE f = d
      BY <1>2, <1>4, <2>1, <3>1 DEF Sound, PointsAtOwn
    <3>2. CASE f = e
      BY <1>2, <3>2, UnownedApart DEF PointsAtOwn
    <3>3. CASE f \notin {d, e}
      BY <1>2, <2>1, <3>3 DEF Sound, PointsAtOwn
    <3> QED
      BY <3>1, <3>2, <3>3
  <2>3. OwnersApart(bd1, pt1, mem1)
    <3>1. \A f, g \in Delegates : f # g /\ bd1[f] \in Callables /\ bd1[g] \in Callables => pt1[f] # pt1[g]
      BY <1>2, <2>1, UnownedApart DEF Sound, OwnersApart
    <3>2. ASSUME NEW p \in DS!Places, mem1[p] # Nothing
          PROVE  \E f \in Delegates : bd1[f] \in Callables /\ pt1[f] = p
      <4>1. PICK f \in Delegates : bd[f] \in Callables /\ pt[f] = p
        BY <2>1, <3>2 DEF Sound, OwnersApart
      <4>2. f # d
        BY <4>1, UnownedApart
      <4> QED
        BY <1>2, <2>1, <4>1, <4>2
    <3> QED
      BY <3>1, <3>2 DEF OwnersApart
  <2> QED
    BY <1>1, <2>2, <2>3, Zenon DEF Sound, bd1, pt1, mem1, x
<1> QED
  BY <1>3, <1>4

-----------------------------------------------------------------------------
(* DelegateStorage: the operations *)

(* Every operation starts by resetting the delegate it is about.           *)
Unbound(d, bd, pt, mem) ==
  /\ bd = [binding EXCEPT ![d] = Nothing]
  /\ pt = [pointer EXCEPT ![d] = Nothing]
  /\ mem = DS!AfterReset(d)

(* What then can be said of bindings bd, pointers pt and the memory mem.   *)
ReadyToBind(d, bd, pt, mem) ==
  /\ Sound(bd, pt, mem) /\ bd[d] = Nothing
  /\ \A x : [bd EXCEPT ![d] = x] = [binding EXCEPT ![d] = x]
  /\ \A x : [pt EXCEPT ![d] = x] = [pointer EXCEPT ![d] = x]
  /\ \A e \in Delegates \ {d} : bd[e] = binding[e] /\ pt[e] = pointer[e]
  /\ \A x : [meant EXCEPT ![d] = x] = [binding EXCEPT ![d] = x]

LEMMA ResetSound ==
  ASSUME DelegatesInv, NEW d \in Delegates, NEW bd, NEW pt, NEW mem, Unbound(d, bd, pt, mem)
  PROVE  ReadyToBind(d, bd, pt, mem)
<1>1. Sound(binding, pointer, memory) /\ meant = binding
  BY DEF DelegatesInv
<1>2. Sound([binding EXCEPT ![d] = Nothing], [pointer EXCEPT ![d] = Nothing],
            DS!Destroyed(memory, binding[d], pointer[d]))
  BY <1>1, Unbinding
<1>3. Sound(bd, pt, mem)
  BY <1>2 DEF Unbound, DS!AfterReset
<1>4. Typed(binding, pointer, memory)
  BY <1>1 DEF Sound
<1> QED
  BY <1>1, <1>3, <1>4 DEF Typed, Unbound, ReadyToBind

LEMMA ResetKeeps ==
  ASSUME DelegatesInv, NEW d \in Delegates, DS!Reset(d)
  PROVE  DelegatesInv'
<1> DEFINE bd == [binding EXCEPT ![d] = Nothing]
           pt == [pointer EXCEPT ![d] = Nothing]
           mem == DS!AfterReset(d)
<1>1. Unbound(d, bd, pt, mem)
  BY DEF Unbound
<1> HIDE DEF bd, pt, mem
<1>2. ReadyToBind(d, bd, pt, mem)
  BY <1>1, ResetSound
<1>3. Sound(bd, pt, mem)
  BY <1>2 DEF ReadyToBind
<1> QED
  BY <1>3 DEF DS!Reset, DelegatesInv, bd, pt, mem

LEMMA BindUnownedKeeps ==
  ASSUME DelegatesInv, NEW d \in Delegates, NEW t \in {Function, Instance}, DS!BindUnowned(d, t)
  PROVE  DelegatesInv'
<1> DEFINE bd == [binding EXCEPT ![d] = Nothing]
           pt == [pointer EXCEPT ![d] = Nothing]
           mem == DS!AfterReset(d)
           x == IF t = Instance THEN Instance ELSE Nothing
<1>1. Unbound(d, bd, pt, mem)
  BY DEF Unbound
<1> HIDE DEF bd, pt, mem
<1>2. /\ Sound(bd, pt, mem) /\ bd[d] = Nothing
      /\ [bd EXCEPT ![d] = t] = [binding EXCEPT ![d] = t]
      /\ [pt EXCEPT ![d] = x] = [pointer EXCEPT ![d] = x]
      /\ [meant EXCEPT ![d] = t] = [binding EXCEPT ![d] = t]
  <2>1. ReadyToBind(d, bd, pt, mem)
    BY <1>1, ResetSound
  <2> QED
    BY <2>1, Zenon DEF ReadyToBind
<1>3. Sound([bd EXCEPT ![d] = t], [pt EXCEPT ![d] = x], mem)
  BY <1>2, BindingUnowned, Zenon
<1> QED
  BY <1>2, <1>3 DEF DS!BindUnowned, DelegatesInv, mem

LEMMA BindCallableKeeps ==
  ASSUME DelegatesInv, NEW d \in Delegates, NEW c \in Callables, DS!BindCallable(d, c)
  PROVE  DelegatesInv'
<1> DEFINE bd == [binding EXCEPT ![d] = Nothing]
           pt == [pointer EXCEPT ![d] = Nothing]
           mem == DS!AfterReset(d)
<1>1. PICK p \in DS!Homes(mem, d, c) :
        /\ memory' = [mem EXCEPT ![p] = c]
        /\ binding' = [binding EXCEPT ![d] = c]
        /\ pointer' = [pointer EXCEPT ![d] = p]
        /\ meant' = [meant EXCEPT ![d] = c]
  BY Zenon DEF DS!BindCallable
<1>2. Unbound(d, bd, pt, mem)
  BY DEF Unbound
<1> HIDE DEF bd, pt, mem
<1>3. /\ Sound(bd, pt, mem) /\ bd[d] = Nothing
      /\ [bd EXCEPT ![d] = c] = [binding EXCEPT ![d] = c]
      /\ [pt EXCEPT ![d] = p] = [pointer EXCEPT ![d] = p]
      /\ [meant EXCEPT ![d] = c] = [binding EXCEPT ![d] = c]
  <2>1. ReadyToBind(d, bd, pt, mem)
    BY <1>2, ResetSound
  <2> QED
    BY <2>1, Zenon DEF ReadyToBind
<1>4. Sound([bd EXCEPT ![d] = c], [pt EXCEPT ![d] = p], [mem EXCEPT ![p] = c])
  BY <1>3, BindingOwned, Zenon
<1> QED
  BY <1>1, <1>3, <1>4 DEF DelegatesInv

LEMMA CopyAssignKeeps ==
  ASSUME DelegatesInv, NEW d \in Delegates, NEW e \in Delegates, DS!CopyAssign(d, e)
  PROVE  DelegatesInv'
<1> DEFINE bd == [binding EXCEPT ![d] = Nothing]
           pt == [pointer EXCEPT ![d] = Nothing]
           mem == DS!AfterReset(d)
           c == binding[e]
<1>1. PICK p \in DS!CopyPlace(memory, d, e) :
        /\ memory' = DS!Constructed(mem, p, c)
        /\ pointer' = [pointer EXCEPT ![d] = p]
  BY Zenon DEF DS!CopyAssign
<1>2. binding' = [binding EXCEPT ![d] = c] /\ meant' = [meant EXCEPT ![d] = meant[e]] /\ d # e
  BY DEF DS!CopyAssign
<1>3. Unbound(d, bd, pt, mem)
  BY DEF Unbound
<1>4. \A y \in DS!Places : memory[y] = Nothing => mem[y] = Nothing
  BY DEF DelegatesInv, Sound, Typed, DS!AfterReset, DS!Destroyed
<1> HIDE DEF bd, pt, mem
<1>5. /\ Sound(bd, pt, mem) /\ bd[d] = Nothing
      /\ [bd EXCEPT ![d] = c] = [binding EXCEPT ![d] = c]
      /\ [pt EXCEPT ![d] = p] = [pointer EXCEPT ![d] = p]
      /\ [meant EXCEPT ![d] = c] = [binding EXCEPT ![d] = c]
  <2>1. ReadyToBind(d, bd, pt, mem)
    BY <1>3, ResetSound
  <2> QED
    BY <2>1, Zenon DEF ReadyToBind
<1>6. meant' = binding'
  BY <1>2, <1>5 DEF DelegatesInv
<1>7. CASE c \in Callables
  <2>1. p \in DS!Homes(mem, d, c)
    BY <1>1, <1>4, <1>7 DEF DS!CopyPlace, DS!Owned, DS!Homes, DS!FreeCell
  <2>2. Sound([bd EXCEPT ![d] = c], [pt EXCEPT ![d] = p], [mem EXCEPT ![p] = c])
    BY <1>5, <1>7, <2>1, BindingOwned, Zenon
  <2>3. memory' = [mem EXCEPT ![p] = c]
    BY <1>1, <1>7 DEF DS!Constructed, DS!Owned
  <2> QED
    BY <1>1, <1>2, <1>5, <1>6, <2>2, <2>3 DEF DelegatesInv
<1>8. CASE c \notin Callables
  <2>1. c \in {Function, Instance, Nothing} /\ p = IF c = Instance THEN Instance ELSE Nothing
    BY <1>1, <1>8, UnownedApart
       DEF DelegatesInv, Sound, Typed, PointsAtOwn, DS!CopyPlace, DS!Owned
  <2>2. Sound([bd EXCEPT ![d] = c], [pt EXCEPT ![d] = p], mem)
    BY <1>5, <2>1, BindingUnowned, Zenon
  <2>3. memory' = mem
    BY <1>1, <1>8 DEF DS!Constructed, DS!Owned
  <2> QED
    BY <1>1, <1>2, <1>5, <1>6, <2>2, <2>3 DEF DelegatesInv
<1> QED
  BY <1>7, <1>8

LEMMA MoveAssignKeeps ==
  ASSUME DelegatesInv, NEW d \in Delegates, NEW e \in Delegates, DS!MoveAssign(d, e)
  PROVE  DelegatesInv'
<1> DEFINE bd == [binding EXCEPT ![d] = Nothing]
           pt == [pointer EXCEPT ![d] = Nothing]
           mem == DS!AfterReset(d)
           x == IF bd[e] \in Small THEN DS!Buffer(d) ELSE pt[e]
           moved == IF bd[e] \in Small
                THEN [mem EXCEPT ![DS!Buffer(d)] = bd[e], ![DS!Buffer(e)] = Nothing]
                ELSE mem
<1>1. Unbound(d, bd, pt, mem)
  BY DEF Unbound
<1>2. d # e
  BY DEF DS!MoveAssign
<1>3. Sound(bd, pt, mem) /\ bd[d] = Nothing /\ bd[e] = binding[e] /\ pt[e] = pointer[e]
  <2>1. ReadyToBind(d, bd, pt, mem)
    BY <1>1, ResetSound
  <2> QED
    BY <1>2, <2>1 DEF ReadyToBind
<1>4. /\ [bd EXCEPT ![d] = bd[e], ![e] = Nothing] = [binding EXCEPT ![d] = binding[e], ![e] = Nothing]
      /\ [pt EXCEPT ![d] = x, ![e] = Nothing] = [pointer EXCEPT ![d] = x, ![e] = Nothing]
  BY <1>2, Zenon DEF DelegatesInv, Sound, Typed
<1> HIDE DEF bd, pt, mem
<1>5. Sound([bd EXCEPT ![d] = bd[e], ![e] = Nothing], [pt EXCEPT ![d] = x, ![e] = Nothing], moved)
  BY <1>2, <1>3, Moving
<1>6. memory' = moved
  BY <1>3 DEF DS!MoveAssign, DS!MovedMemory, DS!Inline, mem
<1>7. pointer' = [pointer EXCEPT ![d] = x, ![e] = Nothing]
  BY <1>3 DEF DS!MoveAssign, DS!Inline
<1>8. /\ binding' = [binding EXCEPT ![d] = binding[e], ![e] = Nothing]
      /\ meant' = binding'
  BY DEF DS!MoveAssign, DelegatesInv
<1> HIDE DEF x, moved
<1> QED
  BY <1>4, <1>5, <1>6, <1>7, <1>8 DEF DelegatesInv


-----------------------------------------------------------------------------
(* DelegateStorage: the theorem *)

LEMMA DelegatesInit == ASSUME DS!Init PROVE DelegatesInv
<1>1. Typed(binding, pointer, memory)
  BY DEF DS!Init, Typed
<1>2. ASSUME NEW d \in Delegates PROVE PointsAtOwn(binding, pointer, memory, d)
  BY UnownedApart DEF DS!Init, PointsAtOwn
<1>3. OwnersApart(binding, pointer, memory)
  BY UnownedApart DEF DS!Init, OwnersApart
<1>4. meant = binding
  BY DEF DS!Init
<1> QED
  BY <1>1, <1>2, <1>3, <1>4 DEF DelegatesInv, Sound

LEMMA DelegatesNext == ASSUME DelegatesInv, DS!Next PROVE DelegatesInv'
<1>1. PICK d \in Delegates :
        \/ DS!Reset(d)
        \/ \E t \in {Function, Instance} : DS!BindUnowned(d, t)
        \/ \E c \in Callables : DS!BindCallable(d, c) \/ DS!BindFails(d, c)
        \/ \E e \in Delegates : DS!CopyAssign(d, e) \/ DS!CopyFails(d, e) \/ DS!MoveAssign(d, e)
  BY DEF DS!Next
<1>2. CASE DS!Reset(d)
  BY <1>2, ResetKeeps
<1>3. ASSUME NEW t \in {Function, Instance}, DS!BindUnowned(d, t) PROVE DelegatesInv'
  BY <1>3, BindUnownedKeeps
<1>4. ASSUME NEW c \in Callables, DS!BindCallable(d, c) PROVE DelegatesInv'
  BY <1>4, BindCallableKeeps
<1>5. ASSUME NEW c \in Callables, DS!BindFails(d, c) PROVE DelegatesInv'
  <2>1. DS!Reset(d)
    BY <1>5 DEF DS!BindFails
  <2> QED
    BY <2>1, ResetKeeps
<1>6. ASSUME NEW e \in Delegates, DS!CopyAssign(d, e) PROVE DelegatesInv'
  BY <1>6, CopyAssignKeeps
<1>7. ASSUME NEW e \in Delegates, DS!CopyFails(d, e) PROVE DelegatesInv'
  BY <1>7 DEF DS!CopyFails, DS!vars, DelegatesInv
<1>8. ASSUME NEW e \in Delegates, DS!MoveAssign(d, e) PROVE DelegatesInv'
  BY <1>8, MoveAssignKeeps
<1> QED
  BY <1>1, <1>2, <1>3, <1>4, <1>5, <1>6, <1>7, <1>8

(* delegate: for any number of delegates, callables and cells, through     *)
(* binds that fail, copies and moves, what is executed is what was bound,  *)
(* a callable alive is destroyed by exactly one delegate, and no delegate  *)
(* points into another's inline buffer.                                    *)
THEOREM DelegatesAreOwned == Spec => []DelegatesOwn
<1>1. Init => DelegatesInv
  BY DelegatesInit DEF Init
<1>2. DelegatesInv /\ [Next]_vars => DelegatesInv'
  <2> SUFFICES ASSUME DelegatesInv, [Next]_vars PROVE DelegatesInv'
    OBVIOUS
  <2>1. CASE DS!Next
    BY <2>1, DelegatesNext
  <2>2. CASE UNCHANGED delegates
    BY <2>2 DEF delegates, DelegatesInv
  <2> QED
    BY <2>1, <2>2 DEF Next, vars
<1>3. DelegatesInv => DelegatesOwn
  BY DelegatesInvOwns DEF DelegatesOwn
<1> QED
  BY <1>1, <1>2, <1>3, PTL DEF Spec

-----------------------------------------------------------------------------
(* MulticastDelegate: parameters, sequences *)

LEMMA MulticastParameters ==
  /\ LastGeneration \in Nat \ {0} /\ CompactAt \in Nat \ {0}
  /\ MaxAdds \in Nat /\ MaxFrames \in Nat \ {0}
BY InstancesAssumption DEF MD!ParametersAssumption

LEMMA FrontFields ==
  ASSUME NEW S, NEW q \in Seq(S), q # <<>>
  PROVE  /\ MD!Last(q) = q[Len(q)] /\ Len(q) \in Nat \ {0} /\ q[Len(q)] \in S
         /\ MD!Front(q) \in Seq(S) /\ Len(MD!Front(q)) = Len(q) - 1
         /\ \A i \in 1 .. Len(q) - 1 : MD!Front(q)[i] = q[i]
<1>1. Len(q) \in Nat \ {0} /\ q[Len(q)] \in S
  OBVIOUS
<1> DEFINE n == Len(q) - 1
           r == SubSeq(q, 1, n)
<1>2. n \in Nat /\ 1 \in Int /\ n \in Int /\ \A i \in 1 .. n : q[i] \in S
  BY <1>1
<1> HIDE DEF n
<1>3. /\ r \in Seq(S) /\ Len(r) = IF 1 <= n THEN n - 1 + 1 ELSE 0
      /\ \A i \in 1 .. n - 1 + 1 : r[i] = q[1 + i - 1]
  BY <1>2, SubSeqProperties, SMT
<1> HIDE DEF r
<1>4. Len(r) = n /\ \A i \in 1 .. n : r[i] = q[i]
  BY <1>2, <1>3
<1> QED
  BY <1>1, <1>3, <1>4 DEF MD!Last, MD!Front, n, r

LEMMA AppendFields ==
  ASSUME NEW S, NEW q \in Seq(S), NEW x
  PROVE  /\ Len(q) \in Nat /\ Len(Append(q, x)) = Len(q) + 1
         /\ Append(q, x)[Len(q) + 1] = x
         /\ \A i \in 1 .. Len(q) : Append(q, x)[i] = q[i]
         /\ x \in S => Append(q, x) \in Seq(S)
OBVIOUS

-----------------------------------------------------------------------------
(* MulticastDelegate: the invariant *)

Elements(q) == {q[i] : i \in 1 .. Len(q)}

SlotRecord(s) ==
  [callback : 0 .. MaxAdds, generation : 1 .. LastGeneration, next : 0 .. Len(s), active : BOOLEAN]

HandleRecord(s) == [index : 1 .. Len(s), generation : 1 .. LastGeneration]

(* The slots s, the handles h that add returned and those of them that are *)
(* gone: a handle that is not gone has its slot to itself, the generation  *)
(* of one that is gone is past.                                            *)
HandlesTyped(s, h, gone) ==
  /\ s \in Seq(SlotRecord(s)) /\ h \in Seq(HandleRecord(s))
  /\ Len(h) <= MaxAdds /\ gone \subseteq 1 .. Len(h)

HandleAt(s, h, gone, c) ==
  /\ h[c].generation <= c
  /\ c \in gone => h[c].generation < s[h[c].index].generation
  /\ c \notin gone =>
       /\ s[h[c].index].active
       /\ s[h[c].index].generation = h[c].generation
       /\ s[h[c].index].callback = c

SlotAt(s, h, gone, i) ==
  /\ s[i].generation = 1 \/ \E c \in gone : h[c].index = i /\ h[c].generation = s[i].generation - 1
  /\ s[i].active => \E c \in 1 .. Len(h) : c \notin gone /\ h[c].index = i

HandlesInv(s, h, gone) ==
  /\ HandlesTyped(s, h, gone)
  /\ \A c \in 1 .. Len(h) : HandleAt(s, h, gone, c)
  /\ \A i \in 1 .. Len(s) : SlotAt(s, h, gone, i)
  /\ \A c, d \in 1 .. Len(h) : h[c] = h[d] => c = d

(* A list of slots, which is a stack: q ends with its head.                *)
IsStack(s, first, q) ==
  /\ q \in Seq(1 .. Len(s))
  /\ \A i, j \in 1 .. Len(q) : q[i] = q[j] => i = j
  /\ first = IF Len(q) = 0 THEN 0 ELSE q[Len(q)]
  /\ \A i \in 1 .. Len(q) : s[q[i]].next = IF i = 1 THEN 0 ELSE q[i - 1]

(* A slot that is not active is free, retired or among those released.     *)
Partition(s, F, R, released) ==
  /\ Elements(F) \cap Elements(R) = {} /\ Elements(F) \cap released = {} /\ Elements(R) \cap released = {}
  /\ released \subseteq 1 .. Len(s)
  /\ \A i \in 1 .. Len(s) : s[i].active <=> i \notin Elements(F) \cup Elements(R) \cup released
  /\ \A i \in Elements(F) : s[i].callback = 0

ListsInv(s, first, retired, released) ==
  \E F, R \in Seq(1 .. Len(s)) : IsStack(s, first, F) /\ IsStack(s, retired, R) /\ Partition(s, F, R, released)

(* Order has the handles in the order they were returned, those that are   *)
(* not gone all.                                                           *)
OrderInv(o, h, gone) ==
  /\ o \in Seq(Elements(h))
  /\ \A i, j \in 1 .. Len(o), c, d \in 1 .. Len(h) : i < j /\ o[i] = h[c] /\ o[j] = h[d] => c < d
  /\ \A c \in 1 .. Len(h) : c \notin gone => \E i \in 1 .. Len(o) : o[i] = h[c]

CountsInv(active, dead, o, h, gone) ==
  /\ active = Cardinality(1 .. Len(h) \ gone)
  /\ dead = Len(o) - active

(* Releases are below all broadcasts, of which there are d.                *)
FrameRecord ==
  [kind : {"release"}, slot : Nat, running : {TRUE}]
    \cup
  [kind : {"broadcast"}, running : BOOLEAN, at : Nat, end : Nat, due : SUBSET Nat, called : Seq(Nat)]

FramesInv(fr, d) ==
  /\ fr \in Seq(FrameRecord) /\ Len(fr) <= MaxFrames
  /\ d \in 0 .. Len(fr)
  /\ \A k \in 1 .. Len(fr) : fr[k].kind = "release" <=> k <= Len(fr) - d
  /\ \A k, l \in 1 .. Len(fr) : k < l /\ l <= Len(fr) - d => fr[k].slot # fr[l].slot

SlotsReleased(fr) == {fr[k].slot : k \in {k \in 1 .. Len(fr) : fr[k].kind = "release"}}

(* A broadcast has called those of its callbacks that it has passed, but   *)
(* for those that are gone.                                                *)
Passed(f) == IF f.running THEN f.at ELSE f.at - 1

WalkInv(f, o, h, gone) ==
  /\ f.end \in 0 .. Len(o) /\ f.at \in 1 .. f.end + 1 /\ f.due \subseteq 1 .. Len(h)
  /\ f.running => f.at <= f.end
  /\ \A i \in 1 .. f.end, c \in 1 .. Len(h) : o[i] = h[c] => c \in f.due \cup gone
  /\ \A c \in f.due : \E i \in 1 .. f.end : o[i] = h[c]
  /\ \A c \in Elements(f.called) : c \in f.due /\ \E i \in 1 .. Passed(f) : o[i] = h[c]
  /\ \A i \in 1 .. Passed(f), c \in f.due : o[i] = h[c] => c \in Elements(f.called) \cup gone
  /\ \A i, j \in 1 .. Len(f.called) : i < j => f.called[i] < f.called[j]

RunningInv(f, o, s, released) ==
  f.running =>
    /\ f.called # <<>>
    /\ s[o[f.at].index].callback = f.called[Len(f.called)]
    /\ o[f.at].index \notin released

BroadcastsInv(fr, o, h, gone, s) ==
  \A k \in 1 .. Len(fr) :
    fr[k].kind = "broadcast" => WalkInv(fr[k], o, h, gone) /\ RunningInv(fr[k], o, s, SlotsReleased(fr))

(* Between calls nothing is deferred.                                      *)
RestInv(fr, retired, dead, o) ==
  fr = <<>> => retired = 0 /\ (dead < CompactAt \/ dead * 2 < Len(o))

MulticastInv ==
  /\ HandlesInv(slots, handles, removed)
  /\ ListsInv(slots, freeHead, retiredHead, SlotsReleased(frames))
  /\ OrderInv(order, handles, removed)
  /\ CountsInv(activeCount, tombstones, order, handles, removed)
  /\ FramesInv(frames, depth)
  /\ BroadcastsInv(frames, order, handles, removed, slots)
  /\ RestInv(frames, retiredHead, tombstones, order)

-----------------------------------------------------------------------------
(* MulticastDelegate: lists *)

LEMMA ElementsWithin == ASSUME NEW S, NEW q \in Seq(S) PROVE Elements(q) \subseteq S
BY DEF Elements

LEMMA AppendElements ==
  ASSUME NEW S, NEW q \in Seq(S), NEW x
  PROVE  Elements(Append(q, x)) = Elements(q) \cup {x}
<1> DEFINE r == Append(q, x)
<1>1. /\ Len(q) \in Nat /\ Len(r) = Len(q) + 1 /\ r[Len(q) + 1] = x /\ \A i \in 1 .. Len(q) : r[i] = q[i]
  BY AppendFields
<1> HIDE DEF r
<1>2. ASSUME NEW y \in Elements(r) PROVE y \in Elements(q) \cup {x}
  <2>1. PICK i \in 1 .. Len(r) : y = r[i]
    BY DEF Elements
  <2>2. i \in 1 .. Len(q) \/ i = Len(q) + 1
    BY <1>1
  <2> QED
    BY <1>1, <2>1, <2>2 DEF Elements
<1>3. ASSUME NEW y \in Elements(q) PROVE y \in Elements(r)
  <2>1. PICK i \in 1 .. Len(q) : y = q[i]
    BY DEF Elements
  <2>2. i \in 1 .. Len(r)
    BY <1>1
  <2> QED
    BY <1>1, <2>1, <2>2 DEF Elements
<1>4. x \in Elements(r)
  <2>1. Len(q) + 1 \in 1 .. Len(r)
    BY <1>1
  <2> QED
    BY <1>1, <2>1 DEF Elements
<1> QED
  BY <1>2, <1>3, <1>4 DEF r

LEMMA FrontElements ==
  ASSUME NEW S, NEW q \in Seq(S), q # <<>>
  PROVE  Elements(q) = Elements(MD!Front(q)) \cup {q[Len(q)]}
<1> DEFINE r == MD!Front(q)
<1>1. /\ Len(q) \in Nat \ {0} /\ r \in Seq(S) /\ Len(r) = Len(q) - 1 /\ \A i \in 1 .. Len(q) - 1 : r[i] = q[i]
  BY FrontFields
<1> HIDE DEF r
<1>2. ASSUME NEW y \in Elements(q) PROVE y \in Elements(r) \cup {q[Len(q)]}
  <2>1. PICK i \in 1 .. Len(q) : y = q[i]
    BY DEF Elements
  <2>2. i \in 1 .. Len(r) \/ i = Len(q)
    BY <1>1
  <2> QED
    BY <1>1, <2>1, <2>2 DEF Elements
<1>3. ASSUME NEW y \in Elements(r) PROVE y \in Elements(q)
  <2>1. PICK i \in 1 .. Len(r) : y = r[i]
    BY DEF Elements
  <2>2. i \in 1 .. Len(q) /\ i \in 1 .. Len(q) - 1
    BY <1>1
  <2> QED
    BY <1>1, <2>1, <2>2 DEF Elements
<1>4. q[Len(q)] \in Elements(q)
  <2>1. Len(q) \in 1 .. Len(q)
    BY <1>1
  <2> QED
    BY <2>1 DEF Elements
<1> QED
  BY <1>2, <1>3, <1>4 DEF r

(* A list does not change with slots that are not on it.                   *)
LEMMA StackStays ==
  ASSUME NEW s, NEW r, NEW first, NEW q, IsStack(s, first, q), Len(s) \in Nat, Len(r) \in Nat, Len(s) <= Len(r),
         \A i \in Elements(q) : r[i].next = s[i].next
  PROVE  IsStack(r, first, q)
<1>1. q \in Seq(1 .. Len(s)) /\ \A i \in 1 .. Len(s) : i \in 1 .. Len(r)
  BY DEF IsStack
<1>2. q \in Seq(1 .. Len(r))
  BY <1>1
<1>3. \A i \in 1 .. Len(q) : q[i] \in Elements(q)
  BY DEF Elements
<1> QED
  BY <1>2, <1>3 DEF IsStack

(* A slot that joins a list is its head.                                   *)
LEMMA StackPush ==
  ASSUME NEW s, NEW r, NEW first, NEW q, IsStack(s, first, q), Len(s) \in Nat, Len(r) = Len(s),
         NEW x \in 1 .. Len(s), x \notin Elements(q), r[x].next = first, \A i \in Elements(q) : r[i].next = s[i].next
  PROVE  IsStack(r, x, Append(q, x)) /\ Append(q, x) \in Seq(1 .. Len(s))
<1> DEFINE p == Append(q, x)
<1>1. IsStack(r, first, q)
  BY StackStays
<1>2. /\ q \in Seq(1 .. Len(r)) /\ \A i, j \in 1 .. Len(q) : q[i] = q[j] => i = j
      /\ first = IF Len(q) = 0 THEN 0 ELSE q[Len(q)]
      /\ \A i \in 1 .. Len(q) : r[q[i]].next = IF i = 1 THEN 0 ELSE q[i - 1]
  BY <1>1 DEF IsStack
<1>3. /\ Len(q) \in Nat /\ Len(p) = Len(q) + 1 /\ p[Len(q) + 1] = x /\ \A i \in 1 .. Len(q) : p[i] = q[i]
      /\ p \in Seq(1 .. Len(r))
  <2>1. q \in Seq(1 .. Len(r)) /\ x \in 1 .. Len(r)
    BY <1>2
  <2> QED
    BY <2>1, AppendFields
<1> HIDE DEF p
<1>4. \A i \in 1 .. Len(q) : q[i] # x
  BY DEF Elements
<1>5. ASSUME NEW i \in 1 .. Len(p), NEW j \in 1 .. Len(p), p[i] = p[j] PROVE i = j
  <2>1. (i \in 1 .. Len(q) \/ i = Len(q) + 1) /\ (j \in 1 .. Len(q) \/ j = Len(q) + 1)
    BY <1>3
  <2>2. CASE i \in 1 .. Len(q) /\ j \in 1 .. Len(q)
    BY <1>2, <1>3, <1>5, <2>2
  <2>3. CASE i = Len(q) + 1 \/ j = Len(q) + 1
    BY <1>3, <1>4, <1>5, <2>1, <2>3, Zenon
  <2> QED
    BY <2>1, <2>2, <2>3
<1>6. ASSUME NEW i \in 1 .. Len(p) PROVE r[p[i]].next = IF i = 1 THEN 0 ELSE p[i - 1]
  <2>1. CASE i \in 1 .. Len(q)
    <3>1. i = 1 \/ i - 1 \in 1 .. Len(q)
      BY <1>3, <2>1
    <3> QED
      BY <1>2, <1>3, <2>1, <3>1, Zenon
  <2>2. CASE i = Len(q) + 1
    <3>1. CASE Len(q) = 0
      BY <1>2, <1>3, <2>2, <3>1
    <3>2. CASE Len(q) # 0
      <4>1. i # 1 /\ i - 1 = Len(q) /\ Len(q) \in 1 .. Len(q)
        BY <1>3, <2>2, <3>2
      <4> QED
        BY <1>2, <1>3, <2>2, <3>2, <4>1
    <3> QED
      BY <3>1, <3>2
  <2> QED
    BY <1>3, <2>1, <2>2
<1>7. Len(p) # 0 /\ p[Len(p)] = x
  BY <1>3
<1>8. IsStack(r, x, p)
  BY <1>3, <1>5, <1>6, <1>7 DEF IsStack
<1>9. p \in Seq(1 .. Len(s))
  BY <1>3
<1> QED
  BY <1>8, <1>9 DEF p

(* Without its head a list begins with the slot the head leads to.         *)
LEMMA StackPop ==
  ASSUME NEW s, NEW first, NEW q, IsStack(s, first, q), Len(s) \in Nat, first # 0
  PROVE  /\ q \in Seq(1 .. Len(s)) /\ q # <<>> /\ first = q[Len(q)] /\ first \in 1 .. Len(s)
         /\ IsStack(s, s[first].next, MD!Front(q)) /\ MD!Front(q) \in Seq(1 .. Len(s))
         /\ Elements(q) = Elements(MD!Front(q)) \cup {first} /\ first \notin Elements(MD!Front(q))
<1> DEFINE p == MD!Front(q)
<1>1. /\ q \in Seq(1 .. Len(s)) /\ \A i, j \in 1 .. Len(q) : q[i] = q[j] => i = j
      /\ first = IF Len(q) = 0 THEN 0 ELSE q[Len(q)]
      /\ \A i \in 1 .. Len(q) : s[q[i]].next = IF i = 1 THEN 0 ELSE q[i - 1]
  BY DEF IsStack
<1>2. q # <<>> /\ first = q[Len(q)]
  BY <1>1
<1>3. /\ Len(q) \in Nat \ {0} /\ first \in 1 .. Len(s) /\ p \in Seq(1 .. Len(s)) /\ Len(p) = Len(q) - 1
      /\ \A i \in 1 .. Len(q) - 1 : p[i] = q[i]
  BY <1>1, <1>2, FrontFields
<1>4. Elements(q) = Elements(p) \cup {first}
  BY <1>1, <1>2, FrontElements
<1> HIDE DEF p
<1>5. first \notin Elements(p)
  <2>1. ASSUME NEW i \in 1 .. Len(p), p[i] = first PROVE FALSE
    <3>1. i \in 1 .. Len(q) /\ Len(q) \in 1 .. Len(q) /\ i # Len(q) /\ p[i] = q[i]
      BY <1>3
    <3> QED
      BY <1>1, <1>2, <2>1, <3>1, Zenon
  <2> QED
    BY <2>1 DEF Elements
<1>6. s[first].next = IF Len(p) = 0 THEN 0 ELSE p[Len(p)]
  <2>1. Len(q) \in 1 .. Len(q) /\ s[first].next = IF Len(q) = 1 THEN 0 ELSE q[Len(q) - 1]
    BY <1>1, <1>2, <1>3
  <2>2. Len(q) # 1 => Len(p) \in 1 .. Len(q) - 1 /\ p[Len(p)] = q[Len(q) - 1]
    BY <1>3
  <2> QED
    BY <1>3, <2>1, <2>2
<1>7. ASSUME NEW i \in 1 .. Len(p), NEW j \in 1 .. Len(p), p[i] = p[j] PROVE i = j
  <2>1. i \in 1 .. Len(q) /\ j \in 1 .. Len(q) /\ p[i] = q[i] /\ p[j] = q[j]
    BY <1>3
  <2> QED
    BY <1>1, <1>7, <2>1, Zenon
<1>8. ASSUME NEW i \in 1 .. Len(p) PROVE s[p[i]].next = IF i = 1 THEN 0 ELSE p[i - 1]
  <2>1. i \in 1 .. Len(q) /\ p[i] = q[i] /\ (i = 1 \/ (i - 1 \in 1 .. Len(p) /\ p[i - 1] = q[i - 1]))
    BY <1>3
  <2> QED
    BY <1>1, <2>1
<1>9. IsStack(s, s[first].next, p)
  BY <1>3, <1>6, <1>7, <1>8 DEF IsStack
<1> QED
  BY <1>1, <1>2, <1>3, <1>4, <1>5, <1>9 DEF p

LEMMA NumbersUpTo == \A n \in Nat : IsFiniteSet(1 .. n) /\ Cardinality(1 .. n) = n
<1> SUFFICES ASSUME NEW n \in Nat PROVE IsFiniteSet(1 .. n) /\ Cardinality(1 .. n) = n
  OBVIOUS
<1>1. 1 \in Int /\ n \in Int
  OBVIOUS
<1>2. IsFiniteSet(1 .. n) /\ Cardinality(1 .. n) = IF 1 > n THEN 0 ELSE n - 1 + 1
  BY <1>1, FS_Interval
<1> QED
  BY <1>2

(* A list without repetitions is no longer than the slots are many.        *)
LEMMA StackIsShort ==
  ASSUME NEW N \in Nat, NEW q \in Seq(1 .. N), \A i, j \in 1 .. Len(q) : q[i] = q[j] => i = j
  PROVE  Len(q) <= N
<1>1. Len(q) \in Nat /\ q \in [1 .. Len(q) -> 1 .. N]
  OBVIOUS
<1>2. q \in Injection(1 .. Len(q), 1 .. N)
  BY <1>1 DEF Injection, IsInjective
<1>3. /\ IsFiniteSet(1 .. N) /\ Cardinality(1 .. N) = N
      /\ IsFiniteSet(1 .. Len(q)) /\ Cardinality(1 .. Len(q)) = Len(q)
  BY <1>1, NumbersUpTo
<1>4. Cardinality(1 .. Len(q)) <= Cardinality(1 .. N)
  BY <1>2, <1>3, FS_Injection
<1> QED
  BY <1>3, <1>4

(* The slots that the links lead to from the head of a list are the list.  *)
LEMMA ChainIs ==
  ASSUME slots \in Seq(SlotRecord(slots)), NEW first, NEW q, IsStack(slots, first, q)
  PROVE  MD!Chain(first) = Elements(q)
<1> DEFINE N == Len(slots)
           Next1(S) == S \cup ({slots[k].next : k \in S} \ {0})
           Loop(g) == [i \in 0 .. N |-> IF i = 0 THEN {first} \ {0} ELSE Next1(g[i - 1])]
           reach == CHOOSE g : g = Loop(g)
           K == SUBSET (1 .. N)
           G == [x \in K \X Nat |-> Next1(x[1])]
           n == Len(q)
           Upper(i) == {q[j] : j \in {j \in 1 .. n : n - i <= j}}
           I == {i \in 0 .. N : reach[i] = Upper(i)}
<1>1. /\ N \in Nat /\ \A k \in 1 .. N : slots[k].next \in 0 .. N
      /\ q \in Seq(1 .. N) /\ \A i, j \in 1 .. n : q[i] = q[j] => i = j
      /\ first = IF n = 0 THEN 0 ELSE q[n]
      /\ \A i \in 1 .. n : slots[q[i]].next = IF i = 1 THEN 0 ELSE q[i - 1]
  <2>1. N \in Nat /\ \A k \in 1 .. N : slots[k] \in SlotRecord(slots)
    OBVIOUS
  <2>2. \A k \in 1 .. N : slots[k].next \in 0 .. N
    BY <2>1 DEF SlotRecord
  <2>3. IsStack(slots, first, q)
    OBVIOUS
  <2> QED
    BY <2>1, <2>2, <2>3, Zenon DEF IsStack
<1>2. n \in Nat /\ n <= N /\ \A i \in 1 .. n : q[i] \in 1 .. N /\ q[i] # 0
  BY <1>1, StackIsShort
<1>3. {first} \ {0} \in K
  BY <1>1, <1>2
<1>4. \A S \in K : Next1(S) \in K
  <2> SUFFICES ASSUME NEW S \in K, NEW x \in Next1(S) PROVE x \in 1 .. N
    BY Zenon
  <2>1. CASE x \in S
    BY <2>1
  <2>2. CASE x \notin S
    <3>1. PICK k \in S : x = slots[k].next /\ x # 0
      BY <2>2
    <3>2. slots[k].next \in 0 .. N
      BY <1>1
    <3> QED
      BY <1>1, <3>1, <3>2
  <2> QED
    BY <2>1, <2>2
<1>5. \E g : g = Loop(g)
  <2>1. G \in [K \X Nat -> K]
    <3> SUFFICES ASSUME NEW S \in K, NEW i \in Nat PROVE Next1(S) \in K
      BY Zenon
    <3> QED
      BY <1>4, Zenon
  <2>2. \A S \in K, i \in 0 .. N : i # 0 => G[<<S, i - 1>>] = Next1(S)
    <3> SUFFICES ASSUME NEW S \in K, NEW i \in 0 .. N, i # 0 PROVE G[<<S, i - 1>>] = Next1(S)
      BY Zenon
    <3>1. i - 1 \in Nat
      BY <1>1
    <3> HIDE DEF Next1
    <3> QED
      BY <3>1, Zenon
  <2> HIDE DEF G, Next1, K
  <2>3. PICK g \in [0 .. N -> K] : IsLoop(g, {first} \ {0}, G, N)
    BY <1>1, <1>3, <2>1, LoopExists, Zenon
  <2>4. ASSUME NEW i \in 0 .. N, i # 0 PROVE g[i - 1] \in K
    <3>1. i - 1 \in 0 .. N
      BY <1>1, <2>4
    <3> QED
      BY <2>3, <3>1, Zenon
  <2>5. g = Loop(g)
    BY <2>2, <2>3, <2>4, Zenon DEF IsLoop
  <2> QED
    BY <2>5
<1>6. reach = Loop(reach)
  BY <1>5, Zenon
<1>7. MD!Chain(first) = reach[N]
  BY DEF MD!Chain, MD!None
<1>8. reach[0] = {first} \ {0} /\ \A i \in 0 .. N : i # N => reach[i + 1] = Next1(reach[i])
  <2> HIDE DEF reach, Next1
  <2>1. \A i \in 0 .. N : reach[i] = Loop(reach)[i]
    BY <1>6, Zenon
  <2>2. reach[0] = {first} \ {0}
    BY <1>1, <2>1
  <2>3. ASSUME NEW i \in 0 .. N, i # N PROVE reach[i + 1] = Next1(reach[i])
    <3>1. i + 1 \in 0 .. N /\ i + 1 # 0 /\ (i + 1) - 1 = i
      BY <1>1, <2>3
    <3>2. reach[i + 1] = Loop(reach)[i + 1]
      BY <2>1, <3>1
    <3> QED
      BY <3>1, <3>2
  <2> QED
    BY <2>2, <2>3
<1> HIDE DEF reach
<1>9. 0 \in I
  <2>1. Upper(0) = {first} \ {0}
    <3>1. {j \in 1 .. n : n - 0 <= j} = IF n = 0 THEN {} ELSE {n}
      BY <1>2
    <3> QED
      BY <1>1, <1>2, <3>1
  <2> QED
    BY <1>1, <1>8, <2>1
<1>10. ASSUME NEW i \in 0 .. N, i # N, i \in I PROVE i + 1 \in I
  <2>1. reach[i + 1] = Next1(Upper(i)) /\ i + 1 \in 0 .. N
    <3>1. reach[i] = Upper(i) /\ reach[i + 1] = Next1(reach[i])
      BY <1>8, <1>10, Zenon
    <3>2. i + 1 \in 0 .. N
      BY <1>1, <1>10
    <3> HIDE DEF Next1, Upper
    <3> QED
      BY <3>1, <3>2
  <2>2. Next1(Upper(i)) \subseteq Upper(i + 1)
    <3>1. Upper(i) \subseteq Upper(i + 1)
      BY <1>1, <1>2
    <3>2. ASSUME NEW j \in 1 .. n, n - i <= j, slots[q[j]].next # 0 PROVE slots[q[j]].next \in Upper(i + 1)
      <4>1. j # 1 /\ slots[q[j]].next = q[j - 1]
        BY <1>1, <3>2
      <4>2. j - 1 \in 1 .. n /\ n - (i + 1) <= j - 1
        BY <1>2, <3>2, <4>1
      <4> QED
        BY <4>1, <4>2
    <3>3. ASSUME NEW x \in Next1(Upper(i)), x \notin Upper(i) PROVE x \in Upper(i + 1)
      <4>1. PICK y \in Upper(i) : x = slots[y].next /\ x # 0
        BY <3>3
      <4>2. PICK j \in 1 .. n : n - i <= j /\ y = q[j]
        BY <4>1
      <4> HIDE DEF Upper, Next1
      <4> QED
        BY <3>2, <4>1, <4>2
    <3> HIDE DEF Upper, Next1
    <3> QED
      BY <3>1, <3>3
  <2>3. ASSUME NEW j \in 1 .. n, n - (i + 1) <= j PROVE q[j] \in Next1(Upper(i))
    <3>1. CASE n - i <= j
      BY <3>1
    <3>2. CASE ~(n - i <= j)
      <4>1. CASE j = n
        BY <1>2, <3>2, <4>1
      <4>2. CASE j # n
        <5>1. j + 1 \in 1 .. n /\ n - i <= j + 1 /\ j + 1 # 1 /\ (j + 1) - 1 = j
          BY <1>2, <2>3, <4>2
        <5>2. slots[q[j + 1]].next = q[j] /\ q[j] # 0
          BY <1>1, <1>2, <5>1
        <5>3. q[j + 1] \in Upper(i)
          BY <5>1
        <5> HIDE DEF Upper
        <5> QED
          BY <5>2, <5>3
      <4> QED
        BY <4>1, <4>2, Zenon
    <3> QED
      BY <3>1, <3>2
  <2>4. Upper(i + 1) \subseteq Next1(Upper(i))
    BY <2>3, Zenon
  <2> HIDE DEF Next1, Upper
  <2> QED
    BY <2>1, <2>2, <2>4, Zenon
<1>11. 0 .. N \subseteq I
  <2> HIDE DEF I, N
  <2> QED
    BY <1>1, <1>9, <1>10, LoopInvariant, Zenon
<1>12. reach[N] = Upper(N)
  BY <1>1, <1>11
<1>13. Upper(N) = Elements(q)
  BY <1>2 DEF Elements
<1> QED
  BY <1>7, <1>12, <1>13

(* The entries that are active, in their order.                            *)
ActiveAt(s, o) == {i \in 1 .. Len(o) : MD!IsActive(s, o[i])}

Keeps(r, o, P) ==
  \E e \in [1 .. Len(r) -> P] :
    /\ \A k \in 1 .. Len(r) : r[k] = o[e[k]]
    /\ \A j, k \in 1 .. Len(r) : j < k => e[j] < e[k]
    /\ \A i \in P : \E k \in 1 .. Len(r) : e[k] = i

LEMMA LiveExact ==
  ASSUME NEW S, NEW s, NEW o \in Seq(S)
  PROVE  MD!Live(s, o) \in Seq(S) /\ Keeps(MD!Live(s, o), o, ActiveAt(s, o))
<1> DEFINE N == Len(o)
           A(i) == MD!IsActive(s, o[i])
           Loop(d) == [n \in 0 .. N |-> IF n = 0 THEN <<>> ELSE IF A(n) THEN Append(d[n - 1], o[n]) ELSE d[n - 1]]
           kept == CHOOSE d : d = Loop(d)
           G == [x \in Seq(S) \X Nat |->
                  IF x[2] + 1 \in 1 .. N /\ A(x[2] + 1) THEN Append(x[1], o[x[2] + 1]) ELSE x[1]]
           First(n) == {i \in 1 .. n : A(i)}
           I == {n \in 0 .. N : kept[n] \in Seq(S) /\ Keeps(kept[n], o, First(n))}
<1>1. N \in Nat /\ <<>> \in Seq(S) /\ \A n \in 1 .. N : o[n] \in S
  OBVIOUS
<1>2. \E d : d = Loop(d)
  <2> HIDE DEF A
  <2>1. G \in [Seq(S) \X Nat -> Seq(S)]
    <3> SUFFICES ASSUME NEW r \in Seq(S), NEW n \in Nat PROVE G[<<r, n>>] \in Seq(S)
      BY Zenon
    <3>1. CASE n + 1 \in 1 .. N
      BY <1>1, <3>1
    <3>2. CASE n + 1 \notin 1 .. N
      BY <3>2
    <3> QED
      BY <3>1, <3>2
  <2>2. \A r \in Seq(S), n \in 0 .. N :
          n # 0 => G[<<r, n - 1>>] = IF A(n) THEN Append(r, o[n]) ELSE r
    <3> SUFFICES ASSUME NEW r \in Seq(S), NEW n \in 0 .. N, n # 0
                 PROVE  G[<<r, n - 1>>] = IF A(n) THEN Append(r, o[n]) ELSE r
      OBVIOUS
    <3>1. n - 1 \in Nat /\ (n - 1) + 1 = n /\ n \in 1 .. N
      BY <1>1
    <3> QED
      BY <3>1
  <2> HIDE DEF G
  <2>3. PICK d \in [0 .. N -> Seq(S)] : IsLoop(d, <<>>, G, N)
    BY <1>1, <2>1, LoopExists, Zenon
  <2>4. ASSUME NEW n \in 0 .. N, n # 0 PROVE d[n - 1] \in Seq(S)
    <3>1. n - 1 \in 0 .. N
      BY <1>1, <2>4
    <3> QED
      BY <2>3, <3>1, Zenon
  <2>5. d = Loop(d)
    BY <2>2, <2>3, <2>4, Zenon DEF IsLoop
  <2> QED
    BY <2>5, Zenon
<1>3. kept = Loop(kept)
  BY <1>2, Zenon
<1>4. MD!Live(s, o) = kept[N]
  BY DEF MD!Live
<1>5. /\ kept[0] = <<>>
      /\ \A n \in 0 .. N : n # N => kept[n + 1] = IF A(n + 1) THEN Append(kept[n], o[n + 1]) ELSE kept[n]
  <2> HIDE DEF kept, A
  <2>1. \A n \in 0 .. N : kept[n] = Loop(kept)[n]
    BY <1>3, Zenon
  <2>2. kept[0] = <<>>
    BY <1>1, <2>1
  <2>3. ASSUME NEW n \in 0 .. N, n # N
        PROVE  kept[n + 1] = IF A(n + 1) THEN Append(kept[n], o[n + 1]) ELSE kept[n]
    <3>1. n + 1 \in 0 .. N /\ n + 1 # 0 /\ (n + 1) - 1 = n
      BY <1>1, <2>3
    <3>2. kept[n + 1] = Loop(kept)[n + 1]
      BY <2>1, <3>1
    <3> QED
      BY <3>1, <3>2
  <2> QED
    BY <2>2, <2>3
<1> HIDE DEF kept, A
<1>6. 0 \in I
  <2>1. kept[0] = <<>> /\ First(0) = {} /\ 0 \in 0 .. N
    BY <1>1, <1>5
  <2>2. Keeps(<<>>, o, {})
    <3>1. <<>> \in [1 .. Len(<<>>) -> {}]
      OBVIOUS
    <3> QED
      BY <3>1, Zenon DEF Keeps
  <2> HIDE DEF First, N
  <2> QED
    BY <1>1, <2>1, <2>2, Zenon
<1>7. ASSUME NEW n \in 0 .. N, n # N, n \in I PROVE n + 1 \in I
  <2> DEFINE r == kept[n]
             x == o[n + 1]
  <2>1. /\ r \in Seq(S) /\ Keeps(r, o, First(n)) /\ n + 1 \in 0 .. N /\ n \in Nat /\ x \in S
        /\ kept[n + 1] = IF A(n + 1) THEN Append(r, x) ELSE r
    BY <1>1, <1>5, <1>7
  <2>2. CASE ~A(n + 1)
    <3>1. First(n + 1) = First(n)
      BY <2>1, <2>2
    <3> QED
      BY <2>1, <2>2, <3>1, Zenon
  <2>3. CASE A(n + 1)
    <3> DEFINE p == Append(r, x)
    <3> HIDE DEF r
    <3>1. /\ Len(r) \in Nat /\ Len(p) = Len(r) + 1 /\ p[Len(r) + 1] = x
          /\ \A i \in 1 .. Len(r) : p[i] = r[i]
          /\ p \in Seq(S)
      BY <2>1, AppendFields
    <3>2. First(n + 1) = First(n) \cup {n + 1}
      BY <2>1, <2>3
    <3>3. PICK e \in [1 .. Len(r) -> First(n)] :
            /\ \A k \in 1 .. Len(r) : r[k] = o[e[k]]
            /\ \A j, k \in 1 .. Len(r) : j < k => e[j] < e[k]
            /\ \A i \in First(n) : \E k \in 1 .. Len(r) : e[k] = i
      BY <2>1, Zenon DEF Keeps
    <3> DEFINE m == [k \in 1 .. Len(p) |-> IF k = Len(r) + 1 THEN n + 1 ELSE e[k]]
    <3> HIDE DEF p
    <3>4. \A k \in 1 .. Len(p) : k \in 1 .. Len(r) \/ k = Len(r) + 1
      BY <3>1
    <3>5. \A k \in 1 .. Len(r) : k \in 1 .. Len(p) /\ k # Len(r) + 1 /\ m[k] = e[k] /\ e[k] \in First(n) /\ e[k] < n + 1
      <4> SUFFICES ASSUME NEW k \in 1 .. Len(r)
                   PROVE  k \in 1 .. Len(p) /\ k # Len(r) + 1 /\ m[k] = e[k] /\ e[k] \in First(n) /\ e[k] < n + 1
        BY Zenon
      <4>1. k \in 1 .. Len(p) /\ k # Len(r) + 1
        BY <3>1
      <4>2. e[k] \in First(n)
        <5> HIDE DEF First
        <5> QED
          BY <3>3
      <4>3. e[k] < n + 1
        BY <2>1, <4>2
      <4> QED
        BY <4>1, <4>2, <4>3
    <3>6. Len(r) + 1 \in 1 .. Len(p) /\ m[Len(r) + 1] = n + 1
      BY <3>1
    <3>7. m \in [1 .. Len(p) -> First(n + 1)]
      <4> HIDE DEF First
      <4> QED
        BY <3>2, <3>3, <3>4
    <3> HIDE DEF m
    <3>8. \A k \in 1 .. Len(p) : p[k] = o[m[k]]
      BY <3>1, <3>3, <3>4, <3>5, <3>6
    <3>9. ASSUME NEW j \in 1 .. Len(p), NEW k \in 1 .. Len(p), j < k PROVE m[j] < m[k]
      <4>1. j \in 1 .. Len(r)
        BY <3>1, <3>9
      <4>2. CASE k \in 1 .. Len(r)
        BY <3>3, <3>5, <3>9, <4>1, <4>2
      <4>3. CASE k = Len(r) + 1
        BY <3>5, <3>6, <4>1, <4>3
      <4> QED
        BY <3>4, <4>2, <4>3
    <3>10. ASSUME NEW i \in First(n + 1) PROVE \E k \in 1 .. Len(p) : m[k] = i
      <4> HIDE DEF First
      <4>1. CASE i \in First(n)
        <5>1. PICK k \in 1 .. Len(r) : e[k] = i
          BY <3>3, <4>1
        <5> QED
          BY <3>5, <5>1
      <4>2. CASE i = n + 1
        BY <3>6, <4>2
      <4> QED
        BY <3>2, <4>1, <4>2
    <3>11. Keeps(p, o, First(n + 1))
      <4> HIDE DEF First
      <4> QED
        BY <3>7, <3>8, <3>9, <3>10, Zenon DEF Keeps
    <3> QED
      BY <2>1, <2>3, <3>1, <3>11, Zenon DEF p
  <2> QED
    BY <2>2, <2>3
<1>8. 0 .. N \subseteq I
  <2> HIDE DEF I, N
  <2> QED
    BY <1>1, <1>6, <1>7, LoopInvariant, Zenon
<1>9. N \in I
  <2> HIDE DEF I, N
  <2> QED
    BY <1>1, <1>8
<1>10. First(N) = ActiveAt(s, o)
  BY DEF ActiveAt, A
<1> HIDE DEF First, N
<1> QED
  BY <1>4, <1>9, <1>10

-----------------------------------------------------------------------------
(* MulticastDelegate: retiring, acquiring *)

(* No slot is used so often that its generation starts again.              *)
GenerationsLast == MaxAdds < LastGeneration

LEMMA HandleEquals ==
  ASSUME NEW s, NEW x, NEW y, x \in HandleRecord(s), y \in HandleRecord(s),
         x.index = y.index, x.generation = y.generation
  PROVE  x = y
<1> DEFINE D == {"index", "generation"}
<1>1. x = [f \in D |-> x[f]] /\ y = [f \in D |-> y[f]]
  BY DEF HandleRecord
<1>2. \A f \in D : x[f] = y[f]
  OBVIOUS
<1> QED
  BY <1>1, <1>2

LEMMA HandlesFields ==
  ASSUME NEW s, NEW h, NEW gone, HandlesInv(s, h, gone)
  PROVE  /\ s \in Seq(SlotRecord(s)) /\ Len(s) \in Nat /\ Len(h) \in Nat /\ Len(h) <= MaxAdds /\ gone \subseteq 1 .. Len(h)
         /\ \A c \in 1 .. Len(h) :
              h[c] \in HandleRecord(s) /\ h[c].index \in 1 .. Len(s) /\ h[c].generation \in Nat
         /\ \A i \in 1 .. Len(s) : s[i] \in SlotRecord(s) /\ s[i].generation \in Nat
         /\ \A c, d \in 1 .. Len(h) : h[c].index = h[d].index /\ h[c].generation = h[d].generation => c = d
         /\ \A c, d \in 1 .. Len(h) : h[c] = h[d] => c = d
<1>1. /\ s \in Seq(SlotRecord(s)) /\ h \in Seq(HandleRecord(s)) /\ Len(h) <= MaxAdds /\ gone \subseteq 1 .. Len(h)
      /\ \A d, e \in 1 .. Len(h) : h[d] = h[e] => d = e
  BY DEF HandlesInv, HandlesTyped
<1>2. /\ Len(s) \in Nat /\ Len(h) \in Nat
      /\ \A d \in 1 .. Len(h) : h[d] \in HandleRecord(s)
      /\ \A j \in 1 .. Len(s) : s[j] \in SlotRecord(s)
  BY <1>1
<1>3. /\ \A d \in 1 .. Len(h) : h[d].index \in 1 .. Len(s) /\ h[d].generation \in Nat
      /\ \A d, e \in 1 .. Len(h) : h[d].index = h[e].index /\ h[d].generation = h[e].generation => h[d] = h[e]
      /\ \A j \in 1 .. Len(s) : s[j].generation \in Nat
  <2>1. ASSUME NEW d \in 1 .. Len(h) PROVE h[d].index \in 1 .. Len(s) /\ h[d].generation \in Nat
    BY <1>2 DEF HandleRecord
  <2>2. ASSUME NEW d \in 1 .. Len(h), NEW e \in 1 .. Len(h),
               h[d].index = h[e].index, h[d].generation = h[e].generation
        PROVE  h[d] = h[e]
    BY <1>2, <2>2, HandleEquals
  <2>3. ASSUME NEW j \in 1 .. Len(s) PROVE s[j].generation \in Nat
    BY <1>2 DEF SlotRecord
  <2> QED
    BY <2>1, <2>2, <2>3
<1> QED
  BY <1>1, <1>2, <1>3

LEMMA RetiredRecord ==
  ASSUME NEW s, NEW t, t \in SlotRecord(s), NEW g, NEW first
  PROVE  [t EXCEPT !.active = FALSE, !.generation = g, !.next = first] =
           [callback |-> t.callback, generation |-> g, next |-> first, active |-> FALSE]
<1> DEFINE x == [t EXCEPT !.active = FALSE, !.generation = g, !.next = first]
           y == [callback |-> t.callback, generation |-> g, next |-> first, active |-> FALSE]
           D == {"callback", "generation", "next", "active"}
<1>1. t = [f \in D |-> t[f]]
  BY DEF SlotRecord
<1>2. x = [f \in D |-> x[f]] /\ y = [f \in D |-> y[f]]
  BY <1>1, Zenon
<1>3. x.callback = t.callback /\ x.generation = g /\ x.next = first /\ x.active = FALSE
  <2>1. ASSUME NEW v, v = [f \in D |-> t[f]]
        PROVE  LET w == [v EXCEPT !.active = FALSE, !.generation = g, !.next = first]
               IN  w.callback = v.callback /\ w.generation = g /\ w.next = first /\ w.active = FALSE
    BY <2>1
  <2> QED
    BY <1>1, <2>1
<1>4. y.callback = t.callback /\ y.generation = g /\ y.next = first /\ y.active = FALSE
  OBVIOUS
<1>5. \A f \in D : x[f] = y[f]
  <2> HIDE DEF x, y
  <2>1. x.callback = y.callback /\ x.generation = y.generation /\ x.next = y.next /\ x.active = y.active
    BY <1>3, <1>4, Zenon
  <2> QED
    BY <2>1
<1> QED
  BY <1>2, <1>5, Zenon

Relinked(t, n) == [t EXCEPT !.next = n]

LEMMA RelinkedRecord ==
  ASSUME NEW s, NEW t, t \in SlotRecord(s), NEW n \in 0 .. Len(s)
  PROVE  LET y == Relinked(t, n)
         IN  /\ y \in SlotRecord(s) /\ y.next = n
             /\ y.callback = t.callback /\ y.generation = t.generation /\ y.active = t.active
<1> DEFINE y == Relinked(t, n)
<1> USE DEF Relinked
<1>1. t = [f \in {"callback", "generation", "next", "active"} |-> t[f]]
  BY DEF SlotRecord
<1>2. y.next = n /\ y.callback = t.callback /\ y.generation = t.generation /\ y.active = t.active
  BY <1>1
<1>3. y \in SlotRecord(s)
  BY DEF SlotRecord
<1> QED
  BY <1>2, <1>3

LEMMA RetiredFields ==
  ASSUME NEW s, s \in Seq(SlotRecord(s)), NEW i \in 1 .. Len(s), NEW first \in 0 .. Len(s),
         s[i].generation < LastGeneration
  PROVE  LET r == MD!Retired(s, i, first)
         IN  /\ Len(r) = Len(s) /\ r \in Seq(SlotRecord(r))
             /\ r[i] = [callback |-> s[i].callback, generation |-> s[i].generation + 1,
                        next |-> first, active |-> FALSE]
             /\ \A j \in 1 .. Len(s) : j # i => r[j] = s[j]
<1> DEFINE r == MD!Retired(s, i, first)
           x == [s[i] EXCEPT !.active = FALSE, !.generation = MD!NextGeneration(@), !.next = first]
           y == [callback |-> s[i].callback, generation |-> s[i].generation + 1, next |-> first, active |-> FALSE]
<1>1. s[i] \in SlotRecord(s) /\ Len(s) \in Nat /\ LastGeneration \in Nat
  BY MulticastParameters
<1>2. MD!NextGeneration(s[i].generation) = s[i].generation + 1 /\ s[i].generation + 1 \in 1 .. LastGeneration
  <2>1. s[i].generation \in Nat /\ s[i].generation < LastGeneration /\ s[i].generation # LastGeneration
    BY <1>1 DEF SlotRecord
  <2>2. MD!NextGeneration(s[i].generation) = s[i].generation + 1
    BY <2>1 DEF MD!NextGeneration
  <2>3. s[i].generation + 1 \in 1 .. LastGeneration
    BY <1>1, <2>1
  <2> QED
    BY <2>2, <2>3
<1>3. x = y
  <2> DEFINE g == s[i].generation
             z(n) == [s[i] EXCEPT !.active = FALSE, !.generation = n, !.next = first]
  <2>1. x = z(MD!NextGeneration(g))
    OBVIOUS
  <2>2. z(g + 1) = y
    <3> DEFINE t == s[i]
    <3>1. t \in SlotRecord(s)
      BY <1>1
    <3> HIDE DEF t
    <3>2. [t EXCEPT !.active = FALSE, !.generation = g + 1, !.next = first] =
            [callback |-> t.callback, generation |-> g + 1, next |-> first, active |-> FALSE]
      BY <3>1, RetiredRecord, Zenon
    <3> QED
      BY <3>2 DEF t
  <2> HIDE DEF x, y, z
  <2> QED
    BY <1>2, <2>1, <2>2
<1>4. y \in SlotRecord(s)
  BY <1>1, <1>2 DEF SlotRecord
<1>5. r = [s EXCEPT ![i] = y]
  <2>1. r = [s EXCEPT ![i] = x]
    BY Zenon DEF MD!Retired
  <2> QED
    BY <1>3, <2>1, Zenon
<1> HIDE DEF r, y
<1>6. r \in Seq(SlotRecord(s)) /\ Len(r) = Len(s) /\ r[i] = y /\ \A j \in 1 .. Len(s) : j # i => r[j] = s[j]
  BY <1>4, <1>5
<1>7. SlotRecord(r) = SlotRecord(s)
  BY <1>6 DEF SlotRecord
<1> QED
  BY <1>6, <1>7 DEF r, y

(* retireSlot of a registered callback keeps what the handles reach.       *)
LEMMA RetireHandles ==
  ASSUME GenerationsLast,
         NEW s, NEW h, NEW gone, HandlesInv(s, h, gone), NEW c \in 1 .. Len(h), c \notin gone,
         NEW first \in 0 .. Len(s)
  PROVE  /\ h[c].index \in 1 .. Len(s) /\ s[h[c].index].generation < LastGeneration
         /\ HandlesInv(MD!Retired(s, h[c].index, first), h, gone \cup {c})
<1> DEFINE i == h[c].index
           r == MD!Retired(s, i, first)
           past == gone \cup {c}
<1>1. /\ s \in Seq(SlotRecord(s)) /\ h \in Seq(HandleRecord(s)) /\ Len(h) <= MaxAdds /\ gone \subseteq 1 .. Len(h)
      /\ \A d \in 1 .. Len(h) : HandleAt(s, h, gone, d)
      /\ \A j \in 1 .. Len(s) : SlotAt(s, h, gone, j)
      /\ \A d, e \in 1 .. Len(h) : h[d] = h[e] => d = e
  BY DEF HandlesInv, HandlesTyped
<1>2. Len(s) \in Nat /\ Len(h) \in Nat
  BY HandlesFields
<1>3. /\ \A d \in 1 .. Len(h) : h[d].index \in 1 .. Len(s) /\ h[d].generation \in Nat
      /\ \A d, e \in 1 .. Len(h) : h[d].index = h[e].index /\ h[d].generation = h[e].generation => d = e
      /\ \A j \in 1 .. Len(s) : s[j].generation \in Nat
  BY HandlesFields
<1>4. s[i].active /\ s[i].generation = h[c].generation /\ h[c].generation <= c
  BY <1>1 DEF HandleAt
<1>5. i \in 1 .. Len(s) /\ s[i].generation < LastGeneration
  BY <1>1, <1>2, <1>3, <1>4, MulticastParameters DEF GenerationsLast
<1>6. /\ Len(r) = Len(s) /\ r \in Seq(SlotRecord(r))
      /\ r[i] = [callback |-> s[i].callback, generation |-> s[i].generation + 1, next |-> first, active |-> FALSE]
      /\ \A j \in 1 .. Len(s) : j # i => r[j] = s[j]
  <2> HIDE DEF i
  <2> QED
    BY <1>1, <1>5, RetiredFields
<1>7. r[i].generation = s[i].generation + 1 /\ ~ r[i].active
  BY <1>6
<1> HIDE DEF r
<1>8. HandlesTyped(r, h, past)
  <2>1. HandleRecord(r) = HandleRecord(s)
    BY <1>6 DEF HandleRecord
  <2> QED
    BY <1>1, <1>6, <2>1 DEF HandlesTyped
<1>9. ASSUME NEW d \in 1 .. Len(h) PROVE HandleAt(r, h, past, d)
  <2>1. HandleAt(s, h, gone, d) /\ h[d].index \in 1 .. Len(s) /\ h[d].generation \in Nat /\ s[i].generation \in Nat
    BY <1>1, <1>3, <1>5
  <2>2. CASE d = c
    BY <1>4, <1>7, <2>1, <2>2 DEF HandleAt
  <2>3. CASE d # c /\ h[d].index = i
    <3>1. d \in gone
      <4>1. d \notin gone => h[d].generation = s[i].generation
        BY <2>1, <2>3 DEF HandleAt
      <4> QED
        BY <1>1, <1>3, <1>4, <2>3, <4>1
    <3> QED
      BY <1>7, <2>1, <2>3, <3>1, SMTT(30) DEF HandleAt
  <2>4. CASE d # c /\ h[d].index # i
    <3>1. r[h[d].index] = s[h[d].index]
      BY <1>6, <2>1, <2>4
    <3> HIDE DEF i
    <3> QED
      BY <2>1, <2>4, <3>1 DEF HandleAt
  <2> QED
    BY <2>2, <2>3, <2>4
<1>10. ASSUME NEW j \in 1 .. Len(r) PROVE SlotAt(r, h, past, j)
  <2>1. SlotAt(s, h, gone, j) /\ j \in 1 .. Len(s)
    BY <1>1, <1>6
  <2>2. CASE j = i
    <3>1. h[c].index = j
      BY <2>2
    <3>2. s[i].generation \in Nat /\ h[c].generation = s[i].generation /\ c \in past
      BY <1>3, <1>4, <1>5
    <3>3. h[c].generation = r[j].generation - 1
      <4> HIDE DEF i
      <4> QED
        BY <1>7, <2>2, <3>2, SMTT(30)
    <3> QED
      BY <1>7, <2>2, <3>1, <3>2, <3>3 DEF SlotAt
  <2>3. CASE j # i
    <3>1. r[j] = s[j]
      BY <1>6, <2>1, <2>3
    <3>2. s[j].generation = 1 \/ \E d \in past : h[d].index = j /\ h[d].generation = s[j].generation - 1
      BY <2>1 DEF SlotAt
    <3>3. s[j].active => \E d \in 1 .. Len(h) : d \notin past /\ h[d].index = j
      BY <2>1, <2>3 DEF SlotAt
    <3> QED
      BY <3>1, <3>2, <3>3 DEF SlotAt
  <2> QED
    BY <2>2, <2>3
<1> QED
  BY <1>1, <1>5, <1>8, <1>9, <1>10, Zenon DEF HandlesInv, r

(* The retired slot is the head of the retired slots.                      *)
LEMMA RetireLists ==
  ASSUME NEW s, s \in Seq(SlotRecord(s)), NEW i \in 1 .. Len(s), s[i].generation < LastGeneration,
         s[i].active, NEW first, NEW retired, NEW released, ListsInv(s, first, retired, released)
  PROVE  /\ retired \in 0 .. Len(s)
         /\ ListsInv(MD!Retired(s, i, retired), first, i, released)
<1> DEFINE r == MD!Retired(s, i, retired)
<1>1. PICK F \in Seq(1 .. Len(s)), R \in Seq(1 .. Len(s)) :
        IsStack(s, first, F) /\ IsStack(s, retired, R) /\ Partition(s, F, R, released)
  BY DEF ListsInv
<1>2. Len(s) \in Nat
  OBVIOUS
<1>3. retired \in 0 .. Len(s)
  BY <1>1 DEF IsStack
<1>4. /\ Len(r) = Len(s)
      /\ r[i] = [callback |-> s[i].callback, generation |-> s[i].generation + 1, next |-> retired, active |-> FALSE]
      /\ \A j \in 1 .. Len(s) : j # i => r[j] = s[j]
  BY <1>3, RetiredFields
<1> HIDE DEF r
<1>5. /\ Elements(F) \cap Elements(R) = {} /\ Elements(F) \cap released = {} /\ Elements(R) \cap released = {}
      /\ released \subseteq 1 .. Len(s)
      /\ \A j \in 1 .. Len(s) : s[j].active <=> j \notin Elements(F) \cup Elements(R) \cup released
      /\ \A j \in Elements(F) : s[j].callback = 0
  BY <1>1, Zenon DEF Partition
<1>6. Elements(F) \subseteq 1 .. Len(s) /\ Elements(R) \subseteq 1 .. Len(s)
  BY ElementsWithin
<1>7. i \notin Elements(F) /\ i \notin Elements(R) /\ i \notin released
  BY <1>5
<1>8. \A j \in Elements(F) \cup Elements(R) : r[j] = s[j]
  BY <1>4, <1>6, <1>7
<1>9. IsStack(r, first, F)
  <2>1. Len(r) \in Nat /\ Len(s) <= Len(r) /\ \A j \in Elements(F) : r[j].next = s[j].next
    BY <1>2, <1>4, <1>8
  <2> QED
    BY <1>1, <1>2, <2>1, StackStays
<1>10. IsStack(r, i, Append(R, i)) /\ Append(R, i) \in Seq(1 .. Len(s))
  <2>1. r[i].next = retired /\ \A j \in Elements(R) : r[j].next = s[j].next
    BY <1>4, <1>8
  <2> QED
    BY <1>1, <1>2, <1>4, <1>7, <2>1, StackPush, Zenon
<1>11. Elements(Append(R, i)) = Elements(R) \cup {i}
  BY AppendElements
<1>12. ~ r[i].active
  BY <1>4
<1>13. Partition(r, F, Append(R, i), released)
  <2>1. \A j \in 1 .. Len(r) : r[j].active <=> j \notin Elements(F) \cup (Elements(R) \cup {i}) \cup released
    BY <1>4, <1>5, <1>12
  <2>2. \A j \in Elements(F) : r[j].callback = 0
    BY <1>5, <1>8, Zenon
  <2> QED
    BY <1>4, <1>5, <1>7, <1>11, <2>1, <2>2, Zenon DEF Partition
<1> QED
  BY <1>3, <1>4, <1>9, <1>10, <1>13, Zenon DEF ListsInv, r

-----------------------------------------------------------------------------
(* MulticastDelegate: the entries that are active are those of the         *)
(* callbacks that are registered                                           *)

(* A handle is active just when its callback is registered.                *)
LEMMA HandleActive ==
  ASSUME NEW s, NEW h, NEW gone, HandlesInv(s, h, gone), NEW c \in 1 .. Len(h)
  PROVE  MD!IsActive(s, h[c]) <=> c \notin gone
<1>1. HandleAt(s, h, gone, c)
  BY DEF HandlesInv
<1>2. /\ Len(s) \in Nat /\ h[c].index \in 1 .. Len(s) /\ h[c].generation \in Nat
      /\ s[h[c].index].generation \in Nat /\ DOMAIN s = 1 .. Len(s)
  BY HandlesFields
<1> QED
  BY <1>1, <1>2 DEF HandleAt, MD!IsActive

AllRegistered(q, h, gone) == \A k \in 1 .. Len(q) : \E c \in 1 .. Len(h) \ gone : q[k] = h[c]

LEMMA LiveOrder ==
  ASSUME NEW s, NEW h, NEW gone, NEW o, HandlesInv(s, h, gone), OrderInv(o, h, gone)
  PROVE  LET L == MD!Live(s, o)
         IN  /\ OrderInv(L, h, gone)
             /\ AllRegistered(L, h, gone)
             /\ Len(L) = Cardinality(1 .. Len(h) \ gone)
             /\ Len(o) \in Nat /\ Len(L) <= Len(o)
<1> DEFINE L == MD!Live(s, o)
           P == ActiveAt(s, o)
           Reg == 1 .. Len(h) \ gone
<1>1. /\ o \in Seq(Elements(h))
      /\ \A i, j \in 1 .. Len(o), c, d \in 1 .. Len(h) : i < j /\ o[i] = h[c] /\ o[j] = h[d] => c < d
      /\ \A c \in 1 .. Len(h) : c \notin gone => \E i \in 1 .. Len(o) : o[i] = h[c]
  BY DEF OrderInv
<1>2. L \in Seq(Elements(h)) /\ Keeps(L, o, P)
  BY <1>1, LiveExact
<1> HIDE DEF L
<1>3. P \subseteq 1 .. Len(o) /\ \A i \in 1 .. Len(o) : i \in P <=> MD!IsActive(s, o[i])
  BY DEF ActiveAt
<1> HIDE DEF P
<1>4. PICK e \in [1 .. Len(L) -> P] :
        /\ \A k \in 1 .. Len(L) : L[k] = o[e[k]]
        /\ \A j, k \in 1 .. Len(L) : j < k => e[j] < e[k]
        /\ \A i \in P : \E k \in 1 .. Len(L) : e[k] = i
  BY <1>2 DEF Keeps
<1>5. Len(h) \in Nat /\ \A c, d \in 1 .. Len(h) : h[c] = h[d] => c = d
  BY HandlesFields
<1>6. \A k \in 1 .. Len(L) : e[k] \in P /\ e[k] \in 1 .. Len(o)
  BY <1>3, <1>4, Zenon
<1>7. ASSUME NEW j \in 1 .. Len(L), NEW k \in 1 .. Len(L), NEW c \in 1 .. Len(h), NEW d \in 1 .. Len(h),
             j < k, L[j] = h[c], L[k] = h[d]
      PROVE  c < d
  <2>1. e[j] < e[k] /\ e[j] \in 1 .. Len(o) /\ e[k] \in 1 .. Len(o) /\ o[e[j]] = h[c] /\ o[e[k]] = h[d]
    BY <1>4, <1>6, <1>7
  <2> QED
    BY <1>1, <2>1
<1>8. ASSUME NEW c \in Reg PROVE \E k \in 1 .. Len(L) : L[k] = h[c]
  <2>1. PICK i \in 1 .. Len(o) : o[i] = h[c]
    BY <1>1
  <2>2. MD!IsActive(s, h[c])
    BY HandleActive
  <2>3. i \in P
    BY <1>3, <2>1, <2>2
  <2> QED
    BY <1>4, <2>1, <2>3
<1>9. ASSUME NEW k \in 1 .. Len(L) PROVE \E c \in Reg : L[k] = h[c]
  <2>1. L[k] = o[e[k]] /\ MD!IsActive(s, o[e[k]])
    BY <1>3, <1>4, <1>6
  <2>2. L[k] \in Elements(h)
    BY <1>2
  <2>3. PICK c \in 1 .. Len(h) : L[k] = h[c]
    BY <2>2 DEF Elements
  <2>4. c \notin gone
    BY <2>1, <2>3, HandleActive
  <2> QED
    BY <2>3, <2>4
<1>10. OrderInv(L, h, gone)
  <2>1. \A c \in 1 .. Len(h) : c \notin gone => \E i \in 1 .. Len(L) : L[i] = h[c]
    BY <1>8
  <2> QED
    BY <1>2, <1>7, <2>1 DEF OrderInv
<1>11. Len(L) = Cardinality(Reg)
  <2> DEFINE f == [k \in 1 .. Len(L) |-> CHOOSE c \in Reg : L[k] = h[c]]
  <2>1. \A k \in 1 .. Len(L) : f[k] \in Reg /\ L[k] = h[f[k]]
    BY <1>9
  <2>2. f \in [1 .. Len(L) -> Reg] /\ Len(L) \in Nat
    <3>1. f \in [1 .. Len(L) -> Reg]
      BY <2>1, Zenon
    <3>2. Len(L) \in Nat
      BY <1>2
    <3> QED
      BY <3>1, <3>2
  <2> HIDE DEF f
  <2>3. ASSUME NEW j \in 1 .. Len(L), NEW k \in 1 .. Len(L), f[j] = f[k] PROVE j = k
    <3>1. f[j] \in 1 .. Len(h) /\ ~(j < k) /\ ~(k < j)
      BY <1>5, <1>7, <2>1, <2>3
    <3> QED
      BY <2>2, <3>1
  <2>4. ASSUME NEW c \in Reg PROVE \E k \in 1 .. Len(L) : f[k] = c
    <3>1. PICK k \in 1 .. Len(L) : L[k] = h[c]
      BY <1>8
    <3>2. f[k] = c
      BY <1>5, <2>1, <3>1
    <3> QED
      BY <3>2
  <2>5. f \in Bijection(1 .. Len(L), Reg)
    <3> HIDE DEF Reg
    <3> QED
      BY <2>2, <2>3, <2>4 DEF Bijection, Injection, Surjection, IsInjective
  <2>6. ExistsBijection(1 .. Len(L), Reg)
    BY <2>5, Zenon DEF ExistsBijection
  <2>7. IsFiniteSet(1 .. Len(L)) /\ Cardinality(1 .. Len(L)) = Len(L)
    BY <2>2, NumbersUpTo
  <2> HIDE DEF Reg
  <2> QED
    BY <2>6, <2>7, FS_Bijection
<1>12. Len(o) \in Nat /\ Len(L) <= Len(o)
  <2>1. Len(o) \in Nat /\ Len(L) \in Nat
    BY <1>1, <1>2
  <2>2. e \in Seq(1 .. Len(o)) /\ Len(e) = Len(L)
    <3>1. e \in [1 .. Len(L) -> 1 .. Len(o)]
      BY <1>3, <1>4, Zenon
    <3> DEFINE n == Len(L)
               S == 1 .. Len(o)
    <3>2. n \in Nat /\ e \in [1 .. n -> S]
      BY <2>1, <3>1
    <3> HIDE DEF n, S
    <3>3. e \in Seq(S) /\ Len(e) = n
      BY <3>2
    <3> QED
      BY <3>3 DEF n, S
  <2>3. ASSUME NEW j \in 1 .. Len(e), NEW k \in 1 .. Len(e), e[j] = e[k] PROVE j = k
    <3>1. e[j] \in Nat /\ j \in 1 .. Len(L) /\ k \in 1 .. Len(L)
      BY <1>6, <2>1, <2>2
    <3>2. ~(j < k) /\ ~(k < j)
      BY <1>4, <2>3, <3>1
    <3> QED
      BY <2>1, <3>1, <3>2
  <2> QED
    BY <2>1, <2>2, <2>3, StackIsShort
<1> QED
  BY <1>9, <1>10, <1>11, <1>12, Zenon DEF AllRegistered, L

LEMMA ActiveSlotsAreRegistered ==
  ASSUME NEW s, NEW h, NEW gone, HandlesInv(s, h, gone)
  PROVE  Cardinality({i \in 1 .. Len(s) : s[i].active}) = Cardinality(1 .. Len(h) \ gone)
<1> DEFINE Reg == 1 .. Len(h) \ gone
           A == {i \in 1 .. Len(s) : s[i].active}
           f == [c \in Reg |-> h[c].index]
<1>1. /\ Len(h) \in Nat /\ \A c \in 1 .. Len(h) : h[c].index \in 1 .. Len(s)
      /\ \A c, d \in 1 .. Len(h) : h[c].index = h[d].index /\ h[c].generation = h[d].generation => c = d
  BY HandlesFields
<1>2. /\ \A c \in 1 .. Len(h) : HandleAt(s, h, gone, c)
      /\ \A i \in 1 .. Len(s) : SlotAt(s, h, gone, i)
  BY DEF HandlesInv
<1>3. \A c \in Reg : f[c] = h[c].index /\ f[c] \in A /\ s[f[c]].generation = h[c].generation
  BY <1>1, <1>2 DEF HandleAt
<1>4. f \in [Reg -> A]
  BY <1>3
<1>5. ASSUME NEW c \in Reg, NEW d \in Reg, f[c] = f[d] PROVE c = d
  <2> HIDE DEF f
  <2> QED
    BY <1>1, <1>3, <1>5
<1>6. ASSUME NEW i \in A PROVE \E c \in Reg : f[c] = i
  <2>1. PICK c \in 1 .. Len(h) : c \notin gone /\ h[c].index = i
    BY <1>2 DEF SlotAt
  <2> QED
    BY <2>1
<1> HIDE DEF f
<1>7. IsFiniteSet(Reg)
  <2>1. IsFiniteSet(1 .. Len(h)) /\ Reg \subseteq 1 .. Len(h)
    BY <1>1, NumbersUpTo
  <2> HIDE DEF Reg
  <2> QED
    BY <2>1, FS_Subset, Zenon
<1> HIDE DEF Reg, A
<1>8. f \in Bijection(Reg, A)
  BY <1>4, <1>5, <1>6 DEF Bijection, Injection, Surjection, IsInjective
<1>9. ExistsBijection(Reg, A)
  BY <1>8 DEF ExistsBijection
<1>10. Cardinality(A) = Cardinality(Reg)
  BY <1>7, <1>9, FS_Bijection
<1> QED
  BY <1>10 DEF Reg, A

(* What is gone may grow.                                                  *)
LEMMA OrderShrinks ==
  ASSUME NEW o, NEW h, NEW gone, NEW past, gone \subseteq past, OrderInv(o, h, gone)
  PROVE  OrderInv(o, h, past)
BY DEF OrderInv

(* A broadcast in progress does not mind that callbacks go, as long as     *)
(* slots keep their callbacks.                                             *)
LEMMA BroadcastsShrink ==
  ASSUME NEW fr, NEW o, NEW h, NEW gone, NEW past, gone \subseteq past, NEW s, NEW r,
         \A i \in 1 .. Len(s) : r[i].callback = s[i].callback,
         \A i \in 1 .. Len(o) : o[i].index \in 1 .. Len(s), Len(o) \in Nat,
         BroadcastsInv(fr, o, h, gone, s)
  PROVE  BroadcastsInv(fr, o, h, past, r)
<1> SUFFICES ASSUME NEW k \in 1 .. Len(fr), fr[k].kind = "broadcast"
             PROVE  WalkInv(fr[k], o, h, past) /\ RunningInv(fr[k], o, r, SlotsReleased(fr))
  BY DEF BroadcastsInv
<1> DEFINE f == fr[k]
<1>1. WalkInv(f, o, h, gone) /\ RunningInv(f, o, s, SlotsReleased(fr))
  BY DEF BroadcastsInv
<1> HIDE DEF f
<1>2. WalkInv(f, o, h, past)
  BY <1>1 DEF WalkInv
<1>3. RunningInv(f, o, r, SlotsReleased(fr))
  <2> SUFFICES ASSUME f.running PROVE r[o[f.at].index].callback = s[o[f.at].index].callback
    BY <1>1 DEF RunningInv
  <2>1. f.at \in 1 .. Len(o)
    BY <1>1 DEF WalkInv
  <2> QED
    BY <2>1
<1> QED
  BY <1>2, <1>3 DEF f

LEMMA RegisteredFewer ==
  ASSUME NEW n \in Nat, NEW gone, NEW c \in 1 .. n, c \notin gone
  PROVE  Cardinality(1 .. n \ (gone \cup {c})) = Cardinality(1 .. n \ gone) - 1
<1> DEFINE Reg == 1 .. n \ gone
<1>1. IsFiniteSet(1 .. n) /\ Reg \subseteq 1 .. n
  BY NumbersUpTo
<1>2. c \in Reg /\ 1 .. n \ (gone \cup {c}) = Reg \ {c}
  OBVIOUS
<1> HIDE DEF Reg
<1>3. IsFiniteSet(Reg)
  BY <1>1, FS_Subset, Zenon
<1>4. Cardinality(Reg \ {c}) = Cardinality(Reg) - 1
  BY <1>2, <1>3, FS_RemoveElement
<1> QED
  BY <1>2, <1>4, Zenon DEF Reg

LEMMA RegisteredMore ==
  ASSUME NEW n \in Nat, NEW gone, gone \subseteq 1 .. n
  PROVE  Cardinality(1 .. (n + 1) \ gone) = Cardinality(1 .. n \ gone) + 1
<1>1. n + 1 \in Nat /\ n + 1 \in 1 .. (n + 1) /\ n + 1 \notin gone
  OBVIOUS
<1>2. Cardinality(1 .. (n + 1) \ (gone \cup {n + 1})) = Cardinality(1 .. (n + 1) \ gone) - 1
  BY <1>1, RegisteredFewer
<1>3. 1 .. (n + 1) \ (gone \cup {n + 1}) = 1 .. n \ gone
  OBVIOUS
<1>4. Cardinality(1 .. (n + 1) \ gone) \in Nat
  <2>1. IsFiniteSet(1 .. (n + 1)) /\ 1 .. (n + 1) \ gone \subseteq 1 .. (n + 1)
    BY <1>1, NumbersUpTo
  <2>2. IsFiniteSet(1 .. (n + 1) \ gone)
    BY <2>1, FS_Subset
  <2> QED
    BY <2>2, FS_CardinalityType
<1> QED
  BY <1>2, <1>3, <1>4

LEMMA RegisteredCounted ==
  ASSUME NEW n \in Nat, NEW gone PROVE Cardinality(1 .. n \ gone) \in 0 .. n
<1>1. IsFiniteSet(1 .. n) /\ Cardinality(1 .. n) = n /\ 1 .. n \ gone \subseteq 1 .. n
  BY NumbersUpTo
<1>2. IsFiniteSet(1 .. n \ gone) /\ Cardinality(1 .. n \ gone) <= n
  BY <1>1, FS_Subset
<1>3. Cardinality(1 .. n \ gone) \in Nat
  BY <1>2, FS_CardinalityType
<1> QED
  BY <1>2, <1>3

-----------------------------------------------------------------------------
(* MulticastDelegate: finalizeRetiredSlots *)

DelegateInv(s, o, first, retired, active, dead, h, gone, released) ==
  /\ HandlesInv(s, h, gone)
  /\ ListsInv(s, first, retired, released)
  /\ OrderInv(o, h, gone)
  /\ CountsInv(active, dead, o, h, gone)

(* The destructor of the first retired slot's callback is entered.         *)
LEMMA ReleaseBegins ==
  ASSUME NEW s, NEW first, NEW retired, NEW rest, ListsInv(s, first, retired, SlotsReleased(rest)),
         Len(s) \in Nat, retired # 0, FramesInv(rest, 0), Len(rest) < MaxFrames
  PROVE  LET fr == Append(rest, [kind |-> "release", slot |-> retired, running |-> TRUE])
         IN  /\ ListsInv(s, first, s[retired].next, SlotsReleased(fr))
             /\ FramesInv(fr, 0) /\ fr # <<>>
<1> DEFINE x == [kind |-> "release", slot |-> retired, running |-> TRUE]
           fr == Append(rest, x)
<1>1. PICK F \in Seq(1 .. Len(s)), R \in Seq(1 .. Len(s)) :
        IsStack(s, first, F) /\ IsStack(s, retired, R) /\ Partition(s, F, R, SlotsReleased(rest))
  BY DEF ListsInv
<1> DEFINE Q == MD!Front(R)
<1>2. /\ retired \in 1 .. Len(s) /\ IsStack(s, s[retired].next, Q) /\ Q \in Seq(1 .. Len(s))
      /\ Elements(R) = Elements(Q) \cup {retired} /\ retired \notin Elements(Q)
  BY <1>1, StackPop
<1> HIDE DEF Q
<1>3. /\ rest \in Seq(FrameRecord) /\ Len(rest) \in Nat
      /\ \A k \in 1 .. Len(rest) : rest[k].kind = "release"
      /\ \A k, l \in 1 .. Len(rest) : k < l => rest[k].slot # rest[l].slot
  <2>1. /\ rest \in Seq(FrameRecord) /\ Len(rest) \in Nat
        /\ \A k \in 1 .. Len(rest) : rest[k].kind = "release" <=> k <= Len(rest) - 0
        /\ \A k, l \in 1 .. Len(rest) : k < l /\ l <= Len(rest) - 0 => rest[k].slot # rest[l].slot
    BY DEF FramesInv
  <2> QED
    BY <2>1
<1>4. x \in FrameRecord /\ x.kind = "release" /\ x.slot = retired
  BY <1>2 DEF FrameRecord
<1> HIDE DEF x
<1>5. /\ Len(fr) = Len(rest) + 1 /\ fr[Len(rest) + 1] = x /\ \A k \in 1 .. Len(rest) : fr[k] = rest[k]
      /\ fr \in Seq(FrameRecord)
  BY <1>3, <1>4, AppendFields
<1> HIDE DEF fr
<1>6. \A k \in 1 .. Len(fr) : k \in 1 .. Len(rest) \/ k = Len(rest) + 1
  BY <1>3, <1>5
<1>7. \A k \in 1 .. Len(fr) : fr[k].kind = "release"
  BY <1>3, <1>4, <1>5, <1>6, Zenon
<1>8. SlotsReleased(fr) = {fr[k].slot : k \in 1 .. Len(fr)} /\ SlotsReleased(rest) = {rest[k].slot : k \in 1 .. Len(rest)}
  BY <1>3, <1>7, Zenon DEF SlotsReleased
<1>9. SlotsReleased(fr) = SlotsReleased(rest) \cup {retired}
  <2>1. ASSUME NEW k \in 1 .. Len(fr) PROVE fr[k].slot \in SlotsReleased(rest) \cup {retired}
    <3>1. CASE k \in 1 .. Len(rest)
      BY <1>5, <1>8, <3>1
    <3>2. CASE k = Len(rest) + 1
      BY <1>4, <1>5, <3>2
    <3> QED
      BY <1>6, <3>1, <3>2
  <2>2. ASSUME NEW k \in 1 .. Len(rest) PROVE rest[k].slot \in SlotsReleased(fr)
    <3>1. k \in 1 .. Len(fr) /\ fr[k] = rest[k]
      BY <1>3, <1>5
    <3> QED
      BY <1>8, <3>1
  <2>3. retired \in SlotsReleased(fr)
    <3>1. Len(rest) + 1 \in 1 .. Len(fr)
      BY <1>3, <1>5
    <3> QED
      BY <1>4, <1>5, <1>8, <3>1, Zenon
  <2> QED
    BY <1>8, <2>1, <2>2, <2>3, Zenon
<1>10. /\ Elements(F) \cap Elements(R) = {} /\ Elements(F) \cap SlotsReleased(rest) = {}
       /\ Elements(R) \cap SlotsReleased(rest) = {}
       /\ SlotsReleased(rest) \subseteq 1 .. Len(s)
       /\ \A i \in 1 .. Len(s) : s[i].active <=> i \notin Elements(F) \cup Elements(R) \cup SlotsReleased(rest)
       /\ \A i \in Elements(F) : s[i].callback = 0
  BY <1>1 DEF Partition
<1>11. ListsInv(s, first, s[retired].next, SlotsReleased(fr))
  <2>1. Partition(s, F, Q, SlotsReleased(fr))
    <3>1. /\ Elements(F) \cap Elements(Q) = {} /\ Elements(F) \cap SlotsReleased(fr) = {}
          /\ Elements(Q) \cap SlotsReleased(fr) = {} /\ SlotsReleased(fr) \subseteq 1 .. Len(s)
      BY <1>2, <1>9, <1>10
    <3>2. Elements(F) \cup Elements(Q) \cup SlotsReleased(fr) = Elements(F) \cup Elements(R) \cup SlotsReleased(rest)
      BY <1>2, <1>9
    <3> QED
      BY <1>10, <3>1, <3>2 DEF Partition
  <2> QED
    BY <1>1, <1>2, <2>1 DEF ListsInv
<1>12. FramesInv(fr, 0)
  <2>1. Len(fr) <= MaxFrames /\ 0 \in 0 .. Len(fr)
    BY <1>3, <1>5, MulticastParameters
  <2>2. \A k \in 1 .. Len(fr) : fr[k].kind = "release" <=> k <= Len(fr) - 0
    BY <1>3, <1>5, <1>7
  <2>3. ASSUME NEW k \in 1 .. Len(fr), NEW l \in 1 .. Len(fr), k < l PROVE fr[k].slot # fr[l].slot
    <3>1. k \in 1 .. Len(rest) /\ fr[k] = rest[k] /\ rest[k].slot \in SlotsReleased(rest)
      BY <1>3, <1>5, <1>8, <2>3
    <3>2. CASE l \in 1 .. Len(rest)
      BY <1>3, <1>5, <2>3, <3>1, <3>2, Zenon
    <3>3. CASE l = Len(rest) + 1
      <4>1. retired \in Elements(R) /\ fr[l].slot = retired
        BY <1>2, <1>4, <1>5, <3>3
      <4> QED
        BY <1>10, <3>1, <4>1
    <3> QED
      BY <1>6, <3>2, <3>3
  <2> QED
    BY <1>5, <2>1, <2>2, <2>3 DEF FramesInv
<1>13. fr # <<>>
  BY <1>3, <1>5
<1> QED
  BY <1>11, <1>12, <1>13 DEF fr, x

(* Order is compacted, unless few of its entries are dead.                 *)
LEMMA CompactionKeeps ==
  ASSUME NEW s, NEW o, NEW h, NEW gone, NEW active, NEW dead, HandlesInv(s, h, gone), OrderInv(o, h, gone),
         CountsInv(active, dead, o, h, gone)
  PROVE  LET p == MD!CompactedOrder(s, o, active, dead)
             d == MD!CompactedDead(o, active, dead)
         IN  OrderInv(p, h, gone) /\ CountsInv(active, d, p, h, gone) /\ (d < CompactAt \/ d * 2 < Len(p))
<1> DEFINE L == MD!Live(s, o)
<1>1. OrderInv(L, h, gone) /\ Len(L) = Cardinality(1 .. Len(h) \ gone) /\ Len(o) \in Nat
  BY LiveOrder
<1> HIDE DEF L
<1>2. /\ active = Cardinality(1 .. Len(h) \ gone) /\ dead = Len(o) - active
      /\ active \in Nat /\ CompactAt \in Nat \ {0}
  <2>1. Len(h) \in Nat
    BY HandlesFields
  <2> DEFINE n == Cardinality(1 .. Len(h) \ gone)
  <2>2. n \in 0 .. Len(h)
    BY <2>1, RegisteredCounted, Zenon
  <2> HIDE DEF n
  <2>3. n \in Nat
    BY <2>1, <2>2
  <2> QED
    BY <2>3, MulticastParameters DEF CountsInv, n
<1>3. CASE MD!ShouldCompact(active, dead, o)
  <2>1. MD!CompactedOrder(s, o, active, dead) = L /\ MD!CompactedDead(o, active, dead) = 0
    BY <1>3 DEF MD!CompactedOrder, MD!CompactedDead, L
  <2>2. CountsInv(active, 0, L, h, gone)
    BY <1>1, <1>2 DEF CountsInv
  <2> QED
    BY <1>1, <1>2, <2>1, <2>2
<1>4. CASE ~MD!ShouldCompact(active, dead, o)
  <2>1. MD!CompactedOrder(s, o, active, dead) = o /\ MD!CompactedDead(o, active, dead) = dead
    BY <1>4 DEF MD!CompactedOrder, MD!CompactedDead
  <2>2. dead < CompactAt \/ dead * 2 < Len(o)
    BY <1>1, <1>2, <1>4 DEF MD!ShouldCompact
  <2> QED
    BY <2>1, <2>2
<1> QED
  BY <1>3, <1>4

(* finalizeRetiredSlots, from a delegate on which no broadcast runs.       *)
LEMMA FinalizeKeeps ==
  ASSUME NEW s, NEW o, NEW first, NEW retired, NEW active, NEW dead, NEW h, NEW gone, NEW rest,
         DelegateInv(s, o, first, retired, active, dead, h, gone, SlotsReleased(rest)),
         FramesInv(rest, 0), Len(rest) < MaxFrames,
         MD!Finalize(s, o, first, retired, active, dead, rest)
  PROVE  /\ DelegateInv(slots', order', freeHead', retiredHead', activeCount', tombstones', h, gone,
                        SlotsReleased(frames'))
         /\ FramesInv(frames', 0)
         /\ RestInv(frames', retiredHead', tombstones', order')
<1>1. /\ HandlesInv(s, h, gone) /\ ListsInv(s, first, retired, SlotsReleased(rest)) /\ OrderInv(o, h, gone)
      /\ CountsInv(active, dead, o, h, gone) /\ Len(s) \in Nat
  BY HandlesFields DEF DelegateInv
<1>2. slots' = s /\ freeHead' = first /\ activeCount' = active
  BY DEF MD!Finalize
<1>3. CASE retired # 0
  <2> DEFINE fr == Append(rest, [kind |-> "release", slot |-> retired, running |-> TRUE])
  <2>1. retiredHead' = s[retired].next /\ frames' = fr /\ order' = o /\ tombstones' = dead
    BY <1>3 DEF MD!Finalize, MD!None
  <2>2. ListsInv(s, first, s[retired].next, SlotsReleased(fr)) /\ FramesInv(fr, 0) /\ fr # <<>>
    BY <1>1, <1>3, ReleaseBegins
  <2> HIDE DEF fr
  <2>3. RestInv(frames', retiredHead', tombstones', order')
    BY <2>1, <2>2 DEF RestInv
  <2> QED
    BY <1>1, <1>2, <2>1, <2>2, <2>3 DEF DelegateInv
<1>4. CASE retired = 0
  <2> DEFINE p == MD!CompactedOrder(s, o, active, dead)
             d == MD!CompactedDead(o, active, dead)
  <2>1. retiredHead' = 0 /\ frames' = rest /\ order' = p /\ tombstones' = d
    BY <1>4 DEF MD!Finalize, MD!None
  <2>2. OrderInv(p, h, gone) /\ CountsInv(active, d, p, h, gone) /\ (d < CompactAt \/ d * 2 < Len(p))
    BY <1>1, CompactionKeeps
  <2> HIDE DEF p, d
  <2>3. RestInv(frames', retiredHead', tombstones', order')
    BY <2>1, <2>2 DEF RestInv
  <2> QED
    BY <1>1, <1>2, <1>4, <2>1, <2>2, <2>3 DEF DelegateInv
<1> QED
  BY <1>3, <1>4

(* With no broadcast in progress there is nothing to be said of one.       *)
LEMMA NoBroadcasts ==
  ASSUME NEW fr, NEW o, NEW h, NEW gone, NEW s, FramesInv(fr, 0) PROVE BroadcastsInv(fr, o, h, gone, s)
<1>1. Len(fr) \in Nat /\ \A k \in 1 .. Len(fr) : fr[k].kind = "release" <=> k <= Len(fr) - 0
  BY DEF FramesInv
<1>2. \A k \in 1 .. Len(fr) : fr[k].kind = "release"
  BY <1>1
<1> QED
  BY <1>2 DEF BroadcastsInv

LEMMA FinalizeEnds ==
  ASSUME NEW s, NEW o, NEW first, NEW retired, NEW active, NEW dead, NEW rest,
         DelegateInv(s, o, first, retired, active, dead, handles', removed', SlotsReleased(rest)),
         FramesInv(rest, 0), Len(rest) < MaxFrames, depth' = 0,
         MD!Finalize(s, o, first, retired, active, dead, rest)
  PROVE  MulticastInv'
<1>1. /\ DelegateInv(slots', order', freeHead', retiredHead', activeCount', tombstones', handles', removed',
                     SlotsReleased(frames'))
      /\ FramesInv(frames', 0)
      /\ RestInv(frames', retiredHead', tombstones', order')
  BY FinalizeKeeps
<1>2. BroadcastsInv(frames', order', handles', removed', slots')
  BY <1>1, NoBroadcasts
<1> QED
  BY <1>1, <1>2 DEF MulticastInv, DelegateInv

-----------------------------------------------------------------------------
(* MulticastDelegate: remove and clear *)

(* The slots have been retired; with no broadcast in progress they are     *)
(* released at once.                                                       *)
LEMMA UnlessDeferredKeeps ==
  ASSUME MulticastInv, NEW s, NEW retired, NEW active, NEW dead,
         handles' = handles, depth' = depth, removed \subseteq removed', Len(frames) < MaxFrames,
         DelegateInv(s, order, freeHead, retired, active, dead, handles, removed', SlotsReleased(frames)),
         Len(s) = Len(slots), \A i \in 1 .. Len(slots) : s[i].callback = slots[i].callback,
         MD!FinalizeUnlessDeferred(s, retired, active, dead)
  PROVE  MulticastInv'
<1>1. /\ HandlesInv(slots, handles, removed) /\ OrderInv(order, handles, removed)
      /\ FramesInv(frames, depth) /\ BroadcastsInv(frames, order, handles, removed, slots)
  BY DEF MulticastInv
<1>2. CASE depth # 0
  <2>1. /\ slots' = s /\ retiredHead' = retired /\ activeCount' = active /\ tombstones' = dead
        /\ order' = order /\ freeHead' = freeHead /\ frames' = frames
    BY <1>2 DEF MD!FinalizeUnlessDeferred, MD!Deferred
  <2>2. frames # <<>>
    BY <1>1, <1>2 DEF FramesInv
  <2>3. order \in Seq(Elements(handles)) /\ Len(order) \in Nat
    BY <1>1 DEF OrderInv
  <2>4. \A i \in 1 .. Len(order) : order[i].index \in 1 .. Len(slots)
    <3>1. \A c \in 1 .. Len(handles) : handles[c].index \in 1 .. Len(slots)
      BY <1>1, HandlesFields
    <3>2. ASSUME NEW i \in 1 .. Len(order) PROVE order[i].index \in 1 .. Len(slots)
      <4>1. order[i] \in Elements(handles)
        BY <2>3
      <4> QED
        BY <3>1, <4>1 DEF Elements
    <3> QED
      BY <3>2
  <2>5. BroadcastsInv(frames, order, handles, removed', s)
    BY <1>1, <2>3, <2>4, BroadcastsShrink
  <2>6. RestInv(frames, retired, dead, order)
    BY <2>2 DEF RestInv
  <2> QED
    BY <1>1, <2>1, <2>5, <2>6 DEF MulticastInv, DelegateInv
<1>3. CASE depth = 0
  <2>1. MD!Finalize(s, order, freeHead, retired, active, dead, frames)
    BY <1>3 DEF MD!FinalizeUnlessDeferred, MD!Deferred
  <2>2. FramesInv(frames, 0) /\ depth' = 0
    BY <1>1, <1>3
  <2>3. DelegateInv(s, order, freeHead, retired, active, dead, handles', removed', SlotsReleased(frames))
    OBVIOUS
  <2> QED
    BY <2>1, <2>2, <2>3, FinalizeEnds
<1> QED
  BY <1>2, <1>3

LEMMA RemoveKeeps ==
  ASSUME GenerationsLast, MulticastInv, NEW c \in 1 .. Len(handles), MD!RemoveCallback(c)
  PROVE  MulticastInv'
<1> DEFINE i == handles[c].index
           s == MD!Retired(slots, i, retiredHead)
           past == removed \cup {c}
<1>1. /\ HandlesInv(slots, handles, removed) /\ OrderInv(order, handles, removed)
      /\ ListsInv(slots, freeHead, retiredHead, SlotsReleased(frames))
      /\ CountsInv(activeCount, tombstones, order, handles, removed)
  BY DEF MulticastInv
<1>2. /\ Len(frames) < MaxFrames /\ MD!IsActive(slots, handles[c])
      /\ removed' = past /\ depth' = depth /\ handles' = handles
      /\ MD!FinalizeUnlessDeferred(s, i, activeCount - 1, tombstones + 1)
  BY DEF MD!RemoveCallback
<1>3. c \notin removed
  BY <1>1, <1>2, HandleActive
<1>4. slots \in Seq(SlotRecord(slots)) /\ Len(handles) \in Nat /\ i \in 1 .. Len(slots)
  BY <1>1, HandlesFields
<1>5. slots[i].active
  BY <1>2 DEF MD!IsActive
<1>6. retiredHead \in 0 .. Len(slots)
  BY <1>1 DEF ListsInv, IsStack
<1>7. slots[i].generation < LastGeneration /\ HandlesInv(s, handles, past)
  BY <1>1, <1>3, <1>6, RetireHandles, Zenon
<1>8. ListsInv(s, freeHead, i, SlotsReleased(frames))
  <2> HIDE DEF i
  <2> QED
    BY <1>1, <1>4, <1>5, <1>7, RetireLists
<1>9. Len(s) = Len(slots) /\ \A j \in 1 .. Len(slots) : s[j].callback = slots[j].callback
  <2> HIDE DEF i
  <2>1. /\ Len(s) = Len(slots)
        /\ s[i] = [callback |-> slots[i].callback, generation |-> slots[i].generation + 1,
                   next |-> retiredHead, active |-> FALSE]
        /\ \A j \in 1 .. Len(slots) : j # i => s[j] = slots[j]
    BY <1>4, <1>6, <1>7, RetiredFields, Zenon
  <2> HIDE DEF s
  <2> QED
    BY <2>1
<1> HIDE DEF s, i
<1>10. OrderInv(order, handles, past)
  BY <1>1, OrderShrinks
<1>11. CountsInv(activeCount - 1, tombstones + 1, order, handles, past)
  <2>1. Cardinality(1 .. Len(handles) \ past) = Cardinality(1 .. Len(handles) \ removed) - 1
    BY <1>3, <1>4, RegisteredFewer
  <2>2. Cardinality(1 .. Len(handles) \ removed) \in 0 .. Len(handles)
    BY <1>4, RegisteredCounted, Zenon
  <2>3. Len(order) \in Nat
    BY <1>1 DEF OrderInv
  <2>4. activeCount = Cardinality(1 .. Len(handles) \ removed) /\ tombstones = Len(order) - activeCount
    BY <1>1 DEF CountsInv
  <2> DEFINE n == Cardinality(1 .. Len(handles) \ removed)
             m == Cardinality(1 .. Len(handles) \ past)
  <2> HIDE DEF n, m
  <2>5. m = n - 1 /\ n \in 0 .. Len(handles) /\ activeCount = n
    BY <2>1, <2>2, <2>4 DEF n, m
  <2>6. activeCount - 1 = m /\ tombstones + 1 = Len(order) - (activeCount - 1)
    BY <1>4, <2>3, <2>4, <2>5
  <2> QED
    BY <2>6 DEF CountsInv, m
<1>12. DelegateInv(s, order, freeHead, i, activeCount - 1, tombstones + 1, handles, removed', SlotsReleased(frames))
  BY <1>2, <1>7, <1>8, <1>10, <1>11 DEF DelegateInv
<1>13. removed \subseteq removed'
  BY <1>2
<1> HIDE DEF past
<1> QED
  BY <1>2, <1>9, <1>12, <1>13, UnlessDeferredKeeps

LEMMA HeadsTyped ==
  ASSUME NEW s, NEW first, NEW retired, NEW released, ListsInv(s, first, retired, released), Len(s) \in Nat
  PROVE  first \in 0 .. Len(s) /\ retired \in 0 .. Len(s)
<1>1. PICK F \in Seq(1 .. Len(s)), R \in Seq(1 .. Len(s)) : IsStack(s, first, F) /\ IsStack(s, retired, R)
  BY DEF ListsInv
<1> QED
  BY <1>1 DEF IsStack

(* Retiring a slot leaves the slots of their type, generations wrap.       *)
LEMMA RetiredTyped ==
  ASSUME NEW s, NEW N \in Nat, NEW t \in [1 .. N -> SlotRecord(s)], NEW i \in 1 .. N, NEW first \in 0 .. N,
         Len(s) = N
  PROVE  MD!Retired(t, i, first) \in [1 .. N -> SlotRecord(s)]
<1> DEFINE g == t[i].generation
           y == [callback |-> t[i].callback, generation |-> MD!NextGeneration(g), next |-> first, active |-> FALSE]
           x == [t[i] EXCEPT !.active = FALSE, !.generation = MD!NextGeneration(@), !.next = first]
<1>1. t[i] \in SlotRecord(s)
  OBVIOUS
<1>2. g \in 1 .. LastGeneration /\ LastGeneration \in Nat \ {0}
  BY <1>1, MulticastParameters DEF SlotRecord
<1>3. MD!NextGeneration(g) \in 1 .. LastGeneration
  <2> HIDE DEF g
  <2> QED
    BY <1>2 DEF MD!NextGeneration
<1>4. x = y
  <2> DEFINE u == t[i]
  <2>1. u \in SlotRecord(s)
    BY <1>1
  <2> HIDE DEF u
  <2>2. [u EXCEPT !.active = FALSE, !.generation = MD!NextGeneration(u.generation), !.next = first] =
          [callback |-> u.callback, generation |-> MD!NextGeneration(u.generation), next |-> first, active |-> FALSE]
    BY <2>1, RetiredRecord, Zenon
  <2> QED
    BY <2>2 DEF u
<1>5. y \in SlotRecord(s)
  <2>1. t[i].callback \in 0 .. MaxAdds /\ FALSE \in BOOLEAN
    BY <1>1 DEF SlotRecord
  <2> QED
    BY <1>3, <2>1 DEF SlotRecord
<1>6. MD!Retired(t, i, first) = [t EXCEPT ![i] = x]
  BY Zenon DEF MD!Retired
<1> HIDE DEF x, y
<1> QED
  BY <1>4, <1>5, <1>6

(* clear retires the slot of each entry in turn.                           *)
LEMMA ClearedExact ==
  ASSUME GenerationsLast, HandlesInv(slots, handles, removed), NEW released,
         ListsInv(slots, freeHead, retiredHead, released),
         NEW L, L \in Seq(Elements(handles)),
         \A k \in 1 .. Len(L) : \E c \in 1 .. Len(handles) \ removed : L[k] = handles[c],
         \A j, k \in 1 .. Len(L) : L[j] = L[k] => j = k
  PROVE  LET A == MD!Cleared(L)
             past == removed \cup {c \in 1 .. Len(handles) : \E j \in 1 .. Len(L) : L[j] = handles[c]}
         IN  /\ HandlesInv(A.s, handles, past)
             /\ ListsInv(A.s, freeHead, A.head, released)
             /\ Len(A.s) = Len(slots) /\ \A i \in 1 .. Len(slots) : A.s[i].callback = slots[i].callback
<1> DEFINE N == Len(slots)
           n == Len(L)
           R(x, i) == [s |-> MD!Retired(x.s, i, x.head), head |-> i]
           k0 == [s |-> slots, head |-> retiredHead]
           Loop(d) == [i \in 0 .. n |-> IF i = 0 THEN k0 ELSE R(d[i - 1], L[i].index)]
           run == CHOOSE d : d = Loop(d)
           K == [s : [1 .. N -> SlotRecord(slots)], head : 0 .. N]
           G == [x \in K \X Nat |-> IF x[2] + 1 \in 1 .. n THEN R(x[1], L[x[2] + 1].index) ELSE x[1]]
           Past(i) == removed \cup {c \in 1 .. Len(handles) : \E j \in 1 .. i : L[j] = handles[c]}
           Holds(i) == /\ HandlesInv(run[i].s, handles, Past(i))
                       /\ ListsInv(run[i].s, freeHead, run[i].head, released)
                       /\ Len(run[i].s) = N /\ \A l \in 1 .. N : run[i].s[l].callback = slots[l].callback
           I == {i \in 0 .. n : Holds(i)}
<1>1. /\ N \in Nat /\ n \in Nat /\ Len(handles) \in Nat /\ slots \in [1 .. N -> SlotRecord(slots)]
      /\ \A c \in 1 .. Len(handles) : handles[c].index \in 1 .. N
      /\ \A c, d \in 1 .. Len(handles) : handles[c] = handles[d] => c = d
      /\ retiredHead \in 0 .. N
  <2>1. /\ N \in Nat /\ Len(handles) \in Nat /\ slots \in Seq(SlotRecord(slots))
        /\ \A c \in 1 .. Len(handles) : handles[c].index \in 1 .. N
        /\ \A c, d \in 1 .. Len(handles) : handles[c] = handles[d] => c = d
    BY HandlesFields
  <2>2. retiredHead \in 0 .. N
    BY <2>1, HeadsTyped
  <2>3. slots \in [1 .. N -> SlotRecord(slots)]
    BY <2>1
  <2>4. n \in Nat
    OBVIOUS
  <2> HIDE DEF n, N
  <2> QED
    BY <2>1, <2>2, <2>3, <2>4
<1>2. \A k \in 1 .. n : L[k].index \in 1 .. N
  <2>1. ASSUME NEW k \in 1 .. n PROVE L[k].index \in 1 .. N
    <3>1. PICK c \in 1 .. Len(handles) \ removed : L[k] = handles[c]
      OBVIOUS
    <3> QED
      BY <1>1, <3>1
  <2> QED
    BY <2>1
<1>3. k0 \in K
  BY <1>1
<1>4. \A x \in K, i \in 1 .. N : R(x, i) \in K
  <2> SUFFICES ASSUME NEW x \in K, NEW i \in 1 .. N PROVE R(x, i) \in K
    BY Zenon
  <2>1. x.s \in [1 .. N -> SlotRecord(slots)] /\ x.head \in 0 .. N /\ i \in 0 .. N
    BY <1>1
  <2>2. MD!Retired(x.s, i, x.head) \in [1 .. N -> SlotRecord(slots)]
    BY <1>1, <2>1, RetiredTyped, Zenon
  <2> QED
    BY <2>1, <2>2
<1> HIDE DEF R, K, k0
<1>5. \E d : d = Loop(d)
  <2>1. G \in [K \X Nat -> K]
    <3> SUFFICES ASSUME NEW x \in K, NEW i \in Nat PROVE G[<<x, i>>] \in K
      BY Zenon
    <3>1. CASE i + 1 \in 1 .. n
      BY <1>2, <1>4, <3>1
    <3>2. CASE i + 1 \notin 1 .. n
      BY <3>2
    <3> QED
      BY <3>1, <3>2
  <2>2. \A x \in K, i \in 0 .. n : i # 0 => G[<<x, i - 1>>] = R(x, L[i].index)
    <3> SUFFICES ASSUME NEW x \in K, NEW i \in 0 .. n, i # 0 PROVE G[<<x, i - 1>>] = R(x, L[i].index)
      OBVIOUS
    <3>1. i - 1 \in Nat /\ (i - 1) + 1 = i /\ i \in 1 .. n
      BY <1>1
    <3> QED
      BY <3>1
  <2> HIDE DEF G
  <2>3. PICK d \in [0 .. n -> K] : IsLoop(d, k0, G, n)
    BY <1>1, <1>3, <2>1, LoopExists, Zenon
  <2>4. ASSUME NEW i \in 0 .. n, i # 0 PROVE d[i - 1] \in K
    <3>1. i - 1 \in 0 .. n
      BY <1>1, <2>4
    <3> QED
      BY <2>3, <3>1, Zenon
  <2> DEFINE Q(i) == IF i = 0 THEN k0 ELSE G[<<d[i - 1], i - 1>>]
             Z(i) == IF i = 0 THEN k0 ELSE R(d[i - 1], L[i].index)
  <2>5. \A i \in 0 .. n : Q(i) = Z(i)
    BY <2>2, <2>4
  <2>6. d = [i \in 0 .. n |-> Q(i)]
    BY <2>3 DEF IsLoop
  <2> HIDE DEF Q, Z
  <2>7. d = [i \in 0 .. n |-> Z(i)]
    BY <2>5, <2>6
  <2> QED
    BY <2>7 DEF Z
<1>6. run = Loop(run)
  BY <1>5, Zenon
<1>7. MD!Cleared(L) = run[n]
  BY DEF MD!Cleared, R, k0
<1>8. run[0] = k0 /\ \A i \in 0 .. n : i # n => run[i + 1] = R(run[i], L[i + 1].index)
  <2> HIDE DEF run
  <2>1. \A i \in 0 .. n : run[i] = Loop(run)[i]
    BY <1>6
  <2>2. run[0] = k0
    BY <1>1, <2>1
  <2>3. ASSUME NEW i \in 0 .. n, i # n PROVE run[i + 1] = R(run[i], L[i + 1].index)
    <3>1. i + 1 \in 0 .. n /\ i + 1 # 0 /\ (i + 1) - 1 = i
      BY <1>1, <2>3
    <3>2. run[i + 1] = Loop(run)[i + 1]
      BY <2>1, <3>1
    <3> QED
      BY <3>1, <3>2
  <2> QED
    BY <2>2, <2>3
<1> HIDE DEF run
<1>9. 0 \in I
  <2>1. run[0].s = slots /\ run[0].head = retiredHead
    BY <1>8 DEF k0
  <2>2. Past(0) = removed
    <3>1. 1 .. 0 = {}
      OBVIOUS
    <3> QED
      BY <3>1
  <2> HIDE DEF Past
  <2>3. Holds(0) /\ 0 \in 0 .. n
    BY <1>1, <2>1, <2>2
  <2> HIDE DEF Holds
  <2> QED
    BY <2>3
<1>10. ASSUME NEW i \in 0 .. n, i # n, i \in I PROVE i + 1 \in I
  <2> DEFINE s == run[i].s
             t == run[i].head
             x == L[i + 1].index
             r == MD!Retired(s, x, t)
  <2>1. i + 1 \in 1 .. n /\ i + 1 \in 0 .. n /\ i \in Nat
    BY <1>1, <1>10
  <2>2. /\ HandlesInv(s, handles, Past(i)) /\ ListsInv(s, freeHead, t, released)
        /\ Len(s) = N /\ \A l \in 1 .. N : s[l].callback = slots[l].callback
    <3>1. Holds(i)
      BY <1>10
    <3> HIDE DEF Past
    <3> QED
      BY <3>1
  <2>3. run[i + 1].s = r /\ run[i + 1].head = x
    <3>1. run[i + 1] = R(run[i], x)
      BY <1>8, <1>10
    <3> QED
      BY <3>1 DEF R
  <2> HIDE DEF s, t
  <2>4. PICK c \in 1 .. Len(handles) \ removed : L[i + 1] = handles[c]
    BY <2>1, Zenon
  <2>5. c \in 1 .. Len(handles) /\ x = handles[c].index /\ x \in 1 .. N
    BY <1>1, <2>4
  <2>6. c \notin Past(i)
    <3>1. ASSUME NEW j \in 1 .. i, L[j] = handles[c] PROVE FALSE
      <4>1. j \in 1 .. n /\ j # i + 1 /\ L[j] = L[i + 1]
        BY <2>1, <2>4, <3>1
      <4> QED
        BY <2>1, <4>1
    <3> QED
      BY <2>4, <3>1
  <2>7. Past(i + 1) = Past(i) \cup {c}
    <3>1. \A j \in 1 .. i + 1 : j \in 1 .. i \/ j = i + 1
      BY <2>1
    <3>2. \A j \in 1 .. i : j \in 1 .. i + 1
      BY <2>1
    <3>3. i + 1 \in 1 .. i + 1
      BY <2>1
    <3>4. ASSUME NEW d \in 1 .. Len(handles)
          PROVE  (\E j \in 1 .. i + 1 : L[j] = handles[d]) <=> (\E j \in 1 .. i : L[j] = handles[d]) \/ d = c
      <4>1. L[i + 1] = handles[d] <=> d = c
        BY <1>1, <2>4, <2>5
      <4> QED
        BY <3>1, <3>2, <3>3, <4>1
    <3> QED
      BY <2>5, <3>4, Zenon
  <2> HIDE DEF Past, x
  <2>8. s \in Seq(SlotRecord(s)) /\ x \in 1 .. Len(s) /\ t \in 0 .. Len(s)
    <3>1. s \in Seq(SlotRecord(s)) /\ Len(s) \in Nat
      BY <2>2, HandlesFields
    <3>2. t \in 0 .. Len(s)
      BY <2>2, <3>1, HeadsTyped
    <3> QED
      BY <2>2, <2>5, <3>1, <3>2
  <2>9. s[x].generation < LastGeneration /\ HandlesInv(r, handles, Past(i + 1))
    <3> DEFINE y == handles[c].index
               q == Past(i)
    <3>1. HandlesInv(s, handles, q) /\ c \notin q
      BY <2>2, <2>6
    <3> HIDE DEF q
    <3>2. s[handles[c].index].generation < LastGeneration /\ HandlesInv(MD!Retired(s, handles[c].index, t), handles, q \cup {c})
      BY <2>5, <2>8, <3>1, RetireHandles, Zenon
    <3>3. s[x].generation < LastGeneration /\ HandlesInv(r, handles, q \cup {c})
      BY <2>5, <3>2
    <3> QED
      BY <2>7, <3>3, Zenon DEF q
  <2>10. s[x].active
    <3>1. HandleAt(s, handles, Past(i), c)
      BY <2>2, <2>5 DEF HandlesInv
    <3> QED
      BY <2>5, <2>6, <3>1 DEF HandleAt
  <2>11. ListsInv(r, freeHead, x, released)
    BY <2>2, <2>8, <2>9, <2>10, RetireLists
  <2>12. Len(r) = N /\ \A l \in 1 .. N : r[l].callback = slots[l].callback
    <3>1. /\ Len(r) = Len(s)
          /\ r[x] = [callback |-> s[x].callback, generation |-> s[x].generation + 1, next |-> t, active |-> FALSE]
          /\ \A j \in 1 .. Len(s) : j # x => r[j] = s[j]
      BY <2>8, <2>9, RetiredFields
    <3> HIDE DEF r
    <3>2. ASSUME NEW l \in 1 .. N PROVE r[l].callback = s[l].callback
      <4>1. l \in 1 .. Len(s)
        BY <2>2
      <4>2. CASE l = x
        BY <3>1, <4>2
      <4>3. CASE l # x
        BY <3>1, <4>1, <4>3
      <4> QED
        BY <4>2, <4>3
    <3>3. \A l \in 1 .. N : r[l].callback = slots[l].callback
      BY <2>2, <3>2
    <3> QED
      BY <2>2, <3>1, <3>3
  <2> HIDE DEF r
  <2>13. Holds(i + 1)
    BY <2>3, <2>9, <2>11, <2>12
  <2> HIDE DEF Holds
  <2> QED
    BY <2>1, <2>13
<1>11. 0 .. n \subseteq I
  <2> HIDE DEF I, n
  <2> QED
    BY <1>1, <1>9, <1>10, LoopInvariant, Zenon
<1>12. Holds(n)
  <2> HIDE DEF Holds
  <2>1. n \in 0 .. n
    BY <1>1
  <2> QED
    BY <1>11, <2>1
<1> HIDE DEF N
<1> QED
  BY <1>7, <1>12 DEF N

LEMMA ClearKeeps == ASSUME GenerationsLast, MulticastInv, MD!Clear PROVE MulticastInv'
<1> DEFINE L == MD!Live(slots, order)
           A == MD!Cleared(L)
           all == 1 .. Len(handles)
           past == removed \cup {c \in all : \E j \in 1 .. Len(L) : L[j] = handles[c]}
<1>1. /\ HandlesInv(slots, handles, removed) /\ OrderInv(order, handles, removed)
      /\ ListsInv(slots, freeHead, retiredHead, SlotsReleased(frames))
      /\ CountsInv(activeCount, tombstones, order, handles, removed)
  BY DEF MulticastInv
<1>2. /\ Len(frames) < MaxFrames /\ removed' = all /\ depth' = depth /\ handles' = handles
      /\ MD!FinalizeUnlessDeferred(A.s, A.head, activeCount - Len(L), tombstones + Len(L))
  BY DEF MD!Clear, MD!ActiveEntries
<1>3. /\ OrderInv(L, handles, removed)
      /\ \A k \in 1 .. Len(L) : \E c \in 1 .. Len(handles) \ removed : L[k] = handles[c]
      /\ Len(L) = Cardinality(1 .. Len(handles) \ removed)
  <2> HIDE DEF A, past
  <2>1. OrderInv(L, handles, removed)
    BY <1>1, LiveOrder, Zenon
  <2>2. AllRegistered(L, handles, removed)
    BY <1>1, LiveOrder, Zenon
  <2>3. Len(L) = Cardinality(1 .. Len(handles) \ removed)
    BY <1>1, LiveOrder
  <2> QED
    BY <2>1, <2>2, <2>3, Zenon DEF AllRegistered
<1> HIDE DEF L
<1>4. L \in Seq(Elements(handles)) /\ Len(L) \in Nat
  BY <1>3 DEF OrderInv
<1>5. Len(handles) \in Nat /\ removed \subseteq all
  BY <1>1, HandlesFields
<1>6. ASSUME NEW j \in 1 .. Len(L), NEW k \in 1 .. Len(L), L[j] = L[k] PROVE j = k
  <2>1. PICK c \in 1 .. Len(handles) : L[j] = handles[c]
    BY <1>3, Zenon
  <2>2. \A i, l \in 1 .. Len(L), d, e \in 1 .. Len(handles) : i < l /\ L[i] = handles[d] /\ L[l] = handles[e] => d < e
    BY <1>3, Zenon DEF OrderInv
  <2>3. L[k] = handles[c] /\ ~(c < c)
    BY <1>5, <1>6, <2>1
  <2>4. ~(j < k)
    BY <2>1, <2>2, <2>3
  <2>5. ~(k < j)
    BY <2>1, <2>2, <2>3
  <2> QED
    BY <1>4, <2>4, <2>5
<1>7. /\ HandlesInv(A.s, handles, past) /\ ListsInv(A.s, freeHead, A.head, SlotsReleased(frames))
      /\ Len(A.s) = Len(slots) /\ \A i \in 1 .. Len(slots) : A.s[i].callback = slots[i].callback
  BY <1>1, <1>3, <1>4, <1>6, ClearedExact, Zenon
<1>8. past = all
  <2>1. \A c \in 1 .. Len(handles) : c \notin removed => \E j \in 1 .. Len(L) : L[j] = handles[c]
    BY <1>3, Zenon DEF OrderInv
  <2> QED
    BY <1>5, <2>1
<1> HIDE DEF past, A
<1>9. OrderInv(order, handles, all)
  BY <1>1, <1>5, OrderShrinks, Zenon
<1>10. CountsInv(activeCount - Len(L), tombstones + Len(L), order, handles, all)
  <2>1. activeCount = Len(L) /\ tombstones = Len(order) - activeCount /\ Len(order) \in Nat
    BY <1>1, <1>3 DEF CountsInv, OrderInv
  <2>2. Cardinality(1 .. Len(handles) \ all) = 0
    <3>1. 1 .. Len(handles) \ all = {}
      OBVIOUS
    <3> QED
      BY <3>1, FS_EmptySet
  <2>3. activeCount - Len(L) = 0 /\ tombstones + Len(L) = Len(order) - 0
    BY <1>4, <2>1
  <2> QED
    BY <2>2, <2>3 DEF CountsInv
<1>11. DelegateInv(A.s, order, freeHead, A.head, activeCount - Len(L), tombstones + Len(L), handles, removed',
                   SlotsReleased(frames))
  BY <1>2, <1>7, <1>8, <1>9, <1>10 DEF DelegateInv
<1>12. removed \subseteq removed'
  BY <1>2, <1>5
<1> HIDE DEF all
<1> QED
  BY <1>2, <1>7, <1>11, <1>12, UnlessDeferredKeeps

-----------------------------------------------------------------------------
(* MulticastDelegate: add, and the slots of the free list *)

(* What the handles reach stays, when free slots change or are added.      *)
LEMMA HandlesStay ==
  ASSUME NEW s, NEW h, NEW gone, HandlesInv(s, h, gone), NEW r, r \in Seq(SlotRecord(r)), Len(s) <= Len(r),
         \A i \in 1 .. Len(s) : /\ r[i].active = s[i].active /\ r[i].generation = s[i].generation
                                /\ s[i].active => r[i].callback = s[i].callback,
         \A i \in 1 .. Len(r) : i \notin 1 .. Len(s) => r[i].generation = 1 /\ ~ r[i].active
  PROVE  HandlesInv(r, h, gone)
<1>1. /\ s \in Seq(SlotRecord(s)) /\ h \in Seq(HandleRecord(s)) /\ Len(h) <= MaxAdds /\ gone \subseteq 1 .. Len(h)
      /\ \A d \in 1 .. Len(h) : HandleAt(s, h, gone, d)
      /\ \A j \in 1 .. Len(s) : SlotAt(s, h, gone, j)
      /\ \A d, e \in 1 .. Len(h) : h[d] = h[e] => d = e
  BY DEF HandlesInv, HandlesTyped
<1>2. /\ Len(s) \in Nat /\ Len(r) \in Nat /\ \A d \in 1 .. Len(h) : h[d].index \in 1 .. Len(s)
  BY HandlesFields
<1>3. HandlesTyped(r, h, gone)
  <2>1. HandleRecord(s) \subseteq HandleRecord(r)
    <3>1. 1 .. Len(s) \subseteq 1 .. Len(r)
      BY <1>2
    <3> QED
      BY <3>1 DEF HandleRecord
  <2>2. h \in Seq(HandleRecord(r))
    BY <1>1, <2>1
  <2> QED
    BY <1>1, <2>2 DEF HandlesTyped
<1>4. ASSUME NEW d \in 1 .. Len(h) PROVE HandleAt(r, h, gone, d)
  <2>1. HandleAt(s, h, gone, d) /\ h[d].index \in 1 .. Len(s)
    BY <1>1, <1>2
  <2> QED
    BY <2>1 DEF HandleAt
<1>5. ASSUME NEW j \in 1 .. Len(r) PROVE SlotAt(r, h, gone, j)
  <2>1. CASE j \in 1 .. Len(s)
    BY <1>1, <2>1 DEF SlotAt
  <2>2. CASE j \notin 1 .. Len(s)
    BY <2>2 DEF SlotAt
  <2> QED
    BY <2>1, <2>2
<1> QED
  BY <1>1, <1>3, <1>4, <1>5 DEF HandlesInv

(* A slot that was taken out of the lists goes to the free slots.          *)
LEMMA FreeLists ==
  ASSUME NEW s, NEW r, Len(s) \in Nat, Len(r) = Len(s), NEW i \in 1 .. Len(s),
         NEW first, NEW retired, NEW released, i \notin released,
         ListsInv(s, first, retired, released \cup {i}),
         r[i].next = first, r[i].callback = 0, r[i].active = s[i].active,
         \A j \in 1 .. Len(s) : j # i => r[j] = s[j]
  PROVE  ListsInv(r, i, retired, released)
<1>1. PICK F \in Seq(1 .. Len(s)), R \in Seq(1 .. Len(s)) :
        IsStack(s, first, F) /\ IsStack(s, retired, R) /\ Partition(s, F, R, released \cup {i})
  BY DEF ListsInv
<1>2. /\ Elements(F) \cap Elements(R) = {} /\ Elements(F) \cap (released \cup {i}) = {}
      /\ Elements(R) \cap (released \cup {i}) = {}
      /\ released \cup {i} \subseteq 1 .. Len(s)
      /\ \A j \in 1 .. Len(s) : s[j].active <=> j \notin Elements(F) \cup Elements(R) \cup (released \cup {i})
      /\ \A j \in Elements(F) : s[j].callback = 0
  BY <1>1 DEF Partition
<1>3. Elements(F) \subseteq 1 .. Len(s) /\ Elements(R) \subseteq 1 .. Len(s)
  BY ElementsWithin
<1>4. i \notin Elements(F) /\ i \notin Elements(R) /\ \A j \in Elements(F) \cup Elements(R) : r[j] = s[j]
  BY <1>2, <1>3
<1>5. IsStack(r, i, Append(F, i)) /\ Append(F, i) \in Seq(1 .. Len(s))
  <2>1. \A j \in Elements(F) : r[j].next = s[j].next
    BY <1>4
  <2> QED
    BY <1>1, <1>4, <2>1, StackPush, Zenon
<1>6. IsStack(r, retired, R)
  <2>1. Len(r) \in Nat /\ Len(s) <= Len(r) /\ \A j \in Elements(R) : r[j].next = s[j].next
    BY <1>4
  <2> QED
    BY <1>1, <2>1, StackStays, Zenon
<1>7. Elements(Append(F, i)) = Elements(F) \cup {i}
  BY AppendElements
<1>8. Partition(r, Append(F, i), R, released)
  <2>1. ASSUME NEW j \in 1 .. Len(r)
        PROVE  r[j].active <=> j \notin (Elements(F) \cup {i}) \cup Elements(R) \cup released
    <3>1. r[j].active = s[j].active /\ j \in 1 .. Len(s)
      BY <2>1, Zenon
    <3> QED
      BY <1>2, <3>1
  <2>2. \A j \in Elements(F) \cup {i} : r[j].callback = 0
    BY <1>2, <1>4
  <2>3. /\ (Elements(F) \cup {i}) \cap Elements(R) = {} /\ (Elements(F) \cup {i}) \cap released = {}
        /\ Elements(R) \cap released = {} /\ released \subseteq 1 .. Len(r)
    BY <1>2, <1>4
  <2> QED
    BY <1>7, <2>1, <2>2, <2>3 DEF Partition
<1> QED
  BY <1>5, <1>6, <1>8, Zenon DEF ListsInv

(* acquireSlot: the slot that is taken is on no list.                      *)
LEMMA AcquireExact ==
  ASSUME MulticastInv
  PROVE  LET r == MD!AcquiredSlots
             i == MD!AcquiredIndex
         IN  /\ Len(slots) \in Nat /\ Len(r) \in Nat /\ Len(slots) <= Len(r) /\ i \in 1 .. Len(r)
             /\ r \in Seq(SlotRecord(r))
             /\ r[i].callback = 0 /\ ~ r[i].active /\ i \notin SlotsReleased(frames)
             /\ \A j \in 1 .. Len(r) : j # i => j \in 1 .. Len(slots) /\ r[j] = slots[j]
             /\ \A j \in 1 .. Len(slots) : r[j].callback = slots[j].callback
             /\ HandlesInv(r, handles, removed)
             /\ ListsInv(r, MD!AcquiredFree, retiredHead, SlotsReleased(frames) \cup {i})
<1> DEFINE r == MD!AcquiredSlots
           i == MD!AcquiredIndex
           N == Len(slots)
           released == SlotsReleased(frames)
<1>1. /\ HandlesInv(slots, handles, removed) /\ ListsInv(slots, freeHead, retiredHead, released)
  BY DEF MulticastInv
<1>2. /\ N \in Nat /\ slots \in Seq(SlotRecord(slots)) /\ \A j \in 1 .. N : slots[j] \in SlotRecord(slots)
  BY <1>1, HandlesFields
<1> HIDE DEF released
<1>3. PICK F \in Seq(1 .. N), R \in Seq(1 .. N) :
        IsStack(slots, freeHead, F) /\ IsStack(slots, retiredHead, R) /\ Partition(slots, F, R, released)
  BY <1>1 DEF ListsInv
<1>4. /\ Elements(F) \cap Elements(R) = {} /\ Elements(F) \cap released = {} /\ Elements(R) \cap released = {}
      /\ released \subseteq 1 .. N
      /\ \A j \in 1 .. N : slots[j].active <=> j \notin Elements(F) \cup Elements(R) \cup released
      /\ \A j \in Elements(F) : slots[j].callback = 0
  BY <1>3 DEF Partition
<1>5. Elements(F) \subseteq 1 .. N /\ Elements(R) \subseteq 1 .. N
  BY ElementsWithin
<1>6. CASE freeHead # 0
  <2> DEFINE Q == MD!Front(F)
             x == slots[freeHead]
             y == Relinked(x, 0)
  <2>1. r = [slots EXCEPT ![freeHead] = y] /\ i = freeHead /\ MD!AcquiredFree = x.next
    BY <1>6 DEF MD!AcquiredSlots, MD!AcquiredIndex, MD!AcquiredFree, MD!None, Relinked
  <2> HIDE DEF r, i
  <2>2. /\ i \in 1 .. N /\ IsStack(slots, x.next, Q) /\ Q \in Seq(1 .. N)
        /\ Elements(F) = Elements(Q) \cup {i} /\ i \notin Elements(Q)
    BY <1>2, <1>3, <1>6, <2>1, StackPop
  <2> HIDE DEF Q
  <2>3. x \in SlotRecord(slots)
    BY <1>2, <2>1, <2>2
  <2> HIDE DEF x
  <2>4. /\ y \in SlotRecord(slots) /\ y.next = 0 /\ y.callback = x.callback /\ y.active = x.active
        /\ y.generation = x.generation
    <3>1. 0 \in 0 .. Len(slots)
      BY <1>2
    <3> QED
      BY <2>3, <3>1, RelinkedRecord
  <2> HIDE DEF y
  <2>5. /\ Len(r) = N /\ r[i] = y /\ r \in Seq(SlotRecord(slots))
        /\ \A j \in 1 .. N : j # i => r[j] = slots[j]
    BY <1>2, <2>1, <2>2, <2>4
  <2>6. SlotRecord(r) = SlotRecord(slots)
    BY <2>5 DEF SlotRecord
  <2>7. slots[i] = x /\ x.callback = 0 /\ ~ x.active /\ i \notin released
    BY <1>4, <2>1, <2>2 DEF x
  <2>8. ASSUME NEW j \in 1 .. N
        PROVE  /\ r[j].active = slots[j].active /\ r[j].generation = slots[j].generation
               /\ r[j].callback = slots[j].callback
    BY <2>4, <2>5, <2>7
  <2>9. HandlesInv(r, handles, removed)
    <3>1. Len(slots) <= Len(r) /\ r \in Seq(SlotRecord(r)) /\ \A j \in 1 .. Len(r) : j \in 1 .. Len(slots)
      BY <1>2, <2>5, <2>6
    <3> QED
      BY <1>1, <2>8, <3>1, HandlesStay
  <2>10. IsStack(r, x.next, Q) /\ IsStack(r, retiredHead, R)
    <3>1. i \notin Elements(R)
      BY <1>4, <2>2
    <3>2. \A j \in Elements(Q) \cup Elements(R) : r[j].next = slots[j].next
      BY <1>5, <2>2, <2>5, <3>1, Zenon
    <3>3. Len(r) \in Nat /\ Len(slots) <= Len(r)
      BY <1>2, <2>5
    <3>4. IsStack(r, x.next, Q)
      BY <1>2, <2>2, <3>2, <3>3, StackStays
    <3>5. IsStack(r, retiredHead, R)
      BY <1>2, <1>3, <3>2, <3>3, StackStays
    <3> QED
      BY <3>4, <3>5
  <2>11. Partition(r, Q, R, released \cup {i})
    <3>1. /\ Elements(Q) \cap Elements(R) = {} /\ Elements(Q) \cap (released \cup {i}) = {}
          /\ Elements(R) \cap (released \cup {i}) = {} /\ released \cup {i} \subseteq 1 .. Len(r)
      BY <1>4, <2>2, <2>5
    <3>2. Elements(Q) \cup Elements(R) \cup (released \cup {i}) = Elements(F) \cup Elements(R) \cup released
      BY <2>2
    <3>3. \A j \in 1 .. Len(r) : r[j].active <=> j \notin Elements(Q) \cup Elements(R) \cup (released \cup {i})
      BY <1>4, <2>5, <2>8, <3>2, Zenon
    <3>4. \A j \in Elements(Q) : r[j].callback = 0
      BY <1>4, <1>5, <2>2, <2>8, Zenon
    <3> QED
      BY <3>1, <3>3, <3>4 DEF Partition
  <2>12. ListsInv(r, x.next, retiredHead, released \cup {i})
    BY <1>3, <2>2, <2>5, <2>10, <2>11 DEF ListsInv
  <2> HIDE DEF N
  <2>13. /\ Len(r) = Len(slots) /\ Len(slots) \in Nat
    BY <1>2, <2>5 DEF N
  <2> QED
    BY <1>2, <2>1, <2>2, <2>4, <2>5, <2>6, <2>7, <2>8, <2>9, <2>12, <2>13 DEF r, i, released, N
<1>7. CASE freeHead = 0
  <2> DEFINE y == MD!NewSlot
  <2>1. r = Append(slots, y) /\ i = N + 1 /\ MD!AcquiredFree = 0
    BY <1>7 DEF MD!AcquiredSlots, MD!AcquiredIndex, MD!AcquiredFree, MD!None
  <2>2. y.callback = 0 /\ y.generation = 1 /\ y.next = 0 /\ y.active = FALSE
    BY DEF MD!NewSlot, MD!None
  <2>3. y \in [callback : 0 .. MaxAdds, generation : 1 .. LastGeneration, next : 0 .. N + 1, active : BOOLEAN]
    BY <1>2, MulticastParameters DEF MD!NewSlot, MD!None
  <2> HIDE DEF r, i, y
  <2>4. /\ Len(r) = N + 1 /\ r[N + 1] = y /\ \A j \in 1 .. N : r[j] = slots[j]
    BY <1>2, <2>1, AppendFields
  <2>5. SlotRecord(r) = [callback : 0 .. MaxAdds, generation : 1 .. LastGeneration, next : 0 .. N + 1, active : BOOLEAN]
    BY <2>4 DEF SlotRecord
  <2>6. SlotRecord(slots) \subseteq SlotRecord(r)
    <3>1. 0 .. N \subseteq 0 .. N + 1
      BY <1>2
    <3> QED
      BY <2>5, <3>1, Zenon DEF SlotRecord
  <2>7. r \in Seq(SlotRecord(r))
    <3> DEFINE S == SlotRecord(r)
               T == SlotRecord(slots)
    <3>1. slots \in Seq(T) /\ T \subseteq S /\ y \in S
      BY <1>2, <2>3, <2>5, <2>6
    <3> HIDE DEF N, S, T
    <3>2. slots \in Seq(S)
      BY <3>1
    <3> QED
      BY <2>1, <3>1, <3>2, AppendFields DEF S
  <2>8. /\ Len(r) \in Nat /\ i \in 1 .. Len(r) /\ r[i] = y /\ i \notin 1 .. N /\ N <= Len(r)
        /\ \A j \in 1 .. Len(r) : j # i => j \in 1 .. N
    BY <1>2, <2>1, <2>4
  <2>9. HandlesInv(r, handles, removed)
    <3>1. \A j \in 1 .. Len(slots) : /\ r[j].active = slots[j].active /\ r[j].generation = slots[j].generation
                                     /\ slots[j].active => r[j].callback = slots[j].callback
      BY <2>4
    <3>2. \A j \in 1 .. Len(r) : j \notin 1 .. Len(slots) => r[j].generation = 1 /\ ~ r[j].active
      BY <2>2, <2>8
    <3> QED
      BY <1>1, <2>7, <2>8, <3>1, <3>2, HandlesStay, Zenon
  <2>10. Elements(F) = {} /\ 0 \in 0 .. N
    <3>1. Len(F) = 0
      BY <1>3, <1>7 DEF IsStack
    <3> QED
      BY <1>2, <3>1 DEF Elements
  <2>11. IsStack(r, 0, F) /\ IsStack(r, retiredHead, R)
    <3>1. \A j \in Elements(F) \cup Elements(R) : r[j].next = slots[j].next
      BY <1>5, <2>4
    <3>2. IsStack(r, freeHead, F)
      BY <1>2, <1>3, <2>8, <3>1, StackStays
    <3>3. IsStack(r, retiredHead, R)
      BY <1>2, <1>3, <2>8, <3>1, StackStays
    <3> QED
      BY <1>7, <3>2, <3>3
  <2>12. Partition(r, F, R, released \cup {i})
    <3>1. /\ Elements(F) \cap Elements(R) = {} /\ Elements(F) \cap (released \cup {i}) = {}
          /\ Elements(R) \cap (released \cup {i}) = {} /\ released \cup {i} \subseteq 1 .. Len(r)
      BY <1>2, <1>4, <1>5, <2>4, <2>8, <2>10
    <3>2. ASSUME NEW j \in 1 .. Len(r)
          PROVE  r[j].active <=> j \notin Elements(F) \cup Elements(R) \cup (released \cup {i})
      <4>1. CASE j = i
        BY <2>2, <2>8, <4>1
      <4>2. CASE j # i
        <5>1. j \in 1 .. N /\ r[j] = slots[j]
          BY <2>4, <2>8, <4>2
        <5> QED
          BY <1>4, <4>2, <5>1
      <4> QED
        BY <4>1, <4>2
    <3> QED
      BY <2>10, <3>1, <3>2 DEF Partition
  <2>13. ListsInv(r, 0, retiredHead, released \cup {i})
    <3>1. F \in Seq(1 .. Len(r)) /\ R \in Seq(1 .. Len(r))
      BY <2>11 DEF IsStack
    <3> QED
      BY <2>11, <2>12, <3>1 DEF ListsInv
  <2>14. i \notin released
    BY <1>4, <2>8
  <2> QED
    BY <1>2, <2>1, <2>2, <2>4, <2>7, <2>8, <2>9, <2>13, <2>14 DEF r, i, released
<1> QED
  BY <1>6, <1>7

-----------------------------------------------------------------------------
(* MulticastDelegate: the calls in progress *)

LEMMA FramesFields ==
  ASSUME NEW fr, NEW d, FramesInv(fr, d)
  PROVE  /\ fr \in Seq(FrameRecord) /\ Len(fr) \in Nat /\ Len(fr) <= MaxFrames /\ d \in 0 .. Len(fr)
         /\ \A k \in 1 .. Len(fr) : fr[k].kind = "release" <=> k <= Len(fr) - d
         /\ \A k \in 1 .. Len(fr) : fr[k].kind = "release" \/ fr[k].kind = "broadcast"
         /\ \A k, l \in 1 .. Len(fr) : k < l /\ l <= Len(fr) - d => fr[k].slot # fr[l].slot
<1>1. /\ fr \in Seq(FrameRecord) /\ Len(fr) \in Nat /\ Len(fr) <= MaxFrames /\ d \in 0 .. Len(fr)
      /\ \A k \in 1 .. Len(fr) : fr[k].kind = "release" <=> k <= Len(fr) - d
      /\ \A k, l \in 1 .. Len(fr) : k < l /\ l <= Len(fr) - d => fr[k].slot # fr[l].slot
  BY DEF FramesInv
<1>2. \A x \in FrameRecord : x.kind = "release" \/ x.kind = "broadcast"
  BY Zenon DEF FrameRecord
<1>3. \A k \in 1 .. Len(fr) : fr[k] \in FrameRecord
  BY <1>1
<1> QED
  BY <1>1, <1>2, <1>3

(* The innermost call is a release: no broadcast is in progress.           *)
LEMMA PopRelease ==
  ASSUME NEW fr, NEW d, FramesInv(fr, d), fr # <<>>, MD!Last(fr).kind = "release"
  PROVE  LET rest == MD!Front(fr)
             slot == MD!Last(fr).slot
         IN  /\ d = 0 /\ FramesInv(rest, 0) /\ Len(rest) < MaxFrames
             /\ slot \notin SlotsReleased(rest) /\ SlotsReleased(fr) = SlotsReleased(rest) \cup {slot}
<1> DEFINE rest == MD!Front(fr)
           slot == MD!Last(fr).slot
           n == Len(fr)
<1>1. /\ fr \in Seq(FrameRecord) /\ n \in Nat /\ n <= MaxFrames /\ d \in 0 .. n
      /\ \A k \in 1 .. n : fr[k].kind = "release" <=> k <= n - d
      /\ \A k, l \in 1 .. n : k < l /\ l <= n - d => fr[k].slot # fr[l].slot
  BY FramesFields
<1>2. /\ MD!Last(fr) = fr[n] /\ n \in Nat \ {0}
      /\ rest \in Seq(FrameRecord) /\ Len(rest) = n - 1 /\ \A k \in 1 .. n - 1 : rest[k] = fr[k]
  BY <1>1, FrontFields
<1> HIDE DEF rest, n
<1>3. d = 0 /\ n \in 1 .. n
  BY <1>1, <1>2
<1>4. \A k \in 1 .. n : fr[k].kind = "release"
  BY <1>1, <1>3
<1>5. \A k \in 1 .. Len(rest) : k \in 1 .. n /\ k < n /\ rest[k] = fr[k] /\ rest[k].kind = "release"
  BY <1>2, <1>4
<1>6. FramesInv(rest, 0)
  <2>1. Len(rest) <= MaxFrames /\ 0 \in 0 .. Len(rest)
    BY <1>1, <1>2, MulticastParameters
  <2>2. \A k \in 1 .. Len(rest) : rest[k].kind = "release" <=> k <= Len(rest) - 0
    BY <1>2, <1>5
  <2>3. \A k, l \in 1 .. Len(rest) : k < l /\ l <= Len(rest) - 0 => rest[k].slot # rest[l].slot
    BY <1>1, <1>2, <1>3, <1>5
  <2> QED
    BY <1>2, <2>1, <2>2, <2>3 DEF FramesInv
<1>7. /\ SlotsReleased(fr) = {fr[k].slot : k \in 1 .. n}
      /\ SlotsReleased(rest) = {rest[k].slot : k \in 1 .. Len(rest)}
  BY <1>4, <1>5 DEF SlotsReleased, n
<1>8. slot = fr[n].slot
  BY <1>2
<1> HIDE DEF slot
<1>9. SlotsReleased(fr) = SlotsReleased(rest) \cup {slot}
  <2>1. ASSUME NEW k \in 1 .. n PROVE fr[k].slot \in SlotsReleased(rest) \cup {slot}
    <3>1. k = n \/ (k \in 1 .. Len(rest) /\ rest[k] = fr[k])
      BY <1>2
    <3> QED
      BY <1>7, <1>8, <3>1
  <2>2. \A k \in 1 .. Len(rest) : rest[k].slot \in SlotsReleased(fr)
    BY <1>5, <1>7
  <2> QED
    BY <1>3, <1>7, <1>8, <2>1, <2>2
<1>10. slot \notin SlotsReleased(rest)
  <2>1. \A k \in 1 .. Len(rest) : rest[k].slot # slot
    BY <1>1, <1>2, <1>3, <1>5, <1>8
  <2> QED
    BY <1>7, <2>1
<1>11. Len(rest) < MaxFrames
  BY <1>1, <1>2, MulticastParameters
<1> QED
  BY <1>3, <1>6, <1>9, <1>10, <1>11 DEF rest, slot

(* The innermost call is a broadcast.                                      *)
LEMMA PopBroadcast ==
  ASSUME NEW fr, NEW d, FramesInv(fr, d), fr # <<>>, MD!Last(fr).kind = "broadcast"
  PROVE  LET rest == MD!Front(fr)
         IN  /\ d \in Nat /\ d - 1 \in Nat /\ FramesInv(rest, d - 1) /\ Len(rest) < MaxFrames
             /\ SlotsReleased(fr) = SlotsReleased(rest)
             /\ Len(fr) \in Nat \ {0} /\ MD!Last(fr) = fr[Len(fr)] /\ Len(rest) = Len(fr) - 1
             /\ \A k \in 1 .. Len(rest) : rest[k] = fr[k]
<1> DEFINE rest == MD!Front(fr)
           n == Len(fr)
<1>1. /\ fr \in Seq(FrameRecord) /\ n \in Nat /\ n <= MaxFrames /\ d \in 0 .. n
      /\ \A k \in 1 .. n : fr[k].kind = "release" <=> k <= n - d
      /\ \A k, l \in 1 .. n : k < l /\ l <= n - d => fr[k].slot # fr[l].slot
  BY FramesFields
<1>2. /\ MD!Last(fr) = fr[n] /\ n \in Nat \ {0}
      /\ rest \in Seq(FrameRecord) /\ Len(rest) = n - 1 /\ \A k \in 1 .. n - 1 : rest[k] = fr[k]
  BY <1>1, FrontFields, Zenon
<1> HIDE DEF rest, n
<1>3. n \in 1 .. n /\ fr[n].kind # "release"
  BY <1>2
<1>4. d # 0 /\ d - 1 \in Nat /\ d - 1 \in 0 .. Len(rest)
  BY <1>1, <1>2, <1>3
<1>5. \A k \in 1 .. Len(rest) : k \in 1 .. n /\ k < n /\ rest[k] = fr[k]
  BY <1>2
<1>6. FramesInv(rest, d - 1)
  <2>1. Len(rest) <= MaxFrames /\ Len(rest) - (d - 1) = n - d
    BY <1>1, <1>2, MulticastParameters
  <2>2. \A k \in 1 .. Len(rest) : rest[k].kind = "release" <=> k <= Len(rest) - (d - 1)
    BY <1>1, <1>5, <2>1
  <2>3. \A k, l \in 1 .. Len(rest) : k < l /\ l <= Len(rest) - (d - 1) => rest[k].slot # rest[l].slot
    BY <1>1, <1>5, <2>1
  <2> QED
    BY <1>2, <1>4, <2>1, <2>2, <2>3 DEF FramesInv
<1>7. SlotsReleased(fr) = SlotsReleased(rest)
  <2>1. ASSUME NEW k \in 1 .. n, fr[k].kind = "release" PROVE k \in 1 .. Len(rest) /\ rest[k] = fr[k]
    BY <1>2, <1>3, <2>1
  <2>2. SlotsReleased(fr) = {fr[k].slot : k \in {k \in 1 .. n : fr[k].kind = "release"}}
    BY DEF SlotsReleased, n
  <2>3. SlotsReleased(rest) = {rest[k].slot : k \in {k \in 1 .. Len(rest) : rest[k].kind = "release"}}
    BY DEF SlotsReleased
  <2>4. ASSUME NEW x \in SlotsReleased(fr) PROVE x \in SlotsReleased(rest)
    BY <2>1, <2>2, <2>3
  <2>5. ASSUME NEW x \in SlotsReleased(rest) PROVE x \in SlotsReleased(fr)
    BY <1>5, <2>2, <2>3
  <2> QED
    BY <2>4, <2>5
<1>8. Len(rest) < MaxFrames
  BY <1>1, <1>2, MulticastParameters
<1> QED
  BY <1>1, <1>2, <1>4, <1>5, <1>6, <1>7, <1>8 DEF rest, n

(* Another broadcast on top.                                               *)
LEMMA PushBroadcast ==
  ASSUME NEW fr, NEW d, FramesInv(fr, d), Len(fr) < MaxFrames, NEW x \in FrameRecord, x.kind = "broadcast"
  PROVE  /\ FramesInv(Append(fr, x), d + 1) /\ SlotsReleased(Append(fr, x)) = SlotsReleased(fr)
         /\ Len(fr) \in Nat /\ Len(Append(fr, x)) = Len(fr) + 1 /\ Append(fr, x)[Len(fr) + 1] = x
         /\ \A k \in 1 .. Len(fr) : Append(fr, x)[k] = fr[k]
<1> DEFINE r == Append(fr, x)
           n == Len(fr)
<1>1. /\ fr \in Seq(FrameRecord) /\ n \in Nat /\ n <= MaxFrames /\ d \in 0 .. n
      /\ \A k \in 1 .. n : fr[k].kind = "release" <=> k <= n - d
      /\ \A k, l \in 1 .. n : k < l /\ l <= n - d => fr[k].slot # fr[l].slot
  BY FramesFields
<1>2. Len(r) = n + 1 /\ r[n + 1] = x /\ (\A k \in 1 .. n : r[k] = fr[k]) /\ r \in Seq(FrameRecord)
  BY <1>1, AppendFields
<1> HIDE DEF r, n
<1>3. \A k \in 1 .. Len(r) : (k \in 1 .. n /\ r[k] = fr[k]) \/ (k = n + 1 /\ r[k] = x)
  BY <1>1, <1>2
<1>4. \A k \in 1 .. n : k \in 1 .. Len(r) /\ r[k] = fr[k]
  BY <1>1, <1>2
<1>5. FramesInv(r, d + 1)
  <2>1. Len(r) <= MaxFrames /\ Len(r) - (d + 1) = n - d /\ d + 1 \in 0 .. Len(r)
    BY <1>1, <1>2, MulticastParameters DEF n
  <2>2. ASSUME NEW k \in 1 .. Len(r) PROVE r[k].kind = "release" <=> k <= n - d
    BY <1>1, <1>3
  <2>3. ASSUME NEW k \in 1 .. Len(r), NEW l \in 1 .. Len(r), k < l, l <= n - d PROVE r[k].slot # r[l].slot
    <3>1. k \in 1 .. n /\ l \in 1 .. n
      BY <1>1, <1>2, <2>3
    <3> QED
      BY <1>1, <1>4, <2>3, <3>1
  <2> QED
    BY <1>2, <2>1, <2>2, <2>3 DEF FramesInv
<1>6. SlotsReleased(r) = SlotsReleased(fr)
  <2>1. SlotsReleased(fr) = {fr[k].slot : k \in {k \in 1 .. n : fr[k].kind = "release"}}
    BY DEF SlotsReleased, n
  <2>2. SlotsReleased(r) = {r[k].slot : k \in {k \in 1 .. Len(r) : r[k].kind = "release"}}
    BY DEF SlotsReleased
  <2>3. ASSUME NEW y \in SlotsReleased(fr) PROVE y \in SlotsReleased(r)
    BY <1>4, <2>1, <2>2
  <2>4. ASSUME NEW y \in SlotsReleased(r) PROVE y \in SlotsReleased(fr)
    BY <1>3, <2>1, <2>2
  <2> QED
    BY <2>3, <2>4, Zenon
<1> QED
  BY <1>1, <1>2, <1>4, <1>5, <1>6 DEF r, n

(* The innermost broadcast goes on.                                        *)
LEMMA TopBroadcast ==
  ASSUME NEW fr, NEW d, FramesInv(fr, d), fr # <<>>, MD!Last(fr).kind = "broadcast",
         NEW x \in FrameRecord, x.kind = "broadcast"
  PROVE  LET r == [fr EXCEPT ![Len(fr)] = x]
         IN  /\ FramesInv(r, d) /\ SlotsReleased(r) = SlotsReleased(fr)
             /\ Len(fr) \in Nat \ {0} /\ Len(r) = Len(fr) /\ r[Len(fr)] = x
             /\ \A k \in 1 .. Len(fr) : k # Len(fr) => r[k] = fr[k]
<1> DEFINE n == Len(fr)
           r == [fr EXCEPT ![n] = x]
<1>1. /\ fr \in Seq(FrameRecord) /\ n \in Nat /\ n <= MaxFrames /\ d \in 0 .. n
      /\ \A k \in 1 .. n : fr[k].kind = "release" <=> k <= n - d
      /\ \A k, l \in 1 .. n : k < l /\ l <= n - d => fr[k].slot # fr[l].slot
  BY FramesFields
<1>2. MD!Last(fr) = fr[n] /\ n \in Nat \ {0}
  BY <1>1, FrontFields
<1>3. Len(r) = n /\ r[n] = x /\ (\A k \in 1 .. n : k # n => r[k] = fr[k]) /\ r \in Seq(FrameRecord)
  BY <1>1, <1>2
<1> HIDE DEF r, n
<1>4. n \in 1 .. n /\ fr[n].kind # "release" /\ x.kind # "release"
  BY <1>2
<1>5. \A k \in 1 .. n : r[k].kind = "release" <=> fr[k].kind = "release"
  BY <1>3, <1>4
<1>6. \A k \in 1 .. n : fr[k].kind = "release" => r[k] = fr[k]
  BY <1>3, <1>4
<1>7. FramesInv(r, d)
  <2>1. \A k \in 1 .. Len(r) : r[k].kind = "release" <=> k <= Len(r) - d
    BY <1>1, <1>3, <1>5
  <2>2. ASSUME NEW k \in 1 .. n, NEW l \in 1 .. n, k < l, l <= n - d PROVE r[k].slot # r[l].slot
    <3>1. k <= n - d
      BY <1>1, <2>2
    <3>2. r[k] = fr[k] /\ r[l] = fr[l]
      BY <1>1, <1>6, <2>2, <3>1
    <3> QED
      BY <1>1, <2>2, <3>2
  <2> QED
    BY <1>1, <1>3, <2>1, <2>2 DEF FramesInv
<1>8. SlotsReleased(r) = SlotsReleased(fr)
  <2>1. SlotsReleased(fr) = {fr[k].slot : k \in {k \in 1 .. n : fr[k].kind = "release"}}
    BY DEF SlotsReleased, n
  <2>2. SlotsReleased(r) = {r[k].slot : k \in {k \in 1 .. n : r[k].kind = "release"}}
    BY <1>3 DEF SlotsReleased
  <2> QED
    BY <1>5, <1>6, <2>1, <2>2
<1> QED
  BY <1>2, <1>3, <1>7, <1>8 DEF r, n

-----------------------------------------------------------------------------
(* MulticastDelegate: the destructor of a callback returns, add *)

Freed(t, n) == [t EXCEPT !.callback = 0, !.next = n]

LEMMA FreedRecord ==
  ASSUME NEW s, NEW t, t \in SlotRecord(s), NEW n \in 0 .. Len(s)
  PROVE  LET y == Freed(t, n)
         IN  /\ y \in SlotRecord(s) /\ y.next = n
             /\ y.callback = 0 /\ y.generation = t.generation /\ y.active = t.active
<1> DEFINE y == Freed(t, n)
<1> USE DEF Freed
<1>1. t = [f \in {"callback", "generation", "next", "active"} |-> t[f]]
  BY DEF SlotRecord
<1>2. y.next = n /\ y.callback = 0 /\ y.generation = t.generation /\ y.active = t.active
  BY <1>1
<1>3. y \in SlotRecord(s)
  <2> DEFINE z == [t EXCEPT !.callback = 0]
  <2>1. 0 \in 0 .. MaxAdds
    BY MulticastParameters
  <2>2. z \in SlotRecord(s) /\ y = [z EXCEPT !.next = n]
    BY <2>1 DEF SlotRecord
  <2> HIDE DEF z, y
  <2> QED
    BY <2>2 DEF SlotRecord
<1> QED
  BY <1>2, <1>3

LEMMA ReleasedKeeps == ASSUME MulticastInv, MD!Released PROVE MulticastInv'
<1> DEFINE i == MD!Last(frames).slot
           rest == MD!Front(frames)
           x == slots[i]
           y == Freed(x, freeHead)
           s == [slots EXCEPT ![i] = y]
<1>1. /\ HandlesInv(slots, handles, removed) /\ OrderInv(order, handles, removed)
      /\ ListsInv(slots, freeHead, retiredHead, SlotsReleased(frames))
      /\ CountsInv(activeCount, tombstones, order, handles, removed) /\ FramesInv(frames, depth)
  BY DEF MulticastInv
<1>2. /\ frames # <<>> /\ MD!Last(frames).kind = "release"
      /\ depth' = depth /\ handles' = handles /\ removed' = removed
      /\ MD!Finalize([slots EXCEPT ![i].callback = 0, ![i].next = freeHead], order, i, retiredHead,
                     activeCount, tombstones, rest)
  BY DEF MD!Released, MD!None
<1>3. /\ depth = 0 /\ FramesInv(rest, 0) /\ Len(rest) < MaxFrames
      /\ i \notin SlotsReleased(rest) /\ SlotsReleased(frames) = SlotsReleased(rest) \cup {i}
  BY <1>1, <1>2, PopRelease
<1>4. MD!Finalize(s, order, i, retiredHead, activeCount, tombstones, rest)
  BY <1>2, Zenon DEF Freed
<1> HIDE DEF i, rest, y
<1>5. /\ Len(slots) \in Nat /\ slots \in Seq(SlotRecord(slots))
      /\ \A j \in 1 .. Len(slots) : slots[j] \in SlotRecord(slots)
  BY <1>1, HandlesFields
<1>6. freeHead \in 0 .. Len(slots)
  BY <1>1, <1>5, HeadsTyped
<1>7. i \in 1 .. Len(slots) /\ ~ x.active
  <2>1. PICK F \in Seq(1 .. Len(slots)), R \in Seq(1 .. Len(slots)) : Partition(slots, F, R, SlotsReleased(frames))
    BY <1>1 DEF ListsInv
  <2> QED
    BY <1>3, <2>1 DEF Partition
<1>8. /\ y \in SlotRecord(slots) /\ y.next = freeHead /\ y.callback = 0 /\ y.generation = x.generation
      /\ y.active = x.active
  <2>1. x \in SlotRecord(slots)
    BY <1>5, <1>7
  <2> HIDE DEF x
  <2> QED
    BY <1>6, <2>1, FreedRecord DEF y
<1>9. /\ Len(s) = Len(slots) /\ s \in Seq(SlotRecord(slots)) /\ s[i] = y
      /\ \A j \in 1 .. Len(slots) : j # i => s[j] = slots[j]
  BY <1>5, <1>7, <1>8
<1> HIDE DEF s
<1>10. HandlesInv(s, handles, removed)
  <2>1. SlotRecord(s) = SlotRecord(slots)
    BY <1>9 DEF SlotRecord
  <2>2. ASSUME NEW j \in 1 .. Len(slots)
        PROVE  /\ s[j].active = slots[j].active /\ s[j].generation = slots[j].generation
               /\ slots[j].active => s[j].callback = slots[j].callback
    <3>1. CASE j = i
      BY <1>7, <1>8, <1>9, <3>1
    <3>2. CASE j # i
      BY <1>9, <3>2
    <3> QED
      BY <3>1, <3>2
  <2>3. Len(slots) <= Len(s) /\ s \in Seq(SlotRecord(s)) /\ \A j \in 1 .. Len(s) : j \in 1 .. Len(slots)
    BY <1>5, <1>9, <2>1
  <2> QED
    BY <1>1, <2>2, <2>3, HandlesStay
<1>11. ListsInv(s, i, retiredHead, SlotsReleased(rest))
  <2>1. ListsInv(slots, freeHead, retiredHead, SlotsReleased(rest) \cup {i})
    BY <1>1, <1>3
  <2>2. s[i].next = freeHead /\ s[i].callback = 0 /\ s[i].active = slots[i].active
    BY <1>8, <1>9
  <2> QED
    BY <1>3, <1>5, <1>7, <1>9, <2>1, <2>2, FreeLists, Zenon
<1>12. DelegateInv(s, order, i, retiredHead, activeCount, tombstones, handles', removed', SlotsReleased(rest))
  BY <1>1, <1>2, <1>10, <1>11 DEF DelegateInv
<1>13. depth' = 0
  BY <1>2, <1>3
<1> QED
  BY <1>3, <1>4, <1>12, <1>13, FinalizeEnds

(* add gives a slot back when the entry cannot be stored.                  *)
LEMMA AddFailsKeeps == ASSUME MulticastInv, MD!AddFails PROVE MulticastInv'
<1> DEFINE r == MD!AcquiredSlots
           i == MD!AcquiredIndex
           first == MD!AcquiredFree
           x == r[i]
           y == Relinked(x, first)
           s == [r EXCEPT ![i] = y]
           released == SlotsReleased(frames)
<1>1. /\ HandlesInv(slots, handles, removed) /\ OrderInv(order, handles, removed)
      /\ CountsInv(activeCount, tombstones, order, handles, removed) /\ FramesInv(frames, depth)
      /\ BroadcastsInv(frames, order, handles, removed, slots) /\ RestInv(frames, retiredHead, tombstones, order)
  BY DEF MulticastInv
<1>2. /\ slots' = s /\ freeHead' = i
      /\ UNCHANGED <<order, retiredHead, activeCount, depth, tombstones, frames, handles, removed>>
  BY DEF MD!AddFails, Relinked
<1>3. /\ Len(slots) \in Nat /\ Len(r) \in Nat /\ Len(slots) <= Len(r) /\ i \in 1 .. Len(r)
      /\ r \in Seq(SlotRecord(r))
      /\ r[i].callback = 0 /\ ~ r[i].active /\ i \notin released
      /\ \A j \in 1 .. Len(slots) : r[j].callback = slots[j].callback
      /\ HandlesInv(r, handles, removed)
      /\ ListsInv(r, first, retiredHead, released \cup {i})
  <2> HIDE DEF s, y
  <2> QED
    BY AcquireExact
<1> HIDE DEF r, i, first, y, released
<1>4. first \in 0 .. Len(r)
  BY <1>3, HeadsTyped
<1>5. /\ y \in SlotRecord(r) /\ y.next = first /\ y.callback = x.callback /\ y.generation = x.generation
      /\ y.active = x.active
  <2>1. x \in SlotRecord(r)
    BY <1>3
  <2> HIDE DEF x
  <2> QED
    BY <1>4, <2>1, RelinkedRecord DEF y
<1>6. /\ Len(s) = Len(r) /\ s \in Seq(SlotRecord(r)) /\ s[i] = y
      /\ \A j \in 1 .. Len(r) : j # i => s[j] = r[j]
  BY <1>3, <1>5
<1> HIDE DEF s
<1>7. ASSUME NEW j \in 1 .. Len(r)
      PROVE  /\ s[j].active = r[j].active /\ s[j].generation = r[j].generation
             /\ s[j].callback = r[j].callback
  <2>1. CASE j = i
    BY <1>5, <1>6, <2>1
  <2>2. CASE j # i
    BY <1>6, <2>2
  <2> QED
    BY <2>1, <2>2
<1>8. HandlesInv(s, handles, removed)
  <2>1. SlotRecord(s) = SlotRecord(r)
    BY <1>6 DEF SlotRecord
  <2>2. Len(r) <= Len(s) /\ s \in Seq(SlotRecord(s)) /\ \A j \in 1 .. Len(s) : j \in 1 .. Len(r)
    BY <1>3, <1>6, <2>1
  <2> QED
    BY <1>3, <1>7, <2>2, HandlesStay
<1>9. ListsInv(s, i, retiredHead, released)
  <2>1. s[i].next = first /\ s[i].callback = 0 /\ s[i].active = r[i].active
    BY <1>3, <1>5, <1>6
  <2> QED
    BY <1>3, <1>6, <2>1, FreeLists, Zenon
<1>10. BroadcastsInv(frames, order, handles, removed, s)
  <2>1. \A j \in 1 .. Len(slots) : s[j].callback = slots[j].callback
    <3>1. \A j \in 1 .. Len(slots) : j \in 1 .. Len(r)
      BY <1>3
    <3> QED
      BY <1>3, <1>7, <3>1
  <2>2. order \in Seq(Elements(handles)) /\ Len(order) \in Nat
    BY <1>1 DEF OrderInv
  <2>3. ASSUME NEW j \in 1 .. Len(order) PROVE order[j].index \in 1 .. Len(slots)
    <3>1. order[j] \in Elements(handles)
      BY <2>2
    <3>2. \A c \in 1 .. Len(handles) : handles[c].index \in 1 .. Len(slots)
      BY <1>1, HandlesFields
    <3> QED
      BY <3>1, <3>2 DEF Elements
  <2>4. removed \subseteq removed
    OBVIOUS
  <2> QED
    BY <1>1, <2>1, <2>2, <2>3, <2>4, BroadcastsShrink
<1> QED
  BY <1>1, <1>2, <1>8, <1>9, <1>10 DEF MulticastInv, released

BoundSlot(t, c) == [t EXCEPT !.callback = c, !.active = TRUE]

LEMMA BoundRecord ==
  ASSUME NEW s, NEW t, t \in SlotRecord(s), NEW c \in 0 .. MaxAdds
  PROVE  LET y == BoundSlot(t, c)
         IN  /\ y \in SlotRecord(s) /\ y.next = t.next
             /\ y.callback = c /\ y.generation = t.generation /\ y.active
<1> DEFINE y == BoundSlot(t, c)
<1> USE DEF BoundSlot
<1>1. t = [f \in {"callback", "generation", "next", "active"} |-> t[f]]
  BY DEF SlotRecord
<1>2. y.next = t.next /\ y.callback = c /\ y.generation = t.generation /\ y.active = TRUE
  BY <1>1
<1>3. y \in SlotRecord(s)
  <2> DEFINE z == [t EXCEPT !.callback = c]
  <2>1. z \in SlotRecord(s) /\ y = [z EXCEPT !.active = TRUE]
    BY DEF SlotRecord
  <2> HIDE DEF z, y
  <2> QED
    BY <2>1, Zenon DEF SlotRecord
<1> QED
  BY <1>2, <1>3

(* A new handle is none of those before.                                   *)
LEMMA AddHandles ==
  ASSUME NEW r, NEW h, NEW gone, HandlesInv(r, h, gone), Len(h) < MaxAdds, NEW i \in 1 .. Len(r), ~ r[i].active,
         NEW x, x \in HandleRecord(r), x.index = i, x.generation = r[i].generation,
         NEW s, s \in Seq(SlotRecord(r)), Len(s) = Len(r), \A j \in 1 .. Len(r) : j # i => s[j] = r[j],
         s[i].active, s[i].generation = r[i].generation, s[i].callback = Len(h) + 1
  PROVE  x \notin Elements(h) /\ HandlesInv(s, Append(h, x), gone)
<1> DEFINE p == Append(h, x)
           n == Len(h)
<1>1. /\ h \in Seq(HandleRecord(r)) /\ gone \subseteq 1 .. n
      /\ \A d \in 1 .. n : HandleAt(r, h, gone, d)
      /\ \A j \in 1 .. Len(r) : SlotAt(r, h, gone, j)
      /\ \A d, e \in 1 .. n : h[d] = h[e] => d = e
  BY DEF HandlesInv, HandlesTyped
<1>2. /\ n \in Nat /\ Len(r) \in Nat
      /\ \A d \in 1 .. n : h[d].index \in 1 .. Len(r) /\ h[d].generation \in Nat
      /\ \A j \in 1 .. Len(r) : r[j].generation \in Nat
  BY HandlesFields
<1>3. Len(p) = n + 1 /\ p[n + 1] = x /\ (\A d \in 1 .. n : p[d] = h[d]) /\ p \in Seq(HandleRecord(r))
  BY <1>1, AppendFields
<1> HIDE DEF p, n
<1>4. \A d \in 1 .. Len(p) : (d \in 1 .. n /\ p[d] = h[d]) \/ (d = n + 1 /\ p[d] = x)
  BY <1>2, <1>3
<1>5. ASSUME NEW d \in 1 .. n, h[d].index = i PROVE d \in gone /\ h[d].generation < r[i].generation
  <2>1. HandleAt(r, h, gone, d)
    BY <1>1
  <2> QED
    BY <1>5, <2>1 DEF HandleAt
<1>6. ASSUME NEW d \in 1 .. n PROVE h[d] # x
  <2>1. r[i].generation \in Nat
    BY <1>2
  <2> QED
    BY <1>5, <2>1
<1>7. x \notin Elements(h)
  BY <1>6 DEF Elements, n
<1>8. HandlesTyped(s, p, gone)
  <2>1. SlotRecord(s) = SlotRecord(r) /\ HandleRecord(s) = HandleRecord(r)
    BY DEF SlotRecord, HandleRecord
  <2>2. Len(p) <= MaxAdds /\ gone \subseteq 1 .. Len(p)
    BY <1>1, <1>2, <1>3, MulticastParameters DEF n
  <2> QED
    BY <1>3, <2>1, <2>2 DEF HandlesTyped
<1>9. ASSUME NEW d \in 1 .. Len(p) PROVE HandleAt(s, p, gone, d)
  <2>1. CASE d \in 1 .. n
    <3>1. HandleAt(r, h, gone, d) /\ p[d] = h[d] /\ h[d].index \in 1 .. Len(r)
      BY <1>1, <1>2, <1>3, <2>1
    <3>2. CASE h[d].index = i
      BY <1>5, <2>1, <3>1, <3>2 DEF HandleAt
    <3>3. CASE h[d].index # i
      <4>1. s[h[d].index] = r[h[d].index]
        BY <3>1, <3>3, Zenon
      <4> QED
        BY <3>1, <4>1 DEF HandleAt
    <3> QED
      BY <3>2, <3>3
  <2>2. CASE d = n + 1
    <3>1. p[d] = x /\ d \notin gone
      BY <1>1, <1>2, <1>3, <2>2
    <3>2. r[i].generation <= n + 1
      <4>1. SlotAt(r, h, gone, i) /\ r[i].generation \in Nat
        BY <1>1, <1>2
      <4>2. CASE r[i].generation = 1
        BY <1>2, <4>2
      <4>3. CASE r[i].generation # 1
        <5>1. PICK c \in gone : h[c].index = i /\ h[c].generation = r[i].generation - 1
          BY <4>1, <4>3 DEF SlotAt
        <5>2. c \in 1 .. n /\ h[c].generation <= c
          BY <1>1, <5>1 DEF HandleAt
        <5> QED
          BY <1>2, <4>1, <5>1, <5>2
      <4> QED
        BY <4>2, <4>3
    <3>3. x.generation <= d
      BY <2>2, <3>2
    <3> QED
      BY <2>2, <3>1, <3>3 DEF HandleAt, n
  <2> QED
    BY <1>4, <2>1, <2>2
<1>10. ASSUME NEW j \in 1 .. Len(s) PROVE SlotAt(s, p, gone, j)
  <2>1. SlotAt(r, h, gone, j) /\ s[j].generation = r[j].generation
    BY <1>1
  <2>2. s[j].generation = 1 \/ \E c \in gone : p[c].index = j /\ p[c].generation = s[j].generation - 1
    BY <1>1, <1>3, <2>1, SMTT(30) DEF SlotAt
  <2>3. ASSUME s[j].active PROVE \E c \in 1 .. Len(p) : c \notin gone /\ p[c].index = j
    <3>1. CASE j = i
      <4>1. n + 1 \in 1 .. Len(p) /\ n + 1 \notin gone /\ p[n + 1].index = j
        BY <1>1, <1>2, <1>3, <3>1
      <4> QED
        BY <4>1
    <3>2. CASE j # i
      <4>1. r[j].active
        BY <2>3, <3>2
      <4>2. PICK c \in 1 .. n : c \notin gone /\ h[c].index = j
        BY <2>1, <4>1 DEF SlotAt, n
      <4>3. c \in 1 .. Len(p) /\ p[c] = h[c]
        BY <1>2, <1>3, <4>2
      <4> QED
        BY <4>2, <4>3
    <3> QED
      BY <3>1, <3>2
  <2> QED
    BY <2>2, <2>3 DEF SlotAt
<1>11. ASSUME NEW d \in 1 .. Len(p), NEW e \in 1 .. Len(p), p[d] = p[e] PROVE d = e
  BY <1>1, <1>4, <1>6, <1>11
<1> QED
  BY <1>7, <1>8, <1>9, <1>10, <1>11 DEF HandlesInv, p

(* The new entry comes last.                                               *)
LEMMA AddOrder ==
  ASSUME NEW o, NEW h, NEW gone, OrderInv(o, h, gone), Len(h) \in Nat, NEW S, h \in Seq(S),
         NEW x, x \notin Elements(h), \A c, d \in 1 .. Len(h) : h[c] = h[d] => c = d
  PROVE  OrderInv(Append(o, x), Append(h, x), gone)
<1> DEFINE p == Append(h, x)
           w == Append(o, x)
           n == Len(h)
           m == Len(o)
<1>1. /\ o \in Seq(Elements(h)) /\ m \in Nat
      /\ \A i, j \in 1 .. m, c, d \in 1 .. n : i < j /\ o[i] = h[c] /\ o[j] = h[d] => c < d
      /\ \A c \in 1 .. n : c \notin gone => \E i \in 1 .. m : o[i] = h[c]
  BY DEF OrderInv
<1>2. Len(p) = n + 1 /\ p[n + 1] = x /\ \A d \in 1 .. n : p[d] = h[d]
  BY AppendFields
<1>3. Len(w) = m + 1 /\ w[m + 1] = x /\ \A i \in 1 .. m : w[i] = o[i]
  BY <1>1, AppendFields
<1>4. Elements(p) = Elements(h) \cup {x}
  BY AppendElements
<1>5. w \in Seq(Elements(p))
  <2> DEFINE T == Elements(p)
  <2>1. Elements(h) \subseteq T /\ x \in T
    BY <1>4
  <2> HIDE DEF T
  <2>2. o \in Seq(T)
    BY <1>1, <2>1
  <2> QED
    BY <2>1, <2>2 DEF T
<1> HIDE DEF p, w
<1>6. n \in Nat
  OBVIOUS
<1>7. \A d \in 1 .. n : h[d] # x
  BY DEF Elements
<1>8. \A i \in 1 .. m : o[i] # x
  <2>1. \A i \in 1 .. m : o[i] \in Elements(h)
    BY <1>1
  <2> QED
    BY <2>1
<1> HIDE DEF n, m
<1>9. \A d \in 1 .. Len(p) : (d \in 1 .. n /\ p[d] = h[d]) \/ (d = n + 1 /\ p[d] = x)
  BY <1>2, <1>6
<1>10. \A i \in 1 .. Len(w) : (i \in 1 .. m /\ w[i] = o[i]) \/ (i = m + 1 /\ w[i] = x)
  BY <1>1, <1>3
<1>11. ASSUME NEW i \in 1 .. Len(w), NEW j \in 1 .. Len(w), NEW c \in 1 .. Len(p), NEW d \in 1 .. Len(p),
              i < j, w[i] = p[c], w[j] = p[d]
       PROVE  c < d
  <2>1. i \in 1 .. m /\ w[i] = o[i]
    BY <1>1, <1>3, <1>10, <1>11
  <2>2. c \in 1 .. n /\ o[i] = h[c]
    BY <1>8, <1>9, <1>11, <2>1, Zenon
  <2>3. CASE j \in 1 .. m /\ w[j] = o[j]
    <3>1. d \in 1 .. n /\ o[j] = h[d]
      BY <1>8, <1>9, <1>11, <2>3, Zenon
    <3> QED
      BY <1>1, <1>11, <2>1, <2>2, <2>3, <3>1
  <2>4. CASE j = m + 1 /\ w[j] = x
    <3>1. d = n + 1
      BY <1>7, <1>9, <1>11, <2>4
    <3> QED
      BY <1>6, <2>2, <3>1
  <2> QED
    BY <1>10, <2>3, <2>4
<1>12. ASSUME NEW c \in 1 .. Len(p), c \notin gone PROVE \E i \in 1 .. Len(w) : w[i] = p[c]
  <2>1. CASE c \in 1 .. n
    <3>1. PICK i \in 1 .. m : o[i] = h[c]
      BY <1>1, <1>12, <2>1
    <3>2. i \in 1 .. Len(w) /\ w[i] = o[i] /\ p[c] = h[c]
      BY <1>1, <1>2, <1>3, <2>1
    <3> QED
      BY <3>1, <3>2
  <2>2. CASE c = n + 1
    <3>1. m + 1 \in 1 .. Len(w)
      BY <1>1, <1>3
    <3> QED
      BY <1>2, <1>3, <2>2, <3>1
  <2> QED
    BY <1>9, <2>1, <2>2
<1> QED
  BY <1>5, <1>11, <1>12, Zenon DEF OrderInv, p, w

(* A broadcast in progress does not see it.                                *)
LEMMA AddWalk ==
  ASSUME NEW f, NEW o, NEW h, NEW gone, WalkInv(f, o, h, gone), o \in Seq(Elements(h)), Len(h) \in Nat,
         NEW S, h \in Seq(S), NEW x, x \notin Elements(h), f.end \in Nat, Passed(f) \in Nat, Passed(f) <= f.end
  PROVE  WalkInv(f, Append(o, x), Append(h, x), gone)
<1> DEFINE p == Append(h, x)
           w == Append(o, x)
           n == Len(h)
           m == Len(o)
<1>1. m \in Nat /\ n \in Nat /\ f.end \in 0 .. m
  BY DEF WalkInv
<1>2. Len(p) = n + 1 /\ p[n + 1] = x /\ \A d \in 1 .. n : p[d] = h[d]
  BY AppendFields
<1>3. Len(w) = m + 1 /\ w[m + 1] = x /\ \A i \in 1 .. m : w[i] = o[i]
  BY <1>1, AppendFields
<1>4. \A i \in 1 .. m : o[i] \in Elements(h) /\ o[i] # x
  OBVIOUS
<1> HIDE DEF p, w
<1>5. \A d \in 1 .. Len(p) : (d \in 1 .. n /\ p[d] = h[d]) \/ (d = n + 1 /\ p[d] = x)
  BY <1>1, <1>2
<1>6. \A i \in 1 .. f.end : i \in 1 .. m /\ w[i] = o[i] /\ w[i] # x
  BY <1>1, <1>3, <1>4
<1>7. \A i \in 1 .. Passed(f) : i \in 1 .. f.end
  OBVIOUS
<1> HIDE DEF n, m
<1>8. /\ f.at \in 1 .. f.end + 1 /\ f.due \subseteq 1 .. n
      /\ f.running => f.at <= f.end
      /\ \A i \in 1 .. f.end, c \in 1 .. n : o[i] = h[c] => c \in f.due \cup gone
      /\ \A c \in f.due : \E i \in 1 .. f.end : o[i] = h[c]
      /\ \A c \in Elements(f.called) : c \in f.due /\ \E i \in 1 .. Passed(f) : o[i] = h[c]
      /\ \A i \in 1 .. Passed(f), c \in f.due : o[i] = h[c] => c \in Elements(f.called) \cup gone
      /\ \A i, j \in 1 .. Len(f.called) : i < j => f.called[i] < f.called[j]
  BY DEF WalkInv, n
<1>9. f.end \in 0 .. Len(w) /\ f.due \subseteq 1 .. Len(p)
  <2>1. f.due \subseteq 1 .. n
    BY <1>8
  <2>2. 1 .. n \subseteq 1 .. Len(p)
    BY <1>1, <1>2
  <2>3. f.end \in 0 .. Len(w)
    BY <1>1, <1>3
  <2> QED
    BY <2>1, <2>2, <2>3
<1>10. ASSUME NEW i \in 1 .. f.end, NEW c \in 1 .. Len(p), w[i] = p[c] PROVE c \in f.due \cup gone
  <2>1. c \in 1 .. n /\ o[i] = h[c]
    BY <1>5, <1>6, <1>10
  <2> QED
    BY <1>8, <2>1
<1>11. \A c \in f.due : c \in 1 .. n /\ p[c] = h[c]
  <2>1. f.due \subseteq 1 .. n
    BY <1>8
  <2> QED
    BY <1>2, <2>1
<1>12. ASSUME NEW c \in f.due PROVE \E i \in 1 .. f.end : w[i] = p[c]
  BY <1>6, <1>8, <1>11
<1>13. ASSUME NEW c \in Elements(f.called) PROVE c \in f.due /\ \E i \in 1 .. Passed(f) : w[i] = p[c]
  BY <1>6, <1>7, <1>8, <1>11
<1>14. ASSUME NEW i \in 1 .. Passed(f), NEW c \in f.due, w[i] = p[c] PROVE c \in Elements(f.called) \cup gone
  BY <1>6, <1>7, <1>8, <1>11, <1>14
<1> QED
  BY <1>8, <1>9, <1>10, <1>12, <1>13, <1>14, Zenon DEF WalkInv, p, w

LEMMA WalkFields ==
  ASSUME NEW f, f \in FrameRecord, f.kind = "broadcast", NEW o, NEW h, NEW gone, WalkInv(f, o, h, gone),
         Len(o) \in Nat
  PROVE  /\ f.end \in 0 .. Len(o) /\ f.at \in 1 .. f.end + 1 /\ f.running \in BOOLEAN
         /\ Passed(f) \in Nat /\ Passed(f) <= f.end
         /\ f.running => f.at <= f.end
         /\ f.due \subseteq 1 .. Len(h) /\ f.called \in Seq(Nat)
         /\ f.due \subseteq Nat
         /\ f.called \in Seq(f.due)
<1>1. /\ f.end \in 0 .. Len(o) /\ f.at \in 1 .. f.end + 1
      /\ f.running => f.at <= f.end
      /\ f.due \subseteq 1 .. Len(h) /\ \A c \in Elements(f.called) : c \in f.due
  BY DEF WalkInv
<1>2. f.running \in BOOLEAN /\ f.called \in Seq(Nat) /\ f.due \subseteq Nat
  BY Zenon DEF FrameRecord
<1>3. Passed(f) \in Nat /\ Passed(f) <= f.end
  BY <1>1, <1>2 DEF Passed
<1>4. f.called \in Seq(f.due)
  <2> DEFINE q == f.called
             S == f.due
  <2>1. q \in Seq(Nat) /\ \A i \in 1 .. Len(q) : q[i] \in S
    BY <1>1, <1>2 DEF Elements
  <2> HIDE DEF q, S
  <2>2. q \in Seq(S)
    BY <2>1
  <2> QED
    BY <2>2 DEF q, S
<1> QED
  BY <1>1, <1>2, <1>3, <1>4

LEMMA AddKeeps == ASSUME MulticastInv, MD!Add PROVE MulticastInv'
<1> DEFINE r == MD!AcquiredSlots
           i == MD!AcquiredIndex
           first == MD!AcquiredFree
           n == Len(handles)
           x == MD!Handle(i, r[i].generation)
           t == r[i]
           y == BoundSlot(t, n + 1)
           s == [r EXCEPT ![i] = y]
           p == Append(handles, x)
           w == Append(order, x)
           released == SlotsReleased(frames)
<1>1. /\ HandlesInv(slots, handles, removed) /\ OrderInv(order, handles, removed)
      /\ CountsInv(activeCount, tombstones, order, handles, removed) /\ FramesInv(frames, depth)
      /\ BroadcastsInv(frames, order, handles, removed, slots) /\ RestInv(frames, retiredHead, tombstones, order)
  BY DEF MulticastInv
<1>2. /\ n < MaxAdds /\ slots' = s /\ order' = w /\ handles' = p /\ freeHead' = first
      /\ activeCount' = activeCount + 1
      /\ UNCHANGED <<retiredHead, depth, tombstones, frames, removed>>
  BY Zenon DEF MD!Add, BoundSlot
<1>3. /\ Len(slots) \in Nat /\ Len(r) \in Nat /\ Len(slots) <= Len(r) /\ i \in 1 .. Len(r)
      /\ r \in Seq(SlotRecord(r))
      /\ r[i].callback = 0 /\ ~ r[i].active /\ i \notin released
      /\ \A j \in 1 .. Len(r) : j # i => j \in 1 .. Len(slots) /\ r[j] = slots[j]
      /\ \A j \in 1 .. Len(slots) : r[j].callback = slots[j].callback
      /\ HandlesInv(r, handles, removed)
      /\ ListsInv(r, first, retiredHead, released \cup {i})
  <2> HIDE DEF s, y, p, w
  <2> QED
    BY AcquireExact
<1>4. x.index = i /\ x.generation = r[i].generation
  BY DEF MD!Handle
<1>5. t \in SlotRecord(r)
  BY <1>3
<1>6. x \in HandleRecord(r)
  BY <1>3, <1>5 DEF MD!Handle, HandleRecord, SlotRecord
<1> HIDE DEF r, i, first, x, y, released
<1>7. /\ n \in Nat /\ handles \in Seq(HandleRecord(slots)) /\ removed \subseteq 1 .. n
      /\ \A c, d \in 1 .. n : handles[c] = handles[d] => c = d
      /\ \A c \in 1 .. n : handles[c].index \in 1 .. Len(slots)
  BY <1>1, HandlesFields, Zenon DEF HandlesInv, HandlesTyped
<1>8. /\ y \in SlotRecord(r) /\ y.next = t.next /\ y.callback = n + 1 /\ y.generation = t.generation
      /\ y.active
  <2>1. n + 1 \in 0 .. MaxAdds
    BY <1>2, <1>7, MulticastParameters
  <2> HIDE DEF t
  <2> QED
    BY <1>5, <2>1, BoundRecord DEF y
<1>9. /\ Len(s) = Len(r) /\ s \in Seq(SlotRecord(r)) /\ s[i] = y
      /\ \A j \in 1 .. Len(r) : j # i => s[j] = r[j]
  BY <1>3, <1>8
<1> HIDE DEF s
<1>10. x \notin Elements(handles) /\ HandlesInv(s, p, removed)
  <2>1. s[i].active /\ s[i].generation = r[i].generation /\ s[i].callback = Len(handles) + 1
    BY <1>8, <1>9
  <2> QED
    BY <1>2, <1>3, <1>4, <1>6, <1>9, <2>1, AddHandles, Zenon
<1>11. OrderInv(w, p, removed)
  BY <1>1, <1>7, <1>10, AddOrder
<1>12. ListsInv(s, first, retiredHead, released)
  <2>1. PICK F \in Seq(1 .. Len(r)), R \in Seq(1 .. Len(r)) :
          IsStack(r, first, F) /\ IsStack(r, retiredHead, R) /\ Partition(r, F, R, released \cup {i})
    BY <1>3 DEF ListsInv
  <2>2. /\ Elements(F) \cap Elements(R) = {} /\ Elements(F) \cap (released \cup {i}) = {}
        /\ Elements(R) \cap (released \cup {i}) = {}
        /\ released \cup {i} \subseteq 1 .. Len(r)
        /\ \A j \in 1 .. Len(r) : r[j].active <=> j \notin Elements(F) \cup Elements(R) \cup (released \cup {i})
        /\ \A j \in Elements(F) : r[j].callback = 0
    BY <2>1 DEF Partition
  <2>3. Elements(F) \subseteq 1 .. Len(r) /\ Elements(R) \subseteq 1 .. Len(r)
    BY ElementsWithin
  <2>4. \A j \in Elements(F) \cup Elements(R) : s[j] = r[j]
    BY <1>9, <2>2, <2>3
  <2>5. Len(s) \in Nat /\ Len(r) <= Len(s)
    BY <1>3, <1>9
  <2>6. IsStack(s, first, F)
    BY <1>3, <2>1, <2>4, <2>5, StackStays
  <2>7. IsStack(s, retiredHead, R)
    BY <1>3, <2>1, <2>4, <2>5, StackStays
  <2>8. ASSUME NEW j \in 1 .. Len(s) PROVE s[j].active <=> j \notin Elements(F) \cup Elements(R) \cup released
    <3>1. CASE j = i
      BY <1>3, <1>8, <1>9, <2>2, <3>1
    <3>2. CASE j # i
      <4>1. s[j] = r[j] /\ j \in 1 .. Len(r)
        BY <1>9, <3>2
      <4> QED
        BY <2>2, <3>2, <4>1
    <3> QED
      BY <3>1, <3>2
  <2>9. Partition(s, F, R, released)
    <3>1. /\ Elements(F) \cap released = {} /\ Elements(R) \cap released = {} /\ released \subseteq 1 .. Len(s)
          /\ \A j \in Elements(F) : s[j].callback = 0
      BY <1>9, <2>2, <2>4
    <3> QED
      BY <2>2, <2>8, <3>1 DEF Partition
  <2> QED
    BY <1>9, <2>1, <2>6, <2>7, <2>9 DEF ListsInv
<1>13. /\ order \in Seq(Elements(handles)) /\ Len(order) \in Nat
       /\ Len(w) = Len(order) + 1 /\ \A j \in 1 .. Len(order) : w[j] = order[j]
       /\ Len(p) = n + 1
  <2>1. order \in Seq(Elements(handles)) /\ Len(order) \in Nat
    BY <1>1 DEF OrderInv
  <2>2. Len(w) = Len(order) + 1 /\ \A j \in 1 .. Len(order) : w[j] = order[j]
    BY <2>1, AppendFields
  <2>3. Len(p) = n + 1
    BY <1>7, AppendFields
  <2> QED
    BY <2>1, <2>2, <2>3
<1>14. CountsInv(activeCount + 1, tombstones, w, p, removed)
  <2>1. activeCount = Cardinality(1 .. n \ removed) /\ tombstones = Len(order) - activeCount
    BY <1>1 DEF CountsInv
  <2>2. Cardinality(1 .. (n + 1) \ removed) = Cardinality(1 .. n \ removed) + 1
    BY <1>7, RegisteredMore, Zenon
  <2>3. Cardinality(1 .. n \ removed) \in 0 .. n
    BY <1>7, RegisteredCounted, Zenon
  <2> DEFINE A == Cardinality(1 .. n \ removed)
             B == Cardinality(1 .. (n + 1) \ removed)
  <2>4. B = A + 1 /\ A \in 0 .. n /\ activeCount = A
    BY <2>1, <2>2, <2>3
  <2>5. CountsInv(activeCount + 1, tombstones, w, p, removed) <=>
          activeCount + 1 = B /\ tombstones = Len(w) - (activeCount + 1)
    BY <1>13 DEF CountsInv
  <2> HIDE DEF A, B, n, w
  <2>6. activeCount + 1 = B /\ tombstones = Len(w) - (activeCount + 1)
    BY <1>7, <1>13, <2>1, <2>4
  <2> QED
    BY <2>5, <2>6
<1>15. BroadcastsInv(frames, w, p, removed, s)
  <2> SUFFICES ASSUME NEW k \in 1 .. Len(frames), frames[k].kind = "broadcast"
               PROVE  WalkInv(frames[k], w, p, removed) /\ RunningInv(frames[k], w, s, released)
    BY DEF BroadcastsInv, released
  <2> DEFINE f == frames[k]
  <2>1. f \in FrameRecord /\ WalkInv(f, order, handles, removed) /\ RunningInv(f, order, slots, released)
    BY <1>1, FramesFields DEF BroadcastsInv, released
  <2> HIDE DEF f
  <2>2. /\ f.end \in 0 .. Len(order) /\ f.at \in 1 .. f.end + 1
        /\ f.running => f.at <= f.end
        /\ Passed(f) \in Nat /\ Passed(f) <= f.end
        /\ f.due \subseteq 1 .. n /\ f.called \in Seq(f.due)
    BY <1>13, <2>1, WalkFields DEF f
  <2>3. WalkInv(f, w, p, removed)
    <3>1. f.end \in Nat
      BY <1>13, <2>2
    <3> QED
      BY <1>7, <1>10, <1>13, <2>1, <2>2, <3>1, AddWalk
  <2>4. RunningInv(f, w, s, released)
    <3> SUFFICES ASSUME f.running
                 PROVE  /\ f.called # <<>> /\ s[w[f.at].index].callback = f.called[Len(f.called)]
                        /\ w[f.at].index \notin released
      BY Zenon DEF RunningInv
    <3> DEFINE j == order[f.at].index
               c == f.called[Len(f.called)]
    <3>1. f.called # <<>> /\ slots[j].callback = c /\ j \notin released
      BY <2>1 DEF RunningInv
    <3>2. f.at \in 1 .. Len(order) /\ w[f.at] = order[f.at]
      BY <1>13, <2>2
    <3>3. c # 0
      <4>1. c \in f.due
        BY <2>2, <3>1
      <4>2. c \in 1 .. n
        BY <2>2, <4>1
      <4> QED
        BY <1>7, <4>2
    <3>4. j \in 1 .. Len(slots)
      <4>1. order[f.at] \in Elements(handles)
        BY <1>13, <3>2
      <4> QED
        BY <1>7, <4>1 DEF Elements
    <3> HIDE DEF j, c
    <3>5. j # i
      BY <1>3, <3>1, <3>3, <3>4
    <3>6. j \in 1 .. Len(r) /\ s[j] = r[j] /\ r[j].callback = c
      BY <1>3, <1>9, <3>1, <3>4, <3>5
    <3> QED
      BY <3>1, <3>2, <3>6 DEF j, c
  <2> QED
    BY <2>3, <2>4 DEF f
<1>16. RestInv(frames, retiredHead, tombstones, w)
  <2>1. tombstones \in Int
    <3>1. activeCount = Cardinality(1 .. n \ removed) /\ tombstones = Len(order) - activeCount
      BY <1>1 DEF CountsInv
    <3>2. Cardinality(1 .. n \ removed) \in 0 .. n
      BY <1>7, RegisteredCounted, Zenon
    <3>3. activeCount \in 0 .. n
      BY <3>1, <3>2
    <3> QED
      BY <1>7, <1>13, <3>1, <3>3
  <2> QED
    BY <1>1, <1>13, <2>1 DEF RestInv
<1> HIDE DEF w, p
<1> QED
  BY <1>1, <1>2, <1>10, <1>11, <1>12, <1>14, <1>15, <1>16 DEF MulticastInv, released

-----------------------------------------------------------------------------
(* MulticastDelegate: a broadcast *)

Entered(f, c) == [f EXCEPT !.running = TRUE, !.called = Append(@, c)]

Skipping(f) == [f EXCEPT !.at = @ + 1]

Returning(f) == [f EXCEPT !.running = FALSE, !.at = @ + 1]

LEMMA BroadcastRecord ==
  ASSUME NEW f, f \in FrameRecord, f.kind = "broadcast"
  PROVE  /\ f = [g \in {"kind", "running", "at", "end", "due", "called"} |-> f[g]]
         /\ f.running \in BOOLEAN /\ f.at \in Nat /\ f.end \in Nat /\ f.due \in SUBSET Nat /\ f.called \in Seq(Nat)
         /\ f \in [kind : {"broadcast"}, running : BOOLEAN, at : Nat, end : Nat, due : SUBSET Nat, called : Seq(Nat)]
<1>1. f \in [kind : {"broadcast"}, running : BOOLEAN, at : Nat, end : Nat, due : SUBSET Nat, called : Seq(Nat)]
  BY Zenon DEF FrameRecord
<1> QED
  BY <1>1

LEMMA EnteredFields ==
  ASSUME NEW f, f \in FrameRecord, f.kind = "broadcast", NEW c \in Nat
  PROVE  LET g == Entered(f, c)
         IN  /\ g \in FrameRecord /\ g.kind = "broadcast" /\ g.running = TRUE /\ g.at = f.at /\ g.end = f.end
             /\ g.due = f.due /\ g.called = Append(f.called, c)
<1> DEFINE g == Entered(f, c)
           q == Append(f.called, c)
           e == [f EXCEPT !.running = TRUE]
<1>1. /\ f = [l \in {"kind", "running", "at", "end", "due", "called"} |-> f[l]] /\ f.called \in Seq(Nat)
      /\ f \in [kind : {"broadcast"}, running : BOOLEAN, at : Nat, end : Nat, due : SUBSET Nat, called : Seq(Nat)]
  BY BroadcastRecord
<1>2. q \in Seq(Nat)
  BY <1>1
<1>3. /\ e \in [kind : {"broadcast"}, running : BOOLEAN, at : Nat, end : Nat, due : SUBSET Nat, called : Seq(Nat)]
      /\ e.called = f.called /\ e.running = TRUE /\ e.at = f.at /\ e.end = f.end /\ e.due = f.due
      /\ e.kind = "broadcast"
  BY <1>1, Zenon
<1>4. g = [e EXCEPT !.called = q]
  BY <1>3 DEF Entered
<1> HIDE DEF g, e, q
<1>5. /\ g \in [kind : {"broadcast"}, running : BOOLEAN, at : Nat, end : Nat, due : SUBSET Nat, called : Seq(Nat)]
      /\ g.called = q /\ g.running = e.running /\ g.at = e.at /\ g.end = e.end /\ g.due = e.due
      /\ g.kind = "broadcast"
  BY <1>2, <1>3, <1>4
<1>6. g \in FrameRecord
  BY <1>5, Zenon DEF FrameRecord
<1> QED
  BY <1>3, <1>5, <1>6 DEF g, q

LEMMA SkippingFields ==
  ASSUME NEW f, f \in FrameRecord, f.kind = "broadcast"
  PROVE  LET g == Skipping(f)
         IN  /\ g \in FrameRecord /\ g.kind = "broadcast" /\ g.running = f.running /\ g.at = f.at + 1 /\ g.end = f.end
             /\ g.due = f.due /\ g.called = f.called
<1> DEFINE g == Skipping(f)
           m == f.at + 1
<1>1. /\ f \in [kind : {"broadcast"}, running : BOOLEAN, at : Nat, end : Nat, due : SUBSET Nat, called : Seq(Nat)]
      /\ m \in Nat
  BY BroadcastRecord
<1>2. g = [f EXCEPT !.at = m]
  BY DEF Skipping
<1> HIDE DEF g, m
<1>3. /\ g \in [kind : {"broadcast"}, running : BOOLEAN, at : Nat, end : Nat, due : SUBSET Nat, called : Seq(Nat)]
      /\ g.called = f.called /\ g.running = f.running /\ g.at = m /\ g.end = f.end /\ g.due = f.due
      /\ g.kind = "broadcast"
  BY <1>1, <1>2
<1>4. g \in FrameRecord
  BY <1>3, Zenon DEF FrameRecord
<1> QED
  BY <1>3, <1>4 DEF g, m

LEMMA ReturningFields ==
  ASSUME NEW f, f \in FrameRecord, f.kind = "broadcast"
  PROVE  LET g == Returning(f)
         IN  /\ g \in FrameRecord /\ g.kind = "broadcast" /\ g.running = FALSE /\ g.at = f.at + 1 /\ g.end = f.end
             /\ g.due = f.due /\ g.called = f.called
<1> DEFINE g == Returning(f)
           m == f.at + 1
           e == [f EXCEPT !.running = FALSE]
<1>1. /\ f \in [kind : {"broadcast"}, running : BOOLEAN, at : Nat, end : Nat, due : SUBSET Nat, called : Seq(Nat)]
      /\ m \in Nat
  BY BroadcastRecord
<1>2. /\ e \in [kind : {"broadcast"}, running : BOOLEAN, at : Nat, end : Nat, due : SUBSET Nat, called : Seq(Nat)]
      /\ e.called = f.called /\ e.running = FALSE /\ e.at = f.at /\ e.end = f.end /\ e.due = f.due
      /\ e.kind = "broadcast"
  BY <1>1, Zenon
<1>3. g = [e EXCEPT !.at = m]
  BY <1>2 DEF Returning
<1> HIDE DEF g, m, e
<1>4. /\ g \in [kind : {"broadcast"}, running : BOOLEAN, at : Nat, end : Nat, due : SUBSET Nat, called : Seq(Nat)]
      /\ g.called = e.called /\ g.running = e.running /\ g.at = m /\ g.end = e.end /\ g.due = e.due
      /\ g.kind = "broadcast"
  BY <1>1, <1>2, <1>3
<1>5. g \in FrameRecord
  BY <1>4, Zenon DEF FrameRecord
<1> QED
  BY <1>2, <1>4, <1>5 DEF g, m

(* The next entry's callback is entered.                                   *)
LEMMA EnterWalk ==
  ASSUME NEW s, NEW o, NEW h, NEW gone, HandlesInv(s, h, gone), OrderInv(o, h, gone),
         NEW f, f \in FrameRecord, f.kind = "broadcast", WalkInv(f, o, h, gone), ~ f.running, f.at <= f.end,
         MD!IsActive(s, o[f.at])
  PROVE  LET c == s[o[f.at].index].callback
         IN  /\ c \in 1 .. Len(h) /\ c \notin gone /\ s[o[f.at].index].active /\ o[f.at].index \in 1 .. Len(s)
             /\ WalkInv(Entered(f, c), o, h, gone)
<1> DEFINE x == o[f.at]
           g == Entered(f, s[x.index].callback)
           q == f.called
           m == Len(q)
           p == Append(q, s[x.index].callback)
<1>1. /\ o \in Seq(Elements(h)) /\ Len(o) \in Nat
      /\ \A i, j \in 1 .. Len(o), c, d \in 1 .. Len(h) : i < j /\ o[i] = h[c] /\ o[j] = h[d] => c < d
  <2>1. o \in Seq(Elements(h))
    BY DEF OrderInv
  <2>2. Len(o) \in Nat
    BY <2>1
  <2>3. \A i, j \in 1 .. Len(o), c, d \in 1 .. Len(h) : i < j /\ o[i] = h[c] /\ o[j] = h[d] => c < d
    BY Zenon DEF OrderInv
  <2> QED
    BY <2>1, <2>2, <2>3
<1>2. /\ f.end \in 0 .. Len(o) /\ f.at \in 1 .. f.end + 1 /\ Passed(f) = f.at - 1 /\ q \in Seq(Nat)
      /\ f.due \subseteq 1 .. Len(h)
  BY <1>1, WalkFields DEF Passed
<1>3. f.at \in 1 .. f.end /\ f.at \in 1 .. Len(o)
  BY <1>1, <1>2
<1>4. PICK c \in 1 .. Len(h) : x = h[c]
  <2>1. x \in Elements(h)
    BY <1>1, <1>3
  <2> QED
    BY <2>1 DEF Elements
<1>5. c \notin gone
  BY <1>4, HandleActive
<1>6. s[x.index].callback = c /\ s[x.index].active /\ x.index \in 1 .. Len(s) /\ Len(h) \in Nat
  <2>1. HandleAt(s, h, gone, c) /\ h[c].index \in 1 .. Len(s) /\ Len(h) \in Nat
    BY HandlesFields DEF HandlesInv
  <2> QED
    BY <1>4, <1>5, <2>1 DEF HandleAt
<1>7. \A d, e \in 1 .. Len(h) : h[d] = h[e] => d = e
  BY HandlesFields
<1>8. /\ g.running = TRUE /\ g.at = f.at /\ g.end = f.end /\ g.due = f.due /\ g.called = p
  <2>1. s[x.index].callback \in Nat
    BY <1>6
  <2> QED
    BY <2>1, EnteredFields, Zenon
<1>9. /\ f.running => f.at <= f.end
      /\ \A i \in 1 .. f.end, d \in 1 .. Len(h) : o[i] = h[d] => d \in f.due \cup gone
      /\ \A d \in f.due : \E i \in 1 .. f.end : o[i] = h[d]
      /\ \A d \in Elements(f.called) : d \in f.due /\ \E i \in 1 .. Passed(f) : o[i] = h[d]
      /\ \A i \in 1 .. Passed(f), d \in f.due : o[i] = h[d] => d \in Elements(f.called) \cup gone
      /\ \A i, j \in 1 .. Len(f.called) : i < j => f.called[i] < f.called[j]
  BY Zenon DEF WalkInv
<1>10. m \in Nat /\ Len(p) = m + 1 /\ p[m + 1] = c /\ \A i \in 1 .. m : p[i] = q[i]
  <2>1. p = Append(q, c)
    BY <1>6
  <2> HIDE DEF p, q
  <2> QED
    BY <1>2, <2>1, AppendFields
<1>11. Elements(p) = Elements(q) \cup {c}
  BY <1>2, <1>6, AppendElements
<1> HIDE DEF g, p, x, q, m
<1>12. Passed(g) = f.at
  BY <1>8 DEF Passed
<1>13. \A i \in 1 .. f.at : i \in 1 .. Passed(f) \/ i = f.at
  BY <1>2, <1>3
<1>14. c \in f.due
  BY <1>3, <1>4, <1>5, <1>9 DEF x
<1>15. ASSUME NEW d \in Elements(q) PROVE d \in f.due /\ d < c /\ \E i \in 1 .. f.at : o[i] = h[d]
  <2>1. d \in f.due /\ \E i \in 1 .. Passed(f) : o[i] = h[d]
    BY <1>9 DEF q
  <2>2. PICK i \in 1 .. Passed(f) : o[i] = h[d]
    BY <2>1
  <2>3. i \in 1 .. Len(o) /\ i < f.at /\ i \in 1 .. f.at
    BY <1>1, <1>2, <1>3
  <2>4. d \in 1 .. Len(h)
    BY <1>2, <2>1
  <2>5. d < c
    BY <1>1, <1>3, <1>4, <2>2, <2>3, <2>4 DEF x
  <2> QED
    BY <2>1, <2>2, <2>3, <2>5
<1>16. ASSUME NEW d \in Elements(p) PROVE d \in f.due /\ \E i \in 1 .. f.at : o[i] = h[d]
  <2>1. CASE d = c
    <3>1. f.at \in 1 .. f.at
      BY <1>3
    <3> QED
      BY <1>4, <1>14, <2>1, <3>1 DEF x
  <2>2. CASE d # c
    BY <1>11, <1>15, <2>2
  <2> QED
    BY <2>1, <2>2
<1>17. ASSUME NEW i \in 1 .. f.at, NEW d \in f.due, o[i] = h[d] PROVE d \in Elements(p) \cup gone
  <2>1. CASE i \in 1 .. Passed(f)
    BY <1>9, <1>11, <1>17, <2>1 DEF q
  <2>2. CASE i = f.at
    <3>1. d \in 1 .. Len(h) /\ h[d] = h[c]
      BY <1>2, <1>4, <1>17, <2>2 DEF x
    <3> QED
      BY <1>7, <1>11, <3>1
  <2> QED
    BY <1>13, <2>1, <2>2
<1>18. ASSUME NEW i \in 1 .. Len(p), NEW j \in 1 .. Len(p), i < j PROVE p[i] < p[j]
  <2>1. i \in 1 .. m /\ p[i] = q[i] /\ q[i] \in Elements(q)
    BY <1>10, <1>18 DEF Elements, m
  <2>2. CASE j \in 1 .. m
    BY <1>9, <1>10, <1>18, <2>1, <2>2 DEF q, m
  <2>3. CASE j = m + 1
    BY <1>10, <1>15, <2>1, <2>3
  <2> QED
    BY <1>10, <2>2, <2>3
<1>19. WalkInv(g, o, h, gone)
  BY <1>2, <1>8, <1>9, <1>12, <1>16, <1>17, <1>18 DEF WalkInv
<1> QED
  BY <1>5, <1>6, <1>19 DEF g, x

(* An entry that is not active is passed over.                             *)
LEMMA SkipWalk ==
  ASSUME NEW s, NEW o, NEW h, NEW gone, HandlesInv(s, h, gone), OrderInv(o, h, gone),
         NEW f, f \in FrameRecord, f.kind = "broadcast", WalkInv(f, o, h, gone), ~ f.running, f.at <= f.end,
         ~ MD!IsActive(s, o[f.at])
  PROVE  WalkInv(Skipping(f), o, h, gone)
<1> DEFINE g == Skipping(f)
<1>1. /\ o \in Seq(Elements(h)) /\ Len(o) \in Nat
  BY DEF OrderInv
<1>2. /\ f.end \in 0 .. Len(o) /\ f.at \in 1 .. f.end + 1 /\ Passed(f) = f.at - 1
      /\ f.due \subseteq 1 .. Len(h)
  BY <1>1, WalkFields DEF Passed
<1>3. f.at \in 1 .. f.end /\ f.at + 1 \in 1 .. f.end + 1
  BY <1>1, <1>2
<1>4. g.running = f.running /\ g.at = f.at + 1 /\ g.end = f.end /\ g.due = f.due /\ g.called = f.called
  BY SkippingFields
<1> HIDE DEF g
<1>5. /\ \A i \in 1 .. f.end, d \in 1 .. Len(h) : o[i] = h[d] => d \in f.due \cup gone
      /\ \A d \in f.due : \E i \in 1 .. f.end : o[i] = h[d]
      /\ \A d \in Elements(f.called) : d \in f.due /\ \E i \in 1 .. Passed(f) : o[i] = h[d]
      /\ \A i \in 1 .. Passed(f), d \in f.due : o[i] = h[d] => d \in Elements(f.called) \cup gone
      /\ \A i, j \in 1 .. Len(f.called) : i < j => f.called[i] < f.called[j]
  BY DEF WalkInv
<1>6. Passed(g) = f.at
  BY <1>2, <1>4 DEF Passed
<1>7. \A i \in 1 .. f.at : i \in 1 .. Passed(f) \/ i = f.at
  BY <1>2, <1>3
<1>8. \A i \in 1 .. Passed(f) : i \in 1 .. f.at
  BY <1>2, <1>3
<1>9. ASSUME NEW i \in 1 .. f.at, NEW d \in f.due, o[i] = h[d] PROVE d \in Elements(f.called) \cup gone
  <2>1. CASE i \in 1 .. Passed(f)
    BY <1>5, <1>9, <2>1
  <2>2. CASE i = f.at
    <3>1. d \in 1 .. Len(h) /\ ~ MD!IsActive(s, h[d])
      BY <1>2, <1>9, <2>2
    <3> QED
      BY <3>1, HandleActive
  <2> QED
    BY <1>7, <2>1, <2>2
<1>10. ASSUME NEW d \in Elements(f.called) PROVE d \in f.due /\ \E i \in 1 .. f.at : o[i] = h[d]
  BY <1>5, <1>8
<1> QED
  BY <1>2, <1>3, <1>4, <1>5, <1>6, <1>9, <1>10 DEF WalkInv, g

(* A callback that returns is passed.                                      *)
LEMMA ReturnWalk ==
  ASSUME NEW o, NEW h, NEW gone, Len(o) \in Nat, NEW f, f \in FrameRecord, f.kind = "broadcast",
         WalkInv(f, o, h, gone), f.running
  PROVE  WalkInv(Returning(f), o, h, gone)
<1> DEFINE g == Returning(f)
<1>1. /\ f.end \in 0 .. Len(o) /\ f.at \in 1 .. f.end + 1 /\ Passed(f) = f.at /\ f.at <= f.end
  BY WalkFields DEF Passed
<1>2. f.at + 1 \in 1 .. f.end + 1
  BY <1>1
<1>3. g.running = FALSE /\ g.at = f.at + 1 /\ g.end = f.end /\ g.due = f.due /\ g.called = f.called
  BY ReturningFields, Zenon
<1> HIDE DEF g
<1>4. Passed(g) = Passed(f)
  BY <1>1, <1>3 DEF Passed
<1> QED
  BY <1>1, <1>2, <1>3, <1>4 DEF WalkInv, g

LEMMA BroadcastsFields ==
  ASSUME MulticastInv
  PROVE  /\ HandlesInv(slots, handles, removed) /\ OrderInv(order, handles, removed)
         /\ ListsInv(slots, freeHead, retiredHead, SlotsReleased(frames))
         /\ CountsInv(activeCount, tombstones, order, handles, removed) /\ FramesInv(frames, depth)
         /\ order \in Seq(Elements(handles)) /\ Len(order) \in Nat
         /\ \A k \in 1 .. Len(frames) : frames[k].kind = "broadcast" =>
              /\ frames[k] \in FrameRecord /\ WalkInv(frames[k], order, handles, removed)
              /\ RunningInv(frames[k], order, slots, SlotsReleased(frames))
<1>1. /\ HandlesInv(slots, handles, removed) /\ OrderInv(order, handles, removed)
      /\ ListsInv(slots, freeHead, retiredHead, SlotsReleased(frames))
      /\ CountsInv(activeCount, tombstones, order, handles, removed) /\ FramesInv(frames, depth)
      /\ BroadcastsInv(frames, order, handles, removed, slots)
  BY DEF MulticastInv
<1>2. order \in Seq(Elements(handles)) /\ Len(order) \in Nat
  BY <1>1 DEF OrderInv
<1>3. \A k \in 1 .. Len(frames) : frames[k] \in FrameRecord
  BY <1>1, FramesFields
<1> QED
  BY <1>1, <1>2, <1>3 DEF BroadcastsInv

(* The innermost broadcast goes on to x.                                   *)
LEMMA TopKeeps ==
  ASSUME MulticastInv, frames # <<>>, MD!Last(frames).kind = "broadcast",
         NEW x \in FrameRecord, x.kind = "broadcast",
         WalkInv(x, order, handles, removed), RunningInv(x, order, slots, SlotsReleased(frames)),
         frames' = [frames EXCEPT ![Len(frames)] = x],
         UNCHANGED <<slots, order, freeHead, retiredHead, activeCount, depth, tombstones, handles, removed>>
  PROVE  MulticastInv'
<1> DEFINE r == [frames EXCEPT ![Len(frames)] = x]
           n == Len(frames)
<1>1. /\ HandlesInv(slots, handles, removed) /\ OrderInv(order, handles, removed)
      /\ ListsInv(slots, freeHead, retiredHead, SlotsReleased(frames))
      /\ CountsInv(activeCount, tombstones, order, handles, removed) /\ FramesInv(frames, depth)
      /\ \A k \in 1 .. n : frames[k].kind = "broadcast" =>
           /\ WalkInv(frames[k], order, handles, removed)
           /\ RunningInv(frames[k], order, slots, SlotsReleased(frames))
  BY BroadcastsFields
<1>2. /\ FramesInv(r, depth) /\ SlotsReleased(r) = SlotsReleased(frames)
      /\ n \in Nat \ {0} /\ Len(r) = n /\ r[n] = x /\ \A k \in 1 .. n : k # n => r[k] = frames[k]
  BY <1>1, TopBroadcast, Zenon
<1> HIDE DEF r
<1>3. BroadcastsInv(r, order, handles, removed, slots)
  <2> SUFFICES ASSUME NEW k \in 1 .. n, r[k].kind = "broadcast"
               PROVE  WalkInv(r[k], order, handles, removed) /\ RunningInv(r[k], order, slots, SlotsReleased(frames))
    BY <1>2 DEF BroadcastsInv
  <2>1. CASE k = n
    BY <1>2, <2>1
  <2>2. CASE k # n
    BY <1>1, <1>2, <2>2
  <2> QED
    BY <2>1, <2>2
<1>4. RestInv(r, retiredHead, tombstones, order)
  BY <1>2 DEF RestInv
<1>5. frames' = r
  BY DEF r
<1> QED
  BY <1>1, <1>2, <1>3, <1>4, <1>5, Zenon DEF MulticastInv

LEMMA BroadcastBeginKeeps == ASSUME MulticastInv, MD!BroadcastBegin PROVE MulticastInv'
<1> DEFINE x == [kind |-> "broadcast", running |-> FALSE, at |-> 1, end |-> Len(order),
                 due |-> 1 .. Len(handles) \ removed, called |-> <<>>]
           r == Append(frames, x)
           n == Len(frames)
           due0 == 1 .. Len(handles) \ removed
<1>1. /\ HandlesInv(slots, handles, removed) /\ OrderInv(order, handles, removed)
      /\ ListsInv(slots, freeHead, retiredHead, SlotsReleased(frames))
      /\ CountsInv(activeCount, tombstones, order, handles, removed) /\ FramesInv(frames, depth)
      /\ \A k \in 1 .. n : frames[k].kind = "broadcast" =>
           /\ WalkInv(frames[k], order, handles, removed)
           /\ RunningInv(frames[k], order, slots, SlotsReleased(frames))
  BY BroadcastsFields
<1>2. /\ n < MaxFrames /\ depth' = depth + 1 /\ frames' = r
      /\ UNCHANGED <<slots, order, freeHead, retiredHead, activeCount, tombstones, handles, removed>>
  BY DEF MD!BroadcastBegin, MD!Registered
<1>3. Len(order) \in Nat /\ Len(handles) \in Nat
  BY BroadcastsFields, HandlesFields, <1>1
<1>4. x \in FrameRecord
  <2>1. 1 .. Len(handles) \ removed \in SUBSET Nat /\ <<>> \in Seq(Nat) /\ 1 \in Nat
    BY <1>3
  <2> QED
    BY <1>3, <2>1, Zenon DEF FrameRecord
<1>5. /\ x.kind = "broadcast" /\ x.running = FALSE /\ x.at = 1 /\ x.end = Len(order)
      /\ x.due = 1 .. Len(handles) \ removed /\ x.called = <<>>
  OBVIOUS
<1> HIDE DEF x
<1>6. WalkInv(x, order, handles, removed)
  <2>1. Passed(x) = 0 /\ 1 .. 0 = {} /\ Elements(x.called) = {} /\ Len(x.called) = 0
    BY <1>5 DEF Passed, Elements
  <2>2. \A c \in x.due : \E i \in 1 .. Len(order) : order[i] = handles[c]
    BY <1>1, <1>5 DEF OrderInv
  <2>3. \A i \in 1 .. Len(order), c \in 1 .. Len(handles) : order[i] = handles[c] => c \in x.due \cup removed
    BY <1>5
  <2>4. x.end \in 0 .. Len(order) /\ x.at \in 1 .. x.end + 1 /\ x.due \subseteq 1 .. Len(handles)
    BY <1>3, <1>5
  <2> QED
    BY <1>5, <2>1, <2>2, <2>3, <2>4 DEF WalkInv
<1>7. RunningInv(x, order, slots, SlotsReleased(frames))
  BY <1>5 DEF RunningInv
<1>8. /\ FramesInv(r, depth + 1) /\ SlotsReleased(r) = SlotsReleased(frames)
      /\ n \in Nat /\ Len(r) = n + 1 /\ r[n + 1] = x /\ \A k \in 1 .. n : r[k] = frames[k]
  BY <1>1, <1>2, <1>4, <1>5, PushBroadcast
<1> HIDE DEF r
<1>9. BroadcastsInv(r, order, handles, removed, slots)
  <2> SUFFICES ASSUME NEW k \in 1 .. Len(r), r[k].kind = "broadcast"
               PROVE  WalkInv(r[k], order, handles, removed) /\ RunningInv(r[k], order, slots, SlotsReleased(frames))
    BY <1>8 DEF BroadcastsInv
  <2>1. CASE k = n + 1
    BY <1>6, <1>7, <1>8, <2>1
  <2>2. CASE k # n + 1
    <3>1. k \in 1 .. n
      BY <1>8, <2>2
    <3> QED
      BY <1>1, <1>8, <3>1
  <2> QED
    BY <2>1, <2>2
<1>10. RestInv(r, retiredHead, tombstones, order)
  <2>1. r # <<>>
    BY <1>8
  <2> QED
    BY <2>1 DEF RestInv
<1> QED
  BY <1>1, <1>2, <1>8, <1>9, <1>10 DEF MulticastInv

(* What the innermost broadcast is.                                        *)
LEMMA TopFields ==
  ASSUME MulticastInv, frames # <<>>, MD!Last(frames).kind = "broadcast"
  PROVE  LET f == MD!Last(frames)
         IN  /\ Len(frames) \in 1 .. Len(frames) /\ f = frames[Len(frames)] /\ f \in FrameRecord
             /\ WalkInv(f, order, handles, removed) /\ RunningInv(f, order, slots, SlotsReleased(frames))
             /\ f.running \in BOOLEAN /\ f.at \in Nat /\ f.end \in Nat
<1>1. FramesInv(frames, depth)
  BY BroadcastsFields
<1>2. frames \in Seq(FrameRecord)
  BY <1>1, FramesFields
<1>3. MD!Last(frames) = frames[Len(frames)] /\ Len(frames) \in Nat \ {0}
  BY <1>2, FrontFields
<1>4. Len(frames) \in 1 .. Len(frames)
  BY <1>3
<1>5. /\ frames[Len(frames)] \in FrameRecord /\ WalkInv(frames[Len(frames)], order, handles, removed)
      /\ RunningInv(frames[Len(frames)], order, slots, SlotsReleased(frames))
  BY <1>3, <1>4, BroadcastsFields
<1>6. LET f == frames[Len(frames)] IN f.running \in BOOLEAN /\ f.at \in Nat /\ f.end \in Nat
  <2> DEFINE f == frames[Len(frames)]
  <2>1. f \in FrameRecord /\ f.kind = "broadcast"
    BY <1>3, <1>5
  <2> HIDE DEF f
  <2>2. f.running \in BOOLEAN /\ f.at \in Nat /\ f.end \in Nat
    BY <2>1, BroadcastRecord
  <2> QED
    BY <2>2 DEF f
<1> QED
  BY <1>3, <1>4, <1>5, <1>6

LEMMA BroadcastStepKeeps == ASSUME MulticastInv, MD!BroadcastStep PROVE MulticastInv'
<1> DEFINE f == MD!Last(frames)
           x == order[f.at]
           c == slots[x.index].callback
<1>1. /\ frames # <<>> /\ f.kind = "broadcast" /\ ~ f.running /\ f.at <= f.end
      /\ frames' = [frames EXCEPT ![Len(frames)] = IF MD!IsActive(slots, x) THEN Entered(f, c) ELSE Skipping(f)]
      /\ UNCHANGED <<slots, order, freeHead, retiredHead, activeCount, depth, tombstones, handles, removed>>
  BY DEF MD!BroadcastStep, MD!Looping, MD!BroadcastFrame, MD!LastEntry, MD!SetTop, MD!list, Entered, Skipping
<1> HIDE DEF f
<1>2. f \in FrameRecord /\ WalkInv(f, order, handles, removed)
  BY <1>1, TopFields DEF f
<1>3. /\ HandlesInv(slots, handles, removed) /\ OrderInv(order, handles, removed)
      /\ ListsInv(slots, freeHead, retiredHead, SlotsReleased(frames))
  BY BroadcastsFields
<1>4. MD!Last(frames).kind = "broadcast"
  BY <1>1 DEF f
<1>5. CASE MD!IsActive(slots, x)
  <2> DEFINE g == Entered(f, c)
  <2>1. /\ c \in 1 .. Len(handles) /\ slots[x.index].active /\ x.index \in 1 .. Len(slots)
        /\ WalkInv(g, order, handles, removed)
    BY <1>1, <1>2, <1>3, <1>5, EnterWalk
  <2>2. c \in Nat /\ f.called \in Seq(Nat)
    <3>1. Len(handles) \in Nat
      BY <1>3, HandlesFields
    <3>2. f.called \in Seq(Nat)
      BY <1>1, <1>2, BroadcastRecord
    <3> QED
      BY <2>1, <3>1, <3>2
  <2> HIDE DEF c
  <2>3. g \in FrameRecord /\ g.kind = "broadcast" /\ g.at = f.at /\ g.called = Append(f.called, c)
    BY <1>1, <1>2, <2>2, EnteredFields, Zenon
  <2> HIDE DEF g
  <2>4. RunningInv(g, order, slots, SlotsReleased(frames))
    <3>1. g.called # <<>> /\ g.called[Len(g.called)] = c
      BY <2>2, <2>3, SMTT(30)
    <3>2. x.index \notin SlotsReleased(frames)
      <4>1. PICK F \in Seq(1 .. Len(slots)), R \in Seq(1 .. Len(slots)) :
              Partition(slots, F, R, SlotsReleased(frames))
        BY <1>3 DEF ListsInv
      <4> QED
        BY <2>1, <4>1 DEF Partition
    <3> QED
      BY <2>3, <3>1, <3>2 DEF RunningInv, c
  <2>5. frames' = [frames EXCEPT ![Len(frames)] = g]
    BY <1>1, <1>5 DEF g, c
  <2> QED
    BY <1>1, <1>4, <2>1, <2>3, <2>4, <2>5, TopKeeps, Zenon
<1>6. CASE ~ MD!IsActive(slots, x)
  <2> DEFINE g == Skipping(f)
  <2>1. WalkInv(g, order, handles, removed)
    BY <1>1, <1>2, <1>3, <1>6, SkipWalk
  <2>2. g \in FrameRecord /\ g.kind = "broadcast" /\ g.running = f.running
    BY <1>1, <1>2, SkippingFields
  <2>3. frames' = [frames EXCEPT ![Len(frames)] = g]
    BY <1>1, <1>6
  <2> HIDE DEF g
  <2>4. RunningInv(g, order, slots, SlotsReleased(frames))
    BY <1>1, <2>2 DEF RunningInv
  <2> QED
    BY <1>1, <1>4, <2>1, <2>2, <2>3, <2>4, TopKeeps, Zenon
<1> QED
  BY <1>5, <1>6

LEMMA CallbackReturnsKeeps == ASSUME MulticastInv, MD!CallbackReturns PROVE MulticastInv'
<1> DEFINE f == MD!Last(frames)
           g == Returning(f)
<1>1. /\ frames # <<>> /\ f.kind = "broadcast" /\ f.running
      /\ frames' = [frames EXCEPT ![Len(frames)] = g]
      /\ UNCHANGED <<slots, order, freeHead, retiredHead, activeCount, depth, tombstones, handles, removed>>
  BY DEF MD!CallbackReturns, MD!BroadcastFrame, MD!SetTop, MD!list, Returning
<1> HIDE DEF f
<1>2. f \in FrameRecord /\ WalkInv(f, order, handles, removed) /\ Len(order) \in Nat
  BY <1>1, TopFields, BroadcastsFields DEF f
<1>3. WalkInv(g, order, handles, removed)
  BY <1>1, <1>2, ReturnWalk
<1>4. g \in FrameRecord /\ g.kind = "broadcast" /\ g.running = FALSE
  BY <1>1, <1>2, ReturningFields, Zenon
<1> HIDE DEF g
<1>5. RunningInv(g, order, slots, SlotsReleased(frames))
  BY <1>4 DEF RunningInv
<1>6. MD!Last(frames).kind = "broadcast"
  BY <1>1 DEF f
<1> QED
  BY <1>1, <1>3, <1>4, <1>5, <1>6, TopKeeps, Zenon

(* The outermost scope releases what was retired.                          *)
LEMMA LeaveScopeKeeps ==
  ASSUME MulticastInv, frames # <<>>, MD!Last(frames).kind = "broadcast", MD!LeaveScope
  PROVE  MulticastInv'
<1> DEFINE rest == MD!Front(frames)
           n == Len(frames)
<1>1. /\ HandlesInv(slots, handles, removed) /\ OrderInv(order, handles, removed)
      /\ ListsInv(slots, freeHead, retiredHead, SlotsReleased(frames))
      /\ CountsInv(activeCount, tombstones, order, handles, removed) /\ FramesInv(frames, depth)
      /\ \A k \in 1 .. n : frames[k].kind = "broadcast" =>
           /\ WalkInv(frames[k], order, handles, removed)
           /\ RunningInv(frames[k], order, slots, SlotsReleased(frames))
  BY BroadcastsFields
<1>2. /\ depth' = depth - 1 /\ handles' = handles /\ removed' = removed
      /\ depth = 1 => MD!Finalize(slots, order, freeHead, retiredHead, activeCount, tombstones, rest)
      /\ depth # 1 => frames' = rest /\ UNCHANGED <<slots, order, freeHead, retiredHead, activeCount, tombstones>>
  BY DEF MD!LeaveScope
<1>3. /\ depth \in Nat /\ depth - 1 \in Nat /\ FramesInv(rest, depth - 1) /\ Len(rest) < MaxFrames
      /\ SlotsReleased(frames) = SlotsReleased(rest)
      /\ n \in Nat \ {0} /\ Len(rest) = n - 1 /\ \A k \in 1 .. Len(rest) : rest[k] = frames[k]
  BY <1>1, PopBroadcast, Zenon
<1> HIDE DEF rest
<1>4. CASE depth = 1
  <2>1. FramesInv(rest, 0) /\ depth' = 0
    BY <1>2, <1>3, <1>4
  <2>2. DelegateInv(slots, order, freeHead, retiredHead, activeCount, tombstones, handles', removed', SlotsReleased(rest))
    BY <1>1, <1>2, <1>3 DEF DelegateInv
  <2> QED
    BY <1>2, <1>3, <1>4, <2>1, <2>2, FinalizeEnds
<1>5. CASE depth # 1
  <2>1. BroadcastsInv(rest, order, handles, removed, slots)
    <3>1. \A k \in 1 .. Len(rest) : k \in 1 .. n /\ rest[k] = frames[k]
      BY <1>3
    <3> QED
      BY <1>1, <1>3, <3>1 DEF BroadcastsInv
  <2>2. rest # <<>>
    <3>1. depth - 1 \in 0 .. Len(rest)
      BY <1>3, FramesFields
    <3> QED
      BY <1>3, <1>5, <3>1
  <2>3. RestInv(rest, retiredHead, tombstones, order)
    BY <2>2 DEF RestInv
  <2> QED
    BY <1>1, <1>2, <1>3, <1>5, <2>1, <2>3 DEF MulticastInv
<1> QED
  BY <1>4, <1>5

-----------------------------------------------------------------------------
(* MulticastDelegate: the invariant holds throughout *)

LEMMA MulticastInit == ASSUME MD!Init PROVE MulticastInv
<1>1. /\ slots = <<>> /\ order = <<>> /\ freeHead = 0 /\ retiredHead = 0 /\ activeCount = 0 /\ depth = 0
      /\ tombstones = 0 /\ frames = <<>> /\ handles = <<>> /\ removed = {}
  BY DEF MD!Init, MD!None
<1>2. Len(slots) = 0 /\ Len(order) = 0 /\ Len(frames) = 0 /\ Len(handles) = 0 /\ 1 .. 0 = {}
  BY <1>1
<1>3. \A S : <<>> \in Seq(S)
  OBVIOUS
<1>4. HandlesInv(slots, handles, removed)
  <2>1. HandlesTyped(slots, handles, removed)
    BY <1>1, <1>2, <1>3, MulticastParameters DEF HandlesTyped
  <2> QED
    BY <1>2, <2>1 DEF HandlesInv
<1>5. SlotsReleased(frames) = {}
  BY <1>2 DEF SlotsReleased
<1>6. ListsInv(slots, freeHead, retiredHead, SlotsReleased(frames))
  <2> DEFINE F == <<>>
  <2>1. F \in Seq(1 .. Len(slots)) /\ Len(F) = 0 /\ Elements(F) = {}
    BY <1>2 DEF Elements
  <2>2. IsStack(slots, 0, F)
    BY <1>2, <2>1 DEF IsStack
  <2>3. Partition(slots, F, F, {})
    BY <1>2, <2>1 DEF Partition
  <2> HIDE DEF F
  <2> QED
    BY <1>1, <1>5, <2>1, <2>2, <2>3, Zenon DEF ListsInv
<1>7. OrderInv(order, handles, removed)
  <2>1. order \in Seq(Elements(handles))
    BY <1>1, <1>3
  <2> QED
    BY <1>2, <2>1 DEF OrderInv
<1>8. CountsInv(activeCount, tombstones, order, handles, removed)
  <2>1. Cardinality({}) = 0
    BY FS_EmptySet
  <2>2. 1 .. Len(handles) \ removed = {}
    BY <1>2
  <2> QED
    BY <1>1, <1>2, <2>1, <2>2 DEF CountsInv
<1>9. FramesInv(frames, depth)
  <2>1. frames \in Seq(FrameRecord)
    BY <1>1, <1>3
  <2> QED
    BY <1>1, <1>2, <2>1, MulticastParameters DEF FramesInv
<1>10. BroadcastsInv(frames, order, handles, removed, slots)
  BY <1>2 DEF BroadcastsInv
<1>11. RestInv(frames, retiredHead, tombstones, order)
  BY <1>1, MulticastParameters DEF RestInv
<1> QED
  BY <1>4, <1>6, <1>7, <1>8, <1>9, <1>10, <1>11 DEF MulticastInv

LEMMA MulticastNext == ASSUME GenerationsLast, MulticastInv, MD!Next PROVE MulticastInv'
<1>1. CASE MD!Add
  BY <1>1, AddKeeps
<1>2. CASE MD!AddFails
  BY <1>2, AddFailsKeeps
<1>3. ASSUME NEW c \in 1 .. Len(handles), MD!RemoveCallback(c) PROVE MulticastInv'
  BY <1>3, RemoveKeeps
<1>4. CASE MD!Clear
  BY <1>4, ClearKeeps
<1>5. CASE MD!BroadcastBegin
  BY <1>5, BroadcastBeginKeeps
<1>6. CASE MD!BroadcastStep
  BY <1>6, BroadcastStepKeeps
<1>7. CASE MD!CallbackReturns
  BY <1>7, CallbackReturnsKeeps
<1>8. CASE MD!CallbackThrows \/ MD!BroadcastEnd
  <2>1. frames # <<>> /\ MD!Last(frames).kind = "broadcast" /\ MD!LeaveScope
    BY <1>8 DEF MD!CallbackThrows, MD!BroadcastEnd, MD!Looping, MD!BroadcastFrame
  <2> QED
    BY <2>1, LeaveScopeKeeps
<1>9. CASE MD!Released
  BY <1>9, ReleasedKeeps
<1> QED
  BY <1>1, <1>2, <1>3, <1>4, <1>5, <1>6, <1>7, <1>8, <1>9 DEF MD!Next

-----------------------------------------------------------------------------
(* MulticastDelegate: what the invariant says of the state *)

LEMMA MulticastTyped == ASSUME MulticastInv PROVE MD!TypeOK
<1> DEFINE n == Len(slots)
           m == Len(order)
           l == Len(handles)
<1>1. /\ HandlesInv(slots, handles, removed) /\ OrderInv(order, handles, removed)
      /\ ListsInv(slots, freeHead, retiredHead, SlotsReleased(frames))
      /\ CountsInv(activeCount, tombstones, order, handles, removed) /\ FramesInv(frames, depth)
      /\ order \in Seq(Elements(handles)) /\ m \in Nat
  BY BroadcastsFields
<1>2. /\ slots \in Seq(SlotRecord(slots)) /\ n \in Nat /\ l \in Nat /\ removed \subseteq 1 .. l
      /\ handles \in Seq(HandleRecord(slots)) /\ DOMAIN slots = 1 .. n
  <2>1. handles \in Seq(HandleRecord(slots))
    BY <1>1 DEF HandlesInv, HandlesTyped
  <2> QED
    BY <1>1, <2>1, HandlesFields
<1>3. slots \in Seq([callback : 0 .. MaxAdds, generation : 1 .. LastGeneration, next : 0 .. n, active : BOOLEAN])
  BY <1>2 DEF SlotRecord
<1>4. handles \in Seq([index : MD!Slots, generation : 1 .. LastGeneration])
  BY <1>2 DEF HandleRecord, MD!Slots
<1>5. order \in Seq([index : MD!Slots, generation : 1 .. LastGeneration])
  <2> DEFINE H == [index : MD!Slots, generation : 1 .. LastGeneration]
  <2>1. Elements(handles) \subseteq H
    BY <1>4, ElementsWithin, Zenon
  <2> HIDE DEF H
  <2>2. order \in Seq(H)
    BY <1>1, <2>1
  <2> QED
    BY <2>2 DEF H
<1>6. freeHead \in 0 .. n /\ retiredHead \in 0 .. n
  BY <1>1, <1>2, HeadsTyped
<1>7. activeCount \in 0 .. n
  <2> DEFINE A == {i \in 1 .. n : slots[i].active}
  <2>1. activeCount = Cardinality(A)
    BY <1>1, ActiveSlotsAreRegistered DEF CountsInv
  <2>2. A \subseteq 1 .. n /\ IsFiniteSet(1 .. n) /\ Cardinality(1 .. n) = n
    BY <1>2, NumbersUpTo
  <2> HIDE DEF A, n
  <2>3. IsFiniteSet(A) /\ Cardinality(A) <= n
    BY <2>2, FS_Subset, Zenon
  <2>4. Cardinality(A) \in Nat
    BY <2>3, FS_CardinalityType
  <2> QED
    BY <1>2, <2>1, <2>3, <2>4
<1>8. depth \in 0 .. MaxFrames
  <2>1. Len(frames) \in Nat /\ Len(frames) <= MaxFrames /\ depth \in 0 .. Len(frames)
    BY <1>1, FramesFields
  <2> QED
    BY <2>1, MulticastParameters
<1>9. tombstones \in 0 .. m
  <2>1. Len(MD!Live(slots, order)) = Cardinality(1 .. l \ removed) /\ Len(MD!Live(slots, order)) <= m
    BY <1>1, LiveOrder
  <2>2. tombstones = m - activeCount /\ activeCount = Cardinality(1 .. l \ removed)
    BY <1>1 DEF CountsInv
  <2>3. activeCount \in Nat /\ activeCount <= m
    BY <1>2, <1>7, <2>1, <2>2
  <2> QED
    BY <1>1, <2>2, <2>3
<1>10. frames \in Seq(MD!Frame)
  <2>1. frames \in Seq(FrameRecord)
    BY <1>1, FramesFields
  <2>2. ASSUME NEW k \in 1 .. Len(frames) PROVE frames[k] \in MD!Frame
    <3> DEFINE f == frames[k]
    <3>1. f \in FrameRecord
      BY <2>1
    <3>2. CASE f \in [kind : {"release"}, slot : Nat, running : {TRUE}]
      <4>1. f.slot \in SlotsReleased(frames)
        BY <3>2, Zenon DEF SlotsReleased
      <4>2. SlotsReleased(frames) \subseteq 1 .. n
        BY <1>1 DEF ListsInv, Partition
      <4>3. f.slot \in MD!Slots
        BY <1>2, <4>1, <4>2 DEF MD!Slots
      <4> HIDE DEF f
      <4>4. f \in [kind : {"release"}, slot : MD!Slots, running : {TRUE}]
        BY <3>2, <4>3, Zenon
      <4> QED
        BY <4>4, Zenon DEF MD!Frame, f
    <3>3. CASE f \in [kind : {"broadcast"}, running : BOOLEAN, at : Nat, end : Nat, due : SUBSET Nat, called : Seq(Nat)]
      <4>1. f.kind = "broadcast"
        BY <3>3
      <4>2. WalkInv(f, order, handles, removed)
        BY <4>1, BroadcastsFields
      <4> HIDE DEF f
      <4>3. /\ f.end \in 0 .. m /\ f.at \in 1 .. f.end + 1 /\ f.due \subseteq 1 .. l /\ f.called \in Seq(f.due)
        BY <1>1, <3>1, <4>1, <4>2, WalkFields
      <4>4. f.at \in 1 .. m + 1 /\ f.called \in Seq(1 .. l) /\ f.due \in SUBSET (1 .. l)
        <5> HIDE DEF m, l
        <5>1. f.at \in 1 .. m + 1
          BY <1>1, <4>3
        <5>2. f.called \in Seq(1 .. l)
          <6> DEFINE q == f.called
                     S == f.due
                     W == 1 .. l
          <6>1. q \in Seq(S) /\ S \subseteq W
            BY <4>3
          <6> HIDE DEF q, S, W
          <6>2. q \in Seq(W)
            BY <6>1
          <6> QED
            BY <6>2 DEF q, W
        <5> QED
          BY <4>3, <5>1, <5>2
      <4>5. f \in [kind : {"broadcast"}, running : BOOLEAN, at : 1 .. m + 1, end : 0 .. m,
                   due : SUBSET (1 .. l), called : Seq(1 .. l)]
        <5> HIDE DEF m, l
        <5> QED
          BY <3>3, <4>3, <4>4
      <4> QED
        BY <4>5, Zenon DEF MD!Frame, f
    <3> QED
      BY <3>1, <3>2, <3>3, Zenon DEF FrameRecord
  <2> QED
    BY <2>1, <2>2
<1> QED
  BY <1>2, <1>3, <1>4, <1>5, <1>6, <1>7, <1>8, <1>9, <1>10 DEF MD!TypeOK, MD!Slots

LEMMA MulticastAccounted == ASSUME MulticastInv PROVE MD!SlotsAccounted
<1> DEFINE A == {i \in MD!Slots : slots[i].active}
           X == SlotsReleased(frames)
<1>1. /\ HandlesInv(slots, handles, removed) /\ FramesInv(frames, depth)
      /\ ListsInv(slots, freeHead, retiredHead, X)
  BY BroadcastsFields
<1>2. slots \in Seq(SlotRecord(slots)) /\ DOMAIN slots = 1 .. Len(slots)
  BY <1>1, HandlesFields
<1>3. X = MD!BeingReleased
  <2>1. DOMAIN frames = 1 .. Len(frames)
    BY <1>1, FramesFields
  <2> QED
    BY <2>1 DEF SlotsReleased, MD!BeingReleased
<1> HIDE DEF X
<1>4. PICK F \in Seq(1 .. Len(slots)), R \in Seq(1 .. Len(slots)) :
        IsStack(slots, freeHead, F) /\ IsStack(slots, retiredHead, R) /\ Partition(slots, F, R, X)
  BY <1>1 DEF ListsInv
<1>5. MD!Chain(freeHead) = Elements(F)
  BY <1>2, <1>4, ChainIs
<1>6. MD!Chain(retiredHead) = Elements(R)
  BY <1>2, <1>4, ChainIs
<1>7. /\ Elements(F) \cap Elements(R) = {} /\ Elements(F) \cap X = {} /\ Elements(R) \cap X = {}
      /\ X \subseteq 1 .. Len(slots)
      /\ \A i \in 1 .. Len(slots) : slots[i].active <=> i \notin Elements(F) \cup Elements(R) \cup X
      /\ Elements(F) \subseteq 1 .. Len(slots) /\ Elements(R) \subseteq 1 .. Len(slots)
  BY <1>4, ElementsWithin DEF Partition
<1>8. MD!Slots = 1 .. Len(slots)
  BY <1>2 DEF MD!Slots
<1> DEFINE P == <<A, MD!Chain(freeHead), MD!Chain(retiredHead), MD!BeingReleased>>
<1>9. P[1] = A /\ P[2] = Elements(F) /\ P[3] = Elements(R) /\ P[4] = X
  BY <1>3, <1>5, <1>6
<1>10. A \cup Elements(F) \cup Elements(R) \cup X = MD!Slots
  BY <1>7, <1>8, Zenon
<1>11. A \cap Elements(F) = {} /\ A \cap Elements(R) = {} /\ A \cap X = {}
  BY <1>7, <1>8
<1> HIDE DEF P, A
<1>12. \A p \in 1 .. 4 : p = 1 \/ p = 2 \/ p = 3 \/ p = 4
  OBVIOUS
<1>13. UNION {P[p] : p \in 1 .. 4} = MD!Slots
  <2>1. UNION {P[p] : p \in 1 .. 4} = P[1] \cup P[2] \cup P[3] \cup P[4]
    <3>1. {P[p] : p \in 1 .. 4} = {P[1], P[2], P[3], P[4]}
      BY <1>12
    <3> QED
      BY <3>1
  <2> QED
    BY <1>9, <1>10, <2>1
<1>14. ASSUME NEW p \in 1 .. 4, NEW q \in 1 .. 4, p # q PROVE P[p] \cap P[q] = {}
  <2>1. \A i, j \in {1, 2, 3, 4} : i < j => P[i] \cap P[j] = {}
    BY <1>7, <1>9, <1>11
  <2>2. p \in {1, 2, 3, 4} /\ q \in {1, 2, 3, 4} /\ (p < q \/ q < p)
    BY <1>14
  <2> QED
    BY <2>1, <2>2
<1> QED
  BY <1>13, <1>14 DEF MD!SlotsAccounted, P, A

LEMMA MulticastCounted == ASSUME MulticastInv PROVE MD!CountsExact /\ MD!HandlesOwn
<1>1. /\ HandlesInv(slots, handles, removed) /\ OrderInv(order, handles, removed)
      /\ CountsInv(activeCount, tombstones, order, handles, removed)
  BY BroadcastsFields
<1>2. MD!Slots = 1 .. Len(slots)
  BY <1>1, HandlesFields DEF MD!Slots
<1>3. MD!CountsExact
  <2>1. \A S : MD!Cardinality(S) = Cardinality(S)
    BY DEF MD!Cardinality, Cardinality
  <2>2. Cardinality({i \in 1 .. Len(slots) : slots[i].active}) = Cardinality(1 .. Len(handles) \ removed)
    BY <1>1, ActiveSlotsAreRegistered
  <2>3. Len(MD!Live(slots, order)) = Cardinality(1 .. Len(handles) \ removed)
    BY <1>1, LiveOrder
  <2>4. activeCount = Cardinality(1 .. Len(handles) \ removed) /\ tombstones = Len(order) - activeCount
    BY <1>1 DEF CountsInv
  <2> QED
    BY <1>2, <2>1, <2>2, <2>3, <2>4 DEF MD!CountsExact, MD!Registered
<1>4. MD!HandlesOwn
  <2> SUFFICES ASSUME NEW c \in 1 .. Len(handles)
               PROVE  /\ MD!IsActive(slots, handles[c]) <=> c \notin removed
                      /\ c \notin removed => slots[handles[c].index].callback = c
    BY DEF MD!HandlesOwn
  <2>1. MD!IsActive(slots, handles[c]) <=> c \notin removed
    BY <1>1, HandleActive
  <2>2. c \notin removed => slots[handles[c].index].callback = c
    BY <1>1 DEF HandlesInv, HandleAt
  <2> QED
    BY <2>1, <2>2
<1> QED
  BY <1>3, <1>4

LEMMA MulticastWalked == ASSUME MulticastInv PROVE MD!RunningKept /\ MD!BroadcastExact
<1>1. FramesInv(frames, depth) /\ Len(order) \in Nat
  BY BroadcastsFields
<1>2. frames \in Seq(FrameRecord) /\ DOMAIN frames = 1 .. Len(frames)
  BY <1>1, FramesFields
<1>3. order \in Seq(Elements(handles)) /\ DOMAIN order = 1 .. Len(order)
  BY BroadcastsFields
<1>4. ASSUME NEW k \in DOMAIN frames, MD!BroadcastFrame(frames[k])
      PROVE  LET f == frames[k]
             IN  /\ f.running => /\ f.at \in DOMAIN order
                                 /\ slots[order[f.at].index].callback = MD!Last(f.called)
                 /\ \A i, j \in DOMAIN f.called : i < j => f.called[i] < f.called[j]
                 /\ MD!ToSet(f.called) \subseteq f.due
                 /\ f.at > f.end => f.due \subseteq MD!ToSet(f.called) \cup removed
  <2> DEFINE f == frames[k]
             q == f.called
  <2>1. f \in FrameRecord /\ f.kind = "broadcast"
    BY <1>2, <1>4 DEF MD!BroadcastFrame
  <2>2. WalkInv(f, order, handles, removed) /\ RunningInv(f, order, slots, SlotsReleased(frames))
    BY <1>2, <2>1, BroadcastsFields
  <2> HIDE DEF f
  <2>3. /\ f.end \in 0 .. Len(order) /\ f.at \in 1 .. f.end + 1 /\ f.running \in BOOLEAN
        /\ f.running => f.at <= f.end
        /\ f.due \subseteq 1 .. Len(handles) /\ q \in Seq(Nat)
    BY <1>1, <2>1, <2>2, WalkFields
  <2>4. DOMAIN q = 1 .. Len(q) /\ MD!ToSet(q) = Elements(q) /\ MD!Last(q) = q[Len(q)]
    <3>1. DOMAIN q = 1 .. Len(q)
      BY <2>3
    <3> QED
      BY <3>1 DEF MD!ToSet, Elements, MD!Last
  <2>5. ASSUME f.running
        PROVE  f.at \in DOMAIN order /\ slots[order[f.at].index].callback = MD!Last(q)
    <3>1. f.at \in DOMAIN order
      BY <1>1, <1>3, <2>3, <2>5
    <3>2. slots[order[f.at].index].callback = q[Len(q)]
      BY <2>2, <2>5 DEF RunningInv
    <3> QED
      BY <2>4, <3>1, <3>2
  <2>6. \A i, j \in DOMAIN q : i < j => q[i] < q[j]
    BY <2>2, <2>4 DEF WalkInv
  <2>7. MD!ToSet(q) \subseteq f.due
    BY <2>2, <2>4 DEF WalkInv
  <2>8. ASSUME f.at > f.end, NEW c \in f.due PROVE c \in MD!ToSet(q) \cup removed
    <3>1. ~ f.running /\ Passed(f) = f.end
      BY <1>1, <2>3, <2>8 DEF Passed
    <3>2. PICK i \in 1 .. f.end : order[i] = handles[c]
      BY <2>2 DEF WalkInv
    <3> QED
      BY <2>2, <2>4, <3>1, <3>2 DEF WalkInv
  <2> QED
    BY <2>5, <2>6, <2>7, <2>8 DEF f
<1>5. MD!RunningKept
  BY <1>4 DEF MD!RunningKept
<1>6. MD!BroadcastExact
  BY <1>4 DEF MD!BroadcastExact
<1> QED
  BY <1>5, <1>6

LEMMA MulticastRests == ASSUME MulticastInv PROVE MD!NothingDeferred
<1> SUFFICES ASSUME frames = <<>>
             PROVE  /\ depth = 0 /\ retiredHead = 0
                    /\ {slots[i].callback : i \in MD!Slots} \ {0} = MD!Registered
                    /\ tombstones < CompactAt \/ tombstones * 2 < Len(order)
  BY DEF MD!NothingDeferred, MD!None
<1>1. /\ HandlesInv(slots, handles, removed) /\ FramesInv(frames, depth)
      /\ ListsInv(slots, freeHead, retiredHead, SlotsReleased(frames))
  BY BroadcastsFields
<1>2. retiredHead = 0 /\ (tombstones < CompactAt \/ tombstones * 2 < Len(order))
  BY DEF MulticastInv, RestInv
<1>3. depth = 0
  <2>1. Len(frames) = 0 /\ depth \in 0 .. Len(frames)
    BY <1>1, FramesFields
  <2> QED
    BY <2>1
<1>4. SlotsReleased(frames) = {}
  <2>1. 1 .. Len(frames) = {}
    OBVIOUS
  <2> QED
    BY <2>1 DEF SlotsReleased
<1>5. PICK F \in Seq(1 .. Len(slots)), R \in Seq(1 .. Len(slots)) :
        IsStack(slots, retiredHead, R) /\ Partition(slots, F, R, {})
  BY <1>1, <1>4, Zenon DEF ListsInv
<1>6. Elements(R) = {}
  <2>1. Len(R) \in Nat /\ (Len(R) # 0 => R[Len(R)] = 0 /\ R[Len(R)] \in 1 .. Len(slots))
    BY <1>2, <1>5 DEF IsStack
  <2>2. Len(R) = 0
    BY <2>1
  <2>3. 1 .. Len(R) = {}
    BY <2>2
  <2> QED
    BY <2>3 DEF Elements
<1>7. \A i \in 1 .. Len(slots) : ~ slots[i].active => slots[i].callback = 0
  BY <1>5, <1>6 DEF Partition
<1>8. /\ MD!Slots = 1 .. Len(slots) /\ Len(handles) \in Nat
      /\ \A c \in 1 .. Len(handles) : handles[c].index \in 1 .. Len(slots) /\ c # 0
      /\ \A c \in 1 .. Len(handles) : c \notin removed => slots[handles[c].index].callback = c
  <2>1. MD!Slots = 1 .. Len(slots) /\ Len(handles) \in Nat
    BY <1>1, HandlesFields DEF MD!Slots
  <2>2. \A c \in 1 .. Len(handles) : handles[c].index \in 1 .. Len(slots)
    BY <1>1, HandlesFields
  <2>3. \A c \in 1 .. Len(handles) : c \notin removed => slots[handles[c].index].callback = c
    BY <1>1, Zenon DEF HandlesInv, HandleAt
  <2> QED
    BY <2>1, <2>2, <2>3
<1>9. ASSUME NEW i \in 1 .. Len(slots), slots[i].callback # 0
      PROVE  slots[i].callback \in 1 .. Len(handles) \ removed
  <2>1. SlotAt(slots, handles, removed, i) /\ slots[i].active
    BY <1>1, <1>7, <1>9 DEF HandlesInv
  <2>2. PICK c \in 1 .. Len(handles) : c \notin removed /\ handles[c].index = i
    BY <2>1 DEF SlotAt
  <2> QED
    BY <1>8, <2>2
<1>10. ASSUME NEW c \in 1 .. Len(handles) \ removed
       PROVE  \E i \in 1 .. Len(slots) : slots[i].callback = c /\ c # 0
  BY <1>8
<1>11. {slots[i].callback : i \in MD!Slots} \ {0} = MD!Registered
  <2> DEFINE C == {slots[i].callback : i \in 1 .. Len(slots)}
             Reg == 1 .. Len(handles) \ removed
  <2>1. ASSUME NEW y \in C, y # 0 PROVE y \in Reg
    <3>1. PICK i \in 1 .. Len(slots) : y = slots[i].callback
      OBVIOUS
    <3>2. slots[i].callback # 0
      BY <2>1, <3>1
    <3> HIDE DEF Reg
    <3>3. slots[i].callback \in Reg
      BY <1>9, <3>2 DEF Reg
    <3> QED
      BY <3>1, <3>3
  <2>2. ASSUME NEW y \in Reg PROVE y \in C /\ y # 0
    BY <1>10, Zenon
  <2> HIDE DEF C, Reg
  <2>3. C \ {0} = Reg
    BY <2>1, <2>2
  <2> QED
    BY <1>8, <2>3 DEF MD!Registered, C, Reg
<1> QED
  BY <1>2, <1>3, <1>11

-----------------------------------------------------------------------------
(* MulticastDelegate: the theorems *)

LEMMA MulticastStep == ASSUME GenerationsLast, MulticastInv, [Next]_vars PROVE MulticastInv'
<1>1. CASE MD!Next
  BY <1>1, MulticastNext
<1>2. CASE UNCHANGED multicast
  BY <1>2 DEF multicast, MulticastInv
<1> QED
  BY <1>1, <1>2 DEF Next, vars

(* multicast_delegate: for any numbers of callbacks, of nested calls and of *)
(* dead entries that Order is compacted at, and as long as callbacks are    *)
(* fewer than a slot has generations, slots, counts and handles are exact,  *)
(* no callback is destroyed while it runs, a broadcast calls those it       *)
(* should once and in order, and nothing deferred is left when no call is   *)
(* in progress.                                                             *)
THEOREM MulticastIsExact == GenerationsLast => (Spec => []MulticastExact)
<1> SUFFICES ASSUME GenerationsLast PROVE Spec => []MulticastExact
  OBVIOUS
<1>1. Init => MulticastInv
  BY MulticastInit DEF Init
<1>2. MulticastInv /\ [Next]_vars => MulticastInv'
  BY MulticastStep
<1>3. MulticastInv => MulticastExact
  BY MulticastTyped, MulticastAccounted, MulticastCounted, MulticastWalked, MulticastRests DEF MulticastExact
<1> QED
  BY <1>1, <1>2, <1>3, PTL DEF Spec

(* A step other than a broadcast's leaves every broadcast as it was.       *)
BroadcastsUntouched ==
  \A k \in DOMAIN frames \cap DOMAIN frames' : MD!BroadcastFrame(frames'[k]) => frames'[k].called = frames[k].called

LEMMA StackUntouched ==
  ASSUME NEW rest, rest \in Seq(FrameRecord), \A k \in 1 .. Len(rest) : rest[k] = frames[k],
         frames' = rest \/ \E x : x.kind # "broadcast" /\ frames' = Append(rest, x)
  PROVE  BroadcastsUntouched
<1>1. CASE frames' = rest
  <2>1. DOMAIN rest = 1 .. Len(rest)
    OBVIOUS
  <2> QED
    BY <1>1, <2>1 DEF BroadcastsUntouched
<1>2. ASSUME NEW x, x.kind # "broadcast", frames' = Append(rest, x) PROVE BroadcastsUntouched
  <2> DEFINE r == Append(rest, x)
  <2>1. /\ Len(rest) \in Nat /\ r[Len(rest) + 1] = x /\ DOMAIN r = 1 .. Len(rest) + 1
        /\ \A k \in 1 .. Len(rest) : r[k] = rest[k]
    OBVIOUS
  <2> HIDE DEF r
  <2>2. \A k \in DOMAIN r : k \in 1 .. Len(rest) \/ k = Len(rest) + 1
    BY <2>1
  <2>3. frames' = r
    BY <1>2 DEF r
  <2> QED
    BY <1>2, <2>1, <2>2, <2>3 DEF BroadcastsUntouched, MD!BroadcastFrame
<1> QED
  BY <1>1, <1>2

LEMMA FinalizeUntouched ==
  ASSUME NEW s, NEW o, NEW first, NEW retired, NEW active, NEW dead, NEW rest,
         MD!Finalize(s, o, first, retired, active, dead, rest),
         rest \in Seq(FrameRecord), \A k \in 1 .. Len(rest) : rest[k] = frames[k]
  PROVE  BroadcastsUntouched
<1>1. frames' = rest \/ frames' = Append(rest, [kind |-> "release", slot |-> retired, running |-> TRUE])
  BY DEF MD!Finalize
<1>2. [kind |-> "release", slot |-> retired, running |-> TRUE].kind # "broadcast"
  OBVIOUS
<1> QED
  BY <1>1, <1>2, StackUntouched

LEMMA UnlessDeferredUntouched ==
  ASSUME MulticastInv, NEW s, NEW retired, NEW active, NEW dead, MD!FinalizeUnlessDeferred(s, retired, active, dead)
  PROVE  BroadcastsUntouched
<1>1. frames \in Seq(FrameRecord)
  BY BroadcastsFields, FramesFields
<1>2. CASE MD!Deferred
  <2>1. frames' = frames
    BY <1>2 DEF MD!FinalizeUnlessDeferred
  <2> QED
    BY <2>1 DEF BroadcastsUntouched
<1>3. CASE ~ MD!Deferred
  <2>1. MD!Finalize(s, order, freeHead, retired, active, dead, frames)
    BY <1>3 DEF MD!FinalizeUnlessDeferred
  <2> QED
    BY <1>1, <2>1, FinalizeUntouched
<1> QED
  BY <1>2, <1>3

LEMMA StepUntouched == ASSUME MulticastInv, MD!Next, ~ MD!BroadcastStep PROVE BroadcastsUntouched
<1>1. frames \in Seq(FrameRecord) /\ Len(frames) \in Nat
  BY BroadcastsFields, FramesFields
<1>2. ASSUME frames # <<>>
      PROVE  MD!Front(frames) \in Seq(FrameRecord) /\ \A k \in 1 .. Len(MD!Front(frames)) : MD!Front(frames)[k] = frames[k]
  BY <1>1, <1>2, FrontFields
<1>3. CASE MD!Add \/ MD!AddFails
  <2>1. frames' = frames
    BY <1>3 DEF MD!Add, MD!AddFails
  <2> QED
    BY <2>1 DEF BroadcastsUntouched
<1>4. ASSUME NEW c \in 1 .. Len(handles), MD!RemoveCallback(c) PROVE BroadcastsUntouched
  <2>1. \E s, retired, active, dead : MD!FinalizeUnlessDeferred(s, retired, active, dead)
    BY <1>4 DEF MD!RemoveCallback
  <2> QED
    BY <2>1, UnlessDeferredUntouched
<1>5. CASE MD!Clear
  <2>1. \E s, retired, active, dead : MD!FinalizeUnlessDeferred(s, retired, active, dead)
    BY <1>5 DEF MD!Clear
  <2> QED
    BY <2>1, UnlessDeferredUntouched
<1>6. CASE MD!BroadcastBegin
  <2> DEFINE x == [kind |-> "broadcast", running |-> FALSE, at |-> 1, end |-> Len(order),
                   due |-> MD!Registered, called |-> <<>>]
  <2>1. frames' = Append(frames, x)
    BY <1>6 DEF MD!BroadcastBegin
  <2> HIDE DEF x
  <2>2. \A k \in DOMAIN frames : frames'[k] = frames[k]
    BY <1>1, <2>1
  <2> QED
    BY <2>2 DEF BroadcastsUntouched
<1>7. CASE MD!CallbackReturns
  <2> DEFINE f == MD!Last(frames)
             g == Returning(f)
  <2>1. frames # <<>> /\ f.kind = "broadcast" /\ frames' = [frames EXCEPT ![Len(frames)] = g]
    BY <1>7 DEF MD!CallbackReturns, MD!BroadcastFrame, MD!SetTop, Returning
  <2>2. f \in FrameRecord /\ f = frames[Len(frames)]
    BY <2>1, TopFields
  <2> HIDE DEF f
  <2>3. g.called = f.called
    BY <2>1, <2>2, ReturningFields, Zenon
  <2> HIDE DEF g
  <2>4. \A k \in DOMAIN frames : frames'[k] = IF k = Len(frames) THEN g ELSE frames[k]
    BY <2>1
  <2> QED
    BY <2>2, <2>3, <2>4 DEF BroadcastsUntouched
<1>8. CASE MD!CallbackThrows \/ MD!BroadcastEnd
  <2>1. frames # <<>> /\ MD!LeaveScope
    BY <1>8 DEF MD!CallbackThrows, MD!BroadcastEnd, MD!Looping
  <2>2. CASE depth = 1
    <3>1. MD!Finalize(slots, order, freeHead, retiredHead, activeCount, tombstones, MD!Front(frames))
      BY <2>1, <2>2 DEF MD!LeaveScope
    <3> QED
      BY <1>2, <2>1, <3>1, FinalizeUntouched
  <2>3. CASE depth # 1
    <3>1. frames' = MD!Front(frames)
      BY <2>1, <2>3 DEF MD!LeaveScope
    <3> QED
      BY <1>2, <2>1, <3>1, StackUntouched
  <2> QED
    BY <2>2, <2>3
<1>9. CASE MD!Released
  <2>1. frames # <<>> /\ \E s, first, o, retired, active, dead : MD!Finalize(s, o, first, retired, active, dead, MD!Front(frames))
    BY <1>9 DEF MD!Released
  <2> QED
    BY <1>2, <2>1, FinalizeUntouched
<1> QED
  BY <1>3, <1>4, <1>5, <1>6, <1>7, <1>8, <1>9 DEF MD!Next

(* What a broadcast adds to the callbacks it has called is registered.     *)
CalledIsRegistered ==
  \A k \in DOMAIN frames \cap DOMAIN frames' :
    /\ MD!BroadcastFrame(frames[k]) /\ MD!BroadcastFrame(frames'[k])
    /\ Len(frames'[k].called) > Len(frames[k].called)
    => MD!Last(frames'[k].called) \notin removed

LEMMA StepCalls == ASSUME MulticastInv, MD!BroadcastStep PROVE CalledIsRegistered
<1> DEFINE f == MD!Last(frames)
           x == order[f.at]
           c == slots[x.index].callback
           n == Len(frames)
<1>1. /\ frames # <<>> /\ f.kind = "broadcast" /\ ~ f.running /\ f.at <= f.end
      /\ frames' = [frames EXCEPT ![n] = IF MD!IsActive(slots, x) THEN Entered(f, c) ELSE Skipping(f)]
  BY DEF MD!BroadcastStep, MD!Looping, MD!BroadcastFrame, MD!LastEntry, MD!SetTop, Entered, Skipping
<1>2. f \in FrameRecord /\ f = frames[n] /\ WalkInv(f, order, handles, removed)
  BY <1>1, TopFields
<1>3. HandlesInv(slots, handles, removed) /\ OrderInv(order, handles, removed)
  BY BroadcastsFields
<1> HIDE DEF f
<1>4. f.called \in Seq(Nat) /\ Len(f.called) \in Nat
  BY <1>1, <1>2, BroadcastRecord
<1>5. ASSUME NEW k \in DOMAIN frames, MD!BroadcastFrame(frames[k]), k # n PROVE ~ (Len(frames'[k].called) > Len(frames[k].called))
  <2>1. frames'[k] = frames[k]
    BY <1>1, <1>5
  <2>2. Len(frames[k].called) \in Nat
    <3>1. frames \in Seq(FrameRecord) /\ DOMAIN frames = 1 .. Len(frames)
      BY BroadcastsFields, FramesFields
    <3> DEFINE t == frames[k]
    <3>2. t \in FrameRecord /\ t.kind = "broadcast"
      BY <1>5, <3>1 DEF MD!BroadcastFrame
    <3> HIDE DEF t
    <3>3. t.called \in Seq(Nat)
      BY <3>2, BroadcastRecord
    <3> QED
      BY <3>3 DEF t
  <2> QED
    BY <2>1, <2>2
<1>6. CASE MD!IsActive(slots, x)
  <2>1. c \in 1 .. Len(handles) /\ c \notin removed
    BY <1>1, <1>2, <1>3, <1>6, EnterWalk, Zenon
  <2>2. c \in Nat
    <3>1. Len(handles) \in Nat
      BY <1>3, HandlesFields
    <3> QED
      BY <2>1, <3>1
  <2> DEFINE g == Entered(f, c)
  <2> HIDE DEF c
  <2>3. g.called = Append(f.called, c)
    BY <1>1, <1>2, <2>2, EnteredFields, Zenon
  <2> DEFINE q == Append(f.called, c)
  <2>4. MD!Last(q) = c
    <3>1. Len(q) = Len(f.called) + 1 /\ q[Len(f.called) + 1] = c
      BY <1>4
    <3> QED
      BY <3>1 DEF MD!Last
  <2> HIDE DEF g, q
  <2>5. \A k \in DOMAIN frames : k = n => frames'[k] = g
    BY <1>1, <1>6 DEF g, c
  <2>6. g.called = q
    BY <2>3 DEF q
  <2>7. \A k \in DOMAIN frames : k = n => MD!Last(frames'[k].called) \notin removed
    BY <2>1, <2>4, <2>5, <2>6
  <2> QED
    BY <1>5, <2>7 DEF CalledIsRegistered
<1>7. CASE ~ MD!IsActive(slots, x)
  <2> DEFINE g == Skipping(f)
  <2>1. g.called = f.called
    BY <1>1, <1>2, SkippingFields
  <2> HIDE DEF g
  <2>2. \A k \in DOMAIN frames : k = n => frames'[k].called = frames[k].called /\ Len(frames[k].called) \in Nat
    BY <1>1, <1>2, <1>4, <1>7, <2>1 DEF g
  <2>3. \A k \in DOMAIN frames : k = n => ~ (Len(frames'[k].called) > Len(frames[k].called))
    BY <2>2
  <2> QED
    BY <1>5, <2>3 DEF CalledIsRegistered
<1> QED
  BY <1>6, <1>7

(* multicast_delegate: for the same parameters, no removed callback is     *)
(* entered.                                                                *)
THEOREM CallsAreRegistered == GenerationsLast => (Spec => CallsRegistered)
<1> SUFFICES ASSUME GenerationsLast PROVE Spec => CallsRegistered
  OBVIOUS
<1>1. Init => MulticastInv
  BY MulticastInit DEF Init
<1>2. MulticastInv /\ [Next]_vars => MulticastInv'
  BY MulticastStep
<1>3. MulticastInv /\ [Next]_vars => [CalledIsRegistered]_MD!vars
  <2> SUFFICES ASSUME MulticastInv, [Next]_vars, ~ UNCHANGED MD!vars PROVE CalledIsRegistered
    OBVIOUS
  <2>1. MD!Next
    BY DEF Next, vars, multicast, MD!vars, MD!list
  <2>2. CASE MD!BroadcastStep
    BY <2>2, StepCalls
  <2>3. CASE ~ MD!BroadcastStep
    <3>1. BroadcastsUntouched
      BY <2>1, <2>3, StepUntouched
    <3>2. frames \in Seq(FrameRecord) /\ DOMAIN frames = 1 .. Len(frames)
      BY BroadcastsFields, FramesFields
    <3>3. ASSUME NEW k \in DOMAIN frames, MD!BroadcastFrame(frames[k]) PROVE Len(frames[k].called) \in Nat
      <4> DEFINE t == frames[k]
      <4>1. t \in FrameRecord /\ t.kind = "broadcast"
        BY <3>2, <3>3 DEF MD!BroadcastFrame
      <4> HIDE DEF t
      <4>2. t.called \in Seq(Nat)
        BY <4>1, BroadcastRecord
      <4> QED
        BY <4>2 DEF t
    <3>4. ASSUME NEW k \in DOMAIN frames \cap DOMAIN frames', MD!BroadcastFrame(frames[k]), MD!BroadcastFrame(frames'[k])
          PROVE  ~ (Len(frames'[k].called) > Len(frames[k].called))
      <4>1. frames'[k].called = frames[k].called
        BY <3>1, <3>4 DEF BroadcastsUntouched
      <4>2. Len(frames[k].called) \in Nat
        BY <3>3, <3>4
      <4> QED
        BY <4>1, <4>2
    <3> QED
      BY <3>4 DEF CalledIsRegistered
  <2> QED
    BY <2>2, <2>3
<1>4. [][CalledIsRegistered]_MD!vars => CallsRegistered
  BY PTL DEF CallsRegistered, MD!CallsRegistered, CalledIsRegistered
<1> QED
  BY <1>1, <1>2, <1>3, <1>4, PTL DEF Spec

-----------------------------------------------------------------------------
(* ObserverList: the invariant *)

Labels == {"idle", "tail", "next", "check", "link", "help", "swing"}

(* A thread that is appending has the node to itself until it is linked.   *)
Holding(x) == x \notin {"idle", "swing"}

Hands(p, nd) == {nd[t] : t \in {t \in Threads : Holding(p[t])}}

(* The nodes from the dummy first to the end of the chain.                 *)
IsPath(nx, first, q) ==
  /\ q \in Seq(Nodes) /\ q # <<>> /\ q[1] = first
  /\ \A i, j \in 1 .. Len(q) : q[i] = q[j] => i = j
  /\ \A i \in 1 .. Len(q) : nx[q[i]] = IF i = Len(q) THEN Null ELSE q[i + 1]

(* Behind the dummy are the observers that were subscribed, in order.      *)
Watched(ob, q, names) ==
  /\ names \in Seq(1 .. MaxPushes) /\ Len(names) = Len(q) - 1
  /\ \A i \in 1 .. Len(names) : names[i] = ob[q[i + 1]]

ChainsInv(P, hd, nx, ob, sb) ==
  \A l \in Lists : IsPath(nx, hd[l], P[l]) /\ Watched(ob, P[l], sb[l])

(* A node is in one chain, free or in the hands of one thread.             *)
PlacedInv(P, fr, inHand) ==
  /\ \A l, k \in Lists : l # k => Elements(P[l]) \cap Elements(P[k]) = {}
  /\ \A l \in Lists : Elements(P[l]) \cap fr = {} /\ Elements(P[l]) \cap inHand = {}
  /\ inHand \cap fr = {}
  /\ \A n \in Nodes : n \in fr \/ n \in inHand \/ \E l \in Lists : n \in Elements(P[l])

HandsInv(p, nd, nx, ob) ==
  /\ \A t \in Threads : Holding(p[t]) => nd[t] \in Nodes /\ nx[nd[t]] = Null /\ ob[nd[t]] \in 1 .. MaxPushes
  /\ \A t, u \in Threads : Holding(p[t]) /\ Holding(p[u]) /\ nd[t] = nd[u] => t = u

(* The tail is the last node, or the one before it while the thread that   *)
(* linked the last one has still to move the tail.                         *)
TailAt(q, x, lagging) ==
  \E i \in 1 .. Len(q) : x = q[i] /\ (i = Len(q) \/ (i = Len(q) - 1 /\ lagging))

Lags(l, x, p, ls, la) == \E t \in Threads : p[t] = "swing" /\ ls[t] = l /\ la[t] = x

TailsInv(P, tl, p, ls, la) == \A l \in Lists : TailAt(P[l], tl[l], Lags(l, tl[l], p, ls, la))

(* What a thread at x has read of the chain q, whose tail is y: a node m   *)
(* that was the tail once, the node w behind it; n is the node it appends. *)
Behind(m, y, q) == \E i, j \in 1 .. Len(q) : i <= j /\ m = q[i] /\ y = q[j]

AppendAt(x, nx, y, q, n, m, w) ==
  /\ x \in {"next", "check", "link", "help", "swing"} => Behind(m, y, q)
  /\ x = "check" => w = Null \/ w = nx[m]
  /\ x = "help" => w # Null /\ w = nx[m]
  /\ x = "swing" => n # Null /\ n = nx[m]

AppendsInv(P, tl, nx, p, ls, nd, la, af) ==
  \A t \in Threads : AppendAt(p[t], nx, tl[ls[t]], P[ls[t]], nd[t], la[t], af[t])

(* The notifications fs stand in the chain q; an observer that was there   *)
(* when the value became v has been called with it, or is before one of    *)
(* the notifications.                                                      *)
StandsAt(f, q) == \E i \in 2 .. Len(q) : f.node = q[i]

Ahead(o, n, q, ob) == \E i, j \in 1 .. Len(q) : i < j /\ n = q[i] /\ o = ob[q[j]]

NotifyInv(q, ob, fs, v, sn, du) ==
  /\ fs \in Seq([node : Nodes, from : Nat]) /\ v \in 0 .. MaxValue /\ sn \in [1 .. MaxPushes -> Nat]
  /\ du \subseteq 1 .. MaxPushes
  /\ \A k \in 1 .. Len(fs) : StandsAt(fs[k], q) /\ fs[k].from \in 1 .. v
  /\ \A o \in du : sn[o] = v \/ \E k \in 1 .. Len(fs) : Ahead(o, fs[k].node, q, ob)

ThreadsTyped(p, ls, nd, la, af) ==
  /\ p \in [Threads -> Labels] /\ ls \in [Threads -> Lists]
  /\ nd \in [Threads -> OL!Pointer] /\ la \in [Threads -> OL!Pointer] /\ af \in [Threads -> OL!Pointer]

NodesTyped(hd, tl, nx, ob, fr, sb, n) ==
  /\ hd \in [Lists -> Nodes] /\ tl \in [Lists -> Nodes] /\ nx \in [Nodes -> OL!Pointer]
  /\ ob \in [Nodes -> 0 .. MaxPushes] /\ fr \subseteq Nodes /\ sb \in [Lists -> Seq(1 .. MaxPushes)]
  /\ n \in 0 .. MaxPushes

(* P has the chain of each list.                                           *)
Chained(P) ==
  /\ P \in [Lists -> Seq(Nodes)]
  /\ ChainsInv(P, head, next, observer, subscribed)
  /\ PlacedInv(P, free, Hands(pc, node))
  /\ TailsInv(P, tail, pc, list, last)
  /\ AppendsInv(P, tail, next, pc, list, node, last, after)
  /\ NotifyInv(P[Subject], observer, notifying, value, seen, due)

ObserversInv ==
  /\ NodesTyped(head, tail, next, observer, free, subscribed, pushes)
  /\ ThreadsTyped(pc, list, node, last, after)
  /\ HandsInv(pc, node, next, observer)
  /\ \E P : Chained(P)

-----------------------------------------------------------------------------
(* ObserverList: chains *)

LEMMA ObserverParameters ==
  /\ Subject \in Lists /\ IsFiniteSet(Nodes) /\ Null \notin Nodes
  /\ \E h \in [Lists -> Nodes] : \A l, k \in Lists : l # k => h[l] # h[k]
  /\ MaxPushes \in Nat /\ MaxValue \in Nat /\ MaxDepth \in Nat
<1>1. OL!ParametersAssumption
  BY InstancesAssumption
<1>2. IsFiniteSet(Nodes)
  BY <1>1 DEF OL!ParametersAssumption, OL!IsFiniteSet, IsFiniteSet
<1> QED
  BY <1>1, <1>2 DEF OL!ParametersAssumption

LEMMA PathFields ==
  ASSUME NEW nx, NEW first, NEW q, IsPath(nx, first, q)
  PROVE  /\ q \in Seq(Nodes) /\ Len(q) \in Nat \ {0} /\ q[1] = first /\ 1 \in 1 .. Len(q) /\ Len(q) \in 1 .. Len(q)
         /\ DOMAIN q = 1 .. Len(q) /\ \A i \in 1 .. Len(q) : q[i] \in Nodes /\ q[i] # Null /\ q[i] \in Elements(q)
         /\ \A i, j \in 1 .. Len(q) : q[i] = q[j] => i = j
         /\ \A i \in 1 .. Len(q) : nx[q[i]] = Null <=> i = Len(q)
         /\ \A i \in 1 .. Len(q) : i # Len(q) => i + 1 \in 1 .. Len(q) /\ nx[q[i]] = q[i + 1]
<1>1. /\ q \in Seq(Nodes) /\ q # <<>> /\ q[1] = first
      /\ \A i, j \in 1 .. Len(q) : q[i] = q[j] => i = j
      /\ \A i \in 1 .. Len(q) : nx[q[i]] = IF i = Len(q) THEN Null ELSE q[i + 1]
  BY DEF IsPath
<1>2. Len(q) \in Nat \ {0} /\ DOMAIN q = 1 .. Len(q) /\ \A i \in 1 .. Len(q) : q[i] \in Nodes
  BY <1>1
<1>3. 1 \in 1 .. Len(q) /\ Len(q) \in 1 .. Len(q) /\ \A i \in 1 .. Len(q) : i # Len(q) => i + 1 \in 1 .. Len(q)
  <2> DEFINE m == Len(q)
  <2>1. m \in Nat \ {0}
    BY <1>2
  <2> HIDE DEF m
  <2>2. 1 \in 1 .. m /\ m \in 1 .. m /\ \A i \in 1 .. m : i # m => i + 1 \in 1 .. m
    BY <2>1
  <2> QED
    BY <2>2 DEF m
<1>4. \A i \in 1 .. Len(q) : q[i] # Null /\ q[i] \in Elements(q)
  BY <1>2, ObserverParameters DEF Elements
<1>5. \A i \in 1 .. Len(q) : nx[q[i]] = Null <=> i = Len(q)
  BY <1>1, <1>3, <1>4
<1>6. \A i \in 1 .. Len(q) : i # Len(q) => i + 1 \in 1 .. Len(q) /\ nx[q[i]] = q[i + 1]
  BY <1>1, <1>3
<1> QED
  BY <1>1, <1>2, <1>3, <1>4, <1>5, <1>6, Zenon

LEMMA WatchedFields ==
  ASSUME NEW nx, NEW first, NEW q, IsPath(nx, first, q), NEW ob, NEW names, Watched(ob, q, names)
  PROVE  /\ names \in Seq(1 .. MaxPushes) /\ Len(names) \in Nat /\ Len(q) = Len(names) + 1
         /\ \A i \in 2 .. Len(q) : ob[q[i]] \in 1 .. MaxPushes /\ i - 1 \in 1 .. Len(names) /\ names[i - 1] = ob[q[i]]
         /\ \A i \in 1 .. Len(names) : i + 1 \in 2 .. Len(q) /\ names[i] = ob[q[i + 1]]
<1>1. Len(q) \in Nat \ {0}
  BY PathFields
<1>2. /\ names \in Seq(1 .. MaxPushes) /\ Len(names) = Len(q) - 1
      /\ \A i \in 1 .. Len(names) : names[i] = ob[q[i + 1]]
  BY DEF Watched
<1>3. Len(names) \in Nat /\ Len(q) = Len(names) + 1 /\ \A i \in 1 .. Len(names) : names[i] \in 1 .. MaxPushes
  <2> DEFINE W == 1 .. MaxPushes
  <2>1. names \in Seq(W)
    BY <1>2
  <2> HIDE DEF W
  <2>2. Len(names) \in Nat /\ \A i \in 1 .. Len(names) : names[i] \in W
    BY <2>1
  <2>3. Len(q) = Len(names) + 1
    BY <1>1, <1>2, <2>2
  <2> QED
    BY <2>2, <2>3 DEF W
<1>4. ASSUME NEW i \in 2 .. Len(q)
      PROVE  ob[q[i]] \in 1 .. MaxPushes /\ i - 1 \in 1 .. Len(names) /\ names[i - 1] = ob[q[i]]
  <2>1. i - 1 \in 1 .. Len(names) /\ (i - 1) + 1 = i
    BY <1>3
  <2> QED
    BY <1>2, <1>3, <2>1, Zenon
<1>5. \A i \in 1 .. Len(names) : i + 1 \in 2 .. Len(q)
  BY <1>3
<1> QED
  BY <1>2, <1>3, <1>4, <1>5

(* A chain does not change with nodes that are not on it.                  *)
LEMMA PathStays ==
  ASSUME NEW nx, NEW ny, NEW first, NEW q, IsPath(nx, first, q), \A n \in Elements(q) : ny[n] = nx[n]
  PROVE  IsPath(ny, first, q)
<1>1. \A i \in 1 .. Len(q) : q[i] \in Elements(q)
  BY DEF Elements
<1> QED
  BY <1>1 DEF IsPath

LEMMA WatchedStays ==
  ASSUME NEW nx, NEW first, NEW q, IsPath(nx, first, q), NEW ob, NEW oc, NEW names, Watched(ob, q, names),
         \A n \in Elements(q) : oc[n] = ob[n]
  PROVE  Watched(oc, q, names)
<1>1. \A i \in 1 .. Len(q) : q[i] \in Elements(q)
  BY DEF Elements
<1>2. \A i \in 1 .. Len(names) : i + 1 \in 1 .. Len(q)
  <2>1. Len(q) \in Nat \ {0} /\ Len(names) = Len(q) - 1
    BY PathFields DEF Watched
  <2> QED
    BY <2>1
<1> QED
  BY <1>1, <1>2 DEF Watched

(* A dummy alone.                                                          *)
LEMMA DummyPath ==
  ASSUME NEW nx, NEW n \in Nodes, nx[n] = Null
  PROVE  /\ IsPath(nx, n, <<n>>) /\ Elements(<<n>>) = {n} /\ \A ob : Watched(ob, <<n>>, <<>>)
         /\ \A G : TailAt(<<n>>, n, G)
<1> DEFINE q == <<n>>
<1>1. q \in Seq(Nodes) /\ Len(q) = 1 /\ q[1] = n /\ q # <<>>
  OBVIOUS
<1>2. <<>> \in Seq(1 .. MaxPushes) /\ Len(<<>>) = 0
  OBVIOUS
<1> HIDE DEF q
<1>3. 1 .. Len(q) = {1}
  BY <1>1
<1>4. IsPath(nx, n, q)
  BY <1>1, <1>3 DEF IsPath
<1>5. Elements(q) = {n}
  BY <1>1, <1>3 DEF Elements
<1>6. \A ob : Watched(ob, q, <<>>)
  BY <1>1, <1>2 DEF Watched
<1>7. \A G : TailAt(q, n, G)
  BY <1>1, <1>3 DEF TailAt
<1> QED
  BY <1>4, <1>5, <1>6, <1>7 DEF q

(* A chain has no more nodes than there are.                               *)
LEMMA PathIsShort ==
  ASSUME NEW nx, NEW first, NEW q, IsPath(nx, first, q)
  PROVE  Cardinality(Nodes) \in Nat /\ Len(q) <= Cardinality(Nodes)
<1>1. q \in Seq(Nodes) /\ Len(q) \in Nat /\ \A i, j \in 1 .. Len(q) : q[i] = q[j] => i = j
  BY PathFields
<1>2. q \in [1 .. Len(q) -> Nodes]
  BY <1>1
<1>3. q \in Injection(1 .. Len(q), Nodes)
  BY <1>1, <1>2 DEF Injection, IsInjective
<1>4. IsFiniteSet(Nodes) /\ IsFiniteSet(1 .. Len(q)) /\ Cardinality(1 .. Len(q)) = Len(q)
  BY <1>1, NumbersUpTo, ObserverParameters
<1>5. Cardinality(1 .. Len(q)) <= Cardinality(Nodes)
  BY <1>3, <1>4, FS_Injection
<1>6. Cardinality(Nodes) \in Nat
  BY <1>4, FS_CardinalityType
<1> QED
  BY <1>4, <1>5, <1>6

(* A walk from the dummy passes the nodes of the chain in order and ends.  *)
IsPrefix(r, q, m) == r \in Seq(Nodes) /\ Len(r) = m /\ \A j \in 1 .. m : r[j] = q[j]

Walked(nx, r) == IF nx[OL!Last(r)] = Null THEN r ELSE Append(r, nx[OL!Last(r)])

LEMMA WalkGoesOn ==
  ASSUME NEW nx, NEW first, NEW q, IsPath(nx, first, q), NEW m \in 1 .. Len(q), NEW r, IsPrefix(r, q, m)
  PROVE  IsPrefix(Walked(nx, r), q, IF m = Len(q) THEN m ELSE m + 1)
<1> DEFINE n == Len(q)
           x == q[m]
<1>1. /\ n \in Nat \ {0} /\ \A i \in 1 .. n : q[i] \in Nodes /\ (nx[q[i]] = Null <=> i = n)
      /\ \A i \in 1 .. n : i # n => i + 1 \in 1 .. n /\ nx[q[i]] = q[i + 1]
  BY PathFields
<1>2. r \in Seq(Nodes) /\ Len(r) = m /\ \A j \in 1 .. m : r[j] = q[j]
  BY DEF IsPrefix
<1> HIDE DEF n
<1>3. OL!Last(r) = x
  <2>1. m \in 1 .. m
    BY <1>1 DEF n
  <2> QED
    BY <1>2, <2>1 DEF OL!Last
<1>4. CASE m = n
  <2>1. nx[x] = Null
    BY <1>1, <1>4
  <2>2. Walked(nx, r) = r
    BY <1>3, <2>1 DEF Walked
  <2> QED
    BY <1>4, <2>2 DEF n
<1>5. CASE m # n
  <2> DEFINE y == q[m + 1]
             p == Append(r, y)
  <2>1. m \in 1 .. n
    BY DEF n
  <2>2. nx[x] # Null /\ nx[x] = y /\ m + 1 \in 1 .. n /\ y \in Nodes /\ m \in Nat
    BY <1>1, <1>5, <2>1
  <2>3. Walked(nx, r) = p
    BY <1>3, <2>2 DEF Walked
  <2> HIDE DEF x, y
  <2>4. p \in Seq(Nodes) /\ Len(p) = m + 1 /\ p[m + 1] = y /\ \A j \in 1 .. m : p[j] = r[j]
    BY <1>2, <2>2
  <2> HIDE DEF p
  <2>5. ASSUME NEW j \in 1 .. m + 1 PROVE p[j] = q[j]
    <3>1. j \in 1 .. m \/ j = m + 1
      BY <2>2
    <3> QED
      BY <1>2, <2>4, <3>1 DEF y
  <2>6. IsPrefix(p, q, m + 1)
    BY <2>4, <2>5 DEF IsPrefix
  <2> QED
    BY <1>5, <2>3, <2>6 DEF n
<1> QED
  BY <1>4, <1>5

LEMMA WalkIs ==
  ASSUME next \in [Nodes -> OL!Pointer], NEW first, NEW q, IsPath(next, first, q)
  PROVE  OL!Walk(first) = q
<1> DEFINE N == Cardinality(Nodes)
           n == Len(q)
           Loop(g) == [i \in 0 .. N |-> IF i = 0 THEN <<first>> ELSE Walked(next, g[i - 1])]
           step == CHOOSE g : g = Loop(g)
           K == Seq(Nodes) \ {<<>>}
           G == [x \in K \X Nat |-> Walked(next, x[1])]
           Far(i) == IF i + 1 <= n THEN i + 1 ELSE n
           I == {i \in 0 .. N : IsPrefix(step[i], q, Far(i))}
<1>1. N \in Nat /\ n \in Nat \ {0} /\ n <= N /\ q \in Seq(Nodes) /\ first \in Nodes /\ q[1] = first /\ 1 \in 1 .. n
  BY PathFields, PathIsShort
<1>2. <<first>> \in K
  BY <1>1
<1>3. \A r \in K : Walked(next, r) \in K
  <2> SUFFICES ASSUME NEW r \in Seq(Nodes), r # <<>> PROVE Walked(next, r) \in Seq(Nodes) /\ Walked(next, r) # <<>>
    OBVIOUS
  <2> DEFINE x == next[OL!Last(r)]
  <2>1. OL!Last(r) \in Nodes
    BY DEF OL!Last
  <2>2. x \in OL!Pointer
    BY <2>1
  <2> HIDE DEF x
  <2>3. CASE x = Null
    BY <2>3 DEF Walked, x
  <2>4. CASE x # Null
    <3>1. x \in Nodes /\ Walked(next, r) = Append(r, x)
      BY <2>2, <2>4 DEF OL!Pointer, Walked, x
    <3> QED
      BY <3>1
  <2> QED
    BY <2>3, <2>4
<1>4. \E g : g = Loop(g)
  <2>1. G \in [K \X Nat -> K]
    <3> SUFFICES ASSUME NEW r \in K, NEW i \in Nat PROVE Walked(next, r) \in K
      BY Zenon
    <3> QED
      BY <1>3
  <2>2. \A r \in K, i \in 0 .. N : i # 0 => G[<<r, i - 1>>] = Walked(next, r)
    <3> SUFFICES ASSUME NEW r \in K, NEW i \in 0 .. N, i # 0 PROVE G[<<r, i - 1>>] = Walked(next, r)
      OBVIOUS
    <3>1. i - 1 \in Nat
      BY <1>1
    <3> HIDE DEF K
    <3> QED
      BY <3>1
  <2> HIDE DEF G, K, N
  <2>3. PICK g \in [0 .. N -> K] : IsLoop(g, <<first>>, G, N)
    BY <1>1, <1>2, <2>1, LoopExists, Zenon
  <2>4. ASSUME NEW i \in 0 .. N, i # 0 PROVE g[i - 1] \in K
    <3>1. i - 1 \in 0 .. N
      BY <1>1, <2>4
    <3> QED
      BY <2>3, <3>1, Zenon
  <2>5. g = Loop(g)
    BY <2>2, <2>3, <2>4, Zenon DEF IsLoop
  <2> QED
    BY <2>5, Zenon DEF N
<1>5. step = Loop(step)
  BY <1>4, Zenon
<1>6. OL!Walk(first) = step[N]
  BY DEF OL!Walk, Walked, OL!Cardinality, Cardinality
<1>7. step[0] = <<first>> /\ \A i \in 0 .. N : i # N => step[i + 1] = Walked(next, step[i])
  <2> HIDE DEF step, N
  <2>1. \A i \in 0 .. N : step[i] = Loop(step)[i]
    BY <1>5, Zenon
  <2>2. step[0] = <<first>>
    BY <1>1, <2>1
  <2>3. ASSUME NEW i \in 0 .. N, i # N PROVE step[i + 1] = Walked(next, step[i])
    <3>1. i + 1 \in 0 .. N /\ i + 1 # 0 /\ (i + 1) - 1 = i
      BY <1>1, <2>3
    <3>2. step[i + 1] = Loop(step)[i + 1]
      BY <2>1, <3>1
    <3> QED
      BY <3>1, <3>2
  <2> QED
    BY <2>2, <2>3
<1> HIDE DEF step, N, n
<1>8. 0 \in I
  <2>1. Far(0) = 1 /\ 0 \in 0 .. N
    BY <1>1
  <2>2. <<first>> \in Seq(Nodes) /\ Len(<<first>>) = 1 /\ \A j \in 1 .. 1 : <<first>>[j] = q[j]
    BY <1>1
  <2>3. IsPrefix(step[0], q, 1)
    BY <1>7, <2>2 DEF IsPrefix
  <2> HIDE DEF Far
  <2> QED
    BY <2>1, <2>3
<1>9. ASSUME NEW i \in 0 .. N, i # N, i \in I PROVE i + 1 \in I
  <2>1. i + 1 \in 0 .. N /\ Far(i) \in 1 .. n /\ Far(i + 1) = IF Far(i) = n THEN Far(i) ELSE Far(i) + 1
    BY <1>1, <1>9
  <2>2. IsPrefix(step[i], q, Far(i)) /\ step[i + 1] = Walked(next, step[i])
    BY <1>7, <1>9
  <2> HIDE DEF Far
  <2>3. Far(i) \in 1 .. Len(q)
    BY <2>1 DEF n
  <2>4. IsPrefix(Walked(next, step[i]), q, IF Far(i) = Len(q) THEN Far(i) ELSE Far(i) + 1)
    BY <2>2, <2>3, WalkGoesOn
  <2>5. IsPrefix(step[i + 1], q, Far(i + 1))
    BY <2>1, <2>2, <2>4 DEF n
  <2> QED
    BY <2>1, <2>5
<1>10. 0 .. N \subseteq I
  <2> HIDE DEF I
  <2> QED
    BY <1>1, <1>8, <1>9, LoopInvariant
<1>11. IsPrefix(step[N], q, n)
  <2>1. N \in 0 .. N /\ Far(N) = n
    BY <1>1
  <2> HIDE DEF Far
  <2> QED
    BY <1>10, <2>1
<1>12. step[N] = q
  <2> DEFINE r == step[N]
  <2>1. r \in Seq(Nodes) /\ Len(r) = n /\ \A j \in 1 .. n : r[j] = q[j]
    BY <1>11 DEF IsPrefix
  <2> HIDE DEF r
  <2>2. r = q
    BY <1>1, <2>1 DEF n
  <2> QED
    BY <2>2 DEF r
<1> QED
  BY <1>6, <1>12

LEMMA ChainNodes ==
  ASSUME next \in [Nodes -> OL!Pointer], NEW first, NEW q, IsPath(next, first, q)
  PROVE  OL!ChainFrom(first) = Elements(q)
<1>1. OL!Walk(first) = q
  BY WalkIs
<1>2. DOMAIN q = 1 .. Len(q)
  BY PathFields
<1> QED
  BY <1>1, <1>2 DEF OL!ChainFrom, OL!ToSet, Elements

-----------------------------------------------------------------------------
(* ObserverList: what a thread has read of a chain stays true *)

Extends(r, q) == Len(r) \in Nat /\ Len(q) <= Len(r) /\ \A i \in 1 .. Len(q) : r[i] = q[i]

(* The tail z of the chain r is no nearer to the dummy than y was in q.    *)
Further(z, r, y, q) == \A i \in 1 .. Len(q) : y = q[i] => \E j \in 1 .. Len(r) : i <= j /\ z = r[j]

LEMMA SameTail == ASSUME NEW q, NEW r, NEW y, Len(q) \in Nat, Extends(r, q) PROVE Further(y, r, y, q)
<1> SUFFICES ASSUME NEW i \in 1 .. Len(q), y = q[i] PROVE \E j \in 1 .. Len(r) : i <= j /\ y = r[j]
  BY DEF Further
<1>1. i \in 1 .. Len(r) /\ i <= i /\ r[i] = q[i]
  BY DEF Extends
<1> QED
  BY <1>1

LEMMA AppendStays ==
  ASSUME NEW nx, NEW first, NEW q, IsPath(nx, first, q), NEW ny, NEW r, Extends(r, q), NEW y, NEW z, Further(z, r, y, q),
         \A m \in Elements(q) : nx[m] # Null => ny[m] = nx[m],
         NEW x, NEW n, NEW m, NEW w, AppendAt(x, nx, y, q, n, m, w)
  PROVE  AppendAt(x, ny, z, r, n, m, w)
<1>1. \A i \in 1 .. Len(q) : q[i] \in Elements(q)
  BY PathFields
<1>2. /\ x \in {"next", "check", "link", "help", "swing"} => Behind(m, y, q)
      /\ x = "check" => w = Null \/ w = nx[m]
      /\ x = "help" => w # Null /\ w = nx[m]
      /\ x = "swing" => n # Null /\ n = nx[m]
  BY DEF AppendAt
<1>3. CASE x \in {"next", "check", "link", "help", "swing"}
  <2>1. PICK i \in 1 .. Len(q), j \in 1 .. Len(q) : i <= j /\ m = q[i] /\ y = q[j]
    BY <1>2, <1>3 DEF Behind
  <2>2. PICK k \in 1 .. Len(r) : j <= k /\ z = r[k]
    BY <2>1 DEF Further
  <2>3. i \in 1 .. Len(r) /\ i <= k /\ m = r[i]
    BY <2>1, <2>2 DEF Extends
  <2>4. Behind(m, z, r)
    BY <2>2, <2>3 DEF Behind
  <2>5. nx[m] # Null => ny[m] = nx[m]
    BY <1>1, <2>1
  <2> QED
    BY <1>2, <2>4, <2>5 DEF AppendAt
<1>4. CASE x \notin {"next", "check", "link", "help", "swing"}
  BY <1>4 DEF AppendAt
<1> QED
  BY <1>3, <1>4

LEMMA TailAtWeaker == ASSUME NEW q, NEW x, NEW G, NEW H, G => H, TailAt(q, x, G) PROVE TailAt(q, x, H)
BY DEF TailAt

(* The tail moves on to the node behind it, or is no longer what it was.   *)
LEMMA SwungExact ==
  ASSUME NEW nx, NEW first, NEW q, IsPath(nx, first, q), NEW y, NEW G, TailAt(q, y, G),
         NEW m, Behind(m, y, q), NEW w, w = nx[m], w # Null, NEW z, z = IF y = m THEN w ELSE y
  PROVE  /\ z \in Nodes /\ Further(z, q, y, q)
         /\ y = m => \A H : TailAt(q, z, H)
<1> DEFINE n == Len(q)
<1>1. /\ n \in Nat \ {0} /\ \A i \in 1 .. n : q[i] \in Nodes /\ (nx[q[i]] = Null <=> i = n)
      /\ \A i \in 1 .. n : i # n => i + 1 \in 1 .. n /\ nx[q[i]] = q[i + 1]
      /\ \A i, j \in 1 .. n : q[i] = q[j] => i = j
  BY PathFields
<1>2. PICK j \in 1 .. n : y = q[j] /\ (j = n \/ j = n - 1)
  BY DEF TailAt
<1>3. CASE y # m
  <2>1. z = y
    BY <1>3
  <2>2. Extends(q, q)
    BY <1>1 DEF Extends
  <2>3. Further(y, q, y, q)
    BY <1>1, <2>2, SameTail
  <2> QED
    BY <1>1, <1>2, <1>3, <2>1, <2>3
<1>4. CASE y = m
  <2>1. z = nx[q[j]] /\ nx[q[j]] # Null
    BY <1>2, <1>4
  <2>2. j # n /\ j + 1 \in 1 .. n /\ z = q[j + 1] /\ j + 1 = n
    BY <1>1, <1>2, <2>1
  <2> HIDE DEF n
  <2>3. Further(z, q, y, q)
    <3> SUFFICES ASSUME NEW i \in 1 .. n, y = q[i] PROVE \E k \in 1 .. n : i <= k /\ z = q[k]
      BY DEF Further, n
    <3>1. j \in 1 .. n /\ q[i] = q[j]
      BY <1>2
    <3>2. i = j
      BY <1>1, <3>1
    <3>3. i <= j + 1
      BY <1>1, <3>1, <3>2
    <3> QED
      BY <2>2, <3>3
  <2>4. \A H : TailAt(q, z, H)
    BY <2>2 DEF TailAt, n
  <2> QED
    BY <1>1, <2>2, <2>3, <2>4
<1> QED
  BY <1>3, <1>4

(* A thread other than t has still to move the tail x of l.                *)
OthersLag(t, l, x) == \E u \in Threads : u # t /\ pc[u] = "swing" /\ list[u] = l /\ last[u] = x

(* t, at x with m and w read and n to append, has left the tail at z.      *)
GoesOn(P, t, x, n, m, w, z) ==
  /\ z \in Nodes /\ AppendAt(x, next, z, P[list[t]], n, m, w)
  /\ Further(z, P[list[t]], tail[list[t]], P[list[t]])
  /\ TailAt(P[list[t]], z, OthersLag(t, list[t], z))

ThreadMoves(t, x, n, m, w, z) ==
  /\ pc' = [pc EXCEPT ![t] = x] /\ node' = [node EXCEPT ![t] = n]
  /\ last' = [last EXCEPT ![t] = m] /\ after' = [after EXCEPT ![t] = w]
  /\ tail' = [tail EXCEPT ![list[t]] = z]
  /\ UNCHANGED <<head, next, observer, free, list, pushes, value, notifying, seen, due, subscribed>>

LEMMA ThreadGoesOn ==
  ASSUME ObserversInv, NEW t \in Threads, NEW x \in Labels, NEW n \in OL!Pointer, NEW m \in OL!Pointer,
         NEW w \in OL!Pointer, NEW z, ThreadMoves(t, x, n, m, w, z),
         Holding(x) <=> Holding(pc[t]), Holding(x) => n = node[t],
         NEW P, Chained(P), GoesOn(P, t, x, n, m, w, z)
  PROVE  ObserversInv'
<1> DEFINE l == list[t]
<1>1. /\ NodesTyped(head, tail, next, observer, free, subscribed, pushes)
      /\ ThreadsTyped(pc, list, node, last, after) /\ HandsInv(pc, node, next, observer)
  BY DEF ObserversInv
<1>2. /\ P \in [Lists -> Seq(Nodes)]
      /\ ChainsInv(P, head, next, observer, subscribed)
      /\ PlacedInv(P, free, Hands(pc, node))
      /\ TailsInv(P, tail, pc, list, last)
      /\ AppendsInv(P, tail, next, pc, list, node, last, after)
      /\ NotifyInv(P[Subject], observer, notifying, value, seen, due)
  BY DEF Chained
<1>3. /\ pc' = [pc EXCEPT ![t] = x] /\ node' = [node EXCEPT ![t] = n]
      /\ last' = [last EXCEPT ![t] = m] /\ after' = [after EXCEPT ![t] = w]
      /\ tail' = [tail EXCEPT ![l] = z]
      /\ UNCHANGED <<head, next, observer, free, list, pushes, value, notifying, seen, due, subscribed>>
  BY DEF ThreadMoves
<1>4. /\ z \in Nodes /\ AppendAt(x, next, z, P[l], n, m, w)
      /\ Further(z, P[l], tail[l], P[l])
      /\ TailAt(P[l], z, OthersLag(t, l, z))
  BY DEF GoesOn
<1>5. /\ pc \in [Threads -> Labels] /\ list \in [Threads -> Lists] /\ l \in Lists /\ tail \in [Lists -> Nodes]
      /\ node \in [Threads -> OL!Pointer] /\ last \in [Threads -> OL!Pointer] /\ after \in [Threads -> OL!Pointer]
  BY <1>1 DEF ThreadsTyped, NodesTyped
<1>6. /\ pc'[t] = x /\ node'[t] = n /\ last'[t] = m /\ after'[t] = w /\ tail'[l] = z
      /\ \A u \in Threads : u # t => pc'[u] = pc[u] /\ node'[u] = node[u] /\ last'[u] = last[u] /\ after'[u] = after[u]
      /\ \A k \in Lists : k # l => tail'[k] = tail[k]
  BY <1>3, <1>5
<1> HIDE DEF l
<1>7. NodesTyped(head, tail, next, observer, free, subscribed, pushes)'
  <2>1. tail' \in [Lists -> Nodes]
    BY <1>3, <1>4, <1>5
  <2> QED
    BY <1>1, <1>3, <2>1 DEF NodesTyped
<1>8. ThreadsTyped(pc, list, node, last, after)'
  BY <1>3, <1>5 DEF ThreadsTyped
<1>9. \A u \in Threads : (Holding(pc'[u]) <=> Holding(pc[u])) /\ (Holding(pc[u]) => node'[u] = node[u])
  BY <1>6
<1>10. HandsInv(pc, node, next, observer)'
  <2>1. next' = next /\ observer' = observer
    BY <1>3
  <2> QED
    BY <1>1, <1>9, <2>1 DEF HandsInv
<1>11. Hands(pc', node') = Hands(pc, node)
  BY <1>9 DEF Hands
<1>12. PlacedInv(P, free', Hands(pc', node'))
  BY <1>2, <1>3, <1>11
<1>13. ChainsInv(P, head', next', observer', subscribed') /\ NotifyInv(P[Subject], observer', notifying', value', seen', due')
  BY <1>2, <1>3
<1>14. TailsInv(P, tail', pc', list', last')
  <2> SUFFICES ASSUME NEW k \in Lists PROVE TailAt(P[k], tail'[k], Lags(k, tail'[k], pc', list', last'))
    BY DEF TailsInv
  <2>1. CASE k = l
    <3>1. OthersLag(t, l, z) => Lags(l, z, pc', list', last')
      BY <1>3, <1>6 DEF OthersLag, Lags
    <3> QED
      BY <1>4, <1>6, <2>1, <3>1, TailAtWeaker
  <2>2. CASE k # l
    <3>1. Lags(k, tail[k], pc, list, last) => Lags(k, tail[k], pc', list', last')
      BY <1>3, <1>6, <2>2 DEF Lags, l
    <3>2. TailAt(P[k], tail[k], Lags(k, tail[k], pc, list, last))
      BY <1>2 DEF TailsInv
    <3> QED
      BY <1>6, <2>2, <3>1, <3>2, TailAtWeaker
  <2> QED
    BY <2>1, <2>2
<1>15. AppendsInv(P, tail', next', pc', list', node', last', after')
  <2> SUFFICES ASSUME NEW u \in Threads
               PROVE  AppendAt(pc'[u], next', tail'[list'[u]], P[list'[u]], node'[u], last'[u], after'[u])
    BY DEF AppendsInv
  <2>1. next' = next /\ list' = list /\ list[u] \in Lists
    BY <1>3, <1>5
  <2>2. CASE u = t
    BY <1>4, <1>6, <2>1, <2>2 DEF l
  <2>3. CASE u # t
    <3> DEFINE k == list[u]
    <3>1. AppendAt(pc[u], next, tail[k], P[k], node[u], last[u], after[u])
      BY <1>2 DEF AppendsInv
    <3>2. IsPath(next, head[k], P[k])
      BY <1>2, <2>1 DEF ChainsInv
    <3> HIDE DEF k
    <3>3. Extends(P[k], P[k]) /\ Len(P[k]) \in Nat
      BY <3>2, PathFields DEF Extends
    <3>4. Further(tail'[k], P[k], tail[k], P[k])
      <4>1. CASE k = l
        BY <1>4, <1>6, <4>1
      <4>2. CASE k # l
        BY <1>6, <2>1, <3>3, <4>2, SameTail DEF k
      <4> QED
        BY <4>1, <4>2
    <3>5. \A a1 \in Elements(P[k]) : next[a1] # Null => next[a1] = next[a1]
      OBVIOUS
    <3>6. AppendAt(pc[u], next, tail'[k], P[k], node[u], last[u], after[u])
      BY <3>1, <3>2, <3>3, <3>4, <3>5, AppendStays
    <3> QED
      BY <1>6, <2>1, <2>3, <3>6 DEF k
  <2> QED
    BY <2>2, <2>3
<1>16. Chained(P)'
  BY <1>2, <1>12, <1>13, <1>14, <1>15 DEF Chained
<1> QED
  BY <1>7, <1>8, <1>10, <1>16 DEF ObserversInv

-----------------------------------------------------------------------------
(* ObserverList: the steps of an append but the one that links the node *)

LEMMA ThreadFacts ==
  ASSUME ObserversInv, NEW t \in Threads, NEW P, Chained(P), NEW l, l = list[t]
  PROVE  /\ l \in Lists /\ tail[l] \in Nodes /\ IsPath(next, head[l], P[l])
         /\ AppendAt(pc[t], next, tail[l], P[l], node[t], last[t], after[t])
         /\ TailAt(P[l], tail[l], Lags(l, tail[l], pc, list, last))
         /\ pc \in [Threads -> Labels] /\ node \in [Threads -> OL!Pointer] /\ last \in [Threads -> OL!Pointer]
         /\ after \in [Threads -> OL!Pointer] /\ tail \in [Lists -> Nodes] /\ next \in [Nodes -> OL!Pointer]
<1>1. /\ pc \in [Threads -> Labels] /\ node \in [Threads -> OL!Pointer] /\ last \in [Threads -> OL!Pointer]
      /\ after \in [Threads -> OL!Pointer] /\ tail \in [Lists -> Nodes] /\ next \in [Nodes -> OL!Pointer]
      /\ list \in [Threads -> Lists]
  BY DEF ObserversInv, ThreadsTyped, NodesTyped
<1>2. l \in Lists /\ tail[l] \in Nodes
  BY <1>1
<1>3. /\ ChainsInv(P, head, next, observer, subscribed) /\ TailsInv(P, tail, pc, list, last)
      /\ AppendsInv(P, tail, next, pc, list, node, last, after)
  BY DEF Chained
<1>4. IsPath(next, head[l], P[l]) /\ TailAt(P[l], tail[l], Lags(l, tail[l], pc, list, last))
  BY <1>2, <1>3 DEF ChainsInv, TailsInv
<1>5. AppendAt(pc[t], next, tail[l], P[l], node[t], last[t], after[t])
  BY <1>3 DEF AppendsInv
<1> QED
  BY <1>1, <1>2, <1>4, <1>5

LEMMA StillLags ==
  ASSUME ObserversInv, NEW t \in Threads, NEW P, Chained(P), NEW l, l = list[t],
         pc[t] # "swing" \/ tail[l] # last[t]
  PROVE  TailAt(P[l], tail[l], OthersLag(t, l, tail[l]))
<1>1. TailAt(P[l], tail[l], Lags(l, tail[l], pc, list, last))
  BY ThreadFacts
<1>2. Lags(l, tail[l], pc, list, last) => OthersLag(t, l, tail[l])
  BY DEF Lags, OthersLag
<1> QED
  BY <1>1, <1>2, TailAtWeaker

LEMMA SameTailOf == ASSUME NEW q, NEW y, Len(q) \in Nat PROVE Further(y, q, y, q)
<1>1. Extends(q, q)
  BY DEF Extends
<1> QED
  BY <1>1, SameTail

LEMMA LoadTailKeeps == ASSUME ObserversInv, NEW t \in Threads, OL!LoadTail(t) PROVE ObserversInv'
<1>1. PICK P : Chained(P)
  BY DEF ObserversInv
<1> DEFINE l == list[t]
           z == tail[l]
           q == P[l]
<1>2. /\ l \in Lists /\ z \in Nodes /\ IsPath(next, head[l], q) /\ TailAt(q, z, Lags(l, z, pc, list, last))
      /\ node \in [Threads -> OL!Pointer] /\ after \in [Threads -> OL!Pointer] /\ tail \in [Lists -> Nodes]
  BY <1>1, ThreadFacts
<1>3. pc[t] = "tail" /\ pc' = [pc EXCEPT ![t] = "next"] /\ last' = [last EXCEPT ![t] = z]
      /\ UNCHANGED <<head, tail, next, observer, free, list, node, after, pushes, value, notifying, seen, due, subscribed>>
  BY DEF OL!LoadTail, OL!At, OL!GoTo, OL!chain, OL!notifyVars
<1>4. node' = [node EXCEPT ![t] = node[t]] /\ after' = [after EXCEPT ![t] = after[t]] /\ tail' = [tail EXCEPT ![l] = z]
  BY <1>2, <1>3
<1>5. ThreadMoves(t, "next", node[t], z, after[t], z)
  BY <1>3, <1>4, Zenon DEF ThreadMoves
<1>6. TailAt(q, z, OthersLag(t, l, z))
  BY <1>1, <1>3, StillLags
<1>7. Further(z, q, z, q)
  BY <1>2, PathFields, SameTailOf
<1>8. Behind(z, z, q)
  <2> HIDE DEF z, q
  <2>1. PICK i \in 1 .. Len(q) : z = q[i]
    BY <1>2 DEF TailAt
  <2>2. i <= i
    BY <2>1
  <2> QED
    BY <2>1, <2>2 DEF Behind
<1>9. AppendAt("next", next, z, q, node[t], z, after[t])
  BY <1>8 DEF AppendAt
<1>10. GoesOn(P, t, "next", node[t], z, after[t], z)
  BY <1>2, <1>6, <1>7, <1>9 DEF GoesOn
<1>11. "next" \in Labels /\ node[t] \in OL!Pointer /\ z \in OL!Pointer /\ after[t] \in OL!Pointer
  BY <1>2 DEF Labels, OL!Pointer
<1>12. Holding("next") /\ Holding(pc[t])
  BY <1>3 DEF Holding
<1> HIDE DEF z
<1> QED
  BY <1>1, <1>5, <1>10, <1>11, <1>12, ThreadGoesOn

LEMMA LoadNextKeeps == ASSUME ObserversInv, NEW t \in Threads, OL!LoadNext(t) PROVE ObserversInv'
<1>1. PICK P : Chained(P)
  BY DEF ObserversInv
<1> DEFINE l == list[t]
           z == tail[l]
           q == P[l]
           w == next[last[t]]
<1>2. /\ l \in Lists /\ z \in Nodes /\ IsPath(next, head[l], q) /\ tail \in [Lists -> Nodes]
      /\ AppendAt(pc[t], next, z, q, node[t], last[t], after[t]) /\ next \in [Nodes -> OL!Pointer]
      /\ node \in [Threads -> OL!Pointer] /\ last \in [Threads -> OL!Pointer]
  BY <1>1, ThreadFacts
<1>3. pc[t] = "next" /\ pc' = [pc EXCEPT ![t] = "check"] /\ after' = [after EXCEPT ![t] = w]
      /\ UNCHANGED <<head, tail, next, observer, free, list, node, last, pushes, value, notifying, seen, due, subscribed>>
  BY DEF OL!LoadNext, OL!At, OL!GoTo, OL!chain, OL!notifyVars
<1>4. node' = [node EXCEPT ![t] = node[t]] /\ last' = [last EXCEPT ![t] = last[t]] /\ tail' = [tail EXCEPT ![l] = z]
  BY <1>2, <1>3
<1>5. ThreadMoves(t, "check", node[t], last[t], w, z)
  BY <1>3, <1>4, Zenon DEF ThreadMoves
<1>6. TailAt(q, z, OthersLag(t, l, z))
  BY <1>1, <1>3, StillLags
<1>7. Further(z, q, z, q)
  BY <1>2, PathFields, SameTailOf
<1>8. Behind(last[t], z, q)
  BY <1>2, <1>3 DEF AppendAt
<1>9. AppendAt("check", next, z, q, node[t], last[t], w)
  BY <1>8 DEF AppendAt
<1>10. GoesOn(P, t, "check", node[t], last[t], w, z)
  BY <1>2, <1>6, <1>7, <1>9 DEF GoesOn
<1>11. last[t] \in Nodes
  BY <1>2, <1>8, PathFields DEF Behind
<1>12. "check" \in Labels /\ node[t] \in OL!Pointer /\ last[t] \in OL!Pointer /\ w \in OL!Pointer
  BY <1>2, <1>11 DEF Labels
<1>13. Holding("check") /\ Holding(pc[t])
  BY <1>3 DEF Holding
<1> HIDE DEF z, w
<1> QED
  BY <1>1, <1>5, <1>10, <1>12, <1>13, ThreadGoesOn

(* A step that only decides where to go on.                                *)
LEMMA DecisionKeeps ==
  ASSUME ObserversInv, NEW t \in Threads, NEW x \in Labels, Holding(x), Holding(pc[t]), NEW P, Chained(P),
         pc' = [pc EXCEPT ![t] = x],
         UNCHANGED <<head, tail, next, observer, free, list, node, last, after, pushes, value, notifying, seen, due, subscribed>>,
         AppendAt(x, next, tail[list[t]], P[list[t]], node[t], last[t], after[t])
  PROVE  ObserversInv'
<1> DEFINE l == list[t]
           z == tail[l]
           q == P[l]
<1>1. /\ l \in Lists /\ z \in Nodes /\ IsPath(next, head[l], q) /\ tail \in [Lists -> Nodes]
      /\ node \in [Threads -> OL!Pointer] /\ last \in [Threads -> OL!Pointer] /\ after \in [Threads -> OL!Pointer]
  BY ThreadFacts
<1>2. /\ node' = [node EXCEPT ![t] = node[t]] /\ last' = [last EXCEPT ![t] = last[t]]
      /\ after' = [after EXCEPT ![t] = after[t]] /\ tail' = [tail EXCEPT ![l] = z]
  BY <1>1
<1>3. ThreadMoves(t, x, node[t], last[t], after[t], z)
  BY <1>2, Zenon DEF ThreadMoves
<1>4. pc[t] # "swing"
  BY DEF Holding
<1>5. TailAt(q, z, OthersLag(t, l, z))
  BY <1>4, StillLags
<1>6. Further(z, q, z, q)
  BY <1>1, PathFields, SameTailOf
<1>7. GoesOn(P, t, x, node[t], last[t], after[t], z)
  BY <1>1, <1>5, <1>6 DEF GoesOn
<1>8. node[t] \in OL!Pointer /\ last[t] \in OL!Pointer /\ after[t] \in OL!Pointer
  BY <1>1
<1> HIDE DEF z
<1> QED
  BY <1>3, <1>7, <1>8, ThreadGoesOn

LEMMA CheckTailKeeps == ASSUME ObserversInv, NEW t \in Threads, OL!CheckTail(t) PROVE ObserversInv'
<1>1. PICK P : Chained(P)
  BY DEF ObserversInv
<1> DEFINE l == list[t]
           x == IF last[t] # tail[l] THEN "tail" ELSE IF after[t] = Null THEN "link" ELSE "help"
<1>2. AppendAt(pc[t], next, tail[l], P[l], node[t], last[t], after[t])
  BY <1>1, ThreadFacts
<1>3. pc[t] = "check" /\ pc' = [pc EXCEPT ![t] = x]
      /\ UNCHANGED <<head, tail, next, observer, free, list, node, last, after, pushes, value, notifying, seen, due, subscribed>>
  BY DEF OL!CheckTail, OL!At, OL!GoTo, OL!chain, OL!notifyVars
<1>4. Behind(last[t], tail[l], P[l]) /\ (after[t] = Null \/ after[t] = next[last[t]])
  BY <1>2, <1>3 DEF AppendAt
<1>5. x \in {"tail", "link", "help"} /\ (x = "help" => after[t] # Null)
  OBVIOUS
<1> HIDE DEF x
<1>6. AppendAt(x, next, tail[l], P[l], node[t], last[t], after[t])
  BY <1>4, <1>5 DEF AppendAt
<1>7. x \in Labels /\ Holding(x) /\ Holding(pc[t])
  BY <1>3, <1>5 DEF Labels, Holding
<1> QED
  BY <1>1, <1>3, <1>6, <1>7, DecisionKeeps, Zenon

LEMMA LinkFailedKeeps ==
  ASSUME ObserversInv, NEW t \in Threads, OL!Link(t), next[last[t]] # Null PROVE ObserversInv'
<1>1. PICK P : Chained(P)
  BY DEF ObserversInv
<1>2. pc[t] = "link" /\ pc' = [pc EXCEPT ![t] = "tail"]
      /\ UNCHANGED <<head, tail, next, observer, free, list, node, last, after, pushes, value, notifying, seen, due, subscribed>>
  BY DEF OL!Link, OL!At, OL!GoTo, OL!notifyVars
<1>3. AppendAt("tail", next, tail[list[t]], P[list[t]], node[t], last[t], after[t])
  BY DEF AppendAt
<1>4. "tail" \in Labels /\ Holding("tail") /\ Holding(pc[t])
  BY <1>2 DEF Labels, Holding
<1> QED
  BY <1>1, <1>2, <1>3, <1>4, DecisionKeeps, Zenon

(* Help and Swing: the tail this thread read, if it still is the tail,     *)
(* moves on to the node behind it.                                         *)
LEMMA SwingingKeeps ==
  ASSUME ObserversInv, NEW t \in Threads, NEW x \in {"tail", "idle"}, Holding(x) <=> Holding(pc[t]),
         NEW n \in OL!Pointer, Holding(x) => n = node[t], NEW m \in OL!Pointer, NEW w \in OL!Pointer,
         NEW P, Chained(P), next[last[t]] # Null,
         Behind(last[t], tail[list[t]], P[list[t]]),
         pc' = [pc EXCEPT ![t] = x], node' = [node EXCEPT ![t] = n],
         last' = [last EXCEPT ![t] = m], after' = [after EXCEPT ![t] = w],
         tail' = IF tail[list[t]] = last[t] THEN [tail EXCEPT ![list[t]] = next[last[t]]] ELSE tail,
         UNCHANGED <<head, next, observer, free, list, pushes, value, notifying, seen, due, subscribed>>
  PROVE  ObserversInv'
<1> DEFINE l == list[t]
           y == tail[l]
           q == P[l]
           to == next[last[t]]
           z == IF y = last[t] THEN to ELSE y
           G == Lags(l, y, pc, list, last)
<1>1. /\ l \in Lists /\ IsPath(next, head[l], q) /\ tail \in [Lists -> Nodes] /\ TailAt(q, y, G)
  BY ThreadFacts
<1>2. tail' = [tail EXCEPT ![l] = z]
  BY <1>1, Zenon
<1>3. Behind(last[t], y, q)
  OBVIOUS
<1> HIDE DEF G, y
<1>4. z \in Nodes /\ Further(z, q, y, q) /\ (y = last[t] => \A H : TailAt(q, z, H))
  BY <1>1, <1>3, SwungExact
<1>5. TailAt(q, z, OthersLag(t, l, z))
  <2>1. CASE y = last[t]
    BY <1>4, <2>1
  <2>2. CASE y # last[t]
    <3>1. z = y /\ (pc[t] # "swing" \/ y # last[t])
      BY <2>2
    <3>2. TailAt(q, y, OthersLag(t, l, y))
      BY <3>1, StillLags DEF y
    <3> QED
      BY <3>1, <3>2
  <2> QED
    BY <2>1, <2>2
<1> HIDE DEF z
<1>6. AppendAt(x, next, z, q, n, m, w)
  BY DEF AppendAt
<1>7. GoesOn(P, t, x, n, m, w, z)
  BY <1>4, <1>5, <1>6 DEF GoesOn, y
<1>8. ThreadMoves(t, x, n, m, w, z)
  BY <1>2, Zenon DEF ThreadMoves
<1>9. x \in Labels
  BY DEF Labels
<1> QED
  BY <1>7, <1>8, <1>9, ThreadGoesOn

LEMMA HelpKeeps == ASSUME ObserversInv, NEW t \in Threads, OL!Help(t) PROVE ObserversInv'
<1>1. PICK P : Chained(P)
  BY DEF ObserversInv
<1>2. /\ AppendAt(pc[t], next, tail[list[t]], P[list[t]], node[t], last[t], after[t])
      /\ node \in [Threads -> OL!Pointer] /\ last \in [Threads -> OL!Pointer] /\ after \in [Threads -> OL!Pointer]
  BY <1>1, ThreadFacts
<1>3. /\ pc[t] = "help" /\ pc' = [pc EXCEPT ![t] = "tail"]
      /\ tail' = IF tail[list[t]] = last[t] THEN [tail EXCEPT ![list[t]] = after[t]] ELSE tail
      /\ UNCHANGED <<head, next, observer, free, list, node, last, after, pushes, value, notifying, seen, due, subscribed>>
  BY DEF OL!Help, OL!SwungTail, OL!At, OL!GoTo, OL!notifyVars
<1>4. after[t] # Null /\ after[t] = next[last[t]] /\ Behind(last[t], tail[list[t]], P[list[t]])
  BY <1>2, <1>3 DEF AppendAt
<1>5. /\ node' = [node EXCEPT ![t] = node[t]] /\ last' = [last EXCEPT ![t] = last[t]]
      /\ after' = [after EXCEPT ![t] = after[t]]
      /\ node[t] \in OL!Pointer /\ last[t] \in OL!Pointer /\ after[t] \in OL!Pointer
  BY <1>2, <1>3
<1>6. "tail" \in {"tail", "idle"} /\ (Holding("tail") <=> Holding(pc[t])) /\ (Holding("tail") => node[t] = node[t])
  BY <1>3 DEF Holding
<1> DEFINE n == node[t]
           m == last[t]
           w == after[t]
<1>7. /\ node' = [node EXCEPT ![t] = n] /\ last' = [last EXCEPT ![t] = m] /\ after' = [after EXCEPT ![t] = w]
      /\ n \in OL!Pointer /\ m \in OL!Pointer /\ w \in OL!Pointer /\ (Holding("tail") => n = node[t])
  BY <1>5
<1>8. /\ next[last[t]] # Null
      /\ tail' = IF tail[list[t]] = last[t] THEN [tail EXCEPT ![list[t]] = next[last[t]]] ELSE tail
  BY <1>3, <1>4
<1>9. /\ pc' = [pc EXCEPT ![t] = "tail"]
      /\ UNCHANGED <<head, next, observer, free, list, pushes, value, notifying, seen, due, subscribed>>
  BY <1>3
<1>10. Behind(last[t], tail[list[t]], P[list[t]])
  BY <1>4
<1> HIDE DEF n, m, w
<1> QED
  BY <1>1, <1>6, <1>7, <1>8, <1>9, <1>10, SwingingKeeps, Zenon

LEMMA SwingKeeps == ASSUME ObserversInv, NEW t \in Threads, OL!Swing(t) PROVE ObserversInv'
<1>1. PICK P : Chained(P)
  BY DEF ObserversInv
<1>2. AppendAt(pc[t], next, tail[list[t]], P[list[t]], node[t], last[t], after[t])
  BY <1>1, ThreadFacts
<1>3. /\ pc[t] = "swing" /\ pc' = [pc EXCEPT ![t] = "idle"]
      /\ tail' = IF tail[list[t]] = last[t] THEN [tail EXCEPT ![list[t]] = node[t]] ELSE tail
      /\ node' = [node EXCEPT ![t] = Null] /\ last' = [last EXCEPT ![t] = Null] /\ after' = [after EXCEPT ![t] = Null]
      /\ UNCHANGED <<head, next, observer, free, list, pushes, value, notifying, seen, due, subscribed>>
  BY DEF OL!Swing, OL!SwungTail, OL!At, OL!GoTo, OL!notifyVars
<1>4. node[t] # Null /\ node[t] = next[last[t]] /\ Behind(last[t], tail[list[t]], P[list[t]])
  BY <1>2, <1>3 DEF AppendAt
<1>5. ~ Holding("idle") /\ ~ Holding(pc[t]) /\ Null \in OL!Pointer
  BY <1>3 DEF Holding, OL!Pointer
<1>6. /\ next[last[t]] # Null
      /\ tail' = IF tail[list[t]] = last[t] THEN [tail EXCEPT ![list[t]] = next[last[t]]] ELSE tail
  BY <1>3, <1>4
<1> QED
  BY <1>1, <1>3, <1>4, <1>5, <1>6, SwingingKeeps, Zenon

-----------------------------------------------------------------------------
(* ObserverList: PushBack allocates the node *)

LEMMA NotifyExtends ==
  ASSUME NEW q, NEW r, Len(q) \in Nat, Extends(r, q), NEW ob, NEW oc, \A n \in Elements(q) : oc[n] = ob[n],
         NEW fs, NEW v, NEW sn, NEW du, NotifyInv(q, ob, fs, v, sn, du)
  PROVE  NotifyInv(r, oc, fs, v, sn, du)
<1>1. /\ Len(r) \in Nat /\ \A i \in 1 .. Len(q) : i \in 1 .. Len(r) /\ r[i] = q[i]
  BY DEF Extends
<1>2. \A i \in 1 .. Len(q) : oc[r[i]] = ob[q[i]]
  BY <1>1 DEF Elements
<1>3. ASSUME NEW f, StandsAt(f, q) PROVE StandsAt(f, r)
  <2>1. PICK i \in 2 .. Len(q) : f.node = q[i]
    BY <1>3 DEF StandsAt
  <2>2. i \in 1 .. Len(q) /\ i \in 2 .. Len(r)
    <3>1. i \in 1 .. Len(q)
      BY <2>1
    <3> QED
      BY <1>1, <3>1
  <2> QED
    BY <1>1, <2>1, <2>2 DEF StandsAt
<1>4. ASSUME NEW o, NEW n, Ahead(o, n, q, ob) PROVE Ahead(o, n, r, oc)
  BY <1>1, <1>2, <1>4 DEF Ahead
<1> QED
  BY <1>3, <1>4, Zenon DEF NotifyInv

LEMMA PlacedFields ==
  ASSUME NEW P, NEW fr, NEW inHand, PlacedInv(P, fr, inHand)
  PROVE  /\ \A l \in Lists : \A n \in Elements(P[l]) : n \notin fr /\ n \notin inHand
         /\ \A n \in fr : n \notin inHand
         /\ \A l, k \in Lists : l # k => \A n \in Elements(P[l]) : n \notin Elements(P[k])
BY DEF PlacedInv

LEMMA PushBackKeeps ==
  ASSUME ObserversInv, NEW t \in Threads, NEW k \in Lists, OL!PushBack(t, k) PROVE ObserversInv'
<1> DEFINE n == OL!NewNode
           H == Hands(pc, node)
<1>1. /\ NodesTyped(head, tail, next, observer, free, subscribed, pushes)
      /\ ThreadsTyped(pc, list, node, last, after) /\ HandsInv(pc, node, next, observer)
  BY DEF ObserversInv
<1>2. PICK P : Chained(P)
  BY DEF ObserversInv
<1>3. /\ P \in [Lists -> Seq(Nodes)]
      /\ ChainsInv(P, head, next, observer, subscribed)
      /\ PlacedInv(P, free, H)
      /\ TailsInv(P, tail, pc, list, last)
      /\ AppendsInv(P, tail, next, pc, list, node, last, after)
      /\ NotifyInv(P[Subject], observer, notifying, value, seen, due)
  BY <1>2 DEF Chained
<1>4. /\ pc[t] = "idle" /\ pushes < MaxPushes /\ free # {} /\ free' = free \ {n}
      /\ node' = [node EXCEPT ![t] = n] /\ observer' = [observer EXCEPT ![n] = pushes + 1]
      /\ next' = [next EXCEPT ![n] = Null] /\ pushes' = pushes + 1
      /\ list' = [list EXCEPT ![t] = k] /\ pc' = [pc EXCEPT ![t] = "tail"]
      /\ UNCHANGED <<head, tail, last, after, value, notifying, seen, due, subscribed>>
  BY DEF OL!PushBack, OL!At, OL!GoTo, OL!notifyVars
<1>5. n \in free
  BY <1>4 DEF OL!NewNode
<1> HIDE DEF n, H
<1>6. /\ head \in [Lists -> Nodes] /\ tail \in [Lists -> Nodes] /\ next \in [Nodes -> OL!Pointer]
      /\ observer \in [Nodes -> 0 .. MaxPushes] /\ free \subseteq Nodes
      /\ subscribed \in [Lists -> Seq(1 .. MaxPushes)] /\ pushes \in 0 .. MaxPushes
      /\ pc \in [Threads -> Labels] /\ list \in [Threads -> Lists] /\ node \in [Threads -> OL!Pointer]
      /\ last \in [Threads -> OL!Pointer] /\ after \in [Threads -> OL!Pointer]
  BY <1>1 DEF NodesTyped, ThreadsTyped
<1>7. MaxPushes \in Nat /\ n \in Nodes /\ Null \in OL!Pointer /\ n \in OL!Pointer /\ "tail" \in Labels
  BY <1>5, <1>6, ObserverParameters DEF OL!Pointer, Labels
<1>8. pushes + 1 \in 1 .. MaxPushes /\ pushes + 1 \in 0 .. MaxPushes
  BY <1>4, <1>6, <1>7
<1>9. NodesTyped(head, tail, next, observer, free, subscribed, pushes)'
  <2>1. next' \in [Nodes -> OL!Pointer] /\ observer' \in [Nodes -> 0 .. MaxPushes] /\ free' \subseteq Nodes
    BY <1>4, <1>6, <1>7, <1>8
  <2> QED
    BY <1>4, <1>6, <1>8, <2>1 DEF NodesTyped
<1>10. ThreadsTyped(pc, list, node, last, after)'
  <2>1. /\ pc' \in [Threads -> Labels] /\ list' \in [Threads -> Lists] /\ node' \in [Threads -> OL!Pointer]
    BY <1>4, <1>6, <1>7
  <2> QED
    BY <1>4, <1>6, <2>1 DEF ThreadsTyped
<1>11. /\ pc'[t] = "tail" /\ node'[t] = n /\ list'[t] = k /\ next'[n] = Null /\ observer'[n] = pushes + 1
       /\ \A u \in Threads : u # t => pc'[u] = pc[u] /\ node'[u] = node[u] /\ list'[u] = list[u]
       /\ \A x \in Nodes : x # n => next'[x] = next[x] /\ observer'[x] = observer[x]
  BY <1>4, <1>6, <1>7
<1>12. \A u \in Threads : Holding(pc[u]) => node[u] \in H /\ u # t
  BY <1>4 DEF Hands, Holding, H
<1>13. /\ \A l \in Lists : \A x \in Elements(P[l]) : x \notin free /\ x \notin H
       /\ \A x \in free : x \notin H
  BY <1>3, PlacedFields
<1>14. ASSUME NEW l \in Lists
       PROVE  /\ Elements(P[l]) \subseteq Nodes
              /\ \A x \in Elements(P[l]) : next'[x] = next[x] /\ observer'[x] = observer[x]
              /\ IsPath(next, head[l], P[l]) /\ Watched(observer, P[l], subscribed[l]) /\ Len(P[l]) \in Nat
  <2>1. Elements(P[l]) \subseteq Nodes
    BY <1>3, ElementsWithin
  <2>2. IsPath(next, head[l], P[l]) /\ Watched(observer, P[l], subscribed[l])
    BY <1>3 DEF ChainsInv
  <2>3. Len(P[l]) \in Nat
    BY <2>2, PathFields
  <2> QED
    BY <1>5, <1>11, <1>13, <2>1, <2>2, <2>3
<1>15. HandsInv(pc, node, next, observer)'
  <2>1. \A u \in Threads : Holding(pc[u]) => node[u] \in Nodes /\ next[node[u]] = Null /\ observer[node[u]] \in 1 .. MaxPushes
    BY <1>1 DEF HandsInv
  <2>2. \A u, w \in Threads : Holding(pc[u]) /\ Holding(pc[w]) /\ node[u] = node[w] => u = w
    BY <1>1 DEF HandsInv
  <2>3. \A u \in Threads : Holding(pc[u]) => node[u] # n
    BY <1>5, <1>12, <1>13
  <2>4. ASSUME NEW u \in Threads, Holding(pc'[u])
        PROVE  node'[u] \in Nodes /\ next'[node'[u]] = Null /\ observer'[node'[u]] \in 1 .. MaxPushes
    BY <1>7, <1>8, <1>11, <2>1, <2>3, <2>4
  <2>5. ASSUME NEW u \in Threads, NEW w \in Threads, Holding(pc'[u]), Holding(pc'[w]), node'[u] = node'[w] PROVE u = w
    BY <1>11, <2>2, <2>3, <2>5
  <2> QED
    BY <2>4, <2>5 DEF HandsInv
<1>16. Hands(pc', node') = H \cup {n}
  <2>1. \A u \in Threads : u # t => (Holding(pc'[u]) <=> Holding(pc[u])) /\ node'[u] = node[u]
    BY <1>11
  <2>2. Holding(pc'[t]) /\ ~ Holding(pc[t]) /\ node'[t] = n
    BY <1>4, <1>11 DEF Holding
  <2>3. Hands(pc', node') \subseteq H \cup {n}
    BY <2>1, <2>2 DEF Hands, H
  <2>4. H \cup {n} \subseteq Hands(pc', node')
    BY <2>1, <2>2 DEF Hands, H
  <2> QED
    BY <2>3, <2>4
<1>17. PlacedInv(P, free', Hands(pc', node'))
  <2>1. free' = free \ {n} /\ Hands(pc', node') = H \cup {n} /\ n \in free
    BY <1>4, <1>5, <1>16, Zenon
  <2> QED
    BY <1>3, <2>1 DEF PlacedInv
<1>18. ChainsInv(P, head', next', observer', subscribed')
  <2> SUFFICES ASSUME NEW l \in Lists PROVE IsPath(next', head[l], P[l]) /\ Watched(observer', P[l], subscribed[l])
    BY <1>4, Zenon DEF ChainsInv
  <2>1. IsPath(next', head[l], P[l])
    BY <1>14, PathStays
  <2>2. Watched(observer', P[l], subscribed[l])
    BY <1>14, WatchedStays
  <2> QED
    BY <2>1, <2>2
<1>19. TailsInv(P, tail', pc', list', last')
  <2> SUFFICES ASSUME NEW l \in Lists PROVE TailAt(P[l], tail[l], Lags(l, tail[l], pc', list', last))
    BY <1>4, Zenon DEF TailsInv
  <2>1. Lags(l, tail[l], pc, list, last) => Lags(l, tail[l], pc', list', last)
    BY <1>4, <1>11 DEF Lags
  <2> QED
    BY <1>3, <2>1, TailAtWeaker DEF TailsInv
<1>20. AppendsInv(P, tail', next', pc', list', node', last', after')
  <2> SUFFICES ASSUME NEW u \in Threads
               PROVE  AppendAt(pc'[u], next', tail[list'[u]], P[list'[u]], node'[u], last[u], after[u])
    BY <1>4, Zenon DEF AppendsInv
  <2>1. CASE u = t
    BY <1>11, <2>1 DEF AppendAt
  <2>2. CASE u # t
    <3> DEFINE l == list[u]
               q == P[l]
    <3>1. AppendAt(pc[u], next, tail[l], q, node[u], last[u], after[u]) /\ l \in Lists
      BY <1>3, <1>6 DEF AppendsInv
    <3>2. IsPath(next, head[l], q) /\ Extends(q, q) /\ Further(tail[l], q, tail[l], q)
      BY <1>14, <3>1, SameTailOf DEF Extends
    <3>3. \A x \in Elements(q) : next[x] # Null => next'[x] = next[x]
      BY <1>14, <3>1
    <3> HIDE DEF q
    <3>4. AppendAt(pc[u], next', tail[l], q, node[u], last[u], after[u])
      BY <3>1, <3>2, <3>3, AppendStays
    <3> QED
      BY <1>11, <2>2, <3>4 DEF q
  <2> QED
    BY <2>1, <2>2
<1>21. NotifyInv(P[Subject], observer', notifying', value', seen', due')
  <2> DEFINE q == P[Subject]
  <2>1. Len(q) \in Nat /\ Extends(q, q) /\ (\A x \in Elements(q) : observer'[x] = observer[x])
        /\ NotifyInv(q, observer, notifying, value, seen, due)
    BY <1>3, <1>14, ObserverParameters DEF Extends
  <2> HIDE DEF q
  <2>2. NotifyInv(q, observer', notifying, value, seen, due)
    BY <2>1, NotifyExtends
  <2> QED
    BY <1>4, <2>2 DEF q
<1>22. Chained(P)'
  BY <1>3, <1>17, <1>18, <1>19, <1>20, <1>21 DEF Chained
<1> QED
  BY <1>9, <1>10, <1>15, <1>22 DEF ObserversInv

-----------------------------------------------------------------------------
(* ObserverList: Link appends the node to the chain *)

LEMMA PathGrows ==
  ASSUME NEW nx \in [Nodes -> OL!Pointer], NEW first, NEW q, IsPath(nx, first, q), NEW m, m = q[Len(q)],
         NEW n \in Nodes, n \notin Elements(q), nx[n] = Null
  PROVE  IsPath([nx EXCEPT ![m] = n], first, Append(q, n))
<1> DEFINE k == Len(q)
           r == Append(q, n)
           ny == [nx EXCEPT ![m] = n]
<1>1. /\ q \in Seq(Nodes) /\ k \in Nat \ {0} /\ q[1] = first /\ 1 \in 1 .. k /\ k \in 1 .. k
      /\ \A i \in 1 .. k : q[i] \in Nodes /\ q[i] \in Elements(q)
      /\ \A i, j \in 1 .. k : q[i] = q[j] => i = j
      /\ \A i \in 1 .. k : i # k => i + 1 \in 1 .. k /\ nx[q[i]] = q[i + 1]
  BY PathFields
<1>2. /\ Len(r) = k + 1 /\ r[k + 1] = n /\ (\A i \in 1 .. k : r[i] = q[i]) /\ r \in Seq(Nodes)
  BY <1>1, AppendFields
<1>3. m \in Nodes /\ m # n /\ m = q[k]
  BY <1>1
<1>4. ny[m] = n /\ ny[n] = Null /\ \A x \in Nodes : x # m => ny[x] = nx[x]
  BY <1>3
<1> HIDE DEF k, r, ny
<1>5. k + 1 \in 1 .. k + 1 /\ (\A i \in 1 .. k + 1 : i \in 1 .. k \/ i = k + 1) /\ \A i \in 1 .. k : i # k + 1 /\ i + 1 # 1
  BY <1>1
<1>6. ASSUME NEW i \in 1 .. k + 1, NEW j \in 1 .. k + 1, r[i] = r[j] PROVE i = j
  <2>1. \A x \in 1 .. k : r[x] # n
    BY <1>1, <1>2
  <2>2. (i \in 1 .. k \/ i = k + 1) /\ (j \in 1 .. k \/ j = k + 1)
    BY <1>5
  <2>3. (i = k + 1) <=> (j = k + 1)
    BY <1>2, <1>6, <2>1, <2>2
  <2> QED
    BY <1>1, <1>2, <1>6, <2>2, <2>3
<1>7. ASSUME NEW i \in 1 .. k + 1 PROVE ny[r[i]] = IF i = k + 1 THEN Null ELSE r[i + 1]
  <2>1. CASE i = k + 1
    BY <1>2, <1>4, <2>1
  <2>2. CASE i = k
    <3>1. i # k + 1 /\ r[i] = m /\ r[i + 1] = n
      BY <1>1, <1>2, <1>3, <1>5, <2>2
    <3> QED
      BY <1>4, <3>1
  <2>3. CASE i # k /\ i # k + 1
    <3>1. i \in 1 .. k
      BY <1>5, <2>3
    <3>2. i + 1 \in 1 .. k /\ nx[q[i]] = q[i + 1] /\ q[i] # m
      BY <1>1, <1>3, <2>3, <3>1
    <3>3. ny[q[i]] = nx[q[i]] /\ r[i] = q[i] /\ r[i + 1] = q[i + 1]
      BY <1>1, <1>2, <1>4, <3>1, <3>2
    <3> QED
      BY <2>3, <3>2, <3>3
  <2> QED
    BY <2>1, <2>2, <2>3
<1>8. r[1] = first /\ r # <<>>
  <2>1. Len(r) # 0
    BY <1>1, <1>2
  <2> QED
    BY <1>1, <1>2, <2>1
<1>9. IsPath(ny, first, r)
  BY <1>2, <1>6, <1>7, <1>8 DEF IsPath
<1> QED
  BY <1>9 DEF r, ny

LEMMA WatchedGrows ==
  ASSUME NEW nx, NEW first, NEW q, IsPath(nx, first, q), NEW ob, NEW names, Watched(ob, q, names),
         NEW n \in Nodes, ob[n] \in 1 .. MaxPushes
  PROVE  Watched(ob, Append(q, n), Append(names, ob[n]))
<1> DEFINE W == 1 .. MaxPushes
           r == Append(q, n)
           o == ob[n]
           s == Append(names, o)
           k == Len(names)
<1>1. /\ names \in Seq(W) /\ k \in Nat /\ Len(q) = k + 1
      /\ \A i \in 1 .. k : i + 1 \in 2 .. Len(q) /\ names[i] = ob[q[i + 1]]
  BY WatchedFields
<1>2. q \in Seq(Nodes)
  BY PathFields
<1>3. /\ Len(r) = Len(q) + 1 /\ r[Len(q) + 1] = n /\ (\A i \in 1 .. Len(q) : r[i] = q[i])
  BY <1>2, AppendFields
<1>4. o \in W
  OBVIOUS
<1> HIDE DEF W, o
<1>5. /\ Len(s) = k + 1 /\ s[k + 1] = o /\ (\A i \in 1 .. k : s[i] = names[i]) /\ s \in Seq(W)
  BY <1>1, <1>4, AppendFields
<1> HIDE DEF r, s, k
<1>6. ASSUME NEW i \in 1 .. k + 1 PROVE s[i] = ob[r[i + 1]]
  <2>1. CASE i = k + 1
    <3>1. r[i + 1] = n
      BY <1>1, <1>3, <2>1
    <3> QED
      BY <1>5, <2>1, <3>1 DEF o
  <2>2. CASE i # k + 1
    <3>1. i \in 1 .. k
      BY <1>1, <2>2
    <3>2. i + 1 \in 1 .. Len(q)
      BY <1>1, <3>1
    <3> QED
      BY <1>1, <1>3, <1>5, <3>1, <3>2
  <2> QED
    BY <2>1, <2>2
<1>7. Len(s) = Len(r) - 1
  BY <1>1, <1>3, <1>5
<1>8. Watched(ob, r, s)
  <2>1. s \in Seq(1 .. MaxPushes)
    BY <1>5 DEF W
  <2> QED
    BY <1>5, <1>6, <1>7, <2>1 DEF Watched
<1> QED
  BY <1>8 DEF r, s, o

LEMMA LinkedKeeps ==
  ASSUME ObserversInv, NEW t \in Threads, OL!Link(t), next[last[t]] = Null PROVE ObserversInv'
<1> DEFINE l == list[t]
           n == node[t]
           m == last[t]
           H == Hands(pc, node)
<1>1. /\ NodesTyped(head, tail, next, observer, free, subscribed, pushes)
      /\ ThreadsTyped(pc, list, node, last, after) /\ HandsInv(pc, node, next, observer)
  BY DEF ObserversInv
<1>2. PICK P : Chained(P)
  BY DEF ObserversInv
<1>3. /\ P \in [Lists -> Seq(Nodes)]
      /\ ChainsInv(P, head, next, observer, subscribed)
      /\ PlacedInv(P, free, H)
      /\ TailsInv(P, tail, pc, list, last)
      /\ AppendsInv(P, tail, next, pc, list, node, last, after)
      /\ NotifyInv(P[Subject], observer, notifying, value, seen, due)
  BY <1>2 DEF Chained
<1>4. /\ pc[t] = "link" /\ next[m] = Null
      /\ next' = [next EXCEPT ![m] = n] /\ subscribed' = [subscribed EXCEPT ![l] = Append(@, observer[n])]
      /\ pc' = [pc EXCEPT ![t] = "swing"]
      /\ UNCHANGED <<head, tail, observer, free, list, node, last, after, pushes, value, notifying, seen, due>>
  BY DEF OL!Link, OL!At, OL!GoTo, OL!notifyVars
<1>5. /\ head \in [Lists -> Nodes] /\ tail \in [Lists -> Nodes] /\ next \in [Nodes -> OL!Pointer]
      /\ observer \in [Nodes -> 0 .. MaxPushes] /\ free \subseteq Nodes
      /\ subscribed \in [Lists -> Seq(1 .. MaxPushes)]
      /\ pc \in [Threads -> Labels] /\ list \in [Threads -> Lists]
  BY <1>1 DEF NodesTyped, ThreadsTyped
<1> DEFINE q == P[l]
           r == Append(q, n)
           y == tail[l]
           Q == [P EXCEPT ![l] = r]
<1>6. /\ l \in Lists /\ n \in Nodes /\ next[n] = Null /\ observer[n] \in 1 .. MaxPushes /\ n \in H /\ n # Null
  BY <1>1, <1>4, <1>5, ObserverParameters, Zenon DEF HandsInv, Holding, Hands
<1>7. /\ \A k \in Lists : \A x \in Elements(P[k]) : x \notin free /\ x \notin H
      /\ \A x \in free : x \notin H
      /\ \A k, j \in Lists : k # j => \A x \in Elements(P[k]) : x \notin Elements(P[j])
  BY <1>3, PlacedFields, Zenon
<1>8. ASSUME NEW k \in Lists
      PROVE  /\ IsPath(next, head[k], P[k]) /\ Watched(observer, P[k], subscribed[k])
             /\ Len(P[k]) \in Nat \ {0} /\ P[k] \in Seq(Nodes) /\ Elements(P[k]) \subseteq Nodes /\ n \notin Elements(P[k])
  <2>1. IsPath(next, head[k], P[k]) /\ Watched(observer, P[k], subscribed[k])
    BY <1>3 DEF ChainsInv
  <2>2. Len(P[k]) \in Nat \ {0} /\ P[k] \in Seq(Nodes)
    BY <2>1, PathFields
  <2> QED
    BY <1>6, <1>7, <2>1, <2>2, ElementsWithin
<1>9. AppendAt(pc[t], next, y, q, n, m, after[t])
  BY <1>3 DEF AppendsInv
<1>10. m = q[Len(q)] /\ y = m /\ m \in Elements(q) /\ m \in Nodes
  <2>1. Behind(m, y, q)
    BY <1>4, <1>9 DEF AppendAt
  <2> DEFINE k == Len(q)
  <2>2. k \in Nat \ {0} /\ \A i \in 1 .. k : q[i] \in Nodes /\ q[i] \in Elements(q) /\ (next[q[i]] = Null <=> i = k)
    BY <1>6, <1>8, PathFields
  <2>3. PICK i \in 1 .. k, j \in 1 .. k : i <= j /\ m = q[i] /\ y = q[j]
    BY <2>1 DEF Behind
  <2>4. i = k
    BY <1>4, <2>2, <2>3
  <2> HIDE DEF k
  <2>5. j = k
    BY <2>2, <2>3, <2>4
  <2> QED
    BY <2>2, <2>3, <2>4, <2>5 DEF k
<1> HIDE DEF l, n, m, H, y
<1>11. /\ Len(r) = Len(q) + 1 /\ r[Len(q) + 1] = n /\ (\A i \in 1 .. Len(q) : r[i] = q[i]) /\ r \in Seq(Nodes)
       /\ Elements(r) = Elements(q) \cup {n}
  BY <1>6, <1>8, AppendFields, AppendElements
<1>12. Q \in [Lists -> Seq(Nodes)] /\ Q[l] = r /\ \A k \in Lists : k # l => Q[k] = P[k]
  BY <1>3, <1>6, <1>11
<1>13. /\ pc'[t] = "swing" /\ next'[m] = n /\ \A x \in Nodes : x # m => next'[x] = next[x]
  BY <1>4, <1>5, <1>10
<1>14. \A u \in Threads : u # t => pc'[u] = pc[u]
  BY <1>4, <1>5
<1>15. Extends(r, q)
  <2>1. Len(q) \in Nat
    BY <1>6, <1>8
  <2> HIDE DEF q, r
  <2>2. Len(r) \in Nat /\ Len(q) <= Len(r)
    BY <1>11, <2>1
  <2> QED
    BY <1>11, <2>2 DEF Extends
<1> HIDE DEF r, Q
<1>16. NodesTyped(head, tail, next, observer, free, subscribed, pushes)'
  <2> DEFINE o == observer[n]
             W == 1 .. MaxPushes
  <2>1. o \in W /\ subscribed \in [Lists -> Seq(W)]
    BY <1>5, <1>6
  <2>2. subscribed' = [subscribed EXCEPT ![l] = Append(@, o)]
    BY <1>4
  <2> HIDE DEF o, W
  <2>3. subscribed' \in [Lists -> Seq(W)]
    BY <1>6, <2>1, <2>2
  <2>4. subscribed' \in [Lists -> Seq(1 .. MaxPushes)]
    BY <2>3 DEF W
  <2>5. next' \in [Nodes -> OL!Pointer]
    BY <1>4, <1>5, <1>6, Zenon DEF OL!Pointer
  <2> QED
    BY <1>1, <1>4, <2>4, <2>5 DEF NodesTyped
<1>17. ThreadsTyped(pc, list, node, last, after)'
  <2>1. pc' \in [Threads -> Labels]
    BY <1>4, <1>5 DEF Labels
  <2> QED
    BY <1>1, <1>4, <2>1 DEF ThreadsTyped
<1>18. /\ ~ Holding(pc'[t]) /\ Holding(pc[t])
       /\ \A u \in Threads : Holding(pc'[u]) => Holding(pc[u]) /\ u # t
       /\ \A u \in Threads : Holding(pc[u]) /\ u # t => Holding(pc'[u])
  BY <1>4, <1>13, <1>14 DEF Holding
<1>19. \A u, w \in Threads : Holding(pc[u]) /\ Holding(pc[w]) /\ node[u] = node[w] => u = w
  BY <1>1 DEF HandsInv
<1>20. \A u \in Threads : Holding(pc[u]) => node[u] \in Nodes /\ next[node[u]] = Null /\ observer[node[u]] \in 1 .. MaxPushes
  BY <1>1 DEF HandsInv
<1>21. HandsInv(pc, node, next, observer)'
  <2>1. \A u \in Threads : Holding(pc[u]) => node[u] \in H
    BY DEF Hands, H
  <2>2. \A u \in Threads : Holding(pc[u]) => node[u] # m
    BY <1>6, <1>7, <1>10, <2>1
  <2>3. \A u \in Threads : Holding(pc'[u]) => node[u] \in Nodes /\ next'[node[u]] = Null /\ observer[node[u]] \in 1 .. MaxPushes
    BY <1>13, <1>18, <1>20, <2>2
  <2>4. \A u, w \in Threads : Holding(pc'[u]) /\ Holding(pc'[w]) /\ node[u] = node[w] => u = w
    BY <1>18, <1>19
  <2>5. node' = node /\ observer' = observer
    BY <1>4
  <2> QED
    BY <2>3, <2>4, <2>5 DEF HandsInv
<1>22. Hands(pc', node') = H \ {n}
  <2>1. node' = node
    BY <1>4
  <2>2. \A u \in Threads : Holding(pc[u]) /\ u # t => node[u] # n
    BY <1>18, <1>19 DEF n
  <2>3. Hands(pc', node) \subseteq H \ {n}
    BY <1>18, <2>2 DEF Hands, H
  <2>4. H \ {n} \subseteq Hands(pc', node)
    BY <1>18 DEF Hands, H, n
  <2> QED
    BY <2>1, <2>3, <2>4
<1>23. PlacedInv(Q, free', Hands(pc', node'))
  <2> DEFINE E(k) == Elements(P[k])
             F(k) == Elements(Q[k])
  <2>1. F(l) = E(l) \cup {n} /\ \A k \in Lists : k # l => F(k) = E(k)
    BY <1>11, <1>12
  <2>2. /\ \A k \in Lists : \A x \in E(k) : x \notin free /\ x \notin H
        /\ \A x \in free : x \notin H
        /\ \A k, j \in Lists : k # j => \A x \in E(k) : x \notin E(j)
        /\ \A k \in Lists : n \notin E(k)
        /\ \A x \in Nodes : x \in free \/ x \in H \/ \E k \in Lists : x \in E(k)
    BY <1>3, <1>7, <1>8 DEF PlacedInv
  <2> HIDE DEF E, F
  <2>3. \A k, j \in Lists : k # j => F(k) \cap F(j) = {}
    BY <1>6, <2>1, <2>2
  <2>4. \A k \in Lists : F(k) \cap free = {} /\ F(k) \cap (H \ {n}) = {}
    BY <1>6, <2>1, <2>2
  <2>5. (H \ {n}) \cap free = {}
    BY <2>2
  <2>6. \A x \in Nodes : x \in free \/ x \in (H \ {n}) \/ \E k \in Lists : x \in F(k)
    BY <1>6, <2>1, <2>2
  <2>7. PlacedInv(Q, free, H \ {n})
    BY <2>3, <2>4, <2>5, <2>6 DEF PlacedInv, F
  <2> QED
    BY <1>4, <1>22, <2>7, Zenon
<1>24. \A k \in Lists : k # l => \A x \in Elements(P[k]) : next'[x] = next[x]
  BY <1>6, <1>7, <1>8, <1>10, <1>13, Zenon
<1>25. ChainsInv(Q, head', next', observer', subscribed')
  <2> SUFFICES ASSUME NEW k \in Lists PROVE IsPath(next', head[k], Q[k]) /\ Watched(observer, Q[k], subscribed'[k])
    BY <1>4, Zenon DEF ChainsInv
  <2>1. CASE k = l
    <3>1. IsPath(next', head[l], r)
      BY <1>4, <1>5, <1>6, <1>8, <1>10, PathGrows, Zenon DEF r
    <3>2. Watched(observer, r, Append(subscribed[l], observer[n]))
      BY <1>6, <1>8, WatchedGrows DEF r
    <3>3. subscribed'[l] = Append(subscribed[l], observer[n])
      BY <1>4, <1>5, <1>6
    <3> QED
      BY <1>12, <2>1, <3>1, <3>2, <3>3
  <2>2. CASE k # l
    <3>1. IsPath(next', head[k], P[k])
      BY <1>8, <1>24, <2>2, PathStays
    <3>2. subscribed'[k] = subscribed[k]
      BY <1>4, <1>5, <2>2
    <3> QED
      BY <1>8, <1>12, <2>2, <3>1, <3>2
  <2> QED
    BY <2>1, <2>2
<1>26. TailsInv(Q, tail', pc', list', last')
  <2> SUFFICES ASSUME NEW k \in Lists PROVE TailAt(Q[k], tail[k], Lags(k, tail[k], pc', list, last))
    BY <1>4, Zenon DEF TailsInv
  <2>1. CASE k = l
    <3>1. Lags(l, y, pc', list, last)
      BY <1>10, <1>13 DEF Lags, l, m
    <3> DEFINE j == Len(q)
               G == Lags(l, y, pc', list, last)
    <3>2. j \in Nat \ {0} /\ Len(r) = j + 1 /\ r[j] = y
      <4>1. j \in Nat \ {0}
        BY <1>6, <1>8
      <4>2. j \in 1 .. j
        BY <4>1
      <4> QED
        BY <1>10, <1>11, <4>1, <4>2
    <3> HIDE DEF j, G
    <3>3. j \in 1 .. Len(r) /\ j = Len(r) - 1
      BY <3>2
    <3>4. TailAt(r, y, G)
      BY <3>1, <3>2, <3>3 DEF TailAt, G
    <3> QED
      BY <1>12, <2>1, <3>4 DEF G, y
  <2>2. CASE k # l
    <3>1. Lags(k, tail[k], pc, list, last) => Lags(k, tail[k], pc', list, last)
      BY <1>4, <1>14 DEF Lags
    <3>2. TailAt(P[k], tail[k], Lags(k, tail[k], pc, list, last))
      BY <1>3 DEF TailsInv
    <3> QED
      BY <1>12, <2>2, <3>1, <3>2, TailAtWeaker
  <2> QED
    BY <2>1, <2>2
<1>27. AppendsInv(Q, tail', next', pc', list', node', last', after')
  <2> SUFFICES ASSUME NEW u \in Threads
               PROVE  AppendAt(pc'[u], next', tail[list[u]], Q[list[u]], node[u], last[u], after[u])
    BY <1>4, Zenon DEF AppendsInv
  <2>1. CASE u = t
    <3>1. Behind(m, y, r)
      <4> DEFINE j == Len(q)
      <4>1. j \in Nat \ {0} /\ Len(r) = j + 1 /\ j \in 1 .. j
        <5>1. j \in Nat \ {0}
          BY <1>6, <1>8
        <5> QED
          BY <1>11, <5>1
      <4>2. r[j] = m /\ r[j] = y
        BY <1>10, <1>11, <4>1
      <4> HIDE DEF j
      <4>3. j \in 1 .. Len(r) /\ j <= j
        BY <4>1
      <4> QED
        BY <4>2, <4>3 DEF Behind
    <3>2. AppendAt("swing", next', y, r, n, m, after[t])
      BY <1>6, <1>13, <3>1 DEF AppendAt
    <3> QED
      BY <1>12, <1>13, <2>1, <3>2 DEF y, l, n, m
  <2>2. CASE u # t
    <3> DEFINE k == list[u]
               q0 == P[k]
    <3>1. AppendAt(pc[u], next, tail[k], q0, node[u], last[u], after[u]) /\ k \in Lists
      BY <1>3, <1>5 DEF AppendsInv
    <3>2. IsPath(next, head[k], q0) /\ Len(q0) \in Nat
      BY <1>8, <3>1
    <3>3. \A x \in Elements(q0) : next[x] # Null => next'[x] = next[x]
      BY <1>4, <1>8, <1>13, <3>1
    <3>4. Extends(Q[k], q0)
      <4>1. CASE k = l
        BY <1>12, <1>15, <4>1
      <4>2. CASE k # l
        BY <1>12, <3>1, <3>2, <4>2 DEF Extends
      <4> QED
        BY <4>1, <4>2
    <3> HIDE DEF q0, k
    <3>5. Further(tail[k], Q[k], tail[k], q0)
      BY <3>2, <3>4, SameTail
    <3>6. AppendAt(pc[u], next', tail[k], Q[k], node[u], last[u], after[u])
      BY <3>1, <3>2, <3>3, <3>4, <3>5, AppendStays
    <3> QED
      BY <1>14, <2>2, <3>6 DEF k
  <2> QED
    BY <2>1, <2>2
<1>28. NotifyInv(Q[Subject], observer', notifying', value', seen', due')
  <2> DEFINE q0 == P[Subject]
             r0 == Q[Subject]
  <2>1. Len(q0) \in Nat /\ NotifyInv(q0, observer, notifying, value, seen, due)
    BY <1>3, <1>8, ObserverParameters
  <2>2. Extends(r0, q0)
    <3>1. CASE Subject = l
      BY <1>12, <1>15, <3>1
    <3>2. CASE Subject # l
      BY <1>12, <2>1, <3>2, ObserverParameters DEF Extends
    <3> QED
      BY <3>1, <3>2
  <2> HIDE DEF q0, r0
  <2>3. NotifyInv(r0, observer, notifying, value, seen, due)
    BY <2>1, <2>2, NotifyExtends
  <2> QED
    BY <1>4, <2>3 DEF r0
<1>29. /\ (Q \in [Lists -> Seq(Nodes)])
       /\ ChainsInv(Q, head', next', observer', subscribed')
       /\ PlacedInv(Q, free', Hands(pc', node'))
       /\ TailsInv(Q, tail', pc', list', last')
       /\ AppendsInv(Q, tail', next', pc', list', node', last', after')
       /\ NotifyInv(Q[Subject], observer', notifying', value', seen', due')
  BY <1>12, <1>23, <1>25, <1>26, <1>27, <1>28
<1> QED
  BY <1>16, <1>17, <1>21, <1>29, Zenon DEF ObserversInv, Chained

-----------------------------------------------------------------------------
(* ObserverList: the notifications *)

Notifications == [node : Nodes, from : Nat]

MovedTo(f, n) == [f EXCEPT !.node = n]

LEMMA MovedToFields ==
  ASSUME NEW f \in Notifications, NEW n \in Nodes
  PROVE  MovedTo(f, n) \in Notifications /\ MovedTo(f, n).node = n /\ MovedTo(f, n).from = f.from
BY DEF MovedTo, Notifications

LEMMA ObserverFronts == ASSUME NEW q PROVE OL!Front(q) = MD!Front(q) /\ OL!Last(q) = MD!Last(q)
BY DEF OL!Front, MD!Front, OL!Last, MD!Last

(* An observer is called or is ahead of one of the notifications rest, or  *)
(* of the one that stands at n.                                            *)
Expects(o, q, rest, n, v) ==
  seen[o] = v \/ Ahead(o, n, q, observer) \/ \E k \in 1 .. Len(rest) : Ahead(o, rest[k].node, q, observer)

LEMMA WalksKeeps ==
  ASSUME NEW first, NEW q, IsPath(next, first, q), NEW names, Watched(observer, q, names),
         NEW rest \in Seq(Notifications), NEW f \in Notifications, NEW v \in 0 .. MaxValue, f.from \in 1 .. v,
         \A k \in 1 .. Len(rest) : StandsAt(rest[k], q) /\ rest[k].from \in 1 .. v,
         seen \in [1 .. MaxPushes -> Nat], NEW du, du \subseteq 1 .. MaxPushes,
         NEW n, NEW i \in 1 .. Len(q), n = q[i], \A o \in du : Expects(o, q, rest, n, v), OL!Walks(f, n, v, rest)
  PROVE  NotifyInv(q, observer, notifying', v, seen', du)
<1> DEFINE d == Len(q)
           z == Len(rest)
<1>1. /\ d \in Nat \ {0} /\ \A j \in 1 .. d : q[j] \in Nodes /\ (next[q[j]] = Null <=> j = d)
      /\ \A j \in 1 .. d : j # d => j + 1 \in 1 .. d /\ next[q[j]] = q[j + 1]
      /\ \A j, k \in 1 .. d : q[j] = q[k] => j = k
  BY PathFields
<1>2. \A j \in 2 .. d : observer[q[j]] \in 1 .. MaxPushes
  BY WatchedFields
<1>3. IF next[n] = Null
      THEN notifying' = rest /\ seen' = seen
      ELSE /\ notifying' = Append(rest, MovedTo(f, next[n]))
           /\ seen' = [seen EXCEPT ![observer[next[n]]] = v]
  BY DEF OL!Walks, OL!Shown, MovedTo
<1>4. MaxValue \in Nat /\ v \in Nat
  BY ObserverParameters
<1>5. CASE next[n] = Null
  <2>1. i = d
    BY <1>1, <1>5
  <2> HIDE DEF d, z
  <2>2. \A o : ~ Ahead(o, n, q, observer)
    <3> SUFFICES ASSUME NEW o, Ahead(o, n, q, observer) PROVE FALSE
      OBVIOUS
    <3>1. PICK j \in 1 .. d, k \in 1 .. d : j < k /\ n = q[j]
      BY DEF Ahead, d
    <3>2. q[i] = q[j] /\ i \in 1 .. d
      BY <3>1 DEF d
    <3>3. j = d
      BY <1>1, <2>1, <3>1, <3>2
    <3> QED
      BY <1>1, <3>1, <3>3
  <2>3. notifying' = rest /\ seen' = seen
    BY <1>3, <1>5
  <2>4. \A o \in du : seen[o] = v \/ \E k \in 1 .. Len(rest) : Ahead(o, rest[k].node, q, observer)
    BY <2>2 DEF Expects
  <2> QED
    BY <2>3, <2>4 DEF NotifyInv, Notifications
<1>6. CASE next[n] # Null
  <2> DEFINE x == next[n]
             g == MovedTo(f, x)
             fs == Append(rest, g)
             c == observer[x]
  <2>1. i # d /\ i + 1 \in 1 .. d /\ x = q[i + 1] /\ x \in Nodes /\ i + 1 \in 2 .. d
    <3>1. i \in 1 .. d
      OBVIOUS
    <3>2. i # d
      BY <1>1, <1>6, <3>1
    <3>3. i + 1 \in 1 .. d /\ x = q[i + 1]
      BY <1>1, <3>1, <3>2
    <3>4. i + 1 \in 2 .. d
      BY <1>1, <3>1, <3>3
    <3> QED
      BY <1>1, <3>2, <3>3, <3>4
  <2>2. notifying' = fs /\ seen' = [seen EXCEPT ![c] = v]
    BY <1>3, <1>6
  <2>3. g \in Notifications /\ g.node = x /\ g.from = f.from
    BY <2>1, MovedToFields
  <2>4. c \in 1 .. MaxPushes /\ v \in Nat
    BY <1>2, <1>4, <2>1
  <2> HIDE DEF c, g, x
  <2>5. fs \in Seq(Notifications) /\ Len(fs) = z + 1 /\ z \in Nat /\ fs[z + 1] = g /\ \A k \in 1 .. z : fs[k] = rest[k]
    BY <2>3, AppendFields
  <2> HIDE DEF d, fs, z
  <2>6. /\ seen' \in [1 .. MaxPushes -> Nat] /\ seen'[c] = v
        /\ \A o \in 1 .. MaxPushes : o # c => seen'[o] = seen[o]
    BY <2>2, <2>4
  <2>7. StandsAt(g, q)
    BY <2>1, <2>3 DEF StandsAt, d
  <2>8. z + 1 \in 1 .. z + 1 /\ (\A k \in 1 .. z + 1 : k \in 1 .. z \/ k = z + 1) /\ \A k \in 1 .. z : k \in 1 .. z + 1
    BY <2>5
  <2>9. \A k \in 1 .. Len(fs) : StandsAt(fs[k], q) /\ fs[k].from \in 1 .. v
    <3> SUFFICES ASSUME NEW k \in 1 .. z + 1 PROVE StandsAt(fs[k], q) /\ fs[k].from \in 1 .. v
      BY <2>5
    <3>1. CASE k = z + 1
      BY <2>3, <2>5, <2>7, <3>1
    <3>2. CASE k \in 1 .. z
      BY <2>5, <3>2 DEF z
    <3> QED
      BY <2>8, <3>1, <3>2
  <2>10. ASSUME NEW o \in du PROVE seen'[o] = v \/ \E k \in 1 .. Len(fs) : Ahead(o, fs[k].node, q, observer)
    <3>1. o \in 1 .. MaxPushes
      OBVIOUS
    <3>2. CASE seen[o] = v
      BY <2>6, <3>1, <3>2
    <3>3. CASE \E k \in 1 .. z : Ahead(o, rest[k].node, q, observer)
      BY <2>5, <2>8, <3>3
    <3>4. CASE Ahead(o, n, q, observer)
      <4>1. PICK j \in 1 .. d, k \in 1 .. d : j < k /\ n = q[j] /\ o = observer[q[k]]
        BY <3>4 DEF Ahead, d
      <4>2. q[i] = q[j] /\ i \in 1 .. d
        BY <4>1 DEF d
      <4>3. i = j
        BY <1>1, <4>1, <4>2
      <4>4. CASE k = i + 1
        BY <2>1, <2>6, <4>1, <4>4 DEF c
      <4>5. CASE k # i + 1
        <5>1. i + 1 < k
          BY <1>1, <4>1, <4>2, <4>3, <4>5
        <5>2. Ahead(o, x, q, observer)
          BY <2>1, <4>1, <5>1 DEF Ahead, d
        <5>3. Ahead(o, fs[z + 1].node, q, observer)
          BY <2>3, <2>5, <5>2
        <5> QED
          BY <2>5, <2>8, <5>3
      <4> QED
        BY <4>4, <4>5
    <3> QED
      BY <3>2, <3>3, <3>4 DEF Expects, z
  <2>11. NotifyInv(q, observer, fs, v, seen', du)
    BY <2>5, <2>6, <2>9, <2>10 DEF NotifyInv, Notifications
  <2> QED
    BY <2>2, <2>11
<1> QED
  BY <1>5, <1>6

LEMMA NotifyFields ==
  ASSUME NEW P, Chained(P), NEW q, q = P[Subject]
  PROVE  /\ notifying \in Seq(Notifications) /\ value \in 0 .. MaxValue /\ seen \in [1 .. MaxPushes -> Nat]
         /\ due \subseteq 1 .. MaxPushes
         /\ \A k \in 1 .. Len(notifying) : StandsAt(notifying[k], q) /\ notifying[k].from \in 1 .. value
         /\ \A o \in due : seen[o] = value \/ \E k \in 1 .. Len(notifying) : Ahead(o, notifying[k].node, q, observer)
         /\ IsPath(next, head[Subject], q) /\ Watched(observer, q, subscribed[Subject]) /\ MaxValue \in Nat /\ value \in Nat
<1>1. NotifyInv(q, observer, notifying, value, seen, due) /\ ChainsInv(P, head, next, observer, subscribed)
  BY DEF Chained
<1>2. IsPath(next, head[Subject], q) /\ Watched(observer, q, subscribed[Subject])
  BY <1>1, ObserverParameters DEF ChainsInv
<1>3. /\ notifying \in Seq(Notifications) /\ value \in 0 .. MaxValue /\ seen \in [1 .. MaxPushes -> Nat]
      /\ due \subseteq 1 .. MaxPushes
  BY <1>1 DEF NotifyInv, Notifications
<1>4. \A k \in 1 .. Len(notifying) : StandsAt(notifying[k], q) /\ notifying[k].from \in 1 .. value
  BY <1>1 DEF NotifyInv
<1>5. \A o \in due : seen[o] = value \/ \E k \in 1 .. Len(notifying) : Ahead(o, notifying[k].node, q, observer)
  BY <1>1, Zenon DEF NotifyInv
<1>6. MaxValue \in Nat /\ value \in Nat
  BY <1>3, ObserverParameters
<1> QED
  BY <1>2, <1>3, <1>4, <1>5, <1>6, Zenon

(* Only the notifications change.                                          *)
LEMMA NotifiedKeeps ==
  ASSUME ObserversInv, NEW P, Chained(P),
         UNCHANGED <<head, tail, next, observer, free, pc, list, node, last, after, pushes, subscribed>>,
         NotifyInv(P[Subject], observer, notifying', value', seen', due')
  PROVE  ObserversInv'
<1>1. Chained(P)'
  BY DEF Chained
<1>2. /\ NodesTyped(head, tail, next, observer, free, subscribed, pushes)'
      /\ ThreadsTyped(pc, list, node, last, after)' /\ HandsInv(pc, node, next, observer)'
  BY DEF ObserversInv
<1> QED
  BY <1>1, <1>2 DEF ObserversInv

LEMMA NotifyNextKeeps == ASSUME ObserversInv, OL!NotifyNext PROVE ObserversInv'
<1>1. PICK P : Chained(P)
  BY DEF ObserversInv
<1> DEFINE q == P[Subject]
           fs == notifying
           z == Len(fs)
           f == fs[z]
           rest == MD!Front(fs)
           n == f.node
<1>2. /\ fs \in Seq(Notifications) /\ value \in 0 .. MaxValue /\ seen \in [1 .. MaxPushes -> Nat]
      /\ due \subseteq 1 .. MaxPushes
      /\ \A k \in 1 .. Len(fs) : StandsAt(fs[k], q) /\ fs[k].from \in 1 .. value
      /\ \A o \in due : seen[o] = value \/ \E k \in 1 .. Len(fs) : Ahead(o, fs[k].node, q, observer)
      /\ IsPath(next, head[Subject], q) /\ Watched(observer, q, subscribed[Subject]) /\ MaxValue \in Nat
  BY <1>1, NotifyFields
<1>3. /\ fs # <<>> /\ OL!Walks(OL!Last(fs), OL!Last(fs).node, value, OL!Front(fs))
      /\ UNCHANGED <<head, tail, next, observer, free, pc, list, node, last, after, pushes, value, due, subscribed>>
  BY DEF OL!NotifyNext, OL!chain, OL!appendVars
<1>4. /\ MD!Last(fs) = f /\ z \in Nat \ {0} /\ f \in Notifications
      /\ rest \in Seq(Notifications) /\ Len(rest) = z - 1 /\ \A k \in 1 .. z - 1 : rest[k] = fs[k]
  BY <1>2, <1>3, FrontFields
<1>5. OL!Walks(f, n, value, rest)
  BY <1>3, <1>4, ObserverFronts
<1> HIDE DEF q, z, rest
<1>6. z \in 1 .. z /\ (\A k \in 1 .. z - 1 : k \in 1 .. z) /\ \A k \in 1 .. z : k \in 1 .. z - 1 \/ k = z
  BY <1>4
<1>7. StandsAt(f, q) /\ f.from \in 1 .. value
  BY <1>2, <1>6 DEF z
<1>8. PICK i \in 2 .. Len(q) : n = q[i]
  BY <1>7 DEF StandsAt
<1>9. i \in 1 .. Len(q)
  BY <1>8
<1>10. \A k \in 1 .. Len(rest) : StandsAt(rest[k], q) /\ rest[k].from \in 1 .. value
  <2> SUFFICES ASSUME NEW k \in 1 .. z - 1 PROVE StandsAt(rest[k], q) /\ rest[k].from \in 1 .. value
    BY <1>4
  <2>1. rest[k] = fs[k] /\ k \in 1 .. Len(fs)
    BY <1>4, <1>6, Zenon DEF z
  <2> QED
    BY <1>2, <2>1
<1>11. ASSUME NEW o \in due PROVE Expects(o, q, rest, n, value)
  <2>1. CASE seen[o] = value
    BY <2>1 DEF Expects
  <2>2. CASE seen[o] # value
    <3>1. PICK k \in 1 .. z : Ahead(o, fs[k].node, q, observer)
      BY <1>2, <2>2 DEF z
    <3>2. CASE k = z
      BY <3>1, <3>2 DEF Expects
    <3>3. CASE k # z
      <4>1. k \in 1 .. Len(rest) /\ rest[k] = fs[k]
        BY <1>4, <1>6, <3>3
      <4> QED
        BY <3>1, <4>1 DEF Expects
    <3> QED
      BY <3>2, <3>3
  <2> QED
    BY <2>1, <2>2
<1> HIDE DEF f, n
<1>12. NotifyInv(q, observer, notifying', value, seen', due)
  BY <1>2, <1>4, <1>5, <1>7, <1>8, <1>9, <1>10, <1>11, WalksKeeps, Zenon DEF f, n
<1>13. NotifyInv(q, observer, notifying', value', seen', due')
  BY <1>3, <1>12
<1> QED
  BY <1>1, <1>3, <1>13, NotifiedKeeps DEF q

LEMMA SetValueKeeps == ASSUME ObserversInv, OL!SetValue PROVE ObserversInv'
<1>1. PICK P : Chained(P)
  BY DEF ObserversInv
<1> DEFINE q == P[Subject]
           names == subscribed[Subject]
           n == head[Subject]
           v == value + 1
           f == [node |-> n, from |-> v]
           du == {names[i] : i \in 1 .. Len(names)}
<1>2. /\ notifying \in Seq(Notifications) /\ value \in 0 .. MaxValue /\ seen \in [1 .. MaxPushes -> Nat]
      /\ \A k \in 1 .. Len(notifying) : StandsAt(notifying[k], q) /\ notifying[k].from \in 1 .. value
      /\ IsPath(next, n, q) /\ Watched(observer, q, names) /\ MaxValue \in Nat /\ value \in Nat
  BY <1>1, NotifyFields
<1>3. /\ value < MaxValue /\ value' = v /\ due' = OL!ToSet(names) /\ OL!Walks(f, n, v, notifying)
      /\ UNCHANGED <<head, tail, next, observer, free, pc, list, node, last, after, pushes, subscribed>>
  BY DEF OL!SetValue, OL!chain, OL!appendVars
<1>4. /\ Len(q) \in Nat \ {0} /\ n = q[1] /\ 1 \in 1 .. Len(q) /\ n \in Nodes
  BY <1>2, PathFields
<1>5. /\ names \in Seq(1 .. MaxPushes) /\ Len(q) = Len(names) + 1 /\ Len(names) \in Nat
      /\ \A i \in 1 .. Len(names) : i + 1 \in 2 .. Len(q) /\ names[i] = observer[q[i + 1]]
      /\ \A i \in 2 .. Len(q) : observer[q[i]] \in 1 .. MaxPushes
  BY <1>2, WatchedFields
<1>6. due' = du
  <2>1. DOMAIN names = 1 .. Len(names)
    <3> DEFINE W == 1 .. MaxPushes
    <3>1. names \in Seq(W)
      BY <1>5
    <3> HIDE DEF W, names
    <3> QED
      BY <3>1
  <2> QED
    BY <1>3, <2>1 DEF OL!ToSet
<1>7. v \in 0 .. MaxValue /\ v \in 1 .. v /\ v \in Nat
  BY <1>2, <1>3
<1>8. f \in Notifications /\ f.from \in 1 .. v
  BY <1>4, <1>7 DEF Notifications
<1> HIDE DEF q, n, f, names
<1>9. \A k \in 1 .. Len(notifying) : StandsAt(notifying[k], q) /\ notifying[k].from \in 1 .. v
  <2> SUFFICES ASSUME NEW k \in 1 .. Len(notifying) PROVE notifying[k].from \in 1 .. v
    BY <1>2
  <2> DEFINE x == notifying[k].from
  <2>1. x \in 1 .. value
    BY <1>2
  <2> HIDE DEF x
  <2>2. x \in 1 .. v
    BY <1>2, <2>1
  <2> QED
    BY <2>2 DEF x
<1>10. ASSUME NEW o \in du
       PROVE  o \in 1 .. MaxPushes /\ Expects(o, q, notifying, n, v)
  <2>1. PICK i \in 1 .. Len(names) : o = names[i]
    OBVIOUS
  <2>2. o = observer[q[i + 1]] /\ i + 1 \in 2 .. Len(q)
    BY <1>5, <2>1
  <2>3. i + 1 \in 1 .. Len(q) /\ 1 < i + 1
    BY <1>4, <2>2
  <2>4. Ahead(o, n, q, observer)
    BY <1>4, <2>2, <2>3 DEF Ahead
  <2> QED
    BY <1>5, <2>2, <2>4 DEF Expects
<1> HIDE DEF du, v
<1>11. NotifyInv(q, observer, notifying', v, seen', du)
  <2>1. du \subseteq 1 .. MaxPushes
    BY <1>10
  <2> QED
    BY <1>2, <1>3, <1>4, <1>7, <1>8, <1>9, <1>10, <2>1, WalksKeeps, Zenon
<1>12. NotifyInv(q, observer, notifying', value', seen', due')
  BY <1>3, <1>6, <1>11
<1> QED
  BY <1>1, <1>3, <1>12, NotifiedKeeps DEF q

-----------------------------------------------------------------------------
(* ObserverList: whole lists, while nobody else uses them *)

LEMMA QuietFacts ==
  ASSUME ObserversInv, OL!Quiet, NEW P, Chained(P)
  PROVE  /\ notifying = <<>> /\ (\A t \in Threads : pc[t] = "idle") /\ Hands(pc, node) = {}
         /\ (\A o \in due : seen[o] = value)
         /\ \A l \in Lists : TailAt(P[l], tail[l], FALSE)
         /\ \A l \in Lists : OL!ChainFrom(head[l]) = Elements(P[l])
         /\ \A l \in Lists : IsPath(next, head[l], P[l]) /\ Watched(observer, P[l], subscribed[l])
<1>1. notifying = <<>> /\ \A t \in Threads : pc[t] = "idle"
  BY DEF OL!Quiet, OL!At
<1>2. Hands(pc, node) = {}
  BY <1>1 DEF Hands, Holding
<1>3. \A o \in due : seen[o] = value
  <2>1. \A o \in due : seen[o] = value \/ \E k \in 1 .. Len(notifying) : Ahead(o, notifying[k].node, P[Subject], observer)
    BY NotifyFields
  <2>2. 1 .. Len(notifying) = {}
    BY <1>1
  <2> QED
    BY <2>1, <2>2
<1>4. ASSUME NEW l \in Lists
      PROVE  /\ IsPath(next, head[l], P[l]) /\ Watched(observer, P[l], subscribed[l])
             /\ TailAt(P[l], tail[l], FALSE) /\ OL!ChainFrom(head[l]) = Elements(P[l])
  <2>1. /\ ChainsInv(P, head, next, observer, subscribed) /\ TailsInv(P, tail, pc, list, last)
        /\ next \in [Nodes -> OL!Pointer]
    BY DEF Chained, ObserversInv, NodesTyped
  <2>2. IsPath(next, head[l], P[l]) /\ Watched(observer, P[l], subscribed[l])
    BY <2>1 DEF ChainsInv
  <2>3. TailAt(P[l], tail[l], Lags(l, tail[l], pc, list, last))
    BY <2>1 DEF TailsInv
  <2>4. ~ Lags(l, tail[l], pc, list, last)
    BY <1>1 DEF Lags
  <2>5. TailAt(P[l], tail[l], FALSE)
    BY <2>3, <2>4 DEF TailAt
  <2>6. OL!ChainFrom(head[l]) = Elements(P[l])
    BY <2>1, <2>2, ChainNodes
  <2> QED
    BY <2>2, <2>5, <2>6, Zenon
<1> QED
  BY <1>1, <1>2, <1>3, <1>4, Zenon

LEMMA WholeListsKeep ==
  ASSUME ObserversInv, OL!Quiet, NodesTyped(head, tail, next, observer, free, subscribed, pushes)',
         UNCHANGED <<pc, list, node, last, after, pushes, value, notifying, seen, due>>,
         NEW Q, Q \in [Lists -> Seq(Nodes)], ChainsInv(Q, head', next', observer', subscribed'), PlacedInv(Q, free', {}),
         \A l \in Lists : TailAt(Q[l], tail'[l], FALSE)
  PROVE  ObserversInv'
<1>1. PICK P : Chained(P)
  BY DEF ObserversInv
<1>2. /\ notifying = <<>> /\ (\A t \in Threads : pc[t] = "idle") /\ Hands(pc, node) = {}
      /\ (\A o \in due : seen[o] = value)
  BY <1>1, QuietFacts, Zenon
<1>3. ThreadsTyped(pc, list, node, last, after)'
  BY DEF ObserversInv
<1>4. HandsInv(pc, node, next, observer)'
  BY <1>2 DEF HandsInv, Holding
<1>5. PlacedInv(Q, free', Hands(pc', node'))
  BY <1>2
<1>6. TailsInv(Q, tail', pc', list', last')
  <2> SUFFICES ASSUME NEW l \in Lists PROVE TailAt(Q[l], tail'[l], Lags(l, tail'[l], pc', list', last'))
    BY DEF TailsInv
  <2>1. FALSE => Lags(l, tail'[l], pc', list', last')
    OBVIOUS
  <2> QED
    BY <2>1, TailAtWeaker, Zenon
<1>7. AppendsInv(Q, tail', next', pc', list', node', last', after')
  BY <1>2 DEF AppendsInv, AppendAt
<1>8. NotifyInv(Q[Subject], observer', notifying', value', seen', due')
  <2>1. /\ notifying \in Seq(Notifications) /\ value \in 0 .. MaxValue /\ seen \in [1 .. MaxPushes -> Nat]
        /\ due \subseteq 1 .. MaxPushes
    BY <1>1, NotifyFields
  <2>2. 1 .. Len(notifying) = {}
    BY <1>2
  <2>3. NotifyInv(Q[Subject], observer', notifying, value, seen, due)
    BY <1>2, <2>1, <2>2 DEF NotifyInv, Notifications
  <2> QED
    BY <2>3
<1> QED
  BY <1>3, <1>4, <1>5, <1>6, <1>7, <1>8 DEF ObserversInv, Chained

(* What the operations on whole lists start from.                          *)
LEMMA QuietChains ==
  ASSUME ObserversInv, OL!Quiet, NEW P, Chained(P)
  PROVE  /\ P \in [Lists -> Seq(Nodes)] /\ head \in [Lists -> Nodes] /\ tail \in [Lists -> Nodes]
         /\ next \in [Nodes -> OL!Pointer] /\ observer \in [Nodes -> 0 .. MaxPushes] /\ free \subseteq Nodes
         /\ subscribed \in [Lists -> Seq(1 .. MaxPushes)] /\ pushes \in 0 .. MaxPushes
         /\ Null \in OL!Pointer /\ 0 \in 0 .. MaxPushes
         /\ \A l \in Lists : Elements(P[l]) \subseteq Nodes /\ head[l] \in Elements(P[l])
         /\ \A l \in Lists : \A x \in Elements(P[l]) : x \notin free
         /\ \A l, k \in Lists : l # k => \A x \in Elements(P[l]) : x \notin Elements(P[k])
         /\ \A x \in Nodes : x \in free \/ \E l \in Lists : x \in Elements(P[l])
<1>1. P \in [Lists -> Seq(Nodes)] /\ PlacedInv(P, free, Hands(pc, node)) /\ Hands(pc, node) = {}
  BY QuietFacts, Zenon DEF Chained
<1>2. PlacedInv(P, free, {})
  BY <1>1
<1>3. /\ head \in [Lists -> Nodes] /\ tail \in [Lists -> Nodes]
      /\ next \in [Nodes -> OL!Pointer] /\ observer \in [Nodes -> 0 .. MaxPushes] /\ free \subseteq Nodes
      /\ subscribed \in [Lists -> Seq(1 .. MaxPushes)] /\ pushes \in 0 .. MaxPushes
  BY DEF ObserversInv, NodesTyped
<1>4. Null \in OL!Pointer /\ 0 \in 0 .. MaxPushes
  BY ObserverParameters DEF OL!Pointer
<1>5. ASSUME NEW l \in Lists PROVE Elements(P[l]) \subseteq Nodes /\ head[l] \in Elements(P[l])
  <2>1. IsPath(next, head[l], P[l])
    BY QuietFacts, Zenon
  <2>2. head[l] \in Elements(P[l]) /\ P[l] \in Seq(Nodes)
    BY <2>1, PathFields
  <2> QED
    BY <2>2, ElementsWithin
<1>6. /\ \A l \in Lists : \A x \in Elements(P[l]) : x \notin free
      /\ \A l, k \in Lists : l # k => \A x \in Elements(P[l]) : x \notin Elements(P[k])
  BY <1>2, PlacedFields
<1>7. \A x \in Nodes : x \in free \/ \E l \in Lists : x \in Elements(P[l])
  BY <1>2 DEF PlacedInv
<1> QED
  BY <1>1, <1>3, <1>4, <1>5, <1>6, <1>7

LEMMA ClearListKeeps == ASSUME ObserversInv, NEW l \in Lists, OL!Clear(l) PROVE ObserversInv'
<1>1. PICK P : Chained(P)
  BY DEF ObserversInv
<1> DEFINE h == head[l]
           r == <<h>>
           Q == [P EXCEPT ![l] = r]
<1>2. OL!Quiet
  BY DEF OL!Clear
<1>3. /\ P \in [Lists -> Seq(Nodes)] /\ head \in [Lists -> Nodes] /\ tail \in [Lists -> Nodes]
      /\ next \in [Nodes -> OL!Pointer] /\ observer \in [Nodes -> 0 .. MaxPushes] /\ free \subseteq Nodes
      /\ subscribed \in [Lists -> Seq(1 .. MaxPushes)] /\ pushes \in 0 .. MaxPushes
      /\ Null \in OL!Pointer
      /\ \A k \in Lists : Elements(P[k]) \subseteq Nodes /\ head[k] \in Elements(P[k])
      /\ \A k \in Lists : \A x \in Elements(P[k]) : x \notin free
      /\ \A j, k \in Lists : j # k => \A x \in Elements(P[j]) : x \notin Elements(P[k])
      /\ \A x \in Nodes : x \in free \/ \E k \in Lists : x \in Elements(P[k])
  BY <1>1, <1>2, QuietChains, Zenon
<1>4. /\ \A k \in Lists : TailAt(P[k], tail[k], FALSE)
      /\ \A k \in Lists : OL!ChainFrom(head[k]) = Elements(P[k])
      /\ \A k \in Lists : IsPath(next, head[k], P[k]) /\ Watched(observer, P[k], subscribed[k])
  BY <1>1, <1>2, QuietFacts, Zenon
<1>5. /\ free' = free \cup (Elements(P[l]) \ {h}) /\ next' = [next EXCEPT ![h] = Null]
      /\ tail' = [tail EXCEPT ![l] = h] /\ subscribed' = [subscribed EXCEPT ![l] = <<>>]
      /\ UNCHANGED <<head, observer, pc, list, node, last, after, pushes, value, notifying, seen, due>>
  BY <1>4 DEF OL!Clear, OL!appendVars, OL!notifyVars
<1>6. h \in Nodes /\ h \in Elements(P[l])
  BY <1>3
<1> HIDE DEF h
<1>7. next'[h] = Null /\ \A x \in Nodes : x # h => next'[x] = next[x]
  BY <1>3, <1>5, <1>6
<1>8. /\ IsPath(next', h, r) /\ Elements(r) = {h} /\ Watched(observer, r, <<>>) /\ TailAt(r, h, FALSE)
  BY <1>6, <1>7, DummyPath, Zenon
<1>9. r \in Seq(Nodes)
  BY <1>6
<1> HIDE DEF r
<1>10. Q \in [Lists -> Seq(Nodes)] /\ Q[l] = r /\ \A k \in Lists : k # l => Q[k] = P[k]
  BY <1>3, <1>9
<1> HIDE DEF Q
<1>11. NodesTyped(head, tail, next, observer, free, subscribed, pushes)'
  <2> DEFINE W == 1 .. MaxPushes
  <2>1. subscribed \in [Lists -> Seq(W)]
    BY <1>3
  <2> HIDE DEF W
  <2>2. subscribed' \in [Lists -> Seq(W)]
    BY <1>5, <2>1
  <2>3. subscribed' \in [Lists -> Seq(1 .. MaxPushes)]
    BY <2>2 DEF W
  <2>4. next' \in [Nodes -> OL!Pointer] /\ tail' \in [Lists -> Nodes] /\ free' \subseteq Nodes
    BY <1>3, <1>5, <1>6, Zenon
  <2> QED
    BY <1>3, <1>5, <2>3, <2>4, Zenon DEF NodesTyped
<1>12. /\ tail'[l] = h /\ subscribed'[l] = <<>>
       /\ \A k \in Lists : k # l => tail'[k] = tail[k] /\ subscribed'[k] = subscribed[k]
  BY <1>3, <1>5
<1>13. ChainsInv(Q, head', next', observer', subscribed')
  <2> SUFFICES ASSUME NEW k \in Lists PROVE IsPath(next', head[k], Q[k]) /\ Watched(observer, Q[k], subscribed'[k])
    BY <1>5, Zenon DEF ChainsInv
  <2>1. CASE k = l
    BY <1>8, <1>10, <1>12, <2>1 DEF h
  <2>2. CASE k # l
    <3>1. \A x \in Elements(P[k]) : next'[x] = next[x]
      <4>1. h \notin Elements(P[k]) /\ Elements(P[k]) \subseteq Nodes
        BY <1>3, <1>6, <2>2
      <4> QED
        BY <1>7, <4>1
    <3>2. IsPath(next', head[k], P[k])
      BY <1>4, <3>1, PathStays
    <3> QED
      BY <1>4, <1>10, <1>12, <2>2, <3>2
  <2> QED
    BY <2>1, <2>2
<1>14. PlacedInv(Q, free', {})
  <2> DEFINE E(k) == Elements(P[k])
             F(k) == Elements(Q[k])
  <2>1. F(l) = {h} /\ \A k \in Lists : k # l => F(k) = E(k)
    BY <1>8, <1>10
  <2>2. /\ \A k \in Lists : \A x \in E(k) : x \notin free
        /\ \A k, j \in Lists : k # j => \A x \in E(k) : x \notin E(j)
        /\ \A x \in Nodes : x \in free \/ \E k \in Lists : x \in E(k)
        /\ h \in E(l) /\ free' = free \cup (E(l) \ {h})
    BY <1>3, <1>5, <1>6
  <2> HIDE DEF E, F
  <2>3. \A k, j \in Lists : k # j => F(k) \cap F(j) = {}
    BY <2>1, <2>2
  <2>4. \A k \in Lists : F(k) \cap free' = {}
    BY <2>1, <2>2
  <2>5. \A x \in Nodes : x \in free' \/ \E k \in Lists : x \in F(k)
    <3> SUFFICES ASSUME NEW x \in Nodes, x \notin free' PROVE \E k \in Lists : x \in F(k)
      OBVIOUS
    <3>1. PICK k \in Lists : x \in E(k)
      BY <2>2
    <3>2. CASE k = l
      BY <2>1, <2>2, <3>1, <3>2
    <3>3. CASE k # l
      BY <2>1, <3>1, <3>3
    <3> QED
      BY <3>2, <3>3
  <2> QED
    BY <2>3, <2>4, <2>5 DEF PlacedInv, F
<1>15. \A k \in Lists : TailAt(Q[k], tail'[k], FALSE)
  BY <1>4, <1>8, <1>10, <1>12, Zenon
<1> QED
  BY <1>2, <1>5, <1>10, <1>11, <1>13, <1>14, <1>15, WholeListsKeep, Zenon

LEMMA SwapListsKeep == ASSUME ObserversInv, NEW l \in Lists, NEW k \in Lists, OL!Swap(l, k) PROVE ObserversInv'
<1>1. PICK P : Chained(P)
  BY DEF ObserversInv
<1> DEFINE Q == [P EXCEPT ![l] = P[k], ![k] = P[l]]
<1>2. OL!Quiet
  BY DEF OL!Swap
<1>3. /\ P \in [Lists -> Seq(Nodes)] /\ head \in [Lists -> Nodes] /\ tail \in [Lists -> Nodes]
      /\ next \in [Nodes -> OL!Pointer] /\ observer \in [Nodes -> 0 .. MaxPushes] /\ free \subseteq Nodes
      /\ subscribed \in [Lists -> Seq(1 .. MaxPushes)] /\ pushes \in 0 .. MaxPushes
      /\ \A j \in Lists : \A x \in Elements(P[j]) : x \notin free
      /\ \A i, j \in Lists : i # j => \A x \in Elements(P[i]) : x \notin Elements(P[j])
      /\ \A x \in Nodes : x \in free \/ \E j \in Lists : x \in Elements(P[j])
  BY <1>1, <1>2, QuietChains, Zenon
<1>4. /\ \A j \in Lists : TailAt(P[j], tail[j], FALSE)
      /\ \A j \in Lists : IsPath(next, head[j], P[j]) /\ Watched(observer, P[j], subscribed[j])
  BY <1>1, <1>2, QuietFacts, Zenon
<1>5. /\ l # k
      /\ head' = [head EXCEPT ![l] = head[k], ![k] = head[l]] /\ tail' = [tail EXCEPT ![l] = tail[k], ![k] = tail[l]]
      /\ subscribed' = [subscribed EXCEPT ![l] = subscribed[k], ![k] = subscribed[l]]
      /\ UNCHANGED <<next, observer, free, pc, list, node, last, after, pushes, value, notifying, seen, due>>
  BY DEF OL!Swap, OL!appendVars, OL!notifyVars
<1>6. Q \in [Lists -> Seq(Nodes)] /\ Q[l] = P[k] /\ Q[k] = P[l] /\ \A j \in Lists : j # l /\ j # k => Q[j] = P[j]
  BY <1>3, <1>5, Zenon
<1>7. /\ head'[l] = head[k] /\ head'[k] = head[l] /\ \A j \in Lists : j # l /\ j # k => head'[j] = head[j]
  BY <1>3, <1>5
<1>8. /\ tail'[l] = tail[k] /\ tail'[k] = tail[l] /\ \A j \in Lists : j # l /\ j # k => tail'[j] = tail[j]
  BY <1>3, <1>5
<1> DEFINE W == Seq(1 .. MaxPushes)
<1>9. subscribed \in [Lists -> W]
  BY <1>3
<1> HIDE DEF Q, W
<1>10. /\ subscribed'[l] = subscribed[k] /\ subscribed'[k] = subscribed[l]
       /\ \A j \in Lists : j # l /\ j # k => subscribed'[j] = subscribed[j]
       /\ subscribed' \in [Lists -> W]
  BY <1>5, <1>9
<1>11. NodesTyped(head, tail, next, observer, free, subscribed, pushes)'
  <2>1. head' \in [Lists -> Nodes] /\ tail' \in [Lists -> Nodes]
    BY <1>3, <1>5, Zenon
  <2> QED
    BY <1>3, <1>5, <1>10, <2>1, Zenon DEF NodesTyped, W
<1> DEFINE other(j) == IF j = l THEN k ELSE IF j = k THEN l ELSE j
<1>12. \A j \in Lists : /\ other(j) \in Lists /\ Q[j] = P[other(j)] /\ head'[j] = head[other(j)]
                        /\ tail'[j] = tail[other(j)] /\ subscribed'[j] = subscribed[other(j)]
  BY <1>5, <1>6, <1>7, <1>8, <1>10, Zenon
<1>13. /\ \A i, j \in Lists : other(i) = other(j) => i = j
       /\ \A j \in Lists : other(j) \in Lists /\ other(other(j)) = j
  BY <1>5
<1> HIDE DEF other
<1>14. ChainsInv(Q, head', next', observer', subscribed')
  BY <1>4, <1>5, <1>12, Zenon DEF ChainsInv
<1>15. PlacedInv(Q, free', {})
  <2> DEFINE E(j) == Elements(P[j])
             F(j) == Elements(Q[j])
  <2>1. \A j \in Lists : F(j) = E(other(j))
    BY <1>12
  <2>2. /\ \A j \in Lists : \A x \in E(j) : x \notin free
        /\ \A i, j \in Lists : i # j => \A x \in E(i) : x \notin E(j)
        /\ \A x \in Nodes : x \in free \/ \E j \in Lists : x \in E(j)
    BY <1>3
  <2> HIDE DEF E, F
  <2>3. \A i, j \in Lists : i # j => F(i) \cap F(j) = {}
    BY <1>13, <2>1, <2>2
  <2>4. \A j \in Lists : F(j) \cap free = {}
    BY <1>13, <2>1, <2>2
  <2>5. \A x \in Nodes : x \in free \/ \E j \in Lists : x \in F(j)
    <3> SUFFICES ASSUME NEW x \in Nodes, x \notin free PROVE \E j \in Lists : x \in F(j)
      OBVIOUS
    <3>1. PICK j \in Lists : x \in E(j)
      BY <2>2
    <3>2. other(j) \in Lists /\ other(other(j)) = j
      BY <1>13
    <3> QED
      BY <2>1, <3>1, <3>2
  <2>6. free' = free
    BY <1>5
  <2> QED
    BY <2>3, <2>4, <2>5, <2>6 DEF PlacedInv, F
<1>16. \A j \in Lists : TailAt(Q[j], tail'[j], FALSE)
  BY <1>4, <1>12, Zenon
<1> QED
  BY <1>2, <1>5, <1>6, <1>11, <1>14, <1>15, <1>16, WholeListsKeep, Zenon

LEMMA MoveListKeeps ==
  ASSUME ObserversInv, NEW l \in Lists, NEW k \in Lists, OL!MoveAssign(l, k) PROVE ObserversInv'
<1>1. PICK P : Chained(P)
  BY DEF ObserversInv
<1> DEFINE n == OL!NewNode
           r == <<n>>
           Q == [P EXCEPT ![l] = P[k], ![k] = r]
<1>2. OL!Quiet
  BY DEF OL!MoveAssign
<1>3. /\ P \in [Lists -> Seq(Nodes)] /\ head \in [Lists -> Nodes] /\ tail \in [Lists -> Nodes]
      /\ next \in [Nodes -> OL!Pointer] /\ observer \in [Nodes -> 0 .. MaxPushes] /\ free \subseteq Nodes
      /\ subscribed \in [Lists -> Seq(1 .. MaxPushes)] /\ pushes \in 0 .. MaxPushes
      /\ Null \in OL!Pointer /\ 0 \in 0 .. MaxPushes
      /\ \A j \in Lists : Elements(P[j]) \subseteq Nodes
      /\ \A j \in Lists : \A x \in Elements(P[j]) : x \notin free
      /\ \A i, j \in Lists : i # j => \A x \in Elements(P[i]) : x \notin Elements(P[j])
      /\ \A x \in Nodes : x \in free \/ \E j \in Lists : x \in Elements(P[j])
  BY <1>1, <1>2, QuietChains, Zenon
<1>4. /\ \A j \in Lists : TailAt(P[j], tail[j], FALSE)
      /\ \A j \in Lists : OL!ChainFrom(head[j]) = Elements(P[j])
      /\ \A j \in Lists : IsPath(next, head[j], P[j]) /\ Watched(observer, P[j], subscribed[j])
  BY <1>1, <1>2, QuietFacts, Zenon
<1>5. /\ l # k /\ free # {}
      /\ head' = [head EXCEPT ![l] = head[k], ![k] = n] /\ tail' = [tail EXCEPT ![l] = tail[k], ![k] = n]
      /\ free' = (free \ {n}) \cup Elements(P[l])
      /\ next' = [next EXCEPT ![n] = Null] /\ observer' = [observer EXCEPT ![n] = 0]
      /\ subscribed' = [subscribed EXCEPT ![l] = subscribed[k], ![k] = <<>>]
      /\ UNCHANGED <<pc, list, node, last, after, pushes, value, notifying, seen, due>>
  BY <1>4 DEF OL!MoveAssign, OL!MovedTail, OL!appendVars, OL!notifyVars
<1>6. n \in free /\ n \in Nodes
  BY <1>3, <1>5 DEF OL!NewNode
<1> HIDE DEF n
<1>7. next'[n] = Null /\ \A x \in Nodes : x # n => next'[x] = next[x] /\ observer'[x] = observer[x]
  BY <1>3, <1>5, <1>6
<1>8. IsPath(next', n, r) /\ Elements(r) = {n} /\ Watched(observer', r, <<>>) /\ TailAt(r, n, FALSE)
  BY <1>6, <1>7, DummyPath, Zenon
<1>9. r \in Seq(Nodes)
  BY <1>6
<1> HIDE DEF r
<1>10. Q \in [Lists -> Seq(Nodes)] /\ Q[l] = P[k] /\ Q[k] = r /\ \A j \in Lists : j # l /\ j # k => Q[j] = P[j]
  BY <1>3, <1>5, <1>9, Zenon
<1>11. /\ head'[l] = head[k] /\ head'[k] = n /\ \A j \in Lists : j # l /\ j # k => head'[j] = head[j]
  BY <1>3, <1>5
<1>12. /\ tail'[l] = tail[k] /\ tail'[k] = n /\ \A j \in Lists : j # l /\ j # k => tail'[j] = tail[j]
  BY <1>3, <1>5
<1> DEFINE S == 1 .. MaxPushes
           W == Seq(S)
<1>13. subscribed \in [Lists -> W]
  BY <1>3
<1> HIDE DEF S
<1>14. <<>> \in W
  OBVIOUS
<1> HIDE DEF Q, W
<1>15. /\ subscribed'[l] = subscribed[k] /\ subscribed'[k] = <<>>
       /\ \A j \in Lists : j # l /\ j # k => subscribed'[j] = subscribed[j]
       /\ subscribed' \in [Lists -> W]
  BY <1>5, <1>13, <1>14
<1>16. NodesTyped(head, tail, next, observer, free, subscribed, pushes)'
  <2>1. head' \in [Lists -> Nodes] /\ tail' \in [Lists -> Nodes]
    BY <1>3, <1>5, <1>6, Zenon
  <2>2. next' \in [Nodes -> OL!Pointer] /\ observer' \in [Nodes -> 0 .. MaxPushes]
    BY <1>3, <1>5, <1>6
  <2>3. free' \subseteq Nodes
    BY <1>3, <1>5
  <2> QED
    BY <1>3, <1>5, <1>15, <2>1, <2>2, <2>3, Zenon DEF NodesTyped, W, S
<1>17. ASSUME NEW j \in Lists PROVE IsPath(next', head[j], P[j]) /\ Watched(observer', P[j], subscribed[j])
  <2>1. \A x \in Elements(P[j]) : next'[x] = next[x] /\ observer'[x] = observer[x]
    BY <1>3, <1>6, <1>7, Zenon
  <2>2. IsPath(next, head[j], P[j]) /\ Watched(observer, P[j], subscribed[j])
    BY <1>4
  <2>3. IsPath(next', head[j], P[j])
    BY <2>1, <2>2, PathStays
  <2>4. Watched(observer', P[j], subscribed[j])
    BY <2>1, <2>2, WatchedStays
  <2> QED
    BY <2>3, <2>4
<1>18. ChainsInv(Q, head', next', observer', subscribed')
  <2> SUFFICES ASSUME NEW j \in Lists PROVE IsPath(next', head'[j], Q[j]) /\ Watched(observer', Q[j], subscribed'[j])
    BY DEF ChainsInv
  <2>1. CASE j = l
    BY <1>10, <1>11, <1>15, <1>17, <2>1
  <2>2. CASE j = k
    BY <1>8, <1>10, <1>11, <1>15, <2>2
  <2>3. CASE j # l /\ j # k
    BY <1>10, <1>11, <1>15, <1>17, <2>3, Zenon
  <2> QED
    BY <2>1, <2>2, <2>3
<1>19. PlacedInv(Q, free', {})
  <2> DEFINE E(j) == Elements(P[j])
             F(j) == Elements(Q[j])
  <2>1. F(l) = E(k) /\ F(k) = {n} /\ \A j \in Lists : j # l /\ j # k => F(j) = E(j)
    BY <1>8, <1>10
  <2>2. /\ \A j \in Lists : \A x \in E(j) : x \notin free
        /\ \A i, j \in Lists : i # j => \A x \in E(i) : x \notin E(j)
        /\ \A x \in Nodes : x \in free \/ \E j \in Lists : x \in E(j)
        /\ n \in free /\ free' = (free \ {n}) \cup E(l)
    BY <1>3, <1>5, <1>6
  <2> HIDE DEF E, F
  <2>3. ASSUME NEW i \in Lists, NEW j \in Lists, i # j PROVE F(i) \cap F(j) = {}
    BY <1>5, <2>1, <2>2, <2>3
  <2>4. \A j \in Lists : F(j) \cap free' = {}
    BY <1>5, <2>1, <2>2
  <2>5. \A x \in Nodes : x \in free' \/ \E j \in Lists : x \in F(j)
    <3> SUFFICES ASSUME NEW x \in Nodes, x \notin free' PROVE \E j \in Lists : x \in F(j)
      OBVIOUS
    <3>1. CASE x = n
      BY <2>1, <3>1
    <3>2. CASE x # n
      <4>1. PICK j \in Lists : x \in E(j)
        BY <2>2, <3>2
      <4>2. j # l
        BY <2>2, <4>1
      <4>3. CASE j = k
        BY <2>1, <4>1, <4>3
      <4>4. CASE j # k
        BY <2>1, <4>1, <4>2, <4>4
      <4> QED
        BY <4>3, <4>4
    <3> QED
      BY <3>1, <3>2
  <2> QED
    BY <2>3, <2>4, <2>5 DEF PlacedInv, F
<1>20. \A j \in Lists : TailAt(Q[j], tail'[j], FALSE)
  BY <1>4, <1>8, <1>10, <1>12, Zenon
<1> QED
  BY <1>2, <1>5, <1>10, <1>16, <1>18, <1>19, <1>20, WholeListsKeep, Zenon

-----------------------------------------------------------------------------
(* ObserverList: the invariant holds, and with it what is promised *)

LEMMA ObserversInit == OL!Init => ObserversInv
<1> SUFFICES ASSUME OL!Init PROVE ObserversInv
  OBVIOUS
<1> DEFINE Apart(h) == \A l, k \in Lists : l # k => h[l] # h[k]
           P == [l \in Lists |-> <<head[l]>>]
<1>1. /\ head = CHOOSE h \in [Lists -> Nodes] : Apart(h)
      /\ tail = head /\ next = [n \in Nodes |-> Null] /\ observer = [n \in Nodes |-> 0]
      /\ free = Nodes \ {head[l] : l \in Lists}
      /\ pc = [t \in Threads |-> "idle"] /\ list = [t \in Threads |-> Subject]
      /\ node = [t \in Threads |-> Null] /\ last = [t \in Threads |-> Null] /\ after = [t \in Threads |-> Null]
      /\ pushes = 0 /\ value = 0 /\ notifying = <<>> /\ seen = [o \in 1 .. MaxPushes |-> 0]
      /\ subscribed = [l \in Lists |-> <<>>] /\ due = {}
  BY DEF OL!Init
<1>2. /\ Subject \in Lists /\ MaxPushes \in Nat /\ MaxValue \in Nat /\ Null \in OL!Pointer
      /\ \E h \in [Lists -> Nodes] : Apart(h)
  BY ObserverParameters DEF OL!Pointer
<1> HIDE DEF Apart
<1>3. head \in [Lists -> Nodes] /\ Apart(head)
  BY <1>1, <1>2
<1>4. \A l, k \in Lists : l # k => head[l] # head[k]
  BY <1>3 DEF Apart
<1>5. \A l \in Lists : head[l] \in Nodes /\ next[head[l]] = Null
  BY <1>1, <1>3
<1>6. \A l \in Lists : P[l] = <<head[l]>> /\ <<head[l]>> \in Seq(Nodes)
  BY <1>5
<1>7. P \in [Lists -> Seq(Nodes)]
  BY <1>6, Zenon
<1> HIDE DEF P
<1>8. ASSUME NEW l \in Lists
      PROVE  /\ IsPath(next, head[l], P[l]) /\ Elements(P[l]) = {head[l]} /\ Watched(observer, P[l], <<>>)
             /\ \A G : TailAt(P[l], head[l], G)
  <2> DEFINE x == head[l]
             q == <<x>>
  <2>1. P[l] = q /\ x \in Nodes /\ next[x] = Null
    BY <1>5, <1>6
  <2> HIDE DEF x
  <2>2. IsPath(next, x, q) /\ Elements(q) = {x} /\ (\A ob : Watched(ob, q, <<>>)) /\ \A G : TailAt(q, x, G)
    BY <2>1, DummyPath
  <2> HIDE DEF q
  <2> QED
    BY <2>1, <2>2 DEF x
<1>9. NodesTyped(head, tail, next, observer, free, subscribed, pushes)
  <2> DEFINE W == 1 .. MaxPushes
  <2>1. \A l \in Lists : subscribed[l] = <<>>
    BY <1>1
  <2> HIDE DEF W
  <2>2. subscribed \in [Lists -> Seq(W)]
    BY <1>1
  <2>3. subscribed \in [Lists -> Seq(1 .. MaxPushes)]
    BY <2>2 DEF W
  <2>4. next \in [Nodes -> OL!Pointer] /\ observer \in [Nodes -> 0 .. MaxPushes] /\ free \subseteq Nodes /\ pushes \in 0 .. MaxPushes
    BY <1>1, <1>2
  <2> QED
    BY <1>1, <1>3, <2>3, <2>4 DEF NodesTyped
<1>10. ThreadsTyped(pc, list, node, last, after)
  BY <1>1, <1>2 DEF ThreadsTyped, Labels
<1>11. \A t \in Threads : pc[t] = "idle"
  BY <1>1
<1>12. HandsInv(pc, node, next, observer) /\ Hands(pc, node) = {}
  BY <1>11 DEF HandsInv, Hands, Holding
<1>13. ChainsInv(P, head, next, observer, subscribed)
  BY <1>1, <1>8 DEF ChainsInv
<1>14. PlacedInv(P, free, {})
  <2> DEFINE D == {head[l] : l \in Lists}
  <2>1. \A l, k \in Lists : l # k => Elements(P[l]) \cap Elements(P[k]) = {}
    BY <1>4, <1>8
  <2>2. \A l \in Lists : Elements(P[l]) \cap free = {}
    BY <1>1, <1>8, Zenon
  <2>3. \A n \in Nodes : n \in free \/ \E l \in Lists : n \in Elements(P[l])
    BY <1>1, <1>8, Zenon
  <2> QED
    BY <2>1, <2>2, <2>3 DEF PlacedInv
<1>15. TailsInv(P, tail, pc, list, last)
  BY <1>1, <1>8, Zenon DEF TailsInv
<1>16. AppendsInv(P, tail, next, pc, list, node, last, after)
  BY <1>11 DEF AppendsInv, AppendAt
<1>17. NotifyInv(P[Subject], observer, notifying, value, seen, due)
  <2>1. <<>> \in Seq([node : Nodes, from : Nat]) /\ 1 .. Len(<<>>) = {}
    OBVIOUS
  <2>2. seen \in [1 .. MaxPushes -> Nat] /\ value \in 0 .. MaxValue
    BY <1>1, <1>2
  <2> QED
    BY <1>1, <2>1, <2>2 DEF NotifyInv
<1>18. Chained(P)
  BY <1>7, <1>12, <1>13, <1>14, <1>15, <1>16, <1>17 DEF Chained
<1> QED
  BY <1>9, <1>10, <1>12, <1>18 DEF ObserversInv

LEMMA ObserversNext == ObserversInv /\ OL!Next => ObserversInv'
<1> SUFFICES ASSUME ObserversInv, OL!Next PROVE ObserversInv'
  OBVIOUS
<1>1. ASSUME NEW t \in Threads, NEW l \in Lists, OL!PushBack(t, l) PROVE ObserversInv'
  BY <1>1, PushBackKeeps
<1>2. ASSUME NEW t \in Threads, OL!Append1(t) PROVE ObserversInv'
  <2>1. CASE OL!LoadTail(t)
    BY <2>1, LoadTailKeeps
  <2>2. CASE OL!LoadNext(t)
    BY <2>2, LoadNextKeeps
  <2>3. CASE OL!CheckTail(t)
    BY <2>3, CheckTailKeeps
  <2>4. CASE OL!Link(t) /\ next[last[t]] = Null
    BY <2>4, LinkedKeeps
  <2>5. CASE OL!Link(t) /\ next[last[t]] # Null
    BY <2>5, LinkFailedKeeps
  <2>6. CASE OL!Swing(t)
    BY <2>6, SwingKeeps
  <2>7. CASE OL!Help(t)
    BY <2>7, HelpKeeps
  <2> QED
    BY <1>2, <2>1, <2>2, <2>3, <2>4, <2>5, <2>6, <2>7 DEF OL!Append1
<1>3. CASE OL!SetValue
  BY <1>3, SetValueKeeps
<1>4. CASE OL!NotifyNext
  BY <1>4, NotifyNextKeeps
<1>5. ASSUME NEW l \in Lists, OL!Clear(l) PROVE ObserversInv'
  BY <1>5, ClearListKeeps
<1>6. ASSUME NEW l \in Lists, NEW k \in Lists, OL!MoveAssign(l, k) PROVE ObserversInv'
  BY <1>6, MoveListKeeps
<1>7. ASSUME NEW l \in Lists, NEW k \in Lists, OL!Swap(l, k) PROVE ObserversInv'
  BY <1>7, SwapListsKeep
<1> QED
  BY <1>1, <1>2, <1>3, <1>4, <1>5, <1>6, <1>7 DEF OL!Next

LEMMA ObserversImply ==
  ASSUME ObserversInv
  PROVE  OL!TypeOK /\ OL!SubscriptionsKept /\ OL!NodesOwned /\ OL!TailReached /\ OL!LastSeenIsCurrent
<1>1. PICK P : Chained(P)
  BY DEF ObserversInv
<1>2. /\ NodesTyped(head, tail, next, observer, free, subscribed, pushes)
      /\ ThreadsTyped(pc, list, node, last, after) /\ HandsInv(pc, node, next, observer)
  BY DEF ObserversInv
<1>3. /\ P \in [Lists -> Seq(Nodes)]
      /\ ChainsInv(P, head, next, observer, subscribed)
      /\ PlacedInv(P, free, Hands(pc, node))
      /\ TailsInv(P, tail, pc, list, last)
  BY <1>1 DEF Chained
<1>4. ASSUME NEW l \in Lists
      PROVE  /\ IsPath(next, head[l], P[l]) /\ Watched(observer, P[l], subscribed[l])
             /\ OL!Walk(head[l]) = P[l] /\ OL!ChainFrom(head[l]) = Elements(P[l])
             /\ TailAt(P[l], tail[l], Lags(l, tail[l], pc, list, last)) /\ Elements(P[l]) \subseteq Nodes
  <2>1. next \in [Nodes -> OL!Pointer]
    BY <1>2 DEF NodesTyped
  <2>2. IsPath(next, head[l], P[l]) /\ Watched(observer, P[l], subscribed[l])
    BY <1>3 DEF ChainsInv
  <2>3. OL!Walk(head[l]) = P[l] /\ OL!ChainFrom(head[l]) = Elements(P[l])
    BY <2>1, <2>2, WalkIs, ChainNodes
  <2> QED
    BY <1>3, <2>2, <2>3, ElementsWithin DEF TailsInv
<1> DEFINE q == P[Subject]
<1>5. /\ notifying \in Seq(Notifications) /\ value \in 0 .. MaxValue
      /\ \A k \in 1 .. Len(notifying) : StandsAt(notifying[k], q) /\ notifying[k].from \in 1 .. value
      /\ \A o \in due : seen[o] = value \/ \E k \in 1 .. Len(notifying) : Ahead(o, notifying[k].node, q, observer)
  BY <1>1, NotifyFields
<1> HIDE DEF q
<1>6. OL!TypeOK
  <2>1. /\ head \in [Lists -> Nodes] /\ tail \in [Lists -> Nodes] /\ next \in [Nodes -> OL!Pointer]
        /\ observer \in [Nodes -> 0 .. MaxPushes] /\ free \subseteq Nodes
    BY <1>2 DEF NodesTyped
  <2>2. \A t \in Threads : {node[t], last[t], after[t]} \subseteq OL!Pointer
    BY <1>2 DEF ThreadsTyped
  <2>3. \A i \in DOMAIN notifying : notifying[i].node \in Nodes /\ notifying[i].from \in 1 .. value
    <3> SUFFICES ASSUME NEW i \in DOMAIN notifying PROVE notifying[i].node \in Nodes /\ notifying[i].from \in 1 .. value
      OBVIOUS
    <3>1. i \in 1 .. Len(notifying)
      BY <1>5
    <3>2. notifying[i] \in Notifications
      BY <1>5, <3>1
    <3> QED
      BY <1>5, <3>1, <3>2 DEF Notifications
  <2> QED
    BY <1>5, <2>1, <2>2, <2>3 DEF OL!TypeOK
<1>7. OL!SubscriptionsKept
  <2> SUFFICES ASSUME NEW l \in Lists
               PROVE  [i \in 1 .. Len(P[l]) - 1 |-> observer[P[l][i + 1]]] = subscribed[l]
    BY <1>4, Zenon DEF OL!SubscriptionsKept
  <2> DEFINE names == subscribed[l]
             p == P[l]
             S == 1 .. MaxPushes
  <2>1. /\ names \in Seq(S) /\ Len(names) \in Nat /\ Len(p) = Len(names) + 1
        /\ \A i \in 1 .. Len(names) : names[i] = observer[p[i + 1]]
    BY <1>4, WatchedFields
  <2> HIDE DEF names, p, S
  <2>2. Len(p) - 1 = Len(names)
    BY <2>1
  <2>3. names = [i \in 1 .. Len(names) |-> names[i]]
    BY <2>1
  <2>4. [i \in 1 .. Len(p) - 1 |-> observer[p[i + 1]]] = names
    BY <2>1, <2>2, <2>3
  <2> QED
    BY <2>4 DEF names, p
<1>8. OL!NodesOwned
  <2> DEFINE InHand == {node[t] : t \in {t \in Threads : pc[t] \notin {"idle", "swing"}}}
             E(l) == Elements(P[l])
             C(l) == OL!ChainFrom(head[l])
  <2>1. InHand = Hands(pc, node)
    BY DEF Hands, Holding
  <2>2. /\ \A l, k \in Lists : l # k => E(l) \cap E(k) = {}
        /\ \A l \in Lists : E(l) \cap free = {} /\ E(l) \cap InHand = {}
        /\ InHand \cap free = {}
        /\ \A n \in Nodes : n \in free \/ n \in InHand \/ \E l \in Lists : n \in E(l)
    BY <1>3, <2>1 DEF PlacedInv
  <2>3. \A l \in Lists : C(l) = E(l) /\ E(l) \subseteq Nodes
    BY <1>4
  <2>4. free \subseteq Nodes /\ InHand \subseteq Nodes
    BY <1>2 DEF NodesTyped, HandsInv, Holding
  <2> HIDE DEF InHand, E, C
  <2>5. (UNION {C(l) : l \in Lists}) \cup InHand \cup free = Nodes
    BY <2>2, <2>3, <2>4
  <2>6. /\ \A l, k \in Lists : l # k => C(l) \cap C(k) = {}
        /\ \A l \in Lists : C(l) \cap (free \cup InHand) = {}
        /\ InHand \cap free = {}
    BY <2>2, <2>3
  <2> QED
    BY <2>5, <2>6 DEF OL!NodesOwned, InHand, C
<1>9. OL!TailReached
  <2> SUFFICES ASSUME NEW l \in Lists
               PROVE  /\ tail[l] \in OL!ChainFrom(head[l])
                      /\ (\A t \in Threads : pc[t] = "idle") => next[tail[l]] = Null
    BY DEF OL!TailReached, OL!At
  <2> DEFINE G == Lags(l, tail[l], pc, list, last)
  <2>1. PICK i \in 1 .. Len(P[l]) : tail[l] = P[l][i] /\ (i = Len(P[l]) \/ (i = Len(P[l]) - 1 /\ G))
    BY <1>4 DEF TailAt
  <2>2. tail[l] \in Elements(P[l]) /\ (next[tail[l]] = Null <=> i = Len(P[l]))
    BY <1>4, <2>1, PathFields
  <2>3. (\A t \in Threads : pc[t] = "idle") => ~ G
    BY DEF Lags
  <2> QED
    BY <1>4, <2>1, <2>2, <2>3
<1>10. OL!LastSeenIsCurrent
  <2>1. notifying = <<>> => 1 .. Len(notifying) = {}
    OBVIOUS
  <2>2. notifying = <<>> => \A o \in due : seen[o] = value
    BY <1>5, <2>1
  <2> QED
    BY <2>2 DEF OL!LastSeenIsCurrent
<1> QED
  BY <1>6, <1>7, <1>8, <1>9, <1>10

LEMMA ObserversStep == ASSUME ObserversInv, [Next]_vars PROVE ObserversInv'
<1>1. CASE OL!Next
  BY <1>1, ObserversNext
<1>2. CASE UNCHANGED observers
  <2>1. UNCHANGED <<head, tail, next, observer, free, pc, list, node, last, after, pushes, value, notifying, seen,
                    subscribed, due>>
    BY <1>2 DEF observers
  <2>2. PICK P : Chained(P)
    BY DEF ObserversInv
  <2>3. Chained(P)'
    BY <2>1, <2>2 DEF Chained
  <2>4. /\ NodesTyped(head, tail, next, observer, free, subscribed, pushes)'
        /\ ThreadsTyped(pc, list, node, last, after)' /\ HandsInv(pc, node, next, observer)'
    BY <2>1 DEF ObserversInv
  <2> QED
    BY <2>3, <2>4 DEF ObserversInv
<1> QED
  BY <1>1, <1>2 DEF Next, vars

(* Observer_List and observed: for any set of threads and of lists, and     *)
(* any numbers of nodes, subscriptions and nested assignments, no           *)
(* concurrent PushBack loses an observer or changes the order, a node has   *)
(* one owner, the tail is reached, and when the notifications are over      *)
(* every observer has been called last with the value that is current.      *)
THEOREM ObserversAreKept == Spec => []ObserversKept
<1>1. Init => ObserversInv
  BY ObserversInit DEF Init
<1>2. ObserversInv /\ [Next]_vars => ObserversInv'
  BY ObserversStep
<1>3. ObserversInv => ObserversKept
  BY ObserversImply DEF ObserversKept
<1> QED
  BY <1>1, <1>2, <1>3, PTL DEF Spec

-----------------------------------------------------------------------------
(* RadixTree: parameters and coordinates *)

LEMMA TreeParameters ==
  /\ Keys \subseteq Nat
  /\ KeyShift \in Nat
  /\ 2 ^ KeyShift \in Nat \ {0}
  /\ Level0Size \in Nat \ {0} /\ Level1Size \in Nat \ {0} /\ Level2Size \in Nat \ {0}
  /\ Nil \notin Values /\ Nil \notin Level1Nodes /\ Nil \notin Level2Nodes
BY InstancesAssumption DEF RT!ParametersAssumption

LEMMA SameCount == ASSUME NEW S PROVE RT!Cardinality(S) = Cardinality(S)
BY DEF RT!Cardinality, Cardinality

LEMMA Dividing ==
  ASSUME NEW a \in Nat, NEW n \in Nat \ {0}
  PROVE  /\ a \div n \in Nat
         /\ a % n \in 0 .. n - 1
         /\ a = n * (a \div n) + (a % n)
BY SMT

LEMMA ProductGrows ==
  ASSUME NEW n \in Nat, NEW x \in Nat, NEW y \in Nat, x < y
  PROVE  n * x + n <= n * y
<1>1. PICK z \in Nat : y = x + 1 + z
  <2>1. y - x - 1 \in Nat /\ y = x + 1 + (y - x - 1)
    OBVIOUS
  <2> QED
    BY <2>1
<1>2. n * y = n * x + n + n * z /\ n * x \in Nat /\ n * z \in Nat
  BY <1>1, SMT
<1> QED
  BY <1>2

LEMMA QuotientUnique ==
  ASSUME NEW n \in Nat \ {0}, NEW q \in Nat, NEW r \in Nat, r < n,
         NEW p \in Nat, NEW s \in Nat, s < n, n * q + r = n * p + s
  PROVE  q = p /\ r = s
<1>1. n * q \in Nat /\ n * p \in Nat
  BY SMT
<1>2. ~ (q < p)
  BY <1>1, ProductGrows
<1>3. ~ (p < q)
  BY <1>1, ProductGrows
<1>4. q = p
  BY <1>2, <1>3
<1> QED
  BY <1>1, <1>4

(* A key that decodes is the sum of its coordinates.                       *)
LEMMA CellSum ==
  ASSUME NEW key \in Nat
  PROVE  /\ RT!Normalized(key) \in Nat
         /\ RT!At0(key) \in RT!Index0 /\ RT!At1(key) \in RT!Index1 /\ RT!At2(key) \in RT!Index2
         /\ RT!Decodes(key) =>
              RT!Normalized(key) = Level2Size * (Level1Size * RT!At0(key) + RT!At1(key)) + RT!At2(key)
<1> DEFINE x == RT!Normalized(key)
           m == x \div Level2Size
           w == Level2Size * Level1Size
           q == x \div w
<1>1. x \in Nat
  BY TreeParameters, Dividing DEF RT!Normalized
<1>2. w \in Nat \ {0}
  BY TreeParameters, SMT
<1> HIDE DEF x
<1>3. m \in Nat /\ x % Level2Size \in 0 .. Level2Size - 1 /\ x = Level2Size * m + (x % Level2Size)
  BY <1>1, TreeParameters, Dividing
<1> HIDE DEF m
<1>4. m \div Level1Size \in Nat /\ m % Level1Size \in 0 .. Level1Size - 1
      /\ m = Level1Size * (m \div Level1Size) + (m % Level1Size)
  BY <1>3, TreeParameters, Dividing
<1> HIDE DEF w
<1>5. q \in Nat /\ x % w \in 0 .. w - 1 /\ x = w * q + (x % w)
  BY <1>1, <1>2, Dividing
<1> HIDE DEF q
<1>6. q % Level0Size \in 0 .. Level0Size - 1
  BY <1>5, TreeParameters, Dividing
<1>7. RT!At0(key) = q % Level0Size /\ RT!At1(key) = m % Level1Size /\ RT!At2(key) = x % Level2Size
  BY DEF RT!At0, RT!At1, RT!At2, q, w, m, x
<1>8. ASSUME RT!Decodes(key) PROVE x = Level2Size * (Level1Size * RT!At0(key) + RT!At1(key)) + RT!At2(key)
  <2> DEFINE d == m \div Level1Size
             b == m % Level1Size
             c == x % Level2Size
  <2>1. d \in Nat /\ b \in 0 .. Level1Size - 1 /\ c \in 0 .. Level2Size - 1
        /\ m = Level1Size * d + b /\ x = Level2Size * m + c
    BY <1>3, <1>4
  <2> HIDE DEF d, b, c
  <2>2. x = Level2Size * (Level1Size * d + b) + c
    BY <2>1
  <2>3. Level2Size * b + Level2Size <= Level2Size * Level1Size
    BY <2>1, TreeParameters, ProductGrows
  <2>4. Level2Size * b + c \in Nat /\ Level2Size * b + c < w
    BY <2>1, <2>3, TreeParameters DEF w
  <2>5. x = w * d + (Level2Size * b + c)
    BY <2>1, <2>2, TreeParameters, SMT DEF w
  <2>6. d = q
    <3> DEFINE r == Level2Size * b + c
               s == x % w
    <3>1. r \in Nat /\ r < w /\ s \in Nat /\ s < w /\ w * d + r = w * q + s
      BY <1>2, <1>5, <2>4, <2>5
    <3> HIDE DEF r, s
    <3> QED
      BY <3>1, <1>2, <1>5, <2>1, QuotientUnique, Zenon
  <2>7. q < Level0Size
    <3> SUFFICES ASSUME Level0Size <= q PROVE FALSE
      BY <1>5, TreeParameters
    <3>1. x < Level0Size * Level1Size * Level2Size
      BY <1>8 DEF RT!Decodes, x
    <3>2. w * Level0Size = Level0Size * Level1Size * Level2Size
      BY TreeParameters, SMT DEF w
    <3>3. w * Level0Size <= w * q
      <4>1. CASE Level0Size = q
        BY <4>1, <1>2, <1>5, SMT
      <4>2. CASE Level0Size < q
        BY <4>2, <1>2, <1>5, TreeParameters, ProductGrows, SMT
      <4> QED
        BY <4>1, <4>2, <1>5, TreeParameters
    <3>4. w * q \in Nat /\ w * Level0Size \in Nat /\ x >= w * q
      BY <1>2, <1>5, TreeParameters, SMT
    <3> QED
      BY <3>1, <3>2, <3>3, <3>4, <1>1
  <2>8. q % Level0Size = q
    BY <1>5, <2>7, TreeParameters, SMT
  <2> QED
    BY <1>7, <2>2, <2>6, <2>8 DEF b, c
<1> QED
  BY <1>1, <1>3, <1>4, <1>6, <1>7, <1>8 DEF RT!Index0, RT!Index1, RT!Index2, x

(* Two keys that decode are of one cell if and only if they share their    *)
(* coordinates.                                                            *)
LEMMA CellsApart ==
  ASSUME NEW k \in Nat, NEW j \in Nat, RT!Decodes(k), RT!Decodes(j)
  PROVE  RT!Cell(k) = RT!Cell(j)
           <=> RT!At0(k) = RT!At0(j) /\ RT!At1(k) = RT!At1(j) /\ RT!At2(k) = RT!At2(j)
<1>1. ASSUME RT!At0(k) = RT!At0(j), RT!At1(k) = RT!At1(j), RT!At2(k) = RT!At2(j)
      PROVE  RT!Cell(k) = RT!Cell(j)
  BY <1>1, CellSum DEF RT!Cell
<1>2. ASSUME RT!Cell(k) = RT!Cell(j)
      PROVE  RT!At0(k) = RT!At0(j) /\ RT!At1(k) = RT!At1(j) /\ RT!At2(k) = RT!At2(j)
  BY <1>2 DEF RT!Cell, RT!At0, RT!At1, RT!At2
<1> QED
  BY <1>1, <1>2

-----------------------------------------------------------------------------
(* RadixTree: the invariant *)

(* The indices of the function f on I at which there is something.         *)
FilledIn(f, I) == {i \in I : f[i] # Nil}

(* At most the index b.                                                    *)
OnlyAt(f, I, b) == \A i \in I : f[i] # Nil => i = b

(* How many indices each of the nodes N has filled.                        *)
CountsOf(fs, N, I) == [n \in N |-> Cardinality(FilledIn(fs[n], I))]

(* The entry b of the node n set to x, the count of the node n to x.       *)
WithEntry(fs, n, b, x) == [fs EXCEPT ![n][b] = x]
WithCount(u, n, x) == [u EXCEPT ![n] = x]

(* A tree of the root rt, the children ch and the values vl, with the free *)
(* nodes fr1 and fr2: every node is free or in one place, and a free node  *)
(* is clean.                                                               *)
TreeShaped(rt, ch, vl, fr1, fr2) ==
  /\ rt \in [RT!Index0 -> Level1Nodes \cup {Nil}]
  /\ ch \in [Level1Nodes -> [RT!Index1 -> Level2Nodes \cup {Nil}]]
  /\ vl \in [Level2Nodes -> [RT!Index2 -> Values \cup {Nil}]]
  /\ fr1 \subseteq Level1Nodes /\ fr2 \subseteq Level2Nodes
  /\ \A i, j \in RT!Index0 : rt[i] # Nil /\ rt[i] = rt[j] => i = j
  /\ \A n \in Level1Nodes : n \in fr1 <=> \A i \in RT!Index0 : rt[i] # n
  /\ \A m, n \in Level1Nodes, i, j \in RT!Index1 :
       ch[m][i] # Nil /\ ch[m][i] = ch[n][j] => m = n /\ i = j
  /\ \A n \in Level2Nodes : n \in fr2 <=> \A m \in Level1Nodes, i \in RT!Index1 : ch[m][i] # n
  /\ \A n \in fr1, i \in RT!Index1 : ch[n][i] = Nil
  /\ \A n \in fr2, i \in RT!Index2 : vl[n][i] = Nil

(* No node is kept for nothing.                                            *)
NodesNeeded(ch, vl, fr1, fr2) ==
  /\ \A n \in Level1Nodes \ fr1 : FilledIn(ch[n], RT!Index1) # {}
  /\ \A n \in Level2Nodes \ fr2 : FilledIn(vl[n], RT!Index2) # {}

(* What is found under three indices.                                      *)
Entry(rt, ch, vl, a, b, c) ==
  IF rt[a] = Nil THEN Nil
  ELSE IF ch[rt[a]][b] = Nil THEN Nil
  ELSE vl[ch[rt[a]][b]][c]

(* What is found is the same in two trees, but x at a, b, c.               *)
EntryChanges(rt, ch, vl, rt2, ch2, vl2, a, b, c, x) ==
  \A i \in RT!Index0, j \in RT!Index1, k \in RT!Index2 :
    Entry(rt2, ch2, vl2, i, j, k) =
      IF i = a /\ j = b /\ k = c THEN x ELSE Entry(rt, ch, vl, i, j, k)

HasIndices(k, a, b, c) ==
  RT!Decodes(k) /\ RT!At0(k) = a /\ RT!At1(k) = b /\ RT!At2(k) = c

(* What is found has been put there under a key.                           *)
EntriesKeyed(rt, ch, vl) ==
  \A a \in RT!Index0, b \in RT!Index1, c \in RT!Index2 :
    Entry(rt, ch, vl, a, b, c) # Nil => \E k \in Keys : HasIndices(k, a, b, c)

CellsBound == {RT!Cell(k) : k \in RT!Bound}

TreeInv ==
  /\ TreeShaped(root, children, values, free1, free2)
  /\ NodesNeeded(children, values, free1, free2)
  /\ used1 = CountsOf(children, Level1Nodes, RT!Index1)
  /\ used2 = CountsOf(values, Level2Nodes, RT!Index2)
  /\ EntriesKeyed(root, children, values)
  /\ treeSize = Cardinality(CellsBound)

-----------------------------------------------------------------------------
(* RadixTree: counting *)

LEMMA IndicesFinite ==
  /\ IsFiniteSet(RT!Index0) /\ IsFiniteSet(RT!Index1) /\ IsFiniteSet(RT!Index2)
  /\ Cardinality(RT!Index1) = Level1Size /\ Cardinality(RT!Index2) = Level2Size
BY TreeParameters, FS_Interval DEF RT!Index0, RT!Index1, RT!Index2

LEMMA FilledCount ==
  ASSUME NEW f, NEW I, IsFiniteSet(I)
  PROVE  /\ IsFiniteSet(FilledIn(f, I))
         /\ Cardinality(FilledIn(f, I)) \in Nat
         /\ Cardinality(FilledIn(f, I)) <= Cardinality(I)
         /\ Cardinality(FilledIn(f, I)) = 0 <=> FilledIn(f, I) = {}
<1>1. FilledIn(f, I) \in SUBSET I
  BY DEF FilledIn
<1> HIDE DEF FilledIn
<1>2. IsFiniteSet(FilledIn(f, I)) /\ Cardinality(FilledIn(f, I)) <= Cardinality(I)
  BY <1>1, FS_Subset
<1> QED
  BY <1>2, FS_CardinalityType, FS_EmptySet

(* Something more, or something else.                                      *)
LEMMA FilledMore ==
  ASSUME NEW I, IsFiniteSet(I), NEW X, NEW f \in [I -> X], NEW b \in I, NEW x, x # Nil
  PROVE  Cardinality(FilledIn([f EXCEPT ![b] = x], I)) =
           IF f[b] = Nil THEN Cardinality(FilledIn(f, I)) + 1 ELSE Cardinality(FilledIn(f, I))
<1>1. FilledIn([f EXCEPT ![b] = x], I) = FilledIn(f, I) \cup {b} /\ (b \in FilledIn(f, I) <=> f[b] # Nil)
  BY DEF FilledIn
<1> QED
  BY <1>1, FilledCount, FS_AddElement

(* Something less.                                                         *)
LEMMA FilledLess ==
  ASSUME NEW I, IsFiniteSet(I), NEW X, NEW f \in [I -> X], NEW b \in I, f[b] # Nil
  PROVE  /\ Cardinality(FilledIn([f EXCEPT ![b] = Nil], I)) = Cardinality(FilledIn(f, I)) - 1
         /\ Cardinality(FilledIn(f, I)) = 1 <=> OnlyAt(f, I, b)
<1>1. FilledIn([f EXCEPT ![b] = Nil], I) = FilledIn(f, I) \ {b} /\ b \in FilledIn(f, I)
  BY DEF FilledIn
<1>2. IsFiniteSet(FilledIn(f, I)) /\ Cardinality(FilledIn(f, I)) \in Nat
  BY FilledCount
<1>3. IsFiniteSet(FilledIn(f, I) \ {b}) /\ Cardinality(FilledIn(f, I) \ {b}) = Cardinality(FilledIn(f, I)) - 1
  BY <1>1, <1>2, FS_RemoveElement
<1>4. Cardinality(FilledIn(f, I)) = 1 <=> FilledIn(f, I) \ {b} = {}
  BY <1>2, <1>3, FS_EmptySet
<1>5. FilledIn(f, I) \ {b} = {} <=> OnlyAt(f, I, b)
  BY DEF FilledIn, OnlyAt
<1> QED
  BY <1>1, <1>3, <1>4, <1>5

-----------------------------------------------------------------------------
(* RadixTree: the shape *)

LEMMA EmptyTreeShaped ==
  ASSUME NEW rt, NEW ch, NEW vl,
         rt = [i \in RT!Index0 |-> Nil],
         ch = [n \in Level1Nodes |-> RT!EmptyChildren],
         vl = [n \in Level2Nodes |-> RT!EmptyValues]
  PROVE  /\ TreeShaped(rt, ch, vl, Level1Nodes, Level2Nodes)
         /\ NodesNeeded(ch, vl, Level1Nodes, Level2Nodes)
         /\ \A a \in RT!Index0, b \in RT!Index1, c \in RT!Index2 : Entry(rt, ch, vl, a, b, c) = Nil
         /\ \A n \in Level1Nodes : Cardinality(FilledIn(ch[n], RT!Index1)) = 0
         /\ \A n \in Level2Nodes : Cardinality(FilledIn(vl[n], RT!Index2)) = 0
<1>1. TreeShaped(rt, ch, vl, Level1Nodes, Level2Nodes)
  BY TreeParameters DEF TreeShaped, RT!EmptyChildren, RT!EmptyValues
<1>2. /\ \A n \in Level1Nodes : FilledIn(ch[n], RT!Index1) = {}
      /\ \A n \in Level2Nodes : FilledIn(vl[n], RT!Index2) = {}
  BY DEF FilledIn, RT!EmptyChildren, RT!EmptyValues
<1>3. \A a \in RT!Index0, b \in RT!Index1, c \in RT!Index2 : Entry(rt, ch, vl, a, b, c) = Nil
  BY DEF Entry
<1> QED
  BY <1>1, <1>2, <1>3, FS_EmptySet DEF NodesNeeded

(* The nodes of an insertion at a, b: those of the tree or free ones.      *)
NodesFor(rt, ch, fr1, fr2, a, b, n1, n2) ==
  /\ n1 \in Level1Nodes /\ n2 \in Level2Nodes
  /\ IF rt[a] = Nil THEN n1 \in fr1 ELSE n1 = rt[a]
  /\ IF ch[n1][b] = Nil THEN n2 \in fr2 ELSE n2 = ch[n1][b]

PlantedIn(rt, ch, vl, a, b, c, n1, n2, v, rt2, ch2, vl2) ==
  /\ rt2 = [rt EXCEPT ![a] = n1]
  /\ ch2 = WithEntry(ch, n1, b, n2)
  /\ vl2 = WithEntry(vl, n2, c, v)

LEMMA Planting ==
  ASSUME NEW rt, NEW ch, NEW vl, NEW fr1, NEW fr2,
         TreeShaped(rt, ch, vl, fr1, fr2), NodesNeeded(ch, vl, fr1, fr2),
         NEW a \in RT!Index0, NEW b \in RT!Index1, NEW c \in RT!Index2, NEW v \in Values, NEW n1, NEW n2,
         NodesFor(rt, ch, fr1, fr2, a, b, n1, n2),
         NEW rt2, NEW ch2, NEW vl2, PlantedIn(rt, ch, vl, a, b, c, n1, n2, v, rt2, ch2, vl2)
  PROVE  /\ TreeShaped(rt2, ch2, vl2, fr1 \ {n1}, fr2 \ {n2})
         /\ NodesNeeded(ch2, vl2, fr1 \ {n1}, fr2 \ {n2})
         /\ EntryChanges(rt, ch, vl, rt2, ch2, vl2, a, b, c, v)
<1>1. /\ rt \in [RT!Index0 -> Level1Nodes \cup {Nil}]
      /\ ch \in [Level1Nodes -> [RT!Index1 -> Level2Nodes \cup {Nil}]]
      /\ vl \in [Level2Nodes -> [RT!Index2 -> Values \cup {Nil}]]
      /\ fr1 \subseteq Level1Nodes /\ fr2 \subseteq Level2Nodes
      /\ \A i, j \in RT!Index0 : rt[i] # Nil /\ rt[i] = rt[j] => i = j
      /\ \A n \in Level1Nodes : n \in fr1 <=> \A i \in RT!Index0 : rt[i] # n
      /\ \A m, n \in Level1Nodes, i, j \in RT!Index1 :
           ch[m][i] # Nil /\ ch[m][i] = ch[n][j] => m = n /\ i = j
      /\ \A n \in Level2Nodes : n \in fr2 <=> \A m \in Level1Nodes, i \in RT!Index1 : ch[m][i] # n
      /\ \A n \in fr1, i \in RT!Index1 : ch[n][i] = Nil
      /\ \A n \in fr2, i \in RT!Index2 : vl[n][i] = Nil
  BY DEF TreeShaped
<1>2. /\ n1 \in Level1Nodes /\ n2 \in Level2Nodes /\ n1 # Nil /\ n2 # Nil /\ v # Nil
      /\ IF rt[a] = Nil THEN n1 \in fr1 ELSE n1 = rt[a]
      /\ IF ch[n1][b] = Nil THEN n2 \in fr2 ELSE n2 = ch[n1][b]
  BY TreeParameters DEF NodesFor
<1>3. /\ rt2 \in [RT!Index0 -> Level1Nodes \cup {Nil}]
      /\ ch2 \in [Level1Nodes -> [RT!Index1 -> Level2Nodes \cup {Nil}]]
      /\ vl2 \in [Level2Nodes -> [RT!Index2 -> Values \cup {Nil}]]
      /\ \A i \in RT!Index0 : rt2[i] = IF i = a THEN n1 ELSE rt[i]
      /\ \A m \in Level1Nodes, j \in RT!Index1 : ch2[m][j] = IF m = n1 /\ j = b THEN n2 ELSE ch[m][j]
      /\ \A m \in Level2Nodes, k \in RT!Index2 : vl2[m][k] = IF m = n2 /\ k = c THEN v ELSE vl[m][k]
  BY <1>1, <1>2 DEF PlantedIn, WithEntry
<1>4. \A i \in RT!Index0 : i # a => rt[i] # n1
  BY <1>1, <1>2
<1>5. \A m \in Level1Nodes, j \in RT!Index1 : ~ (m = n1 /\ j = b) => ch[m][j] # n2
  BY <1>1, <1>2
<1>6. \A i, j \in RT!Index0 : rt2[i] # Nil /\ rt2[i] = rt2[j] => i = j
  BY <1>1, <1>3, <1>4
<1>7. ASSUME NEW n \in Level1Nodes PROVE n \in fr1 \ {n1} <=> \A i \in RT!Index0 : rt2[i] # n
  <2>1. CASE n = n1
    BY <2>1, <1>3
  <2>2. CASE n # n1
    <3>1. rt[a] # n
      BY <2>2, <1>2, TreeParameters
    <3>2. \A i \in RT!Index0 : rt2[i] # n <=> rt[i] # n
      BY <2>2, <3>1, <1>3
    <3> QED
      BY <2>2, <3>2, <1>1
  <2> QED
    BY <2>1, <2>2
<1>8. \A m, n \in Level1Nodes, i, j \in RT!Index1 :
        ch2[m][i] # Nil /\ ch2[m][i] = ch2[n][j] => m = n /\ i = j
  BY <1>1, <1>3, <1>5
<1>9. ASSUME NEW n \in Level2Nodes
      PROVE  n \in fr2 \ {n2} <=> \A m \in Level1Nodes, i \in RT!Index1 : ch2[m][i] # n
  <2>1. CASE n = n2
    BY <2>1, <1>2, <1>3
  <2>2. CASE n # n2
    <3>1. ch[n1][b] # n
      BY <2>2, <1>2, TreeParameters
    <3>2. \A m \in Level1Nodes, i \in RT!Index1 : ch2[m][i] # n <=> ch[m][i] # n
      BY <2>2, <3>1, <1>3
    <3> QED
      BY <2>2, <3>2, <1>1
  <2> QED
    BY <2>1, <2>2
<1>10. \A n \in fr1 \ {n1}, i \in RT!Index1 : ch2[n][i] = Nil
  BY <1>1, <1>3
<1>11. \A n \in fr2 \ {n2}, i \in RT!Index2 : vl2[n][i] = Nil
  BY <1>1, <1>3
<1>12. TreeShaped(rt2, ch2, vl2, fr1 \ {n1}, fr2 \ {n2})
  BY <1>1, <1>3, <1>6, <1>7, <1>8, <1>9, <1>10, <1>11 DEF TreeShaped
<1>13. NodesNeeded(ch2, vl2, fr1 \ {n1}, fr2 \ {n2})
  <2>1. \A n \in Level1Nodes \ (fr1 \ {n1}) : \E i \in RT!Index1 : ch2[n][i] # Nil
    <3> TAKE n \in Level1Nodes \ (fr1 \ {n1})
    <3>1. CASE n = n1
      BY <3>1, <1>2, <1>3
    <3>2. CASE n # n1
      BY <3>2, <1>3 DEF NodesNeeded, FilledIn
    <3> QED
      BY <3>1, <3>2
  <2>2. \A n \in Level2Nodes \ (fr2 \ {n2}) : \E i \in RT!Index2 : vl2[n][i] # Nil
    <3> TAKE n \in Level2Nodes \ (fr2 \ {n2})
    <3>1. CASE n = n2
      BY <3>1, <1>2, <1>3
    <3>2. CASE n # n2
      BY <3>2, <1>3 DEF NodesNeeded, FilledIn
    <3> QED
      BY <3>1, <3>2
  <2> QED
    BY <2>1, <2>2 DEF NodesNeeded, FilledIn
<1>14. ASSUME NEW i \in RT!Index0, NEW j \in RT!Index1, NEW k \in RT!Index2
       PROVE  Entry(rt2, ch2, vl2, i, j, k) =
                IF i = a /\ j = b /\ k = c THEN v ELSE Entry(rt, ch, vl, i, j, k)
  <2>1. CASE i # a
    <3>1. rt2[i] = rt[i] /\ (rt[i] # Nil => rt[i] \in Level1Nodes /\ rt[i] # n1)
      BY <2>1, <1>1, <1>3, <1>4
    <3>2. rt[i] # Nil => ch2[rt[i]][j] = ch[rt[i]][j] /\ ch[rt[i]][j] # n2 /\ ch[rt[i]][j] \in Level2Nodes \cup {Nil}
      BY <3>1, <1>1, <1>3, <1>5
    <3>3. rt[i] # Nil /\ ch[rt[i]][j] # Nil => vl2[ch[rt[i]][j]][k] = vl[ch[rt[i]][j]][k]
      BY <3>2, <1>3
    <3> QED
      BY <2>1, <3>1, <3>2, <3>3 DEF Entry
  <2>2. CASE i = a /\ j # b
    <3>1. rt2[i] = n1 /\ ch2[n1][j] = ch[n1][j] /\ ch[n1][j] # n2 /\ ch[n1][j] \in Level2Nodes \cup {Nil}
      BY <2>2, <1>1, <1>2, <1>3, <1>5
    <3>2. ch[n1][j] # Nil => vl2[ch[n1][j]][k] = vl[ch[n1][j]][k]
      BY <3>1, <1>3
    <3>3. rt[a] = Nil => ch[n1][j] = Nil
      BY <1>1, <1>2
    <3> QED
      BY <2>2, <3>1, <3>2, <3>3, <1>2 DEF Entry
  <2>3. CASE i = a /\ j = b
    <3>1. rt2[i] = n1 /\ ch2[n1][j] = n2 /\ vl2[n2][k] = IF k = c THEN v ELSE vl[n2][k]
      BY <2>3, <1>2, <1>3
    <3>2. Entry(rt2, ch2, vl2, i, j, k) = vl2[n2][k]
      BY <3>1, <1>2 DEF Entry
    <3>3. Entry(rt, ch, vl, a, b, k) = vl[n2][k]
      <4>1. rt[a] = Nil => ch[n1][b] = Nil
        BY <1>1, <1>2
      <4>2. ch[n1][b] = Nil => vl[n2][k] = Nil
        BY <1>1, <1>2
      <4> QED
        BY <4>1, <4>2, <1>2 DEF Entry
    <3> QED
      BY <2>3, <3>1, <3>2, <3>3
  <2> QED
    BY <2>1, <2>2, <2>3
<1> QED
  BY <1>12, <1>13, <1>14 DEF EntryChanges

(* An erasure at a, b, c: the value goes, then a node of values that is    *)
(* left without any, then a node of children that is left without any.     *)
PrunedFrom(rt, ch, vl, a, b, c, vl2) ==
  /\ rt[a] # Nil /\ ch[rt[a]][b] # Nil /\ vl[ch[rt[a]][b]][c] # Nil
  /\ vl2 = WithEntry(vl, ch[rt[a]][b], c, Nil)

LEMMA PruningValue ==
  ASSUME NEW rt, NEW ch, NEW vl, NEW fr1, NEW fr2,
         TreeShaped(rt, ch, vl, fr1, fr2), NodesNeeded(ch, vl, fr1, fr2),
         NEW a \in RT!Index0, NEW b \in RT!Index1, NEW c \in RT!Index2, NEW vl2,
         PrunedFrom(rt, ch, vl, a, b, c, vl2)
  PROVE  /\ TreeShaped(rt, ch, vl2, fr1, fr2)
         /\ EntryChanges(rt, ch, vl, rt, ch, vl2, a, b, c, Nil)
         /\ ~ OnlyAt(vl[ch[rt[a]][b]], RT!Index2, c) => NodesNeeded(ch, vl2, fr1, fr2)
<1> DEFINE n1 == rt[a]
           n2 == ch[n1][b]
<1>1. /\ n1 \in Level1Nodes /\ n1 \notin fr1 /\ n2 \in Level2Nodes /\ n2 \notin fr2 /\ vl[n2][c] # Nil
      /\ n1 # Nil /\ n2 # Nil
  BY TreeParameters DEF TreeShaped, PrunedFrom
<1>2. /\ vl2 \in [Level2Nodes -> [RT!Index2 -> Values \cup {Nil}]]
      /\ \A m \in Level2Nodes, k \in RT!Index2 : vl2[m][k] = IF m = n2 /\ k = c THEN Nil ELSE vl[m][k]
  BY <1>1 DEF TreeShaped, PrunedFrom, WithEntry
<1> HIDE DEF n2
<1>3. TreeShaped(rt, ch, vl2, fr1, fr2)
  <2>1. \A n \in fr2, i \in RT!Index2 : vl2[n][i] = Nil
    BY <1>1, <1>2 DEF TreeShaped
  <2> QED
    BY <1>2, <2>1 DEF TreeShaped
<1>4. EntryChanges(rt, ch, vl, rt, ch, vl2, a, b, c, Nil)
  <2> SUFFICES ASSUME NEW i \in RT!Index0, NEW j \in RT!Index1, NEW k \in RT!Index2
               PROVE  Entry(rt, ch, vl2, i, j, k) =
                        IF i = a /\ j = b /\ k = c THEN Nil ELSE Entry(rt, ch, vl, i, j, k)
    BY DEF EntryChanges
  <2>1. rt[i] # Nil => rt[i] \in Level1Nodes /\ ch[rt[i]][j] \in Level2Nodes \cup {Nil}
    BY DEF TreeShaped
  <2>2. rt[i] # Nil /\ ch[rt[i]][j] = n2 => i = a /\ j = b
    BY <1>1, <2>1 DEF TreeShaped, n2
  <2>3. CASE rt[i] = Nil \/ ch[rt[i]][j] = Nil
    BY <2>3, <1>1 DEF Entry, n2
  <2>4. CASE rt[i] # Nil /\ ch[rt[i]][j] # Nil
    BY <2>1, <2>2, <2>4, <1>1, <1>2 DEF Entry, n2
  <2> QED
    BY <2>3, <2>4
<1>5. ASSUME ~ OnlyAt(vl[n2], RT!Index2, c) PROVE NodesNeeded(ch, vl2, fr1, fr2)
  <2>1. \A n \in Level2Nodes \ fr2 : \E i \in RT!Index2 : vl2[n][i] # Nil
    <3> TAKE n \in Level2Nodes \ fr2
    <3>1. CASE n = n2
      BY <3>1, <1>1, <1>2, <1>5 DEF OnlyAt
    <3>2. CASE n # n2
      BY <3>2, <1>2 DEF NodesNeeded, FilledIn
    <3> QED
      BY <3>1, <3>2
  <2> QED
    BY <2>1 DEF NodesNeeded, FilledIn
<1> QED
  BY <1>3, <1>4, <1>5 DEF n2

LEMMA PruningChild ==
  ASSUME NEW rt, NEW ch, NEW vl, NEW fr1, NEW fr2,
         TreeShaped(rt, ch, vl, fr1, fr2), NodesNeeded(ch, vl, fr1, fr2),
         NEW a \in RT!Index0, NEW b \in RT!Index1, NEW c \in RT!Index2, NEW vl2,
         PrunedFrom(rt, ch, vl, a, b, c, vl2), OnlyAt(vl[ch[rt[a]][b]], RT!Index2, c),
         NEW ch2, ch2 = WithEntry(ch, rt[a], b, Nil)
  PROVE  /\ TreeShaped(rt, ch2, vl2, fr1, fr2 \cup {ch[rt[a]][b]})
         /\ EntryChanges(rt, ch, vl, rt, ch2, vl2, a, b, c, Nil)
         /\ ~ OnlyAt(ch[rt[a]], RT!Index1, b) => NodesNeeded(ch2, vl2, fr1, fr2 \cup {ch[rt[a]][b]})
<1> DEFINE n1 == rt[a]
           n2 == ch[n1][b]
           fr3 == fr2 \cup {n2}
<1>1. /\ n1 \in Level1Nodes /\ n1 \notin fr1 /\ n2 \in Level2Nodes /\ n2 \notin fr2 /\ vl[n2][c] # Nil
      /\ n1 # Nil /\ n2 # Nil
  BY TreeParameters DEF TreeShaped, PrunedFrom
<1>2. TreeShaped(rt, ch, vl2, fr1, fr2) /\ EntryChanges(rt, ch, vl, rt, ch, vl2, a, b, c, Nil)
  BY PruningValue
<1>3. /\ vl2 \in [Level2Nodes -> [RT!Index2 -> Values \cup {Nil}]]
      /\ \A m \in Level2Nodes, k \in RT!Index2 : vl2[m][k] = IF m = n2 /\ k = c THEN Nil ELSE vl[m][k]
  BY <1>1 DEF TreeShaped, PrunedFrom, WithEntry
<1>4. /\ ch2 \in [Level1Nodes -> [RT!Index1 -> Level2Nodes \cup {Nil}]]
      /\ \A m \in Level1Nodes, j \in RT!Index1 : ch2[m][j] = IF m = n1 /\ j = b THEN Nil ELSE ch[m][j]
  BY <1>1 DEF TreeShaped, WithEntry
<1>5. \A m \in Level1Nodes, j \in RT!Index1 : ch[m][j] = n2 => m = n1 /\ j = b
  BY <1>1 DEF TreeShaped
<1>6. ch[n1][b] = n2
  OBVIOUS
<1>7. \A k \in RT!Index2 : vl2[n2][k] = Nil
  BY <1>1, <1>3 DEF OnlyAt
<1> HIDE DEF n2
<1>8. TreeShaped(rt, ch2, vl2, fr1, fr3)
  <2>1. /\ \A m, n \in Level1Nodes, i, j \in RT!Index1 :
             ch[m][i] # Nil /\ ch[m][i] = ch[n][j] => m = n /\ i = j
        /\ \A n \in Level2Nodes : n \in fr2 <=> \A m \in Level1Nodes, i \in RT!Index1 : ch[m][i] # n
        /\ \A n \in fr1, i \in RT!Index1 : ch[n][i] = Nil
        /\ \A n \in fr2, i \in RT!Index2 : vl2[n][i] = Nil
    BY <1>2 DEF TreeShaped
  <2>2. \A m, n \in Level1Nodes, i, j \in RT!Index1 :
          ch2[m][i] # Nil /\ ch2[m][i] = ch2[n][j] => m = n /\ i = j
    BY <2>1, <1>4
  <2>3. ASSUME NEW n \in Level2Nodes
        PROVE  n \in fr3 <=> \A m \in Level1Nodes, i \in RT!Index1 : ch2[m][i] # n
    <3>1. CASE n = n2
      BY <3>1, <1>1, <1>4, <1>5
    <3>2. CASE n # n2
      <4>1. n # Nil
        BY TreeParameters
      <4>2. \A m \in Level1Nodes, i \in RT!Index1 : ch2[m][i] # n <=> ch[m][i] # n
        BY <3>2, <4>1, <1>4, <1>6
      <4> QED
        BY <3>2, <4>2, <2>1
    <3> QED
      BY <3>1, <3>2
  <2>4. \A n \in fr1, i \in RT!Index1 : ch2[n][i] = Nil
    BY <2>1, <1>2, <1>4 DEF TreeShaped
  <2>5. \A n \in fr3, i \in RT!Index2 : vl2[n][i] = Nil
    BY <2>1, <1>7
  <2> QED
    BY <2>2, <2>3, <2>4, <2>5, <1>1, <1>2, <1>4 DEF TreeShaped
<1>9. EntryChanges(rt, ch, vl, rt, ch2, vl2, a, b, c, Nil)
  <2> SUFFICES ASSUME NEW i \in RT!Index0, NEW j \in RT!Index1, NEW k \in RT!Index2
               PROVE  Entry(rt, ch2, vl2, i, j, k) =
                        IF i = a /\ j = b /\ k = c THEN Nil ELSE Entry(rt, ch, vl, i, j, k)
    BY DEF EntryChanges
  <2>0. Entry(rt, ch, vl2, i, j, k) = IF i = a /\ j = b /\ k = c THEN Nil ELSE Entry(rt, ch, vl, i, j, k)
    BY <1>2 DEF EntryChanges
  <2> SUFFICES Entry(rt, ch2, vl2, i, j, k) = Entry(rt, ch, vl2, i, j, k)
    BY <2>0, Zenon
  <2>1. rt[i] # Nil => rt[i] \in Level1Nodes
    BY <1>2 DEF TreeShaped
  <2>2. CASE rt[i] = n1 /\ j = b
    BY <2>2, <1>1, <1>4, <1>6, <1>7 DEF Entry
  <2>3. CASE ~ (rt[i] = n1 /\ j = b)
    BY <2>1, <2>3, <1>4 DEF Entry
  <2> QED
    BY <2>2, <2>3
<1>10. ASSUME ~ OnlyAt(ch[n1], RT!Index1, b) PROVE NodesNeeded(ch2, vl2, fr1, fr3)
  <2>1. \A n \in Level1Nodes \ fr1 : \E i \in RT!Index1 : ch2[n][i] # Nil
    <3> TAKE n \in Level1Nodes \ fr1
    <3>1. CASE n = n1
      BY <3>1, <1>1, <1>4, <1>10 DEF OnlyAt
    <3>2. CASE n # n1
      BY <3>2, <1>4 DEF NodesNeeded, FilledIn
    <3> QED
      BY <3>1, <3>2
  <2>2. \A n \in Level2Nodes \ fr3 : \E i \in RT!Index2 : vl2[n][i] # Nil
    BY <1>3 DEF NodesNeeded, FilledIn
  <2> QED
    BY <2>1, <2>2 DEF NodesNeeded, FilledIn
<1> QED
  BY <1>8, <1>9, <1>10 DEF n2

LEMMA PruningRoot ==
  ASSUME NEW rt, NEW ch, NEW vl, NEW fr1, NEW fr2,
         TreeShaped(rt, ch, vl, fr1, fr2), NodesNeeded(ch, vl, fr1, fr2),
         NEW a \in RT!Index0, NEW b \in RT!Index1, NEW c \in RT!Index2, NEW vl2,
         PrunedFrom(rt, ch, vl, a, b, c, vl2), OnlyAt(vl[ch[rt[a]][b]], RT!Index2, c),
         NEW ch2, ch2 = WithEntry(ch, rt[a], b, Nil), OnlyAt(ch[rt[a]], RT!Index1, b),
         NEW rt2, rt2 = [rt EXCEPT ![a] = Nil]
  PROVE  /\ TreeShaped(rt2, ch2, vl2, fr1 \cup {rt[a]}, fr2 \cup {ch[rt[a]][b]})
         /\ EntryChanges(rt, ch, vl, rt2, ch2, vl2, a, b, c, Nil)
         /\ NodesNeeded(ch2, vl2, fr1 \cup {rt[a]}, fr2 \cup {ch[rt[a]][b]})
<1> DEFINE n1 == rt[a]
           n2 == ch[n1][b]
           fr0 == fr1 \cup {n1}
           fr3 == fr2 \cup {n2}
<1>1. /\ n1 \in Level1Nodes /\ n1 \notin fr1 /\ n2 \in Level2Nodes /\ n2 \notin fr2 /\ vl[n2][c] # Nil
      /\ n1 # Nil /\ n2 # Nil
  BY TreeParameters DEF TreeShaped, PrunedFrom
<1>2. TreeShaped(rt, ch2, vl2, fr1, fr3) /\ EntryChanges(rt, ch, vl, rt, ch2, vl2, a, b, c, Nil)
  BY PruningChild
<1>3. \A m \in Level2Nodes, k \in RT!Index2 : vl2[m][k] = IF m = n2 /\ k = c THEN Nil ELSE vl[m][k]
  BY <1>1 DEF TreeShaped, PrunedFrom, WithEntry
<1>4. \A m \in Level1Nodes, j \in RT!Index1 : ch2[m][j] = IF m = n1 /\ j = b THEN Nil ELSE ch[m][j]
  BY <1>1 DEF TreeShaped, WithEntry
<1>5. \A j \in RT!Index1 : ch2[n1][j] = Nil
  BY <1>1, <1>4 DEF OnlyAt
<1>6. /\ rt2 \in [RT!Index0 -> Level1Nodes \cup {Nil}]
      /\ \A i \in RT!Index0 : rt2[i] = IF i = a THEN Nil ELSE rt[i]
  BY DEF TreeShaped
<1> HIDE DEF n2, fr3
<1>7. TreeShaped(rt2, ch2, vl2, fr0, fr3)
  <2>1. /\ \A i, j \in RT!Index0 : rt[i] # Nil /\ rt[i] = rt[j] => i = j
        /\ \A n \in Level1Nodes : n \in fr1 <=> \A i \in RT!Index0 : rt[i] # n
        /\ \A n \in fr1, i \in RT!Index1 : ch2[n][i] = Nil
    BY <1>2 DEF TreeShaped
  <2>2. \A i, j \in RT!Index0 : rt2[i] # Nil /\ rt2[i] = rt2[j] => i = j
    BY <2>1, <1>6
  <2>3. ASSUME NEW n \in Level1Nodes PROVE n \in fr0 <=> \A i \in RT!Index0 : rt2[i] # n
    <3>1. CASE n = n1
      BY <3>1, <2>1, <1>1, <1>6
    <3>2. CASE n # n1
      <4>1. n # Nil
        BY TreeParameters
      <4>2. \A i \in RT!Index0 : rt2[i] # n <=> rt[i] # n
        BY <3>2, <4>1, <1>6
      <4> QED
        BY <3>2, <4>2, <2>1
    <3> QED
      BY <3>1, <3>2
  <2>4. \A n \in fr0, i \in RT!Index1 : ch2[n][i] = Nil
    BY <2>1, <1>5
  <2> QED
    BY <2>2, <2>3, <2>4, <1>1, <1>2, <1>6 DEF TreeShaped
<1>8. EntryChanges(rt, ch, vl, rt2, ch2, vl2, a, b, c, Nil)
  <2> SUFFICES ASSUME NEW i \in RT!Index0, NEW j \in RT!Index1, NEW k \in RT!Index2
               PROVE  Entry(rt2, ch2, vl2, i, j, k) =
                        IF i = a /\ j = b /\ k = c THEN Nil ELSE Entry(rt, ch, vl, i, j, k)
    BY DEF EntryChanges
  <2>0. Entry(rt, ch2, vl2, i, j, k) = IF i = a /\ j = b /\ k = c THEN Nil ELSE Entry(rt, ch, vl, i, j, k)
    BY <1>2 DEF EntryChanges
  <2> SUFFICES Entry(rt2, ch2, vl2, i, j, k) = Entry(rt, ch2, vl2, i, j, k)
    BY <2>0, Zenon
  <2> QED
    BY <1>5, <1>6 DEF Entry
<1>9. NodesNeeded(ch2, vl2, fr0, fr3)
  <2>1. \A n \in Level1Nodes \ fr0 : \E i \in RT!Index1 : ch2[n][i] # Nil
    BY <1>4 DEF NodesNeeded, FilledIn
  <2>2. \A n \in Level2Nodes \ fr3 : \E i \in RT!Index2 : vl2[n][i] # Nil
    BY <1>3 DEF NodesNeeded, FilledIn, fr3
  <2> QED
    BY <2>1, <2>2 DEF NodesNeeded, FilledIn
<1> QED
  BY <1>7, <1>8, <1>9 DEF n2, fr3

-----------------------------------------------------------------------------
(* RadixTree: what is found *)

FindIn(rt, ch, vl, k) ==
  IF RT!Decodes(k) THEN Entry(rt, ch, vl, RT!At0(k), RT!At1(k), RT!At2(k)) ELSE Nil

(* What is found is the same in two trees, but x under the cell of key.    *)
FoundChanges(rt, ch, vl, rt2, ch2, vl2, key, x) ==
  \A k \in Nat :
    FindIn(rt2, ch2, vl2, k) = IF RT!Cell(k) = RT!Cell(key) THEN x ELSE FindIn(rt, ch, vl, k)

CellsIn(rt, ch, vl) == {RT!Cell(k) : k \in {j \in Keys : FindIn(rt, ch, vl, j) # Nil}}

LEMMA FoundIn ==
  /\ \A k : RT!Find(k) = FindIn(root, children, values, k)
  /\ CellsBound = CellsIn(root, children, values)
<1>1. \A k : RT!Find(k) = FindIn(root, children, values, k)
  BY DEF RT!Find, RT!Level2Of, RT!Level1Of, FindIn, Entry
<1> QED
  BY <1>1 DEF CellsBound, CellsIn, RT!Bound

LEMMA FoundInThen ==
  /\ \A k : RT!Find(k)' = FindIn(root', children', values', k)
  /\ CellsBound' = CellsIn(root', children', values')
<1>1. \A k : RT!Find(k)' = FindIn(root', children', values', k)
  BY DEF RT!Find, RT!Level2Of, RT!Level1Of, FindIn, Entry
<1> QED
  BY <1>1 DEF CellsBound, CellsIn, RT!Bound

LEMMA CellsFinite ==
  ASSUME NEW rt, NEW ch, NEW vl
  PROVE  IsFiniteSet(CellsIn(rt, ch, vl)) /\ Cardinality(CellsIn(rt, ch, vl)) \in Nat
<1> DEFINE top == Level0Size * Level1Size * Level2Size
<1>1. top \in Nat
  BY TreeParameters, SMT
<1>2. \A k \in Keys : FindIn(rt, ch, vl, k) # Nil => RT!Cell(k) \in Nat /\ RT!Cell(k) < top
  BY TreeParameters, CellSum DEF FindIn, RT!Decodes, RT!Cell
<1> HIDE DEF top
<1>3. CellsIn(rt, ch, vl) \in SUBSET (0 .. top)
  BY <1>1, <1>2 DEF CellsIn
<1>4. IsFiniteSet(0 .. top)
  BY <1>1, FS_Interval
<1> QED
  BY <1>3, <1>4, FS_Subset, FS_CardinalityType

(* What follows when the entry of one key alone is changed.                *)
ReboundIn(rt, ch, vl, rt2, ch2, vl2, key, x) ==
  /\ key \in Keys /\ RT!Decodes(key)
  /\ EntriesKeyed(rt, ch, vl)
  /\ EntryChanges(rt, ch, vl, rt2, ch2, vl2, RT!At0(key), RT!At1(key), RT!At2(key), x)

LEMMA Rebinding ==
  ASSUME NEW rt, NEW ch, NEW vl, NEW rt2, NEW ch2, NEW vl2, NEW key, NEW x,
         ReboundIn(rt, ch, vl, rt2, ch2, vl2, key, x)
  PROVE  /\ FoundChanges(rt, ch, vl, rt2, ch2, vl2, key, x)
         /\ EntriesKeyed(rt2, ch2, vl2)
         /\ x # Nil /\ FindIn(rt, ch, vl, key) = Nil =>
              Cardinality(CellsIn(rt2, ch2, vl2)) = Cardinality(CellsIn(rt, ch, vl)) + 1
         /\ x # Nil /\ FindIn(rt, ch, vl, key) # Nil =>
              Cardinality(CellsIn(rt2, ch2, vl2)) = Cardinality(CellsIn(rt, ch, vl))
         /\ x = Nil /\ FindIn(rt, ch, vl, key) # Nil =>
              Cardinality(CellsIn(rt2, ch2, vl2)) = Cardinality(CellsIn(rt, ch, vl)) - 1
<1>0. /\ key \in Keys /\ RT!Decodes(key) /\ EntriesKeyed(rt, ch, vl)
      /\ EntryChanges(rt, ch, vl, rt2, ch2, vl2, RT!At0(key), RT!At1(key), RT!At2(key), x)
  BY DEF ReboundIn
<1>1. key \in Nat
  BY <1>0, TreeParameters
<1>2. ASSUME NEW k \in Nat
      PROVE  FindIn(rt2, ch2, vl2, k) =
               IF RT!Cell(k) = RT!Cell(key) THEN x ELSE FindIn(rt, ch, vl, k)
  <2>1. CASE RT!Decodes(k)
    <3>1. RT!Cell(k) = RT!Cell(key)
            <=> RT!At0(k) = RT!At0(key) /\ RT!At1(k) = RT!At1(key) /\ RT!At2(k) = RT!At2(key)
      BY <2>1, <1>0, <1>1, CellsApart
    <3>2. RT!At0(k) \in RT!Index0 /\ RT!At1(k) \in RT!Index1 /\ RT!At2(k) \in RT!Index2
      BY CellSum
    <3>3. Entry(rt2, ch2, vl2, RT!At0(k), RT!At1(k), RT!At2(k)) =
            IF RT!At0(k) = RT!At0(key) /\ RT!At1(k) = RT!At1(key) /\ RT!At2(k) = RT!At2(key) THEN x
            ELSE Entry(rt, ch, vl, RT!At0(k), RT!At1(k), RT!At2(k))
      BY <1>0, <3>2, Zenon DEF EntryChanges
    <3> QED
      BY <2>1, <3>1, <3>3 DEF FindIn
  <2>2. CASE ~ RT!Decodes(k)
    <3>1. RT!Cell(k) # RT!Cell(key)
      BY <1>0, <2>2 DEF RT!Cell, RT!Decodes
    <3> QED
      BY <2>2, <3>1 DEF FindIn
  <2> QED
    BY <2>1, <2>2
<1>3. EntriesKeyed(rt2, ch2, vl2)
  <2> SUFFICES ASSUME NEW a \in RT!Index0, NEW b \in RT!Index1, NEW c \in RT!Index2,
                      Entry(rt2, ch2, vl2, a, b, c) # Nil
               PROVE  \E k \in Keys : HasIndices(k, a, b, c)
    BY DEF EntriesKeyed
  <2>1. CASE a = RT!At0(key) /\ b = RT!At1(key) /\ c = RT!At2(key)
    BY <1>0, <2>1 DEF HasIndices
  <2>2. CASE ~ (a = RT!At0(key) /\ b = RT!At1(key) /\ c = RT!At2(key))
    <3>1. Entry(rt, ch, vl, a, b, c) # Nil
      BY <1>0, <2>2, Zenon DEF EntryChanges
    <3> QED
      BY <1>0, <3>1, Zenon DEF EntriesKeyed
  <2> QED
    BY <2>1, <2>2
<1> DEFINE C1 == CellsIn(rt, ch, vl)
           C2 == CellsIn(rt2, ch2, vl2)
<1>4. IsFiniteSet(C1) /\ Cardinality(C1) \in Nat
  BY CellsFinite
<1>5. RT!Cell(key) \in C1 <=> FindIn(rt, ch, vl, key) # Nil
  <2>1. ASSUME NEW k \in Keys, RT!Cell(k) = RT!Cell(key)
        PROVE  FindIn(rt, ch, vl, k) = FindIn(rt, ch, vl, key)
    <3>1. k \in Nat /\ RT!Decodes(k)
      BY <1>0, <2>1, TreeParameters DEF RT!Decodes, RT!Cell
    <3>2. RT!At0(k) = RT!At0(key) /\ RT!At1(k) = RT!At1(key) /\ RT!At2(k) = RT!At2(key)
      BY <2>1, <3>1, <1>0, <1>1, CellsApart
    <3> QED
      BY <1>0, <3>1, <3>2 DEF FindIn
  <2> QED
    BY <1>0, <2>1 DEF CellsIn
<1>6. \A k \in Keys : FindIn(rt2, ch2, vl2, k) =
                        IF RT!Cell(k) = RT!Cell(key) THEN x ELSE FindIn(rt, ch, vl, k)
  BY <1>2, TreeParameters
<1>7. ASSUME x # Nil
      PROVE  Cardinality(C2) = IF FindIn(rt, ch, vl, key) = Nil THEN Cardinality(C1) + 1 ELSE Cardinality(C1)
  <2>1. C2 = C1 \cup {RT!Cell(key)}
    BY <1>0, <1>6, <1>7 DEF CellsIn
  <2> HIDE DEF C1, C2
  <2> QED
    BY <2>1, <1>4, <1>5, FS_AddElement
<1>8. ASSUME x = Nil, FindIn(rt, ch, vl, key) # Nil PROVE Cardinality(C2) = Cardinality(C1) - 1
  <2>1. C2 = C1 \ {RT!Cell(key)}
    BY <1>6, <1>8 DEF CellsIn
  <2>2. RT!Cell(key) \in C1
    BY <1>5, <1>8
  <2> HIDE DEF C1, C2
  <2> QED
    BY <2>1, <2>2, <1>4, FS_RemoveElement
<1> QED
  BY <1>2, <1>3, <1>7, <1>8 DEF FoundChanges

-----------------------------------------------------------------------------
(* RadixTree: the operations *)

CanSet(ch, N, I, X, n, b) ==
  IsFiniteSet(I) /\ ch \in [N -> [I -> X]] /\ n \in N /\ b \in I

LEMMA CountsMore ==
  ASSUME NEW I, NEW N, NEW X, NEW ch, NEW n, NEW b, CanSet(ch, N, I, X, n, b), NEW x, x # Nil
  PROVE  /\ ch[n][b] = Nil => CountsOf(WithEntry(ch, n, b, x), N, I)
                                = WithCount(CountsOf(ch, N, I), n, CountsOf(ch, N, I)[n] + 1)
         /\ ch[n][b] # Nil => CountsOf(WithEntry(ch, n, b, x), N, I) = CountsOf(ch, N, I)
<1> DEFINE ch2 == WithEntry(ch, n, b, x)
           u == CountsOf(ch, N, I)
<1>0. IsFiniteSet(I) /\ ch \in [N -> [I -> X]] /\ n \in N /\ b \in I
  BY DEF CanSet
<1>1. ch2[n] = [ch[n] EXCEPT ![b] = x] /\ \A m \in N : m # n => ch2[m] = ch[m]
  BY <1>0 DEF WithEntry
<1>2. ch[n] \in [I -> X]
  BY <1>0
<1>3. Cardinality(FilledIn([ch[n] EXCEPT ![b] = x], I)) =
        IF ch[n][b] = Nil THEN Cardinality(FilledIn(ch[n], I)) + 1 ELSE Cardinality(FilledIn(ch[n], I))
  BY <1>0, <1>2, FilledMore, Zenon
<1>4. u = [m \in N |-> Cardinality(FilledIn(ch[m], I))]
  BY DEF CountsOf
<1> HIDE DEF ch2, u
<1>5. CountsOf(ch2, N, I) = [m \in N |-> IF m = n THEN IF ch[n][b] = Nil THEN u[n] + 1 ELSE u[n] ELSE u[m]]
  BY <1>0, <1>1, <1>3, <1>4 DEF CountsOf
<1>6. ch[n][b] = Nil => CountsOf(ch2, N, I) = WithCount(u, n, u[n] + 1)
  BY <1>0, <1>4, <1>5 DEF WithCount
<1>7. ch[n][b] # Nil => CountsOf(ch2, N, I) = u
  BY <1>0, <1>4, <1>5
<1> QED
  BY <1>6, <1>7 DEF ch2, u

LEMMA CountsLess ==
  ASSUME NEW I, NEW N, NEW X, NEW ch, NEW n, NEW b, CanSet(ch, N, I, X, n, b), ch[n][b] # Nil
  PROVE  WithCount(CountsOf(ch, N, I), n, CountsOf(ch, N, I)[n] - 1)
           = CountsOf(WithEntry(ch, n, b, Nil), N, I)
<1> DEFINE ch2 == WithEntry(ch, n, b, Nil)
           u == CountsOf(ch, N, I)
           u2 == WithCount(u, n, u[n] - 1)
<1>0. IsFiniteSet(I) /\ ch \in [N -> [I -> X]] /\ n \in N /\ b \in I
  BY DEF CanSet
<1>1. ch2[n] = [ch[n] EXCEPT ![b] = Nil] /\ \A m \in N : m # n => ch2[m] = ch[m]
  BY <1>0 DEF WithEntry
<1>2. ch[n] \in [I -> X]
  BY <1>0
<1>3. Cardinality(FilledIn([ch[n] EXCEPT ![b] = Nil], I)) =
        Cardinality(FilledIn(ch[n], I)) - 1
  BY <1>0, <1>2, FilledLess, Zenon
<1>4. u = [m \in N |-> Cardinality(FilledIn(ch[m], I))]
  BY DEF CountsOf
<1> HIDE DEF ch2, u
<1>5. u2[n] = Cardinality(FilledIn(ch2[n], I))
  BY <1>0, <1>1, <1>3, <1>4 DEF WithCount
<1>6. \A m \in N : m # n => u2[m] = Cardinality(FilledIn(ch2[m], I))
  BY <1>0, <1>1, <1>4 DEF WithCount
<1>7. u2 = [m \in N |-> u2[m]]
  BY <1>0, <1>4 DEF WithCount
<1> HIDE DEF u2
<1>8. u2 = [m \in N |-> Cardinality(FilledIn(ch2[m], I))]
  BY <1>5, <1>6, <1>7
<1> QED
  BY <1>8 DEF CountsOf, ch2, u, u2

LEMMA EmptyTreeFinds ==
  ASSUME NEW rt, NEW ch, NEW vl,
         \A a \in RT!Index0, b \in RT!Index1, c \in RT!Index2 : Entry(rt, ch, vl, a, b, c) = Nil
  PROVE  /\ \A k \in Nat : FindIn(rt, ch, vl, k) = Nil
         /\ EntriesKeyed(rt, ch, vl)
         /\ Cardinality(CellsIn(rt, ch, vl)) = 0
<1>1. \A k \in Nat : FindIn(rt, ch, vl, k) = Nil
  BY CellSum DEF FindIn
<1>2. EntriesKeyed(rt, ch, vl)
  BY DEF EntriesKeyed
<1>3. CellsIn(rt, ch, vl) = {}
  BY <1>1, TreeParameters DEF CellsIn
<1> QED
  BY <1>1, <1>2, <1>3, FS_EmptySet

LEMMA TreeInit == ASSUME RT!Init PROVE TreeInv /\ \A k \in Nat : RT!Find(k) = Nil
<1>1. /\ TreeShaped(root, children, values, free1, free2)
      /\ NodesNeeded(children, values, free1, free2)
      /\ \A a \in RT!Index0, b \in RT!Index1, c \in RT!Index2 : Entry(root, children, values, a, b, c) = Nil
      /\ \A n \in Level1Nodes : Cardinality(FilledIn(children[n], RT!Index1)) = 0
      /\ \A n \in Level2Nodes : Cardinality(FilledIn(values[n], RT!Index2)) = 0
  BY EmptyTreeShaped DEF RT!Init
<1>2. /\ \A k \in Nat : FindIn(root, children, values, k) = Nil
      /\ EntriesKeyed(root, children, values)
      /\ Cardinality(CellsIn(root, children, values)) = 0
  BY <1>1, EmptyTreeFinds
<1>3. /\ used1 = CountsOf(children, Level1Nodes, RT!Index1)
      /\ used2 = CountsOf(values, Level2Nodes, RT!Index2)
  BY <1>1 DEF RT!Init, CountsOf
<1>4. treeSize = 0
  BY DEF RT!Init
<1> QED
  BY <1>1, <1>2, <1>3, <1>4, FoundIn DEF TreeInv

(* What is found when only what is under key has changed, to x.            *)
FindChanges(key, x) ==
  \A k \in Nat : RT!Find(k)' = IF RT!Cell(k) = RT!Cell(key) THEN x ELSE RT!Find(k)

LEMMA TreeInsert ==
  ASSUME TreeInv, NEW key \in Keys, NEW v \in Values, RT!Insert(key, v)
  PROVE  TreeInv' /\ FindChanges(key, v)
<1> DEFINE a == RT!At0(key)
           b == RT!At1(key)
           c == RT!At2(key)
<1>1. RT!Decodes(key) /\ a \in RT!Index0 /\ b \in RT!Index1 /\ c \in RT!Index2 /\ v # Nil
  BY TreeParameters, CellSum DEF RT!Insert
<1>2. PICK n1 \in IF RT!Level1Of(key) = Nil THEN free1 ELSE {RT!Level1Of(key)},
           n2 \in IF RT!Level2Of(key) = Nil THEN free2 ELSE {RT!Level2Of(key)} :
        /\ root' = [root EXCEPT ![a] = n1]
        /\ free1' = free1 \ {n1}
        /\ free2' = free2 \ {n2}
        /\ children' = [children EXCEPT ![n1][b] = n2]
        /\ values' = [values EXCEPT ![n2][c] = v]
        /\ used1' = [used1 EXCEPT ![n1] = IF RT!Level2Of(key) = Nil THEN @ + 1 ELSE @]
        /\ used2' = [used2 EXCEPT ![n2] = IF RT!Find(key) = Nil THEN @ + 1 ELSE @]
  BY DEF RT!Insert
<1>3. RT!Level1Of(key) = root[a] /\ RT!Level2Of(key) = IF root[a] = Nil THEN Nil ELSE children[root[a]][b]
  BY DEF RT!Level1Of, RT!Level2Of
<1> HIDE DEF a, b, c
<1>4. /\ TreeShaped(root, children, values, free1, free2)
      /\ NodesNeeded(children, values, free1, free2)
      /\ EntriesKeyed(root, children, values)
  BY DEF TreeInv
<1>5. root[a] = Nil => n1 \in free1 /\ children[n1][b] = Nil
  BY <1>1, <1>2, <1>3, <1>4 DEF TreeShaped
<1>6. RT!Level2Of(key) = Nil <=> children[n1][b] = Nil
  BY <1>2, <1>3, <1>5
<1>7. NodesFor(root, children, free1, free2, a, b, n1, n2)
  <2>1. root[a] \in Level1Nodes \cup {Nil} /\ free1 \subseteq Level1Nodes /\ free2 \subseteq Level2Nodes
    BY <1>1, <1>4 DEF TreeShaped
  <2>2. n1 \in Level1Nodes
    BY <1>2, <1>3, <2>1
  <2>3. children[n1][b] \in Level2Nodes \cup {Nil}
    BY <1>1, <1>4, <2>2 DEF TreeShaped
  <2> QED
    BY <1>2, <1>3, <1>5, <2>1, <2>2, <2>3 DEF NodesFor
<1>8. /\ TreeShaped(root', children', values', free1', free2')
      /\ NodesNeeded(children', values', free1', free2')
      /\ EntryChanges(root, children, values, root', children', values', a, b, c, v)
  <2>1. free1' = free1 \ {n1} /\ free2' = free2 \ {n2}
    BY <1>2
  <2>2. PlantedIn(root, children, values, a, b, c, n1, n2, v, root', children', values')
    BY <1>2 DEF PlantedIn, WithEntry
  <2>3. a \in RT!Index0 /\ b \in RT!Index1 /\ c \in RT!Index2
    BY <1>1
  <2>4. TreeShaped(root, children, values, free1, free2) /\ NodesNeeded(children, values, free1, free2)
    BY <1>4
  <2>5. /\ TreeShaped(root', children', values', free1 \ {n1}, free2 \ {n2})
        /\ NodesNeeded(children', values', free1 \ {n1}, free2 \ {n2})
        /\ EntryChanges(root, children, values, root', children', values', a, b, c, v)
    BY <1>7, <2>2, <2>3, <2>4, Planting, Zenon
  <2> QED
    BY <2>1, <2>5
<1>9. /\ FoundChanges(root, children, values, root', children', values', key, v)
      /\ EntriesKeyed(root', children', values')
      /\ FindIn(root, children, values, key) = Nil =>
           Cardinality(CellsIn(root', children', values')) = Cardinality(CellsIn(root, children, values)) + 1
      /\ FindIn(root, children, values, key) # Nil =>
           Cardinality(CellsIn(root', children', values')) = Cardinality(CellsIn(root, children, values))
  <2>1. RT!Decodes(key) /\ EntriesKeyed(root, children, values) /\ v # Nil
    BY <1>1, <1>4
  <2>2. EntryChanges(root, children, values, root', children', values', RT!At0(key), RT!At1(key), RT!At2(key), v)
    BY <1>8 DEF a, b, c
  <2>3. ReboundIn(root, children, values, root', children', values', key, v)
    BY <2>1, <2>2 DEF ReboundIn
  <2> QED
    BY <2>1, <2>3, Rebinding, SMT
<1>10. n1 \in Level1Nodes /\ n2 \in Level2Nodes /\ n2 # Nil
  BY <1>7, TreeParameters DEF NodesFor
<1>11. /\ children \in [Level1Nodes -> [RT!Index1 -> Level2Nodes \cup {Nil}]]
       /\ values \in [Level2Nodes -> [RT!Index2 -> Values \cup {Nil}]]
  BY <1>4 DEF TreeShaped
<1>12. used1' = CountsOf(children', Level1Nodes, RT!Index1)
  <2>1. /\ children[n1][b] = Nil => used1' = WithCount(used1, n1, used1[n1] + 1)
        /\ children[n1][b] # Nil => used1' = used1
    BY <1>2, <1>6 DEF WithCount, TreeInv, CountsOf
  <2>2. /\ used1 = CountsOf(children, Level1Nodes, RT!Index1)
        /\ children' = WithEntry(children, n1, b, n2) /\ n1 \in Level1Nodes /\ n2 # Nil /\ b \in RT!Index1
        /\ IsFiniteSet(RT!Index1)
    BY <1>1, <1>2, <1>10, IndicesFinite DEF TreeInv, WithEntry
  <2>3. /\ children[n1][b] = Nil =>
             CountsOf(WithEntry(children, n1, b, n2), Level1Nodes, RT!Index1)
               = WithCount(CountsOf(children, Level1Nodes, RT!Index1), n1, CountsOf(children, Level1Nodes, RT!Index1)[n1] + 1)
        /\ children[n1][b] # Nil =>
             CountsOf(WithEntry(children, n1, b, n2), Level1Nodes, RT!Index1) = CountsOf(children, Level1Nodes, RT!Index1)
    <3>1. CanSet(children, Level1Nodes, RT!Index1, Level2Nodes \cup {Nil}, n1, b)
      BY <1>11, <2>2 DEF CanSet
    <3> QED
      BY <2>2, <3>1, CountsMore, SMT
  <2> QED
    BY <2>1, <2>2, <2>3
<1>13. used2' = CountsOf(values', Level2Nodes, RT!Index2)
  <2>1. RT!Find(key) = Nil <=> values[n2][c] = Nil
    <3>1. children[n1][b] = Nil => n2 \in free2 /\ values[n2][c] = Nil
      BY <1>1, <1>4, <1>7 DEF NodesFor, TreeShaped
    <3>2. children[n1][b] # Nil => root[a] # Nil /\ n1 = root[a] /\ n2 = children[n1][b]
      BY <1>5, <1>7 DEF NodesFor
    <3>3. RT!Find(key) = Entry(root, children, values, a, b, c)
      BY <1>1, FoundIn DEF FindIn, a, b, c
    <3>4. CASE children[n1][b] = Nil
      BY <3>1, <3>3, <3>4, <1>7 DEF Entry, NodesFor
    <3>5. CASE children[n1][b] # Nil
      BY <3>2, <3>3, <3>5 DEF Entry
    <3> QED
      BY <3>4, <3>5
  <2>2. /\ values[n2][c] = Nil => used2' = WithCount(used2, n2, used2[n2] + 1)
        /\ values[n2][c] # Nil => used2' = used2
    BY <1>2, <2>1 DEF WithCount, TreeInv, CountsOf
  <2>3. /\ used2 = CountsOf(values, Level2Nodes, RT!Index2)
        /\ values' = WithEntry(values, n2, c, v) /\ n2 \in Level2Nodes /\ v # Nil /\ c \in RT!Index2
        /\ IsFiniteSet(RT!Index2)
    BY <1>1, <1>2, <1>10, IndicesFinite DEF TreeInv, WithEntry
  <2>4. /\ values[n2][c] = Nil =>
             CountsOf(WithEntry(values, n2, c, v), Level2Nodes, RT!Index2)
               = WithCount(CountsOf(values, Level2Nodes, RT!Index2), n2, CountsOf(values, Level2Nodes, RT!Index2)[n2] + 1)
        /\ values[n2][c] # Nil =>
             CountsOf(WithEntry(values, n2, c, v), Level2Nodes, RT!Index2) = CountsOf(values, Level2Nodes, RT!Index2)
    <3>1. CanSet(values, Level2Nodes, RT!Index2, Values \cup {Nil}, n2, c)
      BY <1>11, <2>3 DEF CanSet
    <3> QED
      BY <2>3, <3>1, CountsMore, SMT
  <2> QED
    BY <2>2, <2>3, <2>4
<1>14. treeSize' = Cardinality(CellsBound')
  <2>1. treeSize' = IF RT!Find(key) = Nil THEN treeSize + 1 ELSE treeSize
    BY DEF RT!Insert
  <2> QED
    BY <2>1, <1>9, FoundIn, FoundInThen DEF TreeInv
<1>15. FindChanges(key, v)
  BY <1>9, FoundIn, FoundInThen DEF FindChanges, FoundChanges
<1>16. TreeInv'
  BY <1>8, <1>9, <1>12, <1>13, <1>14 DEF TreeInv
<1> QED
  BY <1>15, <1>16

LEMMA TreeErase ==
  ASSUME TreeInv, NEW key \in Keys, RT!Removed(key)
  PROVE  TreeInv' /\ FindChanges(key, Nil)
<1> DEFINE a == RT!At0(key)
           b == RT!At1(key)
           c == RT!At2(key)
           n1 == root[a]
           n2 == children[n1][b]
<1>1. /\ RT!Find(key) # Nil /\ RT!Decodes(key) /\ a \in RT!Index0 /\ b \in RT!Index1 /\ c \in RT!Index2
  BY TreeParameters, CellSum DEF RT!Removed, RT!Find
<1>2. /\ TreeShaped(root, children, values, free1, free2)
      /\ NodesNeeded(children, values, free1, free2)
      /\ EntriesKeyed(root, children, values)
  BY DEF TreeInv
<1>3. n1 # Nil /\ n2 # Nil /\ values[n2][c] # Nil
  BY <1>1 DEF RT!Find, RT!Level2Of, RT!Level1Of
<1>4. RT!Level1Of(key) = n1 /\ RT!Level2Of(key) = n2
  BY <1>3 DEF RT!Level2Of, RT!Level1Of
<1>5. /\ treeSize' = treeSize - 1
      /\ values' = WithEntry(values, n2, c, Nil)
      /\ used2' = WithCount(used2, n2, used2[n2] - 1)
      /\ IF used2[n2] = 1
         THEN /\ free2' = free2 \cup {n2}
              /\ children' = WithEntry(children, n1, b, Nil)
              /\ used1' = WithCount(used1, n1, used1[n1] - 1)
         ELSE UNCHANGED <<free2, children, used1>>
      /\ IF used2[n2] = 1 /\ used1[n1] = 1
         THEN /\ free1' = free1 \cup {n1}
              /\ root' = [root EXCEPT ![a] = Nil]
         ELSE UNCHANGED <<free1, root>>
  BY <1>4 DEF RT!Removed, RT!Emptied1, RT!Emptied2, WithEntry, WithCount
<1>6. n1 \in Level1Nodes /\ n2 \in Level2Nodes
  BY <1>1, <1>2, <1>3 DEF TreeShaped
<1>7. PrunedFrom(root, children, values, a, b, c, values')
  BY <1>3, <1>5 DEF PrunedFrom
<1>8. /\ children \in [Level1Nodes -> [RT!Index1 -> Level2Nodes \cup {Nil}]]
      /\ values \in [Level2Nodes -> [RT!Index2 -> Values \cup {Nil}]]
  BY <1>2 DEF TreeShaped
<1>9. used2[n2] = 1 <=> OnlyAt(values[n2], RT!Index2, c)
  <2>1. used2[n2] = Cardinality(FilledIn(values[n2], RT!Index2))
    BY <1>6 DEF TreeInv, CountsOf
  <2>2. values[n2] \in [RT!Index2 -> Values \cup {Nil}]
    BY <1>6, <1>8
  <2>3. values[n2][c] # Nil /\ c \in RT!Index2 /\ IsFiniteSet(RT!Index2)
    BY <1>1, <1>3, IndicesFinite
  <2> HIDE DEF n2, c
  <2>4. Cardinality(FilledIn(values[n2], RT!Index2)) = 1
          <=> OnlyAt(values[n2], RT!Index2, c)
    BY <2>2, <2>3, FilledLess, Zenon
  <2> QED
    BY <2>1, <2>4
<1>10. used1[n1] = 1 <=> OnlyAt(children[n1], RT!Index1, b)
  <2>1. used1[n1] = Cardinality(FilledIn(children[n1], RT!Index1))
    BY <1>6 DEF TreeInv, CountsOf
  <2>2. children[n1] \in [RT!Index1 -> Level2Nodes \cup {Nil}]
    BY <1>6, <1>8
  <2>3. children[n1][b] # Nil /\ b \in RT!Index1 /\ IsFiniteSet(RT!Index1)
    BY <1>1, <1>3, IndicesFinite
  <2> HIDE DEF n1, b
  <2>4. Cardinality(FilledIn(children[n1], RT!Index1)) = 1
          <=> OnlyAt(children[n1], RT!Index1, b)
    BY <2>2, <2>3, FilledLess, Zenon
  <2> QED
    BY <2>1, <2>4
<1>11. used2' = CountsOf(values', Level2Nodes, RT!Index2)
  <2>1. used2 = CountsOf(values, Level2Nodes, RT!Index2)
    BY DEF TreeInv
  <2>2. /\ values' = WithEntry(values, n2, c, Nil) /\ used2' = WithCount(used2, n2, used2[n2] - 1)
        /\ n2 \in Level2Nodes /\ values[n2][c] # Nil /\ c \in RT!Index2 /\ IsFiniteSet(RT!Index2)
        /\ values \in [Level2Nodes -> [RT!Index2 -> Values \cup {Nil}]]
    BY <1>1, <1>3, <1>5, <1>6, <1>8, IndicesFinite
  <2> HIDE DEF n2, c
  <2>3. WithCount(CountsOf(values, Level2Nodes, RT!Index2), n2, CountsOf(values, Level2Nodes, RT!Index2)[n2] - 1)
          = CountsOf(WithEntry(values, n2, c, Nil), Level2Nodes, RT!Index2)
    <3>1. CanSet(values, Level2Nodes, RT!Index2, Values \cup {Nil}, n2, c)
      BY <2>2 DEF CanSet
    <3> QED
      BY <2>2, <3>1, CountsLess, SMT
  <2> QED
    BY <2>1, <2>2, <2>3
<1>12. used1' = CountsOf(children', Level1Nodes, RT!Index1)
  <2>1. used1 = CountsOf(children, Level1Nodes, RT!Index1)
    BY DEF TreeInv
  <2>2. CASE used2[n2] = 1
    <3>1. /\ children' = WithEntry(children, n1, b, Nil) /\ used1' = WithCount(used1, n1, used1[n1] - 1)
          /\ n1 \in Level1Nodes /\ children[n1][b] # Nil /\ b \in RT!Index1 /\ IsFiniteSet(RT!Index1)
          /\ children \in [Level1Nodes -> [RT!Index1 -> Level2Nodes \cup {Nil}]]
      BY <1>1, <1>3, <1>5, <1>6, <1>8, <2>2, IndicesFinite
    <3> HIDE DEF n1, b
    <3>2. WithCount(CountsOf(children, Level1Nodes, RT!Index1), n1, CountsOf(children, Level1Nodes, RT!Index1)[n1] - 1)
            = CountsOf(WithEntry(children, n1, b, Nil), Level1Nodes, RT!Index1)
      <4>1. CanSet(children, Level1Nodes, RT!Index1, Level2Nodes \cup {Nil}, n1, b)
        BY <3>1 DEF CanSet
      <4> QED
        BY <3>1, <4>1, CountsLess, SMT
    <3> QED
      BY <2>1, <3>1, <3>2
  <2>3. CASE used2[n2] # 1
    BY <2>1, <2>3, <1>5
  <2> QED
    BY <2>2, <2>3
<1>13. /\ TreeShaped(root', children', values', free1', free2')
       /\ NodesNeeded(children', values', free1', free2')
       /\ EntryChanges(root, children, values, root', children', values', a, b, c, Nil)
  <2>1. CASE used2[n2] # 1
    <3>1. root' = root /\ children' = children /\ free1' = free1 /\ free2' = free2
      BY <2>1, <1>5
    <3>2. ~ OnlyAt(values[n2], RT!Index2, c)
      BY <2>1, <1>9
    <3> HIDE DEF a, b, c
    <3>3. /\ TreeShaped(root, children, values', free1, free2)
          /\ EntryChanges(root, children, values, root, children, values', a, b, c, Nil)
          /\ NodesNeeded(children, values', free1, free2)
      BY <1>1, <1>2, <1>7, <3>2, PruningValue
    <3> QED
      BY <3>1, <3>3
  <2>2. CASE used2[n2] = 1 /\ used1[n1] # 1
    <3>1. /\ root' = root /\ free1' = free1
          /\ children' = WithEntry(children, n1, b, Nil) /\ free2' = free2 \cup {n2}
      BY <2>2, <1>5
    <3>2. OnlyAt(values[n2], RT!Index2, c) /\ ~ OnlyAt(children[n1], RT!Index1, b)
      BY <2>2, <1>9, <1>10
    <3> HIDE DEF a, b, c
    <3>3. /\ TreeShaped(root, children', values', free1, free2 \cup {n2})
          /\ EntryChanges(root, children, values, root, children', values', a, b, c, Nil)
          /\ NodesNeeded(children', values', free1, free2 \cup {n2})
      BY <1>1, <1>2, <1>7, <3>1, <3>2, PruningChild
    <3> QED
      BY <3>1, <3>3
  <2>3. CASE used2[n2] = 1 /\ used1[n1] = 1
    <3>1. /\ root' = [root EXCEPT ![a] = Nil] /\ free1' = free1 \cup {n1}
          /\ children' = WithEntry(children, n1, b, Nil) /\ free2' = free2 \cup {n2}
      BY <2>3, <1>5
    <3>2. OnlyAt(values[n2], RT!Index2, c) /\ OnlyAt(children[n1], RT!Index1, b)
      BY <2>3, <1>9, <1>10
    <3> HIDE DEF a, b, c
    <3>3. /\ TreeShaped(root', children', values', free1 \cup {n1}, free2 \cup {n2})
          /\ EntryChanges(root, children, values, root', children', values', a, b, c, Nil)
          /\ NodesNeeded(children', values', free1 \cup {n1}, free2 \cup {n2})
      BY <1>1, <1>2, <1>7, <3>1, <3>2, PruningRoot
    <3> QED
      BY <3>1, <3>3
  <2> QED
    BY <2>1, <2>2, <2>3
<1>14. /\ FoundChanges(root, children, values, root', children', values', key, Nil)
       /\ EntriesKeyed(root', children', values')
       /\ FindIn(root, children, values, key) # Nil =>
            Cardinality(CellsIn(root', children', values')) = Cardinality(CellsIn(root, children, values)) - 1
  <2>1. EntryChanges(root, children, values, root', children', values', a, b, c, Nil)
    BY <1>13
  <2>2. RT!Decodes(key) /\ EntriesKeyed(root, children, values)
    BY <1>1, <1>2
  <2>3. ReboundIn(root, children, values, root', children', values', key, Nil)
    BY <2>1, <2>2 DEF ReboundIn
  <2> QED
    BY <2>3, Rebinding, SMT
<1>15. treeSize' = Cardinality(CellsBound')
  BY <1>1, <1>5, <1>14, FoundIn, FoundInThen DEF TreeInv
<1>16. FindChanges(key, Nil)
  BY <1>14, FoundIn, FoundInThen DEF FindChanges, FoundChanges
<1>17. TreeInv'
  BY <1>11, <1>12, <1>13, <1>14, <1>15 DEF TreeInv
<1> QED
  BY <1>16, <1>17

LEMMA ReachedTaken ==
  ASSUME TreeInv
  PROVE  RT!Reached1 = Level1Nodes \ free1 /\ RT!Reached2 = Level2Nodes \ free2
<1>1. RT!Reached1 = Level1Nodes \ free1
  BY DEF TreeInv, TreeShaped, RT!Reached1
<1>2. \A n \in Level2Nodes, m \in Level1Nodes, i \in RT!Index1 : children[m][i] = n => m \in RT!Reached1
  BY <1>1, TreeParameters DEF TreeInv, TreeShaped
<1>3. RT!Reached1 \subseteq Level1Nodes
  BY <1>1
<1>4. RT!Reached2 = Level2Nodes \ free2
  BY <1>2, <1>3 DEF TreeInv, TreeShaped, RT!Reached2
<1> QED
  BY <1>1, <1>4

LEMMA TreeClear ==
  ASSUME TreeInv, RT!Clear
  PROVE  TreeInv' /\ \A k \in Nat : RT!Find(k)' = Nil
<1>1. TreeShaped(root, children, values, free1, free2)
  BY DEF TreeInv
<1>2. free1' = Level1Nodes /\ free2' = Level2Nodes
  BY <1>1, ReachedTaken DEF TreeShaped, RT!Clear
<1>3. \A n \in free1 : children[n] = RT!EmptyChildren /\ FilledIn(children[n], RT!Index1) = {}
  BY <1>1 DEF TreeShaped, RT!EmptyChildren, FilledIn
<1>4. \A n \in free2 : values[n] = RT!EmptyValues /\ FilledIn(values[n], RT!Index2) = {}
  BY <1>1 DEF TreeShaped, RT!EmptyValues, FilledIn
<1>5. /\ root' = [i \in RT!Index0 |-> Nil]
      /\ children' = [n \in Level1Nodes |-> RT!EmptyChildren]
      /\ values' = [n \in Level2Nodes |-> RT!EmptyValues]
  BY <1>3, <1>4, ReachedTaken DEF RT!Clear, RT!Reset1, RT!Reset2
<1>6. /\ used1' = [n \in Level1Nodes |-> 0]
      /\ used2' = [n \in Level2Nodes |-> 0]
  <2>1. /\ \A n \in Level1Nodes : n \in free1 => used1[n] = 0
        /\ \A n \in Level2Nodes : n \in free2 => used2[n] = 0
    BY <1>3, <1>4, FS_EmptySet DEF TreeInv, CountsOf
  <2> QED
    BY <2>1, ReachedTaken DEF RT!Clear, RT!Reset1, RT!Reset2
<1>7. /\ TreeShaped(root', children', values', free1', free2')
      /\ NodesNeeded(children', values', free1', free2')
      /\ \A a \in RT!Index0, b \in RT!Index1, c \in RT!Index2 : Entry(root', children', values', a, b, c) = Nil
      /\ \A n \in Level1Nodes : Cardinality(FilledIn(children'[n], RT!Index1)) = 0
      /\ \A n \in Level2Nodes : Cardinality(FilledIn(values'[n], RT!Index2)) = 0
  BY <1>2, <1>5, EmptyTreeShaped
<1>8. /\ \A k \in Nat : FindIn(root', children', values', k) = Nil
      /\ EntriesKeyed(root', children', values')
      /\ Cardinality(CellsIn(root', children', values')) = 0
  BY <1>7, EmptyTreeFinds
<1>9. /\ used1' = CountsOf(children', Level1Nodes, RT!Index1)
      /\ used2' = CountsOf(values', Level2Nodes, RT!Index2)
  BY <1>6, <1>7 DEF CountsOf
<1>10. treeSize' = 0
  BY DEF RT!Clear
<1> QED
  BY <1>7, <1>8, <1>9, <1>10, FoundInThen DEF TreeInv

LEMMA TreeKept ==
  ASSUME TreeInv, UNCHANGED <<root, children, values, used1, used2, free1, free2, treeSize>>
  PROVE  TreeInv'
<1>1. CellsBound' = CellsBound
  BY FoundIn, FoundInThen
<1> QED
  BY <1>1 DEF TreeInv

(* What an insertion has done half-way it undoes.                          *)
LEMMA TreeRefuses ==
  ASSUME TreeInv, NEW key \in Keys, NEW v, RT!InsertExhausted(key, v) \/ RT!InsertOutOfRange(key, v)
  PROVE  UNCHANGED <<root, children, values, used1, used2, free1, free2, treeSize>>
<1>1. CASE RT!HalfWay(key)
  <2> DEFINE a == RT!At0(key)
  <2>1. PICK n \in free1 : /\ root' = [[root EXCEPT ![a] = n] EXCEPT ![a] = Nil]
                           /\ free1' = (free1 \ {n}) \cup {n}
                           /\ RT!Reset1({n})
    BY <1>1 DEF RT!HalfWay, RT!Undone
  <2>2. /\ TreeShaped(root, children, values, free1, free2)
        /\ a \in RT!Index0 /\ root[a] = Nil /\ UNCHANGED <<values, used2, free2, treeSize>>
    BY <1>1, TreeParameters, CellSum DEF TreeInv, RT!HalfWay, RT!Level1Of
  <2> HIDE DEF a
  <2>3. root' = root /\ free1' = free1
    BY <2>1, <2>2 DEF TreeShaped
  <2>4. children[n] = RT!EmptyChildren /\ FilledIn(children[n], RT!Index1) = {}
    BY <2>2 DEF TreeShaped, RT!EmptyChildren, FilledIn
  <2>5. used1[n] = 0 /\ used1 = [m \in Level1Nodes |-> used1[m]]
    BY <2>2, <2>4, FS_EmptySet DEF TreeInv, CountsOf, TreeShaped
  <2>6. children' = children
    BY <2>1, <2>2, <2>4 DEF RT!Reset1, TreeShaped
  <2>7. used1' = used1
    BY <2>1, <2>5 DEF RT!Reset1
  <2> QED
    BY <2>2, <2>3, <2>6, <2>7
<1>2. CASE UNCHANGED RT!tree
  BY <1>2 DEF RT!tree
<1> QED
  BY <1>1, <1>2 DEF RT!InsertExhausted, RT!InsertOutOfRange

LEMMA TreeNext == ASSUME TreeInv, RT!Next PROVE TreeInv'
<1>1. ASSUME NEW key \in Keys, NEW v \in Values, RT!Insert(key, v) PROVE TreeInv'
  BY <1>1, TreeInsert
<1>2. ASSUME NEW key \in Keys, NEW v \in Values, RT!InsertExhausted(key, v) \/ RT!InsertOutOfRange(key, v)
      PROVE  TreeInv'
  BY <1>2, TreeRefuses, TreeKept
<1>3. ASSUME UNCHANGED RT!tree PROVE TreeInv'
  BY <1>3, TreeKept DEF RT!tree
<1>4. ASSUME NEW key \in Keys, RT!Erase(key) \/ RT!InsertNull(key) PROVE TreeInv'
  BY <1>3, <1>4, TreeErase DEF RT!Erase, RT!InsertNull, RT!Erased
<1>5. ASSUME RT!Clear PROVE TreeInv'
  BY <1>5, TreeClear
<1>6. ASSUME NEW key \in Keys, RT!FindKey(key) PROVE TreeInv'
  BY <1>3, <1>6 DEF RT!FindKey
<1> QED
  BY <1>1, <1>2, <1>4, <1>5, <1>6 DEF RT!Next

LEMMA TreeStep == ASSUME TreeInv, [Next]_vars PROVE TreeInv'
<1>1. CASE RT!Next
  BY <1>1, TreeNext
<1>2. CASE UNCHANGED tree
  BY <1>2, TreeKept DEF tree
<1> QED
  BY <1>1, <1>2 DEF Next, vars

-----------------------------------------------------------------------------
(* RadixTree: what the invariant says *)

LEMMA CountByBijection ==
  ASSUME NEW S, IsFiniteSet(S), NEW T, NEW f, f \in Bijection(S, T)
  PROVE  Cardinality(T) = Cardinality(S)
<1>1. ExistsBijection(S, T)
  BY DEF ExistsBijection
<1> QED
  BY <1>1, FS_Bijection

(* The inner nodes of the tree are those on the way to a key.              *)
LEMMA WaysBound ==
  ASSUME TreeInv
  PROVE  /\ {RT!At0(key) : key \in RT!Bound} = {i \in RT!Index0 : root[i] # Nil}
         /\ {<<RT!At0(key), RT!At1(key)>> : key \in RT!Bound}
              = {p \in RT!Index0 \X RT!Index1 : root[p[1]] # Nil /\ children[root[p[1]]][p[2]] # Nil}
<1>1. \A key \in RT!Bound :
        /\ RT!At0(key) \in RT!Index0 /\ RT!At1(key) \in RT!Index1
        /\ root[RT!At0(key)] # Nil /\ children[root[RT!At0(key)]][RT!At1(key)] # Nil
  BY TreeParameters, CellSum DEF RT!Bound, RT!Find, RT!Level2Of, RT!Level1Of
<1>2. ASSUME NEW i \in RT!Index0, NEW j \in RT!Index1, root[i] # Nil, children[root[i]][j] # Nil
      PROVE  \E key \in RT!Bound : RT!At0(key) = i /\ RT!At1(key) = j
  <2>1. root[i] \in Level1Nodes
    BY <1>2 DEF TreeInv, TreeShaped
  <2>2. children[root[i]][j] \in Level2Nodes \ free2
    BY <1>2, <2>1 DEF TreeInv, TreeShaped
  <2>3. PICK k \in RT!Index2 : values[children[root[i]][j]][k] # Nil
    BY <2>2 DEF TreeInv, NodesNeeded, FilledIn
  <2>4. Entry(root, children, values, i, j, k) # Nil
    BY <1>2, <2>3 DEF Entry
  <2>5. PICK key \in Keys : HasIndices(key, i, j, k)
    BY <2>4 DEF TreeInv, EntriesKeyed
  <2>6. RT!Find(key) # Nil
    BY <2>4, <2>5, FoundIn DEF FindIn, HasIndices
  <2> QED
    BY <2>5, <2>6 DEF HasIndices, RT!Bound
<1>3. ASSUME NEW i \in RT!Index0, root[i] # Nil PROVE \E key \in RT!Bound : RT!At0(key) = i
  <2>1. root[i] \in Level1Nodes \ free1
    BY <1>3 DEF TreeInv, TreeShaped
  <2>2. PICK j \in RT!Index1 : children[root[i]][j] # Nil
    BY <2>1 DEF TreeInv, NodesNeeded, FilledIn
  <2> QED
    BY <1>2, <1>3, <2>2
<1>4. {RT!At0(key) : key \in RT!Bound} = {i \in RT!Index0 : root[i] # Nil}
  BY <1>1, <1>3
<1>5. ASSUME NEW p \in RT!Index0 \X RT!Index1, root[p[1]] # Nil, children[root[p[1]]][p[2]] # Nil
      PROVE  \E key \in RT!Bound : p = <<RT!At0(key), RT!At1(key)>>
  BY <1>2, <1>5
<1>6. {<<RT!At0(key), RT!At1(key)>> : key \in RT!Bound}
        = {p \in RT!Index0 \X RT!Index1 : root[p[1]] # Nil /\ children[root[p[1]]][p[2]] # Nil}
  BY <1>1, <1>5
<1> QED
  BY <1>4, <1>6

LEMMA NodesCounted ==
  ASSUME TreeInv
  PROVE  /\ Cardinality(RT!Reached1) = Cardinality({RT!At0(key) : key \in RT!Bound})
         /\ Cardinality(RT!Reached2) = Cardinality({<<RT!At0(key), RT!At1(key)>> : key \in RT!Bound})
<1> DEFINE R0 == {i \in RT!Index0 : root[i] # Nil}
           R1 == {p \in RT!Index0 \X RT!Index1 : root[p[1]] # Nil /\ children[root[p[1]]][p[2]] # Nil}
           f == [i \in R0 |-> root[i]]
           g == [p \in R1 |-> children[root[p[1]]][p[2]]]
<1>1. IsFiniteSet(R0)
  BY IndicesFinite, FS_Subset
<1>2. IsFiniteSet(R1)
  <2>1. IsFiniteSet(RT!Index0 \X RT!Index1)
    BY IndicesFinite, FS_Product
  <2>2. R1 \in SUBSET (RT!Index0 \X RT!Index1)
    OBVIOUS
  <2> QED
    BY <2>1, <2>2, FS_Subset
<1>3. f \in Bijection(R0, RT!Reached1)
  <2>1. f \in [R0 -> RT!Reached1]
    BY DEF RT!Reached1, TreeInv, TreeShaped
  <2>2. \A i, j \in R0 : f[i] = f[j] => i = j
    BY DEF TreeInv, TreeShaped
  <2>3. \A n \in RT!Reached1 : \E i \in R0 : f[i] = n
    BY TreeParameters DEF RT!Reached1
  <2> QED
    BY <2>1, <2>2, <2>3 DEF Bijection, Injection, Surjection, IsInjective
<1>4. g \in Bijection(R1, RT!Reached2)
  <2>1. \A p \in R1 : /\ p[1] \in RT!Index0 /\ p[2] \in RT!Index1 /\ p = <<p[1], p[2]>>
                      /\ root[p[1]] \in RT!Reached1 /\ children[root[p[1]]][p[2]] \in Level2Nodes
    BY DEF RT!Reached1, TreeInv, TreeShaped
  <2>2. g \in [R1 -> RT!Reached2]
    BY <2>1 DEF RT!Reached2
  <2>3. ASSUME NEW p \in R1, NEW q \in R1, g[p] = g[q] PROVE p = q
    <3>1. root[p[1]] = root[q[1]] /\ p[2] = q[2]
      BY <2>1, <2>3 DEF TreeInv, TreeShaped, RT!Reached1
    <3>2. p[1] = q[1]
      BY <2>1, <3>1 DEF TreeInv, TreeShaped
    <3> QED
      BY <2>1, <3>1, <3>2
  <2>4. ASSUME NEW n \in RT!Reached2 PROVE \E p \in R1 : g[p] = n
    <3>1. PICK m \in RT!Reached1, j \in RT!Index1 : children[m][j] = n
      BY DEF RT!Reached2
    <3>2. PICK i \in RT!Index0 : root[i] = m
      BY DEF RT!Reached1
    <3>3. n # Nil /\ m # Nil
      BY TreeParameters DEF RT!Reached1, RT!Reached2
    <3>4. <<i, j>> \in R1
      BY <3>1, <3>2, <3>3
    <3> QED
      BY <3>1, <3>2, <3>4
  <2> QED
    BY <2>2, <2>3, <2>4 DEF Bijection, Injection, Surjection, IsInjective
<1>5. Cardinality(RT!Reached1) = Cardinality(R0)
  BY <1>1, <1>3, CountByBijection, SMT
<1>6. Cardinality(RT!Reached2) = Cardinality(R1)
  BY <1>2, <1>4, CountByBijection, SMT
<1> QED
  BY <1>5, <1>6, WaysBound

LEMMA TreeImplies == ASSUME TreeInv PROVE RT!TypeOK /\ RT!NodesExact /\ RT!CountsExact
<1>1. TreeShaped(root, children, values, free1, free2)
  BY DEF TreeInv
<1>2. /\ \A n \in Level1Nodes : used1[n] = Cardinality(FilledIn(children[n], RT!Index1))
      /\ \A n \in Level2Nodes : used2[n] = Cardinality(FilledIn(values[n], RT!Index2))
      /\ used1 = [n \in Level1Nodes |-> used1[n]] /\ used2 = [n \in Level2Nodes |-> used2[n]]
  BY DEF TreeInv, CountsOf
<1>3. RT!TypeOK
  <2>1. \A n \in Level1Nodes : used1[n] \in 0 .. Level1Size
    BY <1>2, IndicesFinite, FilledCount, TreeParameters
  <2>2. \A n \in Level2Nodes : used2[n] \in 0 .. Level2Size
    BY <1>2, IndicesFinite, FilledCount, TreeParameters
  <2>3. used1 \in [Level1Nodes -> 0 .. Level1Size] /\ used2 \in [Level2Nodes -> 0 .. Level2Size]
    BY <1>2, <2>1, <2>2
  <2> QED
    BY <1>1, <2>3 DEF RT!TypeOK, TreeShaped, TreeInv
<1>4. RT!NodesExact
  <2>1. /\ Cardinality(RT!Reached1) = RT!Cardinality(RT!Reached1)
        /\ Cardinality(RT!Reached2) = RT!Cardinality(RT!Reached2)
        /\ Cardinality({RT!At0(key) : key \in RT!Bound}) = RT!Cardinality({RT!At0(key) : key \in RT!Bound})
        /\ Cardinality({<<RT!At0(key), RT!At1(key)>> : key \in RT!Bound})
             = RT!Cardinality({<<RT!At0(key), RT!At1(key)>> : key \in RT!Bound})
    BY SameCount
  <2>2. /\ RT!Reached1 \cap free1 = {} /\ RT!Reached1 \cup free1 = Level1Nodes
        /\ RT!Reached2 \cap free2 = {} /\ RT!Reached2 \cup free2 = Level2Nodes
    BY <1>1, ReachedTaken DEF TreeShaped
  <2> QED
    BY <2>1, <2>2, NodesCounted DEF RT!NodesExact
<1>5. RT!CountsExact
  <2>1. \A n \in Level1Nodes : used1[n] = RT!Cardinality({i \in RT!Index1 : children[n][i] # Nil})
    BY <1>2, SameCount DEF FilledIn
  <2>2. \A n \in Level2Nodes : used2[n] = RT!Cardinality({i \in RT!Index2 : values[n][i] # Nil})
    BY <1>2, SameCount DEF FilledIn
  <2>3. treeSize = RT!Cardinality({RT!Cell(key) : key \in RT!Bound})
    BY SameCount DEF TreeInv, CellsBound
  <2>4. \A n \in free1 : children[n] = RT!EmptyChildren
    BY <1>1 DEF TreeShaped, RT!EmptyChildren
  <2>5. \A n \in free2 : values[n] = RT!EmptyValues
    BY <1>1 DEF TreeShaped, RT!EmptyValues
  <2> QED
    BY <2>1, <2>2, <2>3, <2>4, <2>5 DEF RT!CountsExact
<1> QED
  BY <1>3, <1>4, <1>5

(* RadixTreeMap: for any keys and values, sizes of the three levels and    *)
(* numbers of nodes, through insertions refused half-way, erasures and     *)
(* clears, every inner node is in its pool or in the tree in one place,    *)
(* the tree holds exactly those its keys need, the counts on which the     *)
(* release of a node rests are exact, and a node in its pool is clean.     *)
THEOREM TreeIsExact == Spec => [](subject # "set" => TablesExact)
<1>1. Init => TreeInv
  BY TreeInit DEF Init
<1>2. TreeInv /\ [Next]_vars => TreeInv'
  BY TreeStep
<1>3. TreeInv => (subject # "set" => TablesExact)
  BY TreeImplies DEF TablesExact
<1> QED
  BY <1>1, <1>2, <1>3, PTL DEF Spec

-----------------------------------------------------------------------------
(* RadixTree: the map it implements *)

KeyCells == {RT!Cell(key) : key \in Keys}

(* The map that Map is given.                                              *)
MapNow == [c \in KeyCells |-> RT!Find(c * 2 ^ KeyShift)]

(* A cell is the cell of its first key.                                    *)
LEMMA CellOfCell ==
  ASSUME NEW c \in KeyCells
  PROVE  c * 2 ^ KeyShift \in Nat /\ RT!Cell(c * 2 ^ KeyShift) = c
<1> DEFINE s == 2 ^ KeyShift
           x == c * s
           q == x \div s
<1>1. s \in Nat \ {0} /\ c \in Nat
  BY TreeParameters, CellSum DEF KeyCells, RT!Cell
<1> HIDE DEF s
<1>2. x \in Nat /\ x = s * c + 0
  BY <1>1, SMT
<1> HIDE DEF x
<1>3. q \in Nat /\ x % s \in 0 .. s - 1 /\ x = s * q + (x % s)
  BY <1>1, <1>2, Dividing
<1> HIDE DEF q
<1>4. q = c
  <2> DEFINE r == x % s
  <2>1. r \in Nat /\ r < s /\ 0 \in Nat /\ 0 < s /\ s * c + 0 = s * q + r
    BY <1>1, <1>2, <1>3
  <2> HIDE DEF r
  <2> QED
    BY <2>1, <1>1, <1>3, QuotientUnique
<1> QED
  BY <1>2, <1>4 DEF q, x, s, RT!Cell, RT!Normalized

LEMMA MapPut ==
  ASSUME NEW key \in Keys, NEW x, FindChanges(key, x)
  PROVE  MapNow' = [MapNow EXCEPT ![RT!Cell(key)] = x]
<1>1. ASSUME NEW c \in KeyCells
      PROVE  RT!Find(c * 2 ^ KeyShift)' = IF c = RT!Cell(key) THEN x ELSE RT!Find(c * 2 ^ KeyShift)
  BY CellOfCell DEF FindChanges
<1>2. MapNow' = [c \in KeyCells |-> RT!Find(c * 2 ^ KeyShift)']
  BY DEF MapNow
<1> QED
  BY <1>1, <1>2 DEF MapNow

LEMMA KeyCellsAre == RT!Map!CellsOfKeys = KeyCells
BY DEF RT!Map!CellsOfKeys, KeyCells

LEMMA MapFinds ==
  ASSUME NEW key \in Keys
  PROVE  RT!Cell(key) \in KeyCells /\ MapNow[RT!Cell(key)] = RT!Find(key)
<1>1. RT!Cell(key) \in KeyCells
  BY DEF KeyCells
<1>2. RT!Normalized(RT!Cell(key) * 2 ^ KeyShift) = RT!Normalized(key)
  BY <1>1, CellOfCell DEF RT!Cell
<1>3. RT!Find(RT!Cell(key) * 2 ^ KeyShift) = RT!Find(key)
  BY <1>2 DEF RT!Find, RT!Level2Of, RT!Level1Of, RT!Decodes, RT!At0, RT!At1, RT!At2
<1> QED
  BY <1>1, <1>3 DEF MapNow

LEMMA MapKept == ASSUME UNCHANGED <<root, children, values>> PROVE MapNow' = MapNow
BY FoundIn, FoundInThen DEF MapNow

(* An erasure leaves nothing under its key.                                *)
LEMMA MapErases ==
  ASSUME TreeInv, NEW key \in Keys, RT!Erased(key)
  PROVE  MapNow' = [MapNow EXCEPT ![RT!Cell(key)] = Nil]
<1>1. CASE RT!Removed(key)
  BY <1>1, TreeErase, MapPut
<1>2. CASE RT!Find(key) = Nil /\ UNCHANGED RT!tree
  <2>1. MapNow' = MapNow
    BY <1>2, MapKept DEF RT!tree
  <2> QED
    BY <1>2, <2>1, MapFinds DEF MapNow
<1> QED
  BY <1>1, <1>2 DEF RT!Erased

LEMMA MapStep == ASSUME TreeInv, [Next]_vars PROVE [RT!Map!Next]_<<MapNow, treeCall>>
<1>1. ASSUME NEW key \in Keys, NEW v \in Values, RT!Insert(key, v) PROVE RT!Map!Insert(key, v)
  <2>1. MapNow' = [MapNow EXCEPT ![RT!Cell(key)] = v]
    BY <1>1, TreeInsert, MapPut
  <2> QED
    BY <1>1, <2>1 DEF RT!Map!Insert, RT!Map!Called, RT!Insert, RT!Called, MapNow, KeyCells
<1>2. ASSUME NEW key \in Keys, NEW v \in Values, RT!InsertExhausted(key, v) \/ RT!InsertOutOfRange(key, v)
      PROVE  RT!Map!Refuse(key, v)
  <2>1. MapNow' = MapNow
    BY <1>2, TreeRefuses, MapKept
  <2> QED
    BY <1>2, <2>1 DEF RT!Map!Refuse, RT!Map!Called, RT!InsertExhausted, RT!InsertOutOfRange, RT!Called,
                     MapNow, KeyCells
<1>3. ASSUME NEW key \in Keys, RT!Erase(key) PROVE RT!Map!Erase(key)
  <2>1. MapNow' = [MapNow EXCEPT ![RT!Cell(key)] = Nil]
    BY <1>3, MapErases DEF RT!Erase
  <2> QED
    BY <1>3, <2>1, MapFinds DEF RT!Map!Erase, RT!Map!Called, RT!Erase, RT!Erases, RT!Called, MapNow, KeyCells
<1>4. ASSUME NEW key \in Keys, RT!InsertNull(key) PROVE RT!Map!Insert(key, Nil)
  <2>1. MapNow' = [MapNow EXCEPT ![RT!Cell(key)] = Nil]
    BY <1>4, MapErases DEF RT!InsertNull
  <2> QED
    BY <1>4, <2>1 DEF RT!Map!Insert, RT!Map!Called, RT!InsertNull, RT!Called, MapNow, KeyCells
<1>5. ASSUME NEW key \in Keys, RT!FindKey(key) PROVE RT!Map!Find(key)
  <2>1. MapNow' = MapNow
    BY <1>5, MapKept DEF RT!FindKey, RT!tree
  <2> QED
    BY <1>5, <2>1, MapFinds DEF RT!Map!Find, RT!Map!Called, RT!FindKey, RT!Called, MapNow, KeyCells
<1>6. ASSUME RT!Clear PROVE RT!Map!Clear
  <2>1. \A k \in Nat : RT!Find(k)' = Nil
    BY <1>6, TreeClear
  <2>2. MapNow' = [c \in KeyCells |-> Nil]
    BY <2>1, CellOfCell DEF MapNow
  <2> QED
    BY <1>6, <2>2, KeyCellsAre DEF RT!Map!Clear, RT!Map!Called, RT!Clear, RT!Called, MapNow, KeyCells
<1>7. CASE UNCHANGED tree
  BY <1>7, MapKept DEF tree
<1>8. CASE RT!Next
  BY <1>1, <1>2, <1>3, <1>4, <1>5, <1>6, <1>8 DEF RT!Next, RT!Map!Next
<1> QED
  BY <1>7, <1>8 DEF Next, vars

(* RadixTreeMap, of any size, implements a map: an insertion changes what  *)
(* find returns for the keys of its own cell, to its own value, and        *)
(* nothing if it is refused; an erasure leaves nothing under its key and   *)
(* answers whether there was something.                                    *)
THEOREM TreeImplementsMap == Spec => RT!ImplementsMap
<1>1. Init => TreeInv
  BY TreeInit DEF Init
<1>2. TreeInv /\ [Next]_vars => TreeInv'
  BY TreeStep
<1>3. Init => RT!Map!Init
  <2> SUFFICES ASSUME Init PROVE RT!Map!Init
    OBVIOUS
  <2>1. \A k \in Nat : RT!Find(k) = Nil
    BY TreeInit DEF Init
  <2>2. MapNow = [c \in KeyCells |-> Nil]
    BY <2>1, CellOfCell DEF MapNow
  <2> QED
    BY <2>2, KeyCellsAre DEF RT!Map!Init, RT!Init, Init, MapNow, KeyCells
<1>4. TreeInv /\ [Next]_vars => [RT!Map!Next]_<<MapNow, treeCall>>
  BY MapStep
<1> QED
  BY <1>1, <1>2, <1>3, <1>4, PTL DEF Spec, RT!ImplementsMap, RT!Map!Spec, MapNow, KeyCells

=============================================================================
