----------------------------- MODULE Engine_proofs -----------------------------
(***************************************************************************)
(* Proofs about what MC_Engine puts side by side: about the quarantine, for*)
(* any number of threads, blocks and shards, and about the events and their*)
(* observers, for any number of threads and allocations.                   *)
(***************************************************************************)
EXTENDS MC_Engine, Sequences, FoldLemmas

-----------------------------------------------------------------------------
(* Quarantine: parameters *)

LEMMA SameSum == ASSUME NEW f PROVE QU!SumFunction(f) = SumFunction(f)
BY DEF QU!SumFunction, QU!SumFunctionOnSet, QU!FoldFunctionOnSet, QU!MapThenFoldSet,
       SumFunction, SumFunctionOnSet, FoldFunctionOnSet, MapThenFoldSet

LEMMA SameCardinality == ASSUME NEW S PROVE QU!Cardinality(S) = Cardinality(S)
BY DEF QU!Cardinality, Cardinality

LEMMA SameFinite == ASSUME NEW S PROVE QU!IsFiniteSet(S) <=> IsFiniteSet(S)
BY DEF QU!IsFiniteSet, IsFiniteSet

LEMMA Parameters ==
  /\ IsFiniteSet(Threads) /\ IsFiniteSet(Blocks) /\ IsFiniteSet(Shards)
  /\ {"central", "live", "ring", "hand"} \cap Threads = {}
  /\ BlockSize \in [Blocks -> Nat]
  /\ Lifetime \in [Blocks -> {"Persistent", "Cached"}] /\ Reused \subseteq Blocks
  /\ ShardOf \in [Threads -> Shards]
  /\ Capacity \in Nat \ {0} /\ ByteLimit \in Nat \ {0} /\ EntryLimit \in Nat \ {0}
  /\ ByteModulus \in Nat /\ SumFunction(BlockSize) < ByteModulus
<1>1. QU!ParametersAssumption
  BY InstancesAssumption
<1> QED
  BY <1>1, SameSum, SameFinite DEF QU!ParametersAssumption

LEMMA ShardNumbers ==
  /\ 1 \in Shards
  /\ Shards \subseteq Nat /\ \A s \in Shards : 1 <= s
  /\ \A s \in Shards, r \in Shards : s < r => s + 1 \in Shards
<1>1. Shards = 1 .. Cardinality(Shards) /\ Shards # {} /\ IsFiniteSet(Shards)
  BY InstancesAssumption, SameCardinality, SameFinite DEF QU!ParametersAssumption
<1>2. Cardinality(Shards) \in Nat
  BY <1>1, FS_CardinalityType
<1> DEFINE N == Cardinality(Shards)
<1>3. Shards = 1 .. N /\ N \in Nat /\ 1 .. N # {}
  BY <1>1, <1>2
<1> HIDE DEF N
<1> QED
  BY <1>3

-----------------------------------------------------------------------------
(* Quarantine: sums of block sizes *)

LEMMA SmallStays ==
  ASSUME NEW m \in Nat \ {0}, NEW x \in 0 .. m - 1
  PROVE  x % m = x /\ (x + 0) % m = x /\ (x + m) % m = x
<1>1. \A y \in 0 .. m - 1 : (m * 0 + y) % m = y /\ (m * 1 + y) % m = y
  BY SMT
<1>2. m * 0 + x = x /\ m * 1 + x = x + m /\ x + 0 = x
  BY SMT
<1> QED
  BY <1>1, <1>2

SizeOf(S) == SumFunction([b \in Blocks |-> IF b \in S THEN BlockSize[b] ELSE 0])

LEMMA SizeIsNumber ==
  /\ \A S : SizeOf(S) \in 0 .. ByteModulus - 1
  /\ SizeOf({}) = 0
  /\ ByteModulus \in Nat \ {0}
<1> DEFINE f(S) == [b \in Blocks |-> IF b \in S THEN BlockSize[b] ELSE 0]
<1>1. \A S : f(S) \in [Blocks -> Nat] /\ f(S) \in [Blocks -> Int]
  BY Parameters
<1>2. BlockSize \in [Blocks -> Int] /\ IsFiniteSet(Blocks)
  BY Parameters
<1>3. \A S : \A b \in Blocks : f(S)[b] <= BlockSize[b]
  BY Parameters
<1>4. f({}) \in [Blocks -> Int] /\ \A b \in Blocks : f({})[b] = 0
  BY Parameters
<1>5. \A S : SizeOf(S) = SumFunction(f(S))
  BY DEF SizeOf
<1> HIDE DEF f
<1>6. ASSUME NEW S PROVE SizeOf(S) \in Nat /\ SizeOf(S) <= SumFunction(BlockSize)
  <2>1. SumFunction(f(S)) \in Nat
    BY <1>1, <1>2, SumNotNegative
  <2>2. SumFunction(f(S)) <= SumFunction(BlockSize)
    BY <1>1, <1>2, <1>3, SumMonotone
  <2> QED
    BY <2>1, <2>2, <1>5
<1>7. SizeOf({}) = 0
  BY <1>2, <1>4, <1>5, SumOfZeros
<1>8. SumFunction(BlockSize) \in Int /\ SumFunction(BlockSize) < ByteModulus /\ ByteModulus \in Nat
  BY <1>2, SumType, Parameters
<1> QED
  BY <1>6, <1>7, <1>8

LEMMA SizeGrows == ASSUME NEW S, NEW T, S \subseteq T PROVE SizeOf(S) <= SizeOf(T)
<1> DEFINE f == [b \in Blocks |-> IF b \in S THEN BlockSize[b] ELSE 0]
           g == [b \in Blocks |-> IF b \in T THEN BlockSize[b] ELSE 0]
<1>1. f \in [Blocks -> Int] /\ g \in [Blocks -> Int] /\ IsFiniteSet(Blocks)
  BY Parameters
<1>2. \A b \in Blocks : f[b] <= g[b]
  BY Parameters
<1> HIDE DEF f, g
<1>3. SumFunction(f) <= SumFunction(g)
  BY <1>1, <1>2, SumMonotone
<1> QED
  BY <1>3 DEF f, g, SizeOf

LEMMA SizeOfOneMore ==
  ASSUME NEW S, NEW e \in Blocks, e \notin S
  PROVE  SizeOf(S \cup {e}) = SizeOf(S) + BlockSize[e] /\ BlockSize[e] \in 0 .. ByteModulus - 1
<1> DEFINE f == [b \in Blocks |-> IF b \in S THEN BlockSize[b] ELSE 0]
           g == [b \in Blocks |-> IF b \in S \cup {e} THEN BlockSize[b] ELSE 0]
<1>1. f \in [Blocks -> Int] /\ g \in [Blocks -> Int] /\ IsFiniteSet(Blocks)
  BY Parameters
<1>2. \A b \in Blocks \ {e} : g[b] = f[b]
  OBVIOUS
<1>3. f[e] = 0 /\ g[e] = BlockSize[e]
  OBVIOUS
<1>4. SizeOf(S) = SumFunction(f) /\ SizeOf(S \cup {e}) = SumFunction(g)
  BY DEF SizeOf
<1> HIDE DEF f, g
<1>5. SumFunction(g) = SumFunction(f) + (g[e] - f[e])
  BY <1>1, <1>2, SumOfChanged
<1>6. SizeOf(S) \in 0 .. ByteModulus - 1 /\ SizeOf(S \cup {e}) \in 0 .. ByteModulus - 1 /\ BlockSize[e] \in Nat
      /\ ByteModulus \in Nat
  BY SizeIsNumber, Parameters
<1> QED
  BY <1>3, <1>4, <1>5, <1>6

-----------------------------------------------------------------------------
(* Quarantine: the elements of a sequence *)

Elements(q) == {q[i] : i \in 1 .. Len(q)}

Distinct(q) == \A i, j \in 1 .. Len(q) : q[i] = q[j] => i = j

LEMMA ElementsOfAppend ==
  ASSUME NEW q \in Seq(Blocks), NEW e \in Blocks
  PROVE  /\ Append(q, e) \in Seq(Blocks)
         /\ Len(Append(q, e)) = Len(q) + 1 /\ Len(q) \in Nat
         /\ Elements(Append(q, e)) = Elements(q) \cup {e}
         /\ Elements(q) \subseteq Blocks
         /\ Distinct(q) /\ e \notin Elements(q) => Distinct(Append(q, e))
<1> DEFINE r == Append(q, e)
<1>1. r \in Seq(Blocks) /\ Len(r) = Len(q) + 1 /\ Len(q) \in Nat
  OBVIOUS
<1>2. r[Len(q) + 1] = e /\ \A i \in 1 .. Len(q) : r[i] = q[i] /\ q[i] \in Blocks
  OBVIOUS
<1> HIDE DEF r
<1>3. Elements(r) = Elements(q) \cup {e}
  BY <1>1, <1>2 DEF Elements
<1>4. Elements(q) \subseteq Blocks
  BY <1>2 DEF Elements
<1>5. ASSUME Distinct(q), e \notin Elements(q) PROVE Distinct(r)
  <2> SUFFICES ASSUME NEW i \in 1 .. Len(q) + 1, NEW j \in 1 .. Len(q) + 1, r[i] = r[j] PROVE i = j
    BY <1>1 DEF Distinct
  <2>1. \A n \in 1 .. Len(q) : r[n] # e
    BY <1>2, <1>5 DEF Elements
  <2> QED
    BY <2>1, <1>1, <1>2, <1>5 DEF Distinct
<1> QED
  BY <1>1, <1>3, <1>4, <1>5 DEF r

LEMMA ElementsOfTail ==
  ASSUME NEW q \in Seq(Blocks), q # <<>>, Distinct(q)
  PROVE  /\ Tail(q) \in Seq(Blocks)
         /\ Len(Tail(q)) = Len(q) - 1 /\ Len(q) \in Nat \ {0}
         /\ Head(q) \in Elements(q) /\ Head(q) \in Blocks
         /\ Elements(Tail(q)) = Elements(q) \ {Head(q)}
         /\ Distinct(Tail(q))
<1> DEFINE r == Tail(q)
           h == Head(q)
<1>1. /\ r \in Seq(Blocks) /\ Len(r) = Len(q) - 1 /\ Len(q) \in Nat \ {0}
      /\ h = q[1] /\ h \in Blocks
      /\ \A i \in 1 .. Len(r) : r[i] = q[i + 1]
  OBVIOUS
<1> HIDE DEF r, h
<1>2. Elements(r) = Elements(q) \ {h}
  <2>1. ASSUME NEW b \in Elements(r) PROVE b \in Elements(q) /\ b # h
    BY <1>1 DEF Elements, Distinct
  <2>2. ASSUME NEW b \in Elements(q), b # h PROVE b \in Elements(r)
    <3>1. PICK i \in 1 .. Len(q) : b = q[i]
      BY DEF Elements
    <3>2. i # 1 /\ i - 1 \in 1 .. Len(r) /\ (i - 1) + 1 = i
      BY <3>1, <2>2, <1>1
    <3>3. r[i - 1] = b
      BY <3>1, <3>2, <1>1
    <3> QED
      BY <3>2, <3>3 DEF Elements
  <2> QED
    BY <2>1, <2>2
<1>3. h \in Elements(q)
  BY <1>1 DEF Elements
<1>4. Distinct(r)
  BY <1>1 DEF Distinct
<1> QED
  BY <1>1, <1>2, <1>3, <1>4 DEF r, h

-----------------------------------------------------------------------------
(* Quarantine: the invariant *)

Sending == {"push", "evict", "evictRelease", "push2"}
Adding == {"publish", "add"}
Taking == {"release", "evictRelease"}
Watching == {"publish", "add", "check", "pop", "release"}

CallRecords ==
  [kind : {"none", "free", "prewarm", "flush", "exit"}, todo : SUBSET Blocks,
   life : {"Persistent", "Cached"}, entry : Blocks \cup {None}, popped : Blocks \cup {None},
   at : Shards, force : BOOLEAN, over : BOOLEAN]

CallsTyped ==
  /\ freePc \in [Threads -> Sending \cup Adding \cup Taking \cup Watching
                             \cup {"idle", "warm", "next", "check2", "flushed", "ended"}]
  /\ call \in [Threads -> CallRecords]
  /\ \A t \in Threads :
       /\ freePc[t] \in Sending \cup Adding => call[t].entry \in Blocks
       /\ freePc[t] \in Taking => call[t].popped \in Blocks

QuarantineTyped ==
  /\ onlyOnFlush \in BOOLEAN
  /\ place \in [Blocks -> {"central", "live", "ring", "hand"} \cup Threads]
  /\ ring \in [Shards -> Seq(Blocks)]
  /\ \A s \in Shards : Len(ring[s]) <= Capacity
  /\ claimed \subseteq Blocks /\ stale \subseteq Blocks /\ reported \subseteq Blocks
  /\ ringBytes \in [Shards -> 0 .. ByteModulus - 1]
  /\ missed \in [Threads -> SUBSET Blocks]
  /\ CallsTyped

(* The blocks in quarantine are in one ring each, once.                    *)
RingInv ==
  /\ \A s \in Shards : Distinct(ring[s])
  /\ \A s, r \in Shards : s # r => Elements(ring[s]) \cap Elements(ring[r]) = {}
  /\ \A b \in Blocks : place[b] = "ring" <=> \E s \in Shards : b \in Elements(ring[s])

(* The entry that a call has still to place, and what it has popped.       *)
Sent(t) == IF freePc[t] \in Sending THEN {call[t].entry} ELSE {}
Taken(t) == IF freePc[t] \in Taking THEN {call[t].popped} ELSE {}

(* A block in hands is in those of one call.                               *)
HandInv ==
  /\ \A t, u \in Threads :
       /\ t # u => Sent(t) \cap Sent(u) = {} /\ Taken(t) \cap Taken(u) = {}
       /\ Sent(t) \cap Taken(u) = {}
  /\ \A b \in Blocks : place[b] = "hand" <=> \E t \in Threads : b \in Sent(t) \cup Taken(t)

(* What prewarm has still to free is its own.                              *)
TodoInv ==
  /\ \A t \in Threads : \A b \in call[t].todo : place[b] = "live"
  /\ \A t, u \in Threads : t # u => call[t].todo \cap call[u].todo = {}

(* An entry that is claimed and not published is one of a call at work.    *)
ClaimedInv ==
  /\ \A b \in claimed : \E t \in Threads : freePc[t] = "publish" /\ call[t].entry = b
  /\ \A t \in Threads : freePc[t] = "publish" =>
       call[t].entry \in claimed /\ call[t].entry \in Elements(ring[call[t].at])
  /\ \A t, u \in Threads :
       t # u /\ freePc[t] = "publish" /\ freePc[u] = "publish" => call[t].entry # call[u].entry

(* A stale block is not on its way into a ring, and was reported when it   *)
(* left one.                                                               *)
StaleInv ==
  \A b \in stale :
    /\ place[b] # "live"
    /\ \A t \in Threads : b \notin Sent(t)
    /\ place[b] \in {"central"} \cup Threads => b \in reported

(* What a flush has still to take out is in the shards before it, and      *)
(* nobody puts anything in or takes out ahead of it.                       *)
MissedInv ==
  \A t \in Threads : missed[t] # {} =>
    /\ freePc[t] \in {"pop", "release"} /\ call[t].force
    /\ \A u \in Threads : freePc[u] \notin Sending \cup {"publish"}
    /\ \A b \in missed[t] : \E s \in Shards : call[t].at <= s /\ b \in Elements(ring[s])

(* A shard over a limit has a call that is to look at it, or has looked    *)
(* and drains it.                                                          *)
LimitAt(s) ==
  /\ Len(ring[s]) > EntryLimit =>
       \E t \in Threads : call[t].at = s /\ freePc[t] \in Watching \cup {"check2"}
  /\ SizeOf(Elements(ring[s])) > ByteLimit =>
       \E t \in Threads : call[t].at = s /\ (freePc[t] \in Watching \/ (freePc[t] = "check2" /\ call[t].over))

LimitInv == ~ onlyOnFlush => \A s \in Shards : LimitAt(s)

(* QU!BytesExact, in the terms of the proof.                               *)
OnCounter(s) == Elements(ring[s]) \cup UNION {Taken(t) : t \in {u \in Threads : call[u].at = s}}
Pending(s) == SumFunction([t \in Threads |-> QU!ToAdd(t, s)])
BytesInv == \A s \in Shards : (ringBytes[s] + Pending(s)) % ByteModulus = SizeOf(OnCounter(s))

QuarantineInv ==
  /\ QuarantineTyped /\ RingInv /\ HandInv /\ TodoInv /\ ClaimedInv
  /\ StaleInv /\ MissedInv /\ LimitInv /\ BytesInv

(* The property of the quarantine follows.                                 *)
LEMMA InvImpliesExact == QuarantineInv => QuarantineExact
<1> SUFFICES ASSUME QuarantineInv PROVE QuarantineExact
  OBVIOUS
<1>. USE DEF QuarantineInv, QuarantineTyped, CallsTyped
<1>1. \A s \in Shards : QU!InRing(s) = Elements(ring[s])
  BY DEF QU!InRing, Elements
<1>2. QU!BlocksInPlace
  <2>1. place \in [Blocks -> {"central", "live", "ring", "hand"} \cup Threads]
    OBVIOUS
  <2>2. ASSUME NEW b \in Blocks
        PROVE  QU!Cardinality({e \in Shards \X (1 .. Capacity) : e[2] <= Len(ring[e[1]]) /\ ring[e[1]][e[2]] = b})
                 = (IF place[b] = "ring" THEN 1 ELSE 0)
    <3> DEFINE found == {e \in Shards \X (1 .. Capacity) : e[2] <= Len(ring[e[1]]) /\ ring[e[1]][e[2]] = b}
    <3>1. CASE place[b] = "ring"
      <4>1. PICK s \in Shards : b \in Elements(ring[s])
        BY <3>1 DEF RingInv
      <4>2. PICK i \in 1 .. Len(ring[s]) : ring[s][i] = b
        BY <4>1 DEF Elements
      <4>3. <<s, i>> \in found
        <5>1. Len(ring[s]) \in Nat /\ Len(ring[s]) <= Capacity /\ Capacity \in Nat
          BY Parameters
        <5> QED
          BY <4>2, <5>1
      <4>4. ASSUME NEW e \in found PROVE e = <<s, i>>
        <5>1. e = <<e[1], e[2]>> /\ e[1] \in Shards /\ e[2] \in Nat
          BY Parameters
        <5>2. e[2] \in 1 .. Len(ring[e[1]]) /\ ring[e[1]][e[2]] = b
          BY <5>1
        <5>3. b \in Elements(ring[e[1]])
          BY <5>2 DEF Elements
        <5>4. e[1] = s
          BY <5>1, <5>3, <4>1 DEF RingInv
        <5>5. e[2] = i
          BY <5>2, <5>4, <4>2 DEF RingInv, Distinct
        <5> QED
          BY <5>1, <5>4, <5>5
      <4> HIDE DEF found
      <4>5. found = {<<s, i>>}
        BY <4>3, <4>4
      <4>6. Cardinality(found) = 1
        BY <4>5, FS_Singleton
      <4> QED
        BY <4>6, <3>1, SameCardinality DEF found
    <3>2. CASE place[b] # "ring"
      <4>1. ASSUME NEW e \in found PROVE FALSE
        <5>1. e[1] \in Shards /\ e[2] \in 1 .. Len(ring[e[1]]) /\ ring[e[1]][e[2]] = b
          BY Parameters
        <5>2. b \in Elements(ring[e[1]])
          BY <5>1 DEF Elements
        <5> QED
          BY <5>1, <5>2, <3>2 DEF RingInv
      <4> HIDE DEF found
      <4>2. Cardinality(found) = 0
        BY <4>1, FS_EmptySet
      <4> QED
        BY <4>2, <3>2, SameCardinality DEF found
    <3> QED
      BY <3>1, <3>2
  <2>3. ASSUME NEW b \in Blocks
        PROVE  QU!Cardinality({t \in Threads : b \in QU!Frees(t)}) + QU!Cardinality({t \in Threads : b \in QU!Evicts(t)})
                 = (IF place[b] = "hand" THEN 1 ELSE 0)
    <3> DEFINE senders == {t \in Threads : b \in QU!Frees(t)}
               takers == {t \in Threads : b \in QU!Evicts(t)}
    <3> SUFFICES Cardinality(senders) + Cardinality(takers) = (IF place[b] = "hand" THEN 1 ELSE 0)
      BY SameCardinality
    <3>1. senders = {t \in Threads : b \in Sent(t)} /\ takers = {t \in Threads : b \in Taken(t)}
      BY DEF QU!Frees, QU!Evicts, Sent, Taken, Sending, Taking
    <3> HIDE DEF senders, takers
    <3>2. CASE \A t \in Threads : b \notin Sent(t) \cup Taken(t)
      <4>1. place[b] # "hand"
        BY <3>2 DEF HandInv
      <4>2. senders = {} /\ takers = {}
        BY <3>1, <3>2
      <4> QED
        BY <4>1, <4>2, FS_EmptySet
    <3>3. ASSUME NEW t \in Threads, b \in Sent(t)
          PROVE  place[b] = "hand" /\ senders = {t} /\ takers = {}
      BY <3>1, <3>3 DEF HandInv
    <3>4. ASSUME NEW t \in Threads, b \in Taken(t)
          PROVE  place[b] = "hand" /\ senders = {} /\ takers = {t}
      BY <3>1, <3>4 DEF HandInv
    <3>5. \A t : Cardinality({t}) = 1
      BY FS_Singleton
    <3>6. Cardinality({}) = 0
      BY FS_EmptySet
    <3>7. CASE \E t \in Threads : b \in Sent(t)
      <4>1. PICK t \in Threads : b \in Sent(t)
        BY <3>7
      <4>2. place[b] = "hand" /\ senders = {t} /\ takers = {}
        BY <4>1, <3>3
      <4>3. Cardinality(senders) = 1 /\ Cardinality(takers) = 0
        BY <4>2, <3>5, <3>6
      <4> QED
        BY <4>2, <4>3
    <3>8. CASE \E t \in Threads : b \in Taken(t)
      <4>1. PICK t \in Threads : b \in Taken(t)
        BY <3>8
      <4>2. place[b] = "hand" /\ senders = {} /\ takers = {t}
        BY <4>1, <3>4
      <4>3. Cardinality(senders) = 0 /\ Cardinality(takers) = 1
        BY <4>2, <3>5, <3>6
      <4> QED
        BY <4>2, <4>3
    <3> QED
      BY <3>2, <3>7, <3>8
  <2>4. \A t \in Threads : \A b \in call[t].todo : place[b] = "live"
    BY DEF TodoInv
  <2> QED
    BY <2>1, <2>2, <2>3, <2>4 DEF QU!BlocksInPlace
<1>3. QU!BytesExact
  <2> SUFFICES ASSUME NEW s \in Shards
               PROVE  (ringBytes[s] + SumFunction([t \in Threads |-> QU!ToAdd(t, s)])) % ByteModulus
                        = SumFunction([b \in Blocks |-> IF b \in QU!Counted(s) THEN BlockSize[b] ELSE 0])
    BY SameSum DEF QU!BytesExact
  <2>1. QU!Counted(s) = OnCounter(s)
    BY <1>1 DEF QU!Counted, OnCounter, Taken, Taking
  <2> QED
    BY <2>1 DEF BytesInv, Pending, SizeOf
<1>4. QU!WithinLimits
  <2> SUFFICES ASSUME ~ onlyOnFlush, \A t \in Threads : freePc[t] \in {"idle", "ended"}, NEW s \in Shards
               PROVE  ringBytes[s] <= ByteLimit /\ Len(ring[s]) <= EntryLimit
    BY DEF QU!WithinLimits
  <2>1. Len(ring[s]) <= EntryLimit
    <3>1. Len(ring[s]) \in Nat /\ EntryLimit \in Nat
      BY Parameters
    <3>2. ~ (Len(ring[s]) > EntryLimit)
      BY DEF LimitInv, LimitAt, Watching
    <3> QED
      BY <3>1, <3>2
  <2>2. SizeOf(Elements(ring[s])) <= ByteLimit
    <3>1. SizeOf(Elements(ring[s])) \in 0 .. ByteModulus - 1 /\ ByteLimit \in Nat /\ ByteModulus \in Nat
      BY Parameters, SizeIsNumber
    <3>2. ~ (SizeOf(Elements(ring[s])) > ByteLimit)
      BY DEF LimitInv, LimitAt, Watching
    <3> QED
      BY <3>1, <3>2
  <2>3. OnCounter(s) = Elements(ring[s])
    BY DEF OnCounter, Taken, Taking
  <2>4. Pending(s) = 0
    <3> DEFINE f == [t \in Threads |-> QU!ToAdd(t, s)]
    <3>1. \A t \in Threads : QU!ToAdd(t, s) = 0
      BY DEF QU!ToAdd
    <3>2. f \in [Threads -> Int] /\ \A t \in Threads : f[t] = 0
      BY <3>1
    <3> HIDE DEF f
    <3>3. SumFunction(f) = 0
      BY <3>2, Parameters, SumOfZeros
    <3> QED
      BY <3>3 DEF f, Pending
  <2>5. ringBytes[s] \in 0 .. ByteModulus - 1 /\ ByteModulus \in Nat \ {0}
    BY SizeIsNumber
  <2>6. (ringBytes[s] + 0) % ByteModulus = ringBytes[s]
    BY <2>5, SmallStays
  <2>7. ringBytes[s] = SizeOf(Elements(ring[s]))
    BY <2>3, <2>4, <2>6 DEF BytesInv
  <2> QED
    BY <2>1, <2>2, <2>7
<1>5. QU!StaleReported
  BY DEF StaleInv, QU!StaleReported
<1>6. QU!FlushReleases
  BY DEF MissedInv, QU!FlushReleases
<1> QED
  BY <1>2, <1>3, <1>4, <1>5, <1>6 DEF QuarantineExact

-----------------------------------------------------------------------------
(* Quarantine: the start *)

LEMMA NoCallTyped == QU!NoCall \in CallRecords /\ QU!NoCall.todo = {}
BY ShardNumbers DEF QU!NoCall, CallRecords

LEMMA NothingPending ==
  ASSUME NEW s, \A t \in Threads : QU!ToAdd(t, s) = 0
  PROVE  Pending(s) = 0
<1> DEFINE f == [t \in Threads |-> QU!ToAdd(t, s)]
<1>1. f \in [Threads -> Int] /\ \A t \in Threads : f[t] = 0
  OBVIOUS
<1> HIDE DEF f
<1>2. SumFunction(f) = 0
  BY <1>1, Parameters, SumOfZeros
<1> QED
  BY <1>2 DEF f, Pending

LEMMA InvAtStart == QU!Init => QuarantineInv
<1> SUFFICES ASSUME QU!Init PROVE QuarantineInv
  OBVIOUS
<1>. USE DEF QU!Init
<1>1. Elements(<<>>) = {} /\ Distinct(<<>>) /\ Len(<<>>) = 0 /\ <<>> \in Seq(Blocks)
  BY DEF Elements, Distinct
<1>2. \A s \in Shards : ring[s] = <<>>
  OBVIOUS
<1>3. \A t \in Threads : freePc[t] = "idle" /\ call[t] = QU!NoCall /\ Sent(t) = {} /\ Taken(t) = {}
  BY DEF Sent, Taken, Sending, Taking
<1>4. QuarantineTyped
  <2>1. CallsTyped
    <3>1. freePc \in [Threads -> {"idle"}] /\ call \in [Threads -> {QU!NoCall}]
      OBVIOUS
    <3> QED
      BY <1>3, <3>1, NoCallTyped DEF CallsTyped, Sending, Adding, Taking
  <2>2. ringBytes \in [Shards -> 0 .. ByteModulus - 1]
    BY SizeIsNumber
  <2>3. \A s \in Shards : Len(ring[s]) <= Capacity
    BY <1>1, <1>2, Parameters
  <2>4. ring \in [Shards -> Seq(Blocks)]
    BY <1>1
  <2> QED
    BY <2>1, <2>2, <2>3, <2>4 DEF QuarantineTyped
<1>5. RingInv
  BY <1>1, <1>2 DEF RingInv
<1>6. HandInv
  BY <1>3 DEF HandInv
<1>7. TodoInv
  BY <1>3, NoCallTyped DEF TodoInv
<1>8. ClaimedInv /\ StaleInv /\ MissedInv
  BY <1>3 DEF ClaimedInv, StaleInv, MissedInv
<1>9. LimitInv
  <2>1. \A s \in Shards : Len(ring[s]) = 0 /\ SizeOf(Elements(ring[s])) = 0
    BY <1>1, <1>2, SizeIsNumber
  <2>2. ~ (0 > EntryLimit) /\ ~ (0 > ByteLimit)
    BY Parameters
  <2> QED
    BY <2>1, <2>2 DEF LimitInv, LimitAt
<1>10. BytesInv
  <2> SUFFICES ASSUME NEW s \in Shards
               PROVE  (ringBytes[s] + Pending(s)) % ByteModulus = SizeOf(OnCounter(s))
    BY DEF BytesInv
  <2>1. OnCounter(s) = {}
    BY <1>1, <1>2, <1>3 DEF OnCounter
  <2>2. Pending(s) = 0
    BY <1>3, NothingPending DEF QU!ToAdd
  <2>3. (0 + 0) % ByteModulus = 0
    BY SizeIsNumber, SmallStays
  <2> QED
    BY <2>1, <2>2, <2>3, SizeIsNumber
<1> QED
  BY <1>4, <1>5, <1>6, <1>7, <1>8, <1>9, <1>10 DEF QuarantineInv

-----------------------------------------------------------------------------
(* Quarantine: calls that only move on *)

(* The other threads stay where they are.                                  *)
Alone(t) == \A u \in Threads \ {t} : freePc'[u] = freePc[u] /\ call'[u] = call[u]

(* A step between labels that touches neither a ring nor a counter.        *)
MovesOn(t) ==
  /\ UNCHANGED <<onlyOnFlush, place, ring, claimed, ringBytes, stale, reported>>
  /\ Alone(t)
  /\ freePc[t] \notin Adding \cup Taking /\ freePc'[t] \notin Adding \cup Taking
  /\ Sent(t)' = Sent(t)
  /\ call'[t].todo \subseteq call[t].todo

LEMMA CountersStay ==
  ASSUME BytesInv, ring' = ring, ringBytes' = ringBytes,
         \A t \in Threads : Taken(t)' = Taken(t) /\ (Taken(t) # {} => call'[t].at = call[t].at),
         \A t \in Threads : \A s \in Shards : QU!ToAdd(t, s)' = QU!ToAdd(t, s)
  PROVE  BytesInv'
<1> SUFFICES ASSUME NEW s \in Shards
             PROVE  (ringBytes[s] + Pending(s)) % ByteModulus = SizeOf(OnCounter(s)')
  <2>1. ASSUME NEW s \in Shards PROVE Pending(s)' = Pending(s)
    <3>1. [t \in Threads |-> QU!ToAdd(t, s)]' = [t \in Threads |-> QU!ToAdd(t, s)]
      OBVIOUS
    <3> QED
      BY <3>1 DEF Pending
  <2> QED
    BY <2>1 DEF BytesInv
<1>1. OnCounter(s)' = OnCounter(s)
  BY DEF OnCounter
<1> QED
  BY <1>1 DEF BytesInv

LEMMA MovesOnKeeps ==
  ASSUME QuarantineInv, NEW t \in Threads, MovesOn(t)
  PROVE  RingInv' /\ HandInv' /\ TodoInv' /\ ClaimedInv' /\ StaleInv' /\ BytesInv'
<1>. USE DEF QuarantineInv, MovesOn, Alone
<1>1. RingInv'
  BY DEF RingInv
<1>2. \A u \in Threads : Sent(u)' = Sent(u) /\ Taken(u)' = Taken(u) /\ (Taken(u) # {} => call'[u].at = call[u].at)
  BY DEF Sent, Taken
<1>3. HandInv'
  BY <1>2 DEF HandInv
<1>4. TodoInv'
  <2>1. \A u \in Threads : call'[u].todo \subseteq call[u].todo
    OBVIOUS
  <2> QED
    BY <2>1 DEF TodoInv
<1>5. ClaimedInv'
  BY DEF ClaimedInv, Adding
<1>6. StaleInv'
  BY <1>2 DEF StaleInv
<1>7. BytesInv'
  <2>1. \A u \in Threads : \A s \in Shards : QU!ToAdd(u, s)' = QU!ToAdd(u, s)
    BY DEF QU!ToAdd, Adding
  <2> QED
    BY <2>1, <1>2, CountersStay
<1> QED
  BY <1>1, <1>3, <1>4, <1>5, <1>6, <1>7

(* A step of t to a label whose record has what the label needs.           *)
GoesTo(t, where, c) ==
  /\ where \in {"push", "evict", "evictRelease", "push2", "publish", "add", "release", "check", "pop",
                "idle", "warm", "next", "check2", "flushed", "ended"}
  /\ freePc' = [freePc EXCEPT ![t] = where]
  /\ c \in CallRecords /\ call' = [call EXCEPT ![t] = c]
  /\ where \in Sending \cup Adding => c.entry \in Blocks
  /\ where \in Taking => c.popped \in Blocks

LEMMA CallGoesOn ==
  ASSUME CallsTyped, NEW t \in Threads, NEW where, NEW c, GoesTo(t, where, c)
  PROVE  CallsTyped' /\ Alone(t) /\ freePc'[t] = where /\ call'[t] = c
<1>. USE DEF CallsTyped
<1>1. Alone(t) /\ freePc'[t] = where /\ call'[t] = c
  BY DEF GoesTo, Alone
<1>2. /\ freePc' \in [Threads -> Sending \cup Adding \cup Taking \cup Watching
                                  \cup {"idle", "warm", "next", "check2", "flushed", "ended"}]
      /\ call' \in [Threads -> CallRecords]
  BY DEF GoesTo, Sending, Adding, Taking, Watching
<1>3. \A u \in Threads : /\ freePc'[u] \in Sending \cup Adding => call'[u].entry \in Blocks
                         /\ freePc'[u] \in Taking => call'[u].popped \in Blocks
  BY <1>1 DEF GoesTo, Alone
<1> QED
  BY <1>1, <1>2, <1>3

(* The same, with its parts apart.                                         *)
LEMMA CallsStayTyped ==
  ASSUME CallsTyped, NEW t \in Threads,
         NEW where \in {"push", "evict", "evictRelease", "push2", "publish", "add", "release", "check", "pop",
                        "idle", "warm", "next", "check2", "flushed", "ended"},
         freePc' = [freePc EXCEPT ![t] = where],
         NEW c \in CallRecords, call' = [call EXCEPT ![t] = c],
         where \in Sending \cup Adding => c.entry \in Blocks,
         where \in Taking => c.popped \in Blocks
  PROVE  CallsTyped' /\ Alone(t) /\ freePc'[t] = where /\ call'[t] = c
<1>1. GoesTo(t, where, c)
  BY DEF GoesTo
<1> QED
  BY <1>1, CallGoesOn

(* A limit is watched as before while its ring has not grown and the call  *)
(* that moves watches it or did not.                                       *)
LEMMA OthersWatch ==
  ASSUME QuarantineTyped, NEW s \in Shards, LimitAt(s), NEW t \in Threads, Alone(t),
         Elements(ring'[s]) \subseteq Elements(ring[s]), Len(ring'[s]) <= Len(ring[s]), Len(ring'[s]) \in Nat,
         \/ call[t].at # s
         \/ freePc[t] \notin Watching \cup {"check2"}
         \/ call'[t].at = call[t].at /\ freePc'[t] \in Watching
  PROVE  LimitAt(s)'
<1>1. ASSUME Len(ring'[s]) > EntryLimit
      PROVE  \E u \in Threads : call'[u].at = s /\ freePc'[u] \in Watching \cup {"check2"}
  <2>1. Len(ring[s]) > EntryLimit
    <3>1. Len(ring[s]) \in Nat /\ EntryLimit \in Nat
      BY Parameters DEF QuarantineTyped
    <3> QED
      BY <3>1, <1>1
  <2>2. PICK u \in Threads : call[u].at = s /\ freePc[u] \in Watching \cup {"check2"}
    BY <2>1 DEF LimitAt
  <2>3. CASE u # t
    BY <2>2, <2>3 DEF Alone
  <2>4. CASE u = t
    BY <2>2, <2>4
  <2> QED
    BY <2>3, <2>4
<1>2. ASSUME SizeOf(Elements(ring'[s])) > ByteLimit
      PROVE  \E u \in Threads : call'[u].at = s /\ (freePc'[u] \in Watching \/ (freePc'[u] = "check2" /\ call'[u].over))
  <2>1. SizeOf(Elements(ring[s])) > ByteLimit
    <3>1. SizeOf(Elements(ring'[s])) <= SizeOf(Elements(ring[s]))
      BY SizeGrows
    <3>2. /\ SizeOf(Elements(ring'[s])) \in Nat /\ SizeOf(Elements(ring[s])) \in Nat
          /\ ByteLimit \in Nat
      BY Parameters, SizeIsNumber
    <3> QED
      BY <3>1, <3>2, <1>2
  <2>2. PICK u \in Threads : call[u].at = s /\ (freePc[u] \in Watching \/ (freePc[u] = "check2" /\ call[u].over))
    BY <2>1 DEF LimitAt
  <2>3. CASE u # t
    BY <2>2, <2>3 DEF Alone
  <2>4. CASE u = t
    BY <2>2, <2>4
  <2> QED
    BY <2>3, <2>4
<1> QED
  BY <1>1, <1>2 DEF LimitAt

LEMMA WatchersStay ==
  ASSUME QuarantineInv, NEW t \in Threads, Alone(t), UNCHANGED <<onlyOnFlush, ring>>,
         freePc[t] \notin Watching, freePc[t] = "check2" => call'[t] = call[t] /\ freePc'[t] \in Watching
  PROVE  LimitInv'
<1>. USE DEF QuarantineInv, QuarantineTyped
<1>1. \A s \in Shards : Len(ring[s]) \in Nat /\ Len(ring[s]) <= Len(ring[s])
  OBVIOUS
<1> SUFFICES ASSUME ~ onlyOnFlush, NEW s \in Shards PROVE LimitAt(s)'
  BY DEF LimitInv
<1>2. LimitAt(s) /\ Elements(ring'[s]) \subseteq Elements(ring[s]) /\ Len(ring'[s]) <= Len(ring[s]) /\ Len(ring'[s]) \in Nat
  BY <1>1 DEF LimitInv
<1>3. \/ freePc[t] \notin Watching \cup {"check2"}
      \/ call'[t].at = call[t].at /\ freePc'[t] \in Watching
  OBVIOUS
<1> QED
  BY <1>2, <1>3, OthersWatch

(* Nobody has missed anything when a call leaves the labels of a flush.    *)
LEMMA MissedStay ==
  ASSUME QuarantineInv, NEW t \in Threads, Alone(t), UNCHANGED <<ring, missed>>,
         freePc[t] \notin {"pop", "release"}, freePc'[t] \in Sending \cup {"publish"} => freePc[t] \in Sending \cup {"publish"}
  PROVE  MissedInv'
BY DEF QuarantineInv, MissedInv, Alone, Sending

LEMMA PrewarmKeeps == ASSUME QuarantineInv, NEW t \in Threads, QU!Prewarm(t) PROVE QuarantineInv'
<1>. USE DEF QuarantineInv, QuarantineTyped
<1>1. PICK life \in {"Persistent", "Cached"} : call' = [call EXCEPT ![t] = [QU!NoCall EXCEPT !.kind = "prewarm", !.life = life]]
  BY DEF QU!Prewarm
<1> DEFINE c == [QU!NoCall EXCEPT !.kind = "prewarm", !.life = life]
<1>2. c \in CallRecords /\ c.todo = {}
  BY NoCallTyped DEF CallRecords
<1>3. /\ freePc[t] = "idle" /\ freePc' = [freePc EXCEPT ![t] = "warm"] /\ call' = [call EXCEPT ![t] = c]
      /\ UNCHANGED <<onlyOnFlush, place, ring, claimed, ringBytes, stale, reported, missed>>
  BY <1>1 DEF QU!Prewarm, QU!Begin, QU!Goto, QU!blockVars
<1> HIDE DEF c
<1>4. CallsTyped' /\ Alone(t) /\ freePc'[t] = "warm" /\ call'[t] = c
  BY <1>2, <1>3, CallsStayTyped DEF Sending, Adding, Taking
<1>5. MovesOn(t)
  BY <1>2, <1>3, <1>4 DEF MovesOn, Sent, Sending, Adding, Taking
<1>6. LimitInv'
  BY <1>3, <1>4, WatchersStay DEF Watching
<1>7. MissedInv'
  BY <1>3, <1>4, MissedStay DEF Sending
<1>8. QuarantineTyped'
  BY <1>3, <1>4
<1> QED
  BY <1>5, <1>6, <1>7, <1>8, MovesOnKeeps

LEMMA FlushCallKeeps == ASSUME QuarantineInv, NEW t \in Threads, QU!FlushCall(t) PROVE QuarantineInv'
<1>. USE DEF QuarantineInv, QuarantineTyped
<1>1. PICK kind \in {"flush", "exit"} : call' = [call EXCEPT ![t] = [QU!NoCall EXCEPT !.kind = kind]]
  BY DEF QU!FlushCall
<1> DEFINE c == [QU!NoCall EXCEPT !.kind = kind]
<1>2. c \in CallRecords /\ c.todo = {}
  BY NoCallTyped DEF CallRecords
<1>3. /\ freePc[t] = "idle" /\ freePc' = [freePc EXCEPT ![t] = "next"] /\ call' = [call EXCEPT ![t] = c]
      /\ UNCHANGED <<onlyOnFlush, place, ring, claimed, ringBytes, stale, reported, missed>>
  BY <1>1 DEF QU!FlushCall, QU!Begin, QU!Goto, QU!blockVars
<1> HIDE DEF c
<1>4. CallsTyped' /\ Alone(t) /\ freePc'[t] = "next" /\ call'[t] = c
  BY <1>2, <1>3, CallsStayTyped DEF Sending, Adding, Taking
<1>5. MovesOn(t)
  BY <1>2, <1>3, <1>4 DEF MovesOn, Sent, Sending, Adding, Taking
<1>6. LimitInv'
  BY <1>3, <1>4, WatchersStay DEF Watching
<1>7. MissedInv'
  BY <1>3, <1>4, MissedStay DEF Sending
<1>8. QuarantineTyped'
  BY <1>3, <1>4
<1> QED
  BY <1>5, <1>6, <1>7, <1>8, MovesOnKeeps

(* The same for a step that leaves the record of the call as it is.        *)
LEMMA SameCall ==
  ASSUME CallsTyped, NEW t \in Threads, UNCHANGED call
  PROVE  call[t] \in CallRecords /\ call' = [call EXCEPT ![t] = call[t]]
BY DEF CallsTyped

LEMMA LabelsStayTyped ==
  ASSUME CallsTyped, NEW t \in Threads, UNCHANGED call,
         NEW where \in {"push", "evict", "evictRelease", "push2", "publish", "add", "release", "check", "pop",
                        "idle", "warm", "next", "check2", "flushed", "ended"},
         freePc' = [freePc EXCEPT ![t] = where],
         where \in Sending \cup Adding => call[t].entry \in Blocks,
         where \in Taking => call[t].popped \in Blocks
  PROVE  CallsTyped' /\ Alone(t) /\ freePc'[t] = where /\ call'[t] = call[t]
<1>. USE DEF CallsTyped
<1>1. Alone(t) /\ freePc'[t] = where /\ call'[t] = call[t]
  BY DEF Alone
<1>2. freePc' \in [Threads -> Sending \cup Adding \cup Taking \cup Watching
                              \cup {"idle", "warm", "next", "check2", "flushed", "ended"}]
  BY DEF Sending, Adding, Taking, Watching
<1>3. \A u \in Threads : /\ freePc'[u] \in Sending \cup Adding => call'[u].entry \in Blocks
                         /\ freePc'[u] \in Taking => call'[u].popped \in Blocks
  BY <1>1 DEF Alone
<1> QED
  BY <1>1, <1>2, <1>3

LEMMA WarmDoneKeeps == ASSUME QuarantineInv, NEW t \in Threads, QU!WarmDone(t) PROVE QuarantineInv'
<1>. USE DEF QuarantineInv, QuarantineTyped
<1>1. /\ freePc[t] = "warm" /\ freePc' = [freePc EXCEPT ![t] = "next"] /\ UNCHANGED call
      /\ UNCHANGED <<onlyOnFlush, place, ring, claimed, ringBytes, stale, reported, missed>>
  BY DEF QU!WarmDone, QU!Goto, QU!blockVars
<1>2. call[t] \in CallRecords /\ call' = [call EXCEPT ![t] = call[t]]
  BY <1>1, SameCall
<1>3. CallsTyped' /\ Alone(t) /\ freePc'[t] = "next" /\ call'[t] = call[t]
  BY <1>1, <1>2, CallsStayTyped DEF Sending, Adding, Taking
<1>4. MovesOn(t)
  BY <1>1, <1>3 DEF MovesOn, Sent, Sending, Adding, Taking
<1>5. LimitInv'
  BY <1>1, <1>3, WatchersStay DEF Watching
<1>6. MissedInv'
  BY <1>1, <1>3, MissedStay DEF Sending
<1>7. QuarantineTyped'
  BY <1>1, <1>3
<1> QED
  BY <1>4, <1>5, <1>6, <1>7, MovesOnKeeps

(* A push or an eviction that is refused.                                  *)
LEMMA RefusedKeeps ==
  ASSUME QuarantineInv, NEW t \in Threads, UNCHANGED <<onlyOnFlush, QU!blockVars, call, missed>>,
         NEW where \in {"evict", "push2"}, freePc[t] \in {"push", "evict"}, QU!Goto(t, where)
  PROVE  QuarantineInv'
<1>. USE DEF QuarantineInv, QuarantineTyped
<1>1. /\ freePc' = [freePc EXCEPT ![t] = where] /\ UNCHANGED call
      /\ UNCHANGED <<onlyOnFlush, place, ring, claimed, ringBytes, stale, reported, missed>>
  BY DEF QU!Goto, QU!blockVars
<1>2. call[t] \in CallRecords /\ call' = [call EXCEPT ![t] = call[t]]
  BY <1>1, SameCall
<1>3. call[t].entry \in Blocks
  BY DEF CallsTyped, Sending
<1>4. CallsTyped' /\ Alone(t) /\ freePc'[t] = where /\ call'[t] = call[t]
  BY <1>1, <1>2, <1>3, CallsStayTyped DEF Sending, Adding, Taking
<1>5. MovesOn(t)
  BY <1>1, <1>4 DEF MovesOn, Sent, Sending, Adding, Taking
<1>6. LimitInv'
  BY <1>1, <1>4, WatchersStay DEF Watching
<1>7. MissedInv'
  BY <1>1, <1>4, MissedStay DEF Sending
<1>8. QuarantineTyped'
  BY <1>1, <1>4
<1> QED
  BY <1>5, <1>6, <1>7, <1>8, MovesOnKeeps

(* A flush starts with everything in the rings before it.                  *)
LEMMA FlushBeginKeeps == ASSUME QuarantineInv, NEW t \in Threads, QU!FlushBegin(t) PROVE QuarantineInv'
<1>. USE DEF QuarantineInv, QuarantineTyped
<1> DEFINE c == [call[t] EXCEPT !.force = TRUE, !.at = 1]
           seen == IF \E u \in Threads : freePc[u] \in {"push", "publish", "evict", "evictRelease", "push2"}
                     THEN {} ELSE {b \in Blocks : place[b] = "ring"}
<1>1. /\ freePc[t] = "next" /\ freePc' = [freePc EXCEPT ![t] = "pop"] /\ call' = [call EXCEPT ![t] = c]
      /\ missed' = [missed EXCEPT ![t] = seen]
      /\ UNCHANGED <<onlyOnFlush, place, ring, claimed, ringBytes, stale, reported>>
  BY DEF QU!FlushBegin, QU!Goto, QU!blockVars, CallsTyped, CallRecords
<1>2. c \in CallRecords /\ c.todo = call[t].todo /\ c.entry = call[t].entry /\ c.force /\ c.at = 1
  <2>1. call[t] \in CallRecords
    BY DEF CallsTyped
  <2> HIDE DEF QuarantineInv, QuarantineTyped
  <2>2. c \in CallRecords
    BY <2>1, ShardNumbers DEF CallRecords
  <2> QED
    BY <2>1, <2>2 DEF CallRecords
<1> HIDE DEF c
<1>3. CallsTyped' /\ Alone(t) /\ freePc'[t] = "pop" /\ call'[t] = c
  BY <1>1, <1>2, CallsStayTyped DEF Sending, Adding, Taking
<1>4. MovesOn(t)
  BY <1>1, <1>2, <1>3 DEF MovesOn, Sent, Sending, Adding, Taking
<1>5. LimitInv'
  BY <1>1, <1>3, WatchersStay DEF Watching
<1>6. missed' \in [Threads -> SUBSET Blocks] /\ missed'[t] = seen /\ \A u \in Threads \ {t} : missed'[u] = missed[u]
  BY <1>1
<1>7. QuarantineTyped'
  BY <1>1, <1>3, <1>6
<1>8. MissedInv'
  <2> SUFFICES ASSUME NEW u \in Threads, missed'[u] # {}
               PROVE  /\ freePc'[u] \in {"pop", "release"} /\ call'[u].force
                      /\ \A v \in Threads : freePc'[v] \notin Sending \cup {"publish"}
                      /\ \A b \in missed'[u] : \E s \in Shards : call'[u].at <= s /\ b \in Elements(ring[s])
    BY <1>1 DEF MissedInv
  <2>1. CASE u # t
    BY <2>1, <1>3, <1>6 DEF MissedInv, Alone, Sending
  <2>2. CASE u = t
    <3>1. missed'[u] = {b \in Blocks : place[b] = "ring"} /\ \A v \in Threads : freePc[v] \notin Sending \cup {"publish"}
      BY <2>2, <1>6 DEF Sending
    <3>2. \A b \in missed'[u] : \E s \in Shards : b \in Elements(ring[s])
      BY <3>1 DEF RingInv
    <3>3. \A s \in Shards : 1 <= s
      BY ShardNumbers
    <3> QED
      BY <2>2, <3>1, <3>2, <3>3, <1>2, <1>3 DEF Alone, Sending
  <2> QED
    BY <2>1, <2>2
<1> QED
  BY <1>4, <1>5, <1>7, <1>8, MovesOnKeeps

(* While nobody has still to add to it, a counter is at least what its ring*)
(* holds.                                                                  *)
LEMMA CounterSees ==
  ASSUME QuarantineInv, NEW s \in Shards, \A t \in Threads : QU!ToAdd(t, s) = 0
  PROVE  SizeOf(Elements(ring[s])) <= ringBytes[s]
<1>. USE DEF QuarantineInv, QuarantineTyped
<1>1. Pending(s) = 0
  BY NothingPending
<1>2. ringBytes[s] \in 0 .. ByteModulus - 1 /\ ByteModulus \in Nat \ {0}
  BY SizeIsNumber
<1>3. (ringBytes[s] + 0) % ByteModulus = ringBytes[s]
  BY <1>2, SmallStays
<1>4. SizeOf(OnCounter(s)) = ringBytes[s]
  BY <1>1, <1>3 DEF BytesInv
<1>5. SizeOf(Elements(ring[s])) <= SizeOf(OnCounter(s))
  BY SizeGrows DEF OnCounter
<1> QED
  BY <1>4, <1>5

LEMMA LoadBytesKeeps == ASSUME QuarantineInv, NEW t \in Threads, QU!LoadBytes(t) PROVE QuarantineInv'
<1>. USE DEF QuarantineInv, QuarantineTyped
<1> DEFINE over == ringBytes[call[t].at] > ByteLimit
           c == [call[t] EXCEPT !.over = over]
<1>1. /\ freePc[t] = "check" /\ freePc' = [freePc EXCEPT ![t] = "check2"] /\ call' = [call EXCEPT ![t] = c]
      /\ UNCHANGED <<onlyOnFlush, place, ring, claimed, ringBytes, stale, reported, missed>>
  BY DEF QU!LoadBytes, QU!Goto, QU!blockVars, CallsTyped, CallRecords
<1>0. over \in BOOLEAN /\ call[t] \in CallRecords /\ (~ over => ~ (ringBytes[call[t].at] > ByteLimit))
  BY DEF CallsTyped
<1> HIDE DEF over
<1>2. c \in CallRecords /\ c.todo = call[t].todo /\ c.entry = call[t].entry /\ c.at = call[t].at /\ c.over = over
  BY <1>0 DEF CallRecords
<1> HIDE DEF c
<1>3. CallsTyped' /\ Alone(t) /\ freePc'[t] = "check2" /\ call'[t] = c
  BY <1>1, <1>2, CallsStayTyped DEF Sending, Adding, Taking
<1>4. MovesOn(t)
  BY <1>1, <1>2, <1>3 DEF MovesOn, Sent, Sending, Adding, Taking
<1>5. MissedInv'
  BY <1>1, <1>3, MissedStay DEF Sending
<1>6. QuarantineTyped'
  BY <1>1, <1>3
<1>7. LimitInv'
  <2> SUFFICES ASSUME ~ onlyOnFlush, NEW s \in Shards
               PROVE  /\ Len(ring[s]) > EntryLimit =>
                           \E u \in Threads : call'[u].at = s /\ freePc'[u] \in Watching \cup {"check2"}
                      /\ SizeOf(Elements(ring[s])) > ByteLimit =>
                           \E u \in Threads : call'[u].at = s /\ (freePc'[u] \in Watching \/ (freePc'[u] = "check2" /\ call'[u].over))
    BY <1>1 DEF LimitInv, LimitAt
  <2>1. Len(ring[s]) > EntryLimit =>
          \E u \in Threads : call'[u].at = s /\ freePc'[u] \in Watching \cup {"check2"}
    <3>1. SUFFICES ASSUME Len(ring[s]) > EntryLimit
                   PROVE  \E u \in Threads : call'[u].at = s /\ freePc'[u] \in Watching \cup {"check2"}
      OBVIOUS
    <3>2. PICK u \in Threads : call[u].at = s /\ freePc[u] \in Watching \cup {"check2"}
      BY <3>1 DEF LimitInv, LimitAt
    <3>3. call'[u].at = s /\ freePc'[u] \in Watching \cup {"check2"}
      BY <3>2, <1>2, <1>3 DEF Alone
    <3> QED
      BY <3>3
  <2>2. ASSUME SizeOf(Elements(ring[s])) > ByteLimit
        PROVE  \E u \in Threads : call'[u].at = s /\ (freePc'[u] \in Watching \/ (freePc'[u] = "check2" /\ call'[u].over))
    <3>1. PICK u \in Threads : call[u].at = s /\ (freePc[u] \in Watching \/ (freePc[u] = "check2" /\ call[u].over))
      BY <2>2 DEF LimitInv, LimitAt
    <3>2. CASE u # t
      BY <3>1, <3>2, <1>3 DEF Alone
    <3>3. CASE u = t /\ over
      BY <3>1, <3>3, <1>2, <1>3
    <3>4. CASE \E v \in Threads : freePc[v] \in Adding /\ call[v].at = s
      BY <3>4, <1>1, <1>3 DEF Alone, Adding, Watching
    <3>5. CASE u = t /\ ~ over /\ \A v \in Threads : ~ (freePc[v] \in Adding /\ call[v].at = s)
      <4>1. \A v \in Threads : QU!ToAdd(v, s) = 0
        BY <3>5 DEF QU!ToAdd, Adding
      <4>2. SizeOf(Elements(ring[s])) <= ringBytes[s]
        BY <4>1, CounterSees
      <4>3. ~ (ringBytes[s] > ByteLimit)
        BY <3>1, <3>5, <1>0
      <4>4. ringBytes[s] \in Nat /\ ByteLimit \in Nat /\ SizeOf(Elements(ring[s])) \in Nat
        BY Parameters, SizeIsNumber
      <4> QED
        BY <2>2, <4>2, <4>3, <4>4
    <3> QED
      BY <3>2, <3>3, <3>4, <3>5
  <2> QED
    BY <2>1, <2>2
<1> QED
  BY <1>4, <1>5, <1>6, <1>7, MovesOnKeeps

LEMMA LoadSizeKeeps == ASSUME QuarantineInv, NEW t \in Threads, QU!LoadSize(t) PROVE QuarantineInv'
<1>. USE DEF QuarantineInv, QuarantineTyped
<1> DEFINE where == IF QU!OverLimits(t) THEN "pop" ELSE QU!Freed(t)
<1>1. /\ freePc[t] = "check2" /\ freePc' = [freePc EXCEPT ![t] = where] /\ UNCHANGED call
      /\ UNCHANGED <<onlyOnFlush, place, ring, claimed, ringBytes, stale, reported, missed>>
  BY DEF QU!LoadSize, QU!Goto, QU!blockVars
<1>2. call[t] \in CallRecords /\ call' = [call EXCEPT ![t] = call[t]]
  BY <1>1, SameCall
<1>3. where \in {"pop", "idle", "next"} /\ (where # "pop" => ~ call[t].over /\ ~ (Len(ring[call[t].at]) > EntryLimit))
  BY DEF QU!OverLimits, QU!Freed
<1> HIDE DEF where
<1>4. CallsTyped' /\ Alone(t) /\ freePc'[t] = where /\ call'[t] = call[t]
  BY <1>1, <1>2, <1>3, CallsStayTyped DEF Sending, Adding, Taking
<1>5. MovesOn(t)
  BY <1>1, <1>3, <1>4 DEF MovesOn, Sent, Sending, Adding, Taking
<1>6. MissedInv'
  BY <1>1, <1>3, <1>4, MissedStay DEF Sending
<1>7. QuarantineTyped'
  BY <1>1, <1>4
<1>8. LimitInv'
  <2>1. CASE where = "pop"
    BY <2>1, <1>1, <1>4, WatchersStay DEF Watching
  <2>2. CASE where # "pop"
    <3>1. ~ call[t].over /\ ~ (Len(ring[call[t].at]) > EntryLimit)
      BY <2>2, <1>3
    <3>2. SUFFICES ASSUME ~ onlyOnFlush, NEW s \in Shards
          PROVE /\ Len(ring[s]) > EntryLimit =>
                     \E u \in Threads : call[u].at = s /\ freePc'[u] \in Watching \cup {"check2"}
                /\ SizeOf(Elements(ring[s])) > ByteLimit =>
                     \E u \in Threads : call[u].at = s /\ (freePc'[u] \in Watching \/ (freePc'[u] = "check2" /\ call[u].over))
      BY <1>1 DEF LimitInv, LimitAt
    <3>3. ASSUME NEW u \in Threads, u # t PROVE freePc'[u] = freePc[u]
      BY <3>3, <1>4 DEF Alone
    <3>4. Len(ring[s]) > EntryLimit => \E u \in Threads : u # t /\ call[u].at = s /\ freePc[u] \in Watching \cup {"check2"}
      BY <3>1, <3>2 DEF LimitInv, LimitAt
    <3>5. SizeOf(Elements(ring[s])) > ByteLimit =>
            \E u \in Threads : u # t /\ call[u].at = s /\ (freePc[u] \in Watching \/ (freePc[u] = "check2" /\ call[u].over))
      BY <3>1, <3>2, <1>1 DEF LimitInv, LimitAt, Watching
    <3> QED
      BY <3>3, <3>4, <3>5
  <2> QED
    BY <2>1, <2>2
<1> QED
  BY <1>5, <1>6, <1>7, <1>8, MovesOnKeeps

(* A ring whose oldest entry is not published has its publisher at work; an*)
(* empty one holds nothing.                                                *)
LEMMA NothingToPop ==
  ASSUME QuarantineInv, NEW t \in Threads, QU!PopRefused(t), freePc[t] = "pop"
  PROVE  \/ /\ Elements(ring[call[t].at]) = {} /\ Len(ring[call[t].at]) = 0
         \/ \E u \in Threads \ {t} : freePc[u] = "publish" /\ call[u].at = call[t].at
<1>. USE DEF QuarantineInv, QuarantineTyped, CallsTyped
<1> DEFINE q == ring[call[t].at]
<1>1. call[t].at \in Shards /\ q \in Seq(Blocks)
  BY DEF CallRecords
<1>2. CASE q = <<>>
  <2>1. Elements(<<>>) = {} /\ Len(<<>>) = 0
    BY DEF Elements
  <2> QED
    BY <1>2, <2>1
<1>3. CASE q # <<>>
  <2>1. Head(q) \in claimed /\ Head(q) \in Elements(q)
    BY <1>1, <1>3, ElementsOfTail DEF QU!PopRefused, RingInv
  <2>2. PICK u \in Threads : freePc[u] = "publish" /\ call[u].entry = Head(q)
    BY <2>1 DEF ClaimedInv
  <2>3. Head(q) \in Elements(ring[call[u].at]) /\ call[u].at \in Shards
    BY <2>2 DEF ClaimedInv, CallRecords
  <2>4. call[u].at = call[t].at
    BY <1>1, <2>1, <2>3 DEF RingInv
  <2> QED
    BY <2>2, <2>4
<1> QED
  BY <1>2, <1>3

PopsNothing(t) ==
  /\ freePc[t] = "pop" /\ QU!PopRefused(t) /\ QU!Goto(t, QU!AfterNone(t))
  /\ call' = [call EXCEPT ![t].at = IF @ + 1 \in Shards THEN @ + 1 ELSE @]
  /\ UNCHANGED <<onlyOnFlush, QU!blockVars, missed>>

LEMMA PopNothingKeeps == ASSUME QuarantineInv, NEW t \in Threads, PopsNothing(t) PROVE QuarantineInv'
<1>. USE DEF QuarantineInv, QuarantineTyped
<1> DEFINE where == QU!AfterNone(t)
           s == call[t].at
           n == IF s + 1 \in Shards THEN s + 1 ELSE s
           c == [call[t] EXCEPT !.at = n]
<1>1. /\ freePc' = [freePc EXCEPT ![t] = where] /\ call' = [call EXCEPT ![t] = c] /\ freePc[t] = "pop"
      /\ UNCHANGED <<onlyOnFlush, place, ring, claimed, ringBytes, stale, reported, missed>>
  BY DEF PopsNothing, QU!Goto, QU!blockVars, CallsTyped, CallRecords
<1>0. call[t] \in CallRecords /\ s \in Shards /\ n \in Shards /\ (s + 1 \in Shards => n = s + 1)
  BY DEF CallRecords, CallsTyped
<1> HIDE DEF n
<1>2. c \in CallRecords /\ c.todo = call[t].todo /\ c.entry = call[t].entry /\ c.force = call[t].force /\ c.at = n
  BY <1>0 DEF CallRecords
<1>3. where \in {"pop", "idle", "next", "flushed"} /\ (call[t].force => where = IF s + 1 \in Shards THEN "pop" ELSE "flushed")
  BY DEF QU!AfterNone, QU!Freed
<1>4. \/ Elements(ring[s]) = {} /\ Len(ring[s]) = 0
      \/ \E u \in Threads \ {t} : freePc[u] = "publish" /\ call[u].at = s
  BY NothingToPop DEF PopsNothing
<1> HIDE DEF c, where, s
<1>14. where \notin Sending \cup Adding \cup Taking
  BY <1>3 DEF Sending, Adding, Taking
<1>15. GoesTo(t, where, c)
  BY <1>1, <1>2, <1>3, <1>14 DEF GoesTo
<1>5. CallsTyped' /\ Alone(t) /\ freePc'[t] = where /\ call'[t] = c
  BY <1>15, CallGoesOn
<1>6. MovesOn(t)
  <2>1. freePc[t] \notin Sending \cup Adding \cup Taking /\ freePc'[t] \notin Sending \cup Adding \cup Taking
    BY <1>1, <1>5, <1>14 DEF Sending, Adding, Taking
  <2>2. Sent(t)' = Sent(t)
    BY <2>1 DEF Sent
  <2> QED
    BY <2>1, <2>2, <1>1, <1>2, <1>5 DEF MovesOn
<1>7. QuarantineTyped'
  BY <1>1, <1>5
<1>8. MissedInv'
  <2> SUFFICES ASSUME NEW u \in Threads, missed[u] # {}
               PROVE  /\ freePc'[u] \in {"pop", "release"} /\ call'[u].force
                      /\ \A v \in Threads : freePc'[v] \notin Sending \cup {"publish"}
                      /\ \A b \in missed[u] : \E r \in Shards : call'[u].at <= r /\ b \in Elements(ring[r])
    BY <1>1 DEF MissedInv
  <2>1. \A v \in Threads : freePc[v] \notin Sending \cup {"publish"}
    BY DEF MissedInv
  <2>2. \A v \in Threads : freePc'[v] \notin Sending \cup {"publish"}
    BY <2>1, <1>3, <1>5 DEF Alone, Sending
  <2>3. CASE u # t
    BY <2>2, <2>3, <1>5 DEF MissedInv, Alone
  <2>4. CASE u = t
    <3>1. call[t].force /\ \A b \in missed[t] : \E r \in Shards : s <= r /\ b \in Elements(ring[r])
      BY <2>4 DEF MissedInv, s
    <3>2. Elements(ring[s]) = {}
      BY <1>4, <2>1 DEF Sending
    <3>3. ASSUME NEW b \in missed[t] PROVE \E r \in Shards : s < r /\ b \in Elements(ring[r])
      <4>1. PICK r \in Shards : s <= r /\ b \in Elements(ring[r])
        BY <3>1
      <4>2. s # r /\ s \in Nat /\ r \in Nat
        BY <3>2, <4>1, <1>0, ShardNumbers
      <4>3. s < r
        BY <4>1, <4>2
      <4> QED
        BY <4>1, <4>3
    <3>4. s + 1 \in Shards
      BY <2>4, <3>3, <1>0, ShardNumbers
    <3>5. where = "pop" /\ c.at = s + 1
      BY <3>1, <3>4, <1>0, <1>2, <1>3
    <3>6. \A b \in missed[t] : \E r \in Shards : c.at <= r /\ b \in Elements(ring[r])
      BY <3>3, <3>5, <1>0, <1>2, ShardNumbers
    <3> QED
      BY <2>2, <2>4, <3>1, <3>5, <3>6, <1>2, <1>5
  <2> QED
    BY <2>3, <2>4
<1>9. LimitInv'
  <2>0. \A r \in Shards : Len(ring[r]) \in Nat /\ Len(ring[r]) <= Len(ring[r])
    OBVIOUS
  <2> SUFFICES ASSUME ~ onlyOnFlush, NEW r \in Shards PROVE LimitAt(r)'
    BY <1>1 DEF LimitInv
  <2>1. CASE r # s
    <3>1. /\ LimitAt(r) /\ Elements(ring'[r]) \subseteq Elements(ring[r])
          /\ Len(ring'[r]) <= Len(ring[r]) /\ Len(ring'[r]) \in Nat
      BY <1>1, <2>0 DEF LimitInv
    <3> QED
      BY <2>1, <3>1, <1>5, OthersWatch DEF s
  <2>2. CASE r = s /\ Elements(ring[s]) = {} /\ Len(ring[s]) = 0
    <3>1. Len(ring[r]) = 0 /\ SizeOf(Elements(ring[r])) = 0
      BY <2>2, SizeIsNumber
    <3>2. ~ (0 > EntryLimit) /\ ~ (0 > ByteLimit)
      BY Parameters
    <3> QED
      BY <3>1, <3>2, <1>1 DEF LimitAt
  <2>3. CASE r = s /\ \E u \in Threads \ {t} : freePc[u] = "publish" /\ call[u].at = s
    BY <2>3, <1>5 DEF Alone, Watching, LimitAt
  <2> QED
    BY <2>1, <2>2, <2>3, <1>4
<1> QED
  BY <1>6, <1>7, <1>8, <1>9, MovesOnKeeps

-----------------------------------------------------------------------------
(* Quarantine: counters *)

LEMMA AddsAreNumbers ==
  ASSUME CallsTyped, NEW t \in Threads, NEW s \in Shards
  PROVE  QU!ToAdd(t, s) \in Nat
BY Parameters DEF CallsTyped, QU!ToAdd, Adding

LEMMA PendingMoves ==
  ASSUME CallsTyped, CallsTyped', NEW s \in Shards, NEW t \in Threads,
         \A u \in Threads \ {t} : QU!ToAdd(u, s)' = QU!ToAdd(u, s)
  PROVE  /\ Pending(s)' = Pending(s) + (QU!ToAdd(t, s)' - QU!ToAdd(t, s))
         /\ Pending(s) \in Int /\ Pending(s)' \in Int
<1> DEFINE f == [u \in Threads |-> QU!ToAdd(u, s)]
           g == [u \in Threads |-> QU!ToAdd(u, s)']
<1>1. \A u \in Threads : QU!ToAdd(u, s) \in Nat
  BY AddsAreNumbers
<1>2. \A u \in Threads : QU!ToAdd(u, s)' \in Nat
  BY Parameters DEF CallsTyped, QU!ToAdd, Adding
<1>3. f \in [Threads -> Int] /\ g \in [Threads -> Int]
  BY <1>1, <1>2
<1>4. \A u \in Threads \ {t} : g[u] = f[u]
  OBVIOUS
<1>5. g[t] = QU!ToAdd(t, s)' /\ f[t] = QU!ToAdd(t, s)
  OBVIOUS
<1>6. Pending(s) = SumFunction(f) /\ Pending(s)' = SumFunction(g)
  BY DEF Pending
<1> HIDE DEF f, g
<1>7. IsFiniteSet(Threads)
  BY Parameters
<1>8. SumFunction(g) = SumFunction(f) + (g[t] - f[t])
  BY <1>3, <1>4, <1>7, SumOfChanged
<1>9. SumFunction(f) \in Int /\ SumFunction(g) \in Int
  BY <1>3, <1>7, SumType
<1> QED
  BY <1>5, <1>6, <1>8, <1>9

(* A counter b of width m, with a still to be added, counts c; so it does  *)
(* when n comes in and still has to be added, when n is added, and when a  *)
(* part n of c is taken off.                                               *)
Counts(m, b, a, c) == m \in Nat \ {0} /\ b \in Int /\ a \in Int /\ c \in Int /\ (b + a) % m = c

(* What CountMoves says of a and n, in a form that is easily instantiated. *)
Moves(a, n, m) == ((a % m) + n) % m = (a + n) % m /\ (a + n) % m \in 0 .. m - 1

LEMMA AlwaysMoves == \A a \in Int, n \in Int, m \in Nat \ {0} : Moves(a, n, m)
<1> TAKE a \in Int, n \in Int, m \in Nat \ {0}
<1>1. m \in Nat /\ m # 0
  OBVIOUS
<1> QED
  BY <1>1, CountMoves DEF Moves

LEMMA CounterOwed ==
  ASSUME NEW m, NEW b, NEW a, NEW c, Counts(m, b, a, c), NEW n \in Int, c + n \in 0 .. m - 1
  PROVE  Counts(m, b, a + n, c + n)
<1>. USE DEF Counts
<1> DEFINE d == b + a
<1>1. d \in Int /\ m \in Nat \ {0} /\ d % m = c
  OBVIOUS
<1>2. d + n = b + (a + n) /\ a + n \in Int /\ c + n \in Int
  OBVIOUS
<1>3. (c + n) % m = c + n
  BY SmallStays
<1> HIDE DEF d
<1>4. Moves(d, n, m)
  BY <1>1, AlwaysMoves
<1>5. ((d % m) + n) % m = (d + n) % m
  BY <1>4 DEF Moves
<1> QED
  BY <1>1, <1>2, <1>3, <1>5

LEMMA CounterRaised ==
  ASSUME NEW m, NEW b, NEW a, NEW c, Counts(m, b, a, c), NEW n \in Int
  PROVE  Counts(m, (b + n) % m, a - n, c) /\ (b + n) % m \in 0 .. m - 1
<1>. USE DEF Counts
<1> DEFINE d == b + n
           e == a - n
<1>1. d \in Int /\ e \in Int /\ m \in Nat \ {0} /\ d + e = b + a
  OBVIOUS
<1> HIDE DEF d, e
<1>2. Moves(d, e, m)
  BY <1>1, AlwaysMoves
<1>3. ((d % m) + e) % m = (d + e) % m
  BY <1>2 DEF Moves
<1>4. d % m \in 0 .. m - 1 /\ d % m \in Int
  BY <1>1, SMT
<1>5. Counts(m, d % m, e, c)
  BY <1>1, <1>3, <1>4
<1> QED
  BY <1>4, <1>5 DEF d, e

LEMMA CounterLowered ==
  ASSUME NEW m, NEW b, NEW a, NEW c, Counts(m, b, a, c), NEW n \in Int, c - n \in 0 .. m - 1
  PROVE  Counts(m, (b + m - n) % m, a, c - n) /\ (b + m - n) % m \in 0 .. m - 1
<1>. USE DEF Counts
<1> DEFINE d == b + m - n
           e == m - n
           g == b + a
<1>1. /\ d \in Int /\ e \in Int /\ g \in Int /\ a \in Int /\ m \in Nat \ {0}
      /\ d + a = g + e /\ (c - n) + m = c + e /\ c - n \in Int /\ g % m = c
  OBVIOUS
<1>2. ((c - n) + m) % m = c - n
  BY SmallStays
<1> HIDE DEF d, e, g
<1>3. Moves(d, a, m) /\ Moves(g, e, m)
  BY <1>1, AlwaysMoves
<1>4. ((d % m) + a) % m = (d + a) % m /\ ((g % m) + e) % m = (g + e) % m
  BY <1>3 DEF Moves
<1>5. ((d % m) + a) % m = c - n
  BY <1>1, <1>2, <1>4
<1>6. d % m \in 0 .. m - 1 /\ d % m \in Int
  BY <1>1, SMT
<1>7. Counts(m, d % m, a, c - n)
  BY <1>1, <1>5, <1>6
<1> QED
  BY <1>6, <1>7 DEF d

(* The counters of the invariant are such.                                 *)
LEMMA RingCounts ==
  ASSUME QuarantineTyped, BytesInv, NEW s \in Shards
  PROVE  Counts(ByteModulus, ringBytes[s], Pending(s), SizeOf(OnCounter(s)))
<1> DEFINE f == [t \in Threads |-> QU!ToAdd(t, s)]
<1>1. f \in [Threads -> Int]
  BY AddsAreNumbers DEF QuarantineTyped
<1>2. SumFunction(f) \in Int
  <2> HIDE DEF f
  <2> QED
    BY <1>1, Parameters, SumType
<1>3. Pending(s) \in Int
  BY <1>2 DEF Pending
<1> QED
  BY <1>3, SizeIsNumber DEF QuarantineTyped, BytesInv, Counts

-----------------------------------------------------------------------------
(* Quarantine: into a ring *)

Claims(t) ==
  /\ freePc[t] \in {"push", "push2"} /\ QU!Claimed(t)
  /\ UNCHANGED onlyOnFlush

LEMMA ClaimedKeeps == ASSUME QuarantineInv, NEW t \in Threads, Claims(t) PROVE QuarantineInv'
<1>. USE DEF QuarantineInv, QuarantineTyped
<1> DEFINE s == call[t].at
           e == call[t].entry
<1>1. /\ freePc[t] \in {"push", "push2"} /\ freePc' = [freePc EXCEPT ![t] = "publish"] /\ UNCHANGED call
      /\ Len(ring[s]) < Capacity /\ ring' = [ring EXCEPT ![s] = Append(@, e)]
      /\ place' = [place EXCEPT ![e] = "ring"] /\ claimed' = claimed \cup {e}
      /\ UNCHANGED <<onlyOnFlush, ringBytes, stale, reported, missed>>
  BY DEF Claims, QU!Claimed, QU!Goto
<1>2. call[t] \in CallRecords /\ call' = [call EXCEPT ![t] = call[t]]
  BY <1>1, SameCall
<1>3. e \in Blocks /\ s \in Shards
  BY <1>1, <1>2 DEF CallsTyped, CallRecords, Sending
<1>4. CallsTyped' /\ Alone(t) /\ freePc'[t] = "publish" /\ call'[t] = call[t]
  BY <1>1, <1>2, <1>3, CallsStayTyped DEF Sending, Adding, Taking
<1> HIDE DEF s, e
<1>5. /\ Sent(t) = {e} /\ Taken(t) = {} /\ Sent(t)' = {} /\ Taken(t)' = {}
      /\ \A u \in Threads \ {t} : Sent(u)' = Sent(u) /\ Taken(u)' = Taken(u)
  BY <1>1, <1>4 DEF Sent, Taken, Sending, Taking, Alone, e
<1>6. place[e] = "hand" /\ e \notin stale /\ \A r \in Shards : e \notin Elements(ring[r])
  <2>1. place[e] = "hand"
    BY <1>3, <1>5 DEF HandInv
  <2> QED
    BY <2>1, <1>3, <1>5 DEF RingInv, StaleInv
<1>7. /\ ring'[s] \in Seq(Blocks) /\ Len(ring'[s]) = Len(ring[s]) + 1 /\ Len(ring[s]) \in Nat
      /\ Elements(ring'[s]) = Elements(ring[s]) \cup {e}
      /\ Distinct(ring'[s])
      /\ \A r \in Shards \ {s} : ring'[r] = ring[r]
  BY <1>1, <1>3, <1>6, ElementsOfAppend DEF RingInv
<1>8. /\ place'[e] = "ring" /\ \A b \in Blocks \ {e} : place'[b] = place[b]
      /\ place' \in [Blocks -> {"central", "live", "ring", "hand"} \cup Threads]
  BY <1>1, <1>3
<1>9. QuarantineTyped'
  <2>1. ring' \in [Shards -> Seq(Blocks)]
    BY <1>1, <1>3, <1>7
  <2>2. \A r \in Shards : Len(ring'[r]) <= Capacity
    BY <1>1, <1>3, <1>7, Parameters
  <2>3. claimed' \subseteq Blocks
    BY <1>1, <1>3
  <2> QED
    BY <2>1, <2>2, <2>3, <1>1, <1>4, <1>8
<1>10. RingInv'
  <2>1. \A r \in Shards : Distinct(ring'[r])
    BY <1>7 DEF RingInv
  <2>2. \A r, q \in Shards : r # q => Elements(ring'[r]) \cap Elements(ring'[q]) = {}
    <3> SUFFICES ASSUME NEW r \in Shards, NEW q \in Shards, r # q, NEW b \in Elements(ring'[r]), b \in Elements(ring'[q])
                 PROVE  FALSE
      OBVIOUS
    <3>1. CASE b = e
      <4>1. \A k \in Shards \ {s} : b \notin Elements(ring'[k])
        BY <3>1, <1>6, <1>7
      <4> QED
        BY <4>1
    <3>2. CASE b # e
      <4>1. \A k \in Shards : b \in Elements(ring'[k]) => b \in Elements(ring[k])
        BY <3>2, <1>7
      <4> QED
        BY <4>1 DEF RingInv
    <3> QED
      BY <3>1, <3>2
  <2>3. \A b \in Blocks : place'[b] = "ring" <=> \E r \in Shards : b \in Elements(ring'[r])
    <3> SUFFICES ASSUME NEW b \in Blocks
                 PROVE  place'[b] = "ring" <=> \E r \in Shards : b \in Elements(ring'[r])
      OBVIOUS
    <3>1. CASE b = e
      BY <3>1, <1>3, <1>7, <1>8
    <3>2. CASE b # e
      <4>1. \A r \in Shards : b \in Elements(ring'[r]) <=> b \in Elements(ring[r])
        BY <3>2, <1>7
      <4> QED
        BY <3>2, <4>1, <1>8 DEF RingInv
    <3> QED
      BY <3>1, <3>2
  <2> QED
    BY <2>1, <2>2, <2>3 DEF RingInv
<1>11. HandInv'
  <2>1. \A u, v \in Threads :
          /\ u # v => Sent(u)' \cap Sent(v)' = {} /\ Taken(u)' \cap Taken(v)' = {}
          /\ Sent(u)' \cap Taken(v)' = {}
    BY <1>5 DEF HandInv
  <2>2. ASSUME NEW b \in Blocks PROVE place'[b] = "hand" <=> \E u \in Threads : b \in Sent(u)' \cup Taken(u)'
    <3>1. CASE b = e
      <4>1. \A u \in Threads : b \notin Sent(u)' \cup Taken(u)'
        BY <3>1, <1>5 DEF HandInv
      <4> QED
        BY <3>1, <4>1, <1>8
    <3>2. CASE b # e
      <4>1. \A u \in Threads : b \in Sent(u)' \cup Taken(u)' <=> b \in Sent(u) \cup Taken(u)
        BY <3>2, <1>5
      <4> QED
        BY <3>2, <4>1, <1>8 DEF HandInv
    <3> QED
      BY <3>1, <3>2
  <2> QED
    BY <2>1, <2>2 DEF HandInv
<1>12. TodoInv'
  BY <1>1, <1>2, <1>6, <1>8 DEF TodoInv, CallsTyped, CallRecords
<1>13. ClaimedInv'
  <2>1. \A b \in claimed : \E r \in Shards : b \in Elements(ring[r])
    BY DEF ClaimedInv, CallsTyped, CallRecords
  <2>2. e \notin claimed
    BY <2>1, <1>6
  <2>3. \A b \in claimed' : \E u \in Threads : freePc'[u] = "publish" /\ call'[u].entry = b
    <3> SUFFICES ASSUME NEW b \in claimed' PROVE \E u \in Threads : freePc'[u] = "publish" /\ call'[u].entry = b
      OBVIOUS
    <3>1. CASE b = e
      BY <3>1, <1>4 DEF e
    <3>2. CASE b \in claimed
      <4>1. PICK u \in Threads : freePc[u] = "publish" /\ call[u].entry = b
        BY <3>2 DEF ClaimedInv
      <4>2. u # t
        BY <4>1, <1>1
      <4> QED
        BY <4>1, <4>2, <1>4 DEF Alone
    <3> QED
      BY <3>1, <3>2, <1>1
  <2>4. \A u \in Threads : freePc'[u] = "publish" =>
          call'[u].entry \in claimed' /\ call'[u].entry \in Elements(ring'[call'[u].at])
    <3>1. \A r \in Shards : Elements(ring[r]) \subseteq Elements(ring'[r])
      BY <1>7
    <3>2. \A u \in Threads : call[u].at \in Shards
      BY DEF CallsTyped, CallRecords
    <3>3. e \in claimed' /\ e \in Elements(ring'[s])
      BY <1>1, <1>7
    <3> QED
      BY <3>1, <3>2, <3>3, <1>1, <1>4 DEF ClaimedInv, Alone, e, s
  <2>5. \A u, v \in Threads :
          u # v /\ freePc'[u] = "publish" /\ freePc'[v] = "publish" => call'[u].entry # call'[v].entry
    BY <2>2, <1>4 DEF ClaimedInv, Alone, e
  <2> QED
    BY <2>3, <2>4, <2>5 DEF ClaimedInv
<1>14. StaleInv'
  BY <1>1, <1>5, <1>6, <1>8 DEF StaleInv
<1>15. MissedInv'
  <2>1. \A u \in Threads : missed[u] = {}
    BY <1>1 DEF MissedInv, Sending
  <2> QED
    BY <2>1, <1>1 DEF MissedInv
<1>16. LimitInv'
  <2> SUFFICES ASSUME ~ onlyOnFlush, NEW r \in Shards PROVE LimitAt(r)'
    BY <1>1 DEF LimitInv
  <2>1. CASE r = s
    BY <2>1, <1>4 DEF LimitAt, Watching, s
  <2>2. CASE r # s
    <3>1. Len(ring[r]) \in Nat /\ Len(ring[r]) <= Len(ring[r])
      OBVIOUS
    <3>2. /\ LimitAt(r) /\ Elements(ring'[r]) \subseteq Elements(ring[r])
          /\ Len(ring'[r]) <= Len(ring[r]) /\ Len(ring'[r]) \in Nat
      BY <2>2, <3>1, <1>7 DEF LimitInv
    <3> QED
      BY <2>2, <3>2, <1>4, OthersWatch DEF s
  <2> QED
    BY <2>1, <2>2
<1>17. BytesInv'
  <2> SUFFICES ASSUME NEW r \in Shards
               PROVE  (ringBytes[r] + Pending(r)') % ByteModulus = SizeOf(OnCounter(r)')
    BY <1>1 DEF BytesInv
  <2>1. \A u \in Threads \ {t} : QU!ToAdd(u, r)' = QU!ToAdd(u, r)
    BY <1>4 DEF Alone, QU!ToAdd
  <2>2. /\ Pending(r)' = Pending(r) + (QU!ToAdd(t, r)' - QU!ToAdd(t, r))
        /\ Pending(r) \in Int
    BY <2>1, <1>4, PendingMoves
  <2>3. QU!ToAdd(t, r) = 0 /\ QU!ToAdd(t, r)' = (IF r = s THEN BlockSize[e] ELSE 0)
    BY <1>1, <1>4 DEF QU!ToAdd, s, e
  <2>4. (ringBytes[r] + Pending(r)) % ByteModulus = SizeOf(OnCounter(r))
    BY DEF BytesInv
  <2>5. OnCounter(r)' = IF r = s THEN OnCounter(r) \cup {e} ELSE OnCounter(r)
    <3>1. \A u \in Threads : Taken(u)' = Taken(u) /\ call'[u].at = call[u].at
      BY <1>1, <1>5
    <3>2. {Taken(u)' : u \in {v \in Threads : call'[v].at = r}} = {Taken(u) : u \in {v \in Threads : call[v].at = r}}
      BY <3>1
    <3> QED
      BY <3>2, <1>7 DEF OnCounter
  <2>6. CASE r # s
    BY <2>2, <2>3, <2>4, <2>5, <2>6
  <2>7. CASE r = s
    <3> DEFINE x == SizeOf(OnCounter(r))
               n == BlockSize[e]
               p == Pending(r)
               k == ringBytes[r]
    <3>1. e \notin OnCounter(r)
      BY <1>3, <1>5, <1>6 DEF OnCounter, HandInv
    <3>2. SizeOf(OnCounter(r) \cup {e}) = x + n /\ n \in 0 .. ByteModulus - 1
      BY <3>1, <1>3, SizeOfOneMore, Zenon
    <3>3. SizeOf(OnCounter(r) \cup {e}) \in 0 .. ByteModulus - 1
      BY SizeIsNumber
    <3>4. Counts(ByteModulus, k, p, x)
      BY RingCounts
    <3>5. Pending(r)' = p + n
      BY <2>2, <2>3, <2>7, <3>2
    <3>6. SizeOf(OnCounter(r)') = x + n
      BY <2>5, <2>7, <3>2
    <3> HIDE DEF x, n, p, k
    <3>7. n \in Int /\ x + n \in 0 .. ByteModulus - 1
      BY <3>2, <3>3
    <3>8. Counts(ByteModulus, k, p + n, x + n)
      BY <3>4, <3>7, CounterOwed
    <3> QED
      BY <3>5, <3>6, <3>8 DEF k, Counts
  <2> QED
    BY <2>6, <2>7
<1> QED
  BY <1>9, <1>10, <1>11, <1>12, <1>13, <1>14, <1>15, <1>16, <1>17

LEMMA PublishKeeps == ASSUME QuarantineInv, NEW t \in Threads, QU!Publish(t) PROVE QuarantineInv'
<1>. USE DEF QuarantineInv, QuarantineTyped
<1> DEFINE e == call[t].entry
<1>1. /\ freePc[t] = "publish" /\ freePc' = [freePc EXCEPT ![t] = "add"] /\ UNCHANGED call
      /\ claimed' = claimed \ {e}
      /\ UNCHANGED <<onlyOnFlush, place, ring, ringBytes, stale, reported, missed>>
  BY DEF QU!Publish, QU!Goto
<1>2. call[t] \in CallRecords /\ call' = [call EXCEPT ![t] = call[t]] /\ e \in Blocks
  BY <1>1, SameCall DEF CallsTyped, Adding
<1>3. CallsTyped' /\ Alone(t) /\ freePc'[t] = "add" /\ call'[t] = call[t]
  BY <1>1, <1>2, CallsStayTyped DEF Sending, Adding, Taking
<1> HIDE DEF e
<1>4. \A u \in Threads : Sent(u)' = Sent(u) /\ Taken(u)' = Taken(u) /\ call'[u].at = call[u].at
  BY <1>1, <1>3 DEF Sent, Taken, Sending, Taking, Alone
<1>5. QuarantineTyped'
  BY <1>1, <1>3
<1>6. RingInv' /\ TodoInv'
  BY <1>1 DEF RingInv, TodoInv
<1>7. HandInv'
  BY <1>1, <1>4 DEF HandInv
<1>8. StaleInv'
  BY <1>1, <1>4 DEF StaleInv
<1>9. ClaimedInv'
  <2>1. \A b \in claimed' : \E u \in Threads : freePc'[u] = "publish" /\ call'[u].entry = b
    <3> SUFFICES ASSUME NEW b \in claimed, b # e PROVE \E u \in Threads : freePc'[u] = "publish" /\ call'[u].entry = b
      BY <1>1
    <3>1. PICK u \in Threads : freePc[u] = "publish" /\ call[u].entry = b
      BY DEF ClaimedInv
    <3>2. u # t
      BY <3>1 DEF e
    <3> QED
      BY <3>1, <3>2, <1>3 DEF Alone
  <2>2. \A u \in Threads : freePc'[u] = "publish" =>
          u # t /\ call'[u] = call[u] /\ freePc[u] = "publish" /\ call[u].entry # e
    BY <1>1, <1>3 DEF Alone, ClaimedInv, e
  <2>3. \A u \in Threads : freePc'[u] = "publish" =>
          call'[u].entry \in claimed' /\ call'[u].entry \in Elements(ring'[call'[u].at])
    BY <2>2, <1>1 DEF ClaimedInv
  <2>4. \A u, v \in Threads :
          u # v /\ freePc'[u] = "publish" /\ freePc'[v] = "publish" => call'[u].entry # call'[v].entry
    BY <2>2 DEF ClaimedInv
  <2> QED
    BY <2>1, <2>3, <2>4 DEF ClaimedInv
<1>10. MissedInv'
  <2>1. \A u \in Threads : missed[u] = {}
    BY <1>1 DEF MissedInv
  <2> QED
    BY <2>1, <1>1 DEF MissedInv
<1>11. LimitInv'
  <2> SUFFICES ASSUME ~ onlyOnFlush, NEW r \in Shards PROVE LimitAt(r)'
    BY <1>1 DEF LimitInv
  <2>1. Len(ring[r]) \in Nat /\ Len(ring[r]) <= Len(ring[r])
    OBVIOUS
  <2>2. /\ LimitAt(r) /\ Elements(ring'[r]) \subseteq Elements(ring[r])
        /\ Len(ring'[r]) <= Len(ring[r]) /\ Len(ring'[r]) \in Nat
    BY <2>1, <1>1 DEF LimitInv
  <2>3. call'[t].at = call[t].at /\ freePc'[t] \in Watching
    BY <1>3 DEF Watching
  <2> QED
    BY <2>2, <2>3, <1>3, OthersWatch
<1>12. BytesInv'
  <2>1. \A u \in Threads : \A s \in Shards : QU!ToAdd(u, s)' = QU!ToAdd(u, s)
    BY <1>1, <1>3 DEF QU!ToAdd, Alone
  <2> QED
    BY <2>1, <1>1, <1>4, CountersStay
<1> QED
  BY <1>5, <1>6, <1>7, <1>8, <1>9, <1>10, <1>11, <1>12

(* What a call has pushed is added to the counter.                         *)
LEMMA AddKeeps == ASSUME QuarantineInv, NEW t \in Threads, QU!Add(t) PROVE QuarantineInv'
<1>. USE DEF QuarantineInv, QuarantineTyped
<1> DEFINE s == call[t].at
           z == BlockSize[call[t].entry]
           where == IF onlyOnFlush THEN QU!Freed(t) ELSE "check"
<1>1. /\ freePc[t] = "add" /\ freePc' = [freePc EXCEPT ![t] = where] /\ UNCHANGED call
      /\ ringBytes' = [ringBytes EXCEPT ![s] = (@ + z) % ByteModulus]
      /\ UNCHANGED <<onlyOnFlush, place, ring, claimed, stale, reported, missed>>
  BY DEF QU!Add, QU!Goto
<1>2. /\ call[t] \in CallRecords /\ call' = [call EXCEPT ![t] = call[t]]
      /\ s \in Shards /\ call[t].entry \in Blocks /\ z \in Int
  BY <1>1, SameCall, Parameters DEF CallsTyped, Adding, CallRecords
<1>3. where \in {"check", "idle", "next"} /\ (~ onlyOnFlush => where = "check")
  BY DEF QU!Freed
<1> HIDE DEF where
<1>4. CallsTyped' /\ Alone(t) /\ freePc'[t] = where /\ call'[t] = call[t]
  BY <1>1, <1>2, <1>3, CallsStayTyped DEF Sending, Adding, Taking
<1>5. \A u \in Threads : Sent(u)' = Sent(u) /\ Taken(u)' = Taken(u) /\ call'[u].at = call[u].at
  BY <1>1, <1>3, <1>4 DEF Sent, Taken, Sending, Taking, Alone
<1>6. \A r \in Shards \ {s} : ringBytes'[r] = ringBytes[r]
  BY <1>1
<1>7. \A r \in Shards : Counts(ByteModulus, ringBytes[r], Pending(r), SizeOf(OnCounter(r)))
  BY RingCounts
<1>8. /\ Counts(ByteModulus, (ringBytes[s] + z) % ByteModulus, Pending(s) - z, SizeOf(OnCounter(s)))
      /\ (ringBytes[s] + z) % ByteModulus \in 0 .. ByteModulus - 1
  <2> HIDE DEF s, z
  <2> QED
    BY <1>2, <1>7, CounterRaised
<1>9. ringBytes'[s] = (ringBytes[s] + z) % ByteModulus /\ ringBytes' \in [Shards -> 0 .. ByteModulus - 1]
  <2>1. ringBytes'[s] = (ringBytes[s] + z) % ByteModulus
    BY <1>1, <1>2
  <2> HIDE DEF s, z
  <2>2. ringBytes' \in [Shards -> 0 .. ByteModulus - 1]
    BY <1>1, <1>8
  <2> QED
    BY <2>1, <2>2
<1>10. QuarantineTyped'
  BY <1>1, <1>4, <1>9
<1>11. RingInv' /\ TodoInv'
  BY <1>1 DEF RingInv, TodoInv
<1>12. HandInv'
  BY <1>1, <1>5 DEF HandInv
<1>13. StaleInv'
  BY <1>1, <1>5 DEF StaleInv
<1>14. ClaimedInv'
  <2>1. \A u \in Threads : call'[u] = call[u] /\ (freePc'[u] = "publish" <=> freePc[u] = "publish")
    BY <1>1, <1>3, <1>4 DEF Alone
  <2> QED
    BY <2>1, <1>1 DEF ClaimedInv
<1>15. MissedInv'
  BY <1>1, <1>3, <1>4, MissedStay DEF Sending
<1>16. LimitInv'
  <2> SUFFICES ASSUME ~ onlyOnFlush, NEW r \in Shards PROVE LimitAt(r)'
    BY <1>1 DEF LimitInv
  <2>1. Len(ring[r]) \in Nat /\ Len(ring[r]) <= Len(ring[r])
    OBVIOUS
  <2>2. /\ LimitAt(r) /\ Elements(ring'[r]) \subseteq Elements(ring[r])
        /\ Len(ring'[r]) <= Len(ring[r]) /\ Len(ring'[r]) \in Nat
    BY <2>1, <1>1 DEF LimitInv
  <2>3. call'[t].at = call[t].at /\ freePc'[t] \in Watching
    BY <1>3, <1>4 DEF Watching
  <2> QED
    BY <2>2, <2>3, <1>4, OthersWatch
<1>17. BytesInv'
  <2> SUFFICES ASSUME NEW r \in Shards
               PROVE  Counts(ByteModulus, ringBytes'[r], Pending(r)', SizeOf(OnCounter(r)'))
    BY DEF BytesInv, Counts
  <2>1. \A u \in Threads \ {t} : QU!ToAdd(u, r)' = QU!ToAdd(u, r)
    BY <1>4 DEF Alone, QU!ToAdd
  <2>2. Pending(r)' = Pending(r) + (QU!ToAdd(t, r)' - QU!ToAdd(t, r)) /\ Pending(r) \in Int
    BY <2>1, <1>4, PendingMoves
  <2>3. QU!ToAdd(t, r)' = 0 /\ QU!ToAdd(t, r) = (IF r = s THEN z ELSE 0)
    BY <1>1, <1>3, <1>4 DEF QU!ToAdd
  <2>4. OnCounter(r)' = OnCounter(r)
    BY <1>1, <1>5 DEF OnCounter
  <2> HIDE DEF s, z
  <2>5. CASE r # s
    <3>1. Pending(r)' = Pending(r) /\ ringBytes'[r] = ringBytes[r]
      BY <2>2, <2>3, <2>5, <1>6
    <3> QED
      BY <3>1, <2>4, <1>7
  <2>6. CASE r = s
    <3>1. Pending(r)' = Pending(r) - z
      BY <2>2, <2>3, <2>6, <1>2
    <3> QED
      BY <3>1, <2>4, <2>6, <1>8, <1>9
  <2> QED
    BY <2>5, <2>6
<1> QED
  BY <1>10, <1>11, <1>12, <1>13, <1>14, <1>15, <1>16, <1>17

-----------------------------------------------------------------------------
(* Quarantine: out of a ring *)

Pops(t, where) ==
  /\ \/ freePc[t] = "evict" /\ where = "evictRelease"
     \/ freePc[t] = "pop" /\ where = "release"
  /\ QU!Popped(t, where)
  /\ UNCHANGED onlyOnFlush

LEMMA PoppedKeeps == ASSUME QuarantineInv, NEW t \in Threads, NEW where, Pops(t, where) PROVE QuarantineInv'
<1>. USE DEF QuarantineInv, QuarantineTyped
<1> DEFINE s == call[t].at
           e == Head(ring[s])
           c == [call[t] EXCEPT !.popped = e]
<1>1. /\ \/ freePc[t] = "evict" /\ where = "evictRelease"
         \/ freePc[t] = "pop" /\ where = "release"
      /\ ring[s] # <<>> /\ e \notin claimed
      /\ freePc' = [freePc EXCEPT ![t] = where] /\ call' = [call EXCEPT ![t] = c]
      /\ ring' = [ring EXCEPT ![s] = Tail(@)] /\ place' = [place EXCEPT ![e] = "hand"]
      /\ missed' = [u \in Threads |-> missed[u] \ {e}]
      /\ UNCHANGED <<onlyOnFlush, claimed, ringBytes, stale, reported>>
  BY DEF Pops, QU!Popped, QU!PopRefused, QU!Goto, CallsTyped, CallRecords
<1>2. s \in Shards /\ call[t] \in CallRecords
  BY DEF CallsTyped, CallRecords
<1>3. /\ ring'[s] \in Seq(Blocks) /\ Len(ring'[s]) = Len(ring[s]) - 1 /\ Len(ring[s]) \in Nat \ {0}
      /\ Elements(ring'[s]) = Elements(ring[s]) \ {e}
      /\ e \in Elements(ring[s]) /\ e \in Blocks
      /\ Distinct(ring'[s])
      /\ \A r \in Shards \ {s} : ring'[r] = ring[r]
  <2>1. ring'[s] = Tail(ring[s]) /\ \A r \in Shards \ {s} : ring'[r] = ring[r]
    BY <1>1, <1>2
  <2>2. ring[s] \in Seq(Blocks) /\ ring[s] # <<>> /\ Distinct(ring[s])
    BY <1>1, <1>2 DEF RingInv
  <2> QED
    BY <2>1, <2>2, ElementsOfTail
<1>4. /\ c \in CallRecords /\ c.entry = call[t].entry /\ c.at = s /\ c.todo = call[t].todo /\ c.popped = e
      /\ c.force = call[t].force
  BY <1>2, <1>3 DEF CallRecords
<1> HIDE DEF c
<1>5. CallsTyped' /\ Alone(t) /\ freePc'[t] = where /\ call'[t] = c
  <2>1. where \in Sending \cup Adding => c.entry \in Blocks
    BY <1>1, <1>4 DEF CallsTyped, Sending, Adding
  <2>2. where \in Taking => c.popped \in Blocks
    BY <1>3, <1>4
  <2>3. where \in {"push", "evict", "evictRelease", "push2", "publish", "add", "release", "check", "pop",
                   "idle", "warm", "next", "check2", "flushed", "ended"}
    BY <1>1
  <2>4. GoesTo(t, where, c)
    BY <2>1, <2>2, <2>3, <1>1, <1>4 DEF GoesTo
  <2> QED
    BY <2>4, CallGoesOn
<1>6. /\ Taken(t) = {} /\ Taken(t)' = {e} /\ \A u \in Threads \ {t} : Taken(u)' = Taken(u)
      /\ \A u \in Threads : Sent(u)' = Sent(u)
  <2>1. \A u \in Threads \ {t} : Taken(u)' = Taken(u) /\ Sent(u)' = Sent(u)
    BY <1>5 DEF Sent, Taken, Alone
  <2>2. Taken(t) = {} /\ Taken(t)' = {e}
    BY <1>1, <1>4, <1>5 DEF Taken, Taking
  <2>3. Sent(t)' = Sent(t)
    BY <1>1, <1>4, <1>5 DEF Sent, Sending
  <2> QED
    BY <2>1, <2>2, <2>3
<1>7. \A u \in Threads : call'[u].at = call[u].at /\ call'[u].todo = call[u].todo /\ call'[u].force = call[u].force
                         /\ call'[u].entry = call[u].entry
  BY <1>4, <1>5 DEF Alone, s
<1>8. \A r \in Shards : Elements(ring'[r]) \subseteq Elements(ring[r])
                        /\ (\A b \in Elements(ring[r]) : b # e => b \in Elements(ring'[r]))
                        /\ Len(ring'[r]) \in Nat /\ Len(ring'[r]) <= Len(ring[r])
  <2> SUFFICES ASSUME NEW r \in Shards
               PROVE  /\ Elements(ring'[r]) \subseteq Elements(ring[r])
                      /\ \A b \in Elements(ring[r]) : b # e => b \in Elements(ring'[r])
                      /\ Len(ring'[r]) \in Nat /\ Len(ring'[r]) <= Len(ring[r])
    OBVIOUS
  <2>1. CASE r = s
    BY <2>1, <1>3
  <2>2. CASE r # s
    <3>1. ring'[r] = ring[r] /\ Len(ring[r]) \in Nat
      BY <2>2, <1>3
    <3> QED
      BY <3>1
  <2> QED
    BY <2>1, <2>2
<1>9. \A r \in Shards : e \notin Elements(ring'[r])
  <2>1. e \notin Elements(ring'[s]) /\ e \in Elements(ring[s])
    BY <1>3
  <2>2. ASSUME NEW r \in Shards \ {s} PROVE e \notin Elements(ring'[r])
    <3>1. Elements(ring[s]) \cap Elements(ring[r]) = {}
      BY <1>2 DEF RingInv
    <3>2. ring'[r] = ring[r]
      BY <1>3
    <3> QED
      BY <3>1, <3>2, <2>1
  <2> QED
    BY <2>1, <2>2
<1> HIDE DEF s, e
<1>10. /\ place[e] = "ring" /\ place'[e] = "hand" /\ \A b \in Blocks \ {e} : place'[b] = place[b]
       /\ place' \in [Blocks -> {"central", "live", "ring", "hand"} \cup Threads]
  BY <1>1, <1>2, <1>3 DEF RingInv
<1>11. \A u \in Threads : missed'[u] = missed[u] \ {e}
  BY <1>1
<1>12. QuarantineTyped'
  <2>1. ring' \in [Shards -> Seq(Blocks)]
    BY <1>1, <1>2, <1>3
  <2>2. \A r \in Shards : Len(ring'[r]) <= Capacity
    BY <1>8, Parameters
  <2>3. missed' \in [Threads -> SUBSET Blocks]
    BY <1>1
  <2> QED
    BY <2>1, <2>2, <2>3, <1>1, <1>5, <1>10
<1>13. RingInv'
  <2>1. \A r \in Shards : Distinct(ring'[r])
    BY <1>3 DEF RingInv
  <2>2. \A r, q \in Shards : r # q => Elements(ring'[r]) \cap Elements(ring'[q]) = {}
    BY <1>8 DEF RingInv
  <2>3. ASSUME NEW b \in Blocks PROVE place'[b] = "ring" <=> \E r \in Shards : b \in Elements(ring'[r])
    <3>1. CASE b = e
      BY <3>1, <1>9, <1>10
    <3>2. CASE b # e
      <4>1. \A r \in Shards : b \in Elements(ring'[r]) <=> b \in Elements(ring[r])
        BY <3>2, <1>8
      <4> QED
        BY <3>2, <4>1, <1>10 DEF RingInv
    <3> QED
      BY <3>1, <3>2
  <2> QED
    BY <2>1, <2>2, <2>3 DEF RingInv
<1>14. \A u \in Threads : e \notin Sent(u) \cup Taken(u)
  BY <1>3, <1>10 DEF HandInv
<1>15. HandInv'
  <2>1. \A u, v \in Threads :
          /\ u # v => Sent(u)' \cap Sent(v)' = {} /\ Taken(u)' \cap Taken(v)' = {}
          /\ Sent(u)' \cap Taken(v)' = {}
    BY <1>6, <1>14 DEF HandInv
  <2>2. ASSUME NEW b \in Blocks PROVE place'[b] = "hand" <=> \E u \in Threads : b \in Sent(u)' \cup Taken(u)'
    <3>1. CASE b = e
      BY <3>1, <1>6, <1>10
    <3>2. CASE b # e
      <4>1. \A u \in Threads : b \in Sent(u)' \cup Taken(u)' <=> b \in Sent(u) \cup Taken(u)
        BY <3>2, <1>6
      <4> QED
        BY <3>2, <4>1, <1>10 DEF HandInv
    <3> QED
      BY <3>1, <3>2
  <2> QED
    BY <2>1, <2>2 DEF HandInv
<1>16. TodoInv'
  <2>1. \A u \in Threads : \A b \in call[u].todo : b \in Blocks /\ b # e
    BY <1>10 DEF TodoInv, CallsTyped, CallRecords
  <2>2. \A u \in Threads : \A b \in call'[u].todo : place'[b] = "live"
    <3> SUFFICES ASSUME NEW u \in Threads, NEW b \in call'[u].todo PROVE place'[b] = "live"
      OBVIOUS
    <3>1. b \in call[u].todo
      BY <1>7
    <3>2. place[b] = "live" /\ b \in Blocks \ {e}
      BY <3>1, <2>1 DEF TodoInv
    <3> QED
      BY <3>2, <1>10
  <2>3. \A u, v \in Threads : u # v => call'[u].todo \cap call'[v].todo = {}
    BY <1>7 DEF TodoInv
  <2> QED
    BY <2>2, <2>3 DEF TodoInv
<1>17. ClaimedInv'
  <2>1. \A u \in Threads : freePc'[u] = "publish" <=> freePc[u] = "publish"
    BY <1>1, <1>5 DEF Alone
  <2>2. \A u \in Threads : call[u].at \in Shards
    BY DEF CallsTyped, CallRecords
  <2>3. \A u \in Threads : freePc[u] = "publish" => call[u].entry # e
    BY <1>1 DEF ClaimedInv
  <2>4. \A u \in Threads : freePc'[u] = "publish" =>
          call'[u].entry \in claimed' /\ call'[u].entry \in Elements(ring'[call'[u].at])
    <3> SUFFICES ASSUME NEW u \in Threads, freePc'[u] = "publish"
                 PROVE  call'[u].entry \in claimed' /\ call'[u].entry \in Elements(ring'[call'[u].at])
      OBVIOUS
    <3>1. call[u].entry \in claimed /\ call[u].entry \in Elements(ring[call[u].at]) /\ call[u].entry # e
      BY <2>1, <2>3 DEF ClaimedInv
    <3>2. call'[u].entry = call[u].entry /\ call'[u].at = call[u].at /\ claimed' = claimed /\ call[u].at \in Shards
      BY <2>2, <1>1, <1>7
    <3> HIDE DEF QuarantineInv, QuarantineTyped
    <3> QED
      BY <3>1, <3>2, <1>8
  <2>5. ASSUME NEW b \in claimed' PROVE \E u \in Threads : freePc'[u] = "publish" /\ call'[u].entry = b
    <3>1. PICK u \in Threads : freePc[u] = "publish" /\ call[u].entry = b
      BY <1>1 DEF ClaimedInv
    <3> QED
      BY <3>1, <2>1, <1>7
  <2>6. \A u, v \in Threads :
          u # v /\ freePc'[u] = "publish" /\ freePc'[v] = "publish" => call'[u].entry # call'[v].entry
    BY <2>1, <1>7 DEF ClaimedInv
  <2> QED
    BY <2>4, <2>5, <2>6 DEF ClaimedInv
<1>18. StaleInv'
  <2> SUFFICES ASSUME NEW b \in stale
               PROVE  /\ place'[b] # "live"
                      /\ \A u \in Threads : b \notin Sent(u)'
                      /\ place'[b] \in {"central"} \cup Threads => b \in reported
    BY <1>1 DEF StaleInv
  <2>1. CASE b = e
    BY <2>1, <1>6, <1>10, Parameters DEF StaleInv
  <2>2. CASE b # e
    BY <2>2, <1>6, <1>10 DEF StaleInv
  <2> QED
    BY <2>1, <2>2
<1>19. MissedInv'
  <2> SUFFICES ASSUME NEW u \in Threads, missed'[u] # {}
               PROVE  /\ freePc'[u] \in {"pop", "release"} /\ call'[u].force
                      /\ \A v \in Threads : freePc'[v] \notin Sending \cup {"publish"}
                      /\ \A b \in missed'[u] : \E r \in Shards : call'[u].at <= r /\ b \in Elements(ring'[r])
    BY DEF MissedInv
  <2>1. missed[u] # {}
    BY <1>11
  <2>2. /\ freePc[u] \in {"pop", "release"} /\ call[u].force
        /\ \A v \in Threads : freePc[v] \notin Sending \cup {"publish"}
        /\ \A b \in missed[u] : \E r \in Shards : call[u].at <= r /\ b \in Elements(ring[r])
    BY <2>1 DEF MissedInv
  <2>3. where = "release" /\ freePc[t] = "pop"
    BY <2>2, <1>1 DEF Sending
  <2>4. \A v \in Threads : freePc'[v] \notin Sending \cup {"publish"}
    BY <2>2, <2>3, <1>5 DEF Alone, Sending
  <2>5. freePc'[u] \in {"pop", "release"} /\ call'[u].force
    BY <2>2, <2>3, <1>5, <1>7 DEF Alone
  <2>6. ASSUME NEW b \in missed'[u] PROVE \E r \in Shards : call'[u].at <= r /\ b \in Elements(ring'[r])
    <3>1. b \in missed[u] /\ b # e
      BY <1>11
    <3>2. PICK r \in Shards : call[u].at <= r /\ b \in Elements(ring[r])
      BY <3>1, <2>2
    <3>3. call'[u].at <= r /\ b \in Elements(ring'[r])
      BY <3>1, <3>2, <1>7, <1>8
    <3> QED
      BY <3>3
  <2> QED
    BY <2>4, <2>5, <2>6
<1>20. LimitInv'
  <2> SUFFICES ASSUME ~ onlyOnFlush, NEW r \in Shards PROVE LimitAt(r)'
    BY <1>1 DEF LimitInv
  <2>1. LimitAt(r)
    BY DEF LimitInv
  <2>2. \/ freePc[t] \notin Watching \cup {"check2"}
        \/ call'[t].at = call[t].at /\ freePc'[t] \in Watching
    BY <1>1, <1>5, <1>7 DEF Watching
  <2> QED
    BY <2>1, <2>2, <1>5, <1>8, OthersWatch
<1>21. BytesInv'
  <2> SUFFICES ASSUME NEW r \in Shards
               PROVE  (ringBytes[r] + Pending(r)') % ByteModulus = SizeOf(OnCounter(r)')
    BY <1>1 DEF BytesInv
  <2>1. \A u \in Threads : QU!ToAdd(u, r)' = QU!ToAdd(u, r)
    BY <1>1, <1>5 DEF Alone, QU!ToAdd
  <2>2. Pending(r)' = Pending(r)
    <3>1. [u \in Threads |-> QU!ToAdd(u, r)]' = [u \in Threads |-> QU!ToAdd(u, r)]
      BY <2>1
    <3> QED
      BY <3>1 DEF Pending
  <2>3. OnCounter(r)' = OnCounter(r)
    <3>1. ASSUME NEW b PROVE b \in OnCounter(r) <=> b \in Elements(ring[r]) \/ \E u \in Threads : call[u].at = r /\ b \in Taken(u)
      BY DEF OnCounter
    <3>2. ASSUME NEW b
          PROVE  b \in OnCounter(r)' <=> b \in Elements(ring'[r]) \/ \E u \in Threads : call'[u].at = r /\ b \in Taken(u)'
      BY DEF OnCounter
    <3>3. ASSUME NEW b, b # e
          PROVE  /\ b \in Elements(ring'[r]) <=> b \in Elements(ring[r])
                 /\ \A u \in Threads : call'[u].at = r /\ b \in Taken(u)' <=> call[u].at = r /\ b \in Taken(u)
      BY <3>3, <1>6, <1>7, <1>8
    <3>4. e \in OnCounter(r)' <=> r = s
      <4>1. e \notin Elements(ring'[r])
        BY <1>9
      <4>2. \A u \in Threads : e \in Taken(u)' <=> u = t
        BY <1>6, <1>14
      <4> QED
        BY <3>2, <4>1, <4>2, <1>4, <1>5
    <3>5. e \in OnCounter(r) <=> r = s
      <4>1. e \in Elements(ring[r]) <=> r = s
        BY <1>2, <1>3 DEF RingInv
      <4> QED
        BY <3>1, <4>1, <1>14
    <3>6. \A b : b \in OnCounter(r)' <=> b \in OnCounter(r)
      BY <3>1, <3>2, <3>3, <3>4, <3>5
    <3> QED
      BY <3>6
  <2> QED
    BY <2>2, <2>3 DEF BytesInv
<1> QED
  BY <1>12, <1>13, <1>15, <1>16, <1>17, <1>18, <1>19, <1>20, <1>21

Releases(t, where) ==
  /\ \/ freePc[t] = "evictRelease" /\ where = "push2"
     \/ freePc[t] = "release" /\ where = IF call[t].force THEN "pop" ELSE "check"
  /\ QU!Released(t) /\ QU!Goto(t, where)
  /\ UNCHANGED <<onlyOnFlush, call, missed>>

(* Where a block is kept is not a place of the quarantine.                 *)
LEMMA KeptApart ==
  ASSUME NEW t \in Threads, NEW b \in Blocks
  PROVE  /\ QU!Kept(t, b) \in {"central"} \cup Threads
         /\ QU!Kept(t, b) \notin {"live", "ring", "hand"}
BY Parameters DEF QU!Kept

LEMMA ReleasedKeeps == ASSUME QuarantineInv, NEW t \in Threads, NEW where, Releases(t, where) PROVE QuarantineInv'
<1>. USE DEF QuarantineInv, QuarantineTyped
<1> DEFINE s == call[t].at
           e == call[t].popped
           z == BlockSize[e]
           kept == QU!Kept(t, e)
<1>1. /\ \/ freePc[t] = "evictRelease" /\ where = "push2"
         \/ freePc[t] = "release" /\ where \in {"pop", "check"} /\ (call[t].force => where = "pop")
      /\ freePc' = [freePc EXCEPT ![t] = where] /\ UNCHANGED call
      /\ ringBytes' = [ringBytes EXCEPT ![s] = (@ + ByteModulus - z) % ByteModulus]
      /\ place' = [place EXCEPT ![e] = kept]
      /\ reported' = reported \cup ({e} \cap stale)
      /\ UNCHANGED <<onlyOnFlush, ring, claimed, stale, missed>>
  BY DEF Releases, QU!Released, QU!Lowered, QU!Goto
<1>2. /\ call[t] \in CallRecords /\ call' = [call EXCEPT ![t] = call[t]]
      /\ s \in Shards /\ e \in Blocks
  BY <1>1, SameCall DEF CallsTyped, Taking, CallRecords
<1>3. kept \in {"central"} \cup Threads /\ kept \notin {"live", "ring", "hand"}
  BY <1>2, KeptApart
<1>4. CallsTyped' /\ Alone(t) /\ freePc'[t] = where /\ call'[t] = call[t]
  <2>1. where \in Sending \cup Adding => call[t].entry \in Blocks
    BY <1>1 DEF CallsTyped, Sending, Adding
  <2>2. where \in {"push", "evict", "evictRelease", "push2", "publish", "add", "release", "check", "pop",
                   "idle", "warm", "next", "check2", "flushed", "ended"}
    BY <1>1
  <2>3. where \in Taking => call[t].popped \in Blocks
    BY <1>1 DEF Taking
  <2>4. GoesTo(t, where, call[t])
    BY <2>1, <2>2, <2>3, <1>1, <1>2 DEF GoesTo
  <2> QED
    BY <2>4, CallGoesOn
<1>5. /\ \A u \in Threads \ {t} : Taken(u)' = Taken(u)
      /\ \A u \in Threads : Sent(u)' = Sent(u)
      /\ Taken(t) = {e} /\ Taken(t)' = {}
  <2>1. \A u \in Threads \ {t} : Taken(u)' = Taken(u) /\ Sent(u)' = Sent(u)
    BY <1>4 DEF Sent, Taken, Alone
  <2>2. Taken(t) = {e} /\ Taken(t)' = {}
    BY <1>1, <1>4 DEF Taken, Taking
  <2>3. Sent(t)' = Sent(t)
    BY <1>1, <1>4 DEF Sent, Sending
  <2> QED
    BY <2>1, <2>2, <2>3
<1>6. \A u \in Threads : call'[u] = call[u] /\ (freePc'[u] = "publish" <=> freePc[u] = "publish")
  BY <1>1, <1>4 DEF Alone
<1> HIDE DEF e, kept
<1>7. /\ place[e] = "hand" /\ place'[e] = kept /\ \A b \in Blocks \ {e} : place'[b] = place[b]
      /\ place' \in [Blocks -> {"central", "live", "ring", "hand"} \cup Threads]
  BY <1>1, <1>2, <1>3, <1>5 DEF HandInv
<1>8. /\ e \in OnCounter(s) /\ \A r \in Shards : e \notin Elements(ring[r])
      /\ \A u \in Threads \ {t} : e \notin Taken(u)
      /\ \A u \in Threads : e \notin Sent(u)
  <2>1. e \in OnCounter(s)
    BY <1>5 DEF OnCounter
  <2>2. \A r \in Shards : e \notin Elements(ring[r])
    BY <1>2, <1>7 DEF RingInv
  <2>3. \A u \in Threads \ {t} : e \notin Taken(u)
    BY <1>5 DEF HandInv
  <2>4. \A u \in Threads : e \notin Sent(u)
    BY <1>5 DEF HandInv
  <2> QED
    BY <2>1, <2>2, <2>3, <2>4
<1>9. z \in Int /\ SizeOf(OnCounter(s)) - z = SizeOf(OnCounter(s) \ {e}) /\ SizeOf(OnCounter(s) \ {e}) \in 0 .. ByteModulus - 1
  <2> DEFINE S == OnCounter(s) \ {e}
  <2>1. e \notin S /\ S \cup {e} = OnCounter(s)
    BY <1>8
  <2> HIDE DEF S
  <2>2. SizeOf(S \cup {e}) = SizeOf(S) + z /\ z \in 0 .. ByteModulus - 1
    BY <1>2, <2>1, SizeOfOneMore, Zenon
  <2>3. SizeOf(S) \in 0 .. ByteModulus - 1
    BY SizeIsNumber
  <2>4. SizeOf(OnCounter(s)) = SizeOf(S) + z
    BY <2>1, <2>2
  <2> HIDE DEF z
  <2> QED
    BY <2>2, <2>3, <2>4 DEF S
<1>10. \A r \in Shards : Counts(ByteModulus, ringBytes[r], Pending(r), SizeOf(OnCounter(r)))
  BY RingCounts
<1> HIDE DEF z
<1>11. /\ Counts(ByteModulus, (ringBytes[s] + ByteModulus - z) % ByteModulus, Pending(s), SizeOf(OnCounter(s) \ {e}))
       /\ (ringBytes[s] + ByteModulus - z) % ByteModulus \in 0 .. ByteModulus - 1
  <2> DEFINE x == SizeOf(OnCounter(s))
             y == SizeOf(OnCounter(s) \ {e})
             p == Pending(s)
             k == ringBytes[s]
  <2>1. Counts(ByteModulus, k, p, x)
    BY <1>2, <1>10
  <2>2. z \in Int /\ x - z = y /\ y \in 0 .. ByteModulus - 1
    BY <1>9
  <2> HIDE DEF x, y, p, k
  <2>3. Counts(ByteModulus, (k + ByteModulus - z) % ByteModulus, p, x - z) /\ (k + ByteModulus - z) % ByteModulus \in 0 .. ByteModulus - 1
    BY <2>1, <2>2, CounterLowered
  <2>4. Counts(ByteModulus, (k + ByteModulus - z) % ByteModulus, p, y) /\ (k + ByteModulus - z) % ByteModulus \in 0 .. ByteModulus - 1
    BY <2>2, <2>3
  <2> QED
    BY <2>4 DEF y, p, k
<1>12. /\ ringBytes'[s] = (ringBytes[s] + ByteModulus - z) % ByteModulus
       /\ \A r \in Shards \ {s} : ringBytes'[r] = ringBytes[r]
       /\ ringBytes' \in [Shards -> 0 .. ByteModulus - 1]
  <2>1. ringBytes'[s] = (ringBytes[s] + ByteModulus - z) % ByteModulus /\ \A r \in Shards \ {s} : ringBytes'[r] = ringBytes[r]
    BY <1>1, <1>2
  <2> HIDE DEF s
  <2>2. ringBytes' \in [Shards -> 0 .. ByteModulus - 1]
    BY <1>1, <1>11
  <2> QED
    BY <2>1, <2>2
<1>13. QuarantineTyped'
  BY <1>1, <1>4, <1>7, <1>12
<1>14. RingInv'
  BY <1>1, <1>2, <1>3, <1>7, <1>8 DEF RingInv
<1>15. HandInv'
  <2>1. \A u, v \in Threads :
          /\ u # v => Sent(u)' \cap Sent(v)' = {} /\ Taken(u)' \cap Taken(v)' = {}
          /\ Sent(u)' \cap Taken(v)' = {}
    BY <1>5 DEF HandInv
  <2>2. ASSUME NEW b \in Blocks PROVE place'[b] = "hand" <=> \E u \in Threads : b \in Sent(u)' \cup Taken(u)'
    <3>1. CASE b = e
      BY <3>1, <1>3, <1>5, <1>7, <1>8
    <3>2. CASE b # e
      <4>1. \A u \in Threads : b \in Sent(u)' \cup Taken(u)' <=> b \in Sent(u) \cup Taken(u)
        BY <3>2, <1>5
      <4> QED
        BY <3>2, <4>1, <1>7 DEF HandInv
    <3> QED
      BY <3>1, <3>2
  <2> QED
    BY <2>1, <2>2 DEF HandInv
<1>16. TodoInv'
  <2>1. \A u \in Threads : \A b \in call[u].todo : b \in Blocks /\ b # e
    BY <1>7 DEF TodoInv, CallsTyped, CallRecords
  <2> QED
    BY <2>1, <1>1, <1>7 DEF TodoInv
<1>17. ClaimedInv'
  BY <1>1, <1>6 DEF ClaimedInv
<1>18. StaleInv'
  <2> SUFFICES ASSUME NEW b \in stale
               PROVE  /\ place'[b] # "live"
                      /\ \A u \in Threads : b \notin Sent(u)'
                      /\ place'[b] \in {"central"} \cup Threads => b \in reported'
    BY <1>1 DEF StaleInv
  <2>1. CASE b = e
    BY <2>1, <1>1, <1>3, <1>5, <1>7, <1>8
  <2>2. CASE b # e
    BY <2>2, <1>1, <1>5, <1>7 DEF StaleInv
  <2> QED
    BY <2>1, <2>2
<1>19. MissedInv'
  <2> SUFFICES ASSUME NEW u \in Threads, missed[u] # {}
               PROVE  /\ freePc'[u] \in {"pop", "release"} /\ call'[u].force
                      /\ \A v \in Threads : freePc'[v] \notin Sending \cup {"publish"}
                      /\ \A b \in missed[u] : \E r \in Shards : call'[u].at <= r /\ b \in Elements(ring[r])
    BY <1>1 DEF MissedInv
  <2>1. /\ freePc[u] \in {"pop", "release"} /\ call[u].force
        /\ \A v \in Threads : freePc[v] \notin Sending \cup {"publish"}
        /\ \A b \in missed[u] : \E r \in Shards : call[u].at <= r /\ b \in Elements(ring[r])
    BY DEF MissedInv
  <2>2. where \in {"pop", "check"} /\ (call[t].force => where = "pop")
    BY <2>1, <1>1 DEF Sending
  <2>3. \A v \in Threads : freePc'[v] \notin Sending \cup {"publish"}
    BY <2>1, <2>2, <1>4 DEF Alone, Sending
  <2>4. freePc'[u] \in {"pop", "release"}
    BY <2>1, <2>2, <1>4 DEF Alone
  <2> QED
    BY <2>1, <2>3, <2>4, <1>6
<1>20. LimitInv'
  <2> SUFFICES ASSUME ~ onlyOnFlush, NEW r \in Shards PROVE LimitAt(r)'
    BY <1>1 DEF LimitInv
  <2>0. Len(ring[r]) \in Nat /\ Len(ring[r]) <= Len(ring[r])
    OBVIOUS
  <2>1. /\ LimitAt(r) /\ Elements(ring'[r]) \subseteq Elements(ring[r])
        /\ Len(ring'[r]) <= Len(ring[r]) /\ Len(ring'[r]) \in Nat
    BY <2>0, <1>1 DEF LimitInv
  <2>2. \/ freePc[t] \notin Watching \cup {"check2"}
        \/ call'[t].at = call[t].at /\ freePc'[t] \in Watching
    BY <1>1, <1>4 DEF Watching
  <2> QED
    BY <2>1, <2>2, <1>4, OthersWatch
<1>21. BytesInv'
  <2> SUFFICES ASSUME NEW r \in Shards
               PROVE  Counts(ByteModulus, ringBytes'[r], Pending(r)', SizeOf(OnCounter(r)'))
    BY DEF BytesInv, Counts
  <2>1. \A u \in Threads : QU!ToAdd(u, r)' = QU!ToAdd(u, r)
    BY <1>1, <1>4 DEF Alone, QU!ToAdd
  <2>2. Pending(r)' = Pending(r)
    <3>1. [u \in Threads |-> QU!ToAdd(u, r)]' = [u \in Threads |-> QU!ToAdd(u, r)]
      BY <2>1
    <3> QED
      BY <3>1 DEF Pending
  <2>3. ASSUME NEW b PROVE b \in OnCounter(r) <=> b \in Elements(ring[r]) \/ \E u \in Threads : call[u].at = r /\ b \in Taken(u)
    BY DEF OnCounter
  <2>4. ASSUME NEW b
        PROVE  b \in OnCounter(r)' <=> b \in Elements(ring'[r]) \/ \E u \in Threads : call'[u].at = r /\ b \in Taken(u)'
    BY DEF OnCounter
  <2>5. e \notin OnCounter(r)'
    <3>1. \A u \in Threads : e \notin Taken(u)'
      BY <1>5, <1>8
    <3>2. e \notin Elements(ring'[r])
      BY <1>1, <1>8
    <3> QED
      BY <2>4, <3>1, <3>2
  <2>6. ASSUME NEW b, b # e PROVE b \in OnCounter(r)' <=> b \in OnCounter(r)
    <3>0. \A u \in Threads : b \in Taken(u)' <=> b \in Taken(u)
      <4>1. b \notin Taken(t) /\ b \notin Taken(t)'
        BY <2>6, <1>5
      <4> QED
        BY <4>1, <1>5
    <3>1. \A u \in Threads : call'[u].at = r /\ b \in Taken(u)' <=> call[u].at = r /\ b \in Taken(u)
      BY <3>0, <1>6
    <3> QED
      BY <3>1, <2>3, <2>4, <1>1
  <2>7. CASE r = s
    <3>1. OnCounter(r)' = OnCounter(s) \ {e}
      BY <2>5, <2>6, <2>7
    <3> QED
      BY <3>1, <2>2, <2>7, <1>11, <1>12
  <2>8. CASE r # s
    <3>1. e \notin OnCounter(r)
      BY <2>3, <2>8, <1>5, <1>8 DEF s
    <3>2. \A b : b \in OnCounter(r)' <=> b \in OnCounter(r)
      BY <2>5, <2>6, <3>1
    <3>3. OnCounter(r)' = OnCounter(r)
      BY <3>2
    <3> QED
      BY <3>3, <2>2, <2>8, <1>10, <1>12
  <2> QED
    BY <2>7, <2>8
<1> QED
  BY <1>13, <1>14, <1>15, <1>16, <1>17, <1>18, <1>19, <1>20, <1>21

-----------------------------------------------------------------------------
(* Quarantine: blocks outside the rings *)

GivesUp(t) ==
  /\ freePc[t] = "push2" /\ QU!Goto(t, QU!Freed(t))
  /\ place' = [place EXCEPT ![call[t].entry] = QU!Kept(t, call[t].entry)]
  /\ UNCHANGED <<onlyOnFlush, ring, claimed, ringBytes, stale, reported, call, missed>>

LEMMA GivesUpKeeps == ASSUME QuarantineInv, NEW t \in Threads, GivesUp(t) PROVE QuarantineInv'
<1>. USE DEF QuarantineInv, QuarantineTyped
<1> DEFINE e == call[t].entry
           kept == QU!Kept(t, e)
           where == QU!Freed(t)
<1>1. /\ freePc[t] = "push2" /\ freePc' = [freePc EXCEPT ![t] = where] /\ place' = [place EXCEPT ![e] = kept]
      /\ UNCHANGED <<onlyOnFlush, ring, claimed, ringBytes, stale, reported, call, missed>>
  BY DEF GivesUp, QU!Goto
<1>2. e \in Blocks
  BY <1>1 DEF CallsTyped, Sending
<1>3. kept \in {"central"} \cup Threads /\ kept \notin {"live", "ring", "hand"}
  BY <1>2, KeptApart
<1>4. where \in {"idle", "next"}
  BY DEF QU!Freed
<1> HIDE DEF e, kept, where
<1>5. CallsTyped' /\ Alone(t) /\ freePc'[t] = where /\ call'[t] = call[t]
  BY <1>1, <1>4, LabelsStayTyped DEF Sending, Adding, Taking
<1>6. /\ \A u \in Threads : Taken(u)' = Taken(u)
      /\ \A u \in Threads \ {t} : Sent(u)' = Sent(u)
      /\ Sent(t) = {e} /\ Sent(t)' = {}
  BY <1>1, <1>4, <1>5 DEF Sent, Taken, Sending, Taking, Alone, e
<1>7. /\ place[e] = "hand" /\ place'[e] = kept /\ \A b \in Blocks \ {e} : place'[b] = place[b]
      /\ place' \in [Blocks -> {"central", "live", "ring", "hand"} \cup Threads]
  BY <1>1, <1>2, <1>3, <1>6 DEF HandInv
<1>8. /\ \A r \in Shards : e \notin Elements(ring[r])
      /\ \A u \in Threads : e \notin Taken(u)
      /\ \A u \in Threads \ {t} : e \notin Sent(u)
  <2>1. \A r \in Shards : e \notin Elements(ring[r])
    BY <1>2, <1>7 DEF RingInv
  <2>2. \A u \in Threads : e \notin Taken(u)
    BY <1>6 DEF HandInv
  <2>3. \A u \in Threads \ {t} : e \notin Sent(u)
    BY <1>6 DEF HandInv
  <2> QED
    BY <2>1, <2>2, <2>3
<1>9. QuarantineTyped'
  BY <1>1, <1>5, <1>7
<1>10. RingInv'
  BY <1>1, <1>2, <1>3, <1>7, <1>8 DEF RingInv
<1>11. HandInv'
  <2>1. \A u, v \in Threads :
          /\ u # v => Sent(u)' \cap Sent(v)' = {} /\ Taken(u)' \cap Taken(v)' = {}
          /\ Sent(u)' \cap Taken(v)' = {}
    BY <1>6 DEF HandInv
  <2>2. ASSUME NEW b \in Blocks PROVE place'[b] = "hand" <=> \E u \in Threads : b \in Sent(u)' \cup Taken(u)'
    <3>1. CASE b = e
      BY <3>1, <1>3, <1>6, <1>7, <1>8
    <3>2. CASE b # e
      <4>1. \A u \in Threads : b \in Sent(u)' \cup Taken(u)' <=> b \in Sent(u) \cup Taken(u)
        BY <3>2, <1>6
      <4> QED
        BY <3>2, <4>1, <1>7 DEF HandInv
    <3> QED
      BY <3>1, <3>2
  <2> QED
    BY <2>1, <2>2 DEF HandInv
<1>12. TodoInv'
  <2>1. \A u \in Threads : \A b \in call[u].todo : b \in Blocks /\ b # e
    BY <1>7 DEF TodoInv, CallsTyped, CallRecords
  <2> QED
    BY <2>1, <1>1, <1>7 DEF TodoInv
<1>13. ClaimedInv'
  <2>1. \A u \in Threads : freePc'[u] = "publish" <=> freePc[u] = "publish"
    BY <1>1, <1>4, <1>5 DEF Alone
  <2> QED
    BY <2>1, <1>1 DEF ClaimedInv
<1>14. StaleInv'
  <2>1. e \notin stale
    BY <1>6 DEF StaleInv
  <2>2. \A b \in stale : place'[b] = place[b] /\ \A u \in Threads : b \notin Sent(u)'
    BY <2>1, <1>6, <1>7 DEF StaleInv
  <2> QED
    BY <2>2, <1>1 DEF StaleInv
<1>15. MissedInv'
  <2>1. \A u \in Threads : missed[u] = {}
    BY <1>1 DEF MissedInv, Sending
  <2> QED
    BY <2>1, <1>1 DEF MissedInv
<1>16. LimitInv'
  BY <1>1, <1>5, WatchersStay DEF Watching
<1>17. BytesInv'
  <2>1. \A u \in Threads : \A s \in Shards : QU!ToAdd(u, s)' = QU!ToAdd(u, s)
    BY <1>1, <1>4, <1>5 DEF QU!ToAdd, Alone
  <2> QED
    BY <2>1, <1>1, <1>6, CountersStay
<1> QED
  BY <1>9, <1>10, <1>11, <1>12, <1>13, <1>14, <1>15, <1>16, <1>17

(* What no call holds, in a ring or in hands, is nobody's.                 *)
HandsOut(t, b) ==
  /\ b \in Blocks /\ place[b] \in {"central"} \cup Threads /\ QU!HandOut(b)
  /\ \/ UNCHANGED call
     \/ freePc[t] = "warm" /\ call' = [call EXCEPT ![t].todo = @ \cup {b}]
  /\ UNCHANGED <<onlyOnFlush, freePc, missed>>

LEMMA HandsOutKeeps == ASSUME QuarantineInv, NEW t \in Threads, NEW e, HandsOut(t, e) PROVE QuarantineInv'
<1>. USE DEF QuarantineInv, QuarantineTyped
<1>1. /\ e \in Blocks /\ place[e] \in {"central"} \cup Threads
      /\ place' = [place EXCEPT ![e] = "live"] /\ stale' = stale \ {e} /\ reported' = reported \ {e}
      /\ UNCHANGED <<onlyOnFlush, freePc, missed, ring, claimed, ringBytes>>
  BY DEF HandsOut, QU!HandOut
<1>2. /\ place[e] \notin {"live", "ring", "hand"} /\ place'[e] = "live" /\ \A b \in Blocks \ {e} : place'[b] = place[b]
      /\ place' \in [Blocks -> {"central", "live", "ring", "hand"} \cup Threads]
  BY <1>1, Parameters
<1>3. CallsTyped' /\ \A u \in Threads : /\ call'[u].entry = call[u].entry /\ call'[u].popped = call[u].popped
                                        /\ call'[u].at = call[u].at /\ call'[u].force = call[u].force
                                        /\ call'[u].over = call[u].over
                                        /\ call'[u].todo \subseteq call[u].todo \cup {e}
                                        /\ (u # t => call'[u].todo = call[u].todo)
  <2>1. CASE UNCHANGED call
    BY <2>1, <1>1 DEF CallsTyped
  <2>2. CASE call' = [call EXCEPT ![t].todo = @ \cup {e}]
    <3> DEFINE c == [call[t] EXCEPT !.todo = @ \cup {e}]
    <3>1. call[t] \in CallRecords /\ call' = [call EXCEPT ![t] = c]
      BY <2>2 DEF CallsTyped, CallRecords
    <3>2. /\ c \in CallRecords /\ c.entry = call[t].entry /\ c.popped = call[t].popped /\ c.at = call[t].at
          /\ c.force = call[t].force /\ c.over = call[t].over /\ c.todo = call[t].todo \cup {e}
      BY <3>1, <1>1 DEF CallRecords
    <3> HIDE DEF c
    <3>3. call'[t] = c /\ (\A u \in Threads \ {t} : call'[u] = call[u]) /\ call' \in [Threads -> CallRecords]
      BY <3>1, <3>2 DEF CallsTyped
    <3>4. \A u \in Threads : call'[u].entry = call[u].entry /\ call'[u].popped = call[u].popped
      BY <3>2, <3>3
    <3>5. CallsTyped'
      BY <3>3, <3>4, <1>1 DEF CallsTyped
    <3> QED
      BY <3>2, <3>3, <3>5
  <2> QED
    BY <2>1, <2>2 DEF HandsOut
<1>4. \A u \in Threads : Sent(u)' = Sent(u) /\ Taken(u)' = Taken(u) /\ e \notin Sent(u) \cup Taken(u)
  <2>1. \A u \in Threads : Sent(u)' = Sent(u) /\ Taken(u)' = Taken(u)
    BY <1>1, <1>3 DEF Sent, Taken
  <2> QED
    BY <2>1, <1>1, <1>2 DEF HandInv
<1>5. QuarantineTyped'
  BY <1>1, <1>2, <1>3
<1>6. RingInv'
  BY <1>1, <1>2 DEF RingInv
<1>7. HandInv'
  BY <1>1, <1>2, <1>4 DEF HandInv
<1>8. TodoInv'
  <2>1. \A u \in Threads : \A b \in call[u].todo : b \in Blocks /\ b # e
    BY <1>2 DEF TodoInv, CallsTyped, CallRecords
  <2>2. ASSUME NEW u \in Threads, NEW b \in call'[u].todo PROVE place'[b] = "live"
    <3>1. b = e \/ b \in call[u].todo
      BY <1>3
    <3> QED
      BY <3>1, <2>1, <1>2 DEF TodoInv
  <2>3. ASSUME NEW u \in Threads, NEW v \in Threads, u # v, NEW b \in call'[u].todo, b \in call'[v].todo PROVE FALSE
    <3>1. u # t \/ v # t
      BY <2>3
    <3>2. (b = e \/ b \in call[u].todo) /\ (b = e \/ b \in call[v].todo)
      BY <2>3, <1>3
    <3>3. b # e
      BY <3>1, <2>1, <2>3, <1>3
    <3> QED
      BY <3>2, <3>3, <2>3 DEF TodoInv
  <2> QED
    BY <2>2, <2>3 DEF TodoInv
<1>9. ClaimedInv'
  <2>1. \A u \in Threads : /\ freePc'[u] = "publish" <=> freePc[u] = "publish"
                           /\ call'[u].entry = call[u].entry /\ call'[u].at = call[u].at
    BY <1>1, <1>3
  <2>2. \A b \in claimed : \E u \in Threads : freePc'[u] = "publish" /\ call'[u].entry = b
    BY <2>1 DEF ClaimedInv
  <2>3. \A u \in Threads : freePc'[u] = "publish" =>
          call'[u].entry \in claimed /\ call'[u].entry \in Elements(ring[call'[u].at])
    BY <2>1 DEF ClaimedInv
  <2>4. \A u, v \in Threads :
          u # v /\ freePc'[u] = "publish" /\ freePc'[v] = "publish" => call'[u].entry # call'[v].entry
    BY <2>1 DEF ClaimedInv
  <2> QED
    BY <2>2, <2>3, <2>4, <1>1 DEF ClaimedInv
<1>10. StaleInv'
  BY <1>1, <1>2, <1>4 DEF StaleInv
<1>11. MissedInv'
  BY <1>1, <1>3 DEF MissedInv
<1>12. LimitInv'
  <2> SUFFICES ASSUME ~ onlyOnFlush, NEW s \in Shards PROVE LimitAt(s)'
    BY <1>1 DEF LimitInv
  <2>1. LimitAt(s)
    BY DEF LimitInv
  <2>2. \A u \in Threads : freePc'[u] = freePc[u] /\ call'[u].at = call[u].at /\ call'[u].over = call[u].over
    BY <1>1, <1>3
  <2>3. Len(ring[s]) > EntryLimit => \E u \in Threads : call'[u].at = s /\ freePc'[u] \in Watching \cup {"check2"}
    BY <2>1, <2>2 DEF LimitAt
  <2>4. SizeOf(Elements(ring[s])) > ByteLimit =>
          \E u \in Threads : call'[u].at = s /\ (freePc'[u] \in Watching \/ (freePc'[u] = "check2" /\ call'[u].over))
    BY <2>1, <2>2 DEF LimitAt
  <2> QED
    BY <2>3, <2>4, <1>1 DEF LimitAt
<1>13. BytesInv'
  <2>1. \A u \in Threads : \A s \in Shards : QU!ToAdd(u, s)' = QU!ToAdd(u, s)
    BY <1>1, <1>3 DEF QU!ToAdd
  <2> QED
    BY <2>1, <1>1, <1>3, <1>4, CountersStay
<1> QED
  BY <1>5, <1>6, <1>7, <1>8, <1>9, <1>10, <1>11, <1>12, <1>13

(* A block that is freed goes into the hands of the call.                  *)
HandsOver(t, b, c) ==
  /\ freePc[t] \in {"idle", "next"} /\ QU!Goto(t, "push") /\ QU!Overlaps(t)
  /\ b \in Blocks /\ place[b] = "live" /\ \A u \in Threads \ {t} : b \notin call[u].todo
  /\ place' = [place EXCEPT ![b] = "hand"]
  /\ c \in CallRecords /\ c.entry = b /\ c.todo \subseteq call[t].todo \ {b}
  /\ call' = [call EXCEPT ![t] = c]
  /\ UNCHANGED <<onlyOnFlush, ring, claimed, ringBytes, stale, reported>>

LEMMA HandsOverKeeps ==
  ASSUME QuarantineInv, NEW t \in Threads, NEW e, NEW c, HandsOver(t, e, c)
  PROVE  QuarantineInv'
<1>. USE DEF QuarantineInv, QuarantineTyped
<1>1. /\ freePc[t] \in {"idle", "next"} /\ freePc' = [freePc EXCEPT ![t] = "push"]
      /\ e \in Blocks /\ place[e] = "live" /\ (\A u \in Threads \ {t} : e \notin call[u].todo)
      /\ place' = [place EXCEPT ![e] = "hand"]
      /\ c \in CallRecords /\ c.entry = e /\ c.todo \subseteq call[t].todo \ {e}
      /\ call' = [call EXCEPT ![t] = c]
      /\ missed' = [u \in Threads |-> IF u = t THEN missed[t] ELSE {}]
      /\ UNCHANGED <<onlyOnFlush, ring, claimed, ringBytes, stale, reported>>
  BY DEF HandsOver, QU!Goto, QU!Overlaps
<1>2. CallsTyped' /\ Alone(t) /\ freePc'[t] = "push" /\ call'[t] = c
  <2>1. "push" \in Sending \cup Adding => c.entry \in Blocks
    BY <1>1
  <2>2. "push" \in Taking => c.popped \in Blocks
    BY DEF Taking
  <2> QED
    BY <2>1, <2>2, <1>1, CallsStayTyped
<1>3. /\ \A u \in Threads : Taken(u)' = Taken(u)
      /\ \A u \in Threads : Taken(u) # {} => call'[u].at = call[u].at
      /\ \A u \in Threads \ {t} : Sent(u)' = Sent(u)
      /\ Sent(t) = {} /\ Sent(t)' = {e}
  BY <1>1, <1>2 DEF Sent, Taken, Sending, Taking, Alone
<1>4. /\ place'[e] = "hand" /\ \A b \in Blocks \ {e} : place'[b] = place[b]
      /\ place' \in [Blocks -> {"central", "live", "ring", "hand"} \cup Threads]
  BY <1>1
<1>5. \A u \in Threads : e \notin Sent(u) \cup Taken(u)
  BY <1>1 DEF HandInv
<1>6. \A u \in Threads : missed'[u] = {}
  <2>1. missed[t] = {}
    BY <1>1 DEF MissedInv
  <2> QED
    BY <2>1, <1>1
<1>7. QuarantineTyped'
  <2>1. missed' \in [Threads -> SUBSET Blocks]
    BY <1>1
  <2> QED
    BY <2>1, <1>1, <1>2, <1>4
<1>8. RingInv'
  BY <1>1, <1>4 DEF RingInv
<1>9. HandInv'
  <2>1. \A u, v \in Threads :
          /\ u # v => Sent(u)' \cap Sent(v)' = {} /\ Taken(u)' \cap Taken(v)' = {}
          /\ Sent(u)' \cap Taken(v)' = {}
    BY <1>3, <1>5 DEF HandInv
  <2>2. ASSUME NEW b \in Blocks PROVE place'[b] = "hand" <=> \E u \in Threads : b \in Sent(u)' \cup Taken(u)'
    <3>1. CASE b = e
      BY <3>1, <1>3, <1>4
    <3>2. CASE b # e
      <4>1. \A u \in Threads : b \in Sent(u)' \cup Taken(u)' <=> b \in Sent(u) \cup Taken(u)
        BY <3>2, <1>3
      <4> QED
        BY <3>2, <4>1, <1>4 DEF HandInv
    <3> QED
      BY <3>1, <3>2
  <2> QED
    BY <2>1, <2>2 DEF HandInv
<1>10. TodoInv'
  <2>1. \A u \in Threads : call'[u].todo \subseteq call[u].todo \ {e}
    BY <1>1, <1>2 DEF Alone
  <2>2. \A u \in Threads : \A b \in call[u].todo : b \in Blocks
    BY DEF CallsTyped, CallRecords
  <2>3. ASSUME NEW u \in Threads, NEW b \in call'[u].todo PROVE place'[b] = "live"
    <3>1. b \in call[u].todo /\ b # e
      BY <2>1
    <3> QED
      BY <3>1, <2>2, <1>4 DEF TodoInv
  <2>4. \A u, v \in Threads : u # v => call'[u].todo \cap call'[v].todo = {}
    BY <2>1 DEF TodoInv
  <2> QED
    BY <2>3, <2>4 DEF TodoInv
<1>11. ClaimedInv'
  <2>1. \A u \in Threads : freePc'[u] = "publish" <=> freePc[u] = "publish"
    BY <1>1, <1>2 DEF Alone
  <2>2. \A u \in Threads : freePc[u] = "publish" => call'[u] = call[u]
    BY <1>1, <1>2 DEF Alone
  <2>3. \A b \in claimed : \E u \in Threads : freePc'[u] = "publish" /\ call'[u].entry = b
    BY <2>1, <2>2 DEF ClaimedInv
  <2>4. \A u \in Threads : freePc'[u] = "publish" =>
          call'[u].entry \in claimed /\ call'[u].entry \in Elements(ring[call'[u].at])
    BY <2>1, <2>2 DEF ClaimedInv
  <2>5. \A u, v \in Threads :
          u # v /\ freePc'[u] = "publish" /\ freePc'[v] = "publish" => call'[u].entry # call'[v].entry
    BY <2>1, <2>2 DEF ClaimedInv
  <2> QED
    BY <2>3, <2>4, <2>5, <1>1 DEF ClaimedInv
<1>12. StaleInv'
  <2>1. e \notin stale
    BY <1>1 DEF StaleInv
  <2>2. \A b \in stale : place'[b] = place[b] /\ \A u \in Threads : b \notin Sent(u)'
    BY <2>1, <1>3, <1>4 DEF StaleInv
  <2> QED
    BY <2>2, <1>1 DEF StaleInv
<1>13. MissedInv'
  BY <1>6 DEF MissedInv
<1>14. LimitInv'
  BY <1>1, <1>2, WatchersStay DEF Watching
<1>15. BytesInv'
  <2>1. \A u \in Threads : \A s \in Shards : QU!ToAdd(u, s)' = QU!ToAdd(u, s)
    BY <1>1, <1>2 DEF QU!ToAdd, Alone
  <2> QED
    BY <2>1, <1>1, <1>3, CountersStay
<1> QED
  BY <1>7, <1>8, <1>9, <1>10, <1>11, <1>12, <1>13, <1>14, <1>15

LEMMA FlushEndKeeps == ASSUME QuarantineInv, NEW t \in Threads, QU!FlushEnd(t) PROVE QuarantineInv'
<1>. USE DEF QuarantineInv, QuarantineTyped
<1> DEFINE where == IF call[t].kind = "exit" THEN "ended" ELSE "idle"
<1>1. PICK given \in SUBSET {b \in Blocks : place[b] = t} :
        place' = [b \in Blocks |-> IF b \in given THEN "central" ELSE place[b]]
  BY DEF QU!FlushEnd
<1>2. /\ freePc[t] = "flushed" /\ freePc' = [freePc EXCEPT ![t] = where]
      /\ call' = [call EXCEPT ![t] = QU!NoCall] /\ missed' = [missed EXCEPT ![t] = {}]
      /\ UNCHANGED <<onlyOnFlush, ring, claimed, ringBytes, stale, reported>>
  BY DEF QU!FlushEnd, QU!Goto
<1>3. where \in {"ended", "idle"}
  OBVIOUS
<1> HIDE DEF where
<1>4. CallsTyped' /\ Alone(t) /\ freePc'[t] = where /\ call'[t] = QU!NoCall
  BY <1>2, <1>3, NoCallTyped, CallsStayTyped DEF Sending, Adding, Taking
<1>5. \A u \in Threads : Sent(u)' = Sent(u) /\ Taken(u)' = Taken(u) /\ (Taken(u) # {} => call'[u].at = call[u].at)
  BY <1>2, <1>3, <1>4 DEF Sent, Taken, Sending, Taking, Alone
<1>6. \A b \in Blocks : \/ place'[b] = place[b]
                        \/ place[b] \in Threads /\ place'[b] = "central"
  BY <1>1
<1>7. place' \in [Blocks -> {"central", "live", "ring", "hand"} \cup Threads]
  BY <1>1
<1>8. \A b \in Blocks : /\ place'[b] = "ring" <=> place[b] = "ring"
                        /\ place'[b] = "hand" <=> place[b] = "hand"
                        /\ place'[b] = "live" <=> place[b] = "live"
                        /\ place'[b] \in {"central"} \cup Threads => place[b] \in {"central"} \cup Threads
  BY <1>6, Parameters
<1>9. QuarantineTyped'
  <2>1. missed' \in [Threads -> SUBSET Blocks]
    BY <1>2
  <2> QED
    BY <2>1, <1>2, <1>4, <1>7
<1>10. RingInv'
  BY <1>2, <1>8 DEF RingInv
<1>11. HandInv'
  BY <1>5, <1>8 DEF HandInv
<1>12. TodoInv'
  <2>1. \A u \in Threads : call'[u].todo \subseteq call[u].todo
    BY <1>4, NoCallTyped DEF Alone
  <2>2. \A u \in Threads : \A b \in call[u].todo : b \in Blocks
    BY DEF CallsTyped, CallRecords
  <2> QED
    BY <2>1, <2>2, <1>8 DEF TodoInv
<1>13. ClaimedInv'
  <2>1. \A u \in Threads : freePc'[u] = "publish" <=> freePc[u] = "publish"
    BY <1>2, <1>3, <1>4 DEF Alone
  <2>2. \A u \in Threads : freePc[u] = "publish" => call'[u] = call[u]
    BY <1>2, <1>4 DEF Alone
  <2>3. \A b \in claimed : \E u \in Threads : freePc'[u] = "publish" /\ call'[u].entry = b
    BY <2>1, <2>2 DEF ClaimedInv
  <2>4. \A u \in Threads : freePc'[u] = "publish" =>
          call'[u].entry \in claimed /\ call'[u].entry \in Elements(ring[call'[u].at])
    BY <2>1, <2>2 DEF ClaimedInv
  <2>5. \A u, v \in Threads :
          u # v /\ freePc'[u] = "publish" /\ freePc'[v] = "publish" => call'[u].entry # call'[v].entry
    BY <2>1, <2>2 DEF ClaimedInv
  <2> QED
    BY <2>3, <2>4, <2>5, <1>2 DEF ClaimedInv
<1>14. StaleInv'
  BY <1>2, <1>5, <1>8 DEF StaleInv
<1>15. MissedInv'
  <2>1. missed'[t] = {} /\ \A u \in Threads \ {t} : missed'[u] = missed[u] /\ freePc'[u] = freePc[u] /\ call'[u] = call[u]
    BY <1>2, <1>4 DEF Alone
  <2> QED
    BY <2>1, <1>2, <1>3, <1>4 DEF MissedInv, Sending
<1>16. LimitInv'
  BY <1>2, <1>4, WatchersStay DEF Watching
<1>17. BytesInv'
  <2>1. \A u \in Threads : \A s \in Shards : QU!ToAdd(u, s)' = QU!ToAdd(u, s)
    BY <1>2, <1>3, <1>4 DEF QU!ToAdd, Alone
  <2> QED
    BY <2>1, <1>2, <1>5, CountersStay
<1> QED
  BY <1>9, <1>10, <1>11, <1>12, <1>13, <1>14, <1>15, <1>16, <1>17

LEMMA LateWriteKeeps == ASSUME QuarantineInv, NEW e \in Blocks, QU!LateWrite(e) PROVE QuarantineInv'
<1>. USE DEF QuarantineInv, QuarantineTyped
<1>1. /\ place[e] = "ring" /\ stale' = stale \cup {e}
      /\ UNCHANGED <<onlyOnFlush, place, ring, claimed, ringBytes, reported, freePc, call, missed>>
  BY DEF QU!LateWrite
<1>2. \A u \in Threads : Sent(u)' = Sent(u) /\ Taken(u)' = Taken(u) /\ call'[u].at = call[u].at
  BY <1>1 DEF Sent, Taken
<1>3. QuarantineTyped'
  BY <1>1 DEF CallsTyped
<1>4. RingInv' /\ TodoInv' /\ ClaimedInv' /\ MissedInv' /\ LimitInv'
  BY <1>1 DEF RingInv, TodoInv, ClaimedInv, MissedInv, LimitInv, LimitAt
<1>5. HandInv'
  BY <1>1, <1>2 DEF HandInv
<1>6. StaleInv'
  <2>1. \A u \in Threads : e \notin Sent(u)
    BY <1>1 DEF HandInv
  <2>2. place[e] # "live" /\ place[e] \notin {"central"} \cup Threads
    BY <1>1, Parameters
  <2> QED
    BY <2>1, <2>2, <1>1, <1>2 DEF StaleInv
<1>7. BytesInv'
  <2>1. \A u \in Threads : \A s \in Shards : QU!ToAdd(u, s)' = QU!ToAdd(u, s)
    BY <1>1 DEF QU!ToAdd
  <2> QED
    BY <2>1, <1>1, <1>2, CountersStay
<1> QED
  BY <1>3, <1>4, <1>5, <1>6, <1>7

(* What allocate and prewarm take is kept somewhere, not in use.           *)
LEMMA OfferedIsKept ==
  ASSUME NEW t \in Threads, NEW life, NEW b \in QU!Offered(t, life)
  PROVE  b \in Blocks /\ place[b] \in {"central"} \cup Threads
BY DEF QU!Offered

LEMMA AllocateKeeps == ASSUME QuarantineInv, NEW t \in Threads, QU!Allocate(t) PROVE QuarantineInv'
<1>0. PICK life \in {"Persistent", "Cached"} : \E b \in QU!Offered(t, life) : QU!HandOut(b)
  BY DEF QU!Allocate
<1>1. PICK b \in QU!Offered(t, life) : QU!HandOut(b)
  BY <1>0
<1>2. b \in Blocks /\ place[b] \in {"central"} \cup Threads
  BY OfferedIsKept
<1>3. UNCHANGED <<onlyOnFlush, freePc, call, missed>>
  BY DEF QU!Allocate
<1>4. HandsOut(t, b)
  BY <1>1, <1>2, <1>3 DEF HandsOut
<1> QED
  BY <1>4, HandsOutKeeps

LEMMA WarmKeeps == ASSUME QuarantineInv, NEW t \in Threads, QU!Warm(t) PROVE QuarantineInv'
<1>1. PICK b \in QU!Offered(t, call[t].life) :
        QU!HandOut(b) /\ call' = [call EXCEPT ![t].todo = @ \cup {b}]
  BY DEF QU!Warm
<1>2. b \in Blocks /\ place[b] \in {"central"} \cup Threads
  BY OfferedIsKept
<1>3. freePc[t] = "warm" /\ UNCHANGED <<onlyOnFlush, freePc, missed>>
  BY DEF QU!Warm
<1>4. HandsOut(t, b)
  BY <1>1, <1>2, <1>3 DEF HandsOut
<1> QED
  BY <1>4, HandsOutKeeps

LEMMA FreeKeeps == ASSUME QuarantineInv, NEW t \in Threads, QU!Free(t) PROVE QuarantineInv'
<1> DEFINE entered(b) == [QU!NoCall EXCEPT !.kind = "free", !.entry = b, !.at = ShardOf[t]]
<1>1. PICK b \in Blocks :
        /\ place[b] = "live" /\ \A u \in Threads : b \notin call[u].todo
        /\ place' = [place EXCEPT ![b] = "hand"]
        /\ call' = [call EXCEPT ![t] = entered(b)]
  BY DEF QU!Free
<1> DEFINE c == entered(b)
<1>2. c \in CallRecords /\ c.entry = b /\ c.todo = {}
  <2>1. QU!NoCall \in CallRecords /\ QU!NoCall.todo = {} /\ ShardOf[t] \in Shards
    BY NoCallTyped, Parameters
  <2> QED
    BY <2>1 DEF CallRecords
<1> HIDE DEF entered, c
<1>3. freePc[t] = "idle" /\ QU!Goto(t, "push") /\ QU!Overlaps(t)
      /\ UNCHANGED <<onlyOnFlush, ring, claimed, ringBytes, stale, reported>>
  BY DEF QU!Free, QU!Begin
<1>4. HandsOver(t, b, c)
  BY <1>1, <1>2, <1>3 DEF HandsOver, c
<1> QED
  BY <1>4, HandsOverKeeps

LEMMA FreeNextKeeps == ASSUME QuarantineInv, NEW t \in Threads, QU!FreeNext(t) PROVE QuarantineInv'
<1> DEFINE entered(b) == [call[t] EXCEPT !.entry = b, !.at = ShardOf[t], !.todo = @ \ {b}]
<1>1. call[t] \in CallRecords
  BY DEF QuarantineInv, QuarantineTyped, CallsTyped
<1>2. PICK b \in call[t].todo :
        /\ place' = [place EXCEPT ![b] = "hand"]
        /\ call' = [call EXCEPT ![t].entry = b, ![t].at = ShardOf[t], ![t].todo = @ \ {b}]
  BY DEF QU!FreeNext
<1> DEFINE c == entered(b)
<1>3. call' = [call EXCEPT ![t] = c]
  BY <1>1, <1>2 DEF QuarantineInv, QuarantineTyped, CallsTyped, CallRecords
<1>4. b \in Blocks /\ place[b] = "live" /\ \A u \in Threads \ {t} : b \notin call[u].todo
  BY <1>1, <1>2 DEF QuarantineInv, TodoInv, CallRecords
<1>5. c \in CallRecords /\ c.entry = b /\ c.todo = call[t].todo \ {b}
  <2>1. ShardOf[t] \in Shards
    BY Parameters
  <2> QED
    BY <2>1, <1>1, <1>4 DEF CallRecords
<1> HIDE DEF entered, c
<1>6. freePc[t] = "next" /\ QU!Goto(t, "push") /\ QU!Overlaps(t)
      /\ UNCHANGED <<onlyOnFlush, ring, claimed, ringBytes, stale, reported>>
  BY DEF QU!FreeNext
<1>7. HandsOver(t, b, c)
  BY <1>2, <1>3, <1>4, <1>5, <1>6 DEF HandsOver
<1> QED
  BY <1>7, HandsOverKeeps

LEMMA PushKeeps == ASSUME QuarantineInv, NEW t \in Threads, QU!Push(t) PROVE QuarantineInv'
<1>1. freePc[t] = "push" /\ UNCHANGED onlyOnFlush
  BY DEF QU!Push
<1>2. CASE QU!Claimed(t)
  <2>1. Claims(t)
    BY <1>1, <1>2 DEF Claims
  <2> QED
    BY <2>1, ClaimedKeeps
<1>3. CASE QU!Goto(t, "evict") /\ UNCHANGED <<QU!blockVars, call, missed>>
  BY <1>1, <1>3, RefusedKeeps
<1> QED
  BY <1>2, <1>3 DEF QU!Push

LEMMA EvictKeeps == ASSUME QuarantineInv, NEW t \in Threads, QU!Evict(t) PROVE QuarantineInv'
<1>1. freePc[t] = "evict" /\ UNCHANGED onlyOnFlush
  BY DEF QU!Evict
<1>2. CASE QU!Popped(t, "evictRelease")
  <2>1. Pops(t, "evictRelease")
    BY <1>1, <1>2 DEF Pops
  <2> QED
    BY <2>1, PoppedKeeps
<1>3. CASE QU!Goto(t, "push2") /\ UNCHANGED <<QU!blockVars, call, missed>>
  BY <1>1, <1>3, RefusedKeeps
<1> QED
  BY <1>2, <1>3 DEF QU!Evict

LEMMA EvictReleaseKeeps == ASSUME QuarantineInv, NEW t \in Threads, QU!EvictRelease(t) PROVE QuarantineInv'
<1>1. Releases(t, "push2")
  BY DEF QU!EvictRelease, Releases
<1> QED
  BY <1>1, ReleasedKeeps

LEMMA Push2Keeps == ASSUME QuarantineInv, NEW t \in Threads, QU!Push2(t) PROVE QuarantineInv'
<1>1. freePc[t] = "push2" /\ UNCHANGED onlyOnFlush
  BY DEF QU!Push2
<1>2. CASE QU!Claimed(t)
  <2>1. Claims(t)
    BY <1>1, <1>2 DEF Claims
  <2> QED
    BY <2>1, ClaimedKeeps
<1>3. CASE ~ QU!Claimed(t)
  <2>1. GivesUp(t)
    BY <1>1, <1>3 DEF GivesUp, QU!Push2
  <2> QED
    BY <2>1, GivesUpKeeps
<1> QED
  BY <1>2, <1>3

LEMMA PopKeeps == ASSUME QuarantineInv, NEW t \in Threads, QU!Pop(t) PROVE QuarantineInv'
<1>1. freePc[t] = "pop" /\ UNCHANGED onlyOnFlush
  BY DEF QU!Pop
<1>2. CASE QU!Popped(t, "release")
  <2>1. Pops(t, "release")
    BY <1>1, <1>2 DEF Pops
  <2> QED
    BY <2>1, PoppedKeeps
<1>3. CASE ~ QU!Popped(t, "release")
  <2>1. PopsNothing(t)
    BY <1>1, <1>3 DEF PopsNothing, QU!Pop
  <2> QED
    BY <2>1, PopNothingKeeps
<1> QED
  BY <1>2, <1>3

LEMMA ReleaseKeeps == ASSUME QuarantineInv, NEW t \in Threads, QU!Release(t) PROVE QuarantineInv'
<1>1. Releases(t, IF call[t].force THEN "pop" ELSE "check")
  BY DEF QU!Release, Releases
<1> QED
  BY <1>1, ReleasedKeeps

LEMMA RestKeeps == ASSUME QuarantineInv, UNCHANGED QU!vars PROVE QuarantineInv'
<1>1. UNCHANGED <<onlyOnFlush, place, ring, claimed, ringBytes, stale, reported, freePc, call, missed>>
  BY DEF QU!vars, QU!blockVars
<1>2. /\ \A u \in Threads : Sent(u)' = Sent(u) /\ Taken(u)' = Taken(u) /\ call'[u].at = call[u].at
      /\ \A u \in Threads : \A s \in Shards : QU!ToAdd(u, s)' = QU!ToAdd(u, s)
  BY <1>1 DEF Sent, Taken, QU!ToAdd
<1>3. QuarantineTyped' /\ RingInv' /\ TodoInv' /\ ClaimedInv' /\ MissedInv' /\ LimitInv'
  BY <1>1 DEF QuarantineInv, QuarantineTyped, CallsTyped, RingInv, TodoInv, ClaimedInv, MissedInv, LimitInv, LimitAt
<1>4. HandInv' /\ StaleInv'
  BY <1>1, <1>2 DEF QuarantineInv, HandInv, StaleInv
<1>5. BytesInv'
  BY <1>1, <1>2, CountersStay DEF QuarantineInv
<1> QED
  BY <1>3, <1>4, <1>5 DEF QuarantineInv

LEMMA InvKept == ASSUME QuarantineInv, QU!Next PROVE QuarantineInv'
<1>1. ASSUME NEW t \in Threads, QU!Allocate(t) \/ QU!Free(t) \/ QU!Prewarm(t) \/ QU!Warm(t) \/ QU!FlushCall(t)
      PROVE  QuarantineInv'
  BY <1>1, AllocateKeeps, FreeKeeps, PrewarmKeeps, WarmKeeps, FlushCallKeeps
<1>2. ASSUME NEW t \in Threads, QU!Push(t) \/ QU!Publish(t) \/ QU!Evict(t) \/ QU!EvictRelease(t) \/ QU!Push2(t) \/ QU!Add(t)
      PROVE  QuarantineInv'
  BY <1>2, PushKeeps, PublishKeeps, EvictKeeps, EvictReleaseKeeps, Push2Keeps, AddKeeps
<1>3. ASSUME NEW t \in Threads, QU!LoadBytes(t) \/ QU!LoadSize(t) \/ QU!Pop(t) \/ QU!Release(t)
      PROVE  QuarantineInv'
  BY <1>3, LoadBytesKeeps, LoadSizeKeeps, PopKeeps, ReleaseKeeps
<1>4. ASSUME NEW t \in Threads, QU!WarmDone(t) \/ QU!FreeNext(t) \/ QU!FlushBegin(t) \/ QU!FlushEnd(t)
      PROVE  QuarantineInv'
  BY <1>4, WarmDoneKeeps, FreeNextKeeps, FlushBeginKeeps, FlushEndKeeps
<1>5. ASSUME NEW b \in Blocks, QU!LateWrite(b) PROVE QuarantineInv'
  BY <1>5, LateWriteKeeps
<1>6. CASE QU!Rest
  BY <1>6, RestKeeps DEF QU!Rest
<1> QED
  BY <1>1, <1>2, <1>3, <1>4, <1>5, <1>6 DEF QU!Next, QU!Step

-----------------------------------------------------------------------------
(* The deferred-free quarantine (enqueueSmallBlockQuarantine,              *)
(* drainQuarantineShard, flushQuarantine): for any number of threads,      *)
(* blocks and shards, and any capacity and limits, a block is in one ring  *)
(* once or with one call, the byte counters say what the rings hold up to  *)
(* the calls under way, a shard nobody works on is within its limits, a    *)
(* late write is reported before its block is used again, and a flush      *)
(* nobody's free overlaps leaves nothing behind.                           *)
THEOREM QuarantineIsExact == Spec => []QuarantineExact
<1>1. Init => QuarantineInv
  BY InvAtStart DEF Init
<1>2. QuarantineInv /\ [Next]_vars => QuarantineInv'
  <2> SUFFICES ASSUME QuarantineInv, [Next]_vars PROVE QuarantineInv'
    OBVIOUS
  <2>1. CASE QU!Next
    BY <2>1, InvKept
  <2>2. CASE UNCHANGED quarantine
    <3>1. UNCHANGED QU!vars
      BY <2>2 DEF quarantine, QU!vars, QU!blockVars
    <3> QED
      BY <3>1, RestKeeps
  <2> QED
    BY <2>1, <2>2 DEF Next, vars
<1>3. QuarantineInv => QuarantineExact
  BY InvImpliesExact
<1> QED
  BY <1>1, <1>2, <1>3, PTL DEF Spec

-----------------------------------------------------------------------------
(* Events: parameters *)

LEMMA SameInEvents ==
  /\ \A f : EV!SumFunction(f) = SumFunction(f)
  /\ \A S : EV!Cardinality(S) = Cardinality(S) /\ (EV!IsFiniteSet(S) <=> IsFiniteSet(S))
<1>1. \A f : EV!SumFunction(f) = SumFunction(f)
  BY DEF EV!SumFunction, EV!SumFunctionOnSet, EV!FoldFunctionOnSet, EV!MapThenFoldSet,
         SumFunction, SumFunctionOnSet, FoldFunctionOnSet, MapThenFoldSet
<1>2. \A S : EV!Cardinality(S) = Cardinality(S)
  BY DEF EV!Cardinality, Cardinality
<1>3. \A S : EV!IsFiniteSet(S) <=> IsFiniteSet(S)
  BY DEF EV!IsFiniteSet, IsFiniteSet
<1> QED
  BY <1>1, <1>2, <1>3

LEMMA EventParameters ==
  /\ IsFiniteSet(Threads) /\ IsFiniteSet(Addresses)
  /\ None \notin Threads /\ None \notin Addresses /\ None \notin Nat
  /\ AskedSize \in [Addresses -> Nat \ {0}] /\ OsPointers \subseteq Addresses
  /\ detector # statistics /\ EV!Observers = {detector, statistics}
  /\ BoundFirst \in Seq(EV!Observers)
  /\ ByteModulus \in Nat
<1>1. EV!ParametersAssumption
  BY InstancesAssumption
<1> QED
  BY <1>1, SameInEvents DEF EV!ParametersAssumption, EV!Observers

(* What the statistics count at once: every block, and one more of each    *)
(* thread, fits the counter.                                               *)
LEMMA BytesFit ==
  ASSUME NEW f \in [Addresses -> Nat], \A p \in Addresses : f[p] <= AskedSize[p],
         NEW g \in [Threads -> Nat], \A t \in Threads : g[t] = 0 \/ \E p \in Addresses : g[t] = AskedSize[p]
  PROVE  SumFunction(f) + SumFunction(g) \in 0 .. ByteModulus - 1
<1>1. EV!WideEnough
  BY InstancesAssumption DEF EV!ParametersAssumption
<1>2. PICK most \in 0 .. ByteModulus :
        /\ \A p \in Addresses : AskedSize[p] <= most
        /\ SumFunction(AskedSize) + SumFunction([t \in Threads |-> most]) < ByteModulus
  BY <1>1, SameInEvents DEF EV!WideEnough
<1> DEFINE h == [t \in Threads |-> most]
<1>3. /\ most \in Nat /\ ByteModulus \in Nat /\ IsFiniteSet(Threads) /\ IsFiniteSet(Addresses)
      /\ AskedSize \in [Addresses -> Int] /\ h \in [Threads -> Int]
      /\ f \in [Addresses -> Int] /\ g \in [Threads -> Int]
      /\ \A p \in Addresses : AskedSize[p] \in Nat
  BY EventParameters
<1>4. ASSUME NEW t \in Threads PROVE g[t] <= h[t]
  <2>1. h[t] = most
    OBVIOUS
  <2>2. CASE g[t] = 0
    BY <1>3, <2>1, <2>2
  <2>3. CASE \E p \in Addresses : g[t] = AskedSize[p]
    BY <1>2, <2>1, <2>3
  <2> QED
    BY <2>2, <2>3
<1>5. SumFunction(AskedSize) + SumFunction(h) < ByteModulus
  BY <1>2
<1> HIDE DEF h
<1>6. SumFunction(f) <= SumFunction(AskedSize)
  BY <1>3, SumMonotone
<1>7. SumFunction(g) <= SumFunction(h)
  BY <1>3, <1>4, SumMonotone
<1>8. SumFunction(f) \in Nat
  BY <1>3, SumNotNegative
<1>9. SumFunction(g) \in Nat
  BY <1>3, SumNotNegative
<1>10. SumFunction(AskedSize) \in Int /\ SumFunction(h) \in Int
  BY <1>3, SumType
<1> QED
  BY <1>3, <1>5, <1>6, <1>7, <1>8, <1>9, <1>10

-----------------------------------------------------------------------------
(* Events: how often an object is in a list *)

(* How often o is in q. *)
CountOf(q, o) == Cardinality({i \in 1 .. Len(q) : q[i] = o})

(* o is in q no more than once. *)
NotTwice(q, o) == \A i, j \in 1 .. Len(q) : q[i] = o /\ q[j] = o => i = j

LEMMA CountFinite ==
  ASSUME NEW S, NEW q \in Seq(S), NEW o
  PROVE  IsFiniteSet({i \in 1 .. Len(q) : q[i] = o}) /\ CountOf(q, o) \in Nat
<1> DEFINE P == {i \in 1 .. Len(q) : q[i] = o}
<1>1. Len(q) \in Nat
  OBVIOUS
<1>2. IsFiniteSet(1 .. Len(q))
  BY <1>1, FS_Interval
<1>3. IsFiniteSet(P)
  BY <1>2, FS_Subset
<1>4. Cardinality(P) \in Nat
  BY <1>3, FS_CardinalityType
<1> QED
  BY <1>3, <1>4 DEF CountOf

LEMMA CountOfAppend ==
  ASSUME NEW S, NEW q \in Seq(S), NEW e \in S, NEW o
  PROVE  CountOf(Append(q, e), o) = CountOf(q, o) + IF e = o THEN 1 ELSE 0
<1> DEFINE P == {i \in 1 .. Len(q) : q[i] = o}
           r == Append(q, e)
           R == {i \in 1 .. Len(r) : r[i] = o}
           n == Len(q) + 1
<1>1. /\ Len(q) \in Nat /\ Len(r) = n /\ r[n] = e
      /\ \A i \in 1 .. Len(q) : r[i] = q[i]
  OBVIOUS
<1>2. IsFiniteSet(P) /\ Cardinality(P) \in Nat
  BY CountFinite DEF CountOf
<1>3. R = IF e = o THEN P \cup {n} ELSE P
  <2> HIDE DEF r
  <2> QED
    BY <1>1
<1>4. n \notin P
  BY <1>1
<1>5. CountOf(q, o) = Cardinality(P) /\ CountOf(r, o) = Cardinality(R)
  BY DEF CountOf
<1> HIDE DEF P, R, n, r
<1>6. Cardinality(P \cup {n}) = Cardinality(P) + 1
  BY <1>2, <1>4, FS_AddElement
<1> QED
  BY <1>2, <1>3, <1>5, <1>6 DEF r

LEMMA OnceIsNotTwice ==
  ASSUME NEW S, NEW q \in Seq(S), NEW o, CountOf(q, o) = 1
  PROVE  NotTwice(q, o) /\ o \in Elements(q)
<1> DEFINE P == {i \in 1 .. Len(q) : q[i] = o}
<1>1. IsFiniteSet(P) /\ Cardinality(P) = 1
  BY CountFinite DEF CountOf
<1>2. PICK x : P = {x}
  BY <1>1, FS_Singleton
<1> QED
  BY <1>2 DEF NotTwice, Elements

(* The list without an object has the others as often.                     *)
LEMMA WithoutExact ==
  ASSUME NEW S, NEW q \in Seq(S), NEW o
  PROVE  /\ EV!Without(q, o) \in Seq(S)
         /\ \A x : CountOf(EV!Without(q, o), x) = IF x = o THEN 0 ELSE CountOf(q, x)
<1> DEFINE N == Len(q)
           Loop(d) == [n \in 0 .. N |-> IF n = 0 THEN <<>> ELSE IF q[n] = o THEN d[n - 1] ELSE Append(d[n - 1], q[n])]
           kept == CHOOSE d : d = Loop(d)
           G == [x \in Seq(S) \X Nat |->
                  IF x[2] + 1 \in 1 .. N /\ q[x[2] + 1] # o THEN Append(x[1], q[x[2] + 1]) ELSE x[1]]
           First(n, x) == Cardinality({i \in 1 .. n : q[i] = x})
           I == {n \in 0 .. N : kept[n] \in Seq(S) /\ \A x : CountOf(kept[n], x) = IF x = o THEN 0 ELSE First(n, x)}
<1>1. N \in Nat /\ <<>> \in Seq(S) /\ \A n \in 1 .. N : q[n] \in S
  OBVIOUS
<1>2. \E d : d = Loop(d)
  <2>1. G \in [Seq(S) \X Nat -> Seq(S)]
    <3> SUFFICES ASSUME NEW s \in Seq(S), NEW n \in Nat PROVE G[<<s, n>>] \in Seq(S)
      BY Zenon
    <3>1. CASE n + 1 \in 1 .. N
      BY <1>1, <3>1
    <3>2. CASE n + 1 \notin 1 .. N
      BY <3>2
    <3> QED
      BY <3>1, <3>2
  <2>2. \A s \in Seq(S), n \in 0 .. N :
          n # 0 => G[<<s, n - 1>>] = IF q[n] = o THEN s ELSE Append(s, q[n])
    <3> SUFFICES ASSUME NEW s \in Seq(S), NEW n \in 0 .. N, n # 0
                 PROVE  G[<<s, n - 1>>] = IF q[n] = o THEN s ELSE Append(s, q[n])
      OBVIOUS
    <3>1. n - 1 \in Nat /\ (n - 1) + 1 = n /\ n \in 1 .. N
      BY <1>1
    <3> QED
      BY <3>1
  <2> HIDE DEF G
  <2>3. PICK d \in [0 .. N -> Seq(S)] : IsLoop(d, <<>>, G, N)
    BY <1>1, <2>1, LoopExists, Zenon
  <2>4. ASSUME NEW n \in 0 .. N, n # 0 PROVE d[n - 1] \in Seq(S)
    <3>1. n - 1 \in 0 .. N
      BY <1>1, <2>4
    <3> QED
      BY <2>3, <3>1, Zenon
  <2>5. d = Loop(d)
    BY <2>2, <2>3, <2>4 DEF IsLoop
  <2> QED
    BY <2>5
<1>3. kept = Loop(kept)
  BY <1>2
<1>4. EV!Without(q, o) = kept[N]
  BY DEF EV!Without
<1>5. /\ kept[0] = <<>>
      /\ \A n \in 0 .. N : n # N => kept[n + 1] = IF q[n + 1] = o THEN kept[n] ELSE Append(kept[n], q[n + 1])
  <2> HIDE DEF kept
  <2>1. \A n \in 0 .. N : kept[n] = Loop(kept)[n]
    BY <1>3
  <2>2. kept[0] = <<>>
    BY <1>1, <2>1
  <2>3. ASSUME NEW n \in 0 .. N, n # N
        PROVE  kept[n + 1] = IF q[n + 1] = o THEN kept[n] ELSE Append(kept[n], q[n + 1])
    <3>1. n + 1 \in 0 .. N /\ n + 1 # 0 /\ (n + 1) - 1 = n
      BY <1>1, <2>3
    <3>2. kept[n + 1] = Loop(kept)[n + 1]
      BY <2>1, <3>1
    <3>3. Loop(kept)[n + 1] = IF q[n + 1] = o THEN kept[(n + 1) - 1] ELSE Append(kept[(n + 1) - 1], q[n + 1])
      BY <3>1
    <3> QED
      BY <3>1, <3>2, <3>3
  <2> QED
    BY <2>2, <2>3
<1> HIDE DEF kept
<1>6. 0 \in I
  <2>1. \A x : {i \in 1 .. 0 : q[i] = x} = {} /\ {i \in 1 .. Len(<<>>) : <<>>[i] = x} = {}
    OBVIOUS
  <2>2. \A x : First(0, x) = 0 /\ CountOf(<<>>, x) = 0
    BY <2>1, FS_EmptySet DEF CountOf
  <2>3. 0 \in 0 .. N
    BY <1>1
  <2> HIDE DEF First
  <2> QED
    BY <1>1, <1>5, <2>2, <2>3
<1>7. ASSUME NEW n \in 0 .. N, n # N, n \in I PROVE n + 1 \in I
  <2>1. n \in Nat /\ n + 1 \in 1 .. N /\ n + 1 \in 0 .. N /\ q[n + 1] \in S
    BY <1>1, <1>7
  <2>2. kept[n] \in Seq(S) /\ \A x : CountOf(kept[n], x) = IF x = o THEN 0 ELSE First(n, x)
    BY <1>7
  <2>3. ASSUME NEW x PROVE First(n + 1, x) = First(n, x) + (IF q[n + 1] = x THEN 1 ELSE 0) /\ First(n, x) \in Nat
    <3> DEFINE P == {i \in 1 .. n : q[i] = x}
    <3>1. IsFiniteSet(1 .. n)
      BY <2>1, FS_Interval
    <3>2. IsFiniteSet(P)
      BY <3>1, FS_Subset
    <3>3. {i \in 1 .. n + 1 : q[i] = x} = IF q[n + 1] = x THEN P \cup {n + 1} ELSE P
      BY <2>1
    <3>4. n + 1 \notin P
      BY <2>1
    <3>5. First(n, x) = Cardinality(P) /\ First(n + 1, x) = Cardinality({i \in 1 .. n + 1 : q[i] = x})
      OBVIOUS
    <3> HIDE DEF P, First
    <3>6. Cardinality(P) \in Nat
      BY <3>2, FS_CardinalityType
    <3>7. Cardinality(P \cup {n + 1}) = Cardinality(P) + 1
      BY <3>2, <3>4, FS_AddElement
    <3>8. q[n + 1] = x => First(n + 1, x) = First(n, x) + 1
      BY <3>3, <3>5, <3>7
    <3>9. q[n + 1] # x => First(n + 1, x) = First(n, x)
      BY <3>3, <3>5
    <3> QED
      BY <3>5, <3>6, <3>8, <3>9
  <2> HIDE DEF First
  <2>4. kept[n + 1] \in Seq(S)
    <3>1. Append(kept[n], q[n + 1]) \in Seq(S)
      BY <2>1, <2>2
    <3> QED
      BY <1>5, <1>7, <2>2, <3>1
  <2>5. ASSUME NEW x PROVE CountOf(kept[n + 1], x) = IF x = o THEN 0 ELSE First(n + 1, x)
    <3>1. CASE q[n + 1] = o
      <4>1. kept[n + 1] = kept[n]
        BY <1>5, <1>7, <3>1
      <4>2. x # o => First(n + 1, x) = First(n, x)
        BY <2>3, <3>1
      <4> QED
        BY <2>2, <4>1, <4>2
    <3>2. CASE q[n + 1] # o
      <4>1. kept[n + 1] = Append(kept[n], q[n + 1])
        BY <1>5, <1>7, <3>2
      <4>2. CountOf(kept[n + 1], x) = CountOf(kept[n], x) + IF q[n + 1] = x THEN 1 ELSE 0
        BY <2>1, <2>2, <4>1, CountOfAppend
      <4>3. x = o => CountOf(kept[n], x) = 0 /\ q[n + 1] # x
        BY <2>2, <3>2
      <4>4. x # o => CountOf(kept[n], x) = First(n, x)
        BY <2>2
      <4> QED
        BY <2>3, <4>2, <4>3, <4>4
    <3> QED
      BY <3>1, <3>2
  <2> QED
    BY <2>1, <2>4, <2>5
<1>8. 0 .. N \subseteq I
  <2> HIDE DEF I
  <2> QED
    BY <1>1, <1>6, <1>7, LoopInvariant
<1>9. N \in 0 .. N
  BY <1>1
<1>10. \A x : First(N, x) = CountOf(q, x)
  BY DEF CountOf
<1> QED
  BY <1>4, <1>8, <1>9, <1>10

-----------------------------------------------------------------------------
(* Events: the elements of a list and of its rest *)

LEMMA TailElements ==
  ASSUME NEW S, NEW q \in Seq(S), q # <<>>
  PROVE  /\ Tail(q) \in Seq(S) /\ Head(q) \in S /\ Head(q) \in Elements(q)
         /\ Elements(q) = Elements(Tail(q)) \cup {Head(q)}
         /\ Distinct(q) => Distinct(Tail(q)) /\ Head(q) \notin Elements(Tail(q))
         /\ \A o : NotTwice(q, o) => NotTwice(Tail(q), o)
         /\ NotTwice(q, Head(q)) => Head(q) \notin Elements(Tail(q))
<1> DEFINE r == Tail(q)
           h == Head(q)
<1>1. /\ r \in Seq(S) /\ Len(r) = Len(q) - 1 /\ Len(q) \in Nat \ {0}
      /\ h = q[1] /\ h \in S
      /\ \A i \in 1 .. Len(r) : r[i] = q[i + 1]
  OBVIOUS
<1> HIDE DEF r, h
<1>2. Elements(r) \subseteq Elements(q)
  BY <1>1 DEF Elements
<1>3. ASSUME NEW b \in Elements(q), b # h PROVE b \in Elements(r)
  <2>1. PICK i \in 1 .. Len(q) : b = q[i]
    BY DEF Elements
  <2>2. i # 1 /\ i - 1 \in 1 .. Len(r) /\ (i - 1) + 1 = i
    BY <1>1, <1>3, <2>1
  <2>3. r[i - 1] = b
    BY <1>1, <2>1, <2>2
  <2> QED
    BY <2>2, <2>3 DEF Elements
<1>4. h \in Elements(q)
  BY <1>1 DEF Elements
<1>5. Distinct(q) => Distinct(r) /\ h \notin Elements(r)
  <2>1. \A i \in 1 .. Len(r) : i + 1 \in 1 .. Len(q) /\ i + 1 # 1
    BY <1>1
  <2>2. Distinct(q) => Distinct(r)
    BY <1>1, <2>1 DEF Distinct
  <2>3. Distinct(q) => h \notin Elements(r)
    <3>1. 1 \in 1 .. Len(q)
      BY <1>1
    <3> QED
      BY <1>1, <2>1, <3>1 DEF Distinct, Elements
  <2> QED
    BY <2>2, <2>3
<1>6. \A o : NotTwice(q, o) => NotTwice(r, o)
  BY <1>1 DEF NotTwice
<1>7. NotTwice(q, h) => h \notin Elements(r)
  BY <1>1 DEF NotTwice, Elements
<1> QED
  BY <1>1, <1>2, <1>3, <1>4, <1>5, <1>6, <1>7 DEF r, h

LEMMA NoElements == Elements(<<>>) = {} /\ Distinct(<<>>) /\ \A o : NotTwice(<<>>, o)
BY DEF Elements, Distinct, NotTwice

-----------------------------------------------------------------------------
(* Events: the inductive invariant *)

Asked == {"Allocate", "Deallocate"}
EventNames ==
  (EV!Counted \ {"OsAllocate", "OsRelease"}) \cup {"ValidationError", "bind", "unbind"}
Announcing == {"notify", "emit", "call", "load", "raise"}
Calling == {"call", "load", "raise"}

WorkRecords ==
  [ptr : Addresses \cup {None}, number : Nat, events : Seq(EventNames), list : Seq(EV!Observers),
   seen : Int, object : EV!Observers \cup {None}, next : Seq(EV!Observers)]

EventsTyped ==
  /\ snapshot \in Seq(EV!Observers) /\ bindMutex \in Threads \cup {None}
  /\ owned \in [Addresses -> Nat \cup {None}] /\ live \in [Addresses -> Nat \cup {None}]
  /\ current \in Int /\ peak \in Int /\ counts \in [EV!Counted -> Int]
  /\ eventPc \in [Threads -> Announcing \cup {"idle", "publish"}]
  /\ eventWork \in [Threads -> WorkRecords]
  /\ eventCalls \in Nat /\ times \in [EV!Observers -> Nat]
  /\ skewed \subseteq EV!Observers

(* What publish will make of the count of o. *)
TimesNext(t, o) ==
  IF eventWork[t].object = o
    THEN IF eventWork[t].events = <<"bind">> THEN times[o] + 1 ELSE 0
    ELSE times[o]

ListInv ==
  /\ \A o \in EV!Observers : CountOf(snapshot, o) = times[o]
  /\ \A t \in Threads :
       eventPc[t] = "publish" =>
         bindMutex = t /\ \A o \in EV!Observers : CountOf(eventWork[t].next, o) = TimesNext(t, o)

(* What t works on. *)
CallerAt(t) ==
  /\ Distinct(eventWork[t].events)
  /\ ~(Asked \subseteq Elements(eventWork[t].events))
  /\ eventPc[t] \notin Announcing => eventWork[t].ptr = None
  /\ eventPc[t] \in Calling =>
       eventWork[t].events # <<>> /\ \A o \in EV!Observers \ skewed : NotTwice(eventWork[t].list, o)
  /\ eventPc[t] \in {"load", "raise"} => eventWork[t].list # <<>>
  /\ eventWork[t].ptr = None => eventWork[t].number = 0 /\ Elements(eventWork[t].events) \cap Asked = {}
  /\ eventWork[t].ptr # None => eventWork[t].number \in 1 .. eventCalls

CallerInv == \A t \in Threads : CallerAt(t)

(* No two allocations have a number; who announces one has its block, who  *)
(* announces the end of one has not.                                       *)
NumbersInv ==
  /\ lost \subseteq 1 .. eventCalls
  /\ \A p \in Addresses :
       /\ owned[p] # None => owned[p] \in 1 .. eventCalls
       /\ live[p] # None => live[p] \in 1 .. eventCalls
       /\ \A q \in Addresses : owned[p] # None /\ owned[p] = owned[q] => p = q
       /\ \A t \in Threads : eventWork[t].number = owned[p] => eventWork[t].ptr = p
  /\ \A t \in Threads :
       /\ "Allocate" \in Elements(eventWork[t].events) => owned[eventWork[t].ptr] = eventWork[t].number
       /\ "Deallocate" \in Elements(eventWork[t].events) =>
            \A p \in Addresses : owned[p] # eventWork[t].number
       /\ \A u \in Threads : eventWork[t].number # 0 /\ eventWork[t].number = eventWork[u].number => t = u

(* The events of t that o has not heard of yet. *)
ToTell(t, o) ==
  CASE eventPc[t] \in {"notify", "emit"} -> Elements(eventWork[t].events)
    [] eventPc[t] = "call" ->
         IF o \in Elements(eventWork[t].list) THEN Elements(eventWork[t].events)
         ELSE Elements(Tail(eventWork[t].events))
    [] eventPc[t] \in {"load", "raise"} ->
         IF o \in Elements(Tail(eventWork[t].list)) THEN Elements(eventWork[t].events)
         ELSE Elements(Tail(eventWork[t].events))
    [] OTHER -> {}

(* o has heard of the allocation that has p. *)
Known(p, o) ==
  owned[p] # None /\ \A t \in Threads : eventWork[t].ptr = p => "Allocate" \notin ToTell(t, o)

DetectorInv ==
  /\ \A p \in Addresses :
       /\ Known(p, detector) => live[p] = IF owned[p] \in lost THEN None ELSE owned[p]
       /\ live[p] # None /\ live[p] # owned[p] =>
            \E t \in Threads :
              /\ eventWork[t].ptr = p /\ eventWork[t].number = live[p]
              /\ "Deallocate" \in ToTell(t, detector)
  /\ \A t \in Threads :
       "Allocate" \in ToTell(t, detector) =>
         eventWork[t].number \notin lost /\ \A p \in Addresses : live[p] # eventWork[t].number

(* The bytes of the blocks the statistics know of, and those of blocks     *)
(* given back that they do not know of.                                    *)
KnownBytes == [p \in Addresses |-> IF Known(p, statistics) THEN AskedSize[p] ELSE 0]
OwedBytes == [t \in Threads |-> IF "Deallocate" \in ToTell(t, statistics) THEN AskedSize[eventWork[t].ptr] ELSE 0]

(* The counters that the rest of the call of t raises. *)
ToCount(t) ==
  ToTell(t, statistics) \cup
    IF eventWork[t].ptr \notin OsPointers THEN {}
    ELSE {e \in {"OsAllocate", "OsRelease"} :
            IF e = "OsAllocate" THEN "Allocate" \in ToTell(t, statistics) ELSE "Deallocate" \in ToTell(t, statistics)}

(* What a counter comes to. *)
Total(e) == counts[e] + SumFunction([t \in Threads |-> IF e \in ToCount(t) THEN 1 ELSE 0])

Owned == {p \in Addresses : owned[p] # None}

EventBytesInv == current = SumFunction(KnownBytes) + SumFunction(OwedBytes)

PeakInv ==
  peak >= current \/ \E t \in Threads : eventPc[t] = "load" \/ (eventPc[t] = "raise" /\ eventWork[t].seen >= current)

TotalsInv ==
  /\ Total("Allocate") - Total("Deallocate") = Cardinality(Owned)
  /\ Total("Allocate") = Total("ThreadCacheHit") + Total("ThreadCacheMiss")
  /\ Total("OsAllocate") - Total("OsRelease") = Cardinality(Owned \cap OsPointers)
  /\ Total("Deallocate") = Total("CentralReturn") + Total("OsRelease")

EventsInv ==
  /\ EventsTyped /\ ListInv /\ CallerInv /\ NumbersInv
  /\ detector \notin skewed => DetectorInv
  /\ statistics \notin skewed => EventBytesInv /\ PeakInv /\ TotalsInv

-----------------------------------------------------------------------------
(* Events: what a step leaves alone *)

(* A step of t leaves what the other threads work on.                      *)
ActsAlone(t) ==
  \A u \in Threads : u # t => eventPc'[u] = eventPc[u] /\ eventWork'[u] = eventWork[u]

(* Events the observers count but do not tell apart from nothing.          *)
Reports == {"ValidationError", "GuardCorruption"}

(* o has of t still to hear what it had to hear before.                    *)
TellsSame(t, o) ==
  /\ ToTell(t, o)' \ Reports = ToTell(t, o) \ Reports
  /\ ToTell(t, o) \ Reports # {} =>
       eventWork'[t].ptr = eventWork[t].ptr /\ eventWork'[t].number = eventWork[t].number

(* The same, of allocations and deallocations.                             *)
AskedSame(t, o) ==
  /\ ToTell(t, o)' \cap Asked = ToTell(t, o) \cap Asked
  /\ ToTell(t, o) \cap Asked # {} =>
       eventWork'[t].ptr = eventWork[t].ptr /\ eventWork'[t].number = eventWork[t].number

(* t goes on with its call, or ends it, or begins one without a block.     *)
GoesOn(t) ==
  \/ /\ eventWork'[t].ptr = eventWork[t].ptr /\ eventWork'[t].number = eventWork[t].number
     /\ Elements(eventWork'[t].events) \subseteq Elements(eventWork[t].events)
  \/ eventWork'[t].number = 0 /\ Elements(eventWork'[t].events) \cap Asked = {}

LEMMA OthersTell ==
  ASSUME NEW u \in Threads, eventPc'[u] = eventPc[u], eventWork'[u] = eventWork[u]
  PROVE  /\ \A o : ToTell(u, o)' = ToTell(u, o) /\ TellsSame(u, o)
         /\ ToCount(u)' = ToCount(u)
         /\ GoesOn(u)
<1>1. ASSUME NEW o PROVE ToTell(u, o)' = ToTell(u, o)
  BY Zenon DEF ToTell
<1>2. ToCount(u)' = ToCount(u)
  BY <1>1 DEF ToCount
<1>3. \A o : TellsSame(u, o)
  BY <1>1 DEF TellsSame
<1> QED
  BY <1>1, <1>2, <1>3 DEF GoesOn

LEMMA CallersStay ==
  ASSUME CallerInv, EventsTyped, NEW t \in Threads, ActsAlone(t), CallerAt(t)',
         skewed \subseteq skewed', eventCalls' \in Nat, eventCalls <= eventCalls'
  PROVE  CallerInv'
<1> SUFFICES ASSUME NEW u \in Threads, u # t PROVE CallerAt(u)'
  BY DEF CallerInv
<1>1. eventPc'[u] = eventPc[u] /\ eventWork'[u] = eventWork[u]
  BY DEF ActsAlone
<1>2. CallerAt(u)
  BY DEF CallerInv
<1>3. \A n : n \in 1 .. eventCalls => n \in 1 .. eventCalls'
  BY DEF EventsTyped
<1>4. eventWork[u].ptr # None => eventWork[u].number \in 1 .. eventCalls'
  BY <1>2, <1>3 DEF CallerAt
<1> QED
  BY <1>1, <1>2, <1>4 DEF CallerAt

LEMMA ListStays ==
  ASSUME ListInv, UNCHANGED <<snapshot, bindMutex, times>>,
         \A u \in Threads : eventPc'[u] = "publish" => eventPc[u] = "publish" /\ eventWork'[u] = eventWork[u]
  PROVE  ListInv'
<1>1. \A o \in EV!Observers : CountOf(snapshot', o) = times'[o]
  BY DEF ListInv
<1>2. ASSUME NEW u \in Threads, eventPc'[u] = "publish", NEW o \in EV!Observers
      PROVE  bindMutex' = u /\ CountOf(eventWork'[u].next, o) = TimesNext(u, o)'
  <2>1. TimesNext(u, o)' = TimesNext(u, o)
    BY <1>2 DEF TimesNext
  <2> QED
    BY <1>2, <2>1 DEF ListInv
<1> QED
  BY <1>1, <1>2 DEF ListInv

LEMMA NumbersStay ==
  ASSUME NumbersInv, EventsTyped, owned' = owned, \A u \in Threads : GoesOn(u),
         eventCalls' \in Nat, eventCalls <= eventCalls',
         lost' \subseteq 1 .. eventCalls', \A p \in Addresses : live'[p] # None => live'[p] \in 1 .. eventCalls'
  PROVE  NumbersInv'
<1>1. \A n : n \in 1 .. eventCalls => n \in 1 .. eventCalls' /\ n # 0
  BY DEF EventsTyped
<1>2. \A u \in Threads :
        /\ eventWork'[u].number = 0 \/ (eventWork'[u].number = eventWork[u].number /\ eventWork'[u].ptr = eventWork[u].ptr)
        /\ \A e \in Asked : e \in Elements(eventWork'[u].events) =>
             /\ e \in Elements(eventWork[u].events)
             /\ eventWork'[u].number = eventWork[u].number /\ eventWork'[u].ptr = eventWork[u].ptr
  BY DEF GoesOn
<1>3. \A p \in Addresses : owned[p] # 0
  BY <1>1, EventParameters DEF NumbersInv
<1>4. ASSUME NEW p \in Addresses
      PROVE  /\ owned'[p] # None => owned'[p] \in 1 .. eventCalls'
             /\ live'[p] # None => live'[p] \in 1 .. eventCalls'
             /\ \A q \in Addresses : owned'[p] # None /\ owned'[p] = owned'[q] => p = q
             /\ \A u \in Threads : eventWork'[u].number = owned'[p] => eventWork'[u].ptr = p
  <2>1. \A u \in Threads : eventWork'[u].number = owned'[p] => eventWork'[u].ptr = p
    BY <1>2, <1>3 DEF NumbersInv
  <2> QED
    BY <1>1, <2>1 DEF NumbersInv
<1>5. ASSUME NEW u \in Threads
      PROVE  /\ "Allocate" \in Elements(eventWork'[u].events) => owned'[eventWork'[u].ptr] = eventWork'[u].number
             /\ "Deallocate" \in Elements(eventWork'[u].events) =>
                  \A p \in Addresses : owned'[p] # eventWork'[u].number
             /\ \A v \in Threads : eventWork'[u].number # 0 /\ eventWork'[u].number = eventWork'[v].number => u = v
  <2>1. "Allocate" \in Elements(eventWork'[u].events) => owned'[eventWork'[u].ptr] = eventWork'[u].number
    BY <1>2 DEF NumbersInv, Asked
  <2>2. "Deallocate" \in Elements(eventWork'[u].events) => \A p \in Addresses : owned'[p] # eventWork'[u].number
    BY <1>2 DEF NumbersInv, Asked
  <2>3. \A v \in Threads : eventWork'[u].number # 0 /\ eventWork'[u].number = eventWork'[v].number => u = v
    BY <1>2 DEF NumbersInv
  <2> QED
    BY <2>1, <2>2, <2>3
<1> QED
  BY <1>4, <1>5 DEF NumbersInv

LEMMA TellsAsked == ASSUME NEW t, NEW o, TellsSame(t, o) PROVE AskedSame(t, o)
BY DEF TellsSame, AskedSame, Reports, Asked

LEMMA KnownStays ==
  ASSUME NEW o, owned' = owned, \A u \in Threads : AskedSame(u, o), NEW p \in Addresses
  PROVE  Known(p, o)' <=> Known(p, o)
<1>1. ASSUME NEW u \in Threads
      PROVE  (eventWork'[u].ptr = p => "Allocate" \notin ToTell(u, o)') <=> (eventWork[u].ptr = p => "Allocate" \notin ToTell(u, o))
  <2>1. "Allocate" \in ToTell(u, o)' <=> "Allocate" \in ToTell(u, o)
    BY DEF AskedSame, Asked
  <2>2. "Allocate" \in ToTell(u, o) => eventWork'[u].ptr = eventWork[u].ptr
    BY DEF AskedSame, Asked
  <2> QED
    BY <2>1, <2>2
<1> QED
  BY <1>1 DEF Known

LEMMA DetectorStays ==
  ASSUME DetectorInv, UNCHANGED <<owned, live, lost>>, \A u \in Threads : AskedSame(u, detector)
  PROVE  DetectorInv'
<1>1. ASSUME NEW u \in Threads, NEW e \in Asked
      PROVE  /\ e \in ToTell(u, detector)' <=> e \in ToTell(u, detector)
             /\ e \in ToTell(u, detector) =>
                  eventWork'[u].ptr = eventWork[u].ptr /\ eventWork'[u].number = eventWork[u].number
  BY DEF AskedSame, Asked
<1>2. ASSUME NEW p \in Addresses
      PROVE  Known(p, detector)' => live'[p] = IF owned'[p] \in lost' THEN None ELSE owned'[p]
  BY KnownStays DEF DetectorInv
<1>3. ASSUME NEW p \in Addresses, live'[p] # None, live'[p] # owned'[p]
      PROVE  \E u \in Threads :
               /\ eventWork'[u].ptr = p /\ eventWork'[u].number = live'[p]
               /\ "Deallocate" \in ToTell(u, detector)'
  <2>1. PICK u \in Threads :
          eventWork[u].ptr = p /\ eventWork[u].number = live[p] /\ "Deallocate" \in ToTell(u, detector)
    BY <1>3 DEF DetectorInv
  <2> QED
    BY <1>1, <2>1 DEF Asked
<1>4. ASSUME NEW u \in Threads, "Allocate" \in ToTell(u, detector)'
      PROVE  eventWork'[u].number \notin lost' /\ \A p \in Addresses : live'[p] # eventWork'[u].number
  BY <1>1, <1>4 DEF DetectorInv, Asked
<1> QED
  BY <1>2, <1>3, <1>4 DEF DetectorInv

LEMMA CountsStay ==
  ASSUME NEW u \in Threads, TellsSame(u, statistics), NEW e, e \notin Reports
  PROVE  e \in ToCount(u)' <=> e \in ToCount(u)
<1>1. \A x : x \notin Reports => (x \in ToTell(u, statistics)' <=> x \in ToTell(u, statistics))
  BY DEF TellsSame
<1>2. ASSUME NEW x \in Asked, x \in ToTell(u, statistics) PROVE eventWork'[u].ptr = eventWork[u].ptr
  BY <1>2 DEF TellsSame, Asked, Reports
<1> QED
  BY <1>1, <1>2 DEF ToCount, Asked, Reports

LEMMA BytesStay ==
  ASSUME EventBytesInv, UNCHANGED <<owned, current>>, \A u \in Threads : AskedSame(u, statistics)
  PROVE  EventBytesInv'
<1>1. ASSUME NEW u \in Threads
      PROVE  /\ "Deallocate" \in ToTell(u, statistics)' <=> "Deallocate" \in ToTell(u, statistics)
             /\ "Deallocate" \in ToTell(u, statistics) => eventWork'[u].ptr = eventWork[u].ptr
  BY DEF AskedSame, Asked
<1>2. KnownBytes' = KnownBytes
  BY KnownStays DEF KnownBytes
<1>3. OwedBytes' = OwedBytes
  BY <1>1 DEF OwedBytes
<1> QED
  BY <1>2, <1>3 DEF EventBytesInv

LEMMA StatisticsStay ==
  ASSUME UNCHANGED <<owned, current, counts>>, \A u \in Threads : TellsSame(u, statistics)
  PROVE  /\ EventBytesInv => EventBytesInv'
         /\ TotalsInv => TotalsInv'
<1>1. ASSUME NEW e, e \notin Reports PROVE Total(e)' = Total(e)
  <2>1. \A u \in Threads : e \in ToCount(u)' <=> e \in ToCount(u)
    BY <1>1, CountsStay
  <2>2. [u \in Threads |-> IF e \in ToCount(u)' THEN 1 ELSE 0] = [u \in Threads |-> IF e \in ToCount(u) THEN 1 ELSE 0]
    BY <2>1
  <2> QED
    BY <2>2 DEF Total
<1>2. EventBytesInv => EventBytesInv'
  BY BytesStay, TellsAsked
<1>3. TotalsInv => TotalsInv'
  <2>1. Owned' = Owned
    BY DEF Owned
  <2>2. /\ "Allocate" \notin Reports /\ "Deallocate" \notin Reports /\ "ThreadCacheHit" \notin Reports
        /\ "ThreadCacheMiss" \notin Reports /\ "OsAllocate" \notin Reports /\ "OsRelease" \notin Reports
        /\ "CentralReturn" \notin Reports
    BY DEF Reports
  <2> QED
    BY <1>1, <2>1, <2>2 DEF TotalsInv
<1> QED
  BY <1>2, <1>3

-----------------------------------------------------------------------------
(* Events: sums *)

LEMMA ToldOfWork ==
  ASSUME EventsTyped, CallerInv, NEW t \in Threads, NEW o
  PROVE  ToTell(t, o) \subseteq Elements(eventWork[t].events)
<1>1. eventPc[t] \in Calling => eventWork[t].events # <<>>
  BY DEF CallerInv, CallerAt
<1>2. eventWork[t].events \in Seq(EventNames)
  BY DEF EventsTyped, WorkRecords
<1>3. eventPc[t] \in Calling => Elements(Tail(eventWork[t].events)) \subseteq Elements(eventWork[t].events)
  BY <1>1, <1>2, TailElements
<1> QED
  BY <1>3 DEF ToTell, Calling

BytesBounded ==
  /\ KnownBytes \in [Addresses -> Nat] /\ \A p \in Addresses : KnownBytes[p] <= AskedSize[p]
  /\ OwedBytes \in [Threads -> Nat]
  /\ \A t \in Threads : OwedBytes[t] = 0 \/ \E p \in Addresses : OwedBytes[t] = AskedSize[p]

LEMMA BytesTyped == EventsTyped /\ CallerInv => BytesBounded
<1> SUFFICES ASSUME EventsTyped, CallerInv PROVE BytesBounded
  OBVIOUS
<1>1. \A p \in Addresses : AskedSize[p] \in Nat
  BY EventParameters
<1>2. \A p \in Addresses : KnownBytes[p] = IF Known(p, statistics) THEN AskedSize[p] ELSE 0
  BY DEF KnownBytes
<1>3. ASSUME NEW t \in Threads, "Deallocate" \in ToTell(t, statistics) PROVE eventWork[t].ptr \in Addresses
  <2>1. "Deallocate" \in Elements(eventWork[t].events)
    BY <1>3, ToldOfWork
  <2>2. eventWork[t].ptr # None
    BY <2>1 DEF CallerInv, CallerAt, Asked
  <2> QED
    BY <2>2 DEF EventsTyped, WorkRecords
<1>4. \A t \in Threads : OwedBytes[t] = IF "Deallocate" \in ToTell(t, statistics) THEN AskedSize[eventWork[t].ptr] ELSE 0
  BY DEF OwedBytes
<1>5. KnownBytes \in [Addresses -> Nat]
  BY <1>1 DEF KnownBytes
<1>6. OwedBytes \in [Threads -> Nat]
  BY <1>1, <1>3 DEF OwedBytes
<1>7. \A p \in Addresses : KnownBytes[p] <= AskedSize[p]
  BY <1>1, <1>2
<1> QED
  BY <1>3, <1>4, <1>5, <1>6, <1>7 DEF BytesBounded

LEMMA BytesTypedNext == EventsTyped' /\ CallerInv' => BytesBounded'
BY BytesTyped, PTL

LEMMA TotalsTyped ==
  ASSUME NEW e
  PROVE  /\ [t \in Threads |-> IF e \in ToCount(t) THEN 1 ELSE 0] \in [Threads -> Int]
         /\ SumFunction([t \in Threads |-> IF e \in ToCount(t) THEN 1 ELSE 0]) \in Int
<1>1. IsFiniteSet(Threads)
  BY EventParameters
<1>2. [t \in Threads |-> IF e \in ToCount(t) THEN 1 ELSE 0] \in [Threads -> Int]
  OBVIOUS
<1>3. SumFunction([t \in Threads |-> IF e \in ToCount(t) THEN 1 ELSE 0]) \in Int
  BY <1>1, <1>2, SumType
<1> QED
  BY <1>2, <1>3

(* Where no thread announces anything, the counters are what they come to. *)
LEMMA NothingToTell ==
  ASSUME EventsTyped, \A t \in Threads : eventPc[t] \in {"idle", "publish"}
  PROVE  /\ \A t \in Threads : \A o : ToTell(t, o) = {}
         /\ \A p \in Addresses : \A o : Known(p, o) <=> owned[p] # None
         /\ SumFunction(OwedBytes) = 0
         /\ \A e \in EV!Counted : Total(e) = counts[e]
<1>1. IsFiniteSet(Threads)
  BY EventParameters
<1>2. ASSUME NEW t \in Threads, NEW o PROVE ToTell(t, o) = {}
  BY DEF ToTell
<1>3. \A t \in Threads : ToCount(t) = {}
  BY <1>2 DEF ToCount
<1>4. SumFunction(OwedBytes) = 0
  <2>1. OwedBytes = [t \in Threads |-> 0]
    BY <1>2 DEF OwedBytes
  <2>2. [t \in Threads |-> 0] \in [Threads -> Int] /\ \A t \in Threads : [u \in Threads |-> 0][t] = 0
    OBVIOUS
  <2> QED
    BY <1>1, <2>1, <2>2, SumOfZeros
<1>5. ASSUME NEW e \in EV!Counted PROVE Total(e) = counts[e]
  <2> DEFINE f == [t \in Threads |-> IF e \in ToCount(t) THEN 1 ELSE 0]
  <2>1. f \in [Threads -> Int] /\ \A t \in Threads : f[t] = 0
    BY <1>3
  <2>2. Total(e) = counts[e] + SumFunction(f)
    BY DEF Total
  <2>3. counts[e] \in Int
    BY DEF EventsTyped
  <2> HIDE DEF f
  <2>4. SumFunction(f) = 0
    BY <1>1, <2>1, SumOfZeros
  <2> QED
    BY <2>2, <2>3, <2>4
<1>6. \A p \in Addresses : \A o : Known(p, o) <=> owned[p] # None
  BY <1>2 DEF Known
<1> QED
  BY <1>2, <1>4, <1>5, <1>6

LEMMA InvImpliesEventsExact == ASSUME EventsInv PROVE EV!EventsExact
<1>1. EV!ListExact
  <2>1. DOMAIN snapshot = 1 .. Len(snapshot)
    BY DEF EventsInv, EventsTyped
  <2> QED
    BY <2>1, SameInEvents DEF EventsInv, ListInv, CountOf, EV!ListExact
<1>2. EV!LeaksExact
  <2> SUFFICES ASSUME detector \notin skewed, NEW p \in Addresses, \A t \in Threads : eventWork[t].ptr # p
               PROVE  live[p] = IF owned[p] \in lost THEN None ELSE owned[p]
    BY DEF EV!LeaksExact
  <2>1. DetectorInv /\ NumbersInv
    BY DEF EventsInv
  <2>2. CASE owned[p] # None
    <3>1. Known(p, detector)
      BY <2>2 DEF Known
    <3> QED
      BY <2>1, <3>1 DEF DetectorInv
  <2>3. CASE owned[p] = None
    <3>1. live[p] = None
      BY <2>1, <2>3 DEF DetectorInv
    <3> QED
      BY <2>3, <3>1
  <2> QED
    BY <2>2, <2>3
<1>3. EV!StatisticsExact
  <2> SUFFICES ASSUME statistics \notin skewed, \A t \in Threads : eventPc[t] \in {"idle", "publish"}
               PROVE  /\ current = SumFunction([p \in Addresses |-> IF owned[p] # None THEN AskedSize[p] ELSE 0])
                      /\ peak >= current
                      /\ counts["Allocate"] - counts["Deallocate"] = Cardinality(Owned)
                      /\ counts["Allocate"] = counts["ThreadCacheHit"] + counts["ThreadCacheMiss"]
                      /\ counts["OsAllocate"] - counts["OsRelease"] = Cardinality(Owned \cap OsPointers)
                      /\ counts["Deallocate"] = counts["CentralReturn"] + counts["OsRelease"]
    BY SameInEvents DEF EV!StatisticsExact, EV!Holding, Owned
  <2>1. EventsTyped /\ CallerInv /\ EventBytesInv /\ PeakInv /\ TotalsInv
    BY DEF EventsInv
  <2>2. /\ \A p \in Addresses : Known(p, statistics) <=> owned[p] # None
        /\ SumFunction(OwedBytes) = 0
        /\ \A e \in EV!Counted : Total(e) = counts[e]
    BY <2>1, NothingToTell
  <2>3. current = SumFunction([p \in Addresses |-> IF owned[p] # None THEN AskedSize[p] ELSE 0])
    <3>1. KnownBytes = [p \in Addresses |-> IF owned[p] # None THEN AskedSize[p] ELSE 0]
      BY <2>2 DEF KnownBytes
    <3>2. KnownBytes \in [Addresses -> Int] /\ IsFiniteSet(Addresses)
      BY <2>1, BytesTyped, EventParameters DEF BytesBounded
    <3>3. SumFunction(KnownBytes) \in Int
      BY <3>2, SumType
    <3>4. current = SumFunction(KnownBytes) + 0
      BY <2>1, <2>2 DEF EventBytesInv
    <3> QED
      BY <3>1, <3>3, <3>4
  <2>4. peak >= current
    BY <2>1 DEF PeakInv
  <2>5. {"Allocate", "Deallocate", "ThreadCacheHit", "ThreadCacheMiss", "OsAllocate", "OsRelease", "CentralReturn"} \subseteq EV!Counted
    BY DEF EV!Counted
  <2> QED
    BY <2>1, <2>2, <2>3, <2>4, <2>5 DEF TotalsInv
<1> QED
  BY <1>1, <1>2, <1>3 DEF EV!EventsExact

-----------------------------------------------------------------------------
(* Events: the start *)

LEMMA NoWorkTyped ==
  /\ EV!NoWork \in WorkRecords
  /\ EV!NoWork.ptr = None /\ EV!NoWork.number = 0 /\ EV!NoWork.events = <<>> /\ EV!NoWork.list = <<>>
  /\ Elements(EV!NoWork.events) = {} /\ Distinct(EV!NoWork.events)
BY NoElements DEF EV!NoWork, WorkRecords

LEMMA EventsInvAtStart == EV!Init => EventsInv
<1> SUFFICES ASSUME EV!Init PROVE EventsInv
  OBVIOUS
<1>1. /\ snapshot = BoundFirst /\ bindMutex = None
      /\ owned = [p \in Addresses |-> None] /\ live = owned
      /\ current = 0 /\ peak = 0 /\ counts = [e \in EV!Counted |-> 0]
      /\ eventPc = [t \in Threads |-> "idle"] /\ eventWork = [t \in Threads |-> EV!NoWork]
      /\ eventCalls = 0 /\ skewed = {} /\ lost = {}
      /\ times = [o \in EV!Observers |-> CountOf(BoundFirst, o)]
  <2>1. DOMAIN BoundFirst = 1 .. Len(BoundFirst)
    BY EventParameters
  <2> QED
    BY <2>1, SameInEvents DEF EV!Init, CountOf
<1>2. EventsTyped
  <2>1. \A o : CountOf(BoundFirst, o) \in Nat
    BY EventParameters, CountFinite
  <2>2. times \in [EV!Observers -> Nat]
    BY <1>1, <2>1
  <2>3. counts \in [EV!Counted -> Int] /\ current \in Int /\ peak \in Int
    BY <1>1
  <2> QED
    BY <1>1, <2>2, <2>3, NoWorkTyped, EventParameters DEF EventsTyped
<1>3. ListInv
  BY <1>1 DEF ListInv
<1>4. ASSUME NEW t \in Threads
      PROVE  /\ eventPc[t] = "idle" /\ eventWork[t].ptr = None /\ eventWork[t].number = 0 
             /\ Elements(eventWork[t].events) = {} /\ Distinct(eventWork[t].events)
  BY <1>1, NoWorkTyped
<1>5. CallerInv
  BY <1>4 DEF CallerInv, CallerAt, Asked, Announcing, Calling
<1>6. NumbersInv
  BY <1>1, <1>4, EventParameters DEF NumbersInv
<1>7. \A p \in Addresses : \A o : ~Known(p, o) /\ live[p] = None
  BY <1>1 DEF Known
<1>8. \A t \in Threads : \A o : ToTell(t, o) = {}
  BY <1>2, <1>4, NothingToTell
<1>9. DetectorInv
  BY <1>1, <1>7, <1>8 DEF DetectorInv
<1>10. EventBytesInv
  <2>1. KnownBytes \in [Addresses -> Int] /\ \A p \in Addresses : KnownBytes[p] = 0
    BY <1>7 DEF KnownBytes
  <2>2. SumFunction(KnownBytes) = 0
    BY <2>1, EventParameters, SumOfZeros
  <2>3. SumFunction(OwedBytes) = 0
    BY <1>2, <1>4, NothingToTell
  <2> QED
    BY <1>1, <2>2, <2>3 DEF EventBytesInv
<1>11. PeakInv
  BY <1>1 DEF PeakInv
<1>12. TotalsInv
  <2>1. \A e \in EV!Counted : Total(e) = counts[e] /\ counts[e] = 0
    BY <1>1, <1>2, <1>4, NothingToTell
  <2>2. {"Allocate", "Deallocate", "ThreadCacheHit", "ThreadCacheMiss", "OsAllocate", "OsRelease", "CentralReturn"} \subseteq EV!Counted
    BY DEF EV!Counted
  <2>3. Owned = {} /\ Owned \cap OsPointers = {} /\ Cardinality({}) = 0
    BY <1>1, FS_EmptySet DEF Owned
  <2> QED
    BY <2>1, <2>2, <2>3 DEF TotalsInv
<1> QED
  BY <1>2, <1>3, <1>5, <1>6, <1>9, <1>10, <1>11, <1>12 DEF EventsInv

-----------------------------------------------------------------------------
(* Events: steps that tell nobody anything *)

LEMMA WorkFields ==
  ASSUME EventsTyped, NEW t \in Threads
  PROVE  /\ eventWork[t].ptr \in Addresses \cup {None} /\ eventWork[t].number \in Nat
         /\ eventWork[t].events \in Seq(EventNames) /\ eventWork[t].list \in Seq(EV!Observers)
         /\ eventWork[t].seen \in Int /\ eventWork[t].next \in Seq(EV!Observers)
         /\ eventWork[t] \in WorkRecords
         /\ eventPc[t] \in Announcing \cup {"idle", "publish"}
BY DEF EventsTyped, WorkRecords

LEMMA WorkChanges ==
  ASSUME NEW w \in WorkRecords
  PROVE  /\ \A l \in Seq(EV!Observers) :
              /\ [w EXCEPT !.list = l] \in WorkRecords /\ [w EXCEPT !.list = l].list = l
              /\ [w EXCEPT !.list = l].ptr = w.ptr /\ [w EXCEPT !.list = l].number = w.number
              /\ [w EXCEPT !.list = l].events = w.events /\ [w EXCEPT !.list = l].seen = w.seen
         /\ \A e \in Seq(EventNames) :
              /\ [w EXCEPT !.events = e] \in WorkRecords /\ [w EXCEPT !.events = e].events = e
              /\ [w EXCEPT !.events = e].ptr = w.ptr /\ [w EXCEPT !.events = e].number = w.number
              /\ [w EXCEPT !.events = e].list = w.list /\ [w EXCEPT !.events = e].seen = w.seen
         /\ \A s \in Int :
              /\ [w EXCEPT !.seen = s] \in WorkRecords /\ [w EXCEPT !.seen = s].seen = s
              /\ [w EXCEPT !.seen = s].ptr = w.ptr /\ [w EXCEPT !.seen = s].number = w.number
              /\ [w EXCEPT !.seen = s].list = w.list /\ [w EXCEPT !.seen = s].events = w.events
BY DEF WorkRecords

(* t is at x and works on w.                                               *)
WorksOn(t, x, w) ==
  eventPc' = [eventPc EXCEPT ![t] = x] /\ eventWork' = [eventWork EXCEPT ![t] = w]

LEMMA MovesAlone ==
  ASSUME EventsTyped, NEW t \in Threads, NEW x \in Announcing \cup {"idle", "publish"}, NEW w \in WorkRecords,
         WorksOn(t, x, w)
  PROVE  /\ ActsAlone(t) /\ eventPc'[t] = x /\ eventWork'[t] = w
         /\ eventPc' \in [Threads -> Announcing \cup {"idle", "publish"}]
         /\ eventWork' \in [Threads -> WorkRecords]
<1>1. eventPc \in [Threads -> Announcing \cup {"idle", "publish"}] /\ eventWork \in [Threads -> WorkRecords]
  BY DEF EventsTyped
<1> QED
  BY <1>1 DEF WorksOn, ActsAlone

LEMMA PeakStays ==
  ASSUME PeakInv, NEW t \in Threads, ActsAlone(t), eventPc[t] \notin {"load", "raise"}, UNCHANGED <<current, peak>>
  PROVE  PeakInv'
BY DEF PeakInv, ActsAlone

(* What a step that tells nobody anything has to show.                     *)
LEMMA QuietKeeps ==
  ASSUME EventsInv, NEW t \in Threads, ActsAlone(t), EventsTyped', ListInv', CallerAt(t)', GoesOn(t),
         UNCHANGED <<owned, live, lost, current, counts>>, skewed \subseteq skewed',
         eventCalls' \in Nat, eventCalls <= eventCalls',
         \A o \in EV!Observers \ skewed' : TellsSame(t, o),
         statistics \notin skewed' => PeakInv'
  PROVE  EventsInv'
<1>1. EventsTyped /\ CallerInv /\ NumbersInv
  BY DEF EventsInv
<1>2. CallerInv'
  BY <1>1, CallersStay
<1>3. \A u \in Threads : u # t => GoesOn(u) /\ \A o : TellsSame(u, o)
  BY OthersTell DEF ActsAlone
<1>4. \A u \in Threads : GoesOn(u)
  BY <1>3
<1>5. NumbersInv'
  <2>1. lost' \subseteq 1 .. eventCalls' /\ \A p \in Addresses : live'[p] # None => live'[p] \in 1 .. eventCalls'
    <3>1. 1 .. eventCalls \subseteq 1 .. eventCalls'
      BY <1>1 DEF EventsTyped
    <3> QED
      BY <1>1, <3>1 DEF NumbersInv
  <2> QED
    BY <1>1, <1>4, <2>1, NumbersStay
<1>6. ASSUME detector \notin skewed' PROVE DetectorInv'
  <2>1. DetectorInv
    BY <1>6 DEF EventsInv
  <2>2. \A u \in Threads : TellsSame(u, detector)
    BY <1>3, <1>6, EventParameters
  <2> QED
    BY <2>1, <2>2, DetectorStays, TellsAsked
<1>7. ASSUME statistics \notin skewed' PROVE EventBytesInv' /\ PeakInv' /\ TotalsInv'
  <2>1. EventBytesInv /\ TotalsInv
    BY <1>7 DEF EventsInv
  <2>2. \A u \in Threads : TellsSame(u, statistics)
    BY <1>3, <1>7, EventParameters
  <2> QED
    BY <1>7, <2>1, <2>2, StatisticsStay
<1> QED
  BY <1>2, <1>5, <1>6, <1>7 DEF EventsInv

LEMMA NotifyKeeps == ASSUME EventsInv, NEW t \in Threads, EV!Notify(t) PROVE EventsInv'
<1>1. /\ EventsTyped /\ CallerAt(t) /\ eventPc[t] = "notify"
      /\ UNCHANGED <<snapshot, bindMutex, times, owned, live, lost, current, peak, counts, eventCalls>>
  BY DEF EventsInv, CallerInv, EV!Notify, EV!busVars, EV!seenVars
<1>2. CASE snapshot = <<>>
  <2>1. WorksOn(t, "idle", EV!NoWork) /\ skewed' = EV!Observers
    BY <1>2 DEF EV!Notify, EV!Goto, WorksOn
  <2>2. /\ ActsAlone(t) /\ eventPc'[t] = "idle" /\ eventWork'[t] = EV!NoWork
        /\ eventPc' \in [Threads -> Announcing \cup {"idle", "publish"}] /\ eventWork' \in [Threads -> WorkRecords]
    BY <1>1, <2>1, MovesAlone, NoWorkTyped
  <2>3. EventsTyped' /\ skewed \subseteq skewed' /\ eventCalls' \in Nat /\ eventCalls <= eventCalls'
    BY <1>1, <2>1, <2>2 DEF EventsTyped
  <2>4. ListInv'
    BY <1>1, <2>2, ListStays DEF ActsAlone, EventsInv
  <2>5. CallerAt(t)' /\ GoesOn(t)
    BY <2>2, NoWorkTyped DEF CallerAt, GoesOn, Asked, Announcing, Calling
  <2> QED
    BY <1>1, <2>1, <2>2, <2>3, <2>4, <2>5, QuietKeeps, EventParameters
<1>3. CASE snapshot # <<>>
  <2>1. WorksOn(t, "emit", eventWork[t]) /\ skewed' = skewed
    BY <1>1, <1>3 DEF EV!Notify, EV!Goto, WorksOn, EventsTyped
  <2>2. /\ ActsAlone(t) /\ eventPc'[t] = "emit" /\ eventWork'[t] = eventWork[t]
        /\ eventPc' \in [Threads -> Announcing \cup {"idle", "publish"}] /\ eventWork' \in [Threads -> WorkRecords]
    BY <1>1, <2>1, MovesAlone, WorkFields DEF Announcing
  <2>3. EventsTyped' /\ skewed \subseteq skewed' /\ eventCalls' \in Nat /\ eventCalls <= eventCalls'
    BY <1>1, <2>1, <2>2 DEF EventsTyped
  <2>4. ListInv'
    BY <1>1, <2>2, ListStays DEF ActsAlone, EventsInv
  <2>5. CallerAt(t)' /\ GoesOn(t)
    BY <1>1, <2>1, <2>2 DEF CallerAt, GoesOn, Announcing, Calling
  <2>6. \A o : TellsSame(t, o)
    BY <1>1, <2>2 DEF TellsSame, ToTell
  <2>7. statistics \notin skewed' => PeakInv'
    BY <1>1, <2>1, <2>2, PeakStays DEF EventsInv
  <2> QED
    BY <1>1, <2>2, <2>3, <2>4, <2>5, <2>6, <2>7, QuietKeeps
<1> QED
  BY <1>2, <1>3

LEMMA EmitKeeps == ASSUME EventsInv, NEW t \in Threads, EV!Emit(t) PROVE EventsInv'
<1>1. /\ EventsTyped /\ CallerAt(t) /\ eventPc[t] = "emit"
      /\ UNCHANGED <<snapshot, bindMutex, times, owned, live, lost, current, peak, counts, eventCalls>>
  BY DEF EventsInv, CallerInv, EV!Emit, EV!busVars, EV!seenVars
<1>2. CASE eventWork[t].events = <<>>
  <2>1. WorksOn(t, "idle", EV!NoWork) /\ skewed' = skewed
    BY <1>2 DEF EV!Emit, EV!Goto, WorksOn
  <2>2. /\ ActsAlone(t) /\ eventPc'[t] = "idle" /\ eventWork'[t] = EV!NoWork
        /\ eventPc' \in [Threads -> Announcing \cup {"idle", "publish"}] /\ eventWork' \in [Threads -> WorkRecords]
    BY <1>1, <2>1, MovesAlone, NoWorkTyped
  <2>3. EventsTyped' /\ skewed \subseteq skewed' /\ eventCalls' \in Nat /\ eventCalls <= eventCalls'
    BY <1>1, <2>1, <2>2 DEF EventsTyped
  <2>4. ListInv'
    BY <1>1, <2>2, ListStays DEF ActsAlone, EventsInv
  <2>5. CallerAt(t)' /\ GoesOn(t)
    BY <2>2, NoWorkTyped DEF CallerAt, GoesOn, Asked, Announcing, Calling
  <2>6. \A o : TellsSame(t, o)
    BY <1>1, <1>2, <2>2, NoElements DEF TellsSame, ToTell
  <2>7. statistics \notin skewed' => PeakInv'
    BY <1>1, <2>1, <2>2, PeakStays DEF EventsInv
  <2> QED
    BY <1>1, <2>2, <2>3, <2>4, <2>5, <2>6, <2>7, QuietKeeps
<1>3. CASE eventWork[t].events # <<>>
  <2> DEFINE w == [eventWork[t] EXCEPT !.list = snapshot]
  <2>1. /\ w \in WorkRecords /\ w.list = snapshot /\ w.ptr = eventWork[t].ptr /\ w.number = eventWork[t].number
        /\ w.events = eventWork[t].events
    BY <1>1, WorkFields, WorkChanges DEF EventsTyped
  <2>2. WorksOn(t, "call", w) /\ skewed' = skewed \cup EV!Misserved(snapshot)
    BY <1>3 DEF EV!Emit, EV!Goto, WorksOn
  <2> HIDE DEF w
  <2>3. /\ ActsAlone(t) /\ eventPc'[t] = "call" /\ eventWork'[t] = w
        /\ eventPc' \in [Threads -> Announcing \cup {"idle", "publish"}] /\ eventWork' \in [Threads -> WorkRecords]
    BY <1>1, <2>1, <2>2, MovesAlone DEF Announcing
  <2>4. EventsTyped' /\ skewed \subseteq skewed' /\ eventCalls' \in Nat /\ eventCalls <= eventCalls'
    BY <1>1, <2>2, <2>3 DEF EventsTyped, EV!Misserved
  <2>5. ListInv'
    BY <1>1, <2>3, ListStays DEF ActsAlone, EventsInv
  <2>6. ASSUME NEW o \in EV!Observers \ skewed' PROVE NotTwice(snapshot, o) /\ o \in Elements(snapshot)
    <3>1. snapshot \in Seq(EV!Observers) /\ DOMAIN snapshot = 1 .. Len(snapshot)
      BY <1>1 DEF EventsTyped
    <3>2. CountOf(snapshot, o) = 1
      BY <2>2, <2>6, <3>1, SameInEvents DEF EV!Misserved, CountOf
    <3> QED
      BY <3>1, <3>2, OnceIsNotTwice
  <2>7. CallerAt(t)' /\ GoesOn(t)
    BY <1>1, <1>3, <2>1, <2>3, <2>6 DEF CallerAt, GoesOn, Announcing, Calling
  <2>8. \A o \in EV!Observers \ skewed' : TellsSame(t, o)
    BY <1>1, <2>1, <2>3, <2>6 DEF TellsSame, ToTell
  <2>9. statistics \notin skewed' => PeakInv'
    BY <1>1, <2>3, <2>4, PeakStays DEF EventsInv
  <2> QED
    BY <1>1, <2>3, <2>4, <2>5, <2>7, <2>8, <2>9, QuietKeeps
<1> QED
  BY <1>2, <1>3

LEMMA NextEventKeeps == ASSUME EventsInv, NEW t \in Threads, EV!NextEvent(t) PROVE EventsInv'
<1>1. /\ EventsTyped /\ CallerAt(t) /\ eventPc[t] = "call" /\ eventWork[t].list = <<>>
      /\ UNCHANGED <<snapshot, bindMutex, times, owned, live, lost, current, peak, counts, eventCalls, skewed>>
  BY DEF EventsInv, CallerInv, EV!NextEvent, EV!busVars, EV!seenVars
<1> DEFINE e == Tail(eventWork[t].events)
           w == [eventWork[t] EXCEPT !.events = e]
<1>2. /\ e \in Seq(EventNames) /\ Elements(e) \subseteq Elements(eventWork[t].events)
      /\ Distinct(e)
  BY <1>1, WorkFields, TailElements DEF CallerAt, Calling
<1>3. /\ w \in WorkRecords /\ w.ptr = eventWork[t].ptr /\ w.number = eventWork[t].number /\ w.events = e
  <2> HIDE DEF e
  <2> QED
    BY <1>1, <1>2, WorkFields, WorkChanges
<1>4. WorksOn(t, "emit", w)
  BY DEF EV!NextEvent, EV!Goto, WorksOn
<1> HIDE DEF w
<1>5. /\ ActsAlone(t) /\ eventPc'[t] = "emit" /\ eventWork'[t] = w
      /\ eventPc' \in [Threads -> Announcing \cup {"idle", "publish"}] /\ eventWork' \in [Threads -> WorkRecords]
  BY <1>1, <1>3, <1>4, MovesAlone DEF Announcing
<1>6. EventsTyped' /\ skewed \subseteq skewed' /\ eventCalls' \in Nat /\ eventCalls <= eventCalls'
  BY <1>1, <1>5 DEF EventsTyped
<1>7. ListInv'
  BY <1>1, <1>5, ListStays DEF ActsAlone, EventsInv
<1>8. \A o : TellsSame(t, o)
  BY <1>1, <1>3, <1>5, NoElements DEF TellsSame, ToTell
<1>9. CallerAt(t)' /\ GoesOn(t)
  <2> HIDE DEF e
  <2> QED
    BY <1>1, <1>2, <1>3, <1>5 DEF CallerAt, GoesOn, Announcing, Calling, Asked
<1>10. statistics \notin skewed' => PeakInv'
  BY <1>1, <1>5, PeakStays DEF EventsInv
<1> QED
  BY <1>1, <1>5, <1>6, <1>7, <1>8, <1>9, <1>10, QuietKeeps

LEMMA LoadCurrentKeeps == ASSUME EventsInv, NEW t \in Threads, EV!LoadCurrent(t) PROVE EventsInv'
<1>1. /\ EventsTyped /\ CallerAt(t) /\ eventPc[t] = "load"
      /\ UNCHANGED <<snapshot, bindMutex, times, owned, live, lost, current, peak, counts, eventCalls, skewed>>
  BY DEF EventsInv, CallerInv, EV!LoadCurrent, EV!busVars, EV!seenVars
<1> DEFINE w == [eventWork[t] EXCEPT !.seen = current]
<1>2. /\ w \in WorkRecords /\ w.ptr = eventWork[t].ptr /\ w.number = eventWork[t].number
      /\ w.events = eventWork[t].events /\ w.list = eventWork[t].list /\ w.seen = current /\ current \in Int
  BY <1>1, WorkFields, WorkChanges DEF EventsTyped
<1>3. WorksOn(t, "raise", w)
  BY DEF EV!LoadCurrent, EV!Goto, WorksOn
<1> HIDE DEF w
<1>4. /\ ActsAlone(t) /\ eventPc'[t] = "raise" /\ eventWork'[t] = w
      /\ eventPc' \in [Threads -> Announcing \cup {"idle", "publish"}] /\ eventWork' \in [Threads -> WorkRecords]
  BY <1>1, <1>2, <1>3, MovesAlone DEF Announcing
<1>5. EventsTyped' /\ skewed \subseteq skewed' /\ eventCalls' \in Nat /\ eventCalls <= eventCalls'
  BY <1>1, <1>4 DEF EventsTyped
<1>6. ListInv'
  BY <1>1, <1>4, ListStays DEF ActsAlone, EventsInv
<1>7. \A o : TellsSame(t, o)
  BY <1>1, <1>2, <1>4 DEF TellsSame, ToTell
<1>8. CallerAt(t)' /\ GoesOn(t)
  BY <1>1, <1>2, <1>4 DEF CallerAt, GoesOn, Announcing, Calling
<1>9. PeakInv'
  BY <1>1, <1>2, <1>4 DEF PeakInv
<1> QED
  BY <1>1, <1>4, <1>5, <1>6, <1>7, <1>8, <1>9, QuietKeeps

LEMMA RaisePeakKeeps == ASSUME EventsInv, NEW t \in Threads, EV!RaisePeak(t) PROVE EventsInv'
<1>1. /\ EventsTyped /\ CallerAt(t) /\ eventPc[t] = "raise" /\ eventWork[t].list # <<>>
      /\ peak' = IF eventWork[t].seen > peak THEN eventWork[t].seen ELSE peak
      /\ UNCHANGED <<snapshot, bindMutex, times, owned, live, lost, current, counts, eventCalls, skewed>>
  BY DEF EventsInv, CallerInv, CallerAt, EV!RaisePeak, EV!Raised, EV!busVars
<1> DEFINE r == Tail(eventWork[t].list)
           w == [eventWork[t] EXCEPT !.list = r]
<1>2. /\ r \in Seq(EV!Observers) /\ \A o : NotTwice(eventWork[t].list, o) => NotTwice(r, o)
  BY <1>1, WorkFields, TailElements
<1>3. /\ w \in WorkRecords /\ w.ptr = eventWork[t].ptr /\ w.number = eventWork[t].number
      /\ w.events = eventWork[t].events /\ w.list = r
  <2> HIDE DEF r
  <2> QED
    BY <1>1, <1>2, WorkFields, WorkChanges
<1>4. WorksOn(t, "call", w)
  BY DEF EV!RaisePeak, EV!Called, EV!Goto, WorksOn
<1> HIDE DEF w
<1>5. /\ ActsAlone(t) /\ eventPc'[t] = "call" /\ eventWork'[t] = w
      /\ eventPc' \in [Threads -> Announcing \cup {"idle", "publish"}] /\ eventWork' \in [Threads -> WorkRecords]
  BY <1>1, <1>3, <1>4, MovesAlone DEF Announcing
<1>6. EventsTyped' /\ skewed \subseteq skewed' /\ eventCalls' \in Nat /\ eventCalls <= eventCalls'
  BY <1>1, <1>5, WorkFields DEF EventsTyped
<1>7. ListInv'
  BY <1>1, <1>5, ListStays DEF ActsAlone, EventsInv
<1>8. \A o : TellsSame(t, o)
  BY <1>1, <1>3, <1>5 DEF TellsSame, ToTell
<1>9. CallerAt(t)' /\ GoesOn(t)
  <2> HIDE DEF r
  <2> QED
    BY <1>1, <1>2, <1>3, <1>5 DEF CallerAt, GoesOn, Announcing, Calling
<1>10. ASSUME PeakInv PROVE PeakInv'
  <2>1. peak \in Int /\ current \in Int /\ eventWork[t].seen \in Int
    BY <1>1, WorkFields DEF EventsTyped
  <2>2. peak' >= peak /\ peak' >= eventWork[t].seen
    BY <1>1, <2>1
  <2>3. CASE peak >= current
    BY <1>1, <2>1, <2>2, <2>3 DEF PeakInv, EventsTyped
  <2>4. ASSUME NEW u \in Threads, eventPc[u] = "load" \/ (eventPc[u] = "raise" /\ eventWork[u].seen >= current)
        PROVE  PeakInv'
    <3>1. CASE u = t
      <4>1. peak' >= current
        BY <1>1, <1>6, <2>1, <2>2, <2>4, <3>1 DEF EventsTyped
      <4> QED
        BY <1>1, <4>1 DEF PeakInv
    <3>2. CASE u # t
      BY <1>1, <1>5, <2>4, <3>2 DEF PeakInv, ActsAlone
    <3> QED
      BY <3>1, <3>2
  <2> QED
    BY <1>10, <2>3, <2>4 DEF PeakInv
<1> QED
  BY <1>1, <1>5, <1>6, <1>7, <1>8, <1>9, <1>10, QuietKeeps DEF EventsInv

-----------------------------------------------------------------------------
(* Events: bind, unbind and reports *)

(* q is a list of events, each once, those of E.                           *)
Lists(q, E) == q \in Seq(EventNames) /\ Elements(q) = E /\ Distinct(q)

LEMMA OneEvent == ASSUME NEW a \in EventNames PROVE Lists(<<a>>, {a})
<1>1. Len(<<a>>) = 1 /\ <<a>>[1] = a /\ 1 .. 1 = {1} /\ <<a>> \in Seq(EventNames)
  OBVIOUS
<1> QED
  BY <1>1 DEF Elements, Distinct, Lists

LEMMA TwoEvents == ASSUME NEW a \in EventNames, NEW b \in EventNames, a # b PROVE Lists(<<a, b>>, {a, b})
<1>1. Len(<<a, b>>) = 2 /\ <<a, b>>[1] = a /\ <<a, b>>[2] = b /\ 1 .. 2 = {1, 2} /\ <<a, b>> \in Seq(EventNames)
  OBVIOUS
<1> QED
  BY <1>1 DEF Elements, Distinct, Lists

LEMMA ThreeEvents ==
  ASSUME NEW a \in EventNames, NEW b \in EventNames, NEW c \in EventNames, a # b, a # c, b # c
  PROVE  Lists(<<a, b, c>>, {a, b, c})
<1>1. /\ Len(<<a, b, c>>) = 3 /\ <<a, b, c>>[1] = a /\ <<a, b, c>>[2] = b /\ <<a, b, c>>[3] = c
      /\ 1 .. 3 = {1, 2, 3} /\ <<a, b, c>> \in Seq(EventNames)
  OBVIOUS
<1> QED
  BY <1>1 DEF Elements, Distinct, Lists

(* The lists of events that calls announce. *)
LEMMA EventLists ==
  /\ \A e \in {"ValidationError", "GuardCorruption", "bind", "unbind", "Deallocate"} : Lists(<<e>>, {e})
  /\ Lists(<<"Allocate", "ThreadCacheHit">>, {"Allocate", "ThreadCacheHit"})
  /\ Lists(<<"Allocate", "ThreadCacheMiss">>, {"Allocate", "ThreadCacheMiss"})
  /\ Lists(<<"Deallocate", "CentralReturn">>, {"Deallocate", "CentralReturn"})
  /\ Lists(<<"Allocate", "ThreadCacheMiss", "CentralFetch">>, {"Allocate", "ThreadCacheMiss", "CentralFetch"})
<1>1. {"ValidationError", "GuardCorruption", "bind", "unbind", "Allocate", "Deallocate", "ThreadCacheHit",
       "ThreadCacheMiss", "CentralReturn", "CentralFetch"} \subseteq EventNames
  BY DEF EventNames, EV!Counted
<1>2. \A e \in {"ValidationError", "GuardCorruption", "bind", "unbind", "Deallocate"} : Lists(<<e>>, {e})
  BY <1>1, OneEvent
<1>3. /\ "Allocate" \in EventNames /\ "Deallocate" \in EventNames /\ "ThreadCacheHit" \in EventNames
      /\ "ThreadCacheMiss" \in EventNames /\ "CentralReturn" \in EventNames /\ "CentralFetch" \in EventNames
  BY <1>1
<1>4. Lists(<<"Allocate", "ThreadCacheHit">>, {"Allocate", "ThreadCacheHit"})
  BY <1>3, TwoEvents
<1>5. Lists(<<"Allocate", "ThreadCacheMiss">>, {"Allocate", "ThreadCacheMiss"})
  BY <1>3, TwoEvents
<1>6. Lists(<<"Deallocate", "CentralReturn">>, {"Deallocate", "CentralReturn"})
  BY <1>3, TwoEvents
<1>7. Lists(<<"Allocate", "ThreadCacheMiss", "CentralFetch">>, {"Allocate", "ThreadCacheMiss", "CentralFetch"})
  BY <1>3, ThreeEvents
<1> QED
  BY <1>2, <1>4, <1>5, <1>6, <1>7

(* A call begins: t was idle.                                              *)
LEMMA BeginsAlone ==
  ASSUME EventsTyped, NEW t \in Threads, NEW x \in Announcing \cup {"publish"}, NEW w \in WorkRecords, EV!Begin(t, x, w)
  PROVE  /\ ActsAlone(t) /\ eventPc[t] = "idle" /\ eventPc'[t] = x /\ eventWork'[t] = w
         /\ eventPc' \in [Threads -> Announcing \cup {"idle", "publish"}] /\ eventWork' \in [Threads -> WorkRecords]
         /\ eventCalls' = eventCalls + 1 /\ eventCalls \in Nat /\ eventCalls' \in Nat /\ eventCalls <= eventCalls'
<1>1. WorksOn(t, x, w) /\ eventPc[t] = "idle" /\ eventCalls' = eventCalls + 1
  BY DEF EV!Begin, EV!Goto, WorksOn
<1>2. eventCalls \in Nat
  BY DEF EventsTyped
<1> QED
  BY <1>1, <1>2, MovesAlone

LEMMA MutateKeeps == ASSUME EventsInv, NEW t \in Threads, EV!Mutate(t) PROVE EventsInv'
<1>1. /\ EventsTyped /\ ListInv /\ bindMutex = None
      /\ UNCHANGED <<snapshot, times, owned, live, lost, current, peak, counts, skewed>> /\ bindMutex' = t
  BY DEF EventsInv, EV!Mutate, EV!MayMutate, EV!seenVars
<1>2. PICK o \in EV!Observers, bind \in BOOLEAN :
        EV!Begin(t, "publish",
                 [EV!NoWork EXCEPT !.object = o, !.events = IF bind THEN <<"bind">> ELSE <<"unbind">>,
                                   !.next = IF bind THEN Append(snapshot, o) ELSE EV!Without(snapshot, o)])
  BY DEF EV!Mutate
<1> DEFINE e == IF bind THEN <<"bind">> ELSE <<"unbind">>
           l == IF bind THEN Append(snapshot, o) ELSE EV!Without(snapshot, o)
           w == [EV!NoWork EXCEPT !.object = o, !.events = e, !.next = l]
<1>3. /\ e \in Seq(EventNames) /\ Distinct(e) /\ Elements(e) \cap Asked = {}
      /\ bind <=> e = <<"bind">>
  <2>1. <<"bind">> # <<"unbind">>
    <3>1. <<"bind">>[1] = "bind" /\ <<"unbind">>[1] = "unbind"
      OBVIOUS
    <3> QED
      BY <3>1
  <2> QED
    BY <2>1, EventLists DEF Asked, Lists
<1>4. /\ l \in Seq(EV!Observers)
      /\ \A x \in EV!Observers :
           CountOf(l, x) = IF o = x THEN IF bind THEN times[x] + 1 ELSE 0 ELSE times[x]
  <2>1. snapshot \in Seq(EV!Observers)
    BY <1>1 DEF EventsTyped
  <2>2. \A x \in EV!Observers : CountOf(snapshot, x) = times[x] /\ times[x] \in Nat
    BY <1>1 DEF ListInv, EventsTyped
  <2>3. CASE bind
    <3>1. l = Append(snapshot, o)
      BY <2>3
    <3>2. \A x : CountOf(Append(snapshot, o), x) = CountOf(snapshot, x) + IF o = x THEN 1 ELSE 0
      BY <2>1, CountOfAppend
    <3>3. l \in Seq(EV!Observers)
      BY <2>1, <3>1
    <3> HIDE DEF l
    <3> QED
      BY <2>2, <2>3, <3>1, <3>2, <3>3
  <2>4. CASE ~bind
    <3>1. l = EV!Without(snapshot, o)
      BY <2>4
    <3> HIDE DEF l
    <3> QED
      BY <2>1, <2>2, <2>4, <3>1, WithoutExact
  <2> QED
    BY <2>3, <2>4
<1> HIDE DEF e, l
<1>5. /\ w \in WorkRecords /\ w.ptr = None /\ w.number = 0 /\ w.events = e /\ w.object = o /\ w.next = l
  BY <1>3, <1>4, NoWorkTyped DEF WorkRecords
<1>6. EV!Begin(t, "publish", w)
  BY <1>2 DEF e, l
<1> HIDE DEF w
<1>7. /\ ActsAlone(t) /\ eventPc[t] = "idle" /\ eventPc'[t] = "publish" /\ eventWork'[t] = w
      /\ eventPc' \in [Threads -> Announcing \cup {"idle", "publish"}] /\ eventWork' \in [Threads -> WorkRecords]
      /\ eventCalls \in Nat /\ eventCalls' \in Nat /\ eventCalls <= eventCalls'
  BY <1>1, <1>5, <1>6, BeginsAlone
<1>8. EventsTyped' /\ skewed \subseteq skewed'
  BY <1>1, <1>7 DEF EventsTyped
<1>9. ListInv'
  <2>1. \A u \in Threads : eventPc[u] # "publish"
    BY <1>1, EventParameters DEF ListInv
  <2>2. ASSUME NEW u \in Threads, eventPc'[u] = "publish" PROVE u = t
    BY <1>7, <2>1, <2>2 DEF ActsAlone
  <2>3. ASSUME NEW x \in EV!Observers PROVE CountOf(eventWork'[t].next, x) = TimesNext(t, x)'
    BY <1>1, <1>3, <1>4, <1>5, <1>7 DEF TimesNext
  <2> QED
    BY <1>1, <2>2, <2>3 DEF ListInv
<1>10. CallerAt(t)' /\ GoesOn(t)
  BY <1>3, <1>5, <1>7 DEF CallerAt, GoesOn, Announcing, Calling, Asked
<1>11. \A x : TellsSame(t, x)
  BY <1>7 DEF TellsSame, ToTell
<1>12. statistics \notin skewed' => PeakInv'
  BY <1>1, <1>7, PeakStays DEF EventsInv
<1> QED
  BY <1>1, <1>7, <1>8, <1>9, <1>10, <1>11, <1>12, QuietKeeps

LEMMA PublishListKeeps == ASSUME EventsInv, NEW t \in Threads, EV!Publish(t) PROVE EventsInv'
<1>1. /\ EventsTyped /\ ListInv /\ eventPc[t] = "publish"
      /\ snapshot' = eventWork[t].next /\ bindMutex' = None
      /\ times' = [times EXCEPT ![eventWork[t].object] = IF eventWork[t].events = <<"bind">> THEN @ + 1 ELSE 0]
      /\ UNCHANGED <<owned, live, lost, current, peak, counts, skewed, eventCalls>>
      /\ WorksOn(t, "idle", EV!NoWork)
  BY DEF EventsInv, EV!Publish, EV!seenVars, EV!Goto, WorksOn
<1>2. /\ ActsAlone(t) /\ eventPc'[t] = "idle" /\ eventWork'[t] = EV!NoWork
      /\ eventPc' \in [Threads -> Announcing \cup {"idle", "publish"}] /\ eventWork' \in [Threads -> WorkRecords]
  BY <1>1, MovesAlone, NoWorkTyped
<1>3. \A x \in EV!Observers : times'[x] = TimesNext(t, x) /\ TimesNext(t, x) \in Nat
  BY <1>1 DEF EventsTyped, TimesNext
<1>4. times' \in [EV!Observers -> Nat]
  <2>1. times' \in [EV!Observers -> Nat] <=> \A x \in EV!Observers : times'[x] \in Nat
    BY <1>1 DEF EventsTyped
  <2> QED
    BY <1>3, <2>1
<1>5. EventsTyped' /\ skewed \subseteq skewed' /\ eventCalls' \in Nat /\ eventCalls <= eventCalls'
  <2>1. snapshot' \in Seq(EV!Observers)
    BY <1>1, WorkFields
  <2> QED
    BY <1>1, <1>2, <1>4, <2>1 DEF EventsTyped
<1>6. ListInv'
  <2>1. ASSUME NEW u \in Threads PROVE eventPc'[u] # "publish"
    <3>1. CASE u = t
      BY <1>2, <3>1
    <3>2. CASE u # t
      <4>1. bindMutex = t /\ (eventPc[u] = "publish" => bindMutex = u)
        BY <1>1 DEF ListInv
      <4> QED
        BY <1>2, <3>2, <4>1 DEF ActsAlone
    <3> QED
      BY <3>1, <3>2
  <2>2. \A x \in EV!Observers : CountOf(eventWork[t].next, x) = TimesNext(t, x)
    BY <1>1 DEF ListInv
  <2> QED
    BY <1>1, <1>3, <2>1, <2>2 DEF ListInv
<1>7. CallerAt(t)' /\ GoesOn(t)
  BY <1>2, NoWorkTyped DEF CallerAt, GoesOn, Announcing, Calling, Asked
<1>8. \A x : TellsSame(t, x)
  BY <1>1, <1>2 DEF TellsSame, ToTell
<1>9. statistics \notin skewed' => PeakInv'
  BY <1>1, <1>2, PeakStays DEF EventsInv
<1> QED
  BY <1>1, <1>2, <1>5, <1>6, <1>7, <1>8, <1>9, QuietKeeps

LEMMA ReportKeeps == ASSUME EventsInv, NEW t \in Threads, EV!Report(t) PROVE EventsInv'
<1>1. /\ EventsTyped
      /\ UNCHANGED <<snapshot, bindMutex, times, owned, live, lost, current, peak, counts, skewed>>
  BY DEF EventsInv, EV!Report, EV!busVars, EV!seenVars
<1>2. PICK e \in {"ValidationError", "GuardCorruption"} : EV!Begin(t, "notify", [EV!NoWork EXCEPT !.events = <<e>>])
  BY DEF EV!Report
<1> DEFINE w == [EV!NoWork EXCEPT !.events = <<e>>]
<1>3. <<e>> \in Seq(EventNames) /\ Elements(<<e>>) = {e} /\ Distinct(<<e>>)
  BY EventLists DEF Lists
<1>4. w \in WorkRecords /\ w.ptr = None /\ w.number = 0 /\ w.events = <<e>>
  BY <1>3, NoWorkTyped, WorkChanges
<1> HIDE DEF w
<1>5. /\ ActsAlone(t) /\ eventPc[t] = "idle" /\ eventPc'[t] = "notify" /\ eventWork'[t] = w
      /\ eventPc' \in [Threads -> Announcing \cup {"idle", "publish"}] /\ eventWork' \in [Threads -> WorkRecords]
      /\ eventCalls \in Nat /\ eventCalls' \in Nat /\ eventCalls <= eventCalls'
  BY <1>1, <1>2, <1>4, BeginsAlone DEF w, Announcing
<1>6. EventsTyped' /\ skewed \subseteq skewed'
  BY <1>1, <1>5 DEF EventsTyped
<1>7. ListInv'
  BY <1>1, <1>5, ListStays DEF ActsAlone, EventsInv
<1>8. CallerAt(t)' /\ GoesOn(t)
  BY <1>3, <1>4, <1>5 DEF CallerAt, GoesOn, Announcing, Calling, Asked
<1>9. \A x : TellsSame(t, x)
  <2>1. \A x : ToTell(t, x) = {} /\ ToTell(t, x)' = {e}
    BY <1>3, <1>4, <1>5 DEF ToTell
  <2> QED
    BY <2>1 DEF TellsSame, Reports
<1>10. statistics \notin skewed' => PeakInv'
  BY <1>1, <1>5, PeakStays DEF EventsInv
<1> QED
  BY <1>1, <1>5, <1>6, <1>7, <1>8, <1>9, <1>10, QuietKeeps

LEMMA EventsRestKeeps == ASSUME EventsInv, UNCHANGED EV!vars PROVE EventsInv'
<1>1. UNCHANGED <<snapshot, bindMutex, times, owned, live, lost, current, peak, counts, eventPc, eventWork, eventCalls, skewed>>
  BY DEF EV!vars, EV!busVars, EV!seenVars
<1>2. \A u \in Threads : GoesOn(u) /\ CallerAt(u)' = CallerAt(u) /\ \A o : TellsSame(u, o)
  BY <1>1, OthersTell DEF CallerAt
<1>3. EventsTyped' /\ ListInv'
  BY <1>1, ListStays DEF EventsInv, EventsTyped
<1>4. CallerInv' /\ NumbersInv' /\ (PeakInv => PeakInv')
  BY <1>1, <1>2 DEF EventsInv, CallerInv, NumbersInv, PeakInv
<1>5. ASSUME detector \notin skewed PROVE DetectorInv'
  BY <1>1, <1>2, <1>5, DetectorStays, TellsAsked DEF EventsInv
<1>6. ASSUME statistics \notin skewed PROVE EventBytesInv' /\ TotalsInv'
  BY <1>1, <1>2, <1>6, StatisticsStay DEF EventsInv
<1> QED
  BY <1>1, <1>3, <1>4, <1>5, <1>6 DEF EventsInv

-----------------------------------------------------------------------------
(* Events: blocks taken and given back *)

LEMMA TotalMoves ==
  ASSUME NEW t \in Threads, ActsAlone(t), NEW e, counts[e] \in Int, counts'[e] \in Int
  PROVE  /\ Total(e) \in Int
         /\ Total(e)' = Total(e) + (counts'[e] - counts[e])
                          + ((IF e \in ToCount(t)' THEN 1 ELSE 0) - (IF e \in ToCount(t) THEN 1 ELSE 0))
<1> DEFINE f == [u \in Threads |-> IF e \in ToCount(u) THEN 1 ELSE 0]
           g == [u \in Threads |-> IF e \in ToCount(u)' THEN 1 ELSE 0]
<1>1. f \in [Threads -> Int] /\ g \in [Threads -> Int] /\ IsFiniteSet(Threads)
  BY EventParameters
<1>2. \A u \in Threads \ {t} : g[u] = f[u]
  BY OthersTell DEF ActsAlone
<1>3. /\ f[t] = IF e \in ToCount(t) THEN 1 ELSE 0
      /\ g[t] = IF e \in ToCount(t)' THEN 1 ELSE 0
  OBVIOUS
<1>4. Total(e) = counts[e] + SumFunction(f) /\ Total(e)' = counts'[e] + SumFunction(g)
  BY DEF Total
<1> HIDE DEF f, g
<1>5. SumFunction(g) = SumFunction(f) + (g[t] - f[t])
  BY <1>1, <1>2, SumOfChanged
<1>6. SumFunction(f) \in Int
  BY <1>1, SumType
<1>7. g[t] \in Int /\ f[t] \in Int
  BY <1>1
<1>8. Total(e)' = Total(e) + (counts'[e] - counts[e]) + (g[t] - f[t])
  BY <1>4, <1>5, <1>6, <1>7
<1> QED
  BY <1>3, <1>4, <1>6, <1>8

LEMMA KnownElsewhere ==
  ASSUME NEW t \in Threads, ActsAlone(t), NEW o, NEW p \in Addresses, owned'[p] = owned[p],
         eventWork[t].ptr = p => "Allocate" \notin ToTell(t, o),
         eventWork'[t].ptr = p => "Allocate" \notin ToTell(t, o)'
  PROVE  Known(p, o)' <=> Known(p, o)
<1>1. \A u \in Threads : u # t => ToTell(u, o)' = ToTell(u, o) /\ eventWork'[u].ptr = eventWork[u].ptr
  BY OthersTell DEF ActsAlone
<1> QED
  BY <1>1 DEF Known

(* The seven counters the equations are about.                             *)
Related == {"Allocate", "Deallocate", "ThreadCacheHit", "ThreadCacheMiss", "OsAllocate", "OsRelease", "CentralReturn"}

LEMMA RelatedCounted == ASSUME EventsTyped PROVE \A e \in Related : counts[e] \in Int /\ Total(e) \in Int
<1>1. ASSUME NEW e \in Related PROVE counts[e] \in Int
  BY DEF Related, EventsTyped, EV!Counted
<1>2. ASSUME NEW e \in Related PROVE Total(e) \in Int
  <2> DEFINE f == [t \in Threads |-> IF e \in ToCount(t) THEN 1 ELSE 0]
  <2>1. Total(e) = counts[e] + SumFunction(f)
    BY DEF Total
  <2>2. SumFunction(f) \in Int
    BY TotalsTyped
  <2> HIDE DEF f
  <2> QED
    BY <1>1, <2>1, <2>2
<1> QED
  BY <1>1, <1>2

LEMMA EventAllocateKeeps == ASSUME EventsInv, NEW t \in Threads, EV!Allocate(t) PROVE EventsInv'
<1>1. /\ EventsTyped /\ CallerInv /\ NumbersInv
      /\ UNCHANGED <<snapshot, bindMutex, times, live, lost, current, peak, counts, skewed>>
  BY DEF EventsInv, EV!Allocate, EV!busVars, EV!seenVars
<1>0. PICK p \in Addresses :
         /\ owned[p] = None
         /\ \E l \in EV!AllocationEvents(p) :
              EV!Begin(t, "notify", [EV!NoWork EXCEPT !.ptr = p, !.number = eventCalls + 1, !.events = l])
         /\ owned' = [owned EXCEPT ![p] = eventCalls + 1]
  BY DEF EV!Allocate
<1>2. PICK l \in EV!AllocationEvents(p) :
        /\ owned[p] = None
        /\ EV!Begin(t, "notify", [EV!NoWork EXCEPT !.ptr = p, !.number = eventCalls + 1, !.events = l])
        /\ owned' = [owned EXCEPT ![p] = eventCalls + 1]
  BY <1>0
<1> DEFINE n == eventCalls + 1
           w == [EV!NoWork EXCEPT !.ptr = p, !.number = n, !.events = l]
           E == Elements(l)
<1>3. eventCalls \in Nat /\ n \in Nat /\ n # 0 /\ n \notin 1 .. eventCalls /\ n \in 1 .. n /\ n # None /\ p # None
      /\ 1 .. eventCalls \subseteq 1 .. n
  BY <1>1, EventParameters DEF EventsTyped
<1>4. /\ l \in Seq(EventNames) /\ Distinct(l)
      /\ "Allocate" \in E /\ "Deallocate" \notin E /\ "OsAllocate" \notin E /\ "OsRelease" \notin E /\ "CentralReturn" \notin E
      /\ "ThreadCacheHit" \in E <=> "ThreadCacheMiss" \notin E
  <2>1. \/ Lists(l, {"Allocate", "ThreadCacheHit"})
        \/ Lists(l, {"Allocate", "ThreadCacheMiss"})
        \/ Lists(l, {"Allocate", "ThreadCacheMiss", "CentralFetch"})
    BY EventLists DEF EV!AllocationEvents
  <2> QED
    BY <2>1 DEF Lists
<1> HIDE DEF n, E
<1>5. w \in WorkRecords /\ w.ptr = p /\ w.number = n /\ w.events = l
  BY <1>3, <1>4, NoWorkTyped DEF WorkRecords
<1>6. EV!Begin(t, "notify", w) /\ owned' = [owned EXCEPT ![p] = n]
  BY <1>2 DEF n
<1> HIDE DEF w
<1>7. /\ ActsAlone(t) /\ eventPc[t] = "idle" /\ eventPc'[t] = "notify" /\ eventWork'[t] = w
      /\ eventPc' \in [Threads -> Announcing \cup {"idle", "publish"}] /\ eventWork' \in [Threads -> WorkRecords]
      /\ eventCalls' = n /\ eventCalls <= eventCalls'
  BY <1>1, <1>5, <1>6, BeginsAlone DEF Announcing, n
<1>8. /\ owned' \in [Addresses -> Nat \cup {None}] /\ owned'[p] = n
      /\ \A q \in Addresses : q # p => owned'[q] = owned[q]
  BY <1>1, <1>3, <1>6 DEF EventsTyped
<1>9. EventsTyped'
  BY <1>1, <1>3, <1>7, <1>8 DEF EventsTyped
<1>10. ListInv'
  BY <1>1, <1>7, ListStays DEF ActsAlone, EventsInv
<1>11. CallerInv'
  <2>1. CallerAt(t)'
    BY <1>3, <1>4, <1>5, <1>7 DEF CallerAt, Announcing, Calling, Asked, E
  <2> QED
    BY <1>1, <1>3, <1>7, <2>1, CallersStay
<1>12. eventWork[t].ptr = None /\ eventWork[t].number = 0
  BY <1>1, <1>7 DEF CallerInv, CallerAt, Announcing
<1>13. \A o : ToTell(t, o) = {} /\ ToTell(t, o)' = E
  BY <1>5, <1>7 DEF ToTell, E
<1>14. \A u \in Threads : u # t => eventWork'[u] = eventWork[u] /\ \A o : ToTell(u, o)' = ToTell(u, o)
  BY <1>7, OthersTell DEF ActsAlone
<1>15. \A u \in Threads : u # t => eventWork[u].number # n /\ eventWork'[u].number = eventWork[u].number
  <2>1. \A u \in Threads : eventWork[u].number # n
    BY <1>1, <1>3 DEF CallerInv, CallerAt
  <2> QED
    BY <1>14, <2>1
<1>16. NumbersInv'
  <2>1. lost' \subseteq 1 .. eventCalls'
    BY <1>1, <1>3, <1>7 DEF NumbersInv
  <2>2. ASSUME NEW q \in Addresses
        PROVE  /\ owned'[q] # None => owned'[q] \in 1 .. eventCalls'
               /\ live'[q] # None => live'[q] \in 1 .. eventCalls'
               /\ \A r \in Addresses : owned'[q] # None /\ owned'[q] = owned'[r] => q = r
               /\ \A u \in Threads : eventWork'[u].number = owned'[q] => eventWork'[u].ptr = q
    <3>1. \A r \in Addresses : owned[r] # None => owned[r] \in 1 .. eventCalls /\ owned[r] # n
      BY <1>1, <1>3 DEF NumbersInv
    <3>2. owned'[q] # None => owned'[q] \in 1 .. eventCalls'
      BY <1>3, <1>7, <1>8, <3>1
    <3>3. live'[q] # None => live'[q] \in 1 .. eventCalls'
      BY <1>1, <1>3, <1>7 DEF NumbersInv
    <3>4. \A r \in Addresses : owned'[q] # None /\ owned'[q] = owned'[r] => q = r
      BY <1>1, <1>3, <1>8, <3>1 DEF NumbersInv
    <3>5. ASSUME NEW u \in Threads, eventWork'[u].number = owned'[q] PROVE eventWork'[u].ptr = q
      <4>1. CASE u = t
        BY <1>3, <1>5, <1>7, <1>8, <3>1, <3>5, <4>1
      <4>2. CASE u # t
        BY <1>1, <1>8, <1>14, <1>15, <3>5, <4>2 DEF NumbersInv
      <4> QED
        BY <4>1, <4>2
    <3> QED
      BY <3>2, <3>3, <3>4, <3>5
  <2>3. ASSUME NEW u \in Threads
        PROVE  /\ "Allocate" \in Elements(eventWork'[u].events) => owned'[eventWork'[u].ptr] = eventWork'[u].number
               /\ "Deallocate" \in Elements(eventWork'[u].events) =>
                    \A q \in Addresses : owned'[q] # eventWork'[u].number
               /\ \A v \in Threads : eventWork'[u].number # 0 /\ eventWork'[u].number = eventWork'[v].number => u = v
    <3>1. CASE u = t
      BY <1>4, <1>5, <1>7, <1>8, <1>15, <3>1 DEF E
    <3>2. CASE u # t
      <4>1. \A v \in Threads : eventWork'[u].number # 0 /\ eventWork'[u].number = eventWork'[v].number => u = v
        BY <1>1, <1>5, <1>7, <1>14, <1>15, <3>2 DEF NumbersInv
      <4>2. "Deallocate" \in Elements(eventWork'[u].events) => \A q \in Addresses : owned'[q] # eventWork'[u].number
        BY <1>1, <1>8, <1>14, <1>15, <3>2 DEF NumbersInv
      <4>3. ASSUME "Allocate" \in Elements(eventWork'[u].events)
            PROVE  owned'[eventWork'[u].ptr] = eventWork'[u].number
        <5>1. /\ eventWork[u].ptr \in Addresses \cup {None} /\ eventWork[u].ptr # None
              /\ owned[eventWork[u].ptr] = eventWork[u].number /\ eventWork[u].number \in Nat
          BY <1>1, <1>14, <3>2, <4>3, WorkFields DEF CallerInv, CallerAt, NumbersInv, Asked
        <5>2. eventWork[u].ptr # p
          BY <1>2, <5>1, EventParameters
        <5> QED
          BY <1>8, <1>14, <3>2, <5>1, <5>2
      <4> QED
        BY <4>1, <4>2, <4>3
    <3> QED
      BY <3>1, <3>2
  <2> QED
    BY <2>1, <2>2, <2>3 DEF NumbersInv
<1>17. \A q \in Addresses : \A o : Known(q, o)' <=> Known(q, o)
  <2>1. \A o : ~Known(p, o)
    BY <1>2 DEF Known
  <2>2. \A o : ~Known(p, o)'
    BY <1>4, <1>5, <1>7, <1>13 DEF Known
  <2>3. ASSUME NEW q \in Addresses, NEW o, q # p PROVE Known(q, o)' <=> Known(q, o)
    BY <1>5, <1>7, <1>8, <1>13, <2>3, KnownElsewhere
  <2> QED
    BY <2>1, <2>2, <2>3
<1>18. ASSUME detector \notin skewed' PROVE DetectorInv'
  <2>1. DetectorInv
    BY <1>1, <1>18 DEF EventsInv
  <2>2. ASSUME NEW q \in Addresses, Known(q, detector)'
        PROVE  live'[q] = IF owned'[q] \in lost' THEN None ELSE owned'[q]
    <3>1. Known(q, detector) /\ q # p
      BY <1>2, <1>17, <2>2 DEF Known
    <3> QED
      BY <1>1, <1>8, <2>1, <3>1 DEF DetectorInv
  <2>3. ASSUME NEW q \in Addresses, live'[q] # None, live'[q] # owned'[q]
        PROVE  \E u \in Threads :
                 /\ eventWork'[u].ptr = q /\ eventWork'[u].number = live'[q]
                 /\ "Deallocate" \in ToTell(u, detector)'
    <3>1. live[q] # None /\ live[q] # owned[q]
      BY <1>1, <1>2, <1>8, <2>3
    <3>2. PICK u \in Threads :
            eventWork[u].ptr = q /\ eventWork[u].number = live[q] /\ "Deallocate" \in ToTell(u, detector)
      BY <2>1, <3>1 DEF DetectorInv
    <3>3. u # t
      BY <1>13, <3>2
    <3> QED
      BY <1>1, <1>14, <3>2, <3>3
  <2>4. ASSUME NEW u \in Threads, "Allocate" \in ToTell(u, detector)'
        PROVE  eventWork'[u].number \notin lost' /\ \A q \in Addresses : live'[q] # eventWork'[u].number
    <3>1. CASE u = t
      <4>1. n \notin lost /\ \A q \in Addresses : live[q] # n
        BY <1>1, <1>3 DEF NumbersInv
      <4> QED
        BY <1>1, <1>5, <1>7, <3>1, <4>1
    <3>2. CASE u # t
      BY <1>1, <1>14, <2>1, <2>4, <3>2 DEF DetectorInv
    <3> QED
      BY <3>1, <3>2
  <2> QED
    BY <2>2, <2>3, <2>4 DEF DetectorInv
<1>19. ASSUME statistics \notin skewed' PROVE EventBytesInv' /\ PeakInv' /\ TotalsInv'
  <2>1. EventBytesInv /\ PeakInv /\ TotalsInv
    BY <1>1, <1>19 DEF EventsInv
  <2>2. EventBytesInv'
    <3>1. KnownBytes' = KnownBytes
      BY <1>17 DEF KnownBytes
    <3>2. \A u \in Threads : /\ "Deallocate" \in ToTell(u, statistics)' <=> "Deallocate" \in ToTell(u, statistics)
                             /\ "Deallocate" \in ToTell(u, statistics) => eventWork'[u].ptr = eventWork[u].ptr
      BY <1>4, <1>13, <1>14
    <3>3. OwedBytes' = OwedBytes
      BY <3>2 DEF OwedBytes
    <3> QED
      BY <1>1, <2>1, <3>1, <3>3 DEF EventBytesInv
  <2>3. PeakInv'
    BY <1>1, <1>7, <2>1, PeakStays
  <2>4. TotalsInv'
    <3>1. ToCount(t) = {}
      BY <1>13 DEF ToCount
    <3>2. ToCount(t)' = E \cup IF p \in OsPointers THEN {"OsAllocate"} ELSE {}
      BY <1>4, <1>5, <1>7, <1>13 DEF ToCount
    <3>3. \A e \in Related : Total(e) \in Int /\ Total(e)' = Total(e) + IF e \in ToCount(t)' THEN 1 ELSE 0
      <4>1. ASSUME NEW e \in Related
            PROVE  Total(e) \in Int /\ Total(e)' = Total(e) + IF e \in ToCount(t)' THEN 1 ELSE 0
        <5>1. counts[e] \in Int /\ counts'[e] = counts[e]
          BY <1>1, RelatedCounted
        <5> QED
          BY <1>7, <3>1, <5>1, TotalMoves
      <4> QED
        BY <4>1
    <3>4. /\ Owned' = Owned \cup {p} /\ p \notin Owned /\ IsFiniteSet(Owned) /\ IsFiniteSet(Owned \cap OsPointers)
          /\ (Owned \cap OsPointers)' = IF p \in OsPointers THEN (Owned \cap OsPointers) \cup {p} ELSE Owned \cap OsPointers
      <4>1. Owned' = Owned \cup {p} /\ p \notin Owned
        BY <1>2, <1>3, <1>8 DEF Owned
      <4>2. Owned \subseteq Addresses /\ IsFiniteSet(Addresses)
        BY EventParameters DEF Owned
      <4>3. IsFiniteSet(Owned) /\ IsFiniteSet(Owned \cap OsPointers)
        BY <4>2, FS_Subset
      <4> QED
        BY <4>1, <4>3
    <3>5. /\ Cardinality(Owned)' = Cardinality(Owned) + 1 /\ Cardinality(Owned) \in Nat
          /\ Cardinality(Owned \cap OsPointers) \in Nat
          /\ Cardinality(Owned \cap OsPointers)' = Cardinality(Owned \cap OsPointers) + IF p \in OsPointers THEN 1 ELSE 0
      <4> DEFINE O == Owned \cap OsPointers
      <4>1. IsFiniteSet(Owned) /\ IsFiniteSet(O) /\ p \notin Owned /\ p \notin O
        BY <3>4
      <4>2. Owned' = Owned \cup {p} /\ O' = IF p \in OsPointers THEN O \cup {p} ELSE O
        BY <3>4
      <4>3. Cardinality(Owned)' = Cardinality(Owned') /\ Cardinality(Owned \cap OsPointers)' = Cardinality(O')
        OBVIOUS
      <4> HIDE DEF O
      <4>4. Cardinality(Owned) \in Nat /\ Cardinality(O) \in Nat
        BY <4>1, FS_CardinalityType
      <4>5. Cardinality(Owned \cup {p}) = Cardinality(Owned) + 1
        BY <4>1, FS_AddElement
      <4>6. Cardinality(O \cup {p}) = Cardinality(O) + 1
        BY <4>1, FS_AddElement
      <4>7. Cardinality(O') = Cardinality(O) + IF p \in OsPointers THEN 1 ELSE 0
        BY <4>2, <4>4, <4>6
      <4> QED
        BY <4>2, <4>3, <4>4, <4>5, <4>7 DEF O
    <3>6. /\ Total("Allocate")' = Total("Allocate") + 1
          /\ Total("Deallocate")' = Total("Deallocate")
          /\ Total("ThreadCacheHit")' + Total("ThreadCacheMiss")' = Total("ThreadCacheHit") + Total("ThreadCacheMiss") + 1
          /\ Total("OsAllocate")' = Total("OsAllocate") + IF p \in OsPointers THEN 1 ELSE 0
          /\ Total("OsRelease")' = Total("OsRelease")
          /\ Total("CentralReturn")' = Total("CentralReturn")
      BY <1>4, <3>2, <3>3 DEF Related
    <3> QED
      BY <1>1, <2>1, <3>5, <3>6, RelatedCounted DEF TotalsInv, Related
  <2> QED
    BY <2>2, <2>3, <2>4
<1> QED
  BY <1>9, <1>10, <1>11, <1>16, <1>18, <1>19 DEF EventsInv

LEMMA EventDeallocateKeeps == ASSUME EventsInv, NEW t \in Threads, EV!Deallocate(t) PROVE EventsInv'
<1>1. /\ EventsTyped /\ CallerInv /\ NumbersInv
      /\ UNCHANGED <<snapshot, bindMutex, times, live, lost, current, peak, counts, skewed>>
  BY DEF EventsInv, EV!Deallocate, EV!busVars, EV!seenVars
<1>2. PICK p \in Addresses :
        /\ owned[p] # None
        /\ \A u \in Threads : eventWork[u].number # owned[p]
        /\ EV!Begin(t, "notify", [EV!NoWork EXCEPT !.ptr = p, !.number = owned[p], !.events = EV!DeallocationEvents(p)])
        /\ owned' = [owned EXCEPT ![p] = None]
  BY DEF EV!Deallocate
<1> DEFINE n == owned[p]
           l == EV!DeallocationEvents(p)
           w == [EV!NoWork EXCEPT !.ptr = p, !.number = n, !.events = l]
           E == Elements(l)
<1>3. /\ eventCalls \in Nat /\ n \in Nat /\ n # 0 /\ n \in 1 .. eventCalls /\ n # None /\ p # None
      /\ \A u \in Threads : eventWork[u].number # n
  BY <1>1, <1>2, EventParameters DEF EventsTyped, NumbersInv
<1>4. /\ l \in Seq(EventNames) /\ Distinct(l)
      /\ E = IF p \in OsPointers THEN {"Deallocate"} ELSE {"Deallocate", "CentralReturn"}
  <2>1. CASE p \in OsPointers
    <3>1. l = <<"Deallocate">>
      BY <2>1 DEF EV!DeallocationEvents
    <3> QED
      BY <2>1, <3>1, EventLists DEF Lists
  <2>2. CASE p \notin OsPointers
    <3>1. l = <<"Deallocate", "CentralReturn">>
      BY <2>2 DEF EV!DeallocationEvents
    <3> QED
      BY <2>2, <3>1, EventLists DEF Lists
  <2> QED
    BY <2>1, <2>2
<1>5. w \in WorkRecords /\ w.ptr = p /\ w.number = n /\ w.events = l
  <2> HIDE DEF l, n
  <2> QED
    BY <1>3, <1>4, NoWorkTyped DEF WorkRecords
<1>6. EV!Begin(t, "notify", w)
  BY <1>2
<1>7. \A q \in Addresses : q # p => owned[q] # n
  BY <1>1, <1>3 DEF NumbersInv
<1> HIDE DEF w, l, E
<1>8. /\ ActsAlone(t) /\ eventPc[t] = "idle" /\ eventPc'[t] = "notify" /\ eventWork'[t] = w
      /\ eventPc' \in [Threads -> Announcing \cup {"idle", "publish"}] /\ eventWork' \in [Threads -> WorkRecords]
      /\ eventCalls' \in Nat /\ eventCalls <= eventCalls'
  BY <1>1, <1>5, <1>6, BeginsAlone DEF Announcing
<1>9. /\ owned' \in [Addresses -> Nat \cup {None}] /\ owned'[p] = None
      /\ \A q \in Addresses : q # p => owned'[q] = owned[q]
  BY <1>1, <1>2 DEF EventsTyped
<1>10. owned[p] = n
  OBVIOUS
<1> HIDE DEF n
<1>11. EventsTyped'
  BY <1>1, <1>8, <1>9 DEF EventsTyped
<1>12. ListInv'
  BY <1>1, <1>8, ListStays DEF ActsAlone, EventsInv
<1>13. 1 .. eventCalls \subseteq 1 .. eventCalls'
  BY <1>3, <1>8
<1>14. CallerInv'
  <2>1. CallerAt(t)'
    BY <1>3, <1>4, <1>5, <1>8, <1>13 DEF CallerAt, Announcing, Calling, Asked, E
  <2> QED
    BY <1>1, <1>8, <2>1, CallersStay
<1>15. eventWork[t].ptr = None /\ eventWork[t].number = 0
  BY <1>1, <1>8 DEF CallerInv, CallerAt, Announcing
<1>16. \A o : ToTell(t, o) = {} /\ ToTell(t, o)' = E
  BY <1>5, <1>8 DEF ToTell, E
<1>17. \A u \in Threads : u # t => eventWork'[u] = eventWork[u] /\ \A o : ToTell(u, o)' = ToTell(u, o)
  BY <1>8, OthersTell DEF ActsAlone
<1>18. "Deallocate" \in E /\ "Allocate" \notin E
  BY <1>4
<1>19. \A u \in Threads : \A o : eventWork[u].ptr = p => "Allocate" \notin ToTell(u, o)
  <2> SUFFICES ASSUME NEW u \in Threads, NEW o, eventWork[u].ptr = p, "Allocate" \in ToTell(u, o) PROVE FALSE
    OBVIOUS
  <2>1. "Allocate" \in Elements(eventWork[u].events)
    BY <1>1, ToldOfWork
  <2>2. owned[p] = eventWork[u].number
    BY <1>1, <2>1 DEF NumbersInv
  <2> QED
    BY <1>3, <1>10, <2>2
<1>20. NumbersInv'
  <2>1. lost' \subseteq 1 .. eventCalls'
    BY <1>1, <1>13 DEF NumbersInv
  <2>2. ASSUME NEW q \in Addresses
        PROVE  /\ owned'[q] # None => owned'[q] \in 1 .. eventCalls'
               /\ live'[q] # None => live'[q] \in 1 .. eventCalls'
               /\ \A r \in Addresses : owned'[q] # None /\ owned'[q] = owned'[r] => q = r
               /\ \A u \in Threads : eventWork'[u].number = owned'[q] => eventWork'[u].ptr = q
    <3>1. \A r \in Addresses : owned[r] # None => owned[r] \in 1 .. eventCalls
      BY <1>1 DEF NumbersInv
    <3>2. owned'[q] # None => owned'[q] \in 1 .. eventCalls'
      BY <1>9, <1>13, <3>1
    <3>3. live'[q] # None => live'[q] \in 1 .. eventCalls'
      BY <1>1, <1>13 DEF NumbersInv
    <3>4. \A r \in Addresses : owned'[q] # None /\ owned'[q] = owned'[r] => q = r
      BY <1>1, <1>9 DEF NumbersInv
    <3>5. ASSUME NEW u \in Threads, eventWork'[u].number = owned'[q] PROVE eventWork'[u].ptr = q
      <4>1. eventWork'[u].number # None
        <5>1. eventWork'[u] \in WorkRecords
          BY <1>8
        <5> QED
          BY <5>1, EventParameters DEF WorkRecords
      <4>2. q # p /\ eventWork'[u].number = owned[q]
        BY <1>9, <3>5, <4>1
      <4>3. CASE u = t
        BY <1>5, <1>7, <1>8, <4>2, <4>3
      <4>4. CASE u # t
        BY <1>1, <1>17, <4>2, <4>4 DEF NumbersInv
      <4> QED
        BY <4>3, <4>4
    <3> QED
      BY <3>2, <3>3, <3>4, <3>5
  <2>3. ASSUME NEW u \in Threads
        PROVE  /\ "Allocate" \in Elements(eventWork'[u].events) => owned'[eventWork'[u].ptr] = eventWork'[u].number
               /\ "Deallocate" \in Elements(eventWork'[u].events) =>
                    \A q \in Addresses : owned'[q] # eventWork'[u].number
               /\ \A v \in Threads : eventWork'[u].number # 0 /\ eventWork'[u].number = eventWork'[v].number => u = v
    <3>1. CASE u = t
      <4>1. \A q \in Addresses : owned'[q] # n
        BY <1>3, <1>7, <1>9
      <4>2. \A v \in Threads : v # t => eventWork'[v].number # n
        BY <1>3, <1>17
      <4> QED
        BY <1>5, <1>8, <1>18, <3>1, <4>1, <4>2 DEF E
    <3>2. CASE u # t
      <4>1. \A v \in Threads : eventWork'[u].number # 0 /\ eventWork'[u].number = eventWork'[v].number => u = v
        BY <1>1, <1>3, <1>5, <1>8, <1>17, <3>2 DEF NumbersInv
      <4>2. ASSUME "Deallocate" \in Elements(eventWork'[u].events), NEW q \in Addresses
            PROVE  owned'[q] # eventWork'[u].number
        <5>1. eventWork[u].number \in Nat
          BY <1>1, WorkFields
        <5> QED
          BY <1>1, <1>9, <1>17, <3>2, <4>2, <5>1, EventParameters DEF NumbersInv
      <4>3. ASSUME "Allocate" \in Elements(eventWork'[u].events)
            PROVE  owned'[eventWork'[u].ptr] = eventWork'[u].number
        <5>1. /\ eventWork[u].ptr \in Addresses \cup {None} /\ eventWork[u].ptr # None
              /\ owned[eventWork[u].ptr] = eventWork[u].number
          BY <1>1, <1>17, <3>2, <4>3, WorkFields DEF CallerInv, CallerAt, NumbersInv, Asked
        <5>2. eventWork[u].ptr # p
          BY <1>3, <1>10, <5>1
        <5> QED
          BY <1>9, <1>17, <3>2, <5>1, <5>2
      <4> QED
        BY <4>1, <4>2, <4>3
    <3> QED
      BY <3>1, <3>2
  <2> QED
    BY <2>1, <2>2, <2>3 DEF NumbersInv
<1>21. \A o : Known(p, o) /\ ~Known(p, o)'
  BY <1>3, <1>9, <1>10, <1>19 DEF Known
<1>22. \A q \in Addresses : \A o : q # p => (Known(q, o)' <=> Known(q, o))
  <2>1. ASSUME NEW q \in Addresses, NEW o, q # p PROVE Known(q, o)' <=> Known(q, o)
    BY <1>5, <1>8, <1>9, <1>16, <2>1, KnownElsewhere
  <2> QED
    BY <2>1
<1>23. ASSUME detector \notin skewed' PROVE DetectorInv'
  <2>1. DetectorInv
    BY <1>1, <1>23 DEF EventsInv
  <2>2. ASSUME NEW q \in Addresses, Known(q, detector)'
        PROVE  live'[q] = IF owned'[q] \in lost' THEN None ELSE owned'[q]
    <3>1. Known(q, detector) /\ q # p
      BY <1>21, <1>22, <2>2
    <3> QED
      BY <1>1, <1>9, <2>1, <3>1 DEF DetectorInv
  <2>3. ASSUME NEW q \in Addresses, live'[q] # None, live'[q] # owned'[q]
        PROVE  \E u \in Threads :
                 /\ eventWork'[u].ptr = q /\ eventWork'[u].number = live'[q]
                 /\ "Deallocate" \in ToTell(u, detector)'
    <3>1. CASE q = p /\ live[q] = n
      BY <1>1, <1>5, <1>8, <1>16, <1>18, <3>1
    <3>2. CASE ~(q = p /\ live[q] = n)
      <4>1. live[q] # None /\ live[q] # owned[q]
        BY <1>1, <1>9, <1>10, <2>3, <3>2
      <4>2. PICK u \in Threads :
              eventWork[u].ptr = q /\ eventWork[u].number = live[q] /\ "Deallocate" \in ToTell(u, detector)
        BY <2>1, <4>1 DEF DetectorInv
      <4>3. u # t
        BY <1>16, <4>2
      <4> QED
        BY <1>1, <1>17, <4>2, <4>3
    <3> QED
      BY <3>1, <3>2
  <2>4. ASSUME NEW u \in Threads, "Allocate" \in ToTell(u, detector)'
        PROVE  eventWork'[u].number \notin lost' /\ \A q \in Addresses : live'[q] # eventWork'[u].number
    <3>1. u # t
      BY <1>16, <1>18, <2>4
    <3> QED
      BY <1>1, <1>17, <2>1, <2>4, <3>1 DEF DetectorInv
  <2> QED
    BY <2>2, <2>3, <2>4 DEF DetectorInv
<1>24. ASSUME statistics \notin skewed' PROVE EventBytesInv' /\ PeakInv' /\ TotalsInv'
  <2>1. EventBytesInv /\ PeakInv /\ TotalsInv
    BY <1>1, <1>24 DEF EventsInv
  <2>2. EventBytesInv'
    <3>1. /\ KnownBytes \in [Addresses -> Int] /\ OwedBytes \in [Threads -> Int]
          /\ KnownBytes' \in [Addresses -> Int] /\ OwedBytes' \in [Threads -> Int]
          /\ IsFiniteSet(Addresses) /\ IsFiniteSet(Threads) /\ AskedSize[p] \in Int
      <4>1. KnownBytes \in [Addresses -> Nat] /\ OwedBytes \in [Threads -> Nat]
        BY <1>1, BytesTyped DEF BytesBounded
      <4>2. KnownBytes' \in [Addresses -> Nat] /\ OwedBytes' \in [Threads -> Nat]
        BY <1>11, <1>14, BytesTypedNext DEF BytesBounded
      <4> QED
        BY <4>1, <4>2, EventParameters
    <3>2. /\ KnownBytes[p] = AskedSize[p] /\ KnownBytes'[p] = 0
          /\ \A q \in Addresses \ {p} : KnownBytes'[q] = KnownBytes[q]
      BY <1>21, <1>22 DEF KnownBytes
    <3>3. /\ OwedBytes[t] = 0 /\ OwedBytes'[t] = AskedSize[p]
          /\ \A u \in Threads \ {t} : OwedBytes'[u] = OwedBytes[u]
      BY <1>5, <1>8, <1>16, <1>17, <1>18 DEF OwedBytes
    <3>4. SumFunction(KnownBytes') = SumFunction(KnownBytes) + (KnownBytes'[p] - KnownBytes[p])
      BY <3>1, <3>2, SumOfChanged
    <3>5. SumFunction(OwedBytes') = SumFunction(OwedBytes) + (OwedBytes'[t] - OwedBytes[t])
      BY <3>1, <3>3, SumOfChanged
    <3>6. SumFunction(KnownBytes) \in Int /\ SumFunction(OwedBytes) \in Int
      BY <3>1, SumType
    <3>7. current = SumFunction(KnownBytes) + SumFunction(OwedBytes) /\ current' = current
      BY <1>1, <2>1 DEF EventBytesInv
    <3>8. current' = SumFunction(KnownBytes') + SumFunction(OwedBytes')
      BY <3>1, <3>2, <3>3, <3>4, <3>5, <3>6, <3>7
    <3> QED
      BY <3>8 DEF EventBytesInv
  <2>3. PeakInv'
    BY <1>1, <1>8, <2>1, PeakStays
  <2>4. TotalsInv'
    <3>1. ToCount(t) = {}
      BY <1>16 DEF ToCount
    <3>2. ToCount(t)' = E \cup IF p \in OsPointers THEN {"OsRelease"} ELSE {}
      BY <1>5, <1>8, <1>16, <1>18 DEF ToCount
    <3>3. \A e \in Related : Total(e) \in Int /\ Total(e)' = Total(e) + IF e \in ToCount(t)' THEN 1 ELSE 0
      <4>1. ASSUME NEW e \in Related
            PROVE  Total(e) \in Int /\ Total(e)' = Total(e) + IF e \in ToCount(t)' THEN 1 ELSE 0
        <5>1. counts[e] \in Int /\ counts'[e] = counts[e]
          BY <1>1, RelatedCounted
        <5> QED
          BY <1>8, <3>1, <5>1, TotalMoves
      <4> QED
        BY <4>1
    <3>4. /\ Owned' = Owned \ {p} /\ p \in Owned /\ IsFiniteSet(Owned) /\ IsFiniteSet(Owned \cap OsPointers)
          /\ (Owned \cap OsPointers)' = IF p \in OsPointers THEN (Owned \cap OsPointers) \ {p} ELSE Owned \cap OsPointers
      <4>1. Owned' = Owned \ {p} /\ p \in Owned
        BY <1>3, <1>9, <1>10 DEF Owned
      <4>2. Owned \subseteq Addresses /\ IsFiniteSet(Addresses)
        BY EventParameters DEF Owned
      <4>3. IsFiniteSet(Owned) /\ IsFiniteSet(Owned \cap OsPointers)
        BY <4>2, FS_Subset
      <4> QED
        BY <4>1, <4>3
    <3>5. /\ Cardinality(Owned)' = Cardinality(Owned) - 1 /\ Cardinality(Owned) \in Nat
          /\ Cardinality(Owned \cap OsPointers) \in Nat
          /\ Cardinality(Owned \cap OsPointers)' = Cardinality(Owned \cap OsPointers) - IF p \in OsPointers THEN 1 ELSE 0
      <4> DEFINE O == Owned \cap OsPointers
      <4>1. IsFiniteSet(Owned) /\ IsFiniteSet(O) /\ p \in Owned /\ (p \in OsPointers => p \in O)
        BY <3>4
      <4>2. Owned' = Owned \ {p} /\ O' = IF p \in OsPointers THEN O \ {p} ELSE O
        BY <3>4
      <4>3. Cardinality(Owned)' = Cardinality(Owned') /\ Cardinality(Owned \cap OsPointers)' = Cardinality(O')
        OBVIOUS
      <4> HIDE DEF O
      <4>4. Cardinality(Owned) \in Nat /\ Cardinality(O) \in Nat
        BY <4>1, FS_CardinalityType
      <4>5. Cardinality(Owned \ {p}) = Cardinality(Owned) - 1
        BY <4>1, FS_RemoveElement
      <4>6. p \in OsPointers => Cardinality(O \ {p}) = Cardinality(O) - 1
        BY <4>1, FS_RemoveElement
      <4>7. Cardinality(O') = Cardinality(O) - IF p \in OsPointers THEN 1 ELSE 0
        BY <4>2, <4>4, <4>6
      <4> QED
        BY <4>2, <4>3, <4>4, <4>5, <4>7 DEF O
    <3>6. /\ Total("Allocate")' = Total("Allocate")
          /\ Total("Deallocate")' = Total("Deallocate") + 1
          /\ Total("ThreadCacheHit")' = Total("ThreadCacheHit") /\ Total("ThreadCacheMiss")' = Total("ThreadCacheMiss")
          /\ Total("OsAllocate")' = Total("OsAllocate")
          /\ Total("OsRelease")' = Total("OsRelease") + IF p \in OsPointers THEN 1 ELSE 0
          /\ Total("CentralReturn")' = Total("CentralReturn") + IF p \in OsPointers THEN 0 ELSE 1
      BY <1>4, <3>2, <3>3 DEF Related
    <3> QED
      BY <1>1, <2>1, <3>5, <3>6, RelatedCounted DEF TotalsInv, Related
  <2> QED
    BY <2>2, <2>3, <2>4
<1> QED
  BY <1>11, <1>12, <1>14, <1>20, <1>23, <1>24 DEF EventsInv

-----------------------------------------------------------------------------
(* Events: an observer is told *)

LEMMA ModulusPositive == ByteModulus \in Nat \ {0}
<1> DEFINE f == [p \in Addresses |-> 0]
           g == [t \in Threads |-> 0]
<1>1. /\ f \in [Addresses -> Nat] /\ \A p \in Addresses : f[p] <= AskedSize[p]
      /\ g \in [Threads -> Nat] /\ \A t \in Threads : g[t] = 0 \/ \E p \in Addresses : g[t] = AskedSize[p]
  BY EventParameters
<1>2. ByteModulus \in Nat
  BY EventParameters
<1> HIDE DEF f, g
<1>3. SumFunction(f) + SumFunction(g) \in 0 .. ByteModulus - 1
  BY <1>1, BytesFit
<1> QED
  BY <1>2, <1>3

(* What t has to tell whom when it calls the next entry of the list.       *)
LEMMA EntryFacts ==
  ASSUME EventsTyped, CallerInv, NEW t \in Threads, EV!Entry(t)
  PROVE  /\ eventPc[t] = "call" /\ eventWork[t].list # <<>> /\ eventWork[t].events # <<>>
         /\ Tail(eventWork[t].list) \in Seq(EV!Observers) /\ Head(eventWork[t].list) \in EV!Observers
         /\ EV!Event(t) \in EventNames /\ EV!Event(t) \in Elements(eventWork[t].events)
         /\ Elements(Tail(eventWork[t].events)) = Elements(eventWork[t].events) \ {EV!Event(t)}
         /\ ToTell(t, Head(eventWork[t].list)) = Elements(eventWork[t].events)
         /\ \A o \in EV!Observers \ skewed : NotTwice(Tail(eventWork[t].list), o)
         /\ Head(eventWork[t].list) \notin skewed => Head(eventWork[t].list) \notin Elements(Tail(eventWork[t].list))
         /\ \A o : o # Head(eventWork[t].list) =>
              (o \in Elements(Tail(eventWork[t].list)) <=> o \in Elements(eventWork[t].list))
<1> DEFINE l == eventWork[t].list
           e == eventWork[t].events
<1>1. eventPc[t] = "call" /\ l # <<>> /\ e # <<>> /\ Distinct(e) /\ l \in Seq(EV!Observers) /\ e \in Seq(EventNames)
      /\ \A o \in EV!Observers \ skewed : NotTwice(l, o)
  BY WorkFields DEF EV!Entry, CallerInv, CallerAt, Calling
<1>2. EV!Event(t) = Head(e)
  BY DEF EV!Event
<1> HIDE DEF l, e
<1>3. /\ Head(e) \in EventNames /\ Head(e) \in Elements(e) /\ Elements(e) = Elements(Tail(e)) \cup {Head(e)}
      /\ Head(e) \notin Elements(Tail(e))
  BY <1>1, TailElements
<1>4. /\ Tail(l) \in Seq(EV!Observers) /\ Head(l) \in EV!Observers /\ Head(l) \in Elements(l)
      /\ Elements(l) = Elements(Tail(l)) \cup {Head(l)}
      /\ \A o : NotTwice(l, o) => NotTwice(Tail(l), o)
      /\ NotTwice(l, Head(l)) => Head(l) \notin Elements(Tail(l))
  BY <1>1, TailElements
<1>5. ToTell(t, Head(l)) = Elements(e)
  BY <1>1, <1>4 DEF ToTell, l, e
<1>6. Elements(Tail(e)) = Elements(e) \ {Head(e)}
  BY <1>3
<1>7. Head(l) \notin skewed => Head(l) \notin Elements(Tail(l))
  BY <1>1, <1>4
<1> QED
  BY <1>1, <1>2, <1>3, <1>4, <1>5, <1>6, <1>7 DEF l, e

(* A call of the entry o leaves it the other events, and other observers   *)
(* what they had.                                                          *)
LEMMA EntryTold ==
  ASSUME EventsTyped, CallerInv, NEW t \in Threads, EV!Entry(t), NEW o, Head(eventWork[t].list) = o,
         eventWork'[t].ptr = eventWork[t].ptr, eventWork'[t].number = eventWork[t].number,
         eventWork'[t].events = eventWork[t].events,
         \/ eventPc'[t] = "call" /\ eventWork'[t].list = Tail(eventWork[t].list)
         \/ eventPc'[t] = "load" /\ eventWork'[t].list = eventWork[t].list
  PROVE  /\ \A x : x # o => TellsSame(t, x)
         /\ o \notin skewed => ToTell(t, o)' = ToTell(t, o) \ {EV!Event(t)}
<1>1. /\ eventPc[t] = "call"
      /\ Elements(Tail(eventWork[t].events)) = Elements(eventWork[t].events) \ {EV!Event(t)}
      /\ ToTell(t, o) = Elements(eventWork[t].events)
      /\ o \notin skewed => o \notin Elements(Tail(eventWork[t].list))
      /\ \A x : x # o => (x \in Elements(Tail(eventWork[t].list)) <=> x \in Elements(eventWork[t].list))
  BY EntryFacts
<1>2. ASSUME NEW x
      PROVE  ToTell(t, x)' = IF x \in Elements(Tail(eventWork[t].list)) THEN Elements(eventWork[t].events)
                             ELSE Elements(Tail(eventWork[t].events))
  BY DEF ToTell
<1>3. ASSUME NEW x, x # o PROVE TellsSame(t, x)
  <2>1. ToTell(t, x)' = ToTell(t, x)
    BY <1>1, <1>2, <1>3 DEF ToTell
  <2> QED
    BY <2>1 DEF TellsSame
<1> QED
  BY <1>1, <1>2, <1>3

(* Who announces an allocation or a deallocation, of which block.          *)
LEMMA EventOf ==
  ASSUME EventsTyped, CallerInv, NumbersInv, NEW t \in Threads
  PROVE  /\ Asked \cap Elements(eventWork[t].events) # {} =>
              /\ eventWork[t].ptr \in Addresses /\ eventWork[t].number \in 1 .. eventCalls /\ eventWork[t].number # 0
              /\ eventWork[t].number # None
         /\ "Allocate" \in Elements(eventWork[t].events) =>
              /\ "Deallocate" \notin Elements(eventWork[t].events)
              /\ owned[eventWork[t].ptr] = eventWork[t].number
         /\ "Deallocate" \in Elements(eventWork[t].events) =>
              /\ "Allocate" \notin Elements(eventWork[t].events)
              /\ \A p \in Addresses : owned[p] # eventWork[t].number
<1>1. CallerAt(t) /\ eventWork[t].ptr \in Addresses \cup {None} /\ eventWork[t].number \in Nat /\ eventCalls \in Nat
  BY WorkFields DEF CallerInv, EventsTyped
<1>2. ASSUME Asked \cap Elements(eventWork[t].events) # {}
      PROVE  /\ eventWork[t].ptr \in Addresses /\ eventWork[t].number \in 1 .. eventCalls /\ eventWork[t].number # 0
             /\ eventWork[t].number # None
  BY <1>1, <1>2, EventParameters DEF CallerAt
<1>3. ~(Asked \subseteq Elements(eventWork[t].events))
  BY <1>1 DEF CallerAt
<1> QED
  BY <1>2, <1>3 DEF NumbersInv, Asked

LEMMA CallDetectorKeeps == ASSUME EventsInv, NEW t \in Threads, EV!CallDetector(t) PROVE EventsInv'
<1> DEFINE p == eventWork[t].ptr
           n == eventWork[t].number
           h == EV!Event(t)
           B == Elements(eventWork[t].events)
           r == Tail(eventWork[t].list)
           w == [eventWork[t] EXCEPT !.list = r]
<1>1. /\ EventsTyped /\ CallerInv /\ NumbersInv /\ EV!Entry(t) /\ Head(eventWork[t].list) = detector
      /\ UNCHANGED <<snapshot, bindMutex, times, owned, current, peak, counts, skewed, eventCalls>>
      /\ WorksOn(t, "call", w)
  <2>1. eventPc' = eventPc /\ eventPc[t] = "call"
    BY DEF EV!CallDetector, EV!Entry
  <2>2. eventPc' = [eventPc EXCEPT ![t] = "call"]
    BY <2>1 DEF EventsInv, EventsTyped
  <2>3. WorksOn(t, "call", w)
    BY <2>2 DEF EV!CallDetector, EV!Called, WorksOn
  <2> QED
    BY <2>3 DEF EventsInv, EV!CallDetector, EV!busVars
<1>2. /\ h = "Allocate" => live' = [live EXCEPT ![p] = n] /\ lost' = lost
      /\ h = "Deallocate" => live' = [live EXCEPT ![p] = None] /\ lost' = lost \cup ({live[p]} \ {None, n})
      /\ h \notin Asked => live' = live /\ lost' = lost
  <2>1. CASE h = "Allocate"
    BY <2>1 DEF EV!CallDetector, EV!Recorded, Asked
  <2>2. CASE h = "Deallocate"
    BY <2>2 DEF EV!CallDetector, Asked
  <2>3. CASE h \notin Asked
    BY <2>3 DEF EV!CallDetector, Asked
  <2> QED
    BY <2>1, <2>2, <2>3 DEF Asked
<1>3. /\ eventPc[t] = "call" /\ eventWork[t].events # <<>> /\ r \in Seq(EV!Observers)
      /\ h \in B /\ ToTell(t, detector) = B
      /\ \A o \in EV!Observers \ skewed : NotTwice(r, o)
  BY <1>1, EntryFacts
<1>4. /\ Asked \cap B # {} => p \in Addresses /\ n \in 1 .. eventCalls /\ n # 0 /\ n # None
      /\ "Allocate" \in B => "Deallocate" \notin B /\ owned[p] = n
      /\ "Deallocate" \in B => "Allocate" \notin B /\ \A q \in Addresses : owned[q] # n
  BY <1>1, EventOf
<1>5. /\ w \in WorkRecords /\ w.ptr = p /\ w.number = n /\ w.events = eventWork[t].events /\ w.list = r
  <2> HIDE DEF r
  <2> QED
    BY <1>1, <1>3, WorkFields, WorkChanges
<1> HIDE DEF w
<1>6. /\ ActsAlone(t) /\ eventPc'[t] = "call" /\ eventWork'[t] = w
      /\ eventPc' \in [Threads -> Announcing \cup {"idle", "publish"}] /\ eventWork' \in [Threads -> WorkRecords]
  BY <1>1, <1>5, MovesAlone DEF Announcing
<1>7. /\ \A x : x # detector => TellsSame(t, x)
      /\ detector \notin skewed => ToTell(t, detector)' = B \ {h}
  <2>1. /\ eventWork'[t].ptr = eventWork[t].ptr /\ eventWork'[t].number = eventWork[t].number
        /\ eventWork'[t].events = eventWork[t].events /\ eventWork'[t].list = Tail(eventWork[t].list)
    BY <1>5, <1>6
  <2>2. /\ \A x : x # detector => TellsSame(t, x)
        /\ detector \notin skewed => ToTell(t, detector)' = ToTell(t, detector) \ {EV!Event(t)}
    <3>1. EventsTyped /\ CallerInv /\ EV!Entry(t) /\ Head(eventWork[t].list) = detector
      BY <1>1
    <3>2. eventPc'[t] = "call" /\ eventWork'[t].list = Tail(eventWork[t].list)
      BY <1>6, <2>1
    <3> QED
      BY <2>1, <3>1, <3>2, EntryTold
  <2> QED
    BY <1>3, <2>2
<1>8. \A u \in Threads : u # t => /\ eventWork'[u] = eventWork[u] /\ GoesOn(u)
                                  /\ \A o : ToTell(u, o)' = ToTell(u, o) /\ TellsSame(u, o)
  BY <1>6, OthersTell DEF ActsAlone
<1>9. /\ eventWork'[t].ptr = p /\ eventWork'[t].number = n /\ eventWork'[t].events = eventWork[t].events
      /\ GoesOn(t)
  BY <1>5, <1>6 DEF GoesOn
<1> HIDE DEF p, n, h, B, r
<1>10. /\ live \in [Addresses -> Nat \cup {None}] /\ eventCalls \in Nat
       /\ \A q \in Addresses : live[q] # None => live[q] \in 1 .. eventCalls
       /\ lost \subseteq 1 .. eventCalls
  BY <1>1 DEF EventsTyped, NumbersInv
<1>11. /\ live' \in [Addresses -> Nat \cup {None}] /\ lost' \subseteq 1 .. eventCalls
       /\ \A q \in Addresses : live'[q] # None => live'[q] \in 1 .. eventCalls
  <2>1. CASE h = "Allocate"
    <3>1. n \in 1 .. eventCalls /\ n \in Nat
      BY <1>3, <1>4, <1>10, <2>1 DEF Asked
    <3> QED
      BY <1>2, <1>10, <2>1, <3>1
  <2>2. CASE h = "Deallocate"
    <3>1. p \in Addresses
      BY <1>3, <1>4, <2>2 DEF Asked
    <3> QED
      BY <1>2, <1>10, <2>2, <3>1
  <2>3. CASE h \notin Asked
    BY <1>2, <1>10, <2>3
  <2> QED
    BY <2>1, <2>2, <2>3 DEF Asked
<1>12. EventsTyped'
  BY <1>1, <1>6, <1>11 DEF EventsTyped
<1>13. ListInv'
  BY <1>1, <1>6, ListStays DEF ActsAlone, EventsInv
<1>14. CallerInv'
  <2>1. CallerAt(t)'
    <3>1. CallerAt(t)
      BY <1>1 DEF CallerInv, CallerAt
    <3> QED
      BY <1>1, <1>3, <1>5, <1>6, <3>1 DEF CallerAt, Announcing, Calling, p, n
  <2>2. skewed \subseteq skewed' /\ eventCalls' \in Nat /\ eventCalls <= eventCalls'
    BY <1>1, <1>10
  <2> QED
    BY <1>1, <1>6, <2>1, <2>2, CallersStay
<1>15. NumbersInv'
  <2>1. \A u \in Threads : GoesOn(u)
    BY <1>8, <1>9
  <2>2. owned' = owned /\ eventCalls' \in Nat /\ eventCalls <= eventCalls' /\ lost' \subseteq 1 .. eventCalls'
        /\ \A q \in Addresses : live'[q] # None => live'[q] \in 1 .. eventCalls'
    BY <1>1, <1>10, <1>11
  <2> QED
    BY <1>1, <2>1, <2>2, NumbersStay
<1>16. ASSUME statistics \notin skewed' PROVE EventBytesInv' /\ PeakInv' /\ TotalsInv'
  <2>1. EventBytesInv /\ PeakInv /\ TotalsInv
    BY <1>1, <1>16 DEF EventsInv
  <2>2. \A u \in Threads : TellsSame(u, statistics)
    BY <1>7, <1>8, EventParameters
  <2>3. PeakInv'
    BY <1>1, <1>3, <1>6, <2>1, PeakStays
  <2> QED
    BY <1>1, <2>1, <2>2, <2>3, StatisticsStay
<1>17. ASSUME detector \notin skewed' PROVE DetectorInv'
  <2>1. DetectorInv /\ ToTell(t, detector) = B /\ ToTell(t, detector)' = B \ {h}
    BY <1>1, <1>3, <1>7, <1>17 DEF EventsInv
  <2>2. CASE h \notin Asked
    <3>1. AskedSame(t, detector)
      BY <1>9, <2>1, <2>2 DEF AskedSame, Asked, p, n
    <3>2. \A u \in Threads : AskedSame(u, detector)
      BY <1>8, <3>1, TellsAsked
    <3> QED
      BY <1>1, <1>2, <2>1, <2>2, <3>2, DetectorStays
  <2>3. CASE h = "Allocate"
    <3>1. /\ p \in Addresses /\ n # 0 /\ n # None /\ "Allocate" \in B /\ "Deallocate" \notin B /\ owned[p] = n
          /\ live'[p] = n /\ lost' = lost /\ owned' = owned
          /\ \A q \in Addresses : q # p => live'[q] = live[q]
      BY <1>1, <1>2, <1>3, <1>4, <1>10, <2>3 DEF Asked
    <3>2. n \notin lost
      BY <2>1, <3>1 DEF DetectorInv, n
    <3>3. \A u \in Threads : u # t => eventWork[u].number # n
      BY <1>1, <3>1 DEF NumbersInv, n
    <3>4. ASSUME NEW q \in Addresses, Known(q, detector)'
          PROVE  live'[q] = IF owned'[q] \in lost' THEN None ELSE owned'[q]
      <4>1. CASE q = p
        BY <3>1, <3>2, <4>1
      <4>2. CASE q # p
        <5>1. Known(q, detector)
          BY <1>6, <1>9, <3>1, <3>4, <4>2, KnownElsewhere DEF p
        <5> QED
          BY <2>1, <3>1, <4>2, <5>1 DEF DetectorInv
      <4> QED
        BY <4>1, <4>2
    <3>5. ASSUME NEW q \in Addresses, live'[q] # None, live'[q] # owned'[q]
          PROVE  \E u \in Threads :
                   /\ eventWork'[u].ptr = q /\ eventWork'[u].number = live'[q]
                   /\ "Deallocate" \in ToTell(u, detector)'
      <4>1. q # p /\ live[q] # None /\ live[q] # owned[q]
        BY <3>1, <3>5
      <4>2. PICK u \in Threads :
              eventWork[u].ptr = q /\ eventWork[u].number = live[q] /\ "Deallocate" \in ToTell(u, detector)
        BY <2>1, <4>1 DEF DetectorInv
      <4>3. u # t
        BY <2>1, <3>1, <4>2
      <4> QED
        BY <1>8, <3>1, <4>1, <4>2, <4>3
    <3>6. ASSUME NEW u \in Threads, "Allocate" \in ToTell(u, detector)'
          PROVE  eventWork'[u].number \notin lost' /\ \A q \in Addresses : live'[q] # eventWork'[u].number
      <4>1. u # t
        BY <2>1, <2>3, <3>6
      <4>2. eventWork[u].number \notin lost /\ \A q \in Addresses : live[q] # eventWork[u].number
        BY <1>8, <2>1, <3>6, <4>1 DEF DetectorInv
      <4> QED
        BY <1>8, <3>1, <3>3, <4>1, <4>2
    <3> QED
      BY <3>4, <3>5, <3>6 DEF DetectorInv
  <2>4. CASE h = "Deallocate"
    <3>1. /\ p \in Addresses /\ n # 0 /\ n # None /\ "Deallocate" \in B /\ "Allocate" \notin B /\ owned' = owned
          /\ live'[p] = None /\ lost' = lost \cup ({live[p]} \ {None, n})
          /\ \A q \in Addresses : q # p => live'[q] = live[q]
          /\ \A q \in Addresses : owned[q] # n
      BY <1>1, <1>2, <1>3, <1>4, <1>10, <2>4 DEF Asked
    <3>2. ASSUME NEW q \in Addresses, q # p, owned[q] # None PROVE owned[q] # live[p]
      <4>1. CASE live[p] = owned[p]
        BY <1>1, <3>1, <3>2, <4>1 DEF NumbersInv
      <4>2. CASE live[p] = None
        BY <3>2, <4>2
      <4>3. CASE live[p] # None /\ live[p] # owned[p]
        <5>1. PICK u \in Threads : eventWork[u].ptr = p /\ eventWork[u].number = live[p]
          BY <2>1, <3>1, <4>3 DEF DetectorInv
        <5> QED
          BY <1>1, <3>2, <5>1 DEF NumbersInv
      <4> QED
        BY <4>1, <4>2, <4>3
    <3>3. ASSUME NEW q \in Addresses, Known(q, detector)'
          PROVE  live'[q] = IF owned'[q] \in lost' THEN None ELSE owned'[q]
      <4>1. Known(q, detector)
        BY <1>6, <1>9, <2>1, <3>1, <3>3, KnownElsewhere
      <4>2. live[q] = (IF owned[q] \in lost THEN None ELSE owned[q]) /\ owned[q] # None
        BY <2>1, <4>1 DEF DetectorInv, Known
      <4>3. CASE q = p
        <5>1. owned[p] \in lost'
          BY <3>1, <4>2, <4>3
        <5> QED
          BY <3>1, <4>3, <5>1
      <4>4. CASE q # p
        <5>1. owned[q] \in lost' <=> owned[q] \in lost
          BY <3>1, <3>2, <4>2, <4>4
        <5> QED
          BY <3>1, <4>2, <4>4, <5>1
      <4> QED
        BY <4>3, <4>4
    <3>4. ASSUME NEW q \in Addresses, live'[q] # None, live'[q] # owned'[q]
          PROVE  \E u \in Threads :
                   /\ eventWork'[u].ptr = q /\ eventWork'[u].number = live'[q]
                   /\ "Deallocate" \in ToTell(u, detector)'
      <4>1. q # p /\ live[q] # None /\ live[q] # owned[q]
        BY <3>1, <3>4
      <4>2. PICK u \in Threads :
              eventWork[u].ptr = q /\ eventWork[u].number = live[q] /\ "Deallocate" \in ToTell(u, detector)
        BY <2>1, <4>1 DEF DetectorInv
      <4>3. u # t
        BY <4>1, <4>2 DEF p
      <4> QED
        BY <1>8, <3>1, <4>1, <4>2, <4>3
    <3>5. ASSUME NEW u \in Threads, "Allocate" \in ToTell(u, detector)'
          PROVE  eventWork'[u].number \notin lost' /\ \A q \in Addresses : live'[q] # eventWork'[u].number
      <4>1. u # t
        BY <2>1, <3>1, <3>5
      <4>2. /\ eventWork[u].number \notin lost /\ \A q \in Addresses : live[q] # eventWork[u].number
            /\ eventWork[u].number # None
        BY <1>1, <1>8, <2>1, <3>5, <4>1, WorkFields, EventParameters DEF DetectorInv
      <4> QED
        BY <1>8, <3>1, <4>1, <4>2
    <3> QED
      BY <3>3, <3>4, <3>5 DEF DetectorInv
  <2> QED
    BY <2>2, <2>3, <2>4 DEF Asked
<1> QED
  BY <1>12, <1>13, <1>14, <1>15, <1>16, <1>17 DEF EventsInv

LEMMA RemainderIsSame == ASSUME NEW m \in Nat \ {0}, NEW x \in 0 .. m - 1 PROVE x % m = x
BY SmallStays

LEMMA RemainderIsNumber == ASSUME NEW m \in Nat \ {0}, NEW x \in Int PROVE x % m \in Int
BY SMT

(* What the statistics do with an event.                                   *)
LEMMA StatisticsTold ==
  ASSUME EventsInv, NEW t \in Threads, EV!CallStatistics(t)
  PROVE  /\ EventsTyped /\ CallerInv /\ NumbersInv /\ EV!Entry(t) /\ Head(eventWork[t].list) = statistics
         /\ UNCHANGED <<snapshot, bindMutex, times, owned, live, lost, peak, skewed, eventCalls>>
         /\ ActsAlone(t)
         /\ eventWork'[t].ptr = eventWork[t].ptr /\ eventWork'[t].number = eventWork[t].number
         /\ eventWork'[t].events = eventWork[t].events
         /\ \/ EV!Event(t) # "Allocate" /\ eventPc'[t] = "call" /\ eventWork'[t].list = Tail(eventWork[t].list)
            \/ EV!Event(t) = "Allocate" /\ eventPc'[t] = "load" /\ eventWork'[t].list = eventWork[t].list
         /\ eventPc' \in [Threads -> Announcing \cup {"idle", "publish"}] /\ eventWork' \in [Threads -> WorkRecords]
         /\ EV!Counts(t)
         /\ EV!Event(t) = "Allocate" => current' = (current + AskedSize[eventWork[t].ptr]) % ByteModulus
         /\ EV!Event(t) = "Deallocate" => current' = (current - AskedSize[eventWork[t].ptr]) % ByteModulus
         /\ EV!Event(t) \notin Asked => current' = current
<1> DEFINE r == Tail(eventWork[t].list)
           w == [eventWork[t] EXCEPT !.list = r]
<1>1. /\ EventsTyped /\ CallerInv /\ NumbersInv /\ EV!Entry(t) /\ Head(eventWork[t].list) = statistics
      /\ UNCHANGED <<snapshot, bindMutex, times, owned, live, lost, peak, skewed, eventCalls>>
      /\ EV!Counts(t)
  BY DEF EventsInv, EV!CallStatistics, EV!busVars
<1>2. /\ EV!Event(t) = "Allocate" => current' = (current + AskedSize[eventWork[t].ptr]) % ByteModulus
      /\ EV!Event(t) = "Deallocate" => current' = (current - AskedSize[eventWork[t].ptr]) % ByteModulus
      /\ EV!Event(t) \notin Asked => current' = current
  BY DEF EV!CallStatistics, Asked
<1>3. r \in Seq(EV!Observers) /\ eventPc[t] = "call"
  BY <1>1, EntryFacts
<1>4. /\ w \in WorkRecords /\ w.ptr = eventWork[t].ptr /\ w.number = eventWork[t].number
      /\ w.events = eventWork[t].events /\ w.list = r
  <2> HIDE DEF r
  <2> QED
    BY <1>1, <1>3, WorkFields, WorkChanges
<1>5. CASE EV!Event(t) = "Allocate"
  <2>1. WorksOn(t, "load", eventWork[t])
    <3>1. eventWork' = eventWork
      BY <1>5 DEF EV!CallStatistics
    <3>2. eventWork' = [eventWork EXCEPT ![t] = eventWork[t]]
      BY <1>1, <3>1 DEF EventsTyped
    <3> QED
      BY <1>5, <3>2 DEF EV!CallStatistics, EV!Goto, WorksOn
  <2>2. /\ ActsAlone(t) /\ eventPc'[t] = "load" /\ eventWork'[t] = eventWork[t]
        /\ eventPc' \in [Threads -> Announcing \cup {"idle", "publish"}] /\ eventWork' \in [Threads -> WorkRecords]
    BY <1>1, <2>1, MovesAlone, WorkFields DEF Announcing
  <2> QED
    BY <1>1, <1>2, <1>5, <2>2
<1>6. CASE EV!Event(t) # "Allocate"
  <2>1. WorksOn(t, "call", w)
    <3>1. eventPc' = eventPc
      BY <1>6 DEF EV!CallStatistics
    <3>2. eventPc' = [eventPc EXCEPT ![t] = "call"]
      BY <1>1, <1>3, <3>1 DEF EventsTyped
    <3> QED
      BY <1>6, <3>2 DEF EV!CallStatistics, EV!Called, WorksOn
  <2> HIDE DEF w
  <2>2. /\ ActsAlone(t) /\ eventPc'[t] = "call" /\ eventWork'[t] = w
        /\ eventPc' \in [Threads -> Announcing \cup {"idle", "publish"}] /\ eventWork' \in [Threads -> WorkRecords]
    BY <1>1, <1>4, <2>1, MovesAlone DEF Announcing
  <2> QED
    BY <1>1, <1>2, <1>4, <1>6, <2>2
<1> QED
  BY <1>5, <1>6

(* The bytes stay those of the blocks known and owed.                      *)
LEMMA BytesTold ==
  ASSUME EventsInv, NEW t \in Threads, EV!CallStatistics(t), statistics \notin skewed,
         EventsTyped', CallerInv'
  PROVE  EventBytesInv' /\ (EV!Event(t) = "Deallocate" => current' <= current)
<1> DEFINE p == eventWork[t].ptr
           n == eventWork[t].number
           h == EV!Event(t)
           B == Elements(eventWork[t].events)
           K == SumFunction(KnownBytes)
           O == SumFunction(OwedBytes)
<1>1. /\ EventsTyped /\ CallerInv /\ NumbersInv /\ EV!Entry(t) /\ Head(eventWork[t].list) = statistics
      /\ ActsAlone(t) /\ owned' = owned
      /\ eventWork'[t].ptr = p /\ eventWork'[t].number = n
      /\ h = "Allocate" => current' = (current + AskedSize[p]) % ByteModulus
      /\ h = "Deallocate" => current' = (current - AskedSize[p]) % ByteModulus
      /\ h \notin Asked => current' = current
  BY StatisticsTold
<1>2. EventBytesInv
  BY DEF EventsInv
<1>3. ToTell(t, statistics) = B /\ ToTell(t, statistics)' = B \ {h} /\ h \in B
  <2>1. ToTell(t, statistics) = B /\ h \in B
    BY <1>1, EntryFacts
  <2>2. \/ eventPc'[t] = "call" /\ eventWork'[t].list = Tail(eventWork[t].list)
        \/ eventPc'[t] = "load" /\ eventWork'[t].list = eventWork[t].list
    BY StatisticsTold
  <2>3. eventWork'[t].events = eventWork[t].events
    BY StatisticsTold
  <2>4. ToTell(t, statistics)' = ToTell(t, statistics) \ {EV!Event(t)}
    BY <1>1, <2>2, <2>3, EntryTold
  <2> QED
    BY <2>1, <2>4
<1>4. /\ Asked \cap B # {} => p \in Addresses /\ n # 0 /\ n # None
      /\ "Allocate" \in B => "Deallocate" \notin B /\ owned[p] = n
      /\ "Deallocate" \in B => "Allocate" \notin B /\ \A q \in Addresses : owned[q] # n
  BY <1>1, EventOf
<1>5. \A u \in Threads : u # t => /\ eventWork'[u] = eventWork[u]
                                  /\ \A o : ToTell(u, o)' = ToTell(u, o) /\ TellsSame(u, o)
  BY <1>1, OthersTell DEF ActsAlone
<1> HIDE DEF p, n, h, B
<1>6. /\ KnownBytes \in [Addresses -> Nat] /\ OwedBytes \in [Threads -> Nat]
      /\ KnownBytes \in [Addresses -> Int] /\ OwedBytes \in [Threads -> Int]
      /\ IsFiniteSet(Addresses) /\ IsFiniteSet(Threads)
      /\ \A q \in Addresses : AskedSize[q] \in Nat
      /\ ByteModulus \in Nat \ {0}
  BY <1>1, BytesTyped, EventParameters, ModulusPositive DEF BytesBounded
<1>7. /\ KnownBytes' \in [Addresses -> Nat] /\ OwedBytes' \in [Threads -> Nat]
      /\ KnownBytes' \in [Addresses -> Int] /\ OwedBytes' \in [Threads -> Int]
      /\ SumFunction(KnownBytes') + SumFunction(OwedBytes') \in 0 .. ByteModulus - 1
  <2>1. BytesBounded'
    BY BytesTypedNext
  <2>2. /\ KnownBytes' \in [Addresses -> Nat] /\ \A q \in Addresses : KnownBytes'[q] <= AskedSize[q]
        /\ OwedBytes' \in [Threads -> Nat]
        /\ \A u \in Threads : OwedBytes'[u] = 0 \/ \E q \in Addresses : OwedBytes'[u] = AskedSize[q]
    BY <2>1 DEF BytesBounded
  <2>3. SumFunction(KnownBytes') + SumFunction(OwedBytes') \in 0 .. ByteModulus - 1
    BY <2>2, BytesFit
  <2> QED
    BY <2>2, <2>3
<1>8. K \in Int /\ O \in Int /\ current = K + O
  <2>1. K \in Int
    BY <1>6, SumType
  <2>2. O \in Int
    BY <1>6, SumType
  <2> QED
    BY <1>2, <2>1, <2>2 DEF EventBytesInv
<1>9. ASSUME NEW q \in Addresses, eventWork[t].ptr = q => "Allocate" \notin B
      PROVE  Known(q, statistics)' <=> Known(q, statistics)
  BY <1>1, <1>3, <1>9, KnownElsewhere DEF p
<1>10. CASE h \notin Asked
  <2>1. AskedSame(t, statistics)
    BY <1>1, <1>3, <1>10 DEF AskedSame, p, n
  <2>2. \A u \in Threads : AskedSame(u, statistics)
    BY <1>5, <2>1, TellsAsked
  <2>3. EventBytesInv'
    BY <1>1, <1>2, <1>10, <2>2, BytesStay
  <2> QED
    BY <1>10, <2>3 DEF h, Asked
<1>11. CASE h = "Allocate"
  <2>1. p \in Addresses /\ owned[p] = n /\ n # 0 /\ n # None /\ "Deallocate" \notin B /\ "Allocate" \in B
    BY <1>3, <1>4, <1>11 DEF Asked
  <2>2. ~Known(p, statistics)
    BY <1>3, <2>1 DEF Known, p
  <2>3. ASSUME NEW q, q = p PROVE Known(q, statistics)'
    <3>1. ASSUME NEW u \in Threads, eventWork'[u].ptr = q, "Allocate" \in ToTell(u, statistics)' PROVE FALSE
      <4>1. u # t
        BY <1>3, <1>11, <3>1
      <4>2. eventWork[u].ptr = p /\ "Allocate" \in ToTell(u, statistics)
        BY <1>5, <2>3, <3>1, <4>1
      <4>3. "Allocate" \in Elements(eventWork[u].events)
        BY <1>1, <4>2, ToldOfWork
      <4>4. owned[p] = eventWork[u].number
        BY <1>1, <4>2, <4>3 DEF NumbersInv
      <4>5. eventWork[u].number = eventWork[t].number /\ eventWork[t].number # 0
        BY <2>1, <4>2, <4>4 DEF n
      <4>6. eventWork[t].number # 0 /\ eventWork[t].number = eventWork[u].number => t = u
        BY <1>1 DEF NumbersInv
      <4> QED
        BY <4>1, <4>5, <4>6
    <3>2. owned'[q] # None
      BY <1>1, <2>1, <2>3
    <3>3. \A u \in Threads : eventWork'[u].ptr = q => "Allocate" \notin ToTell(u, statistics)'
      BY <3>1
    <3> QED
      BY <3>2, <3>3 DEF Known
  <2>4. /\ KnownBytes[p] = 0 /\ KnownBytes'[p] = AskedSize[p]
        /\ \A q \in Addresses \ {p} : KnownBytes'[q] = KnownBytes[q]
    <3>1. KnownBytes[p] = 0 /\ KnownBytes'[p] = AskedSize[p]
      BY <2>1, <2>2, <2>3 DEF KnownBytes
    <3>2. \A q \in Addresses \ {p} : Known(q, statistics)' <=> Known(q, statistics)
      BY <1>9 DEF p
    <3> QED
      BY <3>1, <3>2 DEF KnownBytes
  <2>5. OwedBytes' = OwedBytes
    BY <1>3, <1>5, <1>11, <2>1 DEF OwedBytes
  <2>6. SumFunction(KnownBytes') = K + (KnownBytes'[p] - KnownBytes[p])
    BY <1>6, <1>7, <2>1, <2>4, SumOfChanged
  <2>7. AskedSize[p] \in Int
    BY <1>6, <2>1
  <2> DEFINE S == SumFunction(KnownBytes') + SumFunction(OwedBytes')
  <2>8. S = current + AskedSize[p]
    <3>1. S = SumFunction(KnownBytes') + O
      BY <2>5
    <3> HIDE DEF S, K, O
    <3> QED
      BY <1>8, <2>4, <2>6, <2>7, <3>1
  <2>9. S \in 0 .. ByteModulus - 1
    BY <1>7
  <2> HIDE DEF S
  <2>10. S % ByteModulus = S
    BY <1>6, <2>9, RemainderIsSame
  <2>11. current' = S
    BY <1>1, <1>11, <2>8, <2>10
  <2>12. EventBytesInv'
    BY <2>11 DEF EventBytesInv, S
  <2> QED
    BY <1>11, <2>12 DEF h
<1>12. CASE h = "Deallocate"
  <2>1. p \in Addresses /\ "Deallocate" \in B /\ "Allocate" \notin B
    BY <1>3, <1>4, <1>12 DEF Asked
  <2>2. KnownBytes' = KnownBytes
    BY <1>9, <2>1 DEF KnownBytes
  <2>3. /\ OwedBytes[t] = AskedSize[p] /\ OwedBytes'[t] = 0
        /\ \A u \in Threads \ {t} : OwedBytes'[u] = OwedBytes[u]
    BY <1>3, <1>5, <1>12, <2>1 DEF OwedBytes, p
  <2>4. SumFunction(OwedBytes') = O + (OwedBytes'[t] - OwedBytes[t])
    BY <1>6, <1>7, <2>3, SumOfChanged
  <2>5. AskedSize[p] \in Nat
    BY <1>6, <2>1
  <2> DEFINE S == SumFunction(KnownBytes') + SumFunction(OwedBytes')
  <2>6. S = current - AskedSize[p]
    <3>1. S = K + SumFunction(OwedBytes')
      BY <2>2
    <3> HIDE DEF S, K, O
    <3> QED
      BY <1>8, <2>3, <2>4, <2>5, <3>1
  <2>7. S \in 0 .. ByteModulus - 1
    BY <1>7
  <2> HIDE DEF S
  <2>8. S % ByteModulus = S
    BY <1>6, <2>7, RemainderIsSame
  <2>9. current' = S
    BY <1>1, <1>12, <2>6, <2>8
  <2>10. EventBytesInv'
    BY <2>9 DEF EventBytesInv, S
  <2>11. current' <= current
    <3>1. current \in Int
      BY <1>1 DEF EventsTyped
    <3> QED
      BY <2>5, <2>6, <2>9, <3>1
  <2> QED
    BY <2>10, <2>11
<1> QED
  BY <1>10, <1>11, <1>12 DEF Asked

(* A counter is raised by what was left to count.                          *)
LEMMA CountsTold ==
  ASSUME EventsInv, NEW t \in Threads, EV!CallStatistics(t), statistics \notin skewed
  PROVE  TotalsInv'
<1> DEFINE p == eventWork[t].ptr
           h == EV!Event(t)
           B == Elements(eventWork[t].events)
           os == CASE h = "Allocate" -> {"OsAllocate"} [] h = "Deallocate" -> {"OsRelease"} [] OTHER -> {}
           which == {h} \cup IF p \in OsPointers THEN os ELSE {}
<1>1. /\ EventsTyped /\ CallerInv /\ EV!Entry(t) /\ Head(eventWork[t].list) = statistics
      /\ ActsAlone(t) /\ owned' = owned /\ eventWork'[t].ptr = p
      /\ counts' = [e \in EV!Counted |-> counts[e] + IF e \in which THEN 1 ELSE 0]
  BY StatisticsTold DEF EV!Counts
<1>2. TotalsInv
  BY DEF EventsInv
<1>3. ToTell(t, statistics) = B /\ ToTell(t, statistics)' = B \ {h} /\ h \in B
  <2>1. ToTell(t, statistics) = B /\ h \in B
    BY <1>1, EntryFacts
  <2>2. /\ \/ eventPc'[t] = "call" /\ eventWork'[t].list = Tail(eventWork[t].list)
           \/ eventPc'[t] = "load" /\ eventWork'[t].list = eventWork[t].list
        /\ eventWork'[t].events = eventWork[t].events /\ eventWork'[t].number = eventWork[t].number
    BY StatisticsTold
  <2>3. ToTell(t, statistics)' = ToTell(t, statistics) \ {EV!Event(t)}
    BY <1>1, <2>2, EntryTold
  <2> QED
    BY <2>1, <2>3
<1>4. "OsAllocate" \notin B /\ "OsRelease" \notin B
  <2>1. eventWork[t].events \in Seq(EventNames)
    BY <1>1, WorkFields
  <2>2. B \subseteq EventNames
    BY <2>1 DEF Elements
  <2> QED
    BY <2>2 DEF EventNames
<1>5. Related \subseteq EV!Counted
  BY DEF Related, EV!Counted
<1> HIDE DEF h, B, p
<1>6. \A e : e \in which <=> \/ e = h
                             \/ p \in OsPointers /\ h = "Allocate" /\ e = "OsAllocate"
                             \/ p \in OsPointers /\ h = "Deallocate" /\ e = "OsRelease"
  BY Zenon
<1> HIDE DEF which
<1>7. ASSUME NEW e \in Related
      PROVE  /\ e \in which => e \in ToCount(t) /\ e \notin ToCount(t)'
             /\ e \notin which => (e \in ToCount(t)' <=> e \in ToCount(t))
  <2>1. \A x : x \in ToCount(t) <=> \/ x \in B
                                    \/ p \in OsPointers /\ x = "OsAllocate" /\ "Allocate" \in B
                                    \/ p \in OsPointers /\ x = "OsRelease" /\ "Deallocate" \in B
    BY <1>3 DEF ToCount, p
  <2>2. \A x : x \in ToCount(t)' <=> \/ x \in B \ {h}
                                     \/ p \in OsPointers /\ x = "OsAllocate" /\ "Allocate" \in B \ {h}
                                     \/ p \in OsPointers /\ x = "OsRelease" /\ "Deallocate" \in B \ {h}
    BY <1>1, <1>3 DEF ToCount
  <2> QED
    BY <1>3, <1>4, <1>6, <2>1, <2>2
<1>8. ASSUME NEW e \in Related PROVE Total(e)' = Total(e)
  <2>1. counts[e] \in Int /\ counts'[e] = counts[e] + IF e \in which THEN 1 ELSE 0
    BY <1>1, <1>5, RelatedCounted
  <2>2. /\ Total(e) \in Int
        /\ Total(e)' = Total(e) + (counts'[e] - counts[e])
                         + ((IF e \in ToCount(t)' THEN 1 ELSE 0) - (IF e \in ToCount(t) THEN 1 ELSE 0))
    <3>1. counts'[e] \in Int
      BY <2>1
    <3> QED
      BY <1>1, <2>1, <3>1, TotalMoves
  <2>3. CASE e \in which
    <3>1. e \in ToCount(t) /\ e \notin ToCount(t)'
      BY <1>7, <2>3
    <3> QED
      BY <2>1, <2>2, <2>3, <3>1
  <2>4. CASE e \notin which
    <3>1. e \in ToCount(t)' <=> e \in ToCount(t)
      BY <1>7, <2>4
    <3> QED
      BY <2>1, <2>2, <2>4, <3>1
  <2> QED
    BY <2>3, <2>4
<1>9. Owned' = Owned
  BY <1>1 DEF Owned
<1> QED
  BY <1>2, <1>8, <1>9 DEF TotalsInv, Related

LEMMA CallStatisticsKeeps == ASSUME EventsInv, NEW t \in Threads, EV!CallStatistics(t) PROVE EventsInv'
<1>1. /\ EventsTyped /\ CallerInv /\ NumbersInv /\ EV!Entry(t) /\ Head(eventWork[t].list) = statistics
      /\ UNCHANGED <<snapshot, bindMutex, times, owned, live, lost, peak, skewed, eventCalls>>
      /\ ActsAlone(t)
      /\ eventWork'[t].ptr = eventWork[t].ptr /\ eventWork'[t].number = eventWork[t].number
      /\ eventWork'[t].events = eventWork[t].events
      /\ \/ EV!Event(t) # "Allocate" /\ eventPc'[t] = "call" /\ eventWork'[t].list = Tail(eventWork[t].list)
         \/ EV!Event(t) = "Allocate" /\ eventPc'[t] = "load" /\ eventWork'[t].list = eventWork[t].list
      /\ eventPc' \in [Threads -> Announcing \cup {"idle", "publish"}] /\ eventWork' \in [Threads -> WorkRecords]
  BY StatisticsTold
<1>2. /\ eventPc[t] = "call" /\ eventWork[t].events # <<>> /\ eventWork[t].list # <<>>
      /\ \A o \in EV!Observers \ skewed : NotTwice(Tail(eventWork[t].list), o)
      /\ EV!Event(t) \in Elements(eventWork[t].events)
  BY <1>1, EntryFacts
<1>3. counts' \in [EV!Counted -> Int] /\ current' \in Int
  <2>1. counts' \in [EV!Counted -> Int]
    <3> DEFINE os == CASE EV!Event(t) = "Allocate" -> {"OsAllocate"} [] EV!Event(t) = "Deallocate" -> {"OsRelease"} [] OTHER -> {}
               which == {EV!Event(t)} \cup IF eventWork[t].ptr \in OsPointers THEN os ELSE {}
    <3>1. counts' = [e \in EV!Counted |-> counts[e] + IF e \in which THEN 1 ELSE 0]
      BY StatisticsTold DEF EV!Counts
    <3>2. counts \in [EV!Counted -> Int]
      BY <1>1 DEF EventsTyped
    <3> HIDE DEF which
    <3> QED
      BY <3>1, <3>2
  <2>2. current' \in Int
    <3>1. current \in Int /\ ByteModulus \in Nat \ {0}
      BY <1>1, ModulusPositive DEF EventsTyped
    <3>2. CASE EV!Event(t) \in Asked
      <4> DEFINE size == AskedSize[eventWork[t].ptr]
      <4>1. eventWork[t].ptr \in Addresses
        BY <1>1, <1>2, <3>2, EventOf
      <4>2. size \in Int
        BY <4>1, EventParameters
      <4>3. current' = (current + size) % ByteModulus \/ current' = (current - size) % ByteModulus
        BY <3>2, StatisticsTold DEF Asked
      <4> HIDE DEF size
      <4>4. current + size \in Int /\ current - size \in Int
        BY <3>1, <4>2
      <4>5. (current + size) % ByteModulus \in Int
        BY <3>1, <4>4, RemainderIsNumber
      <4>6. (current - size) % ByteModulus \in Int
        BY <3>1, <4>4, RemainderIsNumber
      <4> QED
        BY <4>3, <4>5, <4>6
    <3>3. CASE EV!Event(t) \notin Asked
      BY <3>1, <3>3, StatisticsTold
    <3> QED
      BY <3>2, <3>3
  <2> QED
    BY <2>1, <2>2
<1>4. EventsTyped' /\ eventCalls' \in Nat /\ eventCalls <= eventCalls'
  BY <1>1, <1>3 DEF EventsTyped
<1>5. ListInv'
  BY <1>1, ListStays DEF ActsAlone, EventsInv
<1>6. CallerInv'
  <2>1. CallerAt(t)'
    <3>1. CallerAt(t)
      BY <1>1 DEF CallerInv
    <3> QED
      BY <1>1, <1>2, <3>1 DEF CallerAt, Announcing, Calling
  <2>2. skewed \subseteq skewed'
    BY <1>1
  <2> QED
    BY <1>1, <1>4, <2>1, <2>2, CallersStay
<1>7. \A u \in Threads : u # t => GoesOn(u) /\ \A o : TellsSame(u, o)
  BY <1>1, OthersTell DEF ActsAlone
<1>8. NumbersInv'
  <2>1. \A u \in Threads : GoesOn(u)
    BY <1>1, <1>7 DEF GoesOn
  <2>2. lost' \subseteq 1 .. eventCalls' /\ \A q \in Addresses : live'[q] # None => live'[q] \in 1 .. eventCalls'
    BY <1>1 DEF NumbersInv
  <2>3. owned' = owned
    BY <1>1
  <2> QED
    BY <1>1, <1>4, <2>1, <2>2, <2>3, NumbersStay
<1>9. ASSUME detector \notin skewed' PROVE DetectorInv'
  <2>1. DetectorInv
    BY <1>1, <1>9 DEF EventsInv
  <2>2. TellsSame(t, detector)
    <3>1. detector # statistics
      BY EventParameters
    <3> QED
      BY <1>1, <3>1, EntryTold
  <2>3. \A u \in Threads : AskedSame(u, detector)
    BY <1>7, <2>2, TellsAsked
  <2> QED
    BY <1>1, <2>1, <2>3, DetectorStays
<1>10. ASSUME statistics \notin skewed' PROVE EventBytesInv' /\ PeakInv' /\ TotalsInv'
  <2>1. PeakInv /\ statistics \notin skewed
    BY <1>1, <1>10 DEF EventsInv
  <2>2. EventBytesInv' /\ (EV!Event(t) = "Deallocate" => current' <= current)
    BY <1>4, <1>6, <2>1, BytesTold
  <2>3. TotalsInv'
    BY <2>1, CountsTold
  <2>4. PeakInv'
    <3>1. CASE EV!Event(t) = "Allocate"
      <4>1. eventPc'[t] = "load"
        BY <1>1, <3>1
      <4> QED
        BY <4>1 DEF PeakInv
    <3>2. CASE EV!Event(t) # "Allocate"
      <4>1. current' <= current /\ current \in Int /\ current' \in Int /\ peak \in Int /\ peak' = peak
        <5>1. EV!Event(t) \notin Asked => current' = current
          BY StatisticsTold
        <5> QED
          BY <1>1, <1>3, <2>2, <3>2, <5>1 DEF EventsTyped, Asked
      <4>2. CASE peak >= current
        <5>1. peak' >= current'
          BY <4>1, <4>2
        <5> QED
          BY <5>1 DEF PeakInv
      <4>3. ASSUME NEW u \in Threads, eventPc[u] = "load" \/ (eventPc[u] = "raise" /\ eventWork[u].seen >= current)
            PROVE  PeakInv'
        <5>1. u # t
          BY <1>2, <4>3
        <5>2. eventPc'[u] = eventPc[u] /\ eventWork'[u] = eventWork[u]
          BY <1>1, <5>1 DEF ActsAlone
        <5>3. eventWork[u].seen \in Int
          BY <1>1, WorkFields
        <5>4. eventWork[u].seen >= current => eventWork'[u].seen >= current'
          BY <4>1, <5>2, <5>3
        <5> QED
          BY <4>3, <5>2, <5>4 DEF PeakInv
      <4> QED
        BY <2>1, <4>2, <4>3 DEF PeakInv
    <3> QED
      BY <3>1, <3>2
  <2> QED
    BY <2>2, <2>3, <2>4
<1> QED
  BY <1>4, <1>5, <1>6, <1>8, <1>9, <1>10 DEF EventsInv

LEMMA EventsInvKept == ASSUME EventsInv, EV!Next PROVE EventsInv'
<1>1. ASSUME NEW t \in Threads, EV!Mutate(t) \/ EV!Allocate(t) \/ EV!Deallocate(t) \/ EV!Report(t)
      PROVE  EventsInv'
  BY <1>1, MutateKeeps, EventAllocateKeeps, EventDeallocateKeeps, ReportKeeps
<1>2. ASSUME NEW t \in Threads, EV!Step(t) PROVE EventsInv'
  BY <1>2, PublishListKeeps, NotifyKeeps, EmitKeeps, NextEventKeeps, CallDetectorKeeps, CallStatisticsKeeps,
     LoadCurrentKeeps, RaisePeakKeeps DEF EV!Step
<1>3. CASE EV!Rest
  BY <1>3, EventsRestKeeps DEF EV!Rest
<1> QED
  BY <1>1, <1>2, <1>3 DEF EV!Next

-----------------------------------------------------------------------------
(* The event bus and its two observers (MemoryEventBus,                    *)
(* MemoryLeakDetectorObserver, MemoryStatisticsObserver): for any number of*)
(* threads, allocations and sizes that fit the counter, no binding is lost;*)
(* an observer that was told of each event once agrees with the blocks in  *)
(* use, except for the records that a belated release has erased; and the  *)
(* counters and the peak add up, in whatever order the calls of threads    *)
(* announce what they have done.                                           *)
THEOREM ObserversAreExact == Spec => []ObserversExact
<1>1. Init => EventsInv
  BY EventsInvAtStart DEF Init
<1>2. EventsInv /\ [Next]_vars => EventsInv'
  <2> SUFFICES ASSUME EventsInv, [Next]_vars PROVE EventsInv'
    OBVIOUS
  <2>1. CASE EV!Next
    BY <2>1, EventsInvKept
  <2>2. CASE UNCHANGED events
    <3>1. UNCHANGED EV!vars
      BY <2>2 DEF events, EV!vars, EV!busVars, EV!seenVars
    <3> QED
      BY <3>1, EventsRestKeeps
  <2> QED
    BY <2>1, <2>2 DEF Next, vars
<1>3. EventsInv => ObserversExact
  BY InvImpliesEventsExact DEF ObserversExact
<1> QED
  BY <1>1, <1>2, <1>3, PTL DEF Spec

=============================================================================
