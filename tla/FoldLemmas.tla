----------------------------- MODULE FoldLemmas -----------------------------
(***************************************************************************)
(* What the proofs need of the recursive functions that the modules use:   *)
(* sums over a finite set (SumFunction) and the steps of a loop            *)
(* (ForEachClass and InBatches of ThreadCache, the lists of                *)
(* MulticastDelegate).  A recursive function is the choice of one that     *)
(* satisfies its equation, so a lemma first shows that there is one;       *)
(* induction is by sets of numbers, which the provers can instantiate,     *)
(* rather than by predicates.                                              *)
(***************************************************************************)
EXTENDS Integers, FiniteSets, Functions, FiniteSetTheorems, WellFoundedInduction, TLAPS

-----------------------------------------------------------------------------
(* Induction *)

(* A set of numbers with 0 and with the successor of each has them all.    *)
LEMMA NumbersByInduction ==
  ASSUME NEW S, 0 \in S, \A n \in Nat : n \in S => n + 1 \in S
  PROVE  Nat \subseteq S
<1> DEFINE T == Nat \ S
<1> SUFFICES ASSUME T # {} PROVE FALSE
  OBVIOUS
<1>1. T \subseteq Nat
  OBVIOUS
<1>2. PICK n \in T : \A m \in T : <<m, n>> \notin OpToRel(<, Nat)
  <2> HIDE DEF T
  <2> QED
    BY <1>1, NatLessThanWellFounded, WFMin, Zenon
<1>3. n \in Nat /\ n # 0 /\ n - 1 \in Nat
  OBVIOUS
<1>4. n - 1 \notin T
  <2>1. <<n - 1, n>> \in OpToRel(<, Nat)
    BY <1>3 DEF OpToRel
  <2> QED
    BY <2>1, <1>2
<1>5. n - 1 \in S /\ (n - 1) + 1 = n
  BY <1>3, <1>4
<1> QED
  BY <1>3, <1>5

(* A set of numbers that is not empty has a least one.                     *)
LEMMA LeastNumber ==
  ASSUME NEW S \in SUBSET Nat, S # {}
  PROVE  \E n \in S : \A m \in S : n <= m
<1>1. PICK n \in S : \A m \in S : <<m, n>> \notin OpToRel(<, Nat)
  BY NatLessThanWellFounded, WFMin, Zenon
<1>2. ASSUME NEW m \in S, ~ (n <= m) PROVE FALSE
  <2>1. <<m, n>> \in OpToRel(<, Nat)
    BY <1>2 DEF OpToRel
  <2> QED
    BY <2>1, <1>1
<1> QED
  BY <1>2

-----------------------------------------------------------------------------
(* Loops *)

(* d[n] is the state after n steps of G from k0.                           *)
IsLoop(d, k0, G, N) ==
  d = [n \in 0 .. N |-> IF n = 0 THEN k0 ELSE G[<<d[n - 1], n - 1>>]]

(* A function that is computed from its value one step before exists.      *)
LEMMA LoopExists ==
  ASSUME NEW K, NEW k0 \in K, NEW G \in [K \X Nat -> K], NEW N \in Nat
  PROVE  \E d \in [0 .. N -> K] : IsLoop(d, k0, G, N)
<1> DEFINE Step(d, n) == IF n = 0 THEN k0 ELSE G[<<d[n - 1], n - 1>>]
           Loops(d, m) == \A n \in 0 .. m : d[n] = Step(d, n)
           S == {m \in Nat : \E d \in [0 .. m -> K] : Loops(d, m)}
<1>1. 0 \in S
  <2>1. [n \in 0 .. 0 |-> k0] \in [0 .. 0 -> K]
    OBVIOUS
  <2>2. Loops([n \in 0 .. 0 |-> k0], 0)
    OBVIOUS
  <2> QED
    BY <2>1, <2>2
<1>2. \A m \in Nat : m \in S => m + 1 \in S
  <2> SUFFICES ASSUME NEW m \in Nat, m \in S PROVE m + 1 \in S
    OBVIOUS
  <2>1. PICK d \in [0 .. m -> K] : Loops(d, m)
    OBVIOUS
  <2> DEFINE e == [n \in 0 .. m + 1 |-> IF n <= m THEN d[n] ELSE G[<<d[m], m>>]]
  <2>2. e \in [0 .. m + 1 -> K]
    OBVIOUS
  <2>3. \A n \in 0 .. m : e[n] = d[n]
    OBVIOUS
  <2>4. e[m + 1] = G[<<d[m], m>>]
    OBVIOUS
  <2> HIDE DEF e
  <2>5. ASSUME NEW n \in 0 .. m + 1 PROVE e[n] = Step(e, n)
    <3>1. CASE n = m + 1
      <4>1. n # 0 /\ n - 1 = m /\ e[n - 1] = d[m]
        BY <3>1, <2>3
      <4> QED
        BY <4>1, <3>1, <2>4
    <3>2. CASE n \in 0 .. m /\ n = 0
      BY <3>2, <2>1, <2>3
    <3>3. CASE n \in 0 .. m /\ n # 0
      <4>1. n - 1 \in 0 .. m
        BY <3>3
      <4>2. e[n - 1] = d[n - 1] /\ e[n] = d[n]
        BY <4>1, <3>3, <2>3
      <4> QED
        BY <4>2, <3>3, <2>1
    <3> QED
      BY <3>1, <3>2, <3>3
  <2>6. Loops(e, m + 1)
    BY <2>5
  <2>7. \E d1 \in [0 .. m + 1 -> K] : Loops(d1, m + 1)
    <3> HIDE DEF Loops
    <3> QED
      BY <2>2, <2>6
  <2> HIDE DEF Loops
  <2> QED
    BY <2>7
<1>3. Nat \subseteq S
  <2> HIDE DEF S
  <2> QED
    BY <1>1, <1>2, NumbersByInduction
<1>4. PICK d \in [0 .. N -> K] : Loops(d, N)
  BY <1>3
<1>5. d = [n \in 0 .. N |-> Step(d, n)]
  BY <1>4
<1>6. IsLoop(d, k0, G, N)
  BY <1>5 DEF IsLoop
<1> QED
  BY <1>6

(* What holds at the start of a loop and is kept by each step of it holds  *)
(* all along.                                                              *)
LEMMA LoopInvariant ==
  ASSUME NEW N \in Nat, NEW I, 0 \in I, \A n \in 0 .. N : n # N /\ n \in I => n + 1 \in I
  PROVE  0 .. N \subseteq I
<1> DEFINE S == {n \in Nat : n <= N => n \in I}
<1>1. 0 \in S
  OBVIOUS
<1>2. \A n \in Nat : n \in S => n + 1 \in S
  OBVIOUS
<1>3. Nat \subseteq S
  <2> HIDE DEF S
  <2> QED
    BY <1>1, <1>2, NumbersByInduction
<1> QED
  BY <1>3

-----------------------------------------------------------------------------
(* Sums *)

Chosen(s) == CHOOSE x \in s : TRUE

(* The sums over all subsets, as the fold computes them.                   *)
PartialSums(f) ==
  CHOOSE g : g = [s \in SUBSET DOMAIN f |-> IF s = {} THEN 0 ELSE f[Chosen(s)] + g[s \ {Chosen(s)}]]

(* SumFunction is the last of them.                                        *)
LEMMA SumIsLast == ASSUME NEW f PROVE SumFunction(f) = PartialSums(f)[DOMAIN f]
  BY DEF SumFunction, SumFunctionOnSet, FoldFunctionOnSet, MapThenFoldSet, PartialSums, Chosen


LEMMA ChosenIn == ASSUME NEW s, s # {} PROVE Chosen(s) \in s
  BY DEF Chosen

(* All subsets of a finite set are reached from the empty one by adding    *)
(* the element that a sum takes first.                                     *)
LEMMA SubsetsByInduction ==
  ASSUME NEW D, IsFiniteSet(D), NEW T, {} \in T,
         \A s \in SUBSET D : s # {} /\ s \ {Chosen(s)} \in T => s \in T
  PROVE  SUBSET D \subseteq T
<1> DEFINE N == {n \in Nat : \A s \in SUBSET D : Cardinality(s) <= n => s \in T}
<1>1. \A s \in SUBSET D : IsFiniteSet(s) /\ Cardinality(s) \in Nat
  BY FS_Subset, FS_CardinalityType
<1>2. 0 \in N
  BY <1>1, FS_EmptySet
<1>3. \A n \in Nat : n \in N => n + 1 \in N
  <2> SUFFICES ASSUME NEW n \in Nat, n \in N,
                      NEW s \in SUBSET D, Cardinality(s) <= n + 1, s # {}
               PROVE  s \in T
    OBVIOUS
  <2>1. Cardinality(s \ {Chosen(s)}) = Cardinality(s) - 1
    BY <1>1, ChosenIn, FS_RemoveElement
  <2>2. s \ {Chosen(s)} \in T
    BY <2>1, <1>1
  <2> QED
    BY <2>2
<1>4. Nat \subseteq N
  <2> HIDE DEF N
  <2> QED
    BY <1>2, <1>3, NumbersByInduction
<1> QED
  BY <1>1, <1>4

(* p[s] is the sum of f over s, for every subset s of its domain D.        *)
AreSums(p, f, D) ==
  /\ p \in [SUBSET D -> Int]
  /\ p[{}] = 0
  /\ \A s \in SUBSET D : s # {} => p[s] = f[Chosen(s)] + p[s \ {Chosen(s)}]

(* The partial sums of a function on a finite set are these sums.          *)
LEMMA PartialSumsExact ==
  ASSUME NEW D, IsFiniteSet(D), NEW f \in [D -> Int]
  PROVE  AreSums(PartialSums(f), f, D)
<1> DEFINE Step(g, s) == IF s = {} THEN 0 ELSE f[Chosen(s)] + g[s \ {Chosen(s)}]
           Small(n) == {s \in SUBSET D : Cardinality(s) <= n}
           Sums(g, n) == \A s \in Small(n) : g[s] = Step(g, s)
           S == {n \in Nat : \E g \in [Small(n) -> Int] : Sums(g, n)}
<1>1. \A s \in SUBSET D : IsFiniteSet(s) /\ Cardinality(s) \in Nat
  BY FS_Subset, FS_CardinalityType
<1>2. \A s \in SUBSET D : s # {} =>
        /\ Chosen(s) \in D
        /\ s \ {Chosen(s)} \in SUBSET D
        /\ Cardinality(s \ {Chosen(s)}) = Cardinality(s) - 1
        /\ f[Chosen(s)] \in Int
  BY <1>1, ChosenIn, FS_RemoveElement
<1>3. 0 \in S
  <2>1. \A s \in Small(0) : s = {}
    BY <1>1, FS_EmptySet
  <2> DEFINE g == [s \in Small(0) |-> 0]
  <2>2. g \in [Small(0) -> Int] /\ Sums(g, 0)
    BY <2>1
  <2> QED
    BY <2>2
<1>4. \A n \in Nat : n \in S => n + 1 \in S
  <2> SUFFICES ASSUME NEW n \in Nat, n \in S PROVE n + 1 \in S
    OBVIOUS
  <2>1. PICK g \in [Small(n) -> Int] : Sums(g, n)
    OBVIOUS
  <2>2. \A s \in Small(n + 1) : s # {} => s \ {Chosen(s)} \in Small(n)
    BY <1>1, <1>2
  <2> DEFINE h == [s \in Small(n + 1) |-> Step(g, s)]
  <2>3. h \in [Small(n + 1) -> Int]
    <3>1. ASSUME NEW s \in Small(n + 1) PROVE Step(g, s) \in Int
      <4>1. CASE s = {}
        BY <4>1
      <4>2. CASE s # {}
        <5>1. g[s \ {Chosen(s)}] \in Int
          BY <4>2, <2>2
        <5> QED
          BY <5>1, <4>2, <1>2
      <4> QED
        BY <4>1, <4>2
    <3> QED
      BY <3>1
  <2>4. \A s \in Small(n) : s \in Small(n + 1) /\ h[s] = g[s]
    <3> SUFFICES ASSUME NEW s \in Small(n) PROVE s \in Small(n + 1) /\ h[s] = g[s]
      OBVIOUS
    <3>1. s \in Small(n + 1)
      BY <1>1
    <3> QED
      BY <3>1, <2>1
  <2>5. ASSUME NEW s \in Small(n + 1) PROVE h[s] = Step(h, s)
    <3>1. CASE s = {}
      BY <3>1
    <3>2. CASE s # {}
      <4>1. h[s \ {Chosen(s)}] = g[s \ {Chosen(s)}]
        BY <3>2, <2>2, <2>4
      <4>2. h[s] = f[Chosen(s)] + g[s \ {Chosen(s)}]
        BY <3>2
      <4> QED
        BY <4>1, <4>2, <3>2
    <3> QED
      BY <3>1, <3>2
  <2>6. Sums(h, n + 1)
    <3> HIDE DEF h, Step
    <3> QED
      BY <2>5
  <2>7. \E g1 \in [Small(n + 1) -> Int] : Sums(g1, n + 1)
    <3> HIDE DEF h, Step, Small
    <3> QED
      BY <2>3, <2>6
  <2> HIDE DEF Sums, Small
  <2> QED
    BY <2>7
<1>5. Nat \subseteq S
  <2> HIDE DEF S
  <2> QED
    BY <1>3, <1>4, NumbersByInduction
<1>6. \E g : g = [s \in SUBSET D |-> Step(g, s)]
  <2>1. Cardinality(D) \in Nat /\ Small(Cardinality(D)) = SUBSET D
    BY FS_Subset, FS_CardinalityType
  <2>2. PICK g \in [SUBSET D -> Int] : \A s \in SUBSET D : g[s] = Step(g, s)
    BY <2>1, <1>5, ZenonT(40)
  <2>3. g = [s \in SUBSET D |-> Step(g, s)]
    BY <2>2
  <2> QED
    BY <2>3
<1> DEFINE p == PartialSums(f)
<1>7. p = [s \in SUBSET D |-> Step(p, s)]
  <2>1. DOMAIN f = D
    OBVIOUS
  <2> QED
    BY <2>1, <1>6 DEF PartialSums
<1> HIDE DEF p
<1>8. \A s \in SUBSET D : p[s] = Step(p, s)
  BY <1>7
<1>9. p \in [SUBSET D -> Int]
  <2> DEFINE T == {s \in SUBSET D : p[s] \in Int}
  <2>1. {} \in T
    BY <1>8
  <2>2. ASSUME NEW s \in SUBSET D, s # {}, s \ {Chosen(s)} \in T PROVE s \in T
    <3>1. p[s] = f[Chosen(s)] + p[s \ {Chosen(s)}]
      BY <2>2, <1>8
    <3>2. p[s \ {Chosen(s)}] \in Int /\ f[Chosen(s)] \in Int
      BY <2>2, <1>2
    <3> QED
      BY <3>1, <3>2
  <2>3. SUBSET D \subseteq T
    <3> HIDE DEF T
    <3> QED
      BY <2>1, <2>2, SubsetsByInduction
  <2> QED
    BY <2>3, <1>7
<1>10. p[{}] = 0
  BY <1>8
<1>11. \A s \in SUBSET D : s # {} => p[s] = f[Chosen(s)] + p[s \ {Chosen(s)}]
  BY <1>8
<1> QED
  BY <1>9, <1>10, <1>11 DEF p, AreSums


(* The sum of integers is one, that of numbers that are not negative is    *)
(* not negative, and that of zeros is zero.                                *)
LEMMA SumType ==
  ASSUME NEW D, IsFiniteSet(D), NEW f \in [D -> Int]
  PROVE  SumFunction(f) \in Int
<1>1. f \in [D -> Int] /\ DOMAIN f = D
  OBVIOUS
<1>2. AreSums(PartialSums(f), f, D)
  BY <1>1, PartialSumsExact, Zenon
<1>3. PartialSums(f)[D] \in Int
  BY <1>2 DEF AreSums
<1> QED
  BY <1>1, <1>3, SumIsLast

LEMMA SumNotNegative ==
  ASSUME NEW D, IsFiniteSet(D), NEW f \in [D -> Nat]
  PROVE  SumFunction(f) \in Nat
<1> DEFINE p == PartialSums(f)
           T == {s \in SUBSET D : p[s] \in Nat}
<1>1. f \in [D -> Int] /\ DOMAIN f = D
  OBVIOUS
<1>2. AreSums(p, f, D)
  BY <1>1, PartialSumsExact, Zenon
<1> HIDE DEF p
<1>3. {} \in T
  BY <1>2 DEF AreSums
<1>4. \A s \in SUBSET D : s # {} /\ s \ {Chosen(s)} \in T => s \in T
  BY <1>2, ChosenIn DEF AreSums
<1>5. SUBSET D \subseteq T
  <2> HIDE DEF T
  <2> QED
    BY <1>3, <1>4, SubsetsByInduction
<1>6. p[D] \in Nat
  BY <1>5
<1> QED
  BY <1>1, <1>6, SumIsLast DEF p

LEMMA SumOfZeros ==
  ASSUME NEW D, IsFiniteSet(D), NEW f \in [D -> Int], \A x \in D : f[x] = 0
  PROVE  SumFunction(f) = 0
<1> DEFINE p == PartialSums(f)
           T == {s \in SUBSET D : p[s] = 0}
<1>1. f \in [D -> Int] /\ DOMAIN f = D
  OBVIOUS
<1>2. AreSums(p, f, D)
  BY <1>1, PartialSumsExact, Zenon
<1> HIDE DEF p
<1>3. {} \in T
  BY <1>2 DEF AreSums
<1>4. \A s \in SUBSET D : s # {} /\ s \ {Chosen(s)} \in T => s \in T
  BY <1>2, ChosenIn DEF AreSums
<1>5. SUBSET D \subseteq T
  <2> HIDE DEF T
  <2> QED
    BY <1>3, <1>4, SubsetsByInduction
<1>6. p[D] = 0
  BY <1>5
<1> QED
  BY <1>1, <1>6, SumIsLast DEF p

(* A sum changes by as much as the one entry that changes.                 *)
LEMMA SumOfChanged ==
  ASSUME NEW D, IsFiniteSet(D), NEW x \in D, NEW f \in [D -> Int], NEW g \in [D -> Int],
         \A y \in D \ {x} : g[y] = f[y]
  PROVE  SumFunction(g) = SumFunction(f) + (g[x] - f[x])
<1> DEFINE p == PartialSums(f)
           q == PartialSums(g)
           Difference(s) == IF x \in s THEN g[x] - f[x] ELSE 0
           T == {s \in SUBSET D : q[s] = p[s] + Difference(s)}
<1>1. /\ f \in [D -> Int] /\ DOMAIN f = D
      /\ g \in [D -> Int] /\ DOMAIN g = D
  OBVIOUS
<1>2. AreSums(p, f, D)
  BY <1>1, PartialSumsExact, Zenon
<1>3. AreSums(q, g, D)
  BY <1>1, PartialSumsExact, Zenon
<1> HIDE DEF p, q
<1>4. {} \in T
  BY <1>2, <1>3 DEF AreSums
<1>5. ASSUME NEW s \in SUBSET D, s # {}, s \ {Chosen(s)} \in T PROVE s \in T
  <2> DEFINE c == Chosen(s)
             r == s \ {c}
  <2>1. c \in s /\ c \in D /\ r \in SUBSET D
    BY <1>5, ChosenIn
  <2>2. p[s] = f[c] + p[r] /\ q[s] = g[c] + q[r] /\ q[r] = p[r] + Difference(r)
    BY <1>2, <1>3, <1>5 DEF AreSums
  <2>3. p[r] \in Int /\ f[c] \in Int /\ g[c] \in Int /\ f[x] \in Int /\ g[x] \in Int
    BY <2>1, <1>2 DEF AreSums
  <2>4. CASE c = x
    <3>1. x \notin r /\ x \in s
      BY <2>1, <2>4
    <3> HIDE DEF c, r
    <3> QED
      BY <3>1, <2>2, <2>3, <2>4
  <2>5. CASE c # x
    <3>1. g[c] = f[c] /\ (x \in r <=> x \in s)
      BY <2>1, <2>5
    <3> HIDE DEF c, r
    <3> QED
      BY <3>1, <2>2, <2>3
  <2> QED
    BY <2>4, <2>5
<1>6. SUBSET D \subseteq T
  <2> HIDE DEF T
  <2> QED
    BY <1>4, <1>5, SubsetsByInduction
<1>7. q[D] = p[D] + (g[x] - f[x])
  BY <1>6
<1> QED
  BY <1>1, <1>7, SumIsLast DEF p, q


(* No entry of a sum of numbers that are not negative is larger than it.   *)
LEMMA SumBoundsEntries ==
  ASSUME NEW D, IsFiniteSet(D), NEW f \in [D -> Nat], NEW x \in D
  PROVE  f[x] <= SumFunction(f)
<1> DEFINE g == [f EXCEPT ![x] = 0]
<1>1. f \in [D -> Int] /\ g \in [D -> Int] /\ g \in [D -> Nat]
  OBVIOUS
<1>2. g[x] = 0 /\ \A y \in D \ {x} : g[y] = f[y]
  OBVIOUS
<1> HIDE DEF g
<1>3. SumFunction(g) = SumFunction(f) + (g[x] - f[x])
  BY <1>1, <1>2, SumOfChanged
<1>4. SumFunction(g) \in Nat /\ SumFunction(f) \in Int /\ f[x] \in Nat
  BY <1>1, SumNotNegative, SumType
<1> QED
  BY <1>2, <1>3, <1>4

(* Where every entry is at most that of another function, so is the sum.   *)
LEMMA SumMonotone ==
  ASSUME NEW D, IsFiniteSet(D), NEW f \in [D -> Int], NEW g \in [D -> Int], \A x \in D : f[x] <= g[x]
  PROVE  SumFunction(f) <= SumFunction(g)
<1> DEFINE p == PartialSums(f)
           q == PartialSums(g)
           T == {s \in SUBSET D : p[s] <= q[s]}
<1>1. /\ f \in [D -> Int] /\ DOMAIN f = D
      /\ g \in [D -> Int] /\ DOMAIN g = D
  OBVIOUS
<1>2. AreSums(p, f, D)
  BY <1>1, PartialSumsExact, Zenon
<1>3. AreSums(q, g, D)
  BY <1>1, PartialSumsExact, Zenon
<1> HIDE DEF p, q
<1>4. {} \in T
  BY <1>2, <1>3 DEF AreSums
<1>5. ASSUME NEW s \in SUBSET D, s # {}, s \ {Chosen(s)} \in T PROVE s \in T
  <2> DEFINE c == Chosen(s)
             r == s \ {c}
  <2>1. c \in s /\ c \in D /\ r \in SUBSET D
    BY <1>5, ChosenIn
  <2>2. p[s] = f[c] + p[r] /\ q[s] = g[c] + q[r] /\ p[r] <= q[r]
    BY <1>2, <1>3, <1>5 DEF AreSums
  <2>3. p[r] \in Int /\ q[r] \in Int /\ f[c] \in Int /\ g[c] \in Int /\ f[c] <= g[c]
    BY <2>1, <1>2, <1>3 DEF AreSums
  <2> HIDE DEF c, r
  <2> QED
    BY <2>2, <2>3
<1>6. SUBSET D \subseteq T
  <2> HIDE DEF T
  <2> QED
    BY <1>4, <1>5, SubsetsByInduction
<1>7. p[D] <= q[D]
  BY <1>6
<1> QED
  BY <1>1, <1>7, SumIsLast DEF p, q

-----------------------------------------------------------------------------
(* Counters *)

(* A counter that is moved by n stays what it counts, modulo its width.    *)
LEMMA CountMoves ==
  ASSUME NEW a \in Int, NEW n \in Int, NEW m \in Nat, m # 0
  PROVE  /\ ((a % m) + n) % m = (a + n) % m
         /\ (a + n) % m \in 0 .. m - 1
<1>1. a = m * (a \div m) + (a % m) /\ a \div m \in Int /\ a % m \in Int
  BY SMT
<1> DEFINE q == a \div m
           r == (a % m) + n
<1>2. a + n = m * q + r /\ q \in Int /\ r \in Int
  BY <1>1
<1> HIDE DEF q, r
<1>3. (m * q + r) % m = r % m
  <2> DEFINE j == r \div m
             e == r % m
  <2>1. r = m * j + e /\ j \in Int /\ e \in 0 .. m - 1
    BY <1>2, SMT
  <2> HIDE DEF j, e
  <2>2. m * q + m * j = m * (q + j) /\ q + j \in Int
    BY <1>2, <2>1, SMT
  <2>3. m * q + r = m * (q + j) + e
    BY <1>2, <2>1, <2>2, SMT
  <2>4. \A k \in Int : (m * k + e) % m = e
    BY <2>1, SMT
  <2>5. (m * (q + j) + e) % m = e
    BY <2>2, <2>4, Zenon
  <2>6. (m * q + r) % m = e
    BY <2>3, <2>5, Zenon
  <2> QED
    BY <2>6 DEF e
<1>4. (a + n) % m \in 0 .. m - 1
  BY SMT
<1> QED
  BY <1>2, <1>3, <1>4 DEF r

=============================================================================
