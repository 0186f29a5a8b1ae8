-------------------------- MODULE MpmcQueue_proofs --------------------------
(***************************************************************************)
(* Proofs about MpmcQueue, for every number of threads, of calls and of    *)
(* cells; what goes beyond the types needs at least two cells, since with  *)
(* one the number that says "readable" is the number that says "writable   *)
(* on the next lap".                                                       *)
(*                                                                         *)
(* Positions deq .. enq-1 are claimed by producers and not yet by          *)
(* consumers; positions enq .. deq+Capacity-1 are the free rest of the     *)
(* lap.  The inductive invariant says what the sequence number of the cell *)
(* of each of these positions can be, and where the calls in a cell stand  *)
(* relative to that window.                                                *)
(***************************************************************************)
EXTENDS MpmcQueue, SequenceTheorems, TLAPS

-----------------------------------------------------------------------------
(* Positions and slots *)

LEMMA Multiple == ASSUME NEW n \in Nat \ {0}, NEW k \in Int, k >= 1 PROVE n * k >= n
  BY SMT

LEMMA Quotient == ASSUME NEW n \in Nat \ {0}, NEW p \in Nat
                  PROVE  p = n * (p \div n) + (p % n)
  BY SMT

LEMMA Remainder == ASSUME NEW n \in Nat \ {0}, NEW k \in Int, NEW r \in 0 .. n - 1
                   PROVE  (n * k + r) % n = r
  BY SMT

LEMMA RemainderRange == ASSUME NEW n \in Nat \ {0}, NEW p \in Nat PROVE p % n \in 0 .. n - 1
  BY SMT

(* Every position has a cell.                                              *)
LEMMA SlotType == ASSUME NEW p \in Nat PROVE Slot(p) \in Slots
  BY ParametersAssumption, RemainderRange DEF Slot, Slots

(* A position and the one a lap later share a cell.                        *)
LEMMA SlotLap == ASSUME NEW p \in Nat PROVE Slot(p + Capacity) = Slot(p)
<1>1. Capacity \in Nat \ {0}
  BY ParametersAssumption
<1> DEFINE a == p \div Capacity
           r == p % Capacity
<1>2. a \in Int /\ r \in 0 .. Capacity - 1
  BY <1>1, SMT
<1>3. p = Capacity * a + r
  BY <1>1, Quotient
<1> HIDE DEF a, r
<1>4. p + Capacity = Capacity * (a + 1) + r
  BY <1>1, <1>2, <1>3, SMT
<1>5. a + 1 \in Int
  BY <1>2
<1>6. (Capacity * (a + 1) + r) % Capacity = r
  BY <1>1, <1>2, <1>5, Remainder, Zenon
<1>7. (p + Capacity) % Capacity = r
  BY <1>4, <1>6, Zenon
<1> QED
  BY <1>7 DEF Slot, r

(* Two positions less than a lap apart do not.                             *)
LEMMA SlotInjective ==
  ASSUME NEW p \in Nat, NEW q \in Nat, p < q, q < p + Capacity
  PROVE  Slot(p) # Slot(q)
<1>1. Capacity \in Nat \ {0}
  BY ParametersAssumption
<1> DEFINE a == p \div Capacity
           b == q \div Capacity
<1>2. a \in Int /\ b \in Int
  BY <1>1, SMT
<1>3. p = Capacity * a + (p % Capacity) /\ q = Capacity * b + (q % Capacity)
  BY <1>1, Quotient
<1> SUFFICES ASSUME p % Capacity = q % Capacity PROVE FALSE
  BY DEF Slot
<1>4. (p % Capacity) \in Int
  BY <1>1, SMT
<1> HIDE DEF a, b
<1>5. Capacity * (b - a) = q - p
  BY <1>1, <1>2, <1>3, <1>4, SMT
<1>6. CASE b - a <= 0
  BY <1>1, <1>2, <1>5, <1>6, SMT
<1>7. CASE b - a >= 1
  BY <1>1, <1>2, <1>5, <1>7, Multiple, SMT
<1> QED
  BY <1>2, <1>6, <1>7, SMT

-----------------------------------------------------------------------------
(* Type correctness *)

LEMMA TypeInit == Init => TypeOK
  BY ParametersAssumption DEF Init, TypeOK, Slots, Labels

LEMMA TypeStep == TypeOK /\ [Next]_vars => TypeOK'
<1> SUFFICES ASSUME TypeOK, [Next]_vars PROVE TypeOK'
  OBVIOUS
<1> USE ParametersAssumption DEF TypeOK, Labels, cellVars, callVars, At, GoTo
<1>1. ASSUME NEW t \in Threads, PushBegin(t) PROVE TypeOK'
  BY <1>1 DEF PushBegin
<1>2. ASSUME NEW t \in Threads, NEW n \in 1 .. MaxBulk, PopBegin(t, n) PROVE TypeOK'
  BY <1>2 DEF PopBegin
<1>3. ASSUME NEW t \in Threads, SizeBegin(t) PROVE TypeOK'
  BY <1>3 DEF SizeBegin
<1>4. ASSUME NEW t \in Threads, PushLoadSeq(t) PROVE TypeOK'
  BY <1>4 DEF PushLoadSeq
<1>5. ASSUME NEW t \in Threads, PushReload(t) PROVE TypeOK'
  BY <1>5 DEF PushReload
<1>6. ASSUME NEW t \in Threads, PushCas(t) PROVE TypeOK'
  BY <1>6 DEF PushCas
<1>7. ASSUME NEW t \in Threads, PushWrite(t) PROVE TypeOK'
  BY <1>7, SlotType DEF PushWrite
<1>8. ASSUME NEW t \in Threads, PushPublish(t) PROVE TypeOK'
  BY <1>8, SlotType DEF PushPublish, Readable
<1>9. ASSUME NEW t \in Threads, PopLoadSeq(t) PROVE TypeOK'
  BY <1>9 DEF PopLoadSeq
<1>10. ASSUME NEW t \in Threads, PopReload(t) PROVE TypeOK'
  BY <1>10 DEF PopReload
<1>11. ASSUME NEW t \in Threads, PopCas(t) PROVE TypeOK'
  BY <1>11 DEF PopCas
<1>12. ASSUME NEW t \in Threads, PopTake(t) PROVE TypeOK'
  BY <1>12, SlotType DEF PopTake
<1>13. ASSUME NEW t \in Threads, PopRelease(t) PROVE TypeOK'
  BY <1>13, SlotType, SMTT(30) DEF PopRelease, Writable, WantsMore
<1>14. ASSUME NEW t \in Threads, SizeEnd(t) PROVE TypeOK'
  BY <1>14 DEF SizeEnd
<1>15. CASE UNCHANGED vars
  BY <1>15 DEF vars
<1> QED
  BY <1>1, <1>2, <1>3, <1>4, <1>5, <1>6, <1>7, <1>8, <1>9, <1>10, <1>11,
     <1>12, <1>13, <1>14, <1>15 DEF Next, Begin, Continue

(* Every variable keeps its type, whatever the capacity.                   *)
THEOREM TypeCorrect == Spec => []TypeOK
<1>1. Init => TypeOK
  BY TypeInit
<1>2. TypeOK /\ [Next]_vars => TypeOK'
  BY TypeStep
<1> QED
  BY <1>1, <1>2, PTL DEF Spec

-----------------------------------------------------------------------------
(* The inductive invariant *)

LEMMA IInit == ASSUME Capacity >= 2 PROVE Init => IInv
<1> SUFFICES ASSUME Init PROVE IInv
  OBVIOUS
<1>1. Capacity \in Nat
  BY ParametersAssumption
<1>2. WindowInv
  <2>1. \A p \in 0 .. Capacity - 1 : Slot(p) = p
    BY <1>1, SMT DEF Slot
  <2> QED
    BY <1>1, <2>1 DEF Init, WindowInv, Bounded, Slots
<1> QED
  BY <1>2 DEF Init, IInv, PushingInv, PoppingInv, WinnersInv, PushCasInv,
              PopCasInv, Pushing, Popping, At

(* What the calls of other threads see of a step that leaves the cells and *)
(* both positions alone.                                                   *)
LEMMA QuietStep ==
  ASSUME TypeOK, IInv, NEW t \in Threads,
         UNCHANGED <<seq, enq, deq>>,
         \A u \in Threads : u # t => pc'[u] = pc[u] /\ pos'[u] = pos[u],
         Pushing(t)' => Pushing(t) /\ pos'[t] = pos[t],
         Popping(t)' => Popping(t) /\ pos'[t] = pos[t],
         pc'[t] \in {"push_seq", "push_cas", "size_deq"} => pos'[t] <= enq,
         pc'[t] = "push_cas" /\ pos'[t] = enq => seq[Slot(enq)] = enq,
         pc'[t] \in {"pop_seq", "pop_cas"} => pos'[t] <= deq,
         pc'[t] = "pop_cas" /\ pos'[t] = deq => seq[Slot(deq)] = deq + 1
  PROVE  IInv'
<1> USE DEF TypeOK
<1>1. WindowInv'
  BY DEF IInv, WindowInv, Bounded
<1>2. PushingInv'
  BY DEF IInv, PushingInv, Pushing
<1>3. PoppingInv'
  BY DEF IInv, PoppingInv, Popping
<1>4. WinnersInv'
  BY DEF IInv, WinnersInv, Pushing, Popping
<1>5. PushCasInv'
  BY DEF IInv, PushCasInv, At
<1>6. PopCasInv'
  BY DEF IInv, PopCasInv, At
<1> QED
  BY <1>1, <1>2, <1>3, <1>4, <1>5, <1>6 DEF IInv

(* Two positions of the same lap do not share a cell.                      *)
LEMMA SlotsDiffer ==
  ASSUME NEW p \in Nat, NEW q \in Nat, p # q, p < q + Capacity, q < p + Capacity
  PROVE  Slot(p) # Slot(q)
<1>1. CASE p < q
  BY <1>1, SlotInjective
<1>2. CASE q < p
  BY <1>2, SlotInjective
<1> QED
  BY <1>1, <1>2

(* A producer wins the position it found writable.                         *)
LEMMA PushWins ==
  ASSUME Capacity >= 2, TypeOK, IInv, NEW t \in Threads, PushCas(t), enq = pos[t]
  PROVE  IInv'
<1> USE DEF TypeOK
<1>1. Capacity \in Nat /\ Capacity >= 2
  BY ParametersAssumption
<1>2. /\ At(t, "push_cas") /\ enq' = enq + 1 /\ pc' = [pc EXCEPT ![t] = "push_write"]
      /\ UNCHANGED <<seq, deq, pos>>
  BY DEF PushCas, GoTo, cellVars
<1>3. seq[Slot(enq)] = enq
  BY <1>2 DEF IInv, PushCasInv
<1>4. deq <= enq /\ enq <= deq + Capacity
  BY <1>1 DEF IInv, WindowInv, Bounded
<1>5. enq < deq + Capacity
  <2> SUFFICES ASSUME enq = deq + Capacity PROVE FALSE
    BY <1>1, <1>4
  <2>1. Slot(enq) = Slot(deq)
    BY SlotLap
  <2>2. seq[Slot(deq)] \in {deq, deq + 1}
    BY <1>1 DEF IInv, WindowInv
  <2> QED
    BY <1>1, <1>3, <2>1, <2>2
<1>6. WindowInv'
  BY <1>1, <1>2, <1>3, <1>4, <1>5 DEF IInv, WindowInv, Bounded
<1>7. \A u \in Threads : Popping(u) => enq + 1 <= pos[u] + Capacity
  <2> SUFFICES ASSUME NEW u \in Threads, Popping(u), enq = pos[u] + Capacity PROVE FALSE
    BY <1>1 DEF IInv, PoppingInv
  <2>1. Slot(enq) = Slot(pos[u])
    BY SlotLap
  <2>2. seq[Slot(pos[u])] = pos[u] + 1
    BY DEF IInv, PoppingInv
  <2> QED
    BY <1>1, <1>3, <2>1, <2>2
<1>8. PoppingInv'
  BY <1>2, <1>7 DEF IInv, PoppingInv, Popping
<1>9. PushingInv'
  BY <1>2, <1>3, <1>4 DEF IInv, PushingInv, Pushing
<1>10. WinnersInv'
  BY <1>2 DEF IInv, WinnersInv, PushingInv, Pushing, Popping, At
<1>11. PushCasInv' /\ PopCasInv'
  BY <1>2 DEF IInv, PushCasInv, PopCasInv, At
<1> QED
  BY <1>6, <1>8, <1>9, <1>10, <1>11 DEF IInv

(* A consumer wins the position it found readable.                         *)
LEMMA PopWins ==
  ASSUME Capacity >= 2, TypeOK, IInv, NEW t \in Threads, PopCas(t), deq = pos[t]
  PROVE  IInv'
<1> USE DEF TypeOK
<1>1. Capacity \in Nat /\ Capacity >= 2
  BY ParametersAssumption
<1>2. /\ At(t, "pop_cas") /\ deq' = deq + 1 /\ pc' = [pc EXCEPT ![t] = "pop_take"]
      /\ UNCHANGED <<seq, enq, pos>>
  BY DEF PopCas, GoTo, cellVars
<1>3. seq[Slot(deq)] = deq + 1
  BY <1>2 DEF IInv, PopCasInv
<1>4. deq <= enq /\ enq <= deq + Capacity
  BY <1>1 DEF IInv, WindowInv, Bounded
<1>5. deq < enq
  <2> SUFFICES ASSUME enq = deq PROVE FALSE
    BY <1>4
  <2>1. seq[Slot(deq)] \in {deq, deq - Capacity + 1}
    BY <1>1 DEF IInv, WindowInv
  <2> QED
    BY <1>1, <1>3, <2>1
<1>6. WindowInv'
  <2>1. Bounded'
    BY <1>1, <1>2, <1>4, <1>5 DEF Bounded
  <2>2. \A p \in deq + 1 .. enq - 1 : seq[Slot(p)] \in {p, p + 1}
    BY DEF IInv, WindowInv
  <2>3. ASSUME NEW p \in enq .. deq + Capacity PROVE seq[Slot(p)] \in {p, p - Capacity + 1}
    <3>1. CASE p = deq + Capacity
      <4>1. Slot(p) = Slot(deq)
        BY <3>1, SlotLap, Zenon
      <4>2. deq + 1 = p - Capacity + 1
        BY <1>1, <3>1
      <4> QED
        BY <1>3, <4>1, <4>2, Zenon
    <3>2. CASE p # deq + Capacity
      <4>1. p \in enq .. deq + Capacity - 1
        BY <1>1, <3>2
      <4> QED
        BY <4>1 DEF IInv, WindowInv
    <3> QED
      BY <3>1, <3>2
  <2> QED
    BY <1>1, <1>2, <2>1, <2>2, <2>3 DEF WindowInv
<1>7. \A u \in Threads : Pushing(u) => pos[u] >= deq + 1
  BY <1>3 DEF IInv, PushingInv
<1>8. PushingInv'
  BY <1>2, <1>7 DEF IInv, PushingInv, Pushing
<1>9. PoppingInv'
  BY <1>1, <1>2, <1>3, <1>4 DEF IInv, PoppingInv, Popping
<1>10. WinnersInv'
  BY <1>2 DEF IInv, WinnersInv, PoppingInv, Pushing, Popping, At
<1>11. PushCasInv' /\ PopCasInv'
  BY <1>2 DEF IInv, PushCasInv, PopCasInv, At
<1> QED
  BY <1>6, <1>8, <1>9, <1>10, <1>11 DEF IInv

(* A producer passes its cell on to the consumers.                         *)
LEMMA PublishStep ==
  ASSUME Capacity >= 2, TypeOK, IInv, NEW t \in Threads, PushPublish(t)
  PROVE  IInv'
<1> USE DEF TypeOK
<1> DEFINE P == pos[t]
<1>1. Capacity \in Nat /\ Capacity >= 2
  BY ParametersAssumption
<1>2. /\ At(t, "push_publish") /\ pc' = [pc EXCEPT ![t] = "idle"]
      /\ UNCHANGED <<enq, deq, pos>>
  BY DEF PushPublish, GoTo
<1>3. /\ P \in Nat /\ deq <= P /\ P < enq /\ enq <= deq + Capacity
      /\ seq[Slot(P)] = P
  BY <1>1, <1>2 DEF IInv, PushingInv, Pushing, At, WindowInv, Bounded
<1>4. \A q \in Nat : seq'[Slot(q)] = IF Slot(q) = Slot(P) THEN P + 1 ELSE seq[Slot(q)]
  BY SlotType DEF PushPublish, Readable
<1>5. \A q \in Nat : q # P /\ q < P + Capacity /\ P < q + Capacity
                     => seq'[Slot(q)] = seq[Slot(q)]
  BY <1>1, <1>3, <1>4, SlotsDiffer
<1> HIDE DEF P
<1>6. WindowInv'
  <2>1. ASSUME NEW q \in deq .. enq - 1 PROVE seq'[Slot(q)] \in {q, q + 1}
    <3>1. CASE q = P
      BY <1>3, <1>4, <3>1
    <3>2. CASE q # P
      BY <1>1, <1>3, <1>5, <3>2 DEF IInv, WindowInv
    <3> QED
      BY <3>1, <3>2
  <2>2. ASSUME NEW q \in enq .. deq + Capacity - 1
        PROVE  seq'[Slot(q)] \in {q, q - Capacity + 1}
    BY <1>1, <1>3, <1>5 DEF IInv, WindowInv
  <2> QED
    BY <1>2, <2>1, <2>2 DEF IInv, WindowInv, Bounded
<1>7. PushingInv'
  <2> SUFFICES ASSUME NEW u \in Threads, u # t, Pushing(u)
               PROVE  pos[u] >= deq /\ pos[u] < enq /\ seq'[Slot(pos[u])] = pos[u]
    BY <1>2 DEF PushingInv, Pushing
  <2>1. pos[u] # P
    BY <1>2 DEF IInv, WinnersInv, Pushing, At, P
  <2>2. pos[u] >= deq /\ pos[u] < enq /\ seq[Slot(pos[u])] = pos[u]
    BY DEF IInv, PushingInv
  <2> QED
    BY <1>1, <1>3, <1>5, <2>1, <2>2
<1>8. PoppingInv'
  <2> SUFFICES ASSUME NEW u \in Threads, u # t, Popping(u)
               PROVE  /\ pos[u] < deq /\ enq <= pos[u] + Capacity
                      /\ seq'[Slot(pos[u])] = pos[u] + 1
    BY <1>2 DEF PoppingInv, Popping
  <2>1. /\ pos[u] < deq /\ enq <= pos[u] + Capacity
        /\ seq[Slot(pos[u])] = pos[u] + 1
    BY DEF IInv, PoppingInv
  <2> QED
    BY <1>1, <1>3, <1>5, <2>1
<1>9. WinnersInv'
  BY <1>2 DEF IInv, WinnersInv, Pushing, Popping
<1>10. PushCasInv'
  <2> SUFFICES ASSUME NEW u \in Threads, u # t, At(u, "push_cas"), pos[u] = enq
               PROVE  seq'[Slot(enq)] = enq
    BY <1>2 DEF IInv, PushCasInv, At
  <2>1. seq[Slot(enq)] = enq
    BY DEF IInv, PushCasInv
  <2>2. Slot(enq) # Slot(P)
    BY <1>3, <2>1
  <2> QED
    BY <1>4, <2>1, <2>2
<1>11. PopCasInv'
  <2> SUFFICES ASSUME NEW u \in Threads, u # t, At(u, "pop_cas"), pos[u] = deq
               PROVE  seq'[Slot(deq)] = deq + 1
    BY <1>2 DEF IInv, PopCasInv, At
  <2>1. seq[Slot(deq)] = deq + 1
    BY DEF IInv, PopCasInv
  <2>2. P # deq
    BY <1>3, <2>1
  <2> QED
    BY <1>1, <1>3, <1>5, <2>1, <2>2
<1> QED
  BY <1>6, <1>7, <1>8, <1>9, <1>10, <1>11 DEF IInv

(* A consumer passes its cell on to the producers of the next lap.         *)
LEMMA ReleaseStep ==
  ASSUME Capacity >= 2, TypeOK, IInv, NEW t \in Threads, PopRelease(t)
  PROVE  IInv'
<1> USE DEF TypeOK
<1> DEFINE P == pos[t]
<1>1. Capacity \in Nat /\ Capacity >= 2
  BY ParametersAssumption
<1>2. /\ At(t, "pop_release") /\ UNCHANGED <<enq, deq, pos>>
      /\ \E l \in {"idle", "pop_reload"} : pc' = [pc EXCEPT ![t] = l]
  BY DEF PopRelease, GoTo
<1>3. /\ P \in Nat /\ P < deq /\ deq <= enq /\ enq <= P + Capacity
      /\ seq[Slot(P)] = P + 1
  BY <1>1, <1>2 DEF IInv, PoppingInv, Popping, At, WindowInv, Bounded
<1>4. \A q \in Nat :
        seq'[Slot(q)] = IF Slot(q) = Slot(P) THEN P + Capacity ELSE seq[Slot(q)]
  BY SlotType DEF PopRelease, Writable
<1>5. \A q \in Nat : q # P /\ q < P + Capacity /\ P < q + Capacity
                     => seq'[Slot(q)] = seq[Slot(q)]
  BY <1>1, <1>3, <1>4, SlotsDiffer
<1>6. \A q \in Nat : P + Capacity < q /\ q < P + Capacity + Capacity
                     => seq'[Slot(q)] = seq[Slot(q)]
  <2> SUFFICES ASSUME NEW q \in Nat, P + Capacity < q, q < P + Capacity + Capacity
               PROVE  Slot(q) # Slot(P)
    BY <1>4
  <2>1. P + Capacity \in Nat /\ P \in Nat
    BY <1>1, <1>3
  <2>2. Slot(P + Capacity) # Slot(q)
    BY <1>1, <2>1, SlotInjective
  <2> QED
    BY <2>1, <2>2, SlotLap
<1>7. seq'[Slot(P + Capacity)] = P + Capacity
  <2>1. P + Capacity \in Nat /\ P \in Nat
    BY <1>1, <1>3
  <2>2. Slot(P + Capacity) = Slot(P)
    BY <2>1, SlotLap
  <2> QED
    BY <1>4, <2>1, <2>2
<1> HIDE DEF P
<1>8. WindowInv'
  <2>1. ASSUME NEW q \in deq .. enq - 1 PROVE seq'[Slot(q)] \in {q, q + 1}
    BY <1>1, <1>3, <1>5 DEF IInv, WindowInv
  <2>2. ASSUME NEW q \in enq .. deq + Capacity - 1
        PROVE  seq'[Slot(q)] \in {q, q - Capacity + 1}
    <3>1. CASE q = P + Capacity
      BY <1>7, <3>1
    <3>2. CASE q # P + Capacity
      <4>1. q \in Nat /\ q < P + Capacity + Capacity /\ P < q
        BY <1>1, <1>3
      <4>2. seq'[Slot(q)] = seq[Slot(q)]
        BY <1>1, <1>3, <1>5, <1>6, <3>2, <4>1
      <4> QED
        BY <4>2 DEF IInv, WindowInv
    <3> QED
      BY <3>1, <3>2
  <2> QED
    BY <1>2, <2>1, <2>2 DEF IInv, WindowInv, Bounded
<1>9. PushingInv'
  <2> SUFFICES ASSUME NEW u \in Threads, u # t, Pushing(u)
               PROVE  pos[u] >= deq /\ pos[u] < enq /\ seq'[Slot(pos[u])] = pos[u]
    BY <1>2 DEF PushingInv, Pushing
  <2>1. pos[u] >= deq /\ pos[u] < enq /\ seq[Slot(pos[u])] = pos[u]
    BY DEF IInv, PushingInv
  <2> QED
    BY <1>1, <1>3, <1>5, <2>1
<1>10. PoppingInv'
  <2> SUFFICES ASSUME NEW u \in Threads, u # t, Popping(u)
               PROVE  /\ pos[u] < deq /\ enq <= pos[u] + Capacity
                      /\ seq'[Slot(pos[u])] = pos[u] + 1
    BY <1>2 DEF PoppingInv, Popping
  <2>1. pos[u] # P
    BY <1>2 DEF IInv, WinnersInv, Popping, At, P
  <2>2. /\ pos[u] < deq /\ enq <= pos[u] + Capacity
        /\ seq[Slot(pos[u])] = pos[u] + 1
    BY DEF IInv, PoppingInv
  <2> QED
    BY <1>1, <1>3, <1>5, <2>1, <2>2
<1>11. WinnersInv'
  BY <1>2 DEF IInv, WinnersInv, Pushing, Popping
<1>12. PushCasInv'
  <2> SUFFICES ASSUME NEW u \in Threads, u # t, At(u, "push_cas"), pos[u] = enq
               PROVE  seq'[Slot(enq)] = enq
    BY <1>2 DEF IInv, PushCasInv, At
  <2>1. seq[Slot(enq)] = enq
    BY DEF IInv, PushCasInv
  <2>2. CASE enq = P + Capacity
    BY <1>7, <2>2
  <2>3. CASE enq # P + Capacity
    BY <1>1, <1>3, <1>5, <2>1, <2>3
  <2> QED
    BY <2>2, <2>3
<1>13. PopCasInv'
  <2> SUFFICES ASSUME NEW u \in Threads, u # t, At(u, "pop_cas"), pos[u] = deq
               PROVE  seq'[Slot(deq)] = deq + 1
    BY <1>2 DEF IInv, PopCasInv, At
  <2>1. seq[Slot(deq)] = deq + 1
    BY DEF IInv, PopCasInv
  <2>2. Slot(deq) # Slot(P)
    BY <1>3, <2>1
  <2> QED
    BY <1>4, <2>1, <2>2
<1> QED
  BY <1>8, <1>9, <1>10, <1>11, <1>12, <1>13 DEF IInv

LEMMA IStep == ASSUME Capacity >= 2 PROVE TypeOK /\ IInv /\ [Next]_vars => IInv'
<1> SUFFICES ASSUME TypeOK, IInv, [Next]_vars PROVE IInv'
  OBVIOUS
<1> USE DEF TypeOK, cellVars, callVars, At, GoTo, Pushing, Popping
<1>0. deq <= enq
  BY ParametersAssumption DEF IInv, WindowInv, Bounded
<1>1. ASSUME NEW t \in Threads, PushBegin(t) PROVE IInv'
  BY <1>1, QuietStep DEF PushBegin
<1>2. ASSUME NEW t \in Threads, NEW n \in 1 .. MaxBulk, PopBegin(t, n) PROVE IInv'
  BY <1>2, QuietStep DEF PopBegin
<1>3. ASSUME NEW t \in Threads, SizeBegin(t) PROVE IInv'
  BY <1>3, QuietStep DEF SizeBegin
<1>4. ASSUME NEW t \in Threads, PushLoadSeq(t) PROVE IInv'
  <2>1. pos[t] <= enq
    BY <1>4 DEF PushLoadSeq, IInv, PushCasInv
  <2> QED
    BY <1>4, <2>1, QuietStep DEF PushLoadSeq
<1>5. ASSUME NEW t \in Threads, PushReload(t) PROVE IInv'
  BY <1>5, QuietStep DEF PushReload
<1>6. ASSUME NEW t \in Threads, PushCas(t) PROVE IInv'
  <2>1. CASE enq = pos[t]
    BY <1>6, <2>1, PushWins
  <2>2. CASE enq # pos[t]
    BY <1>6, <2>2, QuietStep DEF PushCas
  <2> QED
    BY <2>1, <2>2
<1>7. ASSUME NEW t \in Threads, PushWrite(t) PROVE IInv'
  BY <1>7, QuietStep DEF PushWrite
<1>8. ASSUME NEW t \in Threads, PushPublish(t) PROVE IInv'
  BY <1>8, PublishStep
<1>9. ASSUME NEW t \in Threads, PopLoadSeq(t) PROVE IInv'
  <2>1. pos[t] <= deq
    BY <1>9 DEF PopLoadSeq, IInv, PopCasInv
  <2> QED
    BY <1>9, <2>1, QuietStep DEF PopLoadSeq, Readable
<1>10. ASSUME NEW t \in Threads, PopReload(t) PROVE IInv'
  BY <1>10, QuietStep DEF PopReload
<1>11. ASSUME NEW t \in Threads, PopCas(t) PROVE IInv'
  <2>1. CASE deq = pos[t]
    BY <1>11, <2>1, PopWins
  <2>2. CASE deq # pos[t]
    BY <1>11, <2>2, QuietStep DEF PopCas
  <2> QED
    BY <2>1, <2>2
<1>12. ASSUME NEW t \in Threads, PopTake(t) PROVE IInv'
  BY <1>12, QuietStep DEF PopTake
<1>13. ASSUME NEW t \in Threads, PopRelease(t) PROVE IInv'
  BY <1>13, ReleaseStep
<1>14. ASSUME NEW t \in Threads, SizeEnd(t) PROVE IInv'
  BY <1>14, QuietStep DEF SizeEnd
<1>15. CASE UNCHANGED vars
  BY <1>15 DEF vars, IInv, WindowInv, Bounded, PushingInv, Pushing, PoppingInv,
               Popping, WinnersInv, PushCasInv, PopCasInv
<1> QED
  BY <1>1, <1>2, <1>3, <1>4, <1>5, <1>6, <1>7, <1>8, <1>9, <1>10, <1>11,
     <1>12, <1>13, <1>14, <1>15 DEF Next, Begin, Continue

(* The windows of two calls in a cell keep their cells apart.              *)
LEMMA Exclusive == ASSUME Capacity >= 2, TypeOK, IInv PROVE SlotExclusive
<1> USE DEF TypeOK
<1> SUFFICES ASSUME NEW t \in Threads, NEW u \in Threads, t # u,
                    InCell(t), InCell(u), Slot(pos[t]) = Slot(pos[u])
             PROVE  FALSE
  BY DEF SlotExclusive
<1>1. Capacity \in Nat /\ Capacity >= 2
  BY ParametersAssumption
<1>2. deq <= enq /\ enq <= deq + Capacity
  BY <1>1 DEF IInv, WindowInv, Bounded
<1>3. \A v \in Threads :
        /\ Pushing(v) => deq <= pos[v] /\ pos[v] < enq
        /\ Popping(v) => pos[v] < deq /\ enq <= pos[v] + Capacity
  BY DEF IInv, PushingInv, PoppingInv
<1>4. pos[t] # pos[u]
  BY <1>3 DEF IInv, WinnersInv, InCell
<1> QED
  BY <1>1, <1>2, <1>3, <1>4, SlotsDiffer DEF InCell

-----------------------------------------------------------------------------
(* The invariant is one.                                                   *)
THEOREM Inductive == ASSUME Capacity >= 2 PROVE Spec => []IInv
<1>1. Init => IInv
  BY IInit
<1>2. TypeOK /\ IInv /\ [Next]_vars => IInv'
  BY IStep
<1> QED
  BY <1>1, <1>2, TypeCorrect, PTL DEF Spec

(* No two calls work on one cell at once, whatever the number of threads   *)
(* and however many laps they are apart.                                   *)
THEOREM CellsExclusive == ASSUME Capacity >= 2 PROVE Spec => []SlotExclusive
  BY Exclusive, TypeCorrect, Inductive, PTL

(* Producers never run more than a lap ahead, consumers never overtake.    *)
THEOREM StaysBounded == ASSUME Capacity >= 2 PROVE Spec => []Bounded
<1>1. IInv => Bounded
  BY DEF IInv, WindowInv
<1> QED
  BY <1>1, Inductive, PTL

(* size() answers a number that the queue can hold.                        *)
THEOREM SizeSane == ASSUME Capacity >= 2 PROVE Spec => []SizeInRange
<1>1. TypeOK /\ IInv => SizeInRange
  BY ParametersAssumption
     DEF TypeOK, IInv, WindowInv, Bounded, PushCasInv, SizeInRange, SizeAnswer, At
<1> QED
  BY <1>1, TypeCorrect, Inductive, PTL

-----------------------------------------------------------------------------
(* What the cells and the hands of the calls hold *)

Items == 1 .. MaxPushes

(* A value stays in the hands of the call that pushes it until it is in    *)
(* its cell, a published cell holds a value until its consumer has taken   *)
(* it, and what a consumer holds is a value.                               *)
DataInv ==
  /\ \A p \in deq .. enq - 1 : seq[Slot(p)] = p + 1 => data[Slot(p)] \in Items
  /\ \A t \in Threads :
       /\ pc[t] \in {"push_seq", "push_reload", "push_cas", "push_write", "push_publish"}
            => item[t] \in Items
       /\ At(t, "push_publish") => data[Slot(pos[t])] = item[t]
       /\ At(t, "pop_take") => data[Slot(pos[t])] \in Items
       /\ At(t, "pop_release") => item[t] \in Items

LEMMA DataInit == Init => DataInv
  BY DEF Init, DataInv, At

(* A step of t that touches no sequence number, no cell and no position    *)
(* counter, and leaves t outside the cells.                                *)
LEMMA DataQuiet ==
  ASSUME TypeOK, DataInv, NEW t \in Threads, NEW l \in Labels,
         UNCHANGED <<seq, data, enq, deq>>,
         pc' = [pc EXCEPT ![t] = l],
         l \notin {"push_write", "push_publish", "pop_take", "pop_release"},
         \A u \in Threads \ {t} : pos'[u] = pos[u] /\ item'[u] = item[u],
         l \in {"push_seq", "push_reload", "push_cas"} => item'[t] \in Items
  PROVE  DataInv'
  BY DEF TypeOK, DataInv, At, Labels

LEMMA DataPushWins ==
  ASSUME Capacity >= 2, TypeOK, IInv, DataInv, NEW t \in Threads, PushCas(t), enq = pos[t]
  PROVE  DataInv'
<1> USE DEF TypeOK
<1>1. Capacity \in Nat /\ Capacity >= 2
  BY ParametersAssumption
<1>2. /\ At(t, "push_cas") /\ enq' = enq + 1 /\ pc' = [pc EXCEPT ![t] = "push_write"]
      /\ UNCHANGED <<seq, data, deq, pos, item>>
  BY DEF PushCas, GoTo, cellVars, callVars
<1>3. seq[Slot(enq)] = enq
  BY <1>2 DEF IInv, PushCasInv
<1>4. \A p \in deq .. enq' - 1 : seq[Slot(p)] = p + 1 => data[Slot(p)] \in Items
  BY <1>2, <1>3 DEF DataInv
<1> QED
  BY <1>2, <1>4 DEF DataInv, At

LEMMA DataPushWrite ==
  ASSUME Capacity >= 2, TypeOK, IInv, DataInv, NEW t \in Threads, PushWrite(t)
  PROVE  DataInv'
<1> USE DEF TypeOK
<1>1. Capacity \in Nat /\ Capacity >= 2
  BY ParametersAssumption
<1>2. /\ At(t, "push_write") /\ pc' = [pc EXCEPT ![t] = "push_publish"]
      /\ UNCHANGED <<seq, enq, deq, pos, item>>
  BY DEF PushWrite, GoTo, callVars
<1>3. \A p \in Nat :
        data'[Slot(p)] = IF Slot(p) = Slot(pos[t]) THEN item[t] ELSE data[Slot(p)]
  BY SlotType DEF PushWrite
<1>4. seq[Slot(pos[t])] = pos[t] /\ deq <= pos[t] /\ pos[t] < enq /\ enq <= deq + Capacity
  BY <1>1, <1>2 DEF IInv, PushingInv, Pushing, At, WindowInv, Bounded
<1>5. item[t] \in Items
  BY <1>2 DEF DataInv, At
<1>6. \A p \in deq .. enq - 1 : seq[Slot(p)] = p + 1 => data'[Slot(p)] \in Items
  BY <1>3, <1>5 DEF DataInv
<1>7. \A u \in Threads \ {t} : InCell(u) => data'[Slot(pos[u])] = data[Slot(pos[u])]
  <2> SUFFICES ASSUME NEW u \in Threads \ {t}, InCell(u) PROVE Slot(pos[u]) # Slot(pos[t])
    BY <1>3
  <2> QED
    BY <1>2, Exclusive DEF SlotExclusive, InCell, Pushing, At
<1> QED
  BY <1>2, <1>3, <1>5, <1>6, <1>7 DEF DataInv, At, InCell, Pushing, Popping

LEMMA DataPublish ==
  ASSUME Capacity >= 2, TypeOK, IInv, DataInv, NEW t \in Threads, PushPublish(t)
  PROVE  DataInv'
<1> USE DEF TypeOK
<1> DEFINE P == pos[t]
<1>1. Capacity \in Nat /\ Capacity >= 2
  BY ParametersAssumption
<1>2. /\ At(t, "push_publish") /\ pc' = [pc EXCEPT ![t] = "idle"]
      /\ UNCHANGED <<data, enq, deq, pos>>
      /\ \A u \in Threads \ {t} : item'[u] = item[u]
  BY DEF PushPublish, GoTo
<1>3. P \in Nat /\ deq <= P /\ P < enq /\ enq <= deq + Capacity
  BY <1>1, <1>2 DEF IInv, PushingInv, Pushing, At, WindowInv, Bounded
<1>4. \A q \in Nat : seq'[Slot(q)] = IF Slot(q) = Slot(P) THEN P + 1 ELSE seq[Slot(q)]
  BY SlotType DEF PushPublish, Readable
<1>5. data[Slot(P)] \in Items
  BY <1>2 DEF DataInv, At
<1>6. \A q \in deq .. enq - 1 : seq'[Slot(q)] = q + 1 => data[Slot(q)] \in Items
  BY <1>4, <1>5 DEF DataInv
<1> QED
  BY <1>2, <1>6 DEF DataInv, At

LEMMA DataPopWins ==
  ASSUME Capacity >= 2, TypeOK, IInv, DataInv, NEW t \in Threads, PopCas(t), deq = pos[t]
  PROVE  DataInv' /\ data[Slot(deq)] \in Items /\ deq < enq
<1> USE DEF TypeOK
<1>1. Capacity \in Nat /\ Capacity >= 2
  BY ParametersAssumption
<1>2. /\ At(t, "pop_cas") /\ deq' = deq + 1 /\ pc' = [pc EXCEPT ![t] = "pop_take"]
      /\ UNCHANGED <<seq, data, enq, pos, item>>
  BY DEF PopCas, GoTo, cellVars, callVars
<1>3. seq[Slot(deq)] = deq + 1
  BY <1>2 DEF IInv, PopCasInv
<1>4. deq < enq
  <2> SUFFICES ASSUME enq = deq PROVE FALSE
    BY <1>1 DEF IInv, WindowInv, Bounded
  <2>1. seq[Slot(deq)] \in {deq, deq - Capacity + 1}
    BY <1>1 DEF IInv, WindowInv
  <2> QED
    BY <1>1, <1>3, <2>1
<1>5. data[Slot(deq)] \in Items
  BY <1>3, <1>4 DEF DataInv
<1>6. \A p \in deq' .. enq - 1 : seq[Slot(p)] = p + 1 => data[Slot(p)] \in Items
  BY <1>2 DEF DataInv
<1> QED
  BY <1>2, <1>4, <1>5, <1>6 DEF DataInv, At

LEMMA DataRelease ==
  ASSUME Capacity >= 2, TypeOK, IInv, DataInv, NEW t \in Threads, PopRelease(t)
  PROVE  DataInv'
<1> USE DEF TypeOK
<1> DEFINE P == pos[t]
<1>1. Capacity \in Nat /\ Capacity >= 2
  BY ParametersAssumption
<1>2. /\ At(t, "pop_release") /\ UNCHANGED <<data, enq, deq, pos>>
      /\ \E l \in {"idle", "pop_reload"} : pc' = [pc EXCEPT ![t] = l]
      /\ \A u \in Threads \ {t} : item'[u] = item[u]
  BY DEF PopRelease, GoTo
<1>3. /\ P \in Nat /\ P < deq /\ deq <= enq /\ enq <= P + Capacity
  BY <1>1, <1>2 DEF IInv, PoppingInv, Popping, At, WindowInv, Bounded
<1>4. \A q \in Nat :
        seq'[Slot(q)] = IF Slot(q) = Slot(P) THEN P + Capacity ELSE seq[Slot(q)]
  BY SlotType DEF PopRelease, Writable
<1> HIDE DEF P
<1>5. ASSUME NEW q \in deq .. enq - 1 PROVE seq'[Slot(q)] = seq[Slot(q)]
  BY <1>1, <1>3, <1>4, SlotsDiffer
<1> QED
  BY <1>2, <1>5 DEF DataInv, At

LEMMA DataStep ==
  ASSUME Capacity >= 2 PROVE TypeOK /\ IInv /\ DataInv /\ [Next]_vars => DataInv'
<1> SUFFICES ASSUME TypeOK, IInv, DataInv, [Next]_vars PROVE DataInv'
  OBVIOUS
<1> USE DEF TypeOK, cellVars, callVars, At, GoTo
<1>1. ASSUME NEW t \in Threads, PushBegin(t) PROVE DataInv'
  <2>1. item'[t] \in Items
    BY <1>1, ParametersAssumption DEF PushBegin, Items
  <2> QED
    BY <1>1, <2>1, DataQuiet DEF PushBegin, Labels
<1>2. ASSUME NEW t \in Threads, NEW n \in 1 .. MaxBulk, PopBegin(t, n) PROVE DataInv'
  BY <1>2, DataQuiet DEF PopBegin, Labels
<1>3. ASSUME NEW t \in Threads, SizeBegin(t) PROVE DataInv'
  BY <1>3, DataQuiet DEF SizeBegin, Labels
<1>4. ASSUME NEW t \in Threads, PushLoadSeq(t) PROVE DataInv'
  <2>1. item[t] \in Items
    BY <1>4 DEF PushLoadSeq, DataInv
  <2> QED
    BY <1>4, <2>1, DataQuiet DEF PushLoadSeq, Labels
<1>5. ASSUME NEW t \in Threads, PushReload(t) PROVE DataInv'
  <2>1. item[t] \in Items
    BY <1>5 DEF PushReload, DataInv
  <2> QED
    BY <1>5, <2>1, DataQuiet DEF PushReload, Labels
<1>6. ASSUME NEW t \in Threads, PushCas(t) PROVE DataInv'
  <2>1. CASE enq = pos[t]
    BY <1>6, <2>1, DataPushWins
  <2>2. CASE enq # pos[t]
    <3>1. item[t] \in Items
      BY <1>6 DEF PushCas, DataInv
    <3> QED
      BY <1>6, <2>2, <3>1, DataQuiet DEF PushCas, Labels
  <2> QED
    BY <2>1, <2>2
<1>7. ASSUME NEW t \in Threads, PushWrite(t) PROVE DataInv'
  BY <1>7, DataPushWrite
<1>8. ASSUME NEW t \in Threads, PushPublish(t) PROVE DataInv'
  BY <1>8, DataPublish
<1>9. ASSUME NEW t \in Threads, PopLoadSeq(t) PROVE DataInv'
  BY <1>9, DataQuiet DEF PopLoadSeq, Labels
<1>10. ASSUME NEW t \in Threads, PopReload(t) PROVE DataInv'
  BY <1>10, DataQuiet DEF PopReload, Labels
<1>11. ASSUME NEW t \in Threads, PopCas(t) PROVE DataInv'
  <2>1. CASE deq = pos[t]
    BY <1>11, <2>1, DataPopWins
  <2>2. CASE deq # pos[t]
    BY <1>11, <2>2, DataQuiet DEF PopCas, Labels
  <2> QED
    BY <2>1, <2>2
<1>12. ASSUME NEW t \in Threads, PopTake(t) PROVE DataInv'
  BY <1>12 DEF PopTake, DataInv
<1>13. ASSUME NEW t \in Threads, PopRelease(t) PROVE DataInv'
  BY <1>13, DataRelease
<1>14. ASSUME NEW t \in Threads, SizeEnd(t) PROVE DataInv'
  BY <1>14, DataQuiet DEF SizeEnd, Labels
<1>15. CASE UNCHANGED vars
  BY <1>15 DEF vars, DataInv
<1> QED
  BY <1>1, <1>2, <1>3, <1>4, <1>5, <1>6, <1>7, <1>8, <1>9, <1>10, <1>11,
     <1>12, <1>13, <1>14, <1>15 DEF Next, Begin, Continue


-----------------------------------------------------------------------------
(* The ring as a queue *)

(* The variables of BoundedFifo as the refinement mapping of MpmcQueue     *)
(* computes them.                                                          *)
Queue == [i \in 1 .. enq - deq |-> Value(deq + i - 1)]
Gifts == [t \in Threads |-> Given(t)]

PushLabels == {"push_write", "push_publish"}

LEMMA ValueOfWinner ==
  ASSUME WinnersInv, NEW t \in Threads, Pushing(t)
  PROVE  Value(pos[t]) = item[t]
<1> DEFINE W == {u \in Threads : Pushing(u) /\ pos[u] = pos[t]}
<1>1. W = {t}
  BY DEF WinnersInv
<1>2. (CHOOSE u \in W : TRUE) = t
  BY <1>1
<1> QED
  BY <1>1, <1>2 DEF Value

LEMMA ValueInCell ==
  ASSUME NEW p, ~ \E t \in Threads : Pushing(t) /\ pos[t] = p
  PROVE  Value(p) = data[Slot(p)]
<1>1. {t \in Threads : Pushing(t) /\ pos[t] = p} = {}
  OBVIOUS
<1> QED
  BY <1>1 DEF Value

LEMMA ValueType == ASSUME TypeOK, WinnersInv, NEW p \in Nat PROVE Value(p) \in Nat \cup {NoItem}
<1>1. CASE \E t \in Threads : Pushing(t) /\ pos[t] = p
  BY <1>1, ValueOfWinner DEF TypeOK
<1>2. CASE ~ \E t \in Threads : Pushing(t) /\ pos[t] = p
  BY <1>2, ValueInCell, SlotType DEF TypeOK
<1> QED
  BY <1>1, <1>2

(* A step that leaves a position to the same producer, and what it holds   *)
(* alone, leaves the value of the position alone.                          *)
LEMMA ValueKept ==
  ASSUME NEW p,
         \A u \in Threads : /\ pc'[u] \in PushLabels /\ pos'[u] = p
                                 <=> pc[u] \in PushLabels /\ pos[u] = p
                            /\ pc[u] \in PushLabels /\ pos[u] = p => item'[u] = item[u],
         data'[Slot(p)] = data[Slot(p)] \/ \E u \in Threads : pc[u] \in PushLabels /\ pos[u] = p
  PROVE  Value(p)' = Value(p)
<1> DEFINE W == {u \in Threads : pc[u] \in PushLabels /\ pos[u] = p}
           V == {u \in Threads : pc'[u] \in PushLabels /\ pos'[u] = p}
<1>1. V = W
  OBVIOUS
<1>2. Value(p) = IF W # {} THEN item[CHOOSE u \in W : TRUE] ELSE data[Slot(p)]
  BY DEF Value, Pushing, PushLabels
<1>3. Value(p)' = IF V # {} THEN item'[CHOOSE u \in V : TRUE] ELSE data'[Slot(p)]
  BY DEF Value, Pushing, PushLabels
<1>4. W # {} => (CHOOSE u \in W : TRUE) \in W
  OBVIOUS
<1> HIDE DEF V
<1>5. W # {} => item'[CHOOSE u \in W : TRUE] = item[CHOOSE u \in W : TRUE]
  BY <1>4
<1> QED
  BY <1>1, <1>2, <1>3, <1>5

Vals == [p \in Nat |-> Value(p)]

QueueOK ==
  /\ Vals \in [Nat -> Nat \cup {NoItem}]
  /\ Queue \in Seq(Nat \cup {NoItem})
  /\ Len(Queue) = enq - deq
  /\ \A i \in 1 .. enq - deq : Queue[i] = Vals[deq + i - 1]

LEMMA QueueType == TypeOK /\ WinnersInv /\ deq <= enq => QueueOK
<1> SUFFICES ASSUME TypeOK, WinnersInv, deq <= enq PROVE QueueOK
  OBVIOUS
<1>1. enq - deq \in Nat
  BY DEF TypeOK
<1>2. \A i \in 1 .. enq - deq : deq + i - 1 \in Nat
  BY DEF TypeOK
<1>3. \A i \in 1 .. enq - deq : Value(deq + i - 1) \in Nat \cup {NoItem}
  BY <1>2, ValueType
<1>4. /\ Queue \in Seq(Nat \cup {NoItem}) /\ Len(Queue) = enq - deq
      /\ \A i \in 1 .. enq - deq : Queue[i] = Value(deq + i - 1)
  BY <1>1, <1>3, IsASeq DEF Queue
<1>5. Vals \in [Nat -> Nat \cup {NoItem}]
  BY ValueType DEF Vals
<1> QED
  BY <1>2, <1>4, <1>5 DEF QueueOK, Vals

LEMMA QueueTypeNext == TypeOK' /\ WinnersInv' /\ (deq <= enq)' => QueueOK'
  BY QueueType, PTL

LEMMA AppendByIndex ==
  ASSUME NEW S, NEW q \in Seq(S), NEW r \in Seq(S), NEW v \in S,
         Len(r) = Len(q) + 1, \A i \in 1 .. Len(q) : r[i] = q[i], r[Len(r)] = v
  PROVE  r = Append(q, v)
<1>1. /\ Append(q, v) \in Seq(S) /\ Len(Append(q, v)) = Len(q) + 1
      /\ \A i \in 1 .. Len(q) : Append(q, v)[i] = q[i]
      /\ Append(q, v)[Len(q) + 1] = v
  OBVIOUS
<1>2. Len(q) \in Nat
  OBVIOUS
<1>3. \A i \in 1 .. Len(r) : r[i] = Append(q, v)[i]
  BY <1>1, <1>2
<1> QED
  BY <1>1, <1>3, SeqEqual, Zenon

LEMMA TailByIndex ==
  ASSUME NEW S, NEW q \in Seq(S), NEW r \in Seq(S), q # <<>>,
         Len(r) = Len(q) - 1, \A i \in 1 .. Len(r) : r[i] = q[i + 1]
  PROVE  r = Tail(q)
<1>1. /\ Tail(q) \in Seq(S) /\ Len(Tail(q)) = Len(q) - 1
      /\ \A i \in 1 .. Len(q) - 1 : Tail(q)[i] = q[i + 1]
  OBVIOUS
<1> QED
  BY <1>1, SeqEqual


(* What the three kinds of steps do to the queue.                          *)
LEMMA QueueSame ==
  ASSUME TypeOK, QueueOK, QueueOK', UNCHANGED <<enq, deq>>, deq <= enq,
         \A p \in deq .. enq - 1 : Vals'[p] = Vals[p]
  PROVE  Queue' = Queue
<1>1. \A i \in 1 .. enq - deq : deq + i - 1 \in deq .. enq - 1
  BY DEF TypeOK
<1>2. Len(Queue') = Len(Queue) /\ \A i \in 1 .. Len(Queue) : Queue'[i] = Queue[i]
  BY <1>1, SMTT(30) DEF QueueOK
<1> QED
  BY <1>2, SeqEqual DEF QueueOK

LEMMA QueuePush ==
  ASSUME TypeOK, QueueOK, QueueOK', enq' = enq + 1, UNCHANGED deq, deq <= enq,
         \A p \in deq .. enq - 1 : Vals'[p] = Vals[p]
  PROVE  Queue' = Append(Queue, Vals'[enq])
<1> DEFINE S == Nat \cup {NoItem}
<1>0. PICK v : v = Vals'[enq]
  OBVIOUS
<1>1. Queue \in Seq(S) /\ Queue' \in Seq(S) /\ v \in S
  BY <1>0 DEF QueueOK, TypeOK
<1>2. Len(Queue) = enq - deq /\ Len(Queue') = enq - deq + 1
  BY DEF QueueOK, TypeOK
<1>3. \A i \in 1 .. Len(Queue) : Queue'[i] = Queue[i]
  <2> SUFFICES ASSUME NEW i \in 1 .. enq - deq PROVE Queue'[i] = Queue[i]
    BY <1>2
  <2>1. deq + i - 1 \in deq .. enq - 1
    BY DEF TypeOK
  <2>2. Queue[i] = Vals[deq + i - 1] /\ i \in 1 .. enq' - deq'
    BY DEF QueueOK, TypeOK
  <2>3. Queue'[i] = Vals'[deq + i - 1]
    BY <2>2 DEF QueueOK
  <2> QED
    BY <2>1, <2>2, <2>3
<1>4. Queue'[Len(Queue')] = v
  <2>1. enq - deq + 1 \in 1 .. enq' - deq' /\ deq + (enq - deq + 1) - 1 = enq
    BY DEF TypeOK
  <2>2. Queue'[enq - deq + 1] = Vals'[enq]
    BY <2>1 DEF QueueOK
  <2> QED
    BY <1>0, <1>2, <2>2
<1>5. Len(Queue') = Len(Queue) + 1
  BY <1>2
<1> HIDE DEF S
<1>6. Queue' = Append(Queue, v)
  BY <1>1, <1>3, <1>4, <1>5, AppendByIndex, SMT
<1> QED
  BY <1>0, <1>6

LEMMA QueuePop ==
  ASSUME TypeOK, QueueOK, QueueOK', deq' = deq + 1, UNCHANGED enq, deq < enq,
         \A p \in deq + 1 .. enq - 1 : Vals'[p] = Vals[p]
  PROVE  Queue # <<>> /\ Head(Queue) = Vals[deq] /\ Queue' = Tail(Queue)
<1> DEFINE S == Nat \cup {NoItem}
<1>1. Queue \in Seq(S) /\ Queue' \in Seq(S)
  BY DEF QueueOK
<1>2. Len(Queue) = enq - deq /\ Len(Queue') = enq - deq - 1
  BY DEF QueueOK, TypeOK
<1>3. Queue # <<>>
  BY <1>2 DEF TypeOK
<1>4. Head(Queue) = Vals[deq]
  <2>1. 1 \in 1 .. enq - deq /\ deq + 1 - 1 = deq
    BY DEF TypeOK
  <2>2. Queue[1] = Vals[deq]
    BY <2>1 DEF QueueOK
  <2> QED
    BY <1>1, <1>3, <2>2
<1>5. \A i \in 1 .. Len(Queue') : Queue'[i] = Queue[i + 1]
  <2> SUFFICES ASSUME NEW i \in 1 .. enq - deq - 1 PROVE Queue'[i] = Queue[i + 1]
    BY <1>2
  <2>1. /\ deq + i \in deq + 1 .. enq - 1
        /\ i \in 1 .. enq' - deq' /\ deq' + i - 1 = deq + i
        /\ i + 1 \in 1 .. enq - deq /\ deq + (i + 1) - 1 = deq + i
    BY DEF TypeOK
  <2>2. Queue[i + 1] = Vals[deq + i]
    BY <2>1 DEF QueueOK
  <2>3. Queue'[i] = Vals'[deq + i]
    BY <2>1 DEF QueueOK
  <2> QED
    BY <2>1, <2>2, <2>3
<1>6. Len(Queue') = Len(Queue) - 1
  BY <1>2
<1> HIDE DEF S
<1>7. Queue' = Tail(Queue)
  BY <1>1, <1>3, <1>5, <1>6, TailByIndex, Zenon
<1> QED
  BY <1>3, <1>4, <1>7


-----------------------------------------------------------------------------
(* Every step is a step of the queue *)

Good == TypeOK /\ IInv /\ DataInv

(* What a step that moves neither position may do to what t holds.         *)
LEMMA SameQueue ==
  ASSUME Good, Good', UNCHANGED <<enq, deq>>,
         \A p \in deq .. enq - 1 : Value(p)' = Value(p)
  PROVE  Queue' = Queue
<1>1. TypeOK /\ WinnersInv /\ TypeOK' /\ WinnersInv'
  BY DEF Good, IInv
<1>2. deq <= enq /\ (deq <= enq)'
  BY ParametersAssumption DEF Good, TypeOK, IInv, WindowInv, Bounded
<1>3. QueueOK
  BY <1>1, <1>2, QueueType
<1>4. QueueOK'
  BY <1>1, <1>2, QueueTypeNext
<1>5. \A p \in deq .. enq - 1 : Vals'[p] = Vals[p]
  BY <1>1 DEF Vals, TypeOK
<1> QED
  BY <1>1, <1>2, <1>3, <1>4, <1>5, QueueSame


(* A step of t that moves neither position, is no hand-over inside the     *)
(* cell and leaves what consumers hold alone, is invisible to the queue.   *)
LEMMA Invisible ==
  ASSUME Good, Good', UNCHANGED <<enq, deq>>,
         \A p \in deq .. enq - 1 : Value(p)' = Value(p),
         \A u \in Threads : Given(u)' = Given(u)
  PROVE  UNCHANGED Fifo!fifoVars
<1>1. Queue' = Queue
  BY SameQueue
<1>2. Gifts' = Gifts
  BY DEF Gifts
<1> QED
  BY <1>1, <1>2 DEF Fifo!fifoVars, Queue, Gifts

GivenLabels == {"pop_take", "pop_release"}

(* A step of t that is in no cell before nor after.                        *)
Outside(t) ==
  /\ pc[t] \in Labels \ (PushLabels \cup GivenLabels)
  /\ \E l \in Labels \ (PushLabels \cup GivenLabels) : pc' = [pc EXCEPT ![t] = l]
  /\ UNCHANGED <<data, enq, deq>>
  /\ \A u \in Threads \ {t} : pos'[u] = pos[u] /\ item'[u] = item[u]

LEMMA OutsideCells ==
  ASSUME Good, Good', NEW t \in Threads, Outside(t)
  PROVE  UNCHANGED Fifo!fifoVars
<1> USE DEF Good, TypeOK, Outside
<1>1. ASSUME NEW p \in deq .. enq - 1 PROVE Value(p)' = Value(p)
  BY ValueKept
<1>2. ASSUME NEW u \in Threads PROVE Given(u)' = Given(u)
  BY DEF Given, At, GivenLabels
<1> QED
  BY <1>1, <1>2, Invisible

(* A push that wins its position puts its value behind all others.         *)
LEMMA WinIsPush ==
  ASSUME Capacity >= 2, Good, Good', NEW t \in Threads, PushCas(t), enq = pos[t]
  PROVE  Fifo!Next
<1> USE DEF Good, TypeOK
<1>1. Capacity \in Nat /\ Capacity >= 2
  BY ParametersAssumption
<1>2. /\ At(t, "push_cas") /\ enq' = enq + 1 /\ pc' = [pc EXCEPT ![t] = "push_write"]
      /\ UNCHANGED <<seq, data, deq, pos, item>>
  BY DEF PushCas, GoTo, cellVars, callVars
<1>3. deq <= enq /\ enq + 1 - deq \in 0 .. Capacity
  <2>1. deq <= enq
    BY <1>1 DEF IInv, WindowInv, Bounded
  <2>2. enq' - deq' \in 0 .. Capacity
    BY DEF IInv, WindowInv, Bounded
  <2> QED
    BY <1>2, <2>1, <2>2
<1>4. ASSUME NEW p \in deq .. enq - 1 PROVE Vals'[p] = Vals[p]
  <2>1. p \in Nat /\ p # pos[t]
    BY <1>3
  <2>2. Value(p)' = Value(p)
    BY <1>2, <2>1, ValueKept DEF At, PushLabels
  <2> QED
    BY <2>1, <2>2 DEF Vals
<1>5. Vals'[enq] = item[t]
  <2>1. PICK p : p = enq
    OBVIOUS
  <2> DEFINE W == {u \in Threads : pc'[u] \in PushLabels /\ pos'[u] = p}
  <2>2. W = {t}
    BY <1>2, <2>1 DEF IInv, WinnersInv, PushingInv, Pushing, PushLabels
  <2>3. (CHOOSE u \in W : TRUE) = t
    BY <2>2
  <2>4. Value(p)' = IF W # {} THEN item'[CHOOSE u \in W : TRUE] ELSE data'[Slot(p)]
    BY DEF Value, Pushing, PushLabels
  <2>5. Value(p)' = item'[t]
    BY <2>2, <2>3, <2>4
  <2>6. p \in Nat
    BY <2>1
  <2>7. Vals'[p] = Value(p)'
    BY <2>6 DEF Vals
  <2> QED
    BY <1>2, <2>1, <2>5, <2>7
<1>6. QueueOK /\ QueueOK'
  <2>1. QueueOK
    BY <1>3, QueueType DEF IInv
  <2>2. (deq <= enq)'
    BY <1>2, <1>3
  <2> QED
    BY <2>1, <2>2, QueueTypeNext DEF IInv
<1>7. Queue' = Append(Queue, item[t])
  BY <1>2, <1>3, <1>4, <1>5, <1>6, QueuePush
<1>8. Len(Queue) < Capacity
  BY <1>1, <1>2, <1>3, <1>6, SMTT(30) DEF QueueOK
<1>9. item[t] \in 1 .. MaxPushes
  BY <1>2 DEF DataInv, At, Items
<1>10. Gifts' = Gifts
  BY <1>2 DEF Gifts, Given, At
<1> QED
  BY <1>7, <1>8, <1>9, <1>10 DEF Fifo!Next, Fifo!Push, Queue, Gifts

(* A pop that wins its position takes the oldest value.                    *)
LEMMA WinIsPop ==
  ASSUME Capacity >= 2, Good, Good', NEW t \in Threads, PopCas(t), deq = pos[t]
  PROVE  Fifo!Next
<1> USE DEF Good, TypeOK
<1>1. Capacity \in Nat /\ Capacity >= 2
  BY ParametersAssumption
<1>2. /\ At(t, "pop_cas") /\ deq' = deq + 1 /\ pc' = [pc EXCEPT ![t] = "pop_take"]
      /\ UNCHANGED <<seq, data, enq, pos, item>>
  BY DEF PopCas, GoTo, cellVars, callVars
<1>3. deq < enq
  BY DataPopWins
<1>4. ASSUME NEW p \in deq + 1 .. enq - 1 PROVE Vals'[p] = Vals[p]
  <2>1. p \in Nat
    OBVIOUS
  <2>2. Value(p)' = Value(p)
    BY <1>2, ValueKept DEF At, PushLabels
  <2> QED
    BY <2>1, <2>2 DEF Vals
<1>5. Vals[deq] = data[Slot(deq)]
  <2>1. ~ \E u \in Threads : Pushing(u) /\ pos[u] = deq
    BY <1>2 DEF IInv, PopCasInv, PushingInv
  <2>2. Value(deq) = data[Slot(deq)]
    BY <2>1, ValueInCell
  <2> QED
    BY <2>2 DEF Vals
<1>6. QueueOK /\ QueueOK'
  <2>1. QueueOK
    BY <1>3, QueueType DEF IInv
  <2>2. (deq <= enq)'
    BY <1>2, <1>3
  <2> QED
    BY <2>1, <2>2, QueueTypeNext DEF IInv
<1>7. Queue # <<>> /\ Head(Queue) = data[Slot(deq)] /\ Queue' = Tail(Queue)
  BY <1>2, <1>3, <1>4, <1>5, <1>6, QueuePop
<1>8. Gifts[t] = NoItem
  BY <1>2 DEF Gifts, Given, At
<1>9. Gifts' = [Gifts EXCEPT ![t] = data[Slot(deq)]]
  BY <1>2 DEF Gifts, Given, At
<1> QED
  BY <1>7, <1>8, <1>9 DEF Fifo!Next, Fifo!Pop, Queue, Gifts

(* Neither is seen: the value is copied into the cell that its position    *)
(* will be read from,                                                      *)
LEMMA WriteInvisible ==
  ASSUME Capacity >= 2, Good, Good', NEW t \in Threads, PushWrite(t)
  PROVE  UNCHANGED Fifo!fifoVars
<1> USE DEF Good, TypeOK
<1>1. Capacity \in Nat /\ Capacity >= 2
  BY ParametersAssumption
<1>2. /\ At(t, "push_write") /\ pc' = [pc EXCEPT ![t] = "push_publish"]
      /\ UNCHANGED <<seq, enq, deq, pos, item>>
  BY DEF PushWrite, GoTo, callVars
<1>3. \A p \in Nat :
        data'[Slot(p)] = IF Slot(p) = Slot(pos[t]) THEN item[t] ELSE data[Slot(p)]
  BY SlotType DEF PushWrite
<1>4. deq <= pos[t] /\ pos[t] < enq /\ enq <= deq + Capacity
  BY <1>1, <1>2 DEF IInv, PushingInv, Pushing, At, WindowInv, Bounded
<1>5. ASSUME NEW p \in deq .. enq - 1 PROVE Value(p)' = Value(p)
  <2>1. p # pos[t] => Slot(p) # Slot(pos[t])
    BY <1>1, <1>4, SlotsDiffer
  <2>2. data'[Slot(p)] = data[Slot(p)] \/ \E u \in Threads : pc[u] \in PushLabels /\ pos[u] = p
    BY <1>2, <1>3, <2>1 DEF At, PushLabels
  <2> QED
    BY <1>2, <2>2, ValueKept DEF At, PushLabels
<1>6. ASSUME NEW u \in Threads PROVE Given(u)' = Given(u)
  <2>1. pc'[u] \in GivenLabels <=> pc[u] \in GivenLabels
    BY <1>2 DEF At, GivenLabels
  <2>2. pc[u] = "pop_take" => data'[Slot(pos[u])] = data[Slot(pos[u])]
    BY <1>2, <1>3, Exclusive DEF SlotExclusive, InCell, Pushing, Popping, At
  <2> QED
    BY <1>2, <2>1, <2>2 DEF Given, At, GivenLabels
<1> QED
  BY <1>2, <1>5, <1>6, Invisible

(* the cell is passed on with the value in it,                             *)
LEMMA PublishInvisible ==
  ASSUME Capacity >= 2, Good, Good', NEW t \in Threads, PushPublish(t)
  PROVE  UNCHANGED Fifo!fifoVars
<1> USE DEF Good, TypeOK
<1>2. /\ At(t, "push_publish") /\ pc' = [pc EXCEPT ![t] = "idle"]
      /\ UNCHANGED <<data, enq, deq, pos>>
      /\ \A u \in Threads \ {t} : item'[u] = item[u]
  BY DEF PushPublish, GoTo
<1>3. ASSUME NEW p \in deq .. enq - 1, p # pos[t] PROVE Value(p)' = Value(p)
  BY <1>2, <1>3, ValueKept DEF At, PushLabels
<1>4. Value(pos[t])' = Value(pos[t])
  <2>1. Value(pos[t]) = item[t]
    BY <1>2, ValueOfWinner DEF At, Pushing, IInv
  <2>2. data[Slot(pos[t])] = item[t]
    BY <1>2 DEF DataInv
  <2>3. PICK p : p = pos[t]
    OBVIOUS
  <2>4. {u \in Threads : pc'[u] \in PushLabels /\ pos'[u] = p} = {}
    BY <1>2, <2>3 DEF IInv, WinnersInv, Pushing, PushLabels, At
  <2>5. Value(p)' = data'[Slot(p)]
    BY <2>4 DEF Value, Pushing, PushLabels
  <2>6. pos'[t] = p
    BY <1>2, <2>3
  <2> QED
    BY <1>2, <2>1, <2>2, <2>3, <2>5, <2>6
<1>5. ASSUME NEW u \in Threads PROVE Given(u)' = Given(u)
  BY <1>2 DEF Given, At
<1> QED
  BY <1>2, <1>3, <1>4, <1>5, Invisible

(* and the consumer copies it out of its cell.                             *)
LEMMA TakeInvisible ==
  ASSUME Capacity >= 2, Good, Good', NEW t \in Threads, PopTake(t)
  PROVE  UNCHANGED Fifo!fifoVars
<1> USE DEF Good, TypeOK
<1>1. /\ At(t, "pop_take") /\ pc' = [pc EXCEPT ![t] = "pop_release"]
      /\ UNCHANGED <<seq, data, enq, deq, pos>>
      /\ item' = [item EXCEPT ![t] = data[Slot(pos[t])]]
  BY DEF PopTake, GoTo, cellVars
<1>2. ASSUME NEW p \in deq .. enq - 1 PROVE Value(p)' = Value(p)
  BY <1>1, ValueKept DEF At, PushLabels
<1>3. ASSUME NEW u \in Threads PROVE Given(u)' = Given(u)
  BY <1>1 DEF Given, At
<1> QED
  BY <1>1, <1>2, <1>3, Invisible

(* The end of a pop hands the value out.                                   *)
LEMMA ReleaseIsDeliver ==
  ASSUME Capacity >= 2, Good, Good', NEW t \in Threads, PopRelease(t)
  PROVE  Fifo!Next
<1> USE DEF Good, TypeOK
<1>1. /\ At(t, "pop_release") /\ UNCHANGED <<data, enq, deq, pos>>
      /\ \E l \in {"idle", "pop_reload"} : pc' = [pc EXCEPT ![t] = l]
      /\ \A u \in Threads \ {t} : item'[u] = item[u]
  BY DEF PopRelease, GoTo
<1>2. ASSUME NEW p \in deq .. enq - 1 PROVE Value(p)' = Value(p)
  BY <1>1, ValueKept DEF At, PushLabels
<1>3. Queue' = Queue
  BY <1>1, <1>2, SameQueue
<1>4. Gifts[t] # NoItem
  BY <1>1, ParametersAssumption DEF Gifts, Given, At, DataInv, Items
<1>5. Gifts' = [Gifts EXCEPT ![t] = NoItem]
  BY <1>1 DEF Gifts, Given, At
<1> QED
  BY <1>3, <1>4, <1>5 DEF Fifo!Next, Fifo!Deliver, Queue, Gifts


LEMMA FifoInit == Init => Fifo!Init
<1> SUFFICES ASSUME Init PROVE Fifo!Init
  OBVIOUS
<1>1. Queue = <<>>
  BY DEF Init, Queue
<1>2. Gifts = [t \in Threads |-> NoItem]
  BY DEF Init, Gifts, Given, At
<1> QED
  BY <1>1, <1>2 DEF Fifo!Init, Queue, Gifts

LEMMA FifoStep ==
  ASSUME Capacity >= 2
  PROVE  Good /\ Good' /\ [Next]_vars => [Fifo!Next]_Fifo!fifoVars
<1> SUFFICES ASSUME Good, Good', [Next]_vars PROVE [Fifo!Next]_Fifo!fifoVars
  OBVIOUS
<1>0. TypeOK
  BY DEF Good
<1> USE <1>0 DEF TypeOK, cellVars, callVars, At, GoTo, Labels, PushLabels, GivenLabels
<1>1. ASSUME NEW t \in Threads, PushBegin(t) PROVE UNCHANGED Fifo!fifoVars
  <2>1. Outside(t)
    BY <1>1 DEF Outside, PushBegin
  <2> QED
    BY <2>1, OutsideCells
<1>2. ASSUME NEW t \in Threads, NEW n \in 1 .. MaxBulk, PopBegin(t, n)
      PROVE  UNCHANGED Fifo!fifoVars
  <2>1. Outside(t)
    BY <1>2 DEF Outside, PopBegin
  <2> QED
    BY <2>1, OutsideCells
<1>3. ASSUME NEW t \in Threads, SizeBegin(t) PROVE UNCHANGED Fifo!fifoVars
  <2>1. Outside(t)
    BY <1>3 DEF Outside, SizeBegin
  <2> QED
    BY <2>1, OutsideCells
<1>4. ASSUME NEW t \in Threads, PushLoadSeq(t) PROVE UNCHANGED Fifo!fifoVars
  <2>1. Outside(t)
    BY <1>4 DEF Outside, PushLoadSeq
  <2> QED
    BY <2>1, OutsideCells
<1>5. ASSUME NEW t \in Threads, PushReload(t) PROVE UNCHANGED Fifo!fifoVars
  <2>1. Outside(t)
    BY <1>5 DEF Outside, PushReload
  <2> QED
    BY <2>1, OutsideCells
<1>6. ASSUME NEW t \in Threads, PushCas(t) PROVE [Fifo!Next]_Fifo!fifoVars
  <2>1. CASE enq = pos[t]
    BY <1>6, <2>1, WinIsPush
  <2>2. CASE enq # pos[t]
    <3>1. Outside(t)
      BY <1>6, <2>2 DEF Outside, PushCas
    <3> QED
      BY <3>1, OutsideCells
  <2> QED
    BY <2>1, <2>2
<1>7. ASSUME NEW t \in Threads, PushWrite(t) PROVE UNCHANGED Fifo!fifoVars
  BY <1>7, WriteInvisible
<1>8. ASSUME NEW t \in Threads, PushPublish(t) PROVE UNCHANGED Fifo!fifoVars
  BY <1>8, PublishInvisible
<1>9. ASSUME NEW t \in Threads, PopLoadSeq(t) PROVE UNCHANGED Fifo!fifoVars
  <2>1. Outside(t)
    BY <1>9 DEF Outside, PopLoadSeq
  <2> QED
    BY <2>1, OutsideCells
<1>10. ASSUME NEW t \in Threads, PopReload(t) PROVE UNCHANGED Fifo!fifoVars
  <2>1. Outside(t)
    BY <1>10 DEF Outside, PopReload
  <2> QED
    BY <2>1, OutsideCells
<1>11. ASSUME NEW t \in Threads, PopCas(t) PROVE [Fifo!Next]_Fifo!fifoVars
  <2>1. CASE deq = pos[t]
    BY <1>11, <2>1, WinIsPop
  <2>2. CASE deq # pos[t]
    <3>1. Outside(t)
      BY <1>11, <2>2 DEF Outside, PopCas
    <3> QED
      BY <3>1, OutsideCells
  <2> QED
    BY <2>1, <2>2
<1>12. ASSUME NEW t \in Threads, PopTake(t) PROVE UNCHANGED Fifo!fifoVars
  BY <1>12, TakeInvisible
<1>13. ASSUME NEW t \in Threads, PopRelease(t) PROVE Fifo!Next
  BY <1>13, ReleaseIsDeliver
<1>14. ASSUME NEW t \in Threads, SizeEnd(t) PROVE UNCHANGED Fifo!fifoVars
  <2>1. Outside(t)
    BY <1>14 DEF Outside, SizeEnd
  <2> QED
    BY <2>1, OutsideCells
<1>15. CASE UNCHANGED vars
  <2>1. \A u \in Threads : Given(u)' = Given(u)
    BY <1>15 DEF vars, Given
  <2>2. \A p \in deq .. enq - 1 : Value(p)' = Value(p)
    BY <1>15, ValueKept DEF vars
  <2>3. UNCHANGED <<enq, deq>>
    BY <1>15 DEF vars
  <2> QED
    BY <2>1, <2>2, <2>3, Invisible
<1> QED
  BY <1>1, <1>2, <1>3, <1>4, <1>5, <1>6, <1>7, <1>8, <1>9, <1>10, <1>11,
     <1>12, <1>13, <1>14, <1>15 DEF Next, Begin, Continue

(* The ring implements the bounded first-in first-out queue: nothing is    *)
(* lost, duplicated or overtaken, and what a consumer was given stays as   *)
(* it is until its call ends, for every number of threads and of calls.    *)
THEOREM ImplementsQueue == ASSUME Capacity >= 2 PROVE Spec => ImplementsFifo
<1>1. Init => DataInv
  BY DataInit
<1>2. TypeOK /\ IInv /\ DataInv /\ [Next]_vars => DataInv'
  BY DataStep
<1>3. Spec => []Good
  BY <1>1, <1>2, TypeCorrect, Inductive, PTL DEF Spec, Good
<1>4. Init => Fifo!Init
  BY FifoInit
<1>5. Good /\ Good' /\ [Next]_vars => [Fifo!Next]_Fifo!fifoVars
  BY FifoStep
<1> QED
  BY <1>3, <1>4, <1>5, PTL DEF Spec, ImplementsFifo, Fifo!Spec

=============================================================================
