------------------------ MODULE IdDistributor_proofs ------------------------
(***************************************************************************)
(* Proofs about IdDistributor, for any number of threads, stripes and ids, *)
(* with or without failing allocations.                                    *)
(***************************************************************************)
EXTENDS IdDistributor, SequenceTheorems, TLAPS

-----------------------------------------------------------------------------
(* Type correctness *)

LEMMA TypeInit == Init => TypeOK
  BY ParametersAssumption
     DEF Init, TypeOK, Stripes, Ids, AnyId, Labels, Invalid, IdInHand

LEMMA CursorRange ==
  ASSUME NEW n \in Nat PROVE n % NumStripes \in Stripes
  BY ParametersAssumption, SMT DEF Stripes

LEMMA IdsAny == Ids \subseteq AnyId /\ Invalid \in AnyId /\ Invalid \notin Ids
  BY ParametersAssumption DEF Ids, AnyId, Invalid

LEMMA FrontType ==
  ASSUME NEW ids \in Seq(Ids), ids # <<>>
  PROVE  /\ Front(ids) \in Seq(Ids)
         /\ Len(ids) \in 1 .. Len(ids)
         /\ ids[Len(ids)] \in Ids
         /\ Len(Front(ids)) = Len(ids) - 1
         /\ \A k \in 1 .. Len(ids) - 1 : Front(ids)[k] = ids[k]
<1>1. Len(ids) \in Nat \ {0}
  OBVIOUS
<1>2. Len(ids) \in 1 .. Len(ids)
  BY <1>1
<1>3. ids[Len(ids)] \in Ids
  BY <1>2
<1> DEFINE n == Len(ids) - 1
<1>4. n \in Int /\ \A k \in 1 .. n : ids[k] \in Ids
  BY <1>1
<1>5. Front(ids) = SubSeq(ids, 1, n)
  BY DEF Front
<1> HIDE DEF n
<1>6. /\ SubSeq(ids, 1, n) \in Seq(Ids)
      /\ Len(SubSeq(ids, 1, n)) = IF 1 <= n THEN n - 1 + 1 ELSE 0
      /\ \A k \in 1 .. n - 1 + 1 : SubSeq(ids, 1, n)[k] = ids[1 + k - 1]
  BY <1>4, SubSeqProperties, SMT
<1>7. n \in Nat
  BY <1>1 DEF n
<1>8. Len(SubSeq(ids, 1, n)) = n
  BY <1>6, <1>7
<1>9. \A k \in 1 .. n : SubSeq(ids, 1, n)[k] = ids[k]
  <2> SUFFICES ASSUME NEW k \in 1 .. n PROVE SubSeq(ids, 1, n)[k] = ids[k]
    OBVIOUS
  <2>1. k \in 1 .. n - 1 + 1 /\ 1 + k - 1 = k
    BY <1>7
  <2> QED
    BY <1>6, <2>1
<1> QED
  BY <1>2, <1>3, <1>5, <1>6, <1>8, <1>9 DEF n

LEMMA TypeStep == TypeOK /\ [Next]_vars => TypeOK'
<1> SUFFICES ASSUME TypeOK, [Next]_vars PROVE TypeOK'
  OBVIOUS
<1> USE ParametersAssumption DEF TypeOK, Labels, At, GoTo, Call, scanVars
<1> USE IdsAny
<1>1. ASSUME NEW t \in Threads, AcquireId(t) PROVE TypeOK'
  <2>1. IdInHand'
    BY <1>1 DEF AcquireId, IdInHand
  <2> QED
    BY <1>1, <2>1 DEF AcquireId
<1>2. ASSUME NEW t \in Threads, NEW i \in Ids, OccupyId(t, i) PROVE TypeOK'
  <2>1. IdInHand'
    BY <1>2 DEF OccupyId, IdInHand
  <2> QED
    BY <1>2, <2>1 DEF OccupyId
<1>3. ASSUME NEW t \in Threads, NEW i \in Ids, ReleaseId(t, i) PROVE TypeOK'
  <2>1. IdInHand'
    BY <1>3 DEF ReleaseId, IdInHand
  <2> QED
    BY <1>3, <2>1 DEF ReleaseId
<1>4. ASSUME NEW t \in Threads, PopFree(t) PROVE TypeOK'
  <2>1. cursor + 1 \in Nat
    BY DEF Stripes
  <2>2. cursor' \in Stripes
    BY <1>4, <2>1, CursorRange DEF PopFree
  <2> QED
    BY <1>4, <2>2 DEF PopFree, IdInHand
<1>5. ASSUME NEW t \in Threads, ScanStripe(t) PROVE TypeOK'
  <2> DEFINE s == NextStripe(t)
  <2>1. s \in Stripes
    <3>1. start[t] + probe[t] \in Nat
      BY DEF Stripes
    <3> QED
      BY <3>1, CursorRange DEF NextStripe
  <2> HIDE DEF s
  <2>2. freeIds[s] \in Seq(Ids)
    BY <2>1
  <2>3. CASE freeIds[s] = <<>>
    <3>1. /\ probe' = [probe EXCEPT ![t] = @ + 1] /\ probe[t] < NumStripes
          /\ UNCHANGED <<active, nextId, cursor, handles, dropped, calls, start,
                         id, freeIds, pc>>
      BY <1>5, <2>3 DEF ScanStripe, s
    <3>2. probe' \in [Threads -> 0 .. NumStripes]
      BY <3>1
    <3> QED
      BY <3>1, <3>2 DEF IdInHand
  <2>4. CASE freeIds[s] # <<>>
    <3>1. freeIds[s][Len(freeIds[s])] \in Ids /\ Front(freeIds[s]) \in Seq(Ids)
      BY <2>2, <2>4, FrontType
    <3>3. /\ id' = [id EXCEPT ![t] = freeIds[s][Len(freeIds[s])]]
          /\ freeIds' = [freeIds EXCEPT ![s] = Front(freeIds[s])]
          /\ pc' = [pc EXCEPT ![t] = "recycle"]
          /\ UNCHANGED <<active, nextId, cursor, handles, dropped, calls, start, probe>>
      BY <1>5, <2>4 DEF ScanStripe, s
    <3>4. freeIds' \in [Stripes -> Seq(Ids)]
      BY <2>1, <3>1, <3>3
    <3>5. IdInHand'
      BY <3>1, <3>3 DEF IdInHand
    <3> QED
      BY <3>1, <3>3, <3>4, <3>5
  <2> QED
    BY <2>3, <2>4
<1>6. ASSUME NEW t \in Threads, NoneFree(t) PROVE TypeOK'
  <2>1. IdInHand'
    BY <1>6 DEF NoneFree, IdInHand
  <2> QED
    BY <1>6, <2>1 DEF NoneFree
<1>7. ASSUME NEW t \in Threads, FreshId(t) PROVE TypeOK'
  <2>1. (nextId + 1) % Width \in AnyId
    BY SMT DEF AnyId
  <2>2. nextId # Invalid => nextId \in Ids
    BY DEF AnyId, Ids, Invalid
  <2>3. IdInHand'
    BY <1>7, <2>2 DEF FreshId, Issuable, IdInHand
  <2> QED
    BY <1>7, <2>1, <2>3 DEF FreshId, Issuable
<1>8. ASSUME NEW t \in Threads, ActiveInsert(t) PROVE TypeOK'
  <2>1. IdInHand' /\ id[t] \in Ids
    BY <1>8 DEF ActiveInsert, AfterTaken, IdInHand
  <2>2. active' \in SUBSET Ids /\ handles' \in [Ids -> Nat]
    <3>1. CASE id[t] \in active
      BY <1>8, <3>1 DEF ActiveInsert, Claimable
    <3>2. CASE id[t] \notin active
      <4>1. /\ active' = active \cup {id[t]}
            /\ handles' = [handles EXCEPT ![id[t]] = handles[id[t]] + 1]
        BY <1>8, <3>2 DEF ActiveInsert, Claimable
      <4> QED
        BY <2>1, <4>1
    <3> QED
      BY <3>1, <3>2
  <2>3. pc' \in [Threads -> Labels]
    BY <1>8 DEF ActiveInsert, AfterTaken
  <2> QED
    BY <1>8, <2>1, <2>2, <2>3 DEF ActiveInsert
<1>9. ASSUME NEW t \in Threads, InsertThrows(t) PROVE TypeOK'
  <2>1. IdInHand'
    BY <1>9 DEF InsertThrows, IdInHand
  <2> QED
    BY <1>9, <2>1 DEF InsertThrows, IdInHand
<1>10. ASSUME NEW t \in Threads, ActiveErase(t) PROVE TypeOK'
  <2>1. IdInHand'
    BY <1>10 DEF ActiveErase, IdInHand
  <2> QED
    BY <1>10, <2>1 DEF ActiveErase, Erased
<1>11. ASSUME NEW t \in Threads, PushFree(t) PROVE TypeOK'
  <2>1. id[t] \in Ids /\ StripeOf[id[t]] \in Stripes
    BY <1>11 DEF PushFree, IdInHand
  <2>2. Append(freeIds[StripeOf[id[t]]], id[t]) \in Seq(Ids)
    BY <2>1
  <2>3. Pushed(id[t]) \in [Stripes -> Seq(Ids)]
    BY <2>1, <2>2 DEF Pushed
  <2> QED
    BY <1>11, <2>1, <2>3 DEF PushFree, IdInHand
<1>12. CASE UNCHANGED vars
  BY <1>12 DEF vars, IdInHand
<1> QED
  BY <1>1, <1>2, <1>3, <1>4, <1>5, <1>6, <1>7, <1>8, <1>9, <1>10, <1>11, <1>12
     DEF Next, Begin, Continue

(* Every variable keeps its type; in particular the free lists and the     *)
(* calls never carry the invalid id.                                       *)
THEOREM TypeCorrect == Spec => []TypeOK
<1>1. Init => TypeOK
  BY TypeInit
<1>2. TypeOK /\ [Next]_vars => TypeOK'
  BY TypeStep
<1> QED
  BY <1>1, <1>2, PTL DEF Spec

-----------------------------------------------------------------------------
(* Uniqueness of ids *)

LEMMA IInit == Init => IInv
  BY DEF Init, IInv, OneHolder, ActiveExact, Erasing, ReleaseInv, At

(* A step of t outside the release window that neither hands an id out nor *)
(* takes one back.                                                         *)
LEMMA QuietStep ==
  ASSUME TypeOK, IInv, NEW t \in Threads,
         UNCHANGED <<active, handles>>,
         \A u \in Threads : u # t => pc'[u] = pc[u] /\ id'[u] = id[u],
         pc[t] # "erase", pc'[t] # "erase"
  PROVE  IInv'
<1>1. \A u \in Threads : At(u, "erase")' <=> At(u, "erase")
  BY DEF At
<1>2. \A u \in Threads : At(u, "erase") => id'[u] = id[u]
  BY DEF At
<1>3. Erasing' = Erasing
  BY <1>1, <1>2 DEF Erasing, At
<1>4. ReleaseInv'
  BY <1>1, <1>2 DEF IInv, ReleaseInv, At
<1> QED
  BY <1>3, <1>4 DEF IInv, OneHolder, ActiveExact

LEMMA ReleaseStep ==
  ASSUME TypeOK, IInv, NEW t \in Threads, NEW i \in Ids, ReleaseId(t, i)
  PROVE  IInv'
<1> USE DEF TypeOK
<1>1. /\ pc' = [pc EXCEPT ![t] = "erase"] /\ id' = [id EXCEPT ![t] = i]
      /\ handles' = [handles EXCEPT ![i] = handles[i] - 1] /\ handles[i] > 0
      /\ pc[t] = "idle" /\ active' = active
  BY DEF ReleaseId, Call, At, GoTo
<1>2. handles[i] = 1
  BY <1>1 DEF IInv, OneHolder
<1>3. handles' = [handles EXCEPT ![i] = 0]
  BY <1>1, <1>2
<1>4. OneHolder'
  BY <1>3 DEF IInv, OneHolder
<1>5. Erasing' = Erasing \cup {i}
  BY <1>1 DEF Erasing, At
<1>6. {j \in Ids : handles'[j] > 0} = {j \in Ids : handles[j] > 0} \ {i}
  BY <1>3
<1>7. ActiveExact'
  <2>1. active = {j \in Ids : handles[j] > 0} \cup Erasing /\ i \in active
    BY <1>2 DEF IInv, ActiveExact
  <2> QED
    BY <1>1, <1>5, <1>6, <2>1, Zenon DEF ActiveExact
<1>8. \A u \in Threads : At(u, "erase") => id[u] # i
  BY <1>2 DEF IInv, ReleaseInv
<1>9. ReleaseInv'
  BY <1>1, <1>3, <1>8 DEF IInv, ReleaseInv, At
<1> QED
  BY <1>4, <1>7, <1>9 DEF IInv

LEMMA EraseStep ==
  ASSUME TypeOK, IInv, NEW t \in Threads, ActiveErase(t)
  PROVE  IInv'
<1> USE DEF TypeOK
<1>1. /\ pc[t] = "erase" /\ pc'[t] # "erase" /\ active' = active \ {id[t]}
      /\ \A u \in Threads : u # t => pc'[u] = pc[u]
      /\ UNCHANGED <<id, handles>>
  BY DEF ActiveErase, Erased, At, GoTo
<1>2. handles[id[t]] = 0
  BY <1>1 DEF IInv, ReleaseInv, At
<1>3. Erasing' = Erasing \ {id[t]}
  BY <1>1 DEF IInv, ReleaseInv, Erasing, At
<1>4. ActiveExact'
  BY <1>1, <1>2, <1>3 DEF IInv, ActiveExact
<1>5. ReleaseInv'
  BY <1>1 DEF IInv, ReleaseInv, At
<1> QED
  BY <1>1, <1>4, <1>5 DEF IInv, OneHolder

LEMMA InsertStep ==
  ASSUME TypeOK, IInv, NEW t \in Threads, ActiveInsert(t)
  PROVE  IInv'
<1> USE DEF TypeOK
<1>1. /\ pc[t] \in {"recycle", "insert", "occupy"} /\ pc'[t] # "erase"
      /\ \A u \in Threads : u # t => pc'[u] = pc[u]
      /\ id' = id /\ id[t] \in Ids
  BY DEF ActiveInsert, AfterTaken, GoTo, IdInHand
<1>2. CASE id[t] \in active
  BY <1>1, <1>2, QuietStep DEF ActiveInsert, Claimable
<1>3. CASE id[t] \notin active
  <2>1. /\ active' = active \cup {id[t]}
        /\ handles' = [handles EXCEPT ![id[t]] = handles[id[t]] + 1]
    BY <1>3 DEF ActiveInsert, Claimable
  <2>2. handles[id[t]] = 0
    BY <1>1, <1>3 DEF IInv, ActiveExact
  <2>3. handles' = [handles EXCEPT ![id[t]] = 1]
    BY <2>1, <2>2
  <2>4. OneHolder'
    BY <2>3 DEF IInv, OneHolder
  <2>5. Erasing' = Erasing
    BY <1>1 DEF Erasing, At
  <2>6. id[t] \notin Erasing
    BY <1>3 DEF IInv, ActiveExact
  <2>7. ActiveExact'
    BY <1>1, <2>1, <2>3, <2>5 DEF IInv, ActiveExact
  <2>8. ReleaseInv'
    <3>1. \A u \in Threads : pc[u] = "erase" => id[u] # id[t]
      BY <1>1, <2>6 DEF Erasing, At
    <3>2. \A u \in Threads : pc'[u] = "erase" => pc[u] = "erase"
      BY <1>1
    <3>3. \A u \in Threads : pc[u] = "erase" => handles'[id[u]] = handles[id[u]]
      BY <2>3, <3>1 DEF IdInHand
    <3> QED
      BY <1>1, <3>2, <3>3 DEF IInv, ReleaseInv, At
  <2> QED
    BY <2>4, <2>7, <2>8 DEF IInv
<1> QED
  BY <1>2, <1>3

LEMMA IStep == TypeOK /\ IInv /\ [Next]_vars => IInv'
<1> SUFFICES ASSUME TypeOK, IInv, [Next]_vars PROVE IInv'
  OBVIOUS
<1> USE DEF At, GoTo, Call, TypeOK
<1>1. ASSUME NEW t \in Threads, AcquireId(t) PROVE IInv'
  BY <1>1, QuietStep DEF AcquireId
<1>2. ASSUME NEW t \in Threads, NEW i \in Ids, OccupyId(t, i) PROVE IInv'
  BY <1>2, QuietStep DEF OccupyId
<1>3. ASSUME NEW t \in Threads, NEW i \in Ids, ReleaseId(t, i) PROVE IInv'
  BY <1>3, ReleaseStep
<1>4. ASSUME NEW t \in Threads, PopFree(t) PROVE IInv'
  BY <1>4, QuietStep DEF PopFree
<1>5. ASSUME NEW t \in Threads, ScanStripe(t) PROVE IInv'
  BY <1>5, QuietStep DEF ScanStripe
<1>6. ASSUME NEW t \in Threads, NoneFree(t) PROVE IInv'
  BY <1>6, QuietStep DEF NoneFree
<1>7. ASSUME NEW t \in Threads, FreshId(t) PROVE IInv'
  BY <1>7, QuietStep DEF FreshId
<1>8. ASSUME NEW t \in Threads, ActiveInsert(t) PROVE IInv'
  BY <1>8, InsertStep
<1>9. ASSUME NEW t \in Threads, InsertThrows(t) PROVE IInv'
  BY <1>9, QuietStep DEF InsertThrows
<1>10. ASSUME NEW t \in Threads, ActiveErase(t) PROVE IInv'
  BY <1>10, EraseStep
<1>11. ASSUME NEW t \in Threads, PushFree(t) PROVE IInv'
  BY <1>11, QuietStep DEF PushFree
<1>12. CASE UNCHANGED vars
  BY <1>12 DEF vars, IInv, OneHolder, ActiveExact, Erasing, ReleaseInv
<1> QED
  BY <1>1, <1>2, <1>3, <1>4, <1>5, <1>6, <1>7, <1>8, <1>9, <1>10, <1>11, <1>12
     DEF Next, Begin, Continue

THEOREM Inductive == Spec => []IInv
<1>1. Init => IInv
  BY IInit
<1>2. TypeOK /\ IInv /\ [Next]_vars => IInv'
  BY IStep
<1> QED
  BY <1>1, <1>2, TypeCorrect, PTL DEF Spec

(* No two callers ever hold the same id.                                   *)
THEOREM IdsUnique == Spec => []OneHolder
<1>1. IInv => OneHolder
  BY DEF IInv
<1> QED
  BY <1>1, Inductive, PTL

(* The active set is exactly the ids in use.                               *)
THEOREM ActiveSetExact == Spec => []ActiveExact
<1>1. IInv => ActiveExact
  BY DEF IInv
<1> QED
  BY <1>1, Inductive, PTL

-----------------------------------------------------------------------------
(* No id is lost *)

Kept(i) == i \in active \/ Listed(i) \/ InFlight(i) \/ i \in dropped

(* A step of t that leaves the free lists alone and after which t's id, if *)
(* t had one in its hands, is still kept.                                  *)
LEMMA KeptStep ==
  ASSUME TypeOK, NEW t \in Threads, UNCHANGED <<freeIds>>,
         active \subseteq active', dropped \subseteq dropped',
         \A u \in Threads : u # t => pc'[u] = pc[u] /\ id'[u] = id[u],
         NEW i \in AnyId, Kept(i),
         pc[t] \in {"recycle", "insert", "push"} /\ id[t] = i => Kept(i)'
  PROVE  Kept(i)'
<1>1. CASE i \in active \/ i \in dropped \/ Listed(i)
  BY <1>1 DEF Kept, Listed
<1>2. CASE InFlight(i)
  <2>1. PICK u \in Threads : pc[u] \in {"recycle", "insert", "push"} /\ id[u] = i
    BY <1>2 DEF InFlight
  <2>2. CASE u = t
    BY <2>1, <2>2
  <2>3. CASE u # t
    BY <2>1, <2>3 DEF Kept, InFlight
  <2> QED
    BY <2>2, <2>3
<1> QED
  BY <1>1, <1>2 DEF Kept

(* Popping a stack keeps what is below its top.                            *)
LEMMA ScanKeeps ==
  ASSUME TypeOK, NEW t \in Threads, ScanStripe(t), NEW i \in AnyId, Kept(i)
  PROVE  Kept(i)'
<1> USE DEF TypeOK, scanVars, At, GoTo
<1> DEFINE s == NextStripe(t)
<1>1. s \in Stripes
  <2>1. start[t] + probe[t] \in Nat
    BY DEF Stripes
  <2> QED
    BY <2>1, CursorRange DEF NextStripe
<1>2. CASE freeIds[s] = <<>>
  BY <1>2, KeptStep DEF ScanStripe
<1>3. CASE freeIds[s] # <<>>
  <2> DEFINE ids == freeIds[s]
  <2>1. /\ freeIds' = [freeIds EXCEPT ![s] = Front(ids)]
        /\ id' = [id EXCEPT ![t] = ids[Len(ids)]]
        /\ pc' = [pc EXCEPT ![t] = "recycle"] /\ pc[t] = "scan"
        /\ UNCHANGED <<active, dropped>>
    BY <1>3 DEF ScanStripe
  <2> HIDE DEF s
  <2>2. /\ ids \in Seq(Ids) /\ ids # <<>>
    BY <1>1, <1>3
  <2> HIDE DEF ids
  <2>3. /\ Len(ids) \in Nat
        /\ Len(Front(ids)) = Len(ids) - 1
        /\ \A k \in 1 .. Len(ids) - 1 : Front(ids)[k] = ids[k]
    BY <2>2, FrontType
  <2>4. CASE i \in active \/ i \in dropped
    BY <2>1, <2>4 DEF Kept
  <2>5. CASE InFlight(i)
    BY <2>1, <2>5 DEF Kept, InFlight
  <2>6. CASE Listed(i)
    <3>1. PICK r \in Stripes : \E k \in 1 .. Len(freeIds[r]) : freeIds[r][k] = i
      BY <2>6 DEF Listed
    <3>2. CASE r # s
      BY <2>1, <3>1, <3>2 DEF Kept, Listed
    <3>3. CASE r = s
      <4>1. PICK k \in 1 .. Len(ids) : ids[k] = i
        BY <3>1, <3>3 DEF ids
      <4>2. CASE k = Len(ids)
        <5>1. id'[t] = i /\ pc'[t] = "recycle"
          BY <2>1, <4>1, <4>2
        <5> QED
          BY <5>1 DEF Kept, InFlight
      <4>3. CASE k # Len(ids)
        <5>1. freeIds'[s] = Front(ids) /\ k \in 1 .. Len(Front(ids)) /\ Front(ids)[k] = i
          <6>1. freeIds'[s] = Front(ids)
            BY <1>1, <2>1
          <6>2. k \in 1 .. Len(ids) - 1
            BY <2>3, <4>1, <4>3
          <6> QED
            BY <2>3, <4>1, <6>1, <6>2
        <5> QED
          BY <1>1, <5>1 DEF Kept, Listed
      <4> QED
        BY <4>2, <4>3
    <3> QED
      BY <3>2, <3>3
  <2> QED
    BY <2>4, <2>5, <2>6 DEF Kept
<1> QED
  BY <1>2, <1>3

(* Pushing keeps what is in the stack and adds the id.                     *)
LEMMA PushKeeps ==
  ASSUME TypeOK, NEW t \in Threads, PushFree(t), NEW i \in AnyId, Kept(i)
  PROVE  Kept(i)'
<1> USE DEF TypeOK, scanVars, At, GoTo
<1>1. /\ pc[t] = "push" /\ id[t] \in Ids /\ pc' = [pc EXCEPT ![t] = "idle"]
      /\ UNCHANGED <<active, id>>
  BY DEF PushFree, IdInHand
<1>2. CASE UNCHANGED freeIds /\ dropped' = dropped \cup {id[t]}
  BY <1>1, <1>2, KeptStep DEF Kept
<1>3. CASE freeIds' = Pushed(id[t]) /\ UNCHANGED dropped
  <2> DEFINE s == StripeOf[id[t]]
             ids == freeIds[s]
  <2>1. s \in Stripes /\ ids \in Seq(Ids)
    BY <1>1, ParametersAssumption
  <2>2. freeIds' = [freeIds EXCEPT ![s] = Append(ids, id[t])]
    BY <1>3 DEF Pushed
  <2> HIDE DEF s
  <2>3. /\ Len(ids) \in Nat
        /\ Len(Append(ids, id[t])) = Len(ids) + 1
        /\ \A k \in 1 .. Len(ids) : Append(ids, id[t])[k] = ids[k]
        /\ Append(ids, id[t])[Len(ids) + 1] = id[t]
    BY <1>1, <2>1
  <2> DEFINE longer == Append(ids, id[t])
  <2>4. freeIds'[s] = longer /\ \A r \in Stripes : r # s => freeIds'[r] = freeIds[r]
    BY <2>1, <2>2
  <2>5. /\ Len(longer) = Len(ids) + 1 /\ longer[Len(ids) + 1] = id[t]
        /\ \A k \in 1 .. Len(ids) : longer[k] = ids[k]
    BY <2>3
  <2> HIDE DEF longer
  <2>6. CASE i \in active \/ i \in dropped
    BY <1>1, <1>3, <2>6 DEF Kept
  <2>7. CASE InFlight(i)
    <3>1. PICK u \in Threads : pc[u] \in {"recycle", "insert", "push"} /\ id[u] = i
      BY <2>7 DEF InFlight
    <3>2. CASE u = t
      <4>1. Len(ids) + 1 \in 1 .. Len(longer) /\ longer[Len(ids) + 1] = i
        BY <2>3, <2>5, <3>1, <3>2
      <4> QED
        BY <2>1, <2>4, <4>1 DEF Kept, Listed
    <3>3. CASE u # t
      BY <1>1, <3>1, <3>3 DEF Kept, InFlight
    <3> QED
      BY <3>2, <3>3
  <2>8. CASE Listed(i)
    <3>1. PICK r \in Stripes : \E k \in 1 .. Len(freeIds[r]) : freeIds[r][k] = i
      BY <2>8 DEF Listed
    <3>2. CASE r # s
      BY <2>4, <3>1, <3>2 DEF Kept, Listed
    <3>3. CASE r = s
      <4>1. PICK k \in 1 .. Len(ids) : ids[k] = i
        BY <3>1, <3>3
      <4>2. k \in 1 .. Len(longer) /\ longer[k] = i
        BY <2>3, <2>5, <4>1
      <4> QED
        BY <2>1, <2>4, <4>2 DEF Kept, Listed
    <3> QED
      BY <3>2, <3>3
  <2> QED
    BY <2>6, <2>7, <2>8 DEF Kept
<1> QED
  BY <1>2, <1>3 DEF PushFree

LEMMA EraseKeeps ==
  ASSUME TypeOK, NEW t \in Threads, ActiveErase(t), NEW i \in AnyId, Kept(i)
  PROVE  Kept(i)'
<1> USE DEF TypeOK, scanVars, At, GoTo
<1>1. /\ pc[t] = "erase" /\ active' = active \ {id[t]}
      /\ id[t] \in active => pc' = [pc EXCEPT ![t] = "push"]
      /\ \A u \in Threads : u # t => pc'[u] = pc[u]
      /\ UNCHANGED <<freeIds, dropped, id>>
  BY DEF ActiveErase, Erased
<1>2. CASE i \in active /\ i = id[t]
  BY <1>1, <1>2 DEF Kept, InFlight
<1>3. CASE i \in active /\ i # id[t]
  BY <1>1, <1>3 DEF Kept
<1>4. CASE i \in dropped \/ Listed(i)
  BY <1>1, <1>4 DEF Kept, Listed
<1>5. CASE InFlight(i)
  BY <1>1, <1>5 DEF Kept, InFlight
<1> QED
  BY <1>2, <1>3, <1>4, <1>5 DEF Kept

LEMMA KeptByNext ==
  ASSUME TypeOK, [Next]_vars, NEW i \in AnyId, Kept(i)
  PROVE  Kept(i)'
<1> USE DEF TypeOK, scanVars, At, GoTo, Call
<1>1. ASSUME NEW t \in Threads, AcquireId(t) PROVE Kept(i)'
  BY <1>1, KeptStep DEF AcquireId
<1>2. ASSUME NEW t \in Threads, NEW j \in Ids, OccupyId(t, j) PROVE Kept(i)'
  BY <1>2, KeptStep DEF OccupyId
<1>3. ASSUME NEW t \in Threads, NEW j \in Ids, ReleaseId(t, j) PROVE Kept(i)'
  BY <1>3, KeptStep DEF ReleaseId
<1>4. ASSUME NEW t \in Threads, PopFree(t) PROVE Kept(i)'
  BY <1>4, KeptStep DEF PopFree
<1>5. ASSUME NEW t \in Threads, ScanStripe(t) PROVE Kept(i)'
  BY <1>5, ScanKeeps
<1>6. ASSUME NEW t \in Threads, NoneFree(t) PROVE Kept(i)'
  BY <1>6, KeptStep DEF NoneFree
<1>7. ASSUME NEW t \in Threads, FreshId(t) PROVE Kept(i)'
  BY <1>7, KeptStep DEF FreshId
<1>8. ASSUME NEW t \in Threads, ActiveInsert(t) PROVE Kept(i)'
  <2>1. id[t] \in active' /\ active \subseteq active'
    BY <1>8 DEF ActiveInsert, Claimable
  <2> QED
    BY <1>8, <2>1, KeptStep DEF ActiveInsert, Kept
<1>9. ASSUME NEW t \in Threads, InsertThrows(t) PROVE Kept(i)'
  BY <1>9, KeptStep DEF InsertThrows, Kept
<1>10. ASSUME NEW t \in Threads, ActiveErase(t) PROVE Kept(i)'
  BY <1>10, EraseKeeps
<1>11. ASSUME NEW t \in Threads, PushFree(t) PROVE Kept(i)'
  BY <1>11, PushKeeps
<1>12. CASE UNCHANGED vars
  BY <1>12 DEF vars, Kept, Listed, InFlight
<1> QED
  BY <1>1, <1>2, <1>3, <1>4, <1>5, <1>6, <1>7, <1>8, <1>9, <1>10, <1>11, <1>12
     DEF Next, Begin, Continue

(* The one step that issues a fresh id has it in its hands.                *)
LEMMA FreshKept ==
  ASSUME TypeOK, [Next]_vars, nextId' # nextId
  PROVE  /\ nextId' = (nextId + 1) % Width
         /\ \A i \in Ids : i = nextId => Kept(i)'
<1> USE DEF TypeOK
<1>1. PICK t \in Threads : FreshId(t)
  <2>1. Next
    BY DEF vars
  <2>2. PICK t \in Threads : Begin(t) \/ Continue(t) \/ InsertThrows(t)
    BY <2>1 DEF Next
  <2>3. ~Begin(t)
    BY <2>2 DEF Begin, AcquireId, OccupyId, ReleaseId
  <2>4. Continue(t) \/ InsertThrows(t)
    BY <2>2, <2>3
  <2> QED
    BY <2>4 DEF Continue, PopFree, ScanStripe, NoneFree, ActiveInsert, InsertThrows,
                ActiveErase, PushFree
<1>2. nextId \in Ids => id'[t] = nextId /\ pc'[t] = "insert"
  BY <1>1, IdsAny DEF FreshId, Issuable, GoTo
<1> QED
  BY <1>1, <1>2 DEF FreshId, Kept, InFlight

LEMMA Wrapped ==
  ASSUME NEW w \in Nat \ {0}, NEW n \in 0 .. w
  PROVE  n % w = IF n = w THEN 0 ELSE n
  BY SMT

LEMMA NothingLostStep == TypeOK /\ NothingLost /\ [Next]_vars => NothingLost'
<1> SUFFICES ASSUME TypeOK, NothingLost, [Next]_vars, NEW i \in Ids, i < nextId'
             PROVE  Kept(i)'
  BY DEF NothingLost, Kept
<1>1. nextId \in Nat /\ nextId < Width /\ Width \in Nat \ {0}
  BY ParametersAssumption DEF TypeOK, AnyId
<1>2. i \in Nat \ {0} /\ i \in AnyId
  BY <1>1 DEF Ids, AnyId
<1>3. CASE i < nextId
  <2>1. Kept(i)
    BY <1>3 DEF NothingLost, Kept
  <2> QED
    BY <1>2, <2>1, KeptByNext
<1>4. CASE i >= nextId
  <2>1. nextId' # nextId
    BY <1>1, <1>2, <1>4
  <2>2. nextId' = (nextId + 1) % Width
    BY <2>1, FreshKept
  <2>3. nextId' = IF nextId + 1 = Width THEN 0 ELSE nextId + 1
    <3>1. nextId + 1 \in 0 .. Width
      BY <1>1
    <3> QED
      BY <1>1, <2>2, <3>1, Wrapped
  <2>4. i = nextId
    BY <1>1, <1>2, <1>4, <2>3
  <2> QED
    BY <2>1, <2>4, FreshKept
<1> QED
  BY <1>1, <1>2, <1>3, <1>4

(* Every id the counter has passed is in use, recyclable, in a call's      *)
(* hands, or was dropped by a failed allocation.                           *)
THEOREM NoIdLost == Spec => []NothingLost
<1>1. Init => NothingLost
  BY DEF Init, NothingLost, Ids
<1>2. TypeOK /\ NothingLost /\ [Next]_vars => NothingLost'
  BY NothingLostStep
<1> QED
  BY <1>1, <1>2, TypeCorrect, PTL DEF Spec

-----------------------------------------------------------------------------
(* The scan of the free lists *)

(* No thread but t has ever finished a call.                               *)
Alone(t) == \A u \in Threads \ {t} : At(u, "idle") /\ id[u] = Invalid

(* What a thread that is alone has seen stays so: the stripes it has       *)
(* scanned are empty, and all of them are once it has taken to the counter.*)
ScanInv ==
  \A t \in Threads : Alone(t) =>
    /\ At(t, "scan") =>
         \A k \in 0 .. probe[t] - 1 : freeIds[(start[t] + k) % NumStripes] = <<>>
    /\ pc[t] \in {"fresh", "insert"} => \A s \in Stripes : freeIds[s] = <<>>

(* Counting NumStripes times from any stripe visits every stripe.          *)
LEMMA AllVisited ==
  ASSUME NEW from \in Stripes, NEW s \in Stripes
  PROVE  \E k \in 0 .. NumStripes - 1 : (from + k) % NumStripes = s
<1>1. NumStripes \in Nat \ {0}
  BY ParametersAssumption
<1>2. CASE s >= from
  <2>1. s - from \in 0 .. NumStripes - 1 /\ from + (s - from) = s
    BY <1>1, <1>2 DEF Stripes
  <2>2. s % NumStripes = s
    BY <1>1, Wrapped DEF Stripes
  <2> QED
    BY <2>1, <2>2
<1>3. CASE s < from
  <2>1. s + NumStripes - from \in 0 .. NumStripes - 1
    BY <1>1, <1>3 DEF Stripes
  <2>2. from + (s + NumStripes - from) = s + NumStripes
    BY <1>1 DEF Stripes
  <2>3. (s + NumStripes) % NumStripes = s
    BY <1>1, SMT DEF Stripes
  <2> QED
    BY <2>1, <2>2, <2>3
<1> QED
  BY <1>1, <1>2, <1>3 DEF Stripes

(* A thread that ends a call has an id: whoever is alone after a step of   *)
(* another thread never was.                                               *)
LEMMA AloneStep ==
  ASSUME TypeOK, NEW t \in Threads, NEW u \in Threads \ {t},
         Begin(u) \/ Continue(u) \/ InsertThrows(u)
  PROVE  ~Alone(t)'
<1> USE DEF TypeOK, IdInHand, At, GoTo, Call, scanVars
<1> SUFFICES ASSUME pc'[u] = "idle", id'[u] = Invalid PROVE FALSE
  BY DEF Alone
<1>1. ~Begin(u)
  BY DEF Begin, AcquireId, OccupyId, ReleaseId
<1>2. id[u] \in Ids => id'[u] = Invalid /\ id[u] # Invalid
  BY IdsAny
<1>3. ~PopFree(u) /\ ~ScanStripe(u) /\ ~NoneFree(u) /\ ~FreshId(u)
  BY DEF PopFree, ScanStripe, NoneFree, FreshId
<1>4. ~ActiveInsert(u) /\ ~ActiveErase(u) /\ ~PushFree(u) /\ ~InsertThrows(u)
  BY <1>2 DEF ActiveInsert, ActiveErase, PushFree, InsertThrows
<1> QED
  BY <1>1, <1>3, <1>4 DEF Continue

LEMMA ScanStep ==
  ASSUME TypeOK, ScanInv, NEW t \in Threads, Alone(t)', Alone(t),
         Begin(t) \/ Continue(t) \/ InsertThrows(t)
  PROVE  /\ At(t, "scan")' =>
              \A k \in 0 .. probe'[t] - 1 : freeIds'[(start'[t] + k) % NumStripes] = <<>>
         /\ pc'[t] \in {"fresh", "insert"} => \A s \in Stripes : freeIds'[s] = <<>>
<1> USE ParametersAssumption DEF TypeOK, At, GoTo, Call, scanVars
<1>1. CASE Begin(t)
  BY <1>1 DEF Begin, AcquireId, OccupyId, ReleaseId
<1>2. CASE PopFree(t)
  BY <1>2 DEF PopFree
<1>3. CASE ScanStripe(t)
  <2>1. CASE freeIds[NextStripe(t)] = <<>>
    <3>1. /\ probe'[t] = probe[t] + 1 /\ pc[t] = "scan"
          /\ UNCHANGED <<start, freeIds, pc>>
      BY <1>3, <2>1 DEF ScanStripe
    <3>2. \A k \in 0 .. probe[t] - 1 : freeIds[(start[t] + k) % NumStripes] = <<>>
      BY <3>1 DEF ScanInv
    <3> QED
      BY <2>1, <3>1, <3>2 DEF NextStripe
  <2>2. CASE freeIds[NextStripe(t)] # <<>>
    BY <1>3, <2>2 DEF ScanStripe
  <2> QED
    BY <2>1, <2>2
<1>4. CASE NoneFree(t)
  <2>1. /\ pc'[t] = "fresh" /\ UNCHANGED freeIds
        /\ \A k \in 0 .. NumStripes - 1 : freeIds[(start[t] + k) % NumStripes] = <<>>
    BY <1>4 DEF NoneFree, ScanInv
  <2> QED
    BY <2>1, AllVisited
<1>5. CASE FreshId(t)
  BY <1>5 DEF FreshId, ScanInv
<1>6. CASE ActiveInsert(t)
  BY <1>6 DEF ActiveInsert, AfterTaken, ScanInv
<1>7. CASE InsertThrows(t) \/ ActiveErase(t) \/ PushFree(t)
  BY <1>7 DEF InsertThrows, ActiveErase, PushFree
<1> QED
  BY <1>1, <1>2, <1>3, <1>4, <1>5, <1>6, <1>7 DEF Continue

LEMMA ScanInvStep == TypeOK /\ ScanInv /\ [Next]_vars => ScanInv'
<1> SUFFICES ASSUME TypeOK, ScanInv, [Next]_vars, NEW t \in Threads, Alone(t)'
             PROVE  /\ At(t, "scan")' =>
                         \A k \in 0 .. probe'[t] - 1 :
                           freeIds'[(start'[t] + k) % NumStripes] = <<>>
                    /\ pc'[t] \in {"fresh", "insert"} =>
                         \A s \in Stripes : freeIds'[s] = <<>>
  BY DEF ScanInv
<1>1. CASE UNCHANGED vars
  BY <1>1 DEF vars, scanVars, ScanInv, Alone, At
<1>2. CASE Next
  <2>1. PICK u \in Threads : Begin(u) \/ Continue(u) \/ InsertThrows(u)
    BY <1>2 DEF Next
  <2>2. u = t
    BY <2>1, AloneStep
  <2>3. Alone(t)
    <3> SUFFICES ASSUME NEW v \in Threads \ {t} PROVE pc[v] = "idle" /\ id[v] = Invalid
      BY DEF Alone, At
    <3>1. pc'[v] = "idle" /\ id'[v] = Invalid
      BY DEF Alone, At
    <3>2. pc'[v] = pc[v] /\ id'[v] = id[v]
      BY <2>1, <2>2
         DEF TypeOK, Begin, Continue, AcquireId, OccupyId, ReleaseId, PopFree, ScanStripe,
             NoneFree, FreshId, ActiveInsert, InsertThrows, ActiveErase, PushFree, GoTo, Call
    <3> QED
      BY <3>1, <3>2
  <2> QED
    BY <2>1, <2>2, <2>3, ScanStep
<1> QED
  BY <1>1, <1>2

(* A thread that nobody disturbs takes a new id from the counter only when *)
(* there is none to recycle in any stripe, wherever its scan started.      *)
THEOREM ScansAreComplete == Spec => []ScanComplete
<1>1. Init => ScanInv
  BY DEF Init, ScanInv, At
<1>2. TypeOK /\ ScanInv /\ [Next]_vars => ScanInv'
  BY ScanInvStep
<1>3. ScanInv => ScanComplete
  BY DEF ScanInv, ScanComplete, Alone, At
<1> QED
  BY <1>1, <1>2, <1>3, TypeCorrect, PTL DEF Spec

=============================================================================
