-------------------------- MODULE BoundedQueueProofs --------------------------
(***************************************************************************)
(* The accounting and the order of a BoundedQueue, for every capacity and  *)
(* whatever its users call.                                                *)
(***************************************************************************)
EXTENDS BoundedQueue, QueueOpsProofs

IInv == TypeOK /\ Accounting /\ DeliveryOrder

LEMMA Initially == Init => IInv
<1> SUFFICES ASSUME Init PROVE IInv
  OBVIOUS
<1>1. closed \in BOOLEAN
  BY Zenon DEF Init
<1>2. TypeOK
  BY <1>1, CapacityAssumption DEF Init, TypeOK
<1>3. Accounting
  BY DEF Init, Accounting
<1>4. DeliveryOrder
  BY DEF Init, DeliveryOrder
<1> QED
  BY <1>2, <1>3, <1>4 DEF IInv

LEMMA Inductive == IInv /\ [Next]_vars => IInv'
<1> SUFFICES ASSUME TypeOK, Accounting, DeliveryOrder, [Next]_vars PROVE IInv'
  BY DEF IInv
<1> USE CapacityAssumption
<1>1. CASE PushLatest
  <2>1. q \in Seq(Nat) /\ Len(q) <= Capacity /\ accepted + 1 \in Nat
    BY DEF TypeOK
  <2>2. q' = AfterPushLatest(q, Capacity, accepted + 1)
    BY <1>1 DEF PushLatest
  <2>3. q' \in Seq(Nat) /\ Len(q') <= Capacity /\ Pushed(q, Capacity, accepted + 1, q')
    BY <2>1, <2>2, PushLatestItems
  <2>4. TypeOK'
    BY <1>1, <2>3 DEF TypeOK, PushLatest, Higher
  <2>5. CASE Len(q) = Capacity
    <3>1. Len(q') = Len(q) /\ dropped' = dropped + 1 /\ accepted' = accepted + 1
      BY <1>1, <2>3, <2>5 DEF PushLatest, Pushed
    <3>2. Accounting'
      BY <1>1, <3>1 DEF TypeOK, PushLatest, Accounting
    <3>3. \A i \in 1..Len(q') : q'[i] = IF i = Len(q) THEN accepted + 1 ELSE q[i + 1]
      BY <2>3, <2>5 DEF Pushed
    <3>4. last' <= accepted'
      BY <1>1, <3>1 DEF TypeOK, PushLatest, DeliveryOrder
    <3>5. ASSUME NEW i \in 1..Len(q') PROVE last' < q'[i] /\ q'[i] <= accepted'
      BY <1>1, <2>1, <3>1, <3>3, <3>5 DEF TypeOK, PushLatest, DeliveryOrder
    <3>6. ASSUME NEW i \in 1..Len(q'), NEW j \in 1..Len(q'), i < j PROVE q'[i] < q'[j]
      <4>1. q'[i] = q[i + 1] /\ i + 1 \in 1..Len(q) /\ q[i + 1] \in Nat /\ accepted \in Nat
        BY <2>1, <3>1, <3>3, <3>6 DEF TypeOK
      <4>2. CASE j = Len(q)
        <5>1. q'[j] = accepted + 1 /\ q[i + 1] <= accepted
          BY <3>1, <3>3, <4>1, <4>2 DEF DeliveryOrder
        <5> QED
          BY <4>1, <5>1
      <4>3. CASE j # Len(q)
        <5>1. q'[j] = q[j + 1] /\ j + 1 \in 1..Len(q) /\ i + 1 < j + 1
          BY <2>1, <3>1, <3>3, <3>6, <4>3 DEF TypeOK
        <5> QED
          BY <4>1, <5>1 DEF DeliveryOrder
      <4> QED
        BY <4>2, <4>3
    <3> QED
      BY <2>4, <3>2, <3>4, <3>5, <3>6 DEF IInv, DeliveryOrder
  <2>6. CASE Len(q) # Capacity
    <3>1. Len(q') = Len(q) + 1 /\ dropped' = dropped /\ accepted' = accepted + 1
      BY <1>1, <2>3, <2>6 DEF PushLatest, Pushed
    <3>2. Accounting'
      BY <1>1, <3>1 DEF TypeOK, PushLatest, Accounting
    <3>3. \A i \in 1..Len(q') : q'[i] = IF i = Len(q) + 1 THEN accepted + 1 ELSE q[i]
      BY <2>3, <2>6 DEF Pushed
    <3>4. last' <= accepted'
      BY <1>1, <3>1 DEF TypeOK, PushLatest, DeliveryOrder
    <3>5. ASSUME NEW i \in 1..Len(q') PROVE last' < q'[i] /\ q'[i] <= accepted'
      BY <1>1, <2>1, <3>1, <3>3, <3>5 DEF TypeOK, PushLatest, DeliveryOrder
    <3>6. ASSUME NEW i \in 1..Len(q'), NEW j \in 1..Len(q'), i < j PROVE q'[i] < q'[j]
      <4>1. q'[i] = q[i] /\ i \in 1..Len(q) /\ q[i] \in Nat /\ accepted \in Nat
        BY <2>1, <3>1, <3>3, <3>6 DEF TypeOK
      <4>2. CASE j = Len(q) + 1
        <5>1. q'[j] = accepted + 1 /\ q[i] <= accepted
          BY <3>1, <3>3, <4>1, <4>2 DEF DeliveryOrder
        <5> QED
          BY <4>1, <5>1
      <4>3. CASE j # Len(q) + 1
        <5>1. q'[j] = q[j] /\ j \in 1..Len(q) /\ i < j
          BY <2>1, <3>1, <3>3, <3>6, <4>3 DEF TypeOK
        <5> QED
          BY <4>1, <5>1 DEF DeliveryOrder
      <4> QED
        BY <4>2, <4>3
    <3> QED
      BY <2>4, <3>2, <3>4, <3>5, <3>6 DEF IInv, DeliveryOrder
  <2> QED
    BY <2>5, <2>6
<1>2. CASE TryPush
  <2>1. TypeOK'
    BY <1>2 DEF TypeOK, TryPush, Accepts, Higher
  <2>2. Accounting'
    BY <1>2 DEF TypeOK, TryPush, Accounting
  <2>3. DeliveryOrder'
    BY <1>2 DEF TypeOK, TryPush, DeliveryOrder
  <2> QED
    BY <2>1, <2>2, <2>3 DEF IInv
<1>3. ASSUME TakeFront, UNCHANGED <<closed, dropped, high, accepted, discarded>>,
             worker' \in {"pop", "check", "exit"}
      PROVE  IInv'
  <2>1. /\ q # <<>> /\ q' = Tail(q) /\ last' = q[1] /\ q' \in Seq(Nat)
        /\ Len(q') = Len(q) - 1 /\ \A i \in 1..Len(q') : q'[i] = q[i + 1]
    BY <1>3 DEF TakeFront, TypeOK
  <2>2. TypeOK'
    BY <1>3, <2>1 DEF TypeOK, TakeFront
  <2>3. Accounting'
    BY <1>3, <2>1 DEF TypeOK, TakeFront, Accounting
  <2>4. DeliveryOrder'
    <3>1. last' <= accepted'
      BY <1>3, <2>1 DEF TypeOK, DeliveryOrder
    <3>2. ASSUME NEW i \in 1..Len(q') PROVE last' < q'[i] /\ q'[i] <= accepted'
      <4>1. i + 1 \in 1..Len(q) /\ 1 \in 1..Len(q) /\ q'[i] = q[i + 1]
        BY <2>1, <3>2 DEF TypeOK
      <4> QED
        BY <1>3, <2>1, <4>1 DEF TypeOK, DeliveryOrder
    <3>3. ASSUME NEW i \in 1..Len(q'), NEW j \in 1..Len(q'), i < j PROVE q'[i] < q'[j]
      <4>1. i + 1 \in 1..Len(q) /\ j + 1 \in 1..Len(q)
        BY <2>1, <3>3 DEF TypeOK
      <4> QED
        BY <2>1, <3>3, <4>1 DEF TypeOK, DeliveryOrder
    <3> QED
      BY <3>1, <3>2, <3>3 DEF DeliveryOrder
  <2> QED
    BY <2>2, <2>3, <2>4 DEF IInv
<1>4. CASE Pop
  BY <1>3, <1>4 DEF Pop, TypeOK
<1>5. CASE PopLatest
  <2>1. TypeOK'
    BY <1>5 DEF TypeOK, PopLatest, Newest
  <2>2. Accounting'
    BY <1>5 DEF TypeOK, PopLatest, Accounting
  <2>3. DeliveryOrder'
    BY <1>5 DEF TypeOK, PopLatest, Newest, DeliveryOrder
  <2> QED
    BY <2>1, <2>2, <2>3 DEF IInv
<1>6. ASSUME Discard, closed' \in BOOLEAN,
             UNCHANGED <<dropped, high, worker, accepted, delivered, last>>
      PROVE  IInv'
  <2>1. TypeOK'
    BY <1>6 DEF TypeOK, Discard
  <2>2. Accounting'
    BY <1>6 DEF TypeOK, Discard, Accounting
  <2>3. DeliveryOrder'
    BY <1>6 DEF TypeOK, Discard, DeliveryOrder
  <2> QED
    BY <2>1, <2>2, <2>3 DEF IInv
<1>7. ASSUME UNCHANGED <<q, dropped, high, accepted, delivered, discarded, last>>,
             closed' \in BOOLEAN, worker' \in {"pop", "check", "exit"}
      PROVE  IInv'
  BY <1>7 DEF IInv, TypeOK, Accounting, DeliveryOrder
<1>8. CASE Clear
  BY <1>6, <1>8 DEF Clear, TypeOK
<1>9. ASSUME NEW discard \in BOOLEAN, Close(discard)
      PROVE  IInv'
  <2>1. closed' \in BOOLEAN /\ worker' \in {"pop", "check", "exit"}
    BY <1>9, Zenon DEF Close, TypeOK
  <2>2. CASE discard
    BY <1>6, <1>9, <2>1, <2>2, Zenon DEF Close
  <2>3. CASE ~discard
    BY <1>7, <1>9, <2>1, <2>3, Zenon DEF Close
  <2> QED
    BY <2>2, <2>3
<1>10. CASE Worker
  BY <1>3, <1>7, <1>10 DEF Worker, WorkerPop, WorkerEmpty, WorkerCheck, TypeOK
<1>11. CASE UNCHANGED vars
  BY <1>7, <1>11 DEF vars, TypeOK
<1> QED
  BY <1>1, <1>2, <1>4, <1>5, <1>8, <1>9, <1>10, <1>11 DEF Next

LEMMA Invariance == Spec => []IInv
<1>1. QED
  BY Initially, Inductive, PTL DEF Spec

\* The queue never holds more than capacity_ items and its counters stay sane.
THEOREM TypeCorrect == Spec => []TypeOK
BY Invariance, PTL DEF IInv

\* Every item accepted is delivered, counted as dropped, discarded by clear() or
\* close(), or still queued.
THEOREM NothingLost == Spec => []Accounting
BY Invariance, PTL DEF IInv

\* Consumers see the items in the order they were accepted, whatever is skipped.
THEOREM OrderKept == Spec => []DeliveryOrder
BY Invariance, PTL DEF IInv
===============================================================================
