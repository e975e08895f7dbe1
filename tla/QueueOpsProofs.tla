---------------------------- MODULE QueueOpsProofs ----------------------------
(***************************************************************************)
(* What the calls of a queue leave in it, for every capacity and items of  *)
(* any kind.                                                               *)
(***************************************************************************)
EXTENDS QueueOps, TLAPS

\* new holds items, the oldest left out if there were capacity of them, and item.
Pushed(items, capacity, item, new) ==
  /\ Len(items) = capacity =>
       /\ Len(new) = Len(items)
       /\ \A i \in 1..Len(new) : new[i] = IF i = Len(items) THEN item ELSE items[i + 1]
  /\ Len(items) # capacity =>
       /\ Len(new) = Len(items) + 1
       /\ \A i \in 1..Len(new) : new[i] = IF i = Len(items) + 1 THEN item ELSE items[i]

\* What one push leaves in the queue: at most capacity items, and every item that
\* is left keeps its place relative to the others.
LEMMA PushLatestItems ==
  ASSUME NEW T, NEW items \in Seq(T), NEW item \in T,
         NEW capacity \in Nat \ {0}, Len(items) <= capacity
  PROVE  /\ AfterPushLatest(items, capacity, item) \in Seq(T)
         /\ Len(AfterPushLatest(items, capacity, item)) <= capacity
         /\ Pushed(items, capacity, item, AfterPushLatest(items, capacity, item))
<1> DEFINE new == AfterPushLatest(items, capacity, item)
<1> USE DEF Pushed
<1>1. CASE Len(items) = capacity
  <2>1. items # <<>>
    BY <1>1
  <2>2. Tail(items) \in Seq(T) /\ Len(Tail(items)) = Len(items) - 1
    BY <2>1
  <2>3. \A i \in 1..Len(items) - 1 : Tail(items)[i] = items[i + 1]
    BY <2>1
  <2>4. new = Append(Tail(items), item)
    BY <1>1 DEF AfterPushLatest
  <2> QED
    BY <1>1, <2>1, <2>2, <2>3, <2>4
<1>2. CASE Len(items) # capacity
  BY <1>2 DEF AfterPushLatest
<1> QED
  BY <1>1, <1>2

\* The same for what the items have in common: one of them is item and is the last,
\* the others are items of before, in their order.
Kept(items, item, new) ==
  /\ Len(new) >= 1 /\ new[Len(new)] = item
  /\ \E d \in {0, 1} :
       /\ Len(new) = Len(items) + 1 - d
       /\ \A i \in 1..Len(new) - 1 : i + d \in 1..Len(items) /\ new[i] = items[i + d]

LEMMA PushLatestKeeps ==
  ASSUME NEW T, NEW items \in Seq(T), NEW item \in T,
         NEW capacity \in Nat \ {0}, Len(items) <= capacity
  PROVE  Kept(items, item, AfterPushLatest(items, capacity, item))
<1> DEFINE new == AfterPushLatest(items, capacity, item)
<1>0. Pushed(items, capacity, item, new) /\ Len(items) \in Nat
  BY PushLatestItems
<1> HIDE DEF new
<1> USE DEF Pushed, Kept
<1>1. CASE Len(items) = capacity
  <2>1. Len(new) = Len(items) + 1 - 1 /\ Len(new) >= 1 /\ new[Len(new)] = item
    BY <1>0, <1>1
  <2>2. \A i \in 1..Len(new) - 1 : i + 1 \in 1..Len(items) /\ new[i] = items[i + 1]
    BY <1>0, <1>1
  <2>3. Kept(items, item, new)
    BY <2>1, <2>2
  <2> QED
    BY <2>3 DEF new
<1>2. CASE Len(items) # capacity
  <2>1. Len(new) = Len(items) + 1 - 0 /\ Len(new) >= 1 /\ new[Len(new)] = item
    BY <1>0, <1>2
  <2>2. \A i \in 1..Len(new) - 1 : i + 0 \in 1..Len(items) /\ new[i] = items[i + 0]
    BY <1>0, <1>2
  <2>3. Kept(items, item, new)
    BY <2>1, <2>2
  <2> QED
    BY <2>3 DEF new
<1> QED
  BY <1>1, <1>2

\* What popLatest hands over is the last of the items.
LEMMA NewestItem ==
  ASSUME NEW T, NEW items \in Seq(T), items # <<>>
  PROVE  /\ Newest(items) \in T
         /\ Len(items) \in 1..Len(items) /\ Newest(items) = items[Len(items)]
BY DEF Newest
===============================================================================
