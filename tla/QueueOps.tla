------------------------------- MODULE QueueOps -------------------------------
(***************************************************************************)
(* What one call of a BoundedQueue method does to the queued items         *)
(* (core/ipc/BoundedQueue.h).  Every method runs under the queue's mutex,  *)
(* so a call is one step of its caller; these operators give the contents  *)
(* after it.  The other modules use them for the queue instances of the    *)
(* program: inference_, snapshots_ and the recorder's queue_.              *)
(***************************************************************************)
EXTENDS Integers, Sequences

\* pushLatest on an open queue: a full queue gives up its oldest item.
AfterPushLatest(items, capacity, item) ==
  Append(IF Len(items) = capacity THEN Tail(items) ELSE items, item)

\* tryPush is refused by a closed or a full queue.
Accepts(items, capacity, closed) == ~closed /\ Len(items) # capacity

\* popLatest hands over the newest item and drops the others.
Newest(items) == items[Len(items)]
===============================================================================
