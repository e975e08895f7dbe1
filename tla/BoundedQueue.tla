----------------------------- MODULE BoundedQueue -----------------------------
(***************************************************************************)
(* BoundedQueue<T> (core/ipc/BoundedQueue.h) under arbitrary callers, with *)
(* one drain worker: the loop "pop; if it timed out and the queue is       *)
(* closed, leave" that VisionPipeline::snapshotLoop and EventRecorder::run *)
(* both run.  Items are numbered in the order they are accepted.           *)
(*                                                                         *)
(* The timed wait of pop and popLatest ends with an item, or with nothing  *)
(* when the queue is empty at the end of the wait; how long it lasted is   *)
(* left out.                                                               *)
(***************************************************************************)
EXTENDS QueueOps

CONSTANTS
  Capacity,     \* capacity_
  Calls,        \* the methods this queue's users call
  MaxPushes     \* bound on the items ever accepted

Methods == {"pushLatest", "tryPush", "pop", "popLatest", "clear", "close", "drain"}

ASSUME CapacityAssumption == Capacity \in Nat \ {0}
ASSUME CallsAssumption == Calls \subseteq Methods
ASSUME MaxPushesAssumption == MaxPushes \in Nat

VARIABLES
  q, closed, dropped, high,  \* q_, closed_, dropped_, high_
  worker,                    \* where the drain worker is in its loop
  accepted,                  \* history: items accepted so far
  delivered,                 \* history: items handed to a consumer
  discarded,                 \* history: items removed by clear() and close()
  last                       \* history: the item delivered last, 0 if none

vars == <<q, closed, dropped, high, worker, accepted, delivered, discarded, last>>

TypeOK ==
  /\ q \in Seq(Nat) /\ Len(q) <= Capacity
  /\ closed \in BOOLEAN
  /\ dropped \in Nat /\ high \in 0..Capacity
  /\ worker \in {"pop", "check", "exit"}
  /\ accepted \in Nat /\ delivered \in Nat /\ discarded \in Nat /\ last \in Nat

Init ==
  /\ q = <<>> /\ closed = FALSE /\ dropped = 0 /\ high = 0
  /\ worker = "pop"
  /\ accepted = 0 /\ delivered = 0 /\ discarded = 0 /\ last = 0

Higher(items) == IF high < Len(items) THEN Len(items) ELSE high

-------------------------------------------------------------------------------
(* Producers. *)

\* (mutant) a full queue is not made to give up its oldest item.
MPushLatestGrows ==
  /\ "pushLatest" \in Calls /\ ~closed /\ accepted < MaxPushes
  /\ q' = Append(q, accepted + 1)
  /\ high' = Higher(q')
  /\ accepted' = accepted + 1
  /\ UNCHANGED <<closed, dropped, worker, delivered, discarded, last>>

\* A refused push changes nothing, so only the accepted one is a step.
PushLatest ==
  /\ "pushLatest" \in Calls
  /\ ~closed /\ accepted < MaxPushes
  /\ q' = AfterPushLatest(q, Capacity, accepted + 1)
  /\ dropped' = IF Len(q) = Capacity THEN dropped + 1 ELSE dropped
  /\ high' = Higher(q')
  /\ accepted' = accepted + 1
  /\ UNCHANGED <<closed, worker, delivered, discarded, last>>

TryPush ==
  /\ "tryPush" \in Calls
  /\ Accepts(q, Capacity, closed) /\ accepted < MaxPushes
  /\ q' = Append(q, accepted + 1)
  /\ high' = Higher(q')
  /\ accepted' = accepted + 1
  /\ UNCHANGED <<closed, dropped, worker, delivered, discarded, last>>

-------------------------------------------------------------------------------
(* Consumers. *)

TakeFront ==
  /\ q # <<>>
  /\ q' = Tail(q) /\ last' = Head(q) /\ delivered' = delivered + 1

\* pop by any consumer but the drain worker.
Pop ==
  /\ "pop" \in Calls
  /\ TakeFront
  /\ UNCHANGED <<closed, dropped, high, worker, accepted, discarded>>

\* (mutant) the item handed over is counted as dropped too.
MPopLatestCountsItself ==
  /\ "popLatest" \in Calls
  /\ q # <<>>
  /\ last' = Newest(q) /\ delivered' = delivered + 1
  /\ dropped' = dropped + Len(q)
  /\ q' = <<>>
  /\ UNCHANGED <<closed, high, worker, accepted, discarded>>

\* (mutant) the newest item is taken and the older ones stay queued.
MPopLatestKeepsOlder ==
  /\ "popLatest" \in Calls
  /\ q # <<>>
  /\ last' = Newest(q) /\ delivered' = delivered + 1
  /\ q' = SubSeq(q, 1, Len(q) - 1)
  /\ UNCHANGED <<closed, dropped, high, worker, accepted, discarded>>

PopLatest ==
  /\ "popLatest" \in Calls
  /\ q # <<>>
  /\ last' = Newest(q) /\ delivered' = delivered + 1
  /\ dropped' = dropped + Len(q) - 1
  /\ q' = <<>>
  /\ UNCHANGED <<closed, high, worker, accepted, discarded>>

\* clear() and the clearing half of close(): the items are neither delivered nor
\* counted as dropped.
Discard == q' = <<>> /\ discarded' = discarded + Len(q)

Clear ==
  /\ "clear" \in Calls
  /\ q # <<>>
  /\ Discard
  /\ UNCHANGED <<closed, dropped, high, worker, accepted, delivered, last>>

\* A second close(true) finds nothing to remove and a second close(false) is void.
Close(discard) ==
  /\ (IF discard THEN "close" ELSE "drain") \in Calls
  /\ ~closed
  /\ closed' = TRUE
  /\ IF discard THEN Discard ELSE UNCHANGED <<q, discarded>>
  /\ UNCHANGED <<dropped, high, worker, accepted, delivered, last>>

-------------------------------------------------------------------------------
(* The drain worker. *)

WorkerPop ==
  /\ worker = "pop"
  /\ TakeFront
  /\ UNCHANGED <<closed, dropped, high, worker, accepted, discarded>>

\* pop returned false: the wait ended with the queue empty.
WorkerEmpty ==
  /\ worker = "pop" /\ q = <<>>
  /\ worker' = "check"
  /\ UNCHANGED <<q, closed, dropped, high, accepted, delivered, discarded, last>>

WorkerCheck ==
  /\ worker = "check"
  /\ worker' = IF closed THEN "exit" ELSE "pop"
  /\ UNCHANGED <<q, closed, dropped, high, accepted, delivered, discarded, last>>

Worker == WorkerPop \/ WorkerEmpty \/ WorkerCheck

Next ==
  \/ PushLatest \/ TryPush
  \/ Pop \/ PopLatest \/ Clear
  \/ \E discard \in BOOLEAN : Close(discard)
  \/ Worker

\* The worker's thread is scheduled and its waits are timed; callers may stop.
Spec == Init /\ [][Next]_vars /\ WF_vars(Worker)

-------------------------------------------------------------------------------
(* Properties. *)

\* No item is lost without trace: every accepted item was handed to a consumer,
\* counted in dropped() (pushLatest on a full queue, popLatest over several
\* items), thrown away by clear() or close(), or is still queued.
Accounting == accepted = delivered + dropped + discarded + Len(q)

\* Consumers of one queue never go back in time, whatever mix of pop, popLatest
\* and pushLatest overwriting they meet: what is queued is newer than what was
\* delivered, in order.
DeliveryOrder ==
  /\ last <= accepted
  /\ \A i \in 1..Len(q) : last < q[i] /\ q[i] <= accepted
  /\ \A i, j \in 1..Len(q) : i < j => q[i] < q[j]
===============================================================================
