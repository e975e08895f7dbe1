------------------------------ MODULE PartsProofs -----------------------------
(***************************************************************************)
(* What holds of the smaller components for every value of their           *)
(* constants: frames of the pool do not change under their readers, the    *)
(* timerfd covers the first timer and the tables of the timers agree       *)
(* whatever their callbacks do, the camera neither leaks nor copies what   *)
(* the driver may write to, only old complete events are deleted, degraded *)
(* mode follows the streaks of slow and fast inferences, clients and the   *)
(* recorder get what the encoder makes, and nms and the letterbox meet     *)
(* their definitions.                                                      *)
(***************************************************************************)
EXTENDS FrameFlow, TimerManager, Camera, InferenceHealth, EventStorage, VideoService,
  Detections, QueueOpsProofs, FiniteSetTheorems, WellFoundedInduction

\* A set of numbers has a least one.
LEMMA LeastOf ==
  ASSUME NEW S \in SUBSET Nat, S # {}
  PROVE  \E x \in S : \A y \in S : x <= y
<1> DEFINE R == OpToRel(<, Nat)
<1>1. IsWellFoundedOn(R, Nat)
  BY NatLessThanWellFounded
<1>2. PICK x \in S : \A y \in Nat : <<y, x>> \in R => y \notin S
  <2> HIDE DEF R
  <2>1. PICK z \in S : TRUE
    OBVIOUS
  <2>2. \E x \in S : \A y \in Nat : <<y, x>> \in R => ~(y \in S)
    BY <1>1, <2>1, WFMin
  <2> QED
    BY <2>2
<1>3. ASSUME NEW y \in S PROVE x <= y
  <2>1. y < x => <<y, x>> \in R
    BY DEF OpToRel
  <2>2. x \in Nat /\ y \in Nat
    OBVIOUS
  <2>3. ~(y < x)
    BY <1>2, <2>1, <2>2, Zenon
  <2> QED
    BY <2>2, <2>3
<1> QED
  BY <1>2, <1>3

-------------------------------------------------------------------------------
(* FrameFlow *)

Queues == {inference, jobs, waiting, input}

\* The frame being written is nowhere else, wherever frames are kept.
Unshared ==
  fpc = "fill" => filling \notin Holders /\ Queues \subseteq Seq(Frames \ {filling})

\* The capture has a frame while it is at work on one.
Filled == fpc # "acquire" => filling \in Frames

FrameIInv == FrameTypeOK /\ Filled /\ Unshared

\* What a sequence does not contain, stated in two ways.
LEMMA WithoutItem ==
  ASSUME NEW S, NEW x, NEW items \in Seq(S)
  PROVE  items \in Seq(S \ {x}) <=> x \notin Range(items)
<1>1. ASSUME items \in Seq(S \ {x}) PROVE x \notin Range(items)
  BY <1>1 DEF Range
<1>2. ASSUME x \notin Range(items) PROVE items \in Seq(S \ {x})
  <2>1. \A i \in 1..Len(items) : items[i] \in S \ {x}
    BY <1>2 DEF Range
  <2> QED
    BY <2>1
<1> QED
  BY <1>1, <1>2

\* The invariant is what Immutable says of the pool as the code has it.
LEMMA UnsharedImmutable == FrameIInv => Immutable
<1> SUFFICES ASSUME FrameIInv, fpc = "fill" PROVE filling \notin Shared
  BY DEF Immutable
<1>1. filling \notin Holders
  BY DEF FrameIInv, Unshared
<1>2. ASSUME NEW items \in Queues PROVE filling \notin Range(items)
  <2>1. items \in Seq(Frames) /\ items \in Seq(Frames \ {filling})
    BY <1>2 DEF FrameIInv, FrameTypeOK, Unshared, Queues
  <2> QED
    BY <2>1, WithoutItem
<1> QED
  BY <1>1, <1>2 DEF Shared, Queues

\* Pushing anything but the frame being written keeps it out of a queue.
LEMMA PushKeepsOut ==
  ASSUME NEW S, NEW items \in Seq(S), NEW item \in S, NEW capacity \in Nat \ {0},
         Len(items) <= capacity
  PROVE  /\ AfterPushLatest(items, capacity, item) \in Seq(S)
         /\ Len(AfterPushLatest(items, capacity, item)) <= capacity
  BY PushLatestItems

LEMMA FramesInitially == FrameInit => FrameIInv
<1> SUFFICES ASSUME FrameInit PROVE FrameIInv
  OBVIOUS
<1>1. FrameTypeOK
  BY FrameAssumption DEF FrameInit, FrameTypeOK, Holders
<1> QED
  BY <1>1 DEF FrameInit, FrameIInv, Filled, Unshared

\* The capture's own steps: a frame leaves "fill" before anyone else gets it.
LEMMA CaptureKeepsFrames ==
  ASSUME FrameIInv, RestartCapture \/ Acquire \/ Fill \/ FillFails \/ Publish
  PROVE  FrameIInv'
<1> USE FrameAssumption DEF FrameIInv, FrameTypeOK, Filled, Unshared, Holders, Queues
<1>1. CASE RestartCapture
  BY <1>1 DEF RestartCapture, capturevars, jobvars, encodervars
<1>2. CASE Acquire
  <2>1. filling' \in Pool
    BY <1>2 DEF Acquire
  <2>2. filling' \in Frames /\ filling' \notin Shared
    BY <2>1 DEF Pool
  <2>3. UNCHANGED <<latest, detection, inferring, inference, jobs, job, waiting, input>>
    BY <1>2 DEF Acquire, statevars, inferencevars, jobvars, encodervars
  <2>4. filling' \notin Holders
    BY <2>2 DEF Shared
  <2>5. ASSUME NEW items \in Queues PROVE items \in Seq(Frames \ {filling'})
    <3>1. items \in Seq(Frames) /\ filling' \notin Range(items)
      BY <2>2, <2>5 DEF Shared
    <3> QED
      BY <3>1, WithoutItem
  <2> QED
    BY <1>2, <2>2, <2>3, <2>4, <2>5 DEF Acquire
<1>3. CASE Fill
  BY <1>3 DEF Fill, inferencevars, jobvars, encodervars
<1>4. CASE FillFails
  <2>1. /\ latest' \in Frames \cup {NoFrame} /\ detection' \in Frames \cup {NoFrame}
        /\ inference' \in Seq(Frames) /\ Len(inference') <= InferenceSize
    <3>1. CASE latest' = NoFrame /\ detection' = NoFrame /\ inference' = <<>>
      BY <3>1
    <3>2. CASE UNCHANGED <<statevars, inference>>
      BY <3>2 DEF statevars
    <3> QED
      BY <1>4, <3>1, <3>2 DEF FillFails
  <2> QED
    BY <1>4, <2>1 DEF FillFails, jobvars, encodervars
<1>5. CASE PublishInference
  <2>1. inference' \in Seq(Frames) /\ Len(inference') <= InferenceSize
    BY <1>5, PushKeepsOut DEF PublishInference
  <2> QED
    BY <1>5, <2>1 DEF PublishInference, statevars, jobvars, encodervars
<1>6. CASE PublishVideo
  <2>1. waiting' \in Seq(Frames) /\ Len(waiting') <= VideoSize
    BY <1>6, PushKeepsOut DEF PublishVideo
  <2> QED
    BY <1>6, <2>1 DEF PublishVideo, statevars, inferencevars, jobvars
<1> QED
  BY <1>1, <1>2, <1>3, <1>4, <1>5, <1>6 DEF Publish

\* The readers pass on only what was shared before.
LEMMA ReadersKeepFrames ==
  ASSUME FrameIInv,
         \/ PopInference \/ EndFrame \/ ResetInference \/ TakeSnapshot \/ PopJob \/ EndJob
         \/ PushVideo \/ EncoderReleases
  PROVE  FrameIInv'
<1> USE FrameAssumption DEF FrameIInv, FrameTypeOK, Filled, Unshared, Holders, Queues
<1>1. CASE PopInference
  <2>1. /\ inferring' \in Frames /\ inference' = <<>>
        /\ fpc = "fill" => inferring' # filling
    BY <1>1 DEF PopInference, Newest
  <2> QED
    BY <1>1, <2>1 DEF PopInference, capturevars, statevars, jobvars, encodervars
<1>2. CASE EndFrame
  BY <1>2 DEF EndFrame, capturevars, jobvars, encodervars
<1>3. CASE ResetInference
  BY <1>3 DEF ResetInference, capturevars, jobvars, encodervars
<1>4. CASE TakeSnapshot
  <2>1. PICK frame \in {latest, detection} \ {NoFrame} : jobs' = Append(jobs, frame)
    BY <1>4 DEF TakeSnapshot
  <2>2. frame \in Frames /\ (fpc = "fill" => frame # filling)
    BY <2>1
  <2>3. /\ jobs' \in Seq(Frames) /\ Len(jobs') <= JobSize
        /\ fpc = "fill" => jobs' \in Seq(Frames \ {filling})
    BY <1>4, <2>1, <2>2 DEF TakeSnapshot, Accepts
  <2> QED
    BY <1>4, <2>3 DEF TakeSnapshot, capturevars, statevars, inferencevars, encodervars
<1>5. CASE PopJob
  <2>1. /\ job' \in Frames /\ jobs' \in Seq(Frames) /\ Len(jobs') <= JobSize
        /\ fpc = "fill" => job' # filling /\ jobs' \in Seq(Frames \ {filling})
    BY <1>5 DEF PopJob
  <2> QED
    BY <1>5, <2>1 DEF PopJob, capturevars, statevars, inferencevars, encodervars
<1>6. CASE EndJob
  BY <1>6 DEF EndJob, capturevars, statevars, inferencevars, encodervars
<1>7. CASE PushVideo
  <2>1. /\ waiting' \in Seq(Frames) /\ Len(waiting') <= VideoSize
        /\ fpc = "fill" => waiting' \in Seq(Frames \ {filling})
    BY <1>7 DEF PushVideo
  <2>2. Head(waiting) \in Frames /\ (fpc = "fill" => Head(waiting) # filling)
    BY <1>7 DEF PushVideo
  <2>3. CASE Len(input) < InputLimit /\ input' = Append(input, Head(waiting))
    <3>1. input' \in Seq(Frames) /\ Len(input') <= InputLimit
      BY <2>2, <2>3
    <3>2. fpc = "fill" => input' \in Seq(Frames \ {filling})
      BY <2>2, <2>3
    <3> QED
      BY <1>7, <2>1, <3>1, <3>2 DEF PushVideo, capturevars, statevars, inferencevars, jobvars
  <2>4. CASE UNCHANGED input
    BY <1>7, <2>1, <2>4 DEF PushVideo, capturevars, statevars, inferencevars, jobvars
  <2> QED
    BY <1>7, <2>3, <2>4 DEF PushVideo
<1>8. CASE EncoderReleases
  <2>1. /\ input' \in Seq(Frames) /\ Len(input') <= InputLimit
        /\ fpc = "fill" => input' \in Seq(Frames \ {filling})
    BY <1>8 DEF EncoderReleases
  <2> QED
    BY <1>8, <2>1 DEF EncoderReleases, capturevars, statevars, inferencevars, jobvars
<1> QED
  BY <1>1, <1>2, <1>3, <1>4, <1>5, <1>6, <1>7, <1>8

LEMMA FramesStutter == FrameIInv /\ UNCHANGED framevars => FrameIInv'
  BY DEF FrameIInv, FrameTypeOK, Filled, Unshared, Holders, Queues, framevars, capturevars,
         statevars, inferencevars, jobvars, encodervars

LEMMA FramesInductive == FrameIInv /\ [FrameNext]_framevars => FrameIInv'
BY CaptureKeepsFrames, ReadersKeepFrames, FramesStutter DEF FrameNext

\* The frame that the capture writes to is nobody else's (FramePool.h:10), for every
\* pool, every capacity of the queues, and whatever the encoder keeps.
THEOREM FramesImmutable == FrameSpec => []Immutable
BY FramesInitially, FramesInductive, UnsharedImmutable, PTL DEF FrameSpec

\* The types of the holders and the capacities of the queues of frames, for every pool.
THEOREM FrameTypesHold == FrameSpec => []FrameTypeOK
<1>1. FrameIInv => FrameTypeOK
  BY DEF FrameIInv
<1> QED
  BY FramesInitially, FramesInductive, <1>1, PTL DEF FrameSpec

-------------------------------------------------------------------------------
(* TimerManager *)

\* The handler has an entry exactly while a callback of a timer runs.
EntryHeld ==
  IF tpc = "callback"
    THEN entry \in [id : 1..MaxTimers, period : Periods] /\ entry.id < next_timer
    ELSE entry.id = 0

\* A timer is in one place: once in the heap, or with the handler.
OnePlace ==
  /\ \A e, f \in heap : e.id = f.id => e = f
  /\ \A e \in heap : e.id < next_timer /\ e.id # entry.id

\* Identifiers are not used again, in particular those that were cancelled.
CancelledForGood == \A id \in cancelled : 0 < id /\ id < next_timer /\ id \notin active_ids

\* ActiveIdsExact, one identifier at a time.
Agree ==
  /\ \A id \in active_ids :
       (\E e \in heap : e.active /\ e.id = id) \/ (id = entry.id /\ id \notin cancelled)
  /\ \A e \in heap : e.active => e.id \in active_ids
  /\ entry.id # 0 /\ entry.id \notin cancelled => entry.id \in active_ids

TablesTyped ==
  /\ heap \subseteq Entries /\ active_ids \subseteq 1..MaxTimers
  /\ next_timer \in 1..MaxTimers + 1 /\ cancelled \subseteq 1..MaxTimers

TimerIInv == TablesTyped /\ EntryHeld /\ OnePlace /\ CancelledForGood /\ Agree

LEMMA AgreeExact == TimerIInv => ActiveIdsExact
<1> SUFFICES ASSUME TimerIInv PROVE ActiveIdsExact
  OBVIOUS
<1>1. 0 \notin active_ids
  BY DEF TimerIInv, TablesTyped
<1>2. active_ids \subseteq
        {e.id : e \in {f \in heap : f.active}} \cup ({entry.id} \ ({0} \cup cancelled))
  BY <1>1 DEF TimerIInv, Agree
<1>3. {e.id : e \in {f \in heap : f.active}} \subseteq active_ids
  BY DEF TimerIInv, Agree
<1>4. {entry.id} \ ({0} \cup cancelled) \subseteq active_ids
  BY DEF TimerIInv, Agree
<1> QED
  BY <1>2, <1>3, <1>4 DEF ActiveIdsExact

LEMMA TimersInitially == TimerInit => TimerIInv
  BY TimerAssumption DEF TimerInit, TimerIInv, TablesTyped, EntryHeld, OnePlace,
         CancelledForGood, Agree, NoEntry

LEMMA AddKeepsTables ==
  ASSUME TimerIInv, NEW delay \in Delays, NEW period \in Periods, AddTimer(delay, period)
  PROVE  TimerIInv'
<1> DEFINE new == [id |-> next_timer, expiry |-> delay, period |-> period, active |-> TRUE]
<1> USE TimerAssumption DEF TimerIInv, TablesTyped
<1>1. /\ heap' = heap \cup {new} /\ active_ids' = active_ids \cup {next_timer}
      /\ next_timer' = next_timer + 1 /\ next_timer <= MaxTimers
      /\ UNCHANGED <<tpc, entry, cancelled>>
  BY DEF AddTimer
<1>0. new \in Entries /\ new.id = next_timer /\ new.active
  BY <1>1 DEF Entries
<1> HIDE DEF new
<1>2. TablesTyped'
  BY <1>0, <1>1
<1>3. EntryHeld'
  BY <1>1 DEF EntryHeld
<1>4. entry.id # next_timer /\ entry'.id = entry.id
  BY <1>1 DEF EntryHeld
<1>5. OnePlace'
  <2>1. \A e \in heap : e.id \in Nat /\ e.id < next_timer /\ e.id # new.id
    BY <1>0 DEF OnePlace, Entries
  <2>2. \A e, f \in heap' : e.id = f.id => e = f
    BY <1>1, <2>1 DEF OnePlace
  <2>3. \A e \in heap' : e.id < next_timer' /\ e.id # entry'.id
    BY <1>0, <1>1, <1>4, <2>1 DEF OnePlace
  <2> QED
    BY <2>2, <2>3 DEF OnePlace
<1>6. CancelledForGood'
  BY <1>1 DEF CancelledForGood
<1>7. Agree'
  BY <1>0, <1>1, <1>4 DEF Agree
<1> QED
  BY <1>2, <1>3, <1>5, <1>6, <1>7

LEMMA CancelKeepsTables ==
  ASSUME TimerIInv, NEW id \in active_ids, CancelTimer(id)
  PROVE  TimerIInv'
<1> DEFINE Marked(e) == [e EXCEPT !.active = e.active /\ e.id # id]
<1> USE TimerAssumption DEF TimerIInv, TablesTyped
<1>1. /\ heap' = {Marked(e) : e \in heap} /\ active_ids' = active_ids \ {id}
      /\ cancelled' = cancelled \cup {id} /\ UNCHANGED <<next_timer, tpc, entry>>
  BY DEF CancelTimer
<1>2. \A e \in heap : /\ Marked(e) \in Entries /\ Marked(e).id = e.id
                      /\ Marked(e).active <=> e.active /\ e.id # id
  BY DEF Entries
<1> HIDE DEF Marked
<1>3. TablesTyped'
  BY <1>1, <1>2
<1>4. EntryHeld'
  BY <1>1 DEF EntryHeld
<1>5. OnePlace'
  BY <1>1, <1>2 DEF OnePlace
<1>6. id < next_timer /\ 0 < id
  BY DEF Agree, OnePlace, EntryHeld
<1>7. CancelledForGood'
  BY <1>1, <1>6 DEF CancelledForGood
<1>8. Agree'
  BY <1>1, <1>2 DEF Agree
<1> QED
  BY <1>3, <1>4, <1>5, <1>7, <1>8

LEMMA PopKeepsTables ==
  ASSUME TimerIInv, PopTimer
  PROVE  TimerIInv' /\ (tpc' = "callback" => entry'.id \notin cancelled)
<1> USE TimerAssumption DEF TimerIInv, TablesTyped
<1>1. PICK e \in Front(heap) :
        /\ heap' = heap \ {e}
        /\ IF e.active /\ e.id \in active_ids
             THEN tpc' = "callback" /\ entry' = [id |-> e.id, period |-> e.period]
             ELSE UNCHANGED <<tpc, entry>>
  BY DEF PopTimer
<1>2. e \in heap /\ tpc = "pop" /\ UNCHANGED <<active_ids, next_timer, cancelled>>
  BY <1>1 DEF Front, PopTimer
<1>3. e.id \in 1..MaxTimers /\ e.period \in Periods /\ e.id < next_timer /\ entry.id = 0
  BY <1>2 DEF Entries, OnePlace, EntryHeld
<1>4. CASE e.active /\ e.id \in active_ids
  <2>1. /\ tpc' = "callback" /\ entry' = [id |-> e.id, period |-> e.period]
        /\ e.id \notin cancelled
    BY <1>1, <1>4 DEF CancelledForGood
  <2>2. EntryHeld' /\ TablesTyped' /\ CancelledForGood'
    BY <1>1, <1>2, <1>3, <2>1 DEF EntryHeld, CancelledForGood
  <2>3. OnePlace'
    BY <1>1, <1>2, <2>1 DEF OnePlace
  <2>4. Agree'
    BY <1>1, <1>2, <1>3, <2>1, <1>4 DEF Agree
  <2> QED
    BY <2>1, <2>2, <2>3, <2>4
<1>5. CASE ~(e.active /\ e.id \in active_ids)
  <2>1. ~e.active /\ UNCHANGED <<tpc, entry>>
    BY <1>1, <1>2, <1>5 DEF Agree
  <2> QED
    BY <1>1, <1>2, <2>1 DEF EntryHeld, CancelledForGood, OnePlace, Agree
<1> QED
  BY <1>4, <1>5

LEMMA ReturnKeepsTables ==
  ASSUME TimerIInv, CallbackReturns
  PROVE  TimerIInv'
<1> DEFINE again == [id |-> entry.id, expiry |-> entry.period, period |-> entry.period,
                     active |-> TRUE]
<1> USE TimerAssumption DEF TimerIInv, TablesTyped
<1>1. /\ tpc = "callback" /\ tpc' = "pop" /\ entry'.id = 0
      /\ UNCHANGED <<next_timer, cancelled>>
  BY DEF CallbackReturns, NoEntry
<1>2. entry.id \in 1..MaxTimers /\ entry.period \in Periods /\ entry.id < next_timer
  BY <1>1 DEF EntryHeld
<1>3. CASE entry.period > 0 /\ entry.id \in active_ids
  <2>1. heap' = heap \cup {again} /\ UNCHANGED active_ids
    BY <1>3 DEF CallbackReturns
  <2>0. again \in Entries /\ again.id = entry.id /\ again.active
    <3>1. entry.period \in Int
      <4>1. Periods \subseteq Int
        BY DEF TimerAssumption
      <4> QED
        BY <1>2, <4>1
    <3> QED
      BY <1>2, <3>1 DEF Entries
  <2> HIDE DEF again
  <2>2. TablesTyped' /\ EntryHeld' /\ CancelledForGood'
    BY <1>1, <1>2, <2>0, <2>1 DEF EntryHeld, CancelledForGood
  <2>3. OnePlace'
    <3>1. \A e \in heap : e.id \in Nat /\ e.id < next_timer /\ e.id # again.id
      BY <2>0 DEF OnePlace, Entries
    <3>2. \A e, f \in heap' : e.id = f.id => e = f
      BY <2>1, <3>1 DEF OnePlace
    <3>3. \A e \in heap' : e.id < next_timer' /\ e.id # entry'.id
      <4>1. \A e \in heap : e.id < next_timer' /\ e.id # entry'.id
        BY <1>1, <3>1 DEF Entries
      <4>2. again.id < next_timer' /\ again.id # entry'.id
        BY <1>1, <1>2, <2>0
      <4> QED
        BY <2>1, <4>1, <4>2
    <3> QED
      BY <3>2, <3>3 DEF OnePlace
  <2>4. Agree'
    BY <1>1, <1>2, <1>3, <2>0, <2>1 DEF Agree
  <2> QED
    BY <2>2, <2>3, <2>4
<1>4. CASE ~(entry.period > 0 /\ entry.id \in active_ids)
  <2>1. heap' = heap /\ active_ids' = active_ids \ {entry.id}
    BY <1>4 DEF CallbackReturns
  <2>2. TablesTyped' /\ EntryHeld' /\ CancelledForGood'
    BY <1>1, <1>2, <2>1 DEF EntryHeld, CancelledForGood
  <2>4. OnePlace'
    BY <1>1, <1>2, <2>1 DEF OnePlace, Entries
  <2>3. Agree'
    BY <1>1, <1>2, <2>1 DEF Agree, OnePlace
  <2> QED
    BY <2>2, <2>3, <2>4
<1> QED
  BY <1>3, <1>4

LEMMA TickKeepsTables ==
  ASSUME TimerIInv, TimerTick
  PROVE  TimerIInv'
<1> DEFINE Nearer(e) == [e EXCEPT !.expiry = @ - 1]
<1> USE DEF TimerIInv, TablesTyped
<1>1. /\ heap' = {Nearer(e) : e \in heap}
      /\ UNCHANGED <<active_ids, next_timer, tpc, entry, cancelled>>
  BY DEF TimerTick
<1>2. \A e \in heap : /\ Nearer(e) \in Entries /\ Nearer(e).id = e.id
                      /\ Nearer(e).active = e.active
  BY DEF Entries
<1> HIDE DEF Nearer
<1>3. TablesTyped' /\ EntryHeld' /\ CancelledForGood'
  BY <1>1, <1>2 DEF EntryHeld, CancelledForGood
<1>4. OnePlace'
  BY <1>1, <1>2 DEF OnePlace
<1>5. Agree'
  BY <1>1, <1>2 DEF Agree
<1> QED
  BY <1>3, <1>4, <1>5

LEMMA WakeupKeepsTables ==
  ASSUME TimerIInv,
         TimerPoll \/ HandleTimerEvent \/ TimersDone \/ UNCHANGED timervars
  PROVE  TimerIInv'
<1> USE DEF TimerIInv, TablesTyped, EntryHeld, OnePlace, CancelledForGood, Agree
<1>1. CASE TimerPoll
  BY <1>1 DEF TimerPoll
<1>2. CASE HandleTimerEvent
  BY <1>2 DEF HandleTimerEvent
<1>3. CASE TimersDone
  BY <1>3 DEF TimersDone
<1>4. CASE UNCHANGED timervars
  BY <1>4 DEF timervars
<1> QED
  BY <1>1, <1>2, <1>3, <1>4

LEMMA TimersInductive == TimerIInv /\ [TimerNext]_timervars => TimerIInv'
  BY AddKeepsTables, CancelKeepsTables, PopKeepsTables, ReturnKeepsTables, TickKeepsTables,
     WakeupKeepsTables DEF TimerNext, TimerLoop

\* A callback that starts is one of a timer that nobody has cancelled.
LEMMA StartsUncancelled ==
  ASSUME TimerIInv, TimerNext, tpc = "pop", tpc' = "callback"
  PROVE  entry'.id \notin cancelled
<1>1. PopTimer
  BY DEF TimerNext, TimerLoop, TimerPoll, HandleTimerEvent, CallbackReturns, TimersDone,
         TimerTick, AddTimer, CancelTimer
<1> QED
  BY <1>1, PopKeepsTables

\* active_ids_ and the heap agree (TimerManager.h:71), for any set of delays and periods
\* and whatever callbacks add and cancel.
THEOREM TablesAgree == TimerSpec => []ActiveIdsExact
  BY TimersInitially, TimersInductive, AgreeExact, PTL DEF TimerSpec

\* A timer for which cancelTimer has returned true is never called afterwards
\* (TimerManager.h:70), whoever cancels it and when.
THEOREM CancelledNeverRuns == TimerSpec => CancelledStaysSo
<1>1. TimerIInv /\ [TimerNext]_timervars
        => [tpc = "pop" /\ tpc' = "callback" => entry'.id \notin cancelled]_timervars
  BY StartsUncancelled
<1> QED
  BY TimersInitially, TimersInductive, <1>1, PTL DEF TimerSpec, CancelledStaysSo

\* Rounding down to whole milliseconds.
LEMMA RoundedDown ==
  ASSUME NEW left \in Nat, NEW ticks \in Nat \ {0}
  PROVE  (left \div ticks) * ticks \in 0..left
<1>1. left \div ticks \in Nat /\ left % ticks \in Nat
  OBVIOUS
<1>2. left = ticks * (left \div ticks) + (left % ticks)
  OBVIOUS
<1> QED
  BY <1>1, <1>2

\* The timerfd is never set later than a timer expires, wherever time stands.
Due(fd, entries) == \A e \in entries : fd # Disarmed /\ (fd <= e.expiry \/ fd = 0)

Clocks == timerfd \in Nat \cup {Disarmed} /\ taken \in Int

LEMMA ResetCovers ==
  ASSUME NEW entries \in SUBSET Entries, Front(entries) # {} \/ entries = {}
  PROVE  /\ ResetTimerFd(entries) \in Nat \cup {Disarmed}
         /\ Due(ResetTimerFd(entries), entries)
<1>1. CASE entries = {}
  BY <1>1 DEF ResetTimerFd, Due, Disarmed
<1>2. CASE entries # {}
  <2>1. PICK front \in Front(entries) : front = CHOOSE e \in Front(entries) : TRUE
    BY <1>2
  <2>2. /\ front \in Entries /\ front.expiry \in Int
        /\ \A e \in entries : front.expiry <= e.expiry /\ e.expiry \in Int
    BY <2>1 DEF Front, Entries
  <2>3. ResetTimerFd(entries) = IF front.expiry > 0
                                  THEN (front.expiry \div TicksPerMs) * TicksPerMs ELSE 0
    BY <1>2, <2>1 DEF ResetTimerFd
  <2>4. TicksPerMs \in Nat \ {0}
    BY TimerAssumption DEF TimerAssumption
  <2>5. PICK fd : fd = ResetTimerFd(entries)
    OBVIOUS
  <2>6. fd = 0 \/ (fd \in 0..front.expiry)
    BY <2>2, <2>3, <2>4, <2>5, RoundedDown
  <2>7. fd \in Nat /\ fd # Disarmed /\ \A e \in entries : fd <= e.expiry \/ fd = 0
    BY <2>2, <2>6 DEF Disarmed
  <2> QED
    BY <2>5, <2>7 DEF Due
<1> QED
  BY <1>1, <1>2

\* Entries that lie after some time have a first among them.
LEMMA FrontExists ==
  ASSUME NEW entries \in SUBSET Entries, entries # {}, NEW since \in Int,
         \A e \in entries : e.expiry > since
  PROVE  Front(entries) # {}
<1> DEFINE distances == {e.expiry - since : e \in entries}
<1>1. \A e \in entries : e.expiry \in Int /\ e.expiry - since \in Nat
  BY DEF Entries
<1>2. distances \in SUBSET Nat /\ distances # {}
  BY <1>1
<1>3. PICK d \in distances : \A f \in distances : d <= f
  BY <1>2, LeastOf
<1>4. PICK e \in entries : d = e.expiry - since
  OBVIOUS
<1>5. ASSUME NEW f \in entries PROVE e.expiry <= f.expiry
  <2>1. f.expiry - since \in distances
    OBVIOUS
  <2>2. e.expiry - since <= f.expiry - since
    BY <1>3, <1>4, <2>1
  <2> QED
    BY <1>1, <2>2
<1>6. e \in Front(entries)
  BY <1>5 DEF Front
<1> QED
  BY <1>6

LEMMA AddKeepsArmed ==
  ASSUME TimerIInv, Clocks, Armed, NEW delay \in Delays, NEW period \in Periods,
         AddTimer(delay, period)
  PROVE  Armed' /\ Clocks'
<1> DEFINE new == [id |-> next_timer, expiry |-> delay, period |-> period, active |-> TRUE]
<1>1. /\ heap' = heap \cup {new} /\ next_timer <= MaxTimers
      /\ UNCHANGED <<tpc, taken>> /\ delay \in Nat
  BY TimerAssumption DEF AddTimer, TimerAssumption
<1>2. heap \subseteq Entries /\ new \in Entries /\ new.expiry = delay
  BY <1>1, TimerAssumption DEF TimerIInv, TablesTyped, Entries, TimerAssumption
<1> HIDE DEF new
<1>3. \A e \in heap : e.expiry \in Int
  BY <1>2 DEF Entries
<1>4. CASE \A e \in heap : e.expiry > delay
  <2>1. new \in Front(heap')
    BY <1>1, <1>2, <1>3, <1>4 DEF Front
  <2>2. timerfd' = ResetTimerFd(heap') /\ heap' \in SUBSET Entries
    BY <1>1, <1>2, <1>4 DEF AddTimer
  <2>3. PICK entries : entries = heap'
    OBVIOUS
  <2>4. timerfd' \in Nat \cup {Disarmed} /\ Due(timerfd', entries)
    BY <2>1, <2>2, <2>3, ResetCovers
  <2> QED
    BY <1>1, <2>3, <2>4 DEF Armed, Due, Clocks
<1>5. CASE \E e \in heap : ~(e.expiry > delay)
  <2>1. timerfd' = timerfd
    BY <1>5 DEF AddTimer
  <2>2. tpc \in {"idle", "polled"} => timerfd # Disarmed /\ (timerfd <= delay \/ timerfd = 0)
    BY <1>1, <1>3, <1>5 DEF Armed, Clocks, Disarmed
  <2> QED
    BY <1>1, <1>2, <2>1, <2>2 DEF Armed, Clocks
<1> QED
  BY <1>4, <1>5

\* The rest leaves the heap as it is, or moves all its times alike.
LEMMA OthersKeepArmed ==
  ASSUME TimerIInv, Clocks, Armed, [TimerNext]_timervars,
         ~\E delay \in Delays, period \in Periods : AddTimer(delay, period)
  PROVE  Armed' /\ Clocks'
<1>0. heap \subseteq Entries /\ \A e \in heap : e.expiry \in Int
  BY DEF TimerIInv, TablesTyped, Entries
<1>1. CASE TimerPoll
  BY <1>1 DEF TimerPoll, Armed, Clocks
<1>2. CASE HandleTimerEvent
  BY <1>2 DEF HandleTimerEvent, Armed, Clocks
<1>3. CASE PopTimer \/ CallbackReturns
  BY <1>3 DEF PopTimer, CallbackReturns, Armed, Clocks
<1>4. CASE TimersDone
  <2>1. heap = {} \/ Front(heap) # {}
    BY <1>0, <1>4, FrontExists DEF TimersDone, Clocks
  <2>2. ResetTimerFd(heap) \in Nat \cup {Disarmed} /\ Due(ResetTimerFd(heap), heap)
    BY <1>0, <2>1, ResetCovers
  <2>3. timerfd' = ResetTimerFd(heap) /\ UNCHANGED <<heap, taken>>
    BY <1>4 DEF TimersDone
  <2> QED
    BY <2>2, <2>3 DEF Armed, Due, Clocks
<1>5. CASE TimerTick
  <2>1. /\ heap' = {[e EXCEPT !.expiry = @ - 1] : e \in heap} /\ tpc' = tpc
        /\ timerfd' = IF timerfd > 0 THEN timerfd - 1 ELSE timerfd
    BY <1>5 DEF TimerTick
  <2>2. \A e \in heap : [e EXCEPT !.expiry = @ - 1].expiry = e.expiry - 1
    BY <1>0 DEF Entries
  <2>3. \A e \in heap' : \E f \in heap : e.expiry = f.expiry - 1
    BY <2>1, <2>2
  <2>4. Clocks'
    BY <1>5 DEF TimerTick, Clocks, Disarmed
  <2>5. ASSUME tpc' \in {"idle", "polled"}, NEW e \in heap'
        PROVE  timerfd' # Disarmed /\ (timerfd' <= e.expiry \/ timerfd' = 0)
    <3>1. PICK f \in heap : e.expiry = f.expiry - 1
      BY <2>3, <2>5
    <3>2. f.expiry \in Int /\ timerfd \in Nat /\ (timerfd <= f.expiry \/ timerfd = 0)
      BY <1>0, <2>1, <2>5, <3>1 DEF Armed, Clocks
    <3> QED
      BY <2>1, <3>1, <3>2 DEF Disarmed
  <2> QED
    BY <2>4, <2>5 DEF Armed
<1>6. ASSUME NEW id \in active_ids, CancelTimer(id) PROVE Armed' /\ Clocks'
  <2>1. /\ heap' = {[e EXCEPT !.active = e.active /\ e.id # id] : e \in heap}
        /\ UNCHANGED <<tpc, timerfd, taken>>
    BY <1>6 DEF CancelTimer
  <2>2. \A e \in heap : [e EXCEPT !.active = e.active /\ e.id # id].expiry = e.expiry
    BY <1>0 DEF Entries
  <2>3. \A e \in heap' : \E f \in heap : e.expiry = f.expiry
    BY <2>1, <2>2
  <2> QED
    BY <2>1, <2>3 DEF Armed, Clocks
<1>7. CASE UNCHANGED timervars
  BY <1>7 DEF timervars, Armed, Clocks
<1> QED
  BY <1>1, <1>2, <1>3, <1>4, <1>5, <1>6, <1>7 DEF TimerNext, TimerLoop

LEMMA ArmedInductive == TimerIInv /\ Armed /\ Clocks /\ [TimerNext]_timervars => Armed' /\ Clocks'
<1> SUFFICES ASSUME TimerIInv, Armed, Clocks, [TimerNext]_timervars PROVE Armed' /\ Clocks'
  OBVIOUS
<1>1. ASSUME NEW delay \in Delays, NEW period \in Periods, AddTimer(delay, period)
      PROVE  Armed' /\ Clocks'
  BY <1>1, AddKeepsArmed
<1> QED
  BY <1>1, OthersKeepArmed

LEMMA ArmedInitially == TimerInit => Armed /\ Clocks
BY DEF TimerInit, Armed, Clocks, Disarmed

\* The timerfd covers the first timer (TimerManager.h:149), for any millisecond, set of
\* delays and periods, whatever callbacks add and cancel and however late the thread is.
THEOREM FirstTimerArmed == TimerSpec => []Armed
BY ArmedInitially, ArmedInductive, TimersInitially, TimersInductive, PTL DEF TimerSpec

\* What the handler holds.
HandlerTyped ==
  /\ tpc \in {"idle", "polled", "pop", "callback"}
  /\ entry \in [id : 0..MaxTimers, period : Periods \cup {0}]

LEMMA HandlerTypes == TimerIInv /\ HandlerTyped /\ [TimerNext]_timervars => HandlerTyped'
<1> SUFFICES ASSUME TimerIInv, HandlerTyped, [TimerNext]_timervars PROVE HandlerTyped'
  OBVIOUS
<1>1. CASE PopTimer
  <2>1. PICK e \in Front(heap) :
          \/ tpc' = "callback" /\ entry' = [id |-> e.id, period |-> e.period]
          \/ UNCHANGED <<tpc, entry>>
    BY <1>1 DEF PopTimer
  <2>2. e.id \in 0..MaxTimers /\ e.period \in Periods
    BY TimerAssumption DEF Front, TimerIInv, TablesTyped, Entries, TimerAssumption
  <2> QED
    BY <2>1, <2>2 DEF HandlerTyped
<1>2. CASE CallbackReturns
  BY <1>2, TimerAssumption DEF CallbackReturns, HandlerTyped, NoEntry, TimerAssumption
<1>3. CASE TimerPoll \/ HandleTimerEvent \/ TimersDone \/ TimerTick
  BY <1>3 DEF TimerPoll, HandleTimerEvent, TimersDone, TimerTick, HandlerTyped
<1>4. ASSUME NEW delay, NEW period, AddTimer(delay, period) PROVE HandlerTyped'
  BY <1>4 DEF AddTimer, HandlerTyped
<1>5. ASSUME NEW id, CancelTimer(id) PROVE HandlerTyped'
  BY <1>5 DEF CancelTimer, HandlerTyped
<1>6. CASE UNCHANGED timervars
  BY <1>6 DEF timervars, HandlerTyped
<1> QED
  BY <1>1, <1>2, <1>3, <1>4, <1>5, <1>6 DEF TimerNext, TimerLoop

\* The types of the timer manager, for any number of timers, set of delays and periods.
THEOREM TimerTypesHold == TimerSpec => []TimerTypeOK
<1>1. TimerInit => HandlerTyped
  BY TimerAssumption DEF TimerInit, HandlerTyped, NoEntry, TimerAssumption
<1>2. TimerIInv /\ Clocks /\ HandlerTyped => TimerTypeOK
  BY DEF TimerIInv, TablesTyped, Clocks, HandlerTyped, TimerTypeOK
<1> QED
  BY <1>1, <1>2, HandlerTypes, ArmedInitially, ArmedInductive, TimersInitially, TimersInductive,
     PTL
  DEF TimerSpec

-------------------------------------------------------------------------------
(* Camera *)

\* What close() leaves.
AllReleased ==
  /\ queued = {} /\ filled = {} /\ mapped = {} /\ ~fd_open
  /\ descriptors = 0 /\ maps = 0

\* A buffer is with the driver, waiting or filled, or with copyFrame, and is mapped.
OneOwner ==
  /\ queued \cap filled = {} /\ queued \cup filled \subseteq mapped
  /\ cpc \in {"copy", "requeue"} => index \in mapped \ (queued \cup filled)

\* What the process holds is what the object knows of.
Accounted ==
  /\ mapped \subseteq Buffers /\ fd_open \in BOOLEAN
  /\ descriptors = (IF fd_open THEN 1 ELSE 0) /\ maps = Cardinality(mapped)

CameraIInv ==
  /\ OneOwner /\ Accounted
  /\ cpc \in {"opening", "exit"} => AllReleased

LEMMA CloseReleases ==
  ASSUME Accounted, CloseCamera
  PROVE  AllReleased' /\ Accounted'
<1>1. Cardinality(mapped) \in Nat
  BY CameraAssumption, FS_Subset, FS_CardinalityType DEF Accounted, CameraAssumption
<1>2. AllReleased'
  BY <1>1 DEF Accounted, CloseCamera, AllReleased
<1>3. maps' = Cardinality(mapped')
  BY <1>2, FS_EmptySet DEF AllReleased
<1>4. fd_open' = FALSE /\ mapped' = {} /\ descriptors' = 0
  BY <1>2 DEF CloseCamera, AllReleased
<1> QED
  BY <1>2, <1>3, <1>4 DEF Accounted

LEMMA CameraInitially == CameraInit => CameraIInv
  BY FS_EmptySet DEF CameraInit, CameraIInv, OneOwner, Accounted, AllReleased

\* Steps that close the camera, whatever comes after.
LEMMA ClosingKeeps ==
  ASSUME CameraIInv, CloseCamera, cpc' \notin {"copy", "requeue"}
  PROVE  CameraIInv'
<1>1. AllReleased' /\ Accounted'
  BY CloseReleases DEF CameraIInv
<1>2. OneOwner'
  BY <1>1 DEF AllReleased, OneOwner
<1> QED
  BY <1>1, <1>2 DEF CameraIInv

\* A failed read closes the camera, or leaves rest with the driver.
LEMMA FailureKeeps ==
  ASSUME CameraIInv, NEW timeout, NEW rest, Failure(timeout, rest), cpc' = "top",
         rest \subseteq mapped, rest \cap filled = {}
  PROVE  CameraIInv'
<1>1. CASE CloseCamera
  BY <1>1, ClosingKeeps
<1>2. CASE queued' = rest /\ UNCHANGED <<resources, filled>>
  BY <1>2 DEF CameraIInv, OneOwner, Accounted, resources
<1> QED
  BY <1>1, <1>2 DEF Failure

LEMMA OpeningKeeps ==
  ASSUME CameraIInv, OpenCamera \/ OpenFailsMidway
  PROVE  CameraIInv'
<1>1. AllReleased
  BY DEF CameraIInv, OpenCamera, OpenFailsMidway
<1>2. CASE OpenCamera
  <2>1. Cardinality(Buffers) \in Nat
    BY CameraAssumption, FS_CardinalityType DEF CameraAssumption
  <2> QED
    BY <1>1, <1>2, <2>1 DEF OpenCamera, AllReleased, CameraIInv, OneOwner, Accounted
<1>3. CASE OpenFailsMidway
  <2>1. PICK got \in BOOLEAN, some \in SUBSET Buffers, given \in SUBSET Buffers :
          /\ given # {} => some = Buffers
          /\ fd_open' = got /\ descriptors' = descriptors + (IF got THEN 1 ELSE 0)
          /\ mapped' = some /\ maps' = maps + Cardinality(some) /\ queued' = given
    BY <1>3 DEF OpenFailsMidway
  <2>2. cpc' = "failed" /\ filled' = {} /\ given \subseteq some
    BY <1>1, <1>3, <2>1 DEF OpenFailsMidway, AllReleased
  <2>3. Cardinality(some) \in Nat
    BY CameraAssumption, FS_Subset, FS_CardinalityType DEF CameraAssumption
  <2> QED
    BY <1>1, <2>1, <2>2, <2>3 DEF AllReleased, CameraIInv, OneOwner, Accounted
<1> QED
  BY <1>2, <1>3

LEMMA ReadingKeeps ==
  ASSUME CameraIInv,
         PollTimeout \/ PollError \/ Dequeue \/ CopyRows \/ Requeue \/ RequeueFails \/ Deliver
  PROVE  CameraIInv'
<1> USE DEF CameraIInv, OneOwner, ReadFrame
<1>1. CASE PollTimeout
  BY <1>1, FailureKeeps DEF PollTimeout
<1>2. CASE PollError
  BY <1>2, FailureKeeps DEF PollError
<1>3. CASE Dequeue
  BY <1>3 DEF Dequeue, Accounted, resources
<1>4. CASE CopyRows
  BY <1>4 DEF CopyRows, CameraFrame, Accounted, resources
<1>5. CASE Requeue
  <2>1. index \in mapped /\ index \notin filled
    BY <1>5 DEF Requeue
  <2>2. CASE valid
    BY <1>5, <2>1, <2>2 DEF Requeue, Accounted, resources
  <2>3. CASE ~valid
    BY <1>5, <2>1, <2>3, FailureKeeps DEF Requeue
  <2> QED
    BY <2>2, <2>3
<1>6. CASE RequeueFails
  BY <1>6, FailureKeeps DEF RequeueFails
<1>7. CASE Deliver
  BY <1>7 DEF Deliver, CameraFrame, Accounted, resources
<1> QED
  BY <1>1, <1>2, <1>3, <1>4, <1>5, <1>6, <1>7

LEMMA CameraInductive == CameraIInv /\ [CameraNext]_cameravars => CameraIInv'
<1> SUFFICES ASSUME CameraIInv, [CameraNext]_cameravars PROVE CameraIInv'
  OBVIOUS
<1> USE DEF CameraFrame, resources
<1>1. CASE LoopTop
  BY <1>1 DEF LoopTop, CameraIInv, OneOwner, Accounted
<1>2. CASE Restart \/ OpenCloses \/ CloseFailed \/ LoopEnds
  BY <1>2, ClosingKeeps DEF Restart, OpenCloses, CloseFailed, LoopEnds
<1>3. CASE DeviceBreaks
  BY <1>3 DEF DeviceBreaks, CameraIInv, OneOwner, Accounted, AllReleased
<1>4. CASE DeviceReturns
  BY <1>4 DEF DeviceReturns, CameraIInv, OneOwner, Accounted, AllReleased
<1>5. CASE FillBuffer
  BY <1>5 DEF FillBuffer, CameraIInv, OneOwner, Accounted, AllReleased
<1>6. CASE UNCHANGED cameravars
  BY <1>6 DEF cameravars, driver, CameraIInv, OneOwner, Accounted, AllReleased
<1> QED
  BY <1>1, <1>2, <1>3, <1>4, <1>5, <1>6, OpeningKeeps, ReadingKeeps
    DEF CameraNext, CaptureStep

\* However opening fails and however often the camera is reopened, nothing is held that
\* the object does not know of (V4L2Camera.cpp:125), for any number of buffers.
THEOREM CameraLeaksNothing == CameraSpec => []NothingLeaked
<1>1. CameraIInv => NothingLeaked
  BY DEF CameraIInv, Accounted, AllReleased, NothingLeaked
<1> QED
  BY CameraInitially, CameraInductive, <1>1, PTL DEF CameraSpec

\* Rows are copied only from a buffer that the driver does not have (V4L2Camera.cpp:176).
THEOREM CopiesAreWhole == CameraSpec => []NoTornFrame
<1>1. CameraIInv => NoTornFrame
  BY DEF CameraIInv, OneOwner, NoTornFrame
<1> QED
  BY CameraInitially, CameraInductive, <1>1, PTL DEF CameraSpec

\* An open camera has not failed too often, and frames are read from an open one.
Reads ==
  /\ opened => failures < FailureLimit
  /\ cpc \in {"poll", "copy", "requeue", "frame"} => opened

\* The types that Accounted does not give.
CameraTyped ==
  /\ device \in {"ok", "broken"} /\ descriptor \in {"live", "dead", "none"}
  /\ queued \subseteq Buffers /\ filled \subseteq Buffers
  /\ streaming \in BOOLEAN /\ opened \in BOOLEAN
  /\ failures \in 0..FailureLimit /\ restarts \in 0..MaxRestarts
  /\ cpc \in {"top", "open", "opening", "failed", "poll", "copy", "requeue", "frame", "exit"}
  /\ index \in Buffers /\ valid \in BOOLEAN

LEMMA FailureTyped ==
  ASSUME CameraTyped, Reads, opened, NEW timeout, NEW rest \in SUBSET Buffers,
         Failure(timeout, rest), cpc' = "top", ReadFrame, valid' = valid
  PROVE  CameraTyped' /\ Reads'
<1> USE CameraAssumption DEF CameraTyped, Reads, Failure, ReadFrame, CameraAssumption
<1>1. CASE failures + 1 >= FailureLimit
  <2>1. failures' \in 0..FailureLimit /\ opened' = FALSE
    BY <1>1
  <2>2. /\ device' \in {"ok", "broken"} /\ descriptor' = "none"
        /\ queued' = {} /\ filled' = {} /\ streaming' = FALSE
        /\ restarts' = restarts /\ index' = index
    BY <1>1 DEF CloseCamera
  <2> QED
    BY <2>1, <2>2
<1>2. CASE ~(failures + 1 >= FailureLimit)
  BY <1>2 DEF resources
<1> QED
  BY <1>1, <1>2

LEMMA CameraTypes ==
  CameraIInv /\ CameraTyped /\ Reads /\ [CameraNext]_cameravars => CameraTyped' /\ Reads'
<1> SUFFICES ASSUME CameraIInv, CameraTyped, Reads, [CameraNext]_cameravars
             PROVE  CameraTyped' /\ Reads'
  OBVIOUS
<1> USE CameraAssumption DEF CameraTyped, Reads, CameraAssumption
<1>1. CASE LoopTop
  BY <1>1 DEF LoopTop, CameraFrame, resources
<1>2. CASE Restart \/ LoopEnds \/ OpenCloses
  <2>1. /\ failures' \in 0..FailureLimit /\ restarts' \in 0..MaxRestarts
        /\ cpc' \in {"open", "opening", "exit"} /\ opened' \in BOOLEAN
        /\ opened' => failures' < FailureLimit
    <3>1. CASE Restart
      <4>1. failures' \in 0..FailureLimit /\ restarts' \in 0..MaxRestarts
        BY <3>1 DEF Restart
      <4>2. cpc' = "open" /\ ~opened' /\ opened' \in BOOLEAN
        BY <3>1, Zenon DEF Restart
      <4> QED
        BY <4>1, <4>2
    <3>2. CASE LoopEnds \/ OpenCloses
      BY <3>2 DEF LoopEnds, OpenCloses
    <3> QED
      BY <1>2, <3>1, <3>2
  <2>2. /\ device' = device /\ descriptor' = "none"
        /\ queued' = {} /\ filled' = {} /\ streaming' = FALSE
        /\ index' = index /\ valid' = valid
    BY <1>2 DEF Restart, LoopEnds, OpenCloses, CloseCamera
  <2> QED
    BY <2>1, <2>2
<1>3. CASE CloseFailed
  BY <1>3 DEF CloseFailed, CloseCamera
<1>4. CASE OpenCamera
  BY <1>4 DEF OpenCamera
<1>5. CASE OpenFailsMidway
  BY <1>5 DEF OpenFailsMidway
<1>6. CASE PollTimeout \/ PollError \/ RequeueFails
  <2>1. /\ opened /\ cpc' = "top" /\ ReadFrame /\ valid' = valid
        /\ \E timeout \in BOOLEAN : Failure(timeout, queued)
    BY <1>6 DEF PollTimeout, PollError, RequeueFails
  <2> QED
    BY <2>1, FailureTyped
<1>7. CASE Requeue
  <2>1. CASE valid
    BY <1>7, <2>1 DEF Requeue, ReadFrame, resources
  <2>2. CASE ~valid
    <3>1. /\ opened /\ cpc' = "top" /\ ReadFrame /\ valid' = valid
          /\ Failure(FALSE, queued \cup {index}) /\ queued \cup {index} \in SUBSET Buffers
      BY <1>7, <2>2 DEF Requeue
    <3> QED
      BY <3>1, FailureTyped
  <2> QED
    BY <2>1, <2>2
<1>8. CASE Dequeue
  BY <1>8 DEF Dequeue, resources
<1>9. CASE CopyRows \/ Deliver
  BY <1>9 DEF CopyRows, Deliver, CameraFrame, ReadFrame, resources
<1>10. CASE DeviceBreaks \/ DeviceReturns \/ FillBuffer
  BY <1>10 DEF DeviceBreaks, DeviceReturns, FillBuffer, resources
<1>11. CASE UNCHANGED cameravars
  BY <1>11 DEF cameravars, driver, resources
<1> QED
  BY <1>1, <1>2, <1>3, <1>4, <1>5, <1>6, <1>7, <1>8, <1>9, <1>10, <1>11
  DEF CameraNext, CaptureStep

\* The types of the camera, and the limit on the failures in a row, for every limit and
\* any number of buffers.
THEOREM CameraTypesHold == CameraSpec => []CameraTypeOK
<1>1. CameraInit => CameraTyped /\ Reads
  <2> SUFFICES ASSUME CameraInit PROVE CameraTyped /\ Reads
    OBVIOUS
  <2>1. index \in Buffers
    BY CameraAssumption DEF CameraInit, CameraAssumption
  <2>2. failures \in 0..FailureLimit /\ restarts \in 0..MaxRestarts
    BY CameraAssumption DEF CameraInit, CameraAssumption
  <2> QED
    BY <2>1, <2>2 DEF CameraInit, CameraTyped, Reads
<1>2. CameraIInv /\ CameraTyped => CameraTypeOK
  <2> SUFFICES ASSUME CameraIInv, CameraTyped PROVE CameraTypeOK
    OBVIOUS
  <2>1. Cardinality(mapped) \in Nat /\ mapped \subseteq Buffers
    BY CameraAssumption, FS_Subset, FS_CardinalityType
    DEF CameraIInv, Accounted, CameraAssumption
  <2> QED
    BY <2>1 DEF CameraIInv, Accounted, CameraTyped, CameraTypeOK
<1> QED
  BY <1>1, <1>2, CameraTypes, CameraInitially, CameraInductive, PTL DEF CameraSpec

-------------------------------------------------------------------------------
(* EventStorage *)

\* What a deletion goes by: all files there are are among the ones that were read, the
\* event being written has no manifest, and the count is not below the files left.
Reading == spc \in {"delete", "unlink"}
Asked == request \in [incoming : Nat, opening : BOOLEAN, items : SUBSET Events,
                      used : {request.used}, count : Int, item : {0} \cup Events]
StorageIInv ==
  /\ files \subseteq 1..last_event /\ last_event \in 0..MaxEvents
  /\ writing \in {0} \cup files
  /\ manifest \in [Events -> {"none", "kept", "complete"}]
  /\ spc \in {"return", "scan", "delete", "unlink"}
  /\ Asked
  /\ request.opening => writing = 0 /\ last_event < MaxEvents
  /\ writing # 0 => manifest[writing] = "none"
  /\ \A e \in Events : e > last_event => manifest[e] = "none"
  /\ Reading => files = request.items
  /\ spc = "unlink" => request.item \in Events \ {writing} /\ request.item <= last_event

\* The oldest candidate is one.
LEMMA OldestCandidate ==
  ASSUME StorageIInv, Candidates # {}
  PROVE  Min(Candidates) \in Candidates /\ \A e \in Candidates : Min(Candidates) <= e
<1>1. Candidates \in SUBSET Nat
  BY DEF StorageIInv, Asked, Candidates, Events
<1>2. \E x \in Candidates : \A y \in Candidates : x <= y
  BY <1>1, LeastOf
<1> QED
  BY <1>2, Zenon DEF Min

\* The files there are can be counted.
LEMMA StorageFinite == StorageIInv => IsFiniteSet(files) /\ Cardinality(files) \in Nat
<1> SUFFICES ASSUME StorageIInv PROVE IsFiniteSet(files) /\ Cardinality(files) \in Nat
  OBVIOUS
<1>1. last_event \in Int /\ files \in SUBSET (1..last_event)
  BY StorageAssumption DEF StorageIInv, StorageAssumption
<1>2. IsFiniteSet(1..last_event)
  BY <1>1, FS_Interval
<1>3. IsFiniteSet(files)
  BY <1>1, <1>2, FS_Subset
<1> QED
  BY <1>3, FS_CardinalityType

LEMMA StorageInitially == StorageInit => StorageIInv
<1> SUFFICES ASSUME StorageInit PROVE StorageIInv
  OBVIOUS
<1>1. Asked /\ ~request.opening
  BY DEF StorageInit, Asked, NoRequest
<1>2. manifest \in [Events -> {"none", "kept", "complete"}] /\ \A e \in Events : manifest[e] = "none"
  BY DEF StorageInit
<1>3. files = {} /\ last_event = 0 /\ writing = 0 /\ spc = "return" /\ 0 \in 0..MaxEvents
  BY StorageAssumption DEF StorageInit, StorageAssumption
<1>4. files \subseteq 1..last_event /\ writing \in {0} \cup files
  BY <1>3
<1>5. /\ last_event \in 0..MaxEvents /\ writing = 0
      /\ spc \in {"return", "scan", "delete", "unlink"} /\ ~Reading /\ spc # "unlink"
  BY <1>3, Zenon DEF Reading
<1> QED
  BY <1>1, <1>2, <1>4, <1>5, Zenon DEF StorageIInv

\* What every step keeps of it.
LEMMA StorageInductive == StorageIInv /\ [StorageNext]_storagevars => StorageIInv'
<1> SUFFICES ASSUME StorageIInv, [StorageNext]_storagevars PROVE StorageIInv'
  OBVIOUS
<1>a. NoRequest \in [incoming : Nat, opening : BOOLEAN, items : SUBSET Events,
                     used : {0}, count : Int, item : {0} \cup Events]
  BY DEF NoRequest
<1>b. request \in [incoming : Nat, opening : BOOLEAN, items : SUBSET Events,
                   used : {request.used}, count : Int, item : {0} \cup Events]
  BY DEF StorageIInv, Asked
<1>c. RingSizes \subseteq Nat /\ PacketSizes \subseteq Nat
  BY StorageAssumption, Zenon DEF StorageAssumption
<1> USE StorageAssumption DEF StorageIInv, Reading, StorageAssumption, Directory, written
<1>1. ASSUME NEW ring \in RingSizes, ReserveToOpen(ring) PROVE StorageIInv'
  <2>1. request' = [incoming |-> ring + 1, opening |-> TRUE, items |-> {}, used |-> 0,
                    count |-> 0, item |-> 0]
    BY <1>1 DEF ReserveToOpen, NoRequest
  <2>2. ring + 1 \in Nat
    <3>1. ring \in Nat
      BY <1>c, Zenon
    <3> QED
      BY <3>1
  <2>3. Asked' /\ request'.opening
    BY <2>1, <2>2 DEF Asked
  <2> QED
    BY <1>1, <2>3 DEF ReserveToOpen
<1>2. ASSUME NEW size \in PacketSizes, ReserveToWrite(size) PROVE StorageIInv'
  <2>1. request' = [incoming |-> size + 1, opening |-> FALSE, items |-> {}, used |-> 0,
                    count |-> 0, item |-> 0]
    BY <1>2 DEF ReserveToWrite, NoRequest
  <2>2. size + 1 \in Nat
    <3>1. size \in Nat
      BY <1>c, Zenon
    <3> QED
      BY <3>1
  <2>3. Asked' /\ ~request'.opening
    BY <2>1, <2>2 DEF Asked
  <2> QED
    BY <1>2, <2>3 DEF ReserveToWrite
<1>3. ASSUME NEW size \in PacketSizes, WritePacket(size) PROVE StorageIInv'
  BY <1>3 DEF WritePacket, Asked
<1>4. ASSUME NEW says \in {"none", "kept", "complete"}, writing # 0, CloseFile(says)
      PROVE  /\ manifest' \in [Events -> {"none", "kept", "complete"}] /\ writing' = 0
             /\ \A e \in Events : e > last_event => manifest'[e] = "none"
  <2>1. writing \in 1..last_event
    BY <1>4
  <2> QED
    BY <1>4, <2>1 DEF CloseFile, Events
<1>5. CASE FinishEvent
  BY <1>4, <1>5 DEF FinishEvent, Asked
<1>6. ASSUME request' = NoRequest, StorageCrash \/ Accepted \/ Rejected PROVE StorageIInv'
  <2>1. Asked' /\ ~request'.opening /\ request'.item = 0
    BY <1>6 DEF NoRequest, Asked
  <2>2. CASE StorageCrash
    BY <2>1, <2>2 DEF StorageCrash
  <2>3. CASE Accepted
    <3>1. spc' = "return" /\ UNCHANGED manifest
      BY <2>3 DEF Accepted
    <3>2. CASE UNCHANGED <<files, last_event, writing>>
      BY <2>1, <3>1, <3>2
    <3>3. CASE /\ request.opening /\ last_event' = last_event + 1 /\ writing' = last_event'
               /\ files' = files \cup {last_event'}
      <4>1. last_event < MaxEvents /\ last_event' \in Events /\ last_event' > last_event
        BY <3>3 DEF Events
      <4>2. manifest[last_event'] = "none"
        BY <4>1
      <4>3. files' \subseteq 1..last_event' /\ last_event' \in 0..MaxEvents
        BY <3>3, <4>1 DEF Events
      <4>4. \A e \in Events : e > last_event' => manifest[e] = "none"
        BY <4>1 DEF Events
      <4> QED
        BY <2>1, <3>1, <3>3, <4>2, <4>3, <4>4
    <3> QED
      BY <2>3, <3>2, <3>3 DEF Accepted
  <2>4. CASE Rejected
    BY <1>4, <2>1, <2>4 DEF Rejected
  <2> QED
    BY <1>6, <2>2, <2>3, <2>4
<1>7. CASE Scan
  <2>1. /\ request'.items = files /\ request'.opening = request.opening
        /\ request'.incoming \in Nat /\ request'.item \in {0} \cup Events
    BY <1>7, <1>b DEF Scan
  <2>2. request'.count \in Int
    BY <1>7, <1>b, StorageFinite DEF Scan
  <2>3. files \in SUBSET Events
    BY DEF Events
  <2>4. Asked'
    BY <1>7, <1>b, <2>1, <2>2, <2>3 DEF Scan, Asked
  <2> QED
    BY <1>7, <2>1, <2>4 DEF Scan, Events
<1>8. CASE RemoveFile
  <2>1. PICK e \in Candidates : e = Min(Candidates)
    BY <1>8, OldestCandidate DEF RemoveFile
  <2>2. /\ files' = files \ {e} /\ request' = [request EXCEPT !.items = @ \ {e}, !.item = e]
        /\ spc' = "unlink" /\ UNCHANGED <<bytes, manifest, last_event, written>>
        /\ spc = "delete"
    BY <1>8, <2>1 DEF RemoveFile
  <2>3. e \in Events /\ manifest[e] = "complete" /\ e # writing
    BY <1>b, <2>1 DEF Candidates, Removable
  <2>4. e <= last_event
    BY <2>3 DEF Events
  <2>5. /\ Asked' /\ request'.items = request.items \ {e} /\ request'.item = e
        /\ request'.opening = request.opening
    BY <1>b, <2>2, <2>3 DEF Asked
  <2> QED
    BY <2>2, <2>3, <2>4, <2>5
<1>9. CASE RemoveManifest
  <2>1. PICK used : request' = [request EXCEPT !.used = used, !.count = @ - 1, !.item = 0]
    BY <1>9 DEF RemoveManifest
  <2>2. /\ request'.items = request.items /\ request'.item = 0
        /\ request'.opening = request.opening /\ request'.incoming = request.incoming
        /\ request'.used = used /\ request'.count = request.count - 1
        /\ request.count - 1 \in Int
    BY <1>b, <2>1
  <2>3. Asked'
    BY <1>b, <2>1, <2>2 DEF Asked
  <2> QED
    BY <1>9, <2>2, <2>3 DEF RemoveManifest
<1>10. CASE UNCHANGED storagevars
  BY <1>10 DEF storagevars, Asked
<1>11. StorageCrash \/ Accepted \/ Rejected => request' = NoRequest
  BY DEF StorageCrash, Accepted, Rejected
<1> QED
  BY <1>1, <1>2, <1>3, <1>5, <1>6, <1>7, <1>8, <1>9, <1>10, <1>11 DEF StorageNext

\* Only complete events are deleted, the oldest first, for every budget, wherever
\* reserve() is interrupted (EventStorage.h:68).
THEOREM DeletionsGoByAge == StorageSpec => DeletesOldestComplete
<1>1. ASSUME StorageIInv, StorageNext, NEW e \in files \ files'
      PROVE  /\ e # writing /\ manifest[e] = "complete"
             /\ \A f \in files' : f < e => manifest[f] # "complete"
  <2>1. CASE RemoveFile
    <3>1. files' = files \ {Min(Candidates)} /\ spc = "delete" /\ Candidates # {}
      BY <2>1 DEF RemoveFile
    <3>2. e \in Candidates /\ \A f \in Candidates : e <= f
      BY <1>1, <3>1, OldestCandidate
    <3>3. files \subseteq request.items /\ files \subseteq Nat
      BY <1>1, <3>1, StorageAssumption DEF StorageIInv, Reading, StorageAssumption
    <3>4. ASSUME NEW f \in files', f < e PROVE manifest[f] # "complete"
      <4>1. f \in request.items /\ f \in Nat /\ e \in Nat
        BY <3>1, <3>3
      <4>2. f \notin Candidates
        BY <3>2, <3>4, <4>1
      <4>3. writing # 0 => manifest[writing] = "none"
        BY <1>1 DEF StorageIInv
      <4>4. f # 0
        BY <1>1, <3>1, StorageAssumption DEF StorageIInv, StorageAssumption
      <4> QED
        BY <4>1, <4>2, <4>3, <4>4 DEF Candidates, Removable
    <3> QED
      BY <3>2, <3>4 DEF Candidates, Removable
  <2>2. CASE ~RemoveFile
    <3>1. files \subseteq files'
      BY <1>1, <2>2 DEF StorageNext, ReserveToOpen, ReserveToWrite, WritePacket, FinishEvent,
        StorageCrash, Scan, RemoveManifest, Accepted, Rejected, Directory
    <3> QED
      BY <3>1
  <2> QED
    BY <2>1, <2>2
<1>2. StorageIInv /\ [StorageNext]_storagevars =>
        [\A e \in files \ files' :
           /\ e # writing /\ manifest[e] = "complete"
           /\ \A f \in files' : f < e => manifest[f] # "complete"]_storagevars
  BY <1>1
<1> QED
  BY <1>2, StorageInitially, StorageInductive, PTL DEF StorageSpec, DeletesOldestComplete

\* The events' number, and what reserve() thinks it is while it deletes: never too low.
Number == Cardinality(files)
Numbered ==
  /\ Number <= MaxFiles
  /\ spc \in {"delete", "unlink"} =>
       request.count >= Number + (IF request.opening THEN 1 ELSE 0)
                               + (IF spc = "unlink" THEN 1 ELSE 0)

LEMMA NumberedKept ==
  StorageIInv /\ StorageIInv' /\ Numbered /\ [StorageNext]_storagevars => Numbered'
<1> SUFFICES ASSUME StorageIInv, StorageIInv', Numbered, [StorageNext]_storagevars
    PROVE Numbered'
  OBVIOUS
<1>1. IsFiniteSet(files) /\ Number \in Nat /\ MaxFiles \in Nat
  BY StorageFinite, StorageAssumption DEF Number, StorageAssumption
<1>2. request.count \in Int
  BY DEF StorageIInv, Asked
<1>3. CASE Scan
  <2>1. request'.count = Number + (IF request.opening THEN 1 ELSE 0)
    BY <1>3 DEF Scan, Number, StorageIInv, Asked
  <2>2. request'.opening = request.opening /\ Number' = Number /\ spc' = "delete"
    BY <1>3 DEF Scan, Number, StorageIInv, Asked, Directory
  <2> QED
    BY <1>1, <2>1, <2>2 DEF Numbered
<1>4. CASE RemoveFile
  <2>1. Min(Candidates) \in Candidates
    BY <1>4, OldestCandidate DEF RemoveFile
  <2>2. /\ files' = files \ {Min(Candidates)} /\ spc = "delete" /\ spc' = "unlink"
        /\ request'.count = request.count /\ request'.opening = request.opening
    BY <1>4 DEF RemoveFile, StorageIInv, Asked
  <2>3. Number' = Number - 1
    <3>1. PICK e : e = Min(Candidates)
      OBVIOUS
    <3>2. e \in files /\ files' = files \ {e}
      BY <2>1, <2>2, <3>1 DEF Candidates, StorageIInv, Reading
    <3>3. Cardinality(files \ {e}) = Cardinality(files) - 1
      BY <1>1, <3>2, FS_RemoveElement
    <3> QED
      BY <3>2, <3>3 DEF Number
  <2> QED
    BY <1>1, <1>2, <2>2, <2>3 DEF Numbered
<1>5. CASE RemoveManifest
  <2>1. /\ Number' = Number /\ spc = "unlink" /\ spc' = "delete"
        /\ request'.count = request.count - 1 /\ request'.opening = request.opening
    BY <1>5 DEF RemoveManifest, StorageIInv, Asked, Number
  <2> QED
    BY <1>1, <1>2, <2>1 DEF Numbered
<1>6. CASE Accepted
  <2>1. spc' = "return" /\ spc = "delete" /\ request.count <= MaxFiles
    BY <1>6 DEF Accepted, Fits
  <2>2. CASE UNCHANGED files
    BY <2>1, <2>2 DEF Numbered, Number
  <2>3. CASE request.opening /\ files' = files \cup {last_event'}
    <3>1. Number' = IF last_event' \in files THEN Number ELSE Number + 1
      BY <1>1, <2>3, FS_AddElement DEF Number
    <3>2. Number + 1 <= MaxFiles
      BY <1>1, <1>2, <2>1, <2>3 DEF Numbered
    <3> QED
      BY <1>1, <2>1, <3>1, <3>2 DEF Numbered
  <2> QED
    BY <1>6, <2>2, <2>3 DEF Accepted
<1>7. CASE UNCHANGED <<files, request, spc>>
  BY <1>7 DEF Numbered, Number
<1>8. CASE UNCHANGED files /\ spc' \in {"return", "scan"}
  BY <1>8 DEF Numbered, Number
<1> QED
  BY <1>3, <1>4, <1>5, <1>6, <1>7, <1>8
    DEF StorageNext, ReserveToOpen, ReserveToWrite, WritePacket, FinishEvent, StorageCrash,
        Rejected, Directory, storagevars

\* The number of event files keeps to its limit, for every limit and whatever fails
\* or crashes between: the part of QuotaKept that does not add up sizes.
THEOREM FilesKeepLimit == StorageSpec => [](Cardinality(files) <= MaxFiles)
<1>1. StorageInit => Numbered
  BY FS_EmptySet, StorageAssumption DEF StorageInit, Numbered, Number, StorageAssumption
<1>2. Numbered => Cardinality(files) <= MaxFiles
  BY DEF Numbered, Number
<1> QED
  BY <1>1, <1>2, NumberedKept, StorageInitially, StorageInductive, PTL DEF StorageSpec

-------------------------------------------------------------------------------
(* InferenceHealth *)

Outcomes == ServiceTimes \cup {Failed}
Slows == {ms \in ServiceTimes : IsSlow(ms)}
Fasts == {ms \in ServiceTimes : IsFast(ms)}

\* The n items up to the i-th are all in K.
Ends(K, n, items, i) == i >= n /\ \A j \in i - n + 1 .. i : items[j] \in K

\* Exactly the last n items are in K.
Counted(K, n, items) ==
  /\ n \in 0..Len(items)
  /\ \A j \in Len(items) - n + 1 .. Len(items) : items[j] \in K
  /\ n < Len(items) => items[Len(items) - n] \notin K

\* The mode that the outcomes ask for.
Slowed(items) ==
  \E i \in 1..Len(items) :
    /\ Ends(Slows, SlowLimit, items, i)
    /\ \A j \in i + 1 .. Len(items) : ~Ends(Fasts, FastLimit, items, j)

HealthIInv ==
  /\ degraded \in BOOLEAN /\ active \in BOOLEAN
  /\ outcomes \in Seq(Outcomes) /\ Len(outcomes) <= MaxOutcomes
  /\ active => Len(outcomes) < MaxOutcomes
  /\ Counted(Slows, slow, outcomes) /\ Counted(Fasts, fast, outcomes)
  /\ degraded <=> Slowed(outcomes)

\* A counter that is raised by an item of K and reset by any other keeps counting.
LEMMA CountGoesOn ==
  ASSUME NEW T, NEW K, NEW items \in Seq(T), NEW item \in T, NEW n, Counted(K, n, items),
         NEW m, m = IF item \in K THEN n + 1 ELSE 0
  PROVE  Counted(K, m, Append(items, item))
<1> DEFINE more == Append(items, item)
<1>1. /\ Len(more) = Len(items) + 1 /\ more[Len(items) + 1] = item
      /\ \A i \in 1..Len(items) : more[i] = items[i]
  OBVIOUS
<1>2. Len(items) \in Nat /\ n \in 0..Len(items)
  BY DEF Counted
<1> HIDE DEF more
<1>3. CASE item \in K
  <2>1. \A j \in Len(more) - m + 1 .. Len(more) : more[j] \in K
    BY <1>1, <1>2, <1>3 DEF Counted
  <2>2. m < Len(more) => more[Len(more) - m] \notin K
    BY <1>1, <1>2, <1>3 DEF Counted
  <2> QED
    BY <1>1, <1>2, <1>3, <2>1, <2>2 DEF Counted, more
<1>4. CASE item \notin K
  <2>1. m = 0 /\ more[Len(more) - m] \notin K
    BY <1>1, <1>2, <1>4
  <2> QED
    BY <1>1, <1>2, <2>1 DEF Counted, more
<1> QED
  BY <1>3, <1>4

\* A streak ends with the last item exactly when the counter has reached its length.
LEMMA CountEnds ==
  ASSUME NEW T, NEW K, NEW items \in Seq(T), NEW n, Counted(K, n, items),
         NEW limit \in Nat \ {0}
  PROVE  Ends(K, limit, items, Len(items)) <=> n >= limit
<1>1. Len(items) \in Nat /\ n \in 0..Len(items)
  BY DEF Counted
<1>2. ASSUME n >= limit PROVE Ends(K, limit, items, Len(items))
  BY <1>1, <1>2 DEF Counted, Ends
<1>3. ASSUME n < limit PROVE ~Ends(K, limit, items, Len(items))
  <2>1. CASE n = Len(items)
    BY <1>1, <1>3, <2>1 DEF Ends
  <2>2. CASE n < Len(items)
    <3>1. items[Len(items) - n] \notin K
      BY <2>2 DEF Counted
    <3>2. Len(items) - n \in Len(items) - limit + 1 .. Len(items)
      BY <1>1, <1>3
    <3> QED
      BY <3>1, <3>2 DEF Ends
  <2> QED
    BY <1>1, <2>1, <2>2
<1> QED
  BY <1>1, <1>2, <1>3

\* What comes later changes nothing of the streaks that ended before.
LEMMA EndsStay ==
  ASSUME NEW T, NEW K, NEW items \in Seq(T), NEW item \in T, NEW limit \in Nat \ {0},
         NEW i \in 1..Len(items)
  PROVE  Ends(K, limit, Append(items, item), i) <=> Ends(K, limit, items, i)
<1>1. \A j \in 1..Len(items) : Append(items, item)[j] = items[j]
  OBVIOUS
<1>2. i >= limit => \A j \in i - limit + 1 .. i : j \in 1..Len(items)
  OBVIOUS
<1> QED
  BY <1>1, <1>2 DEF Ends

\* How one more outcome changes the mode.
LEMMA SlowedNext ==
  ASSUME NEW item \in Outcomes, outcomes \in Seq(Outcomes),
         NEW s, NEW f,
         Counted(Slows, s, Append(outcomes, item)), Counted(Fasts, f, Append(outcomes, item)),
         s >= SlowLimit => f = 0
  PROVE  Slowed(Append(outcomes, item)) <=>
           \/ s >= SlowLimit
           \/ Slowed(outcomes) /\ f < FastLimit
<1> DEFINE more == Append(outcomes, item)  n == Len(outcomes)
<1>1. n \in Nat /\ more \in Seq(Outcomes) /\ Len(more) = n + 1
  OBVIOUS
<1>2. SlowLimit \in Nat \ {0} /\ FastLimit \in Nat \ {0}
  BY HealthAssumption DEF HealthAssumption
<1>3. /\ Ends(Slows, SlowLimit, more, n + 1) <=> s >= SlowLimit
      /\ Ends(Fasts, FastLimit, more, n + 1) <=> f >= FastLimit
  BY <1>1, <1>2, CountEnds
<1>4. \A i \in 1..n :
        /\ Ends(Slows, SlowLimit, more, i) <=> Ends(Slows, SlowLimit, outcomes, i)
        /\ Ends(Fasts, FastLimit, more, i) <=> Ends(Fasts, FastLimit, outcomes, i)
  BY <1>2, EndsStay
<1>5. s \in Nat /\ f \in Nat
  BY <1>1 DEF Counted
<1> HIDE DEF more
<1>6. CASE s >= SlowLimit
  <2>1. n + 1 \in 1..Len(more) /\ \A j \in n + 2 .. Len(more) : FALSE
    BY <1>1
  <2>2. Slowed(more)
    BY <1>1, <1>3, <1>6, <2>1 DEF Slowed
  <2> QED
    BY <1>6, <2>2 DEF more
<1>7. CASE s < SlowLimit /\ f >= FastLimit
  <2>1. ASSUME Slowed(more) PROVE FALSE
    <3>1. PICK i \in 1..n + 1 :
            /\ Ends(Slows, SlowLimit, more, i)
            /\ \A j \in i + 1 .. n + 1 : ~Ends(Fasts, FastLimit, more, j)
      BY <1>1, <2>1 DEF Slowed
    <3>2. i # n + 1
      BY <1>2, <1>3, <1>5, <1>7, <3>1
    <3>3. n + 1 \in i + 1 .. n + 1
      BY <1>1, <3>2
    <3> QED
      BY <1>3, <1>7, <3>1, <3>3
  <2> QED
    BY <1>2, <1>5, <1>7, <2>1 DEF more
<1>8. CASE s < SlowLimit /\ f < FastLimit
  <2>1. ~Ends(Slows, SlowLimit, more, n + 1) /\ ~Ends(Fasts, FastLimit, more, n + 1)
    BY <1>2, <1>3, <1>5, <1>8
  <2>2. ASSUME Slowed(more) PROVE Slowed(outcomes)
    <3>1. PICK i \in 1..n + 1 :
            /\ Ends(Slows, SlowLimit, more, i)
            /\ \A j \in i + 1 .. n + 1 : ~Ends(Fasts, FastLimit, more, j)
      BY <1>1, <2>2 DEF Slowed
    <3>2. i \in 1..n
      BY <1>1, <2>1, <3>1
    <3>3. \A j \in i + 1 .. n : ~Ends(Fasts, FastLimit, outcomes, j)
      BY <1>1, <1>4, <3>1, <3>2
    <3> QED
      BY <1>4, <3>1, <3>2, <3>3 DEF Slowed
  <2>3. ASSUME Slowed(outcomes) PROVE Slowed(more)
    <3>1. PICK i \in 1..n :
            /\ Ends(Slows, SlowLimit, outcomes, i)
            /\ \A j \in i + 1 .. n : ~Ends(Fasts, FastLimit, outcomes, j)
      BY <2>3 DEF Slowed
    <3>2. i \in 1..Len(more) /\ Ends(Slows, SlowLimit, more, i)
      BY <1>1, <1>4, <3>1
    <3>3. ASSUME NEW j \in i + 1 .. Len(more) PROVE ~Ends(Fasts, FastLimit, more, j)
      <4>1. CASE j = n + 1
        BY <2>1, <4>1
      <4>2. CASE j # n + 1
        <5>1. j \in 1..n /\ j \in i + 1 .. n
          BY <1>1, <3>1, <4>2
        <5> QED
          BY <1>4, <3>1, <5>1
      <4> QED
        BY <4>1, <4>2
    <3> QED
      BY <3>2, <3>3 DEF Slowed
  <2> QED
    BY <1>2, <1>5, <1>8, <2>2, <2>3 DEF more
<1> QED
  BY <1>2, <1>5, <1>6, <1>7, <1>8

LEMMA HealthInitially == HealthInit => HealthIInv
<1> SUFFICES ASSUME HealthInit PROVE HealthIInv
  OBVIOUS
<1>1. Counted(Slows, slow, outcomes) /\ Counted(Fasts, fast, outcomes)
  BY DEF HealthInit, Counted
<1>2. ~Slowed(outcomes)
  BY DEF HealthInit, Slowed
<1>3. outcomes \in Seq(Outcomes) /\ Len(outcomes) = 0 /\ 0 <= MaxOutcomes
  BY HealthAssumption DEF HealthInit, HealthAssumption
<1>4. degraded = FALSE /\ active = FALSE
  BY DEF HealthInit
<1>5. degraded <=> Slowed(outcomes)
  BY <1>2, <1>4, Zenon
<1> QED
  BY <1>1, <1>3, <1>4, <1>5 DEF HealthIInv

LEMMA EndKeepsMode ==
  ASSUME HealthIInv, NEW ms \in ServiceTimes, EndInference(ms)
  PROVE  HealthIInv'
<1>1. ms \in Nat /\ ms \in Outcomes /\ SlowMs \in Nat \ {0}
  BY HealthAssumption DEF HealthAssumption, Outcomes
<1>2. (ms \in Slows <=> IsSlow(ms)) /\ (ms \in Fasts <=> IsFast(ms))
  BY DEF Slows, Fasts
<1>3. outcomes' = Append(outcomes, ms) /\ outcomes \in Seq(Outcomes)
  BY DEF HealthIInv, EndInference
<1>4. Counted(Slows, slow', Append(outcomes, ms)) /\ Counted(Fasts, fast', Append(outcomes, ms))
  <2>1. /\ slow' = IF ms \in Slows THEN slow + 1 ELSE 0
        /\ fast' = IF ms \in Fasts THEN fast + 1 ELSE 0
    BY <1>2 DEF EndInference
  <2> QED
    BY <1>1, <1>3, <2>1, CountGoesOn DEF HealthIInv
<1>5. ~(IsSlow(ms) /\ IsFast(ms))
  BY <1>1 DEF IsSlow, IsFast
<1>6. slow' >= SlowLimit => IsSlow(ms) /\ fast' = 0
  BY <1>5, HealthAssumption DEF EndInference, HealthAssumption
<1>7. fast' >= FastLimit => IsFast(ms)
  BY HealthAssumption DEF EndInference, HealthAssumption
<1>8. slow' \in Nat /\ fast' \in Nat /\ SlowLimit \in Nat \ {0} /\ FastLimit \in Nat \ {0}
  BY <1>3, <1>4, HealthAssumption DEF Counted, HealthAssumption
<1>9. Slowed(outcomes') <=> slow' >= SlowLimit \/ (Slowed(outcomes) /\ fast' < FastLimit)
  BY <1>1, <1>3, <1>4, <1>6, SlowedNext
<1>10. degraded' \in BOOLEAN /\ (degraded' <=> Slowed(outcomes'))
  <2>1. CASE slow' >= SlowLimit
    BY <1>6, <1>9, <2>1 DEF EndInference
  <2>2. CASE ~(slow' >= SlowLimit) /\ fast' >= FastLimit
    <3>1. ~(fast' < FastLimit)
      BY <1>8, <2>2
    <3>2. ~Slowed(outcomes')
      BY <1>9, <2>2, <3>1, Zenon
    <3>3. degraded' = FALSE
      BY <1>7, <2>2 DEF EndInference
    <3> QED
      BY <3>2, <3>3, Zenon
  <2>3. CASE ~(slow' >= SlowLimit) /\ ~(fast' >= FastLimit)
    <3>1. degraded' = degraded
      BY <2>3 DEF EndInference
    <3> QED
      BY <1>8, <1>9, <2>3, <3>1 DEF HealthIInv
  <2> QED
    BY <2>1, <2>2, <2>3
<1>11. /\ outcomes' \in Seq(Outcomes) /\ Len(outcomes') <= MaxOutcomes /\ active' = FALSE
  BY <1>1, <1>3, HealthAssumption DEF HealthIInv, EndInference, HealthAssumption
<1> QED
  BY <1>3, <1>4, <1>10, <1>11 DEF HealthIInv

LEMMA FailKeepsMode ==
  ASSUME HealthIInv, FailInference
  PROVE  HealthIInv'
<1>1. /\ outcomes' = Append(outcomes, Failed) /\ outcomes \in Seq(Outcomes)
      /\ slow' = 0 /\ fast' = 0 /\ degraded' = degraded /\ active' = FALSE
      /\ Failed \in Outcomes
  BY DEF HealthIInv, FailInference, Outcomes
<1>2. Failed \notin Slows /\ Failed \notin Fasts
  BY HealthAssumption DEF Failed, Slows, Fasts, HealthAssumption
<1>3. Counted(Slows, 0, Append(outcomes, Failed)) /\ Counted(Fasts, 0, Append(outcomes, Failed))
  BY <1>1, <1>2, CountGoesOn DEF HealthIInv
<1>4. SlowLimit \in Nat \ {0} /\ FastLimit \in Nat \ {0}
  BY HealthAssumption DEF HealthAssumption
<1>5. Slowed(outcomes') <=> Slowed(outcomes)
  <2>1. ~(0 >= SlowLimit) /\ 0 < FastLimit
    BY <1>4
  <2>2. Slowed(Append(outcomes, Failed)) <=> 0 >= SlowLimit \/ (Slowed(outcomes) /\ 0 < FastLimit)
    BY <1>1, <1>3, <2>1, SlowedNext
  <2> QED
    BY <1>1, <2>1, <2>2, Zenon
<1>6. outcomes' \in Seq(Outcomes) /\ Len(outcomes') <= MaxOutcomes
  BY <1>1, HealthAssumption DEF HealthIInv, FailInference, HealthAssumption
<1> QED
  BY <1>1, <1>3, <1>5, <1>6 DEF HealthIInv

LEMMA HealthInductive == HealthIInv /\ [HealthNext]_healthvars => HealthIInv'
<1> SUFFICES ASSUME HealthIInv, [HealthNext]_healthvars PROVE HealthIInv'
  OBVIOUS
<1>1. CASE BeginInference
  BY <1>1 DEF BeginInference, HealthIInv, Slowed
<1>2. CASE UNCHANGED healthvars
  BY <1>2 DEF healthvars, HealthIInv, Slowed
<1> QED
  BY <1>1, <1>2, EndKeepsMode, FailKeepsMode DEF HealthNext

LEMMA ModesFollow == HealthIInv => ModesKept
<1> SUFFICES ASSUME HealthIInv PROVE ModesKept
  OBVIOUS
<1>1. outcomes \in Seq(Outcomes) /\ \A i \in 1..Len(outcomes) : outcomes[i] \in Outcomes
  BY DEF HealthIInv
<1>2. HealthTypeOK
  BY HealthAssumption DEF HealthIInv, HealthTypeOK, Counted, Outcomes, HealthAssumption
<1>3. \A i \in 1..Len(outcomes) :
        /\ SlowOutcome(outcomes[i]) <=> outcomes[i] \in Slows
        /\ FastOutcome(outcomes[i]) <=> outcomes[i] \in Fasts
  BY <1>1, HealthAssumption
    DEF SlowOutcome, FastOutcome, Slows, Fasts, Outcomes, Failed, HealthAssumption
<1>4. SlowLimit \in Nat \ {0} /\ FastLimit \in Nat \ {0}
  BY HealthAssumption DEF HealthAssumption
<1>5. ASSUME NEW i \in 1..Len(outcomes)
      PROVE  /\ Streak(SlowOutcome, SlowLimit, i) <=> Ends(Slows, SlowLimit, outcomes, i)
             /\ Streak(FastOutcome, FastLimit, i) <=> Ends(Fasts, FastLimit, outcomes, i)
  <2>1. /\ i >= SlowLimit => i - SlowLimit + 1 .. i \subseteq 1..Len(outcomes)
        /\ i >= FastLimit => i - FastLimit + 1 .. i \subseteq 1..Len(outcomes)
    BY <1>4
  <2> QED
    BY <1>3, <2>1 DEF Streak, Ends
<1>6. DegradedExact
  BY <1>5 DEF HealthIInv, Slowed, DegradedExact
<1> QED
  BY <1>2, <1>6 DEF ModesKept

\* Degraded mode is on exactly when the last full streak was a slow one, for every pair
\* of limits, every threshold and any service times (InferenceHealth.h:27).
THEOREM ModesExact == HealthSpec => []ModesKept
  BY HealthInitially, HealthInductive, ModesFollow, PTL DEF HealthSpec

-------------------------------------------------------------------------------
(* VideoService *)

\* The places of the main thread once the video thread, the encoder, the recorder and
\* the RTSP thread have come to their ends.
AfterVideo == {"eos", "wait", "null", "stop_recorder", "quit", "join_rtsp", "clients", "clear", "stopped"}
AfterEos == {"null", "stop_recorder", "quit", "join_rtsp", "clients", "clear", "stopped"}
AfterEncoder == {"stop_recorder", "quit", "join_rtsp", "clients", "clear", "stopped"}
AfterRecorder == {"quit", "join_rtsp", "clients", "clear", "stopped"}
AfterRtsp == {"clients", "clear", "stopped"}

\* What stop has waited for does not come back.
Ended ==
  /\ vpc = "new" => ~encoder.playing /\ recorder = "new" /\ vthread = "none" /\ loop = "none"
  /\ vpc \in AfterVideo => vthread \in {"none", "done"}
  /\ vpc \in AfterEncoder => ~encoder.playing
  /\ recorder = "stopped" => vpc \in AfterRecorder
  /\ vpc \in AfterRtsp => loop \in {"none", "done"}

\* Frames are counted on their way, and packets exist while the encoder plays.
Moving ==
  /\ frames + (IF vthread = "push" THEN 1 ELSE 0) + encoder.inside + packets <= submitted
  /\ vthread = "push" => encoder.inside < InputSize
  /\ encoder.playing => recorder = "on"
  /\ packet # Idle => encoder.playing /\ packet.n = packets /\ packet.at # "none"

\* EOS comes out of an encoder that has nothing left.
NothingInside == encoder.broken \/ (encoder.inside = 0 /\ packet = Idle)
Drained ==
  /\ encoder.eos => vpc \in AfterVideo \ {"eos"}
  /\ "eos" \in bus => encoder.eos /\ NothingInside
  /\ "error" \in bus => encoder.broken
  /\ vpc \in AfterEos => timed_out \/ NothingInside

\* One handler at most is connected, that of media_, and only the newest media is fed.
Handlers ==
  /\ connected \subseteq {media}
  /\ rtsp_input \in {None, factory.made} /\ sent.media <= factory.made /\ factory.since <= packets
  /\ vpc = "stopped" => connected = {} /\ rtsp_input = None /\ media = None

\* What the media that is fed has been sent.
Fed ==
  rtsp_input # None =>
    /\ ~waiting_key => sent.media = rtsp_input
                       /\ sent.n = packets - (IF packet = Idle THEN 0 ELSE 1)
    /\ sent.media = rtsp_input => /\ rtsp_base # ClockNone /\ sent.pts = sent.n - rtsp_base
                                  /\ sent.n <= packets - (IF packet = Idle THEN 0 ELSE 1)
    /\ rtsp_base # ClockNone => rtsp_base \in factory.since..packets

VideoIInv == VideoTypeOK /\ Ended /\ Moving /\ Drained /\ Handlers /\ Fed

LEMMA Steps ==
  {StopSteps[i] : i \in 1..11} =
    {"stop", "join_video", "eos", "wait", "null", "stop_recorder", "quit", "join_rtsp",
     "clients", "clear", "stopped"}
  BY DEF StopSteps

\* The types, piece by piece.
Vpcs == {"new", "started", "failed", "stop", "join_video", "eos", "wait", "null", "stop_recorder",
         "quit", "join_rtsp", "clients", "clear", "stopped"}
TypedMain ==
  /\ vpc \in Vpcs /\ running \in BOOLEAN /\ healthy \in BOOLEAN /\ closed \in BOOLEAN
  /\ recorder \in {"new", "on", "stopped"} /\ timed_out \in BOOLEAN /\ quit \in BOOLEAN
  /\ loop \in {"none", "starting", "running", "done"}
TypedFrames ==
  /\ frames \in 0..QueueSize /\ submitted \in 0..MaxFrames
  /\ vthread \in {"none", "top", "pop", "push", "done"}
  /\ encoder \in [playing : BOOLEAN, inside : 0..InputSize, eos : BOOLEAN, broken : BOOLEAN]
  /\ bus \subseteq {"error", "eos"}
TypedPackets ==
  /\ packet \in [n : 0..MaxFrames, key : BOOLEAN, at : {"none", "recorder", "rtsp"}]
  /\ packets \in 0..MaxFrames
TypedRtsp ==
  /\ rtsp_input \in 0..MaxMedia /\ media \in 0..MaxMedia /\ connected \subseteq 0..MaxMedia
  /\ waiting_key \in BOOLEAN /\ rtsp_base \in {ClockNone} \cup 0..MaxFrames
  /\ factory \in [live : 0..MaxMedia, made : 0..MaxMedia, since : 0..MaxFrames]
  /\ sent \in [media : 0..MaxMedia, n : 0..MaxFrames, key : BOOLEAN, pts : Int]

LEMMA TypedIs ==
  /\ VideoTypeOK <=> TypedMain /\ TypedFrames /\ TypedPackets /\ TypedRtsp
  /\ VideoTypeOK' <=> TypedMain' /\ TypedFrames' /\ TypedPackets' /\ TypedRtsp'
<1>1. VideoTypeOK <=> TypedMain /\ TypedFrames /\ TypedPackets /\ TypedRtsp
  BY Steps DEF VideoTypeOK, TypedMain, TypedFrames, TypedPackets, TypedRtsp, Vpcs
<1>2. VideoTypeOK' <=> TypedMain' /\ TypedFrames' /\ TypedPackets' /\ TypedRtsp'
  BY Steps DEF VideoTypeOK, TypedMain, TypedFrames, TypedPackets, TypedRtsp, Vpcs
<1> QED
  BY <1>1, <1>2

LEMMA VideoInitially == VideoInit => VideoIInv
<1> SUFFICES ASSUME VideoInit PROVE VideoIInv
  OBVIOUS
<1> USE VideoAssumption DEF VideoInit, VideoAssumption, Idle, None, ClockNone, QueueSize, InputSize
<1>1. TypedMain
  BY DEF TypedMain, Vpcs
<1>6. TypedFrames
  <2>1. encoder \in [playing : BOOLEAN, inside : 0..InputSize, eos : BOOLEAN, broken : BOOLEAN]
    OBVIOUS
  <2> QED
    BY <2>1 DEF TypedFrames
<1>7. TypedPackets
  BY DEF TypedPackets
<1>2. TypedRtsp
  BY DEF TypedRtsp
<1>3. Ended
  BY DEF Ended, AfterVideo, AfterEncoder, AfterRecorder, AfterRtsp
<1>4. Moving
  BY DEF Moving
<1>5. Drained /\ Handlers /\ Fed
  BY DEF Drained, Handlers, Fed, AfterVideo, AfterEos
<1> QED
  BY <1>1, <1>2, <1>3, <1>4, <1>5, <1>6, <1>7, TypedIs DEF VideoIInv

\* Every step, with the groups of variables it may change.
LEMMA MainTypes == VideoIInv /\ [VideoNext]_videoservicevars => TypedMain'
<1> SUFFICES ASSUME TypedMain, [VideoNext]_videoservicevars PROVE TypedMain'
  BY TypedIs DEF VideoIInv
<1> USE DEF TypedMain, Vpcs
<1>1. CASE StartVideo \/ StartVideoFails \/ StopVideo
  BY <1>1 DEF StartVideo, StartVideoFails, StopVideo, mainvars, videovars, rtspvars, loopvars
<1>2. CASE MainStop
  <2>1. CASE JoinVideo
    BY <2>1 DEF JoinVideo, At, videovars, loopvars
  <2>2. CASE EndOfStream
    BY <2>2 DEF EndOfStream, At, videovars, loopvars
  <2>3. CASE WaitForEos
    BY <2>3 DEF WaitForEos, At, videovars, loopvars
  <2>4. CASE StopEncoder
    BY <2>4 DEF StopEncoder, At, videovars, loopvars
  <2>5. CASE StopRecorder
    BY <2>5 DEF StopRecorder, At, videovars, loopvars
  <2>6. CASE AttachQuit
    BY <2>6 DEF AttachQuit, At, videovars
  <2>7. CASE JoinRtsp
    BY <2>7 DEF JoinRtsp, At, videovars, loopvars
  <2>8. CASE RemoveClients
    BY <2>8 DEF RemoveClients, At, videovars, loopvars
  <2>9. CASE ClearMedia
    BY <2>9 DEF ClearMedia, At, videovars, loopvars
  <2> QED
    BY <1>2, <2>1, <2>2, <2>3, <2>4, <2>5, <2>6, <2>7, <2>8, <2>9, Zenon DEF MainStop
<1>3. CASE VideoThread
  BY <1>3 DEF VideoThread, RunTop, RunPop, RunPush, mainvars, loopvars
<1>4. CASE RtspThread
  BY <1>4 DEF RtspThread, RunLoop, QuitLoop, ConfigureMedia, UnprepareMedia, mainvars, videovars, loopvars
<1>5. CASE UNCHANGED <<mainvars, healthy, recorder, timed_out, quit, loop>>
  BY <1>5 DEF mainvars
<1> QED
  BY <1>1, <1>2, <1>3, <1>4, <1>5
    DEF VideoNext, SubmitFrame, Encode, EncoderDrops, EncoderDrained, EncoderBreaks,
        StreamingThread, OnPacket, PushPacket, videoservicevars, videovars, loopvars

LEMMA FrameTypes == VideoIInv /\ [VideoNext]_videoservicevars => TypedFrames'
<1> SUFFICES ASSUME TypedFrames, Moving, [VideoNext]_videoservicevars PROVE TypedFrames'
  BY TypedIs DEF VideoIInv
<1> USE VideoAssumption DEF TypedFrames, QueueSize, InputSize, VideoAssumption
<1>1. CASE StartVideo
  BY <1>1 DEF StartVideo
<1>2. CASE StopVideo
  BY <1>2 DEF StopVideo, externalvars
<1>3. CASE EndOfStream \/ WaitForEos \/ StopEncoder
  BY <1>3 DEF EndOfStream, WaitForEos, StopEncoder, videovars
<1>4. CASE SubmitFrame
  BY <1>4 DEF SubmitFrame, externalvars
<1>5. CASE RunTop
  BY <1>5 DEF RunTop
<1>6. CASE RunPop
  BY <1>6 DEF RunPop, externalvars
<1>7. CASE RunPush
  BY <1>7 DEF RunPush, Moving
<1>8. CASE EncoderDrops
  BY <1>8 DEF EncoderDrops, videovars
<1>11. CASE EncoderDrained
  BY <1>11 DEF EncoderDrained, videovars
<1>12. CASE EncoderBreaks
  <2>1. bus' \subseteq {"error", "eos"}
    BY <1>12 DEF EncoderBreaks
  <2>2. encoder' = [encoder EXCEPT !.broken = TRUE] /\ UNCHANGED <<frames, submitted, vthread>>
    BY <1>12 DEF EncoderBreaks, videovars
  <2> QED
    BY <2>1, <2>2
<1>9. ASSUME NEW key \in BOOLEAN, Encode(key) PROVE TypedFrames'
  BY <1>9 DEF Encode, videovars
<1>10. CASE UNCHANGED <<frames, submitted, vthread, encoder, bus>>
  BY <1>10
<1> QED
  BY <1>1, <1>2, <1>3, <1>4, <1>5, <1>6, <1>7, <1>8, <1>9, <1>10, <1>11, <1>12
    DEF VideoNext, StartVideoFails, MainStop, JoinVideo, StopRecorder, AttachQuit, JoinRtsp,
        RemoveClients, ClearMedia, VideoThread, StreamingThread, OnPacket, PushPacket,
        RtspThread, RunLoop, QuitLoop, ConfigureMedia, UnprepareMedia,
        videoservicevars, videovars, externalvars

LEMMA PacketTypes == VideoIInv /\ [VideoNext]_videoservicevars => TypedPackets'
<1> SUFFICES ASSUME TypedPackets, TypedFrames, Moving, [VideoNext]_videoservicevars
    PROVE  TypedPackets'
  BY TypedIs DEF VideoIInv
<1> USE VideoAssumption DEF TypedPackets, VideoAssumption
<1>1. ASSUME NEW key \in BOOLEAN, Encode(key) PROVE TypedPackets'
  <2>1. packets + 1 \in 0..MaxFrames
    BY <1>1 DEF Encode, Moving, TypedFrames
  <2> QED
    BY <1>1, <2>1 DEF Encode
<1>2. CASE OnPacket
  BY <1>2 DEF OnPacket
<1>3. ASSUME NEW behind, NEW accepted, PushPacket(behind, accepted) PROVE TypedPackets'
  BY <1>3 DEF PushPacket, Idle
<1>4. CASE UNCHANGED <<packet, packets>>
  BY <1>4
<1> QED
  BY <1>1, <1>2, <1>3, <1>4
    DEF VideoNext, StartVideo, StartVideoFails, StopVideo, MainStop, JoinVideo, EndOfStream,
        WaitForEos, StopEncoder, StopRecorder, AttachQuit, JoinRtsp, RemoveClients, ClearMedia,
        SubmitFrame, VideoThread, RunTop, RunPop, RunPush, EncoderDrops, EncoderDrained,
        EncoderBreaks, StreamingThread, RtspThread, RunLoop, QuitLoop, ConfigureMedia,
        UnprepareMedia, videoservicevars, externalvars

LEMMA RtspTypes == VideoIInv /\ [VideoNext]_videoservicevars => TypedRtsp'
<1> SUFFICES ASSUME TypedRtsp, TypedPackets, [VideoNext]_videoservicevars PROVE TypedRtsp'
  BY TypedIs DEF VideoIInv
<1> USE VideoAssumption DEF TypedRtsp, TypedPackets, VideoAssumption, None, ClockNone
<1>1. ASSUME NEW behind \in BOOLEAN, NEW accepted \in BOOLEAN, PushPacket(behind, accepted)
      PROVE  TypedRtsp'
  <2>1. waiting_key' \in BOOLEAN /\ rtsp_base' \in {ClockNone} \cup 0..MaxFrames
    BY <1>1 DEF PushPacket
  <2>2. UNCHANGED <<rtsp_input, media, connected, factory>>
    BY <1>1 DEF PushPacket
  <2>3. sent' \in [media : 0..MaxMedia, n : 0..MaxFrames, key : BOOLEAN, pts : Int]
    <3>1. packet.n - rtsp_base' \in Int
      BY <2>1
    <3> QED
      BY <1>1, <3>1 DEF PushPacket
  <2> QED
    BY <2>1, <2>2, <2>3
<1>2. CASE ConfigureMedia
  <2>1. factory.made + 1 \in 0..MaxMedia
    BY <1>2 DEF ConfigureMedia
  <2> QED
    BY <1>2, <2>1 DEF ConfigureMedia
<1>3. CASE Unprepared /\ UNCHANGED sent
  <2>1. /\ factory' = [factory EXCEPT !.live = None]
        /\ rtsp_input' = None \/ rtsp_input' = rtsp_input
        /\ waiting_key' = TRUE \/ waiting_key' = waiting_key
        /\ UNCHANGED <<media, connected, rtsp_base, sent>>
    BY <1>3, Zenon DEF Unprepared
  <2>2. None \in 0..MaxMedia
    OBVIOUS
  <2>3. factory' \in [live : 0..MaxMedia, made : 0..MaxMedia, since : 0..MaxFrames]
    BY <2>1, <2>2
  <2> QED
    BY <2>1, <2>2, <2>3
<1>4. CASE ClearMedia
  BY <1>4 DEF ClearMedia
<1>5. CASE UNCHANGED <<rtspvars, factory, sent>>
  BY <1>5 DEF rtspvars
<1> QED
  BY <1>1, <1>2, <1>3, <1>4, <1>5
    DEF VideoNext, StartVideo, StartVideoFails, StopVideo, MainStop, JoinVideo, EndOfStream,
        WaitForEos, StopEncoder, StopRecorder, AttachQuit, JoinRtsp, RemoveClients,
        SubmitFrame, VideoThread, RunTop, RunPop, RunPush, Encode, EncoderDrops, EncoderDrained,
        EncoderBreaks, StreamingThread, OnPacket, RtspThread, RunLoop, QuitLoop,
        UnprepareMedia, videoservicevars

LEMMA EndedKept == VideoIInv /\ [VideoNext]_videoservicevars => Ended'
<1> SUFFICES ASSUME TypedMain, TypedFrames, Ended, [VideoNext]_videoservicevars PROVE Ended'
  BY TypedIs DEF VideoIInv
<1> USE DEF Ended, AfterVideo, AfterEncoder, AfterRecorder, AfterRtsp
<1>1. CASE StartVideo \/ StartVideoFails \/ StopVideo
  BY <1>1 DEF StartVideo, StartVideoFails, StopVideo, videovars, loopvars, externalvars
<1>2. CASE JoinVideo \/ StopRecorder \/ JoinRtsp
  BY <1>2 DEF At, JoinVideo, StopRecorder, JoinRtsp, videovars, loopvars, externalvars
<1>3. CASE EndOfStream \/ WaitForEos \/ AttachQuit \/ RemoveClients \/ ClearMedia
  <2>1. encoder'.playing = encoder.playing /\ UNCHANGED <<recorder, vthread, loop>>
    BY <1>3 DEF EndOfStream, WaitForEos, AttachQuit, RemoveClients, ClearMedia, videovars,
                loopvars, externalvars, TypedFrames
  <2> QED
    BY <1>3, <2>1 DEF At, EndOfStream, WaitForEos, AttachQuit, RemoveClients, ClearMedia
<1>4. CASE StopEncoder
  BY <1>4 DEF At, StopEncoder, videovars, loopvars, TypedFrames
<1>5. CASE VideoThread
  <2>1. encoder'.playing = encoder.playing /\ UNCHANGED <<vpc, recorder, loop>>
    BY <1>5 DEF VideoThread, RunTop, RunPop, RunPush, mainvars, loopvars, externalvars, TypedFrames
  <2>2. vthread \notin {"none", "done"}
    BY <1>5 DEF VideoThread, RunTop, RunPop, RunPush
  <2> QED
    BY <2>1, <2>2
<1>6. CASE RunLoop \/ QuitLoop
  BY <1>6 DEF RunLoop, QuitLoop, mainvars, videovars, externalvars
<1>7. CASE encoder'.playing = encoder.playing /\ UNCHANGED <<vpc, recorder, vthread, loop>>
  BY <1>7
<1>8. ASSUME \E key \in BOOLEAN : Encode(key) \/ EncoderDrops \/ EncoderDrained \/ EncoderBreaks
      PROVE  encoder'.playing = encoder.playing /\ UNCHANGED <<vpc, recorder, vthread, loop>>
  BY <1>8 DEF Encode, EncoderDrops, EncoderDrained, EncoderBreaks, mainvars, videovars, loopvars,
              TypedFrames
<1>9. CASE SubmitFrame \/ StreamingThread \/ ConfigureMedia \/ UnprepareMedia
           \/ UNCHANGED videoservicevars
  BY <1>9 DEF SubmitFrame, StreamingThread, OnPacket, PushPacket, ConfigureMedia,
              UnprepareMedia, videoservicevars, mainvars, videovars, loopvars, externalvars
<1> QED
  BY <1>1, <1>2, <1>3, <1>4, <1>5, <1>6, <1>7, <1>8, <1>9 DEF VideoNext, MainStop, RtspThread

LEMMA MovingKept == VideoIInv /\ [VideoNext]_videoservicevars => Moving'
<1> SUFFICES ASSUME TypedMain, TypedFrames, TypedPackets, Ended, Moving,
                    [VideoNext]_videoservicevars
             PROVE  Moving'
  BY TypedIs DEF VideoIInv
<1> USE DEF Moving, TypedFrames, TypedPackets, QueueSize, InputSize, Idle
<1>1. CASE StartVideo
  BY <1>1 DEF StartVideo, Ended
<1>2. CASE StartVideoFails
  BY <1>2 DEF StartVideoFails, Ended, videovars, externalvars
<1>3. CASE StopVideo
  BY <1>3 DEF StopVideo, externalvars
<1>4. CASE StopEncoder
  BY <1>4 DEF StopEncoder, videovars
<1>5. CASE StopRecorder
  BY <1>5 DEF At, StopRecorder, Ended, AfterEncoder, videovars, externalvars
<1>6. CASE SubmitFrame
  BY <1>6 DEF SubmitFrame, externalvars
<1>7. CASE RunTop
  BY <1>7 DEF RunTop
<1>8. CASE RunPop
  BY <1>8 DEF RunPop, externalvars
<1>9. CASE RunPush
  BY <1>9 DEF RunPush
<1>10. ASSUME NEW key \in BOOLEAN, Encode(key) PROVE Moving'
  BY <1>10 DEF Encode, Encoding, videovars
<1>11. CASE EncoderDrops
  BY <1>11 DEF EncoderDrops, videovars
<1>12. CASE OnPacket
  BY <1>12 DEF OnPacket, videovars
<1>13. ASSUME NEW behind, NEW accepted, PushPacket(behind, accepted) PROVE Moving'
  BY <1>13 DEF PushPacket, videovars
<1>14. CASE /\ encoder'.playing = encoder.playing /\ encoder'.inside = encoder.inside
            /\ UNCHANGED <<frames, submitted, vthread, recorder, packet, packets>>
  BY <1>14
<1>15. CASE EncoderDrained \/ EncoderBreaks \/ EndOfStream
  BY <1>14, <1>15 DEF EncoderDrained, EncoderBreaks, EndOfStream, videovars
<1>16. CASE JoinVideo \/ WaitForEos \/ AttachQuit \/ JoinRtsp \/ RemoveClients \/ ClearMedia
            \/ RtspThread \/ UNCHANGED videoservicevars
  BY <1>14, <1>16
    DEF JoinVideo, WaitForEos, AttachQuit, JoinRtsp, RemoveClients, ClearMedia, RtspThread,
        RunLoop, QuitLoop, ConfigureMedia, UnprepareMedia, videoservicevars, videovars,
        externalvars
<1> QED
  BY <1>1, <1>2, <1>3, <1>4, <1>5, <1>6, <1>7, <1>8, <1>9, <1>10, <1>11, <1>12, <1>13, <1>15,
     <1>16 DEF VideoNext, MainStop, VideoThread, StreamingThread

LEMMA DrainedKept == VideoIInv /\ [VideoNext]_videoservicevars => Drained'
<1> SUFFICES ASSUME TypedMain, TypedFrames, TypedPackets, Ended, Moving, Drained,
                    [VideoNext]_videoservicevars
             PROVE  Drained'
  BY TypedIs DEF VideoIInv
<1> USE DEF Drained, NothingInside, AfterVideo, AfterEos, TypedFrames, InputSize
<1>1. CASE StartVideo \/ StartVideoFails \/ StopVideo
  BY <1>1 DEF StartVideo, StartVideoFails, StopVideo, externalvars
<1>2. CASE JoinVideo \/ StopRecorder \/ AttachQuit \/ JoinRtsp \/ RemoveClients \/ ClearMedia
  BY <1>2 DEF At, JoinVideo, StopRecorder, AttachQuit, JoinRtsp, RemoveClients, ClearMedia,
              externalvars
<1>3. CASE EndOfStream
  BY <1>3 DEF At, EndOfStream
<1>4. CASE WaitForEos
  <2>1. /\ vpc = "wait" /\ vpc' = "null" /\ bus' \subseteq bus /\ UNCHANGED <<encoder, packet>>
        /\ timed_out' \/ NothingInside
    BY <1>4 DEF At, WaitForEos
  <2> QED
    BY <2>1
<1>5. CASE StopEncoder
  BY <1>5 DEF At, StopEncoder
<1>6. CASE RunTop
  BY <1>6 DEF RunTop, mainvars
<1>7. CASE RunPush
  BY <1>7 DEF RunPush, mainvars, Ended
<1>8. ASSUME NEW key \in BOOLEAN, Encode(key) PROVE Drained'
  BY <1>8 DEF Encode, Encoding, mainvars
<1>9. CASE EncoderDrops
  BY <1>9 DEF EncoderDrops, mainvars
<1>10. CASE EncoderDrained
  BY <1>10 DEF EncoderDrained, Encoding, mainvars
<1>11. CASE EncoderBreaks
  BY <1>11 DEF EncoderBreaks, mainvars
<1>12. CASE StreamingThread
  <2>1. packet # Idle /\ UNCHANGED <<encoder, bus, vpc, timed_out>>
    BY <1>12 DEF StreamingThread, OnPacket, PushPacket, mainvars, Idle
  <2> QED
    BY <2>1
<1>13. CASE SubmitFrame \/ RunPop \/ RtspThread \/ UNCHANGED videoservicevars
  <2>1. UNCHANGED <<encoder, bus, packet, vpc, timed_out>>
    BY <1>13 DEF SubmitFrame, RunPop, RtspThread, RunLoop, QuitLoop, ConfigureMedia,
                 UnprepareMedia, videoservicevars, mainvars, externalvars
  <2> QED
    BY <2>1
<1> QED
  BY <1>1, <1>2, <1>3, <1>4, <1>5, <1>6, <1>7, <1>8, <1>9, <1>10, <1>11, <1>12, <1>13
    DEF VideoNext, MainStop, VideoThread

\* The steps that leave what the media have alone.
LEMMA RtspUnchanged ==
  ASSUME [VideoNext]_videoservicevars, ~StreamingThread, ~(\E key \in BOOLEAN : Encode(key)),
         ~ConfigureMedia, ~UnprepareMedia, ~RemoveClients, ~ClearMedia
  PROVE  /\ UNCHANGED <<rtspvars, factory, sent, packet, packets>>
         /\ vpc' = "stopped" => vpc = "stopped"
  BY DEF VideoNext, StartVideo, StartVideoFails, StopVideo, MainStop, At, JoinVideo,
         EndOfStream, WaitForEos, StopEncoder, StopRecorder, AttachQuit, JoinRtsp, SubmitFrame,
         VideoThread, RunTop, RunPop, RunPush, EncoderDrops, EncoderDrained, EncoderBreaks,
         RtspThread, RunLoop, QuitLoop, videoservicevars, externalvars, mainvars

LEMMA HandlersKept == VideoIInv /\ [VideoNext]_videoservicevars => Handlers'
<1> SUFFICES ASSUME TypedMain, TypedPackets, TypedRtsp, Ended, Handlers,
                    [VideoNext]_videoservicevars
             PROVE  Handlers'
  BY TypedIs DEF VideoIInv
<1> USE VideoAssumption
    DEF Handlers, TypedPackets, TypedRtsp, None, VideoAssumption
<1>1. ASSUME NEW behind \in BOOLEAN, NEW accepted \in BOOLEAN, PushPacket(behind, accepted)
      PROVE  Handlers'
  <2>1. UNCHANGED <<rtsp_input, media, connected, factory, packets, vpc>>
    BY <1>1 DEF PushPacket, mainvars
  <2>2. sent' = sent \/ sent'.media = rtsp_input
    BY <1>1 DEF PushPacket
  <2> QED
    BY <2>1, <2>2
<1>2. CASE OnPacket
  BY <1>2 DEF OnPacket, mainvars, rtspvars
<1>3. ASSUME NEW key \in BOOLEAN, Encode(key) PROVE Handlers'
  BY <1>3 DEF Encode, mainvars, rtspvars
<1>4. CASE ConfigureMedia
  <2>1. /\ rtsp_input' = factory.made + 1 /\ media' = factory.made + 1
        /\ connected' = (connected \ {media}) \cup {factory.made + 1}
        /\ factory'.made = factory.made + 1 /\ factory'.since = packets
        /\ UNCHANGED <<sent, packets, vpc>> /\ loop = "running"
    BY <1>4 DEF ConfigureMedia, mainvars, externalvars
  <2>2. vpc # "stopped"
    BY <2>1 DEF Ended, AfterRtsp
  <2>3. connected' \subseteq {media'}
    <3>1. connected \ {media} = {}
      OBVIOUS
    <3> QED
      BY <2>1, <3>1, Zenon
  <2>4. /\ sent'.media <= factory'.made /\ factory'.since <= packets'
        /\ rtsp_input' = factory'.made
    BY <2>1
  <2> QED
    BY <2>1, <2>2, <2>3, <2>4
<1>5. CASE Unprepared /\ UNCHANGED <<sent, packets>> /\ vpc' # "stopped"
  <2>1. /\ factory' = [factory EXCEPT !.live = None]
        /\ rtsp_input' = None \/ rtsp_input' = rtsp_input
        /\ UNCHANGED <<media, connected>>
    BY <1>5, Zenon DEF Unprepared
  <2> QED
    BY <1>5, <2>1
<1>6. CASE UnprepareMedia
  <2>1. vpc # "stopped" /\ vpc' = vpc
    BY <1>6 DEF UnprepareMedia, Ended, AfterRtsp, mainvars
  <2> QED
    BY <1>5, <1>6, <2>1 DEF UnprepareMedia, externalvars
<1>7. CASE RemoveClients
  <2>1. vpc' = "clear" /\ UNCHANGED <<sent, packets>>
    BY <1>7 DEF RemoveClients, At, externalvars
  <2>2. CASE UNCHANGED <<factory, rtspvars>>
    BY <2>1, <2>2 DEF rtspvars
  <2> QED
    BY <1>5, <1>7, <2>1, <2>2 DEF RemoveClients
<1>8. CASE ClearMedia
  BY <1>8 DEF ClearMedia, externalvars
<1>9. CASE UNCHANGED <<rtspvars, factory, sent, packets>> /\ (vpc' = "stopped" => vpc = "stopped")
  BY <1>9 DEF rtspvars
<1> QED
  BY <1>1, <1>2, <1>3, <1>4, <1>6, <1>7, <1>8, <1>9, RtspUnchanged DEF StreamingThread

LEMMA FedKept == VideoIInv /\ [VideoNext]_videoservicevars => Fed'
<1> SUFFICES ASSUME TypedPackets, TypedRtsp, Moving, Handlers, Fed, [VideoNext]_videoservicevars
             PROVE  Fed'
  BY TypedIs DEF VideoIInv
<1> USE VideoAssumption
    DEF Fed, TypedPackets, TypedRtsp, None, ClockNone, Idle, VideoAssumption
<1>1. ASSUME NEW behind \in BOOLEAN, NEW accepted \in BOOLEAN, PushPacket(behind, accepted)
      PROVE  Fed'
  <2>1. /\ packet # Idle /\ packet' = Idle /\ packet.n = packets
        /\ UNCHANGED <<rtsp_input, factory, packets>>
    BY <1>1 DEF PushPacket, Moving
  <2>2. CASE UNCHANGED <<rtsp_base, sent>> /\ (waiting_key' = TRUE \/ rtsp_input = None)
    BY <2>1, <2>2
  <2>3. CASE waiting_key /\ UNCHANGED <<waiting_key, rtsp_base, sent>>
    BY <2>1, <2>3
  <2>4. CASE /\ rtsp_input # None
             /\ rtsp_base' = IF waiting_key /\ rtsp_base = ClockNone THEN packet.n ELSE rtsp_base
             /\ waiting_key' = ~accepted
             /\ sent' = IF accepted THEN [media |-> rtsp_input, n |-> packet.n,
                                          key |-> packet.key, pts |-> packet.n - rtsp_base']
                                    ELSE sent
    <3>1. rtsp_base' # ClockNone /\ rtsp_base' \in factory.since..packets
      BY <2>1, <2>4 DEF Handlers
    <3>2. CASE accepted
      BY <2>1, <2>4, <3>1, <3>2
    <3>3. CASE ~accepted
      <4>1. waiting_key' = TRUE /\ sent' = sent
        BY <2>4, <3>3, Zenon
      <4>2. sent.media = rtsp_input => rtsp_base' = rtsp_base /\ sent.n <= packets
        BY <2>1, <2>4
      <4> QED
        BY <2>1, <2>4, <3>1, <4>1, <4>2
    <3> QED
      BY <3>2, <3>3
  <2> QED
    BY <1>1, <2>2, <2>3, <2>4 DEF PushPacket
<1>2. CASE OnPacket
  <2>1. packet # Idle /\ packet' # Idle /\ UNCHANGED <<rtspvars, factory, sent, packets>>
    BY <1>2 DEF OnPacket
  <2> QED
    BY <2>1 DEF rtspvars
<1>3. ASSUME NEW key \in BOOLEAN, Encode(key) PROVE Fed'
  <2>1. /\ packet = Idle /\ packet' # Idle /\ packets' = packets + 1
        /\ UNCHANGED <<rtspvars, factory, sent>>
    BY <1>3 DEF Encode, Encoding
  <2> QED
    BY <2>1 DEF rtspvars
<1>4. CASE ConfigureMedia
  <2>1. /\ rtsp_input' = factory.made + 1 /\ waiting_key' = TRUE /\ rtsp_base' = ClockNone
        /\ UNCHANGED sent
    BY <1>4 DEF ConfigureMedia
  <2>2. sent.media < rtsp_input'
    BY <2>1 DEF Handlers
  <2> QED
    BY <2>1, <2>2
<1>5. CASE Unprepared /\ UNCHANGED <<sent, packet, packets>>
  <2>1. /\ factory' = [factory EXCEPT !.live = None]
        /\ rtsp_input' = None \/ (rtsp_input' = rtsp_input /\ waiting_key' = waiting_key)
        /\ UNCHANGED rtsp_base
    BY <1>5, Zenon DEF Unprepared
  <2>2. factory'.since = factory.since
    BY <2>1
  <2> QED
    BY <1>5, <2>1, <2>2
<1>6. CASE UnprepareMedia
  BY <1>5, <1>6 DEF UnprepareMedia, externalvars
<1>7. CASE UNCHANGED <<rtspvars, factory, sent, packet, packets>>
  BY <1>7 DEF rtspvars
<1>8. CASE RemoveClients
  BY <1>5, <1>7, <1>8 DEF RemoveClients, externalvars
<1>9. CASE ClearMedia
  BY <1>9 DEF ClearMedia
<1> QED
  BY <1>1, <1>2, <1>3, <1>4, <1>6, <1>7, <1>8, <1>9, RtspUnchanged DEF StreamingThread

LEMMA VideoInductive == VideoIInv /\ [VideoNext]_videoservicevars => VideoIInv'
<1> SUFFICES ASSUME VideoIInv, [VideoNext]_videoservicevars PROVE VideoIInv'
  OBVIOUS
<1>1. TypedMain' /\ TypedFrames' /\ TypedPackets' /\ TypedRtsp'
  BY MainTypes, FrameTypes, PacketTypes, RtspTypes
<1>2. VideoTypeOK'
  BY <1>1, TypedIs
<1> QED
  BY <1>2, EndedKept, MovingKept, DrainedKept, HandlersKept, FedKept DEF VideoIInv

\* The service stays in the states its code has names for, for any number of frames and
\* clients.
THEOREM VideoTypes == VideoSpec => []VideoTypeOK
<1>1. VideoIInv => VideoTypeOK
  BY DEF VideoIInv
<1> QED
  BY <1>1, VideoInitially, VideoInductive, PTL DEF VideoSpec

\* What a media is sent can be decoded from the first packet on and has time stamps that
\* count from a packet of its own, however often clients come and go, fall behind or
\* refuse a packet (VideoService.cpp:136).
LEMMA SendsInOrder ==
  ASSUME VideoIInv, VideoNext, sent' # sent
  PROVE  /\ sent'.key \/ (sent'.media = sent.media /\ sent'.n = sent.n + 1)
         /\ IF sent'.media = sent.media THEN sent'.pts > sent.pts
                                        ELSE sent'.pts \in 0..sent'.n - factory.since
<1> USE DEF None, ClockNone, Idle
<1>1. PICK behind \in BOOLEAN, accepted \in BOOLEAN : PushPacket(behind, accepted)
  <2>1. UNCHANGED sent \/ StreamingThread
    <3>1. ASSUME NEW key \in BOOLEAN, Encode(key) PROVE UNCHANGED sent
      BY <3>1 DEF Encode
    <3>2. ConfigureMedia \/ UnprepareMedia \/ RemoveClients \/ ClearMedia => UNCHANGED sent
      BY DEF ConfigureMedia, UnprepareMedia, RemoveClients, ClearMedia
    <3> QED
      BY <3>1, <3>2, RtspUnchanged
  <2>2. OnPacket => UNCHANGED sent
    BY DEF OnPacket
  <2> QED
    BY <2>1, <2>2 DEF StreamingThread
<1>2. /\ rtsp_input # None /\ (waiting_key => packet.key)
      /\ rtsp_base' = IF waiting_key /\ rtsp_base = ClockNone THEN packet.n ELSE rtsp_base
      /\ sent' = [media |-> rtsp_input, n |-> packet.n, key |-> packet.key,
                  pts |-> packet.n - rtsp_base']
  BY <1>1 DEF PushPacket
<1>3. packet # Idle /\ packet.n = packets
  BY <1>1 DEF PushPacket, VideoIInv, Moving
<1>4. TypedPackets /\ TypedRtsp /\ Fed /\ Handlers
  BY TypedIs DEF VideoIInv
<1> USE VideoAssumption DEF TypedPackets, TypedRtsp, Fed, Handlers, VideoAssumption
<1>5. ~waiting_key => sent.media = rtsp_input /\ packet.n = sent.n + 1
  BY <1>2, <1>3, <1>4
<1>6. CASE sent.media = rtsp_input
  <2>1. rtsp_base' = rtsp_base /\ sent.pts = sent.n - rtsp_base /\ sent.n < packet.n
    BY <1>2, <1>3, <1>4, <1>6
  <2> QED
    BY <1>2, <1>4, <1>5, <1>6, <2>1
<1>7. CASE sent.media # rtsp_input
  <2>1. rtsp_base' \in factory.since..packets
    BY <1>2, <1>3, <1>4, <1>5, <1>7
  <2> QED
    BY <1>2, <1>3, <1>4, <1>5, <1>7, <2>1
<1> QED
  BY <1>6, <1>7

\* A client can decode what it is sent from the first packet on.
THEOREM MediaDecodable == VideoSpec => Decodable
<1>1. VideoIInv /\ [VideoNext]_videoservicevars =>
        [sent' # sent => sent'.key \/ (sent'.media = sent.media /\ sent'.n = sent.n + 1)]_sent
  BY SendsInOrder DEF videoservicevars
<1> QED
  BY <1>1, VideoInitially, VideoInductive, PTL DEF VideoSpec, Decodable

\* Its time stamps grow, and start from a packet it was offered.
THEOREM MediaClock == VideoSpec => OwnClock
<1>1. VideoIInv /\ [VideoNext]_videoservicevars =>
        [sent' # sent => IF sent'.media = sent.media
                           THEN sent'.pts > sent.pts
                           ELSE sent'.pts \in 0..sent'.n - factory.since]_sent
  BY SendsInOrder DEF videoservicevars
<1> QED
  BY <1>1, VideoInitially, VideoInductive, PTL DEF VideoSpec, OwnClock

\* Nothing a working encoder has made is missing from the recorder when that is stopped
\* (VideoService.cpp:229), and nothing comes afterwards.
THEOREM RecorderMissesNothing == VideoSpec => []RecorderGetsAll
<1>1. VideoIInv => RecorderGetsAll
  BY DEF VideoIInv, RecorderGetsAll, Ended, Moving, Drained, NothingInside, Idle, AfterRecorder,
         AfterEos
<1> QED
  BY <1>1, VideoInitially, VideoInductive, PTL DEF VideoSpec

\* When stop has returned, no handler of a media refers to the service any more.
THEOREM HandlersGone == VideoSpec => []NoHandlerLeft
<1>1. VideoIInv => NoHandlerLeft
  BY DEF VideoIInv, Handlers, NoHandlerLeft
<1> QED
  BY <1>1, VideoInitially, VideoInductive, PTL DEF VideoSpec

-------------------------------------------------------------------------------
(* Detections *)

\* What is sorted step by step is sorted.
LEMMA DescendingAll ==
  ASSUME NEW d \in Seq(Detection), Descending(d), NEW i \in 1..Len(d), NEW j \in i..Len(d)
  PROVE  d[i].confidence >= d[j].confidence
<1>1. \A n \in 1..Len(d) : d[n].confidence \in Int
  <2>1. ASSUME NEW x \in Detection PROVE x.confidence \in Int
    <3>1. PICK k \in Kinds, c \in Confidences :
            x = [class |-> k.class, box |-> k.box, confidence |-> c]
      BY DEF Detection
    <3>2. Confidences \subseteq Int
      BY DetectionsAssumption DEF DetectionsAssumption
    <3> QED
      BY <3>1, <3>2
  <2> QED
    BY <2>1
<1> DEFINE Wrong == {n \in i..Len(d) : d[n].confidence > d[i].confidence}
<1>2. SUFFICES ASSUME Wrong # {} PROVE FALSE
  BY <1>1
<1>3. Wrong \in SUBSET Nat
  OBVIOUS
<1>4. PICK n \in Wrong : \A m \in Wrong : n <= m
  <2> HIDE DEF Wrong
  <2> QED
    BY <1>2, <1>3, LeastOf
<1>5. n # i /\ n \in i..Len(d) /\ d[n].confidence > d[i].confidence
  BY <1>1, <1>4
<1>6. n - 1 \in i..Len(d) /\ n - 1 \notin Wrong
  BY <1>4, <1>5
<1>7. d[n - 1].confidence >= d[n].confidence
  <2>1. n - 1 \in 1 .. Len(d) - 1 /\ (n - 1) + 1 = n
    BY <1>5
  <2> QED
    BY <2>1 DEF Descending
<1> QED
  BY <1>1, <1>5, <1>6, <1>7

\* What the loop of nms has done with the candidates it has seen.
Found(d) ==
  \/ \E i \in DOMAIN out : out[i] = d
  \/ \E i \in DOMAIN out : Suppresses(out[i], d) /\ out[i].confidence >= d.confidence
IsCandidate(i) == \E n \in 1..visited : out[i] = candidates[n]

NmsIInv ==
  /\ dpc \in {"call", "candidate", "return"}
  /\ candidates \in Seq(Detection) /\ out \in Seq(Detection)
  /\ Len(out) <= OutLimit /\ visited \in 0..Len(candidates)
  /\ Descending(candidates)
  /\ \A i \in 1..Len(out) : IsCandidate(i)
  /\ \A i, j \in 1..Len(out) : i < j => /\ out[i].confidence >= out[j].confidence
                                        /\ ~Suppresses(out[i], out[j])
  /\ \A n \in 1..visited : Found(candidates[n])
  /\ dpc = "call" => candidates = <<>>
  /\ dpc = "return" => \/ visited = LesserOf(TopK, Len(candidates)) \/ Len(out) = OutLimit

LEMMA NmsInitially == DetectionsInit => NmsIInv
  BY DetectionsAssumption
    DEF DetectionsInit, NmsIInv, Descending, IsCandidate, Found, DetectionsAssumption

LEMMA NmsInductive == NmsIInv /\ [DetectionsNext]_detectionvars => NmsIInv'
<1> SUFFICES ASSUME NmsIInv, [DetectionsNext]_detectionvars PROVE NmsIInv'
  OBVIOUS
<1>0. OutLimit \in Nat \ {0} /\ TopK \in Nat
  BY DetectionsAssumption DEF DetectionsAssumption
<1>1. CASE CallNms
  <2>1. /\ candidates' \in Seq(Detection) /\ Descending(candidates') /\ dpc' = "candidate"
        /\ UNCHANGED <<visited, out>>
    BY <1>1 DEF CallNms
  <2>2. visited = 0 /\ out = <<>>
    BY <1>1 DEF CallNms, NmsIInv, IsCandidate
  <2> QED
    BY <1>0, <2>1, <2>2 DEF NmsIInv, Descending, IsCandidate, Found
<1>2. CASE TakeCandidate
  <2> DEFINE candidate == candidates[visited + 1]
  <2>1. /\ visited < LesserOf(TopK, Len(candidates)) /\ Len(out) < OutLimit /\ dpc = "candidate"
        /\ visited' = visited + 1 /\ UNCHANGED <<dpc, candidates>>
        /\ out' = IF \E i \in DOMAIN out : Suppresses(out[i], candidate) THEN out
                  ELSE Append(out, candidate)
    BY <1>2 DEF TakeCandidate
  <2>2. visited + 1 \in 1..Len(candidates) /\ candidate \in Detection
    BY <1>0, <2>1 DEF NmsIInv, LesserOf
  <2>3. \A n \in 1..visited : candidates[n].confidence >= candidate.confidence
    BY <2>2, DescendingAll DEF NmsIInv
  <2>4. \A i \in 1..Len(out) : out[i].confidence >= candidate.confidence
    BY <2>3 DEF NmsIInv, IsCandidate
  <2>5. PICK c : c = candidate
    OBVIOUS
  <2>6. out \in Seq(Detection) /\ c \in Detection /\ Len(out) \in Nat
    BY <2>2, <2>5 DEF NmsIInv
  <2>7. CASE \E i \in DOMAIN out : Suppresses(out[i], c)
    <3>1. out' = out
      BY <2>1, <2>5, <2>7
    <3>2. Found(c)
      BY <2>4, <2>5, <2>6, <2>7 DEF Found
    <3>3. \A n \in 1..visited' : Found(candidates[n])
      BY <2>1, <2>2, <2>5, <3>2 DEF NmsIInv
    <3>4. \A i \in 1..Len(out) : \E n \in 1..visited' : out[i] = candidates[n]
      BY <2>1 DEF NmsIInv, IsCandidate
    <3>5. visited' \in 0..Len(candidates)
      BY <2>1, <2>2 DEF NmsIInv
    <3>6. /\ \A n \in 1..visited' : Found(candidates[n])'
          /\ \A i \in 1..Len(out') : IsCandidate(i)'
      <4>1. \A d : Found(d) => Found(d)'
        BY <3>1 DEF Found
      <4>2. candidates' = candidates
        BY <2>1
      <4>3. \A n \in 1..visited' : Found(candidates[n])'
        BY <3>3, <4>1, <4>2 DEF Found
      <4>4. \A i \in 1..Len(out') : IsCandidate(i)'
        BY <3>1, <3>4, <4>2 DEF IsCandidate
      <4> QED
        BY <4>3, <4>4
    <3>7. dpc' = "candidate"
      BY <2>1
    <3> QED
      BY <2>1, <3>1, <3>5, <3>6, <3>7 DEF NmsIInv
  <2>8. CASE ~\E i \in DOMAIN out : Suppresses(out[i], c)
    <3>1. out' = Append(out, c)
      BY <2>1, <2>5, <2>8
    <3>2. /\ out' \in Seq(Detection) /\ Len(out') = Len(out) + 1 /\ out'[Len(out) + 1] = c
          /\ \A i \in 1..Len(out) : out'[i] = out[i]
      BY <2>6, <3>1
    <3>3. \A n \in 1..visited : Found(candidates[n])'
      <4>1. ASSUME NEW d, Found(d), NEW f, f = out' PROVE
              \/ \E i \in DOMAIN f : f[i] = d
              \/ \E i \in DOMAIN f : Suppresses(f[i], d) /\ f[i].confidence >= d.confidence
        BY <2>6, <3>1, <3>2, <4>1 DEF Found
      <4>2. ASSUME NEW n \in 1..visited PROVE Found(candidates[n])'
        <5>1. Found(candidates[n]) /\ candidates' = candidates
          BY <2>1 DEF NmsIInv
        <5> QED
          BY <4>1, <5>1, Zenon DEF Found
      <4> QED
        BY <4>2, Zenon
    <3>4. Len(out) + 1 \in DOMAIN out' /\ c = candidates'[visited']
      BY <2>1, <2>5, <2>6, <3>2
    <3>5. \A n \in 1..visited' : Found(candidates[n])'
      <4>1. \A n \in 1..visited' : n \in 1..visited \/ n = visited'
        BY <2>1 DEF NmsIInv
      <4>2. \E i \in DOMAIN out' : out'[i] = candidates'[visited']
        BY <3>2, <3>4, Zenon
      <4>3. ASSUME NEW n \in 1..visited' PROVE Found(candidates[n])'
        <5>1. CASE n \in 1..visited
          BY <3>3, <5>1, Zenon
        <5>2. CASE n = visited'
          BY <4>2, <5>2, Zenon DEF Found
        <5> QED
          BY <4>1, <5>1, <5>2
      <4> QED
        BY <4>3, Zenon
    <3>6. \A i \in 1..Len(out') : \E n \in 1..visited' : out'[i] = candidates'[n]
      <4>1. \A i \in 1..Len(out') : i \in 1..Len(out) \/ i = Len(out) + 1
        BY <2>6, <3>2
      <4>2. visited' \in 1..visited' /\ \A n \in 1..visited : n \in 1..visited'
        BY <2>1 DEF NmsIInv
      <4> QED
        BY <2>1, <3>2, <3>4, <4>1, <4>2 DEF NmsIInv, IsCandidate
    <3>7. \A i, j \in 1..Len(out') : i < j =>
            out'[i].confidence >= out'[j].confidence /\ ~Suppresses(out'[i], out'[j])
      <4> SUFFICES ASSUME NEW i \in 1..Len(out'), NEW j \in 1..Len(out'), i < j
          PROVE  out'[i].confidence >= out'[j].confidence /\ ~Suppresses(out'[i], out'[j])
        OBVIOUS
      <4>1. i \in 1..Len(out) /\ out'[i] = out[i]
        BY <2>6, <3>2
      <4>2. CASE j = Len(out) + 1
        BY <2>4, <2>5, <2>6, <2>8, <3>2, <4>1, <4>2
      <4>3. CASE j \in 1..Len(out)
        <5>1. out'[j] = out[j]
          BY <3>2, <4>3
        <5> QED
          BY <4>1, <4>3, <5>1 DEF NmsIInv
      <4> QED
        BY <2>6, <3>2, <4>2, <4>3
    <3>8. visited' \in 0..Len(candidates') /\ Len(out') <= OutLimit
      BY <1>0, <2>1, <2>2, <2>6, <3>2 DEF NmsIInv
    <3> QED
      BY <2>1, <3>2, <3>5, <3>6, <3>7, <3>8 DEF NmsIInv, IsCandidate
  <2> QED
    BY <2>7, <2>8
<1>3. CASE NmsReturns
  BY <1>3 DEF NmsReturns, NmsIInv, IsCandidate, Found
<1>4. CASE CallRestore
  <2>1. dpc = "call" /\ dpc' = "return" /\ UNCHANGED <<candidates, visited, out>>
    BY <1>4 DEF CallRestore
  <2>2. visited = 0 /\ Len(candidates) = 0
    BY <2>1 DEF NmsIInv
  <2> QED
    BY <1>0, <2>1, <2>2 DEF NmsIInv, IsCandidate, Found, LesserOf
<1>5. CASE UNCHANGED detectionvars
  BY <1>5 DEF detectionvars, NmsIInv, IsCandidate, Found
<1> QED
  BY <1>1, <1>2, <1>3, <1>4, <1>5 DEF DetectionsNext

\* The areas two boxes share do not depend on which is named first.
LEMMA SuppressionMutual ==
  ASSUME NEW a \in Detection, NEW b \in Detection
  PROVE  Suppresses(a, b) <=> Suppresses(b, a)
<1>1. ASSUME NEW x \in Detection
      PROVE  x.box.x \in Nat /\ x.box.y \in Nat /\ x.box.w \in Nat /\ x.box.h \in Nat
  <2>1. PICK k \in Kinds, c \in Confidences :
          x = [class |-> k.class, box |-> k.box, confidence |-> c]
    BY DEF Detection
  <2>2. k \in [class : Nat, box : [x : Nat, y : Nat, w : Nat \ {0}, h : Nat \ {0}]]
    BY DetectionsAssumption DEF DetectionsAssumption
  <2> QED
    BY <2>1, <2>2
<1>2. \A p, n, q, m \in Nat : Overlap(p, n, q, m) = Overlap(q, m, p, n)
  BY DEF Overlap, LesserOf, GreaterOf
<1>3. Intersection(a.box, b.box) = Intersection(b.box, a.box)
  BY <1>1, <1>2 DEF Intersection
<1>4. Intersection(a.box, b.box) \in Int
  <2>1. \A p, n, q, m \in Nat : Overlap(p, n, q, m) \in Int
    BY DEF Overlap, LesserOf, GreaterOf
  <2>2. /\ Overlap(a.box.x, a.box.w, b.box.x, b.box.w) \in Int
        /\ Overlap(a.box.y, a.box.h, b.box.y, b.box.h) \in Int
    BY <1>1, <2>1
  <2> QED
    BY <2>2 DEF Intersection
<1>5. Union(a.box, b.box) = Union(b.box, a.box)
  <2>1. PICK p, q : p = a.box.w * a.box.h /\ q = b.box.w * b.box.h
    OBVIOUS
  <2>2. p \in Int /\ q \in Int
    BY <1>1, <2>1
  <2>3. \A r, s \in Int : r * s \in Int
    OBVIOUS
  <2>4. PICK i : i = Intersection(a.box, b.box)
    OBVIOUS
  <2>5. p + q - i = q + p - i
    BY <1>4, <2>2, <2>4
  <2> QED
    BY <1>3, <2>1, <2>4, <2>5 DEF Union
<1> QED
  BY <1>3, <1>5 DEF Suppresses

LEMMA NmsIs == NmsIInv => NmsExact
<1> SUFFICES ASSUME NmsIInv, dpc = "return"
    PROVE  /\ Descending(out)
           /\ \A i, j \in DOMAIN out : i # j => ~Suppresses(out[i], out[j])
           /\ \A n \in DOMAIN candidates :
                LET d == candidates[n]
                    Surer(s) == \A i \in DOMAIN s : s[i].confidence >= d.confidence
                IN Found(d) \/ (Len(out) = OutLimit /\ Surer(out))
                            \/ (n > TopK /\ Surer(SubSeq(candidates, 1, TopK)))
  BY DEF NmsExact, Found
<1>0. OutLimit \in Nat \ {0} /\ TopK \in Nat
  BY DetectionsAssumption DEF DetectionsAssumption
<1>1. Descending(out)
  BY DEF NmsIInv, Descending
<1>2. ASSUME NEW i \in DOMAIN out, NEW j \in DOMAIN out, i # j
      PROVE  ~Suppresses(out[i], out[j])
  <2>1. i \in 1..Len(out) /\ j \in 1..Len(out) /\ out[i] \in Detection /\ out[j] \in Detection
    BY DEF NmsIInv
  <2>2. CASE i < j
    BY <2>1, <2>2 DEF NmsIInv
  <2>3. CASE j < i
    <3>1. ~Suppresses(out[j], out[i])
      BY <2>1, <2>3 DEF NmsIInv
    <3> QED
      BY <2>1, <3>1, SuppressionMutual
  <2> QED
    BY <1>2, <2>1, <2>2, <2>3
<1>3. ASSUME NEW n \in 1..Len(candidates), n > visited
      PROVE  /\ \A i \in 1..Len(out) : out[i].confidence >= candidates[n].confidence
             /\ visited = TopK => \A i \in 1..TopK :
                                    candidates[i].confidence >= candidates[n].confidence
             /\ Len(out) = OutLimit \/ visited = TopK
  <2>1. \A m \in 1..visited : candidates[m].confidence >= candidates[n].confidence
    BY <1>3, DescendingAll DEF NmsIInv
  <2>2. \A i \in 1..Len(out) : out[i].confidence >= candidates[n].confidence
    BY <2>1 DEF NmsIInv, IsCandidate
  <2>3. Len(out) = OutLimit \/ visited = TopK
    BY <1>0, <1>3 DEF NmsIInv, LesserOf
  <2> QED
    BY <2>1, <2>2, <2>3
<1>4. ASSUME NEW n \in DOMAIN candidates
      PROVE  \/ Found(candidates[n])
             \/ /\ Len(out) = OutLimit
                /\ \A i \in DOMAIN out : out[i].confidence >= candidates[n].confidence
             \/ /\ n > TopK
                /\ \A i \in DOMAIN SubSeq(candidates, 1, TopK) :
                     SubSeq(candidates, 1, TopK)[i].confidence >= candidates[n].confidence
  <2>1. n \in 1..Len(candidates) /\ DOMAIN out = 1..Len(out)
    BY DEF NmsIInv
  <2>2. CASE n <= visited
    <3>1. n \in 1..visited
      BY <2>1, <2>2 DEF NmsIInv
    <3> QED
      BY <3>1 DEF NmsIInv
  <2>3. CASE n > visited /\ Len(out) = OutLimit
    BY <1>3, <2>1, <2>3
  <2>4. CASE n > visited /\ visited = TopK
    <3>1. \A i \in 1..TopK : candidates[i].confidence >= candidates[n].confidence
      BY <1>3, <2>1, <2>4
    <3>2. TopK <= Len(candidates) /\ candidates \in Seq(Detection)
      BY <2>4 DEF NmsIInv
    <3>3. /\ DOMAIN SubSeq(candidates, 1, TopK) = 1..TopK
          /\ \A i \in 1..TopK : SubSeq(candidates, 1, TopK)[i] = candidates[i]
      BY <1>0, <3>2
    <3> QED
      BY <2>4, <3>1, <3>3
  <2> QED
    BY <1>3, <2>1, <2>2, <2>3, <2>4 DEF NmsIInv
<1> QED
  BY <1>1, <1>2, <1>4

\* nms returns detections by confidence, no two of which overlap too much, and leaves out
\* only what one of them suppresses or what comes after TopK candidates or OutLimit
\* results that are surer; for all candidates, thresholds and limits.
THEOREM NmsIsExact == DetectionsSpec => []NmsExact
  BY NmsInitially, NmsInductive, NmsIs, PTL DEF DetectionsSpec

\* What is left of a division is less than the divisor.
LEMMA Division ==
  ASSUME NEW a \in Nat, NEW m \in Nat \ {0}
  PROVE  a \div m \in Nat /\ a - m < m * (a \div m) /\ m * (a \div m) <= a
<1>1. a \div m \in Nat /\ a % m \in 0 .. m - 1
  OBVIOUS
<1>2. a = m * (a \div m) + (a % m)
  OBVIOUS
<1>3. m * (a \div m) \in Int
  BY <1>1
<1> QED
  BY <1>1, <1>2, <1>3

\* Rounding is off by half at most.
LEMMA RoundedNear ==
  ASSUME NEW n \in Int, NEW d \in Nat \ {0}
  PROVE  /\ Rounded(n, d) \in Int
         /\ 2 * (d * Rounded(n, d)) - 2 * n <= d /\ 2 * n - 2 * (d * Rounded(n, d)) <= d
<1> DEFINE m == 2 * d
<1>1. m \in Nat \ {0}
  OBVIOUS
<1>2. ASSUME NEW a \in Nat
      PROVE  /\ a \div m \in Nat /\ a - m < m * (a \div m) /\ m * (a \div m) <= a
  BY <1>1, Division
<1>3. ASSUME NEW q \in Int PROVE m * q = 2 * (d * q) /\ m * (-q) = -(m * q)
  OBVIOUS
<1>4. CASE n >= 0
  <2>1. 2 * n + d \in Nat
    BY <1>4
  <2>2. PICK q : q = (2 * n + d) \div m
    OBVIOUS
  <2>3. q \in Nat /\ (2 * n + d) - m < m * q /\ m * q <= 2 * n + d
    BY <1>2, <2>1, <2>2
  <2>4. Rounded(n, d) = q
    BY <1>4, <2>2 DEF Rounded
  <2> QED
    BY <1>3, <2>3, <2>4
<1>5. CASE n < 0
  <2>1. d - 2 * n \in Nat
    BY <1>5
  <2>2. PICK q : q = (d - 2 * n) \div m
    OBVIOUS
  <2>3. q \in Nat /\ (d - 2 * n) - m < m * q /\ m * q <= d - 2 * n
    BY <1>2, <2>1, <2>2
  <2>4. Rounded(n, d) = -q
    BY <1>5, <2>2 DEF Rounded
  <2>5. -q \in Int /\ 2 * (d * (-q)) = -(m * q)
    BY <1>3, <2>3
  <2> QED
    BY <2>3, <2>4, <2>5
<1> QED
  BY <1>4, <1>5

\* restore() of a coordinate that is p away from the border.
Back(p, w, r) == GreaterOf(0, LesserOf(Rounded(p * w, r), w))

LEMMA BackNear ==
  ASSUME NEW w \in Nat \ {0}, NEW r \in Nat \ {0}, NEW p \in Int
  PROVE  /\ Back(p, w, r) \in 0..w
         /\ p = 0 => Back(p, w, r) = 0
         /\ p = r => Back(p, w, r) = w
         /\ \A x \in 0..w : p = Rounded(x * r, w) =>
              /\ 2 * (r * (Back(p, w, r) - x)) <= w + r
              /\ 2 * (r * (x - Back(p, w, r))) <= w + r
<1>1. p * w \in Int
  OBVIOUS
<1>2. PICK q : q = Rounded(p * w, r)
  OBVIOUS
<1>3. q \in Int /\ 2 * (r * q) - 2 * (p * w) <= r /\ 2 * (p * w) - 2 * (r * q) <= r
  BY <1>1, <1>2, RoundedNear
<1>4. PICK b : b = Back(p, w, r)
  OBVIOUS
<1>5. b = GreaterOf(0, LesserOf(q, w))
  BY <1>2, <1>4 DEF Back
<1>6. b \in 0..w /\ (b = q \/ (q < 0 /\ b = 0) \/ (q > w /\ b = w))
  BY <1>3, <1>5 DEF GreaterOf, LesserOf
<1>7. ASSUME p = 0 PROVE b = 0
  <2>1. p * w = 0
    BY <1>7
  <2>2. q >= 1 => r * q >= r
    BY <1>3
  <2>3. q <= -1 => r * q <= -r
    BY <1>3
  <2>4. r * q \in Int
    BY <1>3
  <2>5. q = 0
    BY <1>3, <2>1, <2>2, <2>3, <2>4
  <2> QED
    BY <1>6, <2>5
<1>8. ASSUME p = r PROVE b = w
  <2>1. \A k \in Int : r * k \in Int /\ (k >= 1 => r * k >= r) /\ (k <= -1 => r * k <= -r)
    OBVIOUS
  <2>2. q - w \in Int /\ r * (q - w) = r * q - p * w
    BY <1>3, <1>8
  <2>3. 2 * (r * (q - w)) <= r /\ 2 * (r * (q - w)) >= -r
    BY <1>1, <1>3, <2>1, <2>2
  <2>4. q - w = 0
    BY <2>1, <2>2, <2>3
  <2> QED
    BY <1>3, <1>6, <2>4
<1>9. ASSUME NEW x \in 0..w, p = Rounded(x * r, w)
      PROVE  2 * (r * (b - x)) <= w + r /\ 2 * (r * (x - b)) <= w + r
  <2>1. x * r \in Int
    OBVIOUS
  <2>2. 2 * (w * p) - 2 * (x * r) <= w /\ 2 * (x * r) - 2 * (w * p) <= w
    BY <1>9, <2>1, RoundedNear
  <2>3. w * p = p * w /\ r * (q - x) = r * q - x * r /\ r * q \in Int
    BY <1>3
  <2>4. 2 * (r * (q - x)) <= w + r /\ 2 * (r * (x - q)) <= w + r
    <3>1. r * (x - q) = -(r * (q - x))
      BY <1>3
    <3> QED
      BY <1>1, <1>3, <2>1, <2>2, <2>3, <3>1
  <2>5. \A k, l \in Int : k <= l => r * k <= r * l
    OBVIOUS
  <2>6. \A k \in Int : k <= 0 => r * k <= 0
    OBVIOUS
  <2>7. (b - x <= q - x \/ b - x <= 0) /\ (x - b <= x - q \/ x - b <= 0)
    BY <1>3, <1>6
  <2>8. /\ r * (b - x) <= r * (q - x) \/ r * (b - x) <= 0
        /\ r * (x - b) <= r * (x - q) \/ r * (x - b) <= 0
    BY <1>3, <1>6, <2>5, <2>6, <2>7
  <2>9. \A k \in Int : r * k \in Int
    OBVIOUS
  <2> QED
    BY <1>3, <1>6, <2>4, <2>8, <2>9
<1> QED
  BY <1>4, <1>6, <1>7, <1>8, <1>9

\* What restore() was called with, and what it gave.
RestoreIInv ==
  \/ letterbox = NoLetterbox
  \/ \E w, h \in Sides, x1, x2 \in Points :
       letterbox = [width |-> w, height |-> h, x1 |-> x1, x2 |-> x2, l |-> Restored(x1, w, h),
                    r |-> Restored(x1, w, h)
                          + GreaterOf(0, Restored(x2, w, h) - Restored(x1, w, h))]

LEMMA RestoreInductive ==
  /\ DetectionsInit => RestoreIInv
  /\ RestoreIInv /\ [DetectionsNext]_detectionvars => RestoreIInv'
<1>1. DetectionsInit => RestoreIInv
  BY DEF DetectionsInit, RestoreIInv
<1>2. CallRestore => RestoreIInv'
  BY DEF CallRestore, RestoreIInv
<1>3. DetectionsNext /\ ~CallRestore => UNCHANGED letterbox
  BY DEF DetectionsNext, CallNms, TakeCandidate, NmsReturns
<1>4. UNCHANGED letterbox /\ RestoreIInv => RestoreIInv'
  BY DEF RestoreIInv
<1> QED
  BY <1>1, <1>2, <1>3, <1>4 DEF detectionvars

LEMMA ResizedSome ==
  ASSUME NEW w \in Sides, NEW h \in Sides
  PROVE  Resized(w, h) \in Nat \ {0} /\ Left(w, h) \in Int /\ w \in Nat \ {0} /\ h \in Nat \ {0}
<1>1. w \in Nat \ {0} /\ h \in Nat \ {0} /\ Side \in Nat \ {0}
  BY DetectionsAssumption DEF DetectionsAssumption
<1>2. GreaterOf(w, h) \in Nat \ {0} /\ w * Side \in Int
  BY <1>1 DEF GreaterOf
<1>3. Rounded(w * Side, GreaterOf(w, h)) \in Int
  BY <1>2, RoundedNear
<1>4. Resized(w, h) \in Nat \ {0}
  BY <1>3 DEF Resized, GreaterOf
<1>5. Left(w, h) \in Int
  BY <1>1, <1>4 DEF Left
<1> QED
  BY <1>1, <1>4, <1>5

LEMMA RestoreIs ==
  ASSUME RestoreIInv
  PROVE  /\ RestoreExact
         /\ letterbox \in [width : Sides \cup {0}, height : Sides \cup {0},
                           x1 : Points \cup {0}, x2 : Points \cup {0}, l : Nat, r : Nat]
<1>1. CASE letterbox = NoLetterbox
  BY <1>1 DEF RestoreExact, NoLetterbox
<1>2. CASE letterbox # NoLetterbox
  <2>1. PICK w \in Sides, h \in Sides, x1 \in Points, x2 \in Points :
          letterbox = [width |-> w, height |-> h, x1 |-> x1, x2 |-> x2,
                       l |-> Restored(x1, w, h),
                       r |-> Restored(x1, w, h)
                             + GreaterOf(0, Restored(x2, w, h) - Restored(x1, w, h))]
    BY <1>2 DEF RestoreIInv
  <2>2. PICK resized, left : resized = Resized(w, h) /\ left = Left(w, h)
    OBVIOUS
  <2>3. /\ resized \in Nat \ {0} /\ left \in Int /\ w \in Nat \ {0}
        /\ x1 - left \in Int /\ x2 - left \in Int
    BY <2>2, ResizedSome, DetectionsAssumption DEF DetectionsAssumption
  <2>4. PICK l, e : l = Back(x1 - left, w, resized) /\ e = Back(x2 - left, w, resized)
    OBVIOUS
  <2>5. l = Restored(x1, w, h) /\ e = Restored(x2, w, h)
    BY <2>2, <2>4 DEF Back, Restored
  <2>6. l \in 0..w /\ e \in 0..w
    BY <2>3, <2>4, BackNear
  <2>7. PICK r : r = l + GreaterOf(0, e - l)
    OBVIOUS
  <2>8. r \in l..w /\ (l <= e => r = e)
    BY <2>6, <2>7 DEF GreaterOf
  <2>9. /\ letterbox.width = w /\ letterbox.height = h /\ letterbox.x1 = x1 /\ letterbox.x2 = x2
        /\ letterbox.l = l /\ letterbox.r = r
    BY <2>1, <2>5, <2>7
  <2>10. ASSUME x1 = left, x2 = left + resized PROVE l = 0 /\ r = w
    <3>1. x1 - left = 0 /\ x2 - left = resized
      BY <2>3, <2>10
    <3>2. l = 0 /\ e = w
      BY <2>3, <2>4, <3>1, BackNear
    <3> QED
      BY <2>6, <2>8, <3>2
  <2>11. ASSUME NEW x \in 0..w, x1 = left + Rounded(x * resized, w)
         PROVE  GreaterOf(resized * (l - x), -(resized * (l - x))) * 2 <= w + resized
    <3>1. Rounded(x * resized, w) \in Int
      <4>1. x * resized \in Int
        BY <2>3
      <4> QED
        BY <2>3, <4>1, RoundedNear
    <3>2. x1 - left = Rounded(x * resized, w)
      BY <2>3, <2>11, <3>1
    <3>3. 2 * (resized * (l - x)) <= w + resized /\ 2 * (resized * (x - l)) <= w + resized
      BY <2>3, <2>4, <3>2, BackNear
    <3>4. resized * (x - l) = -(resized * (l - x)) /\ resized * (l - x) \in Int
      BY <2>3, <2>6
    <3> QED
      BY <2>3, <3>3, <3>4 DEF GreaterOf
  <2>12. RestoreExact
    <3>1. \A x \in 0..w : x1 = left + Rounded(x * resized, w) =>
            GreaterOf(resized * (l - x), -(resized * (l - x))) * 2 <= w + resized
      BY <2>11
    <3> QED
      BY <2>2, <2>6, <2>8, <2>9, <2>10, <3>1 DEF RestoreExact
  <2>13. l \in Nat /\ r \in Nat
    BY <2>3, <2>6, <2>8
  <2>14. letterbox = [width |-> w, height |-> h, x1 |-> x1, x2 |-> x2, l |-> l, r |-> r]
    BY <2>1, <2>5, <2>7
  <2> QED
    BY <2>12, <2>13, <2>14
<1> QED
  BY <1>1, <1>2

\* nms and restore() meet their definitions, for every network input, image, threshold and
\* limit: of the candidates exactly those are left out that a surer detection covers or
\* the limits cut off, a restored box lies in the image, and what it shows is within a
\* pixel of the network's input.
THEOREM DetectionsExact == DetectionsSpec => []DetectionsKept
<1>1. NmsIInv /\ RestoreIInv => DetectionsKept
  BY NmsIs, RestoreIs DEF DetectionsKept, DetectionsTypeOK, NmsIInv
<1> QED
  BY <1>1, NmsInitially, NmsInductive, RestoreInductive, PTL DEF DetectionsSpec
===============================================================================
