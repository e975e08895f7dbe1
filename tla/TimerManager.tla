----------------------------- MODULE TimerManager -----------------------------
(***************************************************************************)
(* TimerManager (core/reactor/TimerManager.h): a heap of timers behind one *)
(* timerfd, used by the network thread only: from the callback of the      *)
(* timerfd, from the callbacks of timers and from those of other           *)
(* descriptors.  The agent itself adds one periodic timer                  *)
(* (VisionPipeline.cpp:28); the class promises more, and is checked alone. *)
(*                                                                         *)
(* Time points are counted in ticks and relative to the present: TimerTick *)
(* moves them all.  The timerfd is set in whole milliseconds, of           *)
(* TicksPerMs ticks, rounded down.                                         *)
(***************************************************************************)
EXTENDS Integers, FiniteSets

CONSTANTS
  TicksPerMs,
  Delays, Periods,   \* the arguments of addTimer, in ticks
  MaxTimers,         \* bound: timers ever added
  MaxLate            \* bound: ticks the network thread lets an expired timer wait

ASSUME TimerAssumption ==
  /\ TicksPerMs \in Nat \ {0} /\ MaxTimers \in Nat /\ MaxLate \in Nat
  /\ Delays \subseteq Nat /\ Periods \subseteq Nat

VARIABLES
  heap,         \* heap_, a set of [id, expiry, period, active]
  active_ids,   \* active_ids_
  next_timer,   \* next_id_
  timerfd,      \* ticks until the timerfd expires, or Disarmed
  tpc,          \* what the network thread does
  taken,        \* handleTimerEvent: now
  entry,        \* handleTimerEvent: entry, while its callback runs
  cancelled     \* history: the ids that cancelTimer found

timervars == <<heap, active_ids, next_timer, timerfd, tpc, taken, entry, cancelled>>

Disarmed == -1
NoEntry == [id |-> 0, period |-> 0]
Entries == [id : 1..MaxTimers, expiry : Int, period : Periods, active : BOOLEAN]

TimerTypeOK ==
  /\ heap \subseteq Entries
  /\ active_ids \subseteq 1..MaxTimers /\ next_timer \in 1..MaxTimers + 1
  /\ timerfd \in Nat \cup {Disarmed}
  /\ tpc \in {"idle", "polled", "pop", "callback"}
  /\ taken \in Int
  /\ entry \in [id : 0..MaxTimers, period : Periods \cup {0}]
  /\ cancelled \subseteq 1..MaxTimers

TimerInit ==
  /\ heap = {} /\ active_ids = {} /\ next_timer = 1 /\ timerfd = Disarmed
  /\ tpc = "idle" /\ taken = 0 /\ entry = NoEntry /\ cancelled = {}

-------------------------------------------------------------------------------
\* Which of the entries that expire first is at the front is left open.
Front(entries) == {e \in entries : \A f \in entries : e.expiry <= f.expiry}

\* (mutant) a front that has expired meanwhile does not arm the timerfd.
MResetTimerFd(entries) ==
  IF entries = {} THEN Disarmed
  ELSE LET left == (CHOOSE e \in Front(entries) : TRUE).expiry IN
       IF left > 0 THEN (left \div TicksPerMs) * TicksPerMs ELSE Disarmed

\* resetTimerFd: the time the timerfd is set to; what is less than a millisecond
\* away, or past, makes it expire at once.
ResetTimerFd(entries) ==
  IF entries = {} THEN Disarmed
  ELSE LET left == (CHOOSE e \in Front(entries) : TRUE).expiry IN
       IF left > 0 THEN (left \div TicksPerMs) * TicksPerMs ELSE 0

\* Callbacks run between epoll_wait and the handler, and within the handler.
InCallback == tpc # "pop"

\* addTimer: the timerfd is set when the new timer is at the front.
AddTimer(delay, period) ==
  /\ InCallback /\ next_timer <= MaxTimers
  /\ heap' = heap \cup {[id |-> next_timer, expiry |-> delay, period |-> period,
                         active |-> TRUE]}
  /\ active_ids' = active_ids \cup {next_timer} /\ next_timer' = next_timer + 1
  /\ timerfd' = IF \A e \in heap : e.expiry > delay THEN ResetTimerFd(heap') ELSE timerfd
  /\ UNCHANGED <<tpc, taken, entry, cancelled>>

\* (mutant) the entry in the heap is not marked.
MCancelTimer(id) ==
  /\ InCallback /\ id \in active_ids
  /\ active_ids' = active_ids \ {id} /\ cancelled' = cancelled \cup {id}
  /\ UNCHANGED <<heap, next_timer, timerfd, tpc, taken, entry>>

\* cancelTimer leaves the entry in the heap.
CancelTimer(id) ==
  /\ InCallback /\ id \in active_ids
  /\ active_ids' = active_ids \ {id}
  /\ heap' = {[e EXCEPT !.active = e.active /\ e.id # id] : e \in heap}
  /\ cancelled' = cancelled \cup {id}
  /\ UNCHANGED <<next_timer, timerfd, tpc, taken, entry>>

\* epoll_wait reports the timerfd; other callbacks of the batch may come first.
TimerPoll ==
  /\ tpc = "idle" /\ timerfd = 0
  /\ tpc' = "polled"
  /\ UNCHANGED <<heap, active_ids, next_timer, timerfd, taken, entry, cancelled>>

\* handleTimerEvent: the read fails when the timerfd was set again meanwhile.
HandleTimerEvent ==
  /\ tpc = "polled"
  /\ IF timerfd = 0 THEN timerfd' = Disarmed /\ tpc' = "pop" /\ taken' = 0
                    ELSE tpc' = "idle" /\ UNCHANGED <<timerfd, taken>>
  /\ UNCHANGED <<heap, active_ids, next_timer, entry, cancelled>>

\* (mutant) whatever has expired is run.
MPopTimer ==
  /\ tpc = "pop"
  /\ \E e \in Front(heap) :
       /\ e.expiry <= taken
       /\ heap' = heap \ {e}
       /\ tpc' = "callback" /\ entry' = [id |-> e.id, period |-> e.period]
  /\ UNCHANGED <<active_ids, next_timer, timerfd, taken, cancelled>>

\* An expired entry leaves the heap; its callback runs unless it was cancelled.
PopTimer ==
  /\ tpc = "pop"
  /\ \E e \in Front(heap) :
       /\ e.expiry <= taken
       /\ heap' = heap \ {e}
       /\ IF e.active /\ e.id \in active_ids
            THEN tpc' = "callback" /\ entry' = [id |-> e.id, period |-> e.period]
            ELSE UNCHANGED <<tpc, entry>>
  /\ UNCHANGED <<active_ids, next_timer, timerfd, taken, cancelled>>

\* A periodic timer that is still wanted goes back into the heap.
CallbackReturns ==
  /\ tpc = "callback"
  /\ IF entry.period > 0 /\ entry.id \in active_ids
       THEN /\ heap' = heap \cup {[id |-> entry.id, expiry |-> entry.period,
                                   period |-> entry.period, active |-> TRUE]}
            /\ UNCHANGED active_ids
       ELSE heap' = heap /\ active_ids' = active_ids \ {entry.id}
  /\ entry' = NoEntry /\ tpc' = "pop"
  /\ UNCHANGED <<next_timer, timerfd, taken, cancelled>>

\* Nothing left that has expired: the timerfd is set for the front.
TimersDone ==
  /\ tpc = "pop"
  /\ \A e \in heap : e.expiry > taken
  /\ timerfd' = ResetTimerFd(heap) /\ tpc' = "idle"
  /\ UNCHANGED <<heap, active_ids, next_timer, taken, entry, cancelled>>

\* Time passes, also while the handler runs, but the thread is not late for ever.
TimerTick ==
  /\ \A e \in heap : e.expiry > -MaxLate
  /\ tpc \in {"pop", "callback"} => taken > -MaxLate
  /\ heap' = {[e EXCEPT !.expiry = @ - 1] : e \in heap}
  /\ timerfd' = IF timerfd > 0 THEN timerfd - 1 ELSE timerfd
  /\ taken' = IF tpc \in {"pop", "callback"} THEN taken - 1 ELSE 0
  /\ UNCHANGED <<active_ids, next_timer, tpc, entry, cancelled>>

TimerLoop == TimerPoll \/ HandleTimerEvent \/ PopTimer \/ CallbackReturns \/ TimersDone

TimerNext ==
  \/ TimerLoop \/ TimerTick
  \/ \E delay \in Delays, period \in Periods : AddTimer(delay, period)
  \/ \E id \in active_ids : CancelTimer(id)

\* The network thread is scheduled, and time goes on.
TimerFairness ==
  /\ WF_timervars(TimerLoop)
  /\ WF_timervars(TimerTick)

TimerSpec == TimerInit /\ [][TimerNext]_timervars /\ TimerFairness

-------------------------------------------------------------------------------
(* Properties. *)

\* Outside the handler the timerfd expires no later than the first timer, or at
\* once, whatever was added, cancelled and put back meanwhile.
Armed ==
  tpc \in {"idle", "polled"} =>
    \A e \in heap : timerfd # Disarmed /\ (timerfd <= e.expiry \/ timerfd = 0)

\* active_ids_ and the heap agree: no id is left behind, no timer is forgotten.
ActiveIdsExact ==
  active_ids = {e.id : e \in {f \in heap : f.active}} \cup ({entry.id} \ ({0} \cup cancelled))

\* The callback of a timer never starts once cancelTimer has returned true for it,
\* even when it cancels itself or is cancelled by one that expired with it.
CancelledStaysSo ==
  [][tpc = "pop" /\ tpc' = "callback" => entry'.id \notin cancelled]_timervars

\* A timer that was added runs, unless it is cancelled, and a periodic one again
\* and again.
TimerRuns ==
  \A id \in 1..MaxTimers : id \in active_ids ~> (entry.id = id \/ id \notin active_ids)

\* What the manager promises: the timerfd covers the first timer, the tables agree,
\* a cancelled callback never starts, and every other one does.
TimersKept == []TimerTypeOK /\ []Armed /\ []ActiveIdsExact /\ CancelledStaysSo /\ TimerRuns
===============================================================================
