------------------------------- MODULE EventLoop -------------------------------
(***************************************************************************)
(* EventLoop (core/reactor/EventLoop.h): the epoll thread, the threads     *)
(* that post to it with queueInLoop, and the thread that stops it.         *)
(*                                                                         *)
(* Each atomic access, each critical section and each system call is a     *)
(* step of its own.  A task is a closure; a task that runs, or an fd       *)
(* callback, may itself call queueInLoop.  fd callbacks do nothing else    *)
(* here: what they do to their sockets and timers belongs to the modules   *)
(* of those components.  runInLoop has no caller in the program.           *)
(***************************************************************************)
EXTENDS Integers, Sequences

CONSTANT Tasks    \* the closures ever posted, each of them once

VARIABLES
  running,         \* running_
  stop_requested,  \* stop_requested_
  wakeup,          \* wakeup_fd_ is readable (its counter is not 0)
  pending,         \* pending_functors_
  loop,            \* where the loop thread is
  requested,       \* the loop thread's copy of stop_requested_ (line 77)
  ready,           \* the events of this epoll_wait not yet dispatched
  batch,           \* functors: what doPendingFunctors swapped out and still runs
  poster,          \* per task, where its queueInLoop call is
  stopper,         \* where the call of stop() is
  executed         \* history: the tasks run, in order

vars == <<running, stop_requested, wakeup, pending, loop, requested, ready, batch,
          poster, stopper, executed>>

LoopPc == {"start", "store", "while", "wait", "dispatch", "swap", "call", "write",
           "leave", "exit"}

\* "wakeup" is the eventfd, "fd" any client, listening or timer descriptor.
Events == {"wakeup", "fd"}

TypeOK ==
  /\ running \in BOOLEAN /\ stop_requested \in BOOLEAN /\ wakeup \in BOOLEAN
  /\ pending \in Seq(Tasks) /\ batch \in Seq(Tasks) /\ executed \in Seq(Tasks)
  /\ loop \in LoopPc
  /\ requested \in BOOLEAN
  /\ ready \in SUBSET Events
  /\ poster \in [Tasks -> {"idle", "write", "done"}]
  /\ stopper \in {"idle", "clear", "write", "done"}
  /\ ready # {} => loop = "dispatch"
  /\ batch # <<>> => loop \in {"call", "write"}

Init ==
  /\ running = FALSE /\ stop_requested = FALSE /\ wakeup = FALSE
  /\ pending = <<>> /\ batch = <<>> /\ executed = <<>>
  /\ loop = "start" /\ requested = FALSE /\ ready = {}
  /\ poster = [t \in Tasks |-> "idle"]
  /\ stopper = "idle"

-------------------------------------------------------------------------------
(* run(), on the loop thread. *)

\* running_ = !stop_requested_ is a load of one atomic and a store to another.
LoadRequested ==
  /\ loop = "start"
  /\ requested' = stop_requested
  /\ loop' = "store"
  /\ UNCHANGED <<running, stop_requested, wakeup, pending, ready, batch, poster,
                 stopper, executed>>

StoreRunning ==
  /\ loop = "store"
  /\ running' = ~requested
  /\ loop' = "while"
  /\ UNCHANGED <<stop_requested, wakeup, pending, requested, ready, batch, poster,
                 stopper, executed>>

While ==
  /\ loop = "while"
  /\ loop' = IF running THEN "wait" ELSE "leave"
  /\ UNCHANGED <<running, stop_requested, wakeup, pending, requested, ready, batch,
                 poster, stopper, executed>>

\* epoll_wait returns with every ready descriptor (at most 19 of them can be
\* registered, below kMaxEvents = 64).
Returns(events) ==
  /\ loop = "wait"
  /\ ready' = events
  /\ loop' = "dispatch"
  /\ UNCHANGED <<running, stop_requested, wakeup, pending, requested, batch, poster,
                 stopper, executed>>

WaitWakeup == wakeup /\ \E others \in {{}, {"fd"}} : Returns({"wakeup"} \cup others)
WaitFd == ~wakeup /\ Returns({"fd"})

\* A signal interrupts the wait: continue.
WaitInterrupted ==
  /\ loop = "wait" /\ ~wakeup
  /\ loop' = "while"
  /\ UNCHANGED <<running, stop_requested, wakeup, pending, requested, ready, batch,
                 poster, stopper, executed>>

\* Any other error of epoll_wait: break.
WaitFails ==
  /\ loop = "wait"
  /\ loop' = "leave"
  /\ UNCHANGED <<running, stop_requested, wakeup, pending, requested, ready, batch,
                 poster, stopper, executed>>

\* handleWakeup reads the eventfd, which resets its counter.
DispatchWakeup ==
  /\ loop = "dispatch" /\ "wakeup" \in ready
  /\ wakeup' = FALSE
  /\ ready' = ready \ {"wakeup"}
  /\ UNCHANGED <<running, stop_requested, pending, loop, requested, batch, poster,
                 stopper, executed>>

\* An fd callback that posts calls queueInLoop on the loop thread while no
\* functor runs: it does not write the eventfd.
DispatchFd ==
  /\ loop = "dispatch" /\ "fd" \in ready
  /\ ready' = ready \ {"fd"}
  /\ \/ UNCHANGED <<pending, poster>>
     \/ \E t \in Tasks :
          /\ poster[t] = "idle"
          /\ pending' = Append(pending, t)
          /\ poster' = [poster EXCEPT ![t] = "done"]
  /\ UNCHANGED <<running, stop_requested, wakeup, loop, requested, batch, stopper, executed>>

DispatchDone ==
  /\ loop = "dispatch" /\ ready = {}
  /\ loop' = "swap"
  /\ UNCHANGED <<running, stop_requested, wakeup, pending, requested, ready, batch,
                 poster, stopper, executed>>

\* (mutant) the functors are copied out and the shared vector is not emptied.
MSwapCopies ==
  /\ loop = "swap"
  /\ batch' = pending
  /\ loop' = "call"
  /\ UNCHANGED <<running, stop_requested, wakeup, pending, requested, ready, poster,
                 stopper, executed>>

Swap ==
  /\ loop = "swap"
  /\ batch' = pending /\ pending' = <<>>
  /\ loop' = "call"
  /\ UNCHANGED <<running, stop_requested, wakeup, requested, ready, poster, stopper, executed>>

Call ==
  /\ loop = "call" /\ batch # <<>>
  /\ executed' = Append(executed, Head(batch))
  /\ batch' = Tail(batch)
  /\ UNCHANGED <<running, stop_requested, wakeup, pending, loop, requested, ready,
                 poster, stopper>>

\* The functor calls queueInLoop: calling_pending_functors_ makes it write.
CallAndPost(t) ==
  /\ loop = "call" /\ batch # <<>>
  /\ executed' = Append(executed, Head(batch))
  /\ batch' = Tail(batch)
  /\ poster[t] = "idle"
  /\ poster' = [poster EXCEPT ![t] = "done"]
  /\ pending' = Append(pending, t)
  /\ loop' = "write"
  /\ UNCHANGED <<running, stop_requested, wakeup, requested, ready, stopper>>

CallWrites ==
  /\ loop = "write"
  /\ wakeup' = TRUE
  /\ loop' = "call"
  /\ UNCHANGED <<running, stop_requested, pending, requested, ready, batch, poster,
                 stopper, executed>>

\* (mutant) the functor loop ends before the batch does.
MCallsDoneEarly ==
  /\ loop = "call"
  /\ loop' = "while"
  /\ UNCHANGED <<running, stop_requested, wakeup, pending, requested, ready, batch,
                 poster, stopper, executed>>

CallsDone ==
  /\ loop = "call" /\ batch = <<>>
  /\ loop' = "while"
  /\ UNCHANGED <<running, stop_requested, wakeup, pending, requested, ready, batch,
                 poster, stopper, executed>>

Leave ==
  /\ loop = "leave"
  /\ running' = FALSE
  /\ loop' = "exit"
  /\ UNCHANGED <<stop_requested, wakeup, pending, requested, ready, batch, poster,
                 stopper, executed>>

\* What the loop thread does on its own, without an fd, a signal or an error.
LoopStep ==
  \/ LoadRequested \/ StoreRunning \/ While \/ WaitWakeup
  \/ DispatchWakeup \/ DispatchFd \/ DispatchDone
  \/ Swap \/ Call \/ (\E t \in Tasks : CallAndPost(t)) \/ CallWrites \/ CallsDone
  \/ Leave

-------------------------------------------------------------------------------
(* queueInLoop(), on any other thread. *)

QueueInLoop(t) ==
  /\ poster[t] = "idle"
  /\ pending' = Append(pending, t)
  /\ poster' = [poster EXCEPT ![t] = "write"]
  /\ UNCHANGED <<running, stop_requested, wakeup, loop, requested, ready, batch,
                 stopper, executed>>

\* (mutant) the waker is skipped when nothing has to be woken up yet.
MWriteWakeupIfRunning(t) ==
  /\ poster[t] = "write"
  /\ wakeup' = (wakeup \/ running)
  /\ poster' = [poster EXCEPT ![t] = "done"]
  /\ UNCHANGED <<running, stop_requested, pending, loop, requested, ready, batch,
                 stopper, executed>>

WriteWakeup(t) ==
  /\ poster[t] = "write"
  /\ wakeup' = TRUE
  /\ poster' = [poster EXCEPT ![t] = "done"]
  /\ UNCHANGED <<running, stop_requested, pending, loop, requested, ready, batch,
                 stopper, executed>>

-------------------------------------------------------------------------------
(* stop(), on one other thread. *)

StopRequest ==
  /\ stopper = "idle"
  /\ stop_requested' = TRUE
  /\ stopper' = "clear"
  /\ UNCHANGED <<running, wakeup, pending, loop, requested, ready, batch, poster, executed>>

StopClear ==
  /\ stopper = "clear"
  /\ running' = FALSE
  /\ stopper' = "write"
  /\ UNCHANGED <<stop_requested, wakeup, pending, loop, requested, ready, batch,
                 poster, executed>>

\* (mutant) stop() does not wake the loop up.
MStopSilently ==
  /\ stopper = "write"
  /\ stopper' = "done"
  /\ UNCHANGED <<running, stop_requested, wakeup, pending, loop, requested, ready,
                 batch, poster, executed>>

StopWrite ==
  /\ stopper = "write"
  /\ wakeup' = TRUE
  /\ stopper' = "done"
  /\ UNCHANGED <<running, stop_requested, pending, loop, requested, ready, batch,
                 poster, executed>>

-------------------------------------------------------------------------------
Next ==
  \/ LoopStep \/ WaitFd \/ WaitInterrupted \/ WaitFails
  \/ \E t \in Tasks : QueueInLoop(t) \/ WriteWakeup(t)
  \/ StopRequest \/ StopClear \/ StopWrite

Safety == Init /\ [][Next]_vars

\* Every thread that is inside a call is scheduled until the call returns.
Spec ==
  /\ Safety
  /\ WF_vars(LoopStep)
  /\ \A t \in Tasks : WF_vars(WriteWakeup(t))
  /\ WF_vars(StopClear \/ StopWrite)

-------------------------------------------------------------------------------
(* Properties. *)

Writing == \E t \in Tasks : poster[t] = "write"

\* A task is never left behind by a sleeping loop: when something is pending and
\* the eventfd is not readable, its poster has yet to write, or the loop is on
\* its way to the swap that will take it.
WakeupCovers ==
  pending # <<>> /\ ~wakeup => Writing \/ loop \in {"dispatch", "swap", "write"}

\* The part a caller of queueInLoop sees: the loop does not sleep in epoll_wait
\* over pending tasks unless a write that will wake it up is under way.
NoLostWakeup == loop = "wait" /\ pending # <<>> => wakeup \/ Writing

\* queueInLoop is a mailbox: whatever the interleaving of posters, callbacks and
\* functors that post, tasks run once each, in the order they were posted, and
\* none runs after run() returned.
M == INSTANCE Mailbox WITH box <- batch \o pending, done <- executed, open <- loop # "exit"
RefinesMailbox == M!Spec

\* A posted task runs unless the loop ends first.
TaskRuns ==
  \A t \in Tasks :
    (poster[t] # "idle") ~> (t \in M!Entries(executed) \/ loop = "exit")

\* run() returns once a stop() is seen outside the window of line 77: called
\* before run() loads stop_requested_, or after it has stored running_.
StopEndsLoop == (stop_requested /\ ~running /\ loop # "store") ~> (loop = "exit")

\* What is asked of the loop is done: a posted task runs unless the loop ends, and a
\* stop() outside that window ends it.
LoopServes == TaskRuns /\ StopEndsLoop

\* "Blocks until stop() is called" (line 74), "stop the loop, thread-safe" (line
\* 104): run() returns after any stop().  False: a stop() between the load and the
\* store of line 77 is overwritten, and the loop sleeps with its wake-up consumed.
StopAlwaysEndsLoop == stop_requested ~> (loop = "exit")
===============================================================================
