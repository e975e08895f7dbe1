---------------------------- MODULE EventLoopProofs ----------------------------
(***************************************************************************)
(* No wake-up is lost, for every set of tasks: the type invariant, the     *)
(* inductive invariant WakeupCovers and what follows from them.  And that  *)
(* EventLoop implements Mailbox, for which the step simulation needs that  *)
(* a task nobody has posted yet is nowhere in the loop.                    *)
(***************************************************************************)
EXTENDS EventLoop, SequenceTheorems, TLAPS

\* The two halves of TypeOK, for the provers' sake: sequences, and the rest.
Lists == pending \in Seq(Tasks) /\ batch \in Seq(Tasks) /\ executed \in Seq(Tasks)

Control ==
  /\ running \in BOOLEAN /\ stop_requested \in BOOLEAN /\ wakeup \in BOOLEAN
  /\ loop \in LoopPc
  /\ requested \in BOOLEAN
  /\ ready \in SUBSET Events
  /\ poster \in [Tasks -> {"idle", "write", "done"}]
  /\ stopper \in {"idle", "clear", "write", "done"}
  /\ ready # {} => loop = "dispatch"
  /\ batch # <<>> => loop \in {"call", "write"}

LEMMA TypeHalves == TypeOK <=> Lists /\ Control
BY DEF TypeOK, Lists, Control

LEMMA ListsInductive == TypeOK /\ [Next]_vars => Lists'
<1> SUFFICES ASSUME Lists, [Next]_vars PROVE Lists'
  BY TypeHalves
<1> USE DEF Lists
<1>1. CASE LoadRequested
  BY <1>1 DEF LoadRequested
<1>2. CASE StoreRunning
  BY <1>2 DEF StoreRunning
<1>3. CASE While
  BY <1>3 DEF While
<1>4. CASE WaitWakeup
  BY <1>4 DEF WaitWakeup, Returns
<1>5. CASE DispatchWakeup
  BY <1>5 DEF DispatchWakeup
<1>6. CASE DispatchFd
  <2>1. \/ pending' = pending
        \/ \E t \in Tasks : pending' = Append(pending, t)
    BY <1>6 DEF DispatchFd
  <2>2. batch' = batch /\ executed' = executed
    BY <1>6 DEF DispatchFd
  <2>3. ASSUME NEW t \in Tasks PROVE Append(pending, t) \in Seq(Tasks)
    OBVIOUS
  <2>4. pending' \in Seq(Tasks)
    BY <2>1, <2>3, Zenon
  <2> QED
    BY <2>2, <2>4
<1>7. CASE DispatchDone
  BY <1>7 DEF DispatchDone
<1>8. CASE Swap
  BY <1>8 DEF Swap
<1>9. CASE Call
  <2>1. Head(batch) \in Tasks /\ Tail(batch) \in Seq(Tasks)
    BY <1>9 DEF Call
  <2> QED
    BY <1>9, <2>1 DEF Call
<1>10. CASE CallWrites
  BY <1>10 DEF CallWrites
<1>11. CASE CallsDone
  BY <1>11 DEF CallsDone
<1>12. CASE Leave
  BY <1>12 DEF Leave
<1>13. CASE WaitFd
  BY <1>13 DEF WaitFd, Returns
<1>14. CASE WaitInterrupted
  BY <1>14 DEF WaitInterrupted
<1>15. CASE WaitFails
  BY <1>15 DEF WaitFails
<1>16. CASE StopRequest
  BY <1>16 DEF StopRequest
<1>17. CASE StopClear
  BY <1>17 DEF StopClear
<1>18. CASE StopWrite
  BY <1>18 DEF StopWrite
<1>19. ASSUME NEW t \in Tasks, CallAndPost(t) PROVE Lists'
  BY <1>19 DEF CallAndPost
<1>20. ASSUME NEW t \in Tasks, QueueInLoop(t) PROVE Lists'
  BY <1>20 DEF QueueInLoop
<1>21. ASSUME NEW t \in Tasks, WriteWakeup(t) PROVE Lists'
  BY <1>21 DEF WriteWakeup
<1>22. CASE UNCHANGED vars
  BY <1>22 DEF vars
<1> QED
  BY <1>1, <1>2, <1>3, <1>4, <1>5, <1>6, <1>7, <1>8, <1>9, <1>10, <1>11, <1>12, <1>13, <1>14, <1>15, <1>16, <1>17, <1>18, <1>19, <1>20, <1>21, <1>22 DEF Next, LoopStep

LEMMA ControlInductive == TypeOK /\ [Next]_vars => Control'
<1> SUFFICES ASSUME Control, [Next]_vars PROVE Control'
  BY TypeHalves
<1> USE DEF Control, LoopPc, Events
<1>1. CASE LoadRequested
  BY <1>1 DEF LoadRequested
<1>2. CASE StoreRunning
  BY <1>2 DEF StoreRunning
<1>3. CASE While
  BY <1>3 DEF While
<1>4. CASE WaitWakeup
  BY <1>4 DEF WaitWakeup, Returns
<1>5. CASE DispatchWakeup
  BY <1>5 DEF DispatchWakeup
<1>6. CASE DispatchFd
  BY <1>6 DEF DispatchFd
<1>7. CASE DispatchDone
  BY <1>7 DEF DispatchDone
<1>8. CASE Swap
  BY <1>8 DEF Swap
<1>9. CASE Call
  BY <1>9 DEF Call
<1>10. CASE CallWrites
  BY <1>10 DEF CallWrites
<1>11. CASE CallsDone
  BY <1>11 DEF CallsDone
<1>12. CASE Leave
  BY <1>12 DEF Leave
<1>13. CASE WaitFd
  BY <1>13 DEF WaitFd, Returns
<1>14. CASE WaitInterrupted
  BY <1>14 DEF WaitInterrupted
<1>15. CASE WaitFails
  BY <1>15 DEF WaitFails
<1>16. CASE StopRequest
  BY <1>16 DEF StopRequest
<1>17. CASE StopClear
  BY <1>17 DEF StopClear
<1>18. CASE StopWrite
  BY <1>18 DEF StopWrite
<1>19. ASSUME NEW t \in Tasks, CallAndPost(t) PROVE Control'
  BY <1>19 DEF CallAndPost
<1>20. ASSUME NEW t \in Tasks, QueueInLoop(t) PROVE Control'
  BY <1>20 DEF QueueInLoop
<1>21. ASSUME NEW t \in Tasks, WriteWakeup(t) PROVE Control'
  BY <1>21 DEF WriteWakeup
<1>22. CASE UNCHANGED vars
  BY <1>22 DEF vars
<1> QED
  BY <1>1, <1>2, <1>3, <1>4, <1>5, <1>6, <1>7, <1>8, <1>9, <1>10, <1>11, <1>12, <1>13, <1>14, <1>15, <1>16, <1>17, <1>18, <1>19, <1>20, <1>21, <1>22 DEF Next, LoopStep

LEMMA CoversInductive == TypeOK /\ WakeupCovers /\ [Next]_vars => WakeupCovers'
<1> SUFFICES ASSUME Control, WakeupCovers, [Next]_vars PROVE WakeupCovers'
  BY TypeHalves
<1> USE DEF Control, WakeupCovers, Writing
<1>1. CASE LoadRequested
  BY <1>1 DEF LoadRequested
<1>2. CASE StoreRunning
  BY <1>2 DEF StoreRunning
<1>3. CASE While
  BY <1>3 DEF While
<1>4. CASE WaitWakeup
  BY <1>4 DEF WaitWakeup, Returns
<1>5. CASE DispatchWakeup
  BY <1>5 DEF DispatchWakeup
<1>6. CASE DispatchFd
  BY <1>6 DEF DispatchFd
<1>7. CASE DispatchDone
  BY <1>7 DEF DispatchDone
<1>8. CASE Swap
  BY <1>8 DEF Swap
<1>9. CASE Call
  BY <1>9 DEF Call
<1>10. CASE CallWrites
  BY <1>10 DEF CallWrites
<1>11. CASE CallsDone
  BY <1>11 DEF CallsDone
<1>12. CASE Leave
  BY <1>12 DEF Leave
<1>13. CASE WaitFd
  BY <1>13 DEF WaitFd, Returns
<1>14. CASE WaitInterrupted
  BY <1>14 DEF WaitInterrupted
<1>15. CASE WaitFails
  BY <1>15 DEF WaitFails
<1>16. CASE StopRequest
  BY <1>16 DEF StopRequest
<1>17. CASE StopClear
  BY <1>17 DEF StopClear
<1>18. CASE StopWrite
  BY <1>18 DEF StopWrite
<1>19. ASSUME NEW t \in Tasks, CallAndPost(t) PROVE WakeupCovers'
  BY <1>19 DEF CallAndPost
<1>20. ASSUME NEW t \in Tasks, QueueInLoop(t) PROVE WakeupCovers'
  BY <1>20 DEF QueueInLoop
<1>21. ASSUME NEW t \in Tasks, WriteWakeup(t) PROVE WakeupCovers'
  BY <1>21 DEF WriteWakeup
<1>22. CASE UNCHANGED vars
  BY <1>22 DEF vars
<1> QED
  BY <1>1, <1>2, <1>3, <1>4, <1>5, <1>6, <1>7, <1>8, <1>9, <1>10, <1>11, <1>12, <1>13, <1>14, <1>15, <1>16, <1>17, <1>18, <1>19, <1>20, <1>21, <1>22 DEF Next, LoopStep

LEMMA Initially == Init => TypeOK /\ WakeupCovers
<1> SUFFICES ASSUME Init PROVE TypeOK /\ WakeupCovers
  OBVIOUS
<1>1. Lists
  BY DEF Init, Lists
<1>2. Control
  BY DEF Init, Control, LoopPc, Events
<1>3. WakeupCovers
  BY DEF Init, WakeupCovers
<1> QED
  BY <1>1, <1>2, <1>3, TypeHalves

\* The loop, its queue and its callers stay in the states the code has names for.
THEOREM TypeCorrect == Spec => []TypeOK
<1>1. TypeOK /\ [Next]_vars => TypeOK'
  BY ListsInductive, ControlInductive, TypeHalves DEF TypeOK, Lists, Control
<1> QED
  BY <1>1, Initially, PTL DEF Spec, Safety

\* Whatever is pending is announced: by the eventfd, by a poster about to write it,
\* or by the loop's own way to the swap.
THEOREM Announced == Spec => []WakeupCovers
BY TypeCorrect, Initially, CoversInductive, PTL DEF Spec, Safety

\* The loop never sleeps over a pending task without a wake-up under way, for any
\* number of tasks and posters.
THEOREM NeverSleepsOverTask == Spec => []NoLostWakeup
<1>1. WakeupCovers => NoLostWakeup
  BY DEF WakeupCovers, NoLostWakeup
<1> QED
  BY <1>1, Announced, PTL

-------------------------------------------------------------------------------
(* EventLoop implements Mailbox. *)

\* Concatenation, as the refinement mapping batch \o pending uses it.
LEMMA AppendRight ==
  ASSUME NEW T, NEW a \in Seq(T), NEW b \in Seq(T), NEW x \in T
  PROVE  a \o Append(b, x) = Append(a \o b, x)
OBVIOUS

LEMMA TakeLeft ==
  ASSUME NEW T, NEW a \in Seq(T), NEW b \in Seq(T), a # <<>>
  PROVE  a \o b # <<>> /\ Head(a \o b) = Head(a) /\ Tail(a \o b) = Tail(a) \o b
OBVIOUS

LEMMA EmptySides == ASSUME NEW T, NEW b \in Seq(T) PROVE <<>> \o b = b /\ b \o <<>> = b
OBVIOUS

LEMMA EntriesDef ==
  ASSUME NEW T, NEW a \in Seq(T), NEW y
  PROVE  y \in M!Entries(a) <=> \E i \in 1..Len(a) : a[i] = y
BY DEF M!Entries

LEMMA AppendEntries ==
  ASSUME NEW T, NEW a \in Seq(T), NEW x \in T
  PROVE  M!Entries(Append(a, x)) = M!Entries(a) \cup {x}
<1> DEFINE b == Append(a, x)
<1>1. b \in Seq(T) /\ Len(b) = Len(a) + 1 /\ b[Len(a) + 1] = x
  OBVIOUS
<1>2. \A i \in 1..Len(a) : b[i] = a[i]
  OBVIOUS
<1> HIDE DEF b
<1>3. ASSUME NEW y PROVE y \in M!Entries(b) <=> y \in M!Entries(a) \cup {x}
  <2>1. y \in M!Entries(b) <=> \E i \in 1..Len(b) : b[i] = y
    BY <1>1, EntriesDef
  <2>2. y \in M!Entries(a) <=> \E i \in 1..Len(a) : a[i] = y
    BY EntriesDef
  <2>3. Len(a) \in Nat /\ 1..Len(b) = 1..Len(a) \cup {Len(a) + 1}
    BY <1>1
  <2>4. (\E i \in 1..Len(b) : b[i] = y) <=> (\E i \in 1..Len(a) : b[i] = y) \/ x = y
    BY <1>1, <2>3
  <2> QED
    BY <2>1, <2>2, <2>4, <1>2
<1> QED
  BY <1>3 DEF b

LEMMA HeadTailEntries ==
  ASSUME NEW T, NEW a \in Seq(T), a # <<>>
  PROVE  /\ Head(a) \in T /\ Tail(a) \in Seq(T)
         /\ M!Entries(a) = {Head(a)} \cup M!Entries(Tail(a))
<1>1. Head(a) \in T /\ Tail(a) \in Seq(T) /\ Len(a) \in Nat \ {0}
  OBVIOUS
<1>2. Head(a) = a[1] /\ Len(Tail(a)) = Len(a) - 1
  OBVIOUS
<1>3. \A i \in 1..Len(a) - 1 : Tail(a)[i] = a[i + 1]
  OBVIOUS
<1>4. ASSUME NEW y PROVE y \in M!Entries(a) <=> y \in {Head(a)} \cup M!Entries(Tail(a))
  <2>1. y \in M!Entries(a) <=> \E i \in 1..Len(a) : a[i] = y
    BY EntriesDef
  <2>2. y \in M!Entries(Tail(a)) <=> \E i \in 1..Len(Tail(a)) : Tail(a)[i] = y
    BY <1>1, EntriesDef
  <2>3. y \in M!Entries(Tail(a)) <=> \E i \in 1..Len(a) - 1 : a[i + 1] = y
    BY <2>2, <1>2, <1>3
  <2>4. ASSUME NEW i \in 1..Len(a), a[i] = y
        PROVE  y = a[1] \/ \E j \in 1..Len(a) - 1 : a[j + 1] = y
    <3>1. CASE i = 1
      BY <2>4, <3>1
    <3>2. CASE i # 1
      <4>1. i - 1 \in 1..Len(a) - 1 /\ (i - 1) + 1 = i
        BY <1>1, <3>2
      <4> QED
        BY <4>1, <2>4
    <3> QED
      BY <3>1, <3>2
  <2>5. ASSUME NEW j \in 1..Len(a) - 1, a[j + 1] = y
        PROVE  \E i \in 1..Len(a) : a[i] = y
    <3>1. j + 1 \in 1..Len(a)
      BY <1>1
    <3> QED
      BY <3>1, <2>5
  <2>6. 1 \in 1..Len(a)
    BY <1>1
  <2> QED
    BY <2>1, <2>3, <2>4, <2>5, <2>6, <1>2
<1> QED
  BY <1>1, <1>4

LEMMA ConcatEntries ==
  ASSUME NEW T, NEW a \in Seq(T), NEW b \in Seq(T)
  PROVE  M!Entries(a \o b) = M!Entries(a) \cup M!Entries(b)
<1> DEFINE c == a \o b
<1>1. c \in Seq(T) /\ Len(c) = Len(a) + Len(b) /\ Len(a) \in Nat /\ Len(b) \in Nat
  OBVIOUS
<1>2. \A i \in 1..Len(a) : c[i] = a[i]
  OBVIOUS
<1>3. \A i \in 1..Len(b) : c[Len(a) + i] = b[i]
  OBVIOUS
<1> HIDE DEF c
<1>4. ASSUME NEW y PROVE y \in M!Entries(c) <=> y \in M!Entries(a) \cup M!Entries(b)
  <2>1. y \in M!Entries(c) <=> \E i \in 1..Len(c) : c[i] = y
    BY <1>1, EntriesDef
  <2>2. y \in M!Entries(a) <=> \E i \in 1..Len(a) : a[i] = y
    BY EntriesDef
  <2>3. y \in M!Entries(b) <=> \E i \in 1..Len(b) : b[i] = y
    BY EntriesDef
  <2>4. ASSUME NEW i \in 1..Len(c), c[i] = y
        PROVE  (\E j \in 1..Len(a) : a[j] = y) \/ (\E j \in 1..Len(b) : b[j] = y)
    <3>1. CASE i \in 1..Len(a)
      BY <3>1, <2>4, <1>2
    <3>2. CASE i \notin 1..Len(a)
      <4>1. i - Len(a) \in 1..Len(b) /\ Len(a) + (i - Len(a)) = i
        BY <1>1, <3>2
      <4>2. b[i - Len(a)] = c[i]
        BY <4>1, <1>3
      <4> QED
        BY <4>1, <4>2, <2>4
    <3> QED
      BY <3>1, <3>2
  <2>5. ASSUME NEW j \in 1..Len(a), a[j] = y PROVE \E i \in 1..Len(c) : c[i] = y
    <3>1. j \in 1..Len(c)
      BY <1>1
    <3> QED
      BY <3>1, <2>5, <1>2
  <2>6. ASSUME NEW j \in 1..Len(b), b[j] = y PROVE \E i \in 1..Len(c) : c[i] = y
    <3>1. Len(a) + j \in 1..Len(c)
      BY <1>1
    <3> QED
      BY <3>1, <2>6, <1>3
  <2> QED
    BY <2>1, <2>2, <2>3, <2>4, <2>5, <2>6
<1> QED
  BY <1>4 DEF c

\* A task that is not posted yet is neither pending, nor swapped out, nor run.
Where == M!Entries(batch) \cup M!Entries(pending) \cup M!Entries(executed)
Unposted == \A t \in Tasks : poster[t] = "idle" => t \notin Where

\* A step that moves no task and posts none.
LEMMA Untouched ==
  ASSUME Unposted, UNCHANGED <<batch, pending, executed>>,
         \A t \in Tasks : poster'[t] = "idle" => poster[t] = "idle"
  PROVE  Unposted'
BY DEF Unposted, Where

\* A task posted by a thread, a callback or a functor.
LEMMA Posted ==
  ASSUME TypeOK, Unposted, NEW t \in Tasks,
         pending' = Append(pending, t),
         Where' \subseteq Where \cup {t},
         poster'[t] # "idle",
         \A u \in Tasks \ {t} : poster'[u] = poster[u]
  PROVE  Unposted'
BY DEF Unposted

LEMMA UnpostedInductive == TypeOK /\ Unposted /\ [Next]_vars => Unposted'
<1> SUFFICES ASSUME TypeOK, Unposted, [Next]_vars PROVE Unposted'
  OBVIOUS
<1>0. Lists /\ Control
  BY TypeHalves
<1>1. ASSUME NEW t \in Tasks, poster[t] = "idle", pending' = Append(pending, t),
             UNCHANGED <<batch, executed>>,
             poster' \in {[poster EXCEPT ![t] = "write"], [poster EXCEPT ![t] = "done"]}
      PROVE  Unposted'
  <2>1. M!Entries(pending') = M!Entries(pending) \cup {t}
    BY <1>0, <1>1, AppendEntries DEF Lists
  <2>2. Where' \subseteq Where \cup {t}
    BY <1>1, <2>1 DEF Where
  <2>3. poster'[t] # "idle" /\ \A u \in Tasks \ {t} : poster'[u] = poster[u]
    BY <1>0, <1>1 DEF Control
  <2> QED
    BY <1>1, <2>2, <2>3, Posted
<1>2. CASE DispatchFd
  <2>1. CASE UNCHANGED <<pending, poster>>
    BY <1>2, <2>1, Untouched DEF DispatchFd
  <2>2. CASE ~UNCHANGED <<pending, poster>>
    BY <1>1, <1>2, <2>2 DEF DispatchFd
  <2> QED
    BY <2>1, <2>2
<1>3. ASSUME NEW t \in Tasks, QueueInLoop(t) PROVE Unposted'
  BY <1>1, <1>3 DEF QueueInLoop
<1>4. ASSUME NEW t \in Tasks, CallAndPost(t) PROVE Unposted'
  <2>1. M!Entries(pending') = M!Entries(pending) \cup {t}
    BY <1>0, <1>4, AppendEntries DEF Lists, CallAndPost
  <2>2. Head(batch) \in Tasks /\ M!Entries(batch) = {Head(batch)} \cup M!Entries(batch')
    BY <1>0, <1>4, HeadTailEntries DEF Lists, CallAndPost
  <2>3. M!Entries(executed') = M!Entries(executed) \cup {Head(batch)}
    BY <1>0, <1>4, <2>2, AppendEntries DEF Lists, CallAndPost
  <2>4. Where' \subseteq Where \cup {t}
    BY <2>1, <2>2, <2>3 DEF Where
  <2>5. /\ pending' = Append(pending, t)
        /\ poster'[t] # "idle" /\ \A u \in Tasks \ {t} : poster'[u] = poster[u]
    BY <1>0, <1>4 DEF Control, CallAndPost
  <2> QED
    BY <2>4, <2>5, Posted
<1>5. CASE Call
  <2>1. Head(batch) \in Tasks /\ M!Entries(batch) = {Head(batch)} \cup M!Entries(batch')
    BY <1>0, <1>5, HeadTailEntries DEF Lists, Call
  <2>2. M!Entries(executed') = M!Entries(executed) \cup {Head(batch)}
    BY <1>0, <1>5, <2>1, AppendEntries DEF Lists, Call
  <2>3. Where' = Where
    BY <1>5, <2>1, <2>2 DEF Where, Call
  <2> QED
    BY <1>5, <2>3 DEF Unposted, Call
<1>6. CASE Swap
  <2>1. M!Entries(pending') = {}
    BY <1>6 DEF Swap, M!Entries
  <2>2. Where' \subseteq Where
    BY <1>6, <2>1 DEF Where, Swap
  <2> QED
    BY <1>6, <2>2 DEF Unposted, Swap
<1>7. ASSUME NEW t \in Tasks, WriteWakeup(t) PROVE Unposted'
  <2>1. \A u \in Tasks : poster'[u] = "idle" => poster[u] = "idle"
    BY <1>0, <1>7 DEF Control, WriteWakeup
  <2> QED
    BY <1>7, <2>1, Untouched DEF WriteWakeup
<1>8. CASE UNCHANGED <<batch, pending, executed, poster>>
  BY <1>8, Untouched
<1> QED
  BY <1>2, <1>3, <1>4, <1>5, <1>6, <1>7, <1>8
  DEF Next, LoopStep, vars, LoadRequested, StoreRunning, While, WaitWakeup, WaitFd, Returns,
      WaitInterrupted, WaitFails, DispatchWakeup, DispatchDone, CallWrites, CallsDone, Leave,
      StopRequest, StopClear, StopWrite

\* Each step of the loop, of a poster or of the stopper is a step of the mailbox or
\* leaves it as it is.
LEMMA Simulation == TypeOK /\ Unposted /\ [Next]_vars => [M!Next]_(M!vars)
<1> SUFFICES ASSUME TypeOK, Unposted, [Next]_vars PROVE [M!Next]_(M!vars)
  OBVIOUS
<1>0. Lists /\ Control
  BY TypeHalves
<1>e. M!Entries(batch \o pending) = M!Entries(batch) \cup M!Entries(pending)
  BY <1>0, ConcatEntries DEF Lists
<1>1. ASSUME NEW t \in Tasks, poster[t] = "idle", pending' = Append(pending, t),
             UNCHANGED <<batch, executed, loop>>
      PROVE  M!Post(t)
  <2>1. t \notin M!Entries(batch \o pending) \cup M!Entries(executed)
    BY <1>1, <1>e DEF Unposted, Where
  <2>2. batch' \o pending' = Append(batch \o pending, t)
    BY <1>0, <1>1, AppendRight DEF Lists
  <2> QED
    BY <1>1, <2>1, <2>2 DEF M!Post
<1>2. CASE DispatchFd
  <2>1. CASE UNCHANGED <<pending, poster>>
    BY <1>2, <2>1 DEF DispatchFd, M!vars
  <2>2. CASE ~UNCHANGED <<pending, poster>>
    BY <1>1, <1>2, <2>2 DEF DispatchFd, M!Next
  <2> QED
    BY <2>1, <2>2
<1>3. ASSUME NEW t \in Tasks, QueueInLoop(t) PROVE [M!Next]_(M!vars)
  BY <1>1, <1>3 DEF QueueInLoop, M!Next
<1>4. ASSUME batch # <<>>
      PROVE  /\ batch \o pending # <<>>
             /\ Head(batch \o pending) = Head(batch)
             /\ Tail(batch \o pending) = Tail(batch) \o pending
  BY <1>0, <1>4, TakeLeft DEF Lists
<1>5. CASE Call
  <2>1. M!Run
    BY <1>4, <1>5 DEF Call, M!Run
  <2> QED
    BY <2>1 DEF M!Next
<1>6. ASSUME NEW t \in Tasks, CallAndPost(t) PROVE [M!Next]_(M!vars)
  <2>1. t \notin M!Entries(batch \o pending) \cup M!Entries(executed)
    BY <1>6, <1>e DEF CallAndPost, Unposted, Where
  <2>2. Tail(batch) \in Seq(Tasks)
    BY <1>0, <1>6, HeadTailEntries DEF Lists, CallAndPost
  <2>3. batch' \o pending' = Append(Tail(batch) \o pending, t)
    BY <1>0, <1>6, <2>2, AppendRight DEF Lists, CallAndPost
  <2>4. M!RunAndPost(t)
    BY <1>4, <1>6, <2>1, <2>3 DEF CallAndPost, M!RunAndPost
  <2> QED
    BY <2>4 DEF M!Next
<1>7. CASE Swap
  <2>1. batch = <<>>
    BY <1>0, <1>7 DEF Control, Swap
  <2>2. batch' \o pending' = batch \o pending
    BY <1>0, <1>7, <2>1, EmptySides DEF Lists, Swap
  <2> QED
    BY <1>7, <2>2 DEF Swap, M!vars
<1>8. CASE Leave
  <2>1. M!Close
    BY <1>8 DEF Leave, M!Close
  <2> QED
    BY <2>1 DEF M!Next
<1>9. ASSUME UNCHANGED <<batch, pending, executed>>, (loop # "exit") = (loop' # "exit")
      PROVE  UNCHANGED M!vars
  BY <1>9 DEF M!vars
<1> QED
  BY <1>2, <1>3, <1>5, <1>6, <1>7, <1>8, <1>9
  DEF Next, LoopStep, vars, LoadRequested, StoreRunning, While, WaitWakeup, WaitFd, Returns,
      WaitInterrupted, WaitFails, DispatchWakeup, DispatchDone, CallWrites, CallsDone,
      WriteWakeup, StopRequest, StopClear, StopWrite

\* queueInLoop is a mailbox, for any number of tasks, posters and callbacks: each task
\* runs at most once, in the order of the posts, and none after run() returned.
THEOREM ImplementsMailbox == Spec => RefinesMailbox
<1>1. Init => M!Init
  <2> SUFFICES ASSUME Init PROVE M!Init
    OBVIOUS
  <2>1. batch \o pending = <<>>
    BY DEF Init
  <2> QED
    BY <2>1 DEF Init, M!Init
<1>2. Init => Unposted
  <2>1. ASSUME NEW s, s = <<>> PROVE M!Entries(s) = {}
    BY <2>1 DEF M!Entries
  <2> QED
    BY <2>1 DEF Init, Unposted, Where
<1> QED
  BY <1>1, <1>2, TypeCorrect, UnpostedInductive, Simulation, PTL
  DEF Spec, Safety, RefinesMailbox, M!Spec
===============================================================================
