---------------------------- MODULE EventRecorder ----------------------------
(***************************************************************************)
(* EventRecorder (media/EventRecorder.h): the encoder's callback submits   *)
(* packets, the inference and network threads trigger events, the capture  *)
(* thread resets the recorder when the camera was interrupted, and the     *)
(* recorder thread writes event files from a ring of recent packets.       *)
(*                                                                         *)
(* Time is counted in ticks.  A packet is [idx, pts, key, gap]: idx is its *)
(* place in the encoder's output, so that a missing packet shows.  Byte    *)
(* counts are packet counts.  The results of storage, open, write and of   *)
(* the one-hour and one-second clocks of a file are free choices.          *)
(***************************************************************************)
EXTENDS QueueOps, FiniteSetsExt

CONSTANTS
  QueueCapacity,  \* capacity of queue_ (120)
  PreTime,        \* pre_ns_
  TailTime,       \* tail_ns_
  RingLimit,      \* packets that fill the ring (16 MB)
  IdleLimit,      \* empty waits of 100 ms that make inactivity_ms_
  Callers,        \* the threads that call trigger()
  MaxPackets, MaxTime, MaxTriggers   \* bounds

ASSUME SizeAssumption ==
  QueueCapacity \in Nat \ {0} /\ RingLimit \in Nat \ {0} /\ IdleLimit \in Nat \ {0}
ASSUME TimeAssumption == PreTime \in Nat /\ TailTime \in Nat \ {0}
ASSUME BoundAssumption == MaxPackets \in Nat /\ MaxTime \in Nat /\ MaxTriggers \in Nat

VARIABLES
  queue, closed,   \* queue_
  gap,             \* gap_
  trigger_until,   \* trigger_until_
  reset_pts,       \* reset_pts_
  caller,          \* per caller of trigger(), the pts that passed its check, or 0
  pc, packet,      \* run(): where it is, and p (NoPacket when pop timed out)
  reason,          \* run(): the reason of the finish() under way
  ring, file,      \* run(): ring, and file as [open, packets, good]
  handled_until,   \* run(): handled_until
  cutoff,          \* run(): cutoff
  idle,            \* run(): empty waits since the packet received last
  current,         \* current_["state"]
  now, last_pts,   \* the clock, and the pts of the encoder's last packet
  submitted,       \* history: packets submitted
  triggers,        \* history: triggers made
  resets,          \* history: the times of the resets
  served,          \* history: trigger_until when a file was last opened
  since            \* history: idx of the first packet of the ring since it was empty

recording == <<ring, file, handled_until, cutoff, idle, current, served, since>>
sharedvars == <<queue, closed, gap, trigger_until, reset_pts>>
world == <<caller, now, last_pts, submitted, triggers, resets>>
vars == <<sharedvars, world, pc, packet, reason, recording>>

Packets == [idx : Nat, pts : Nat, key : BOOLEAN, gap : BOOLEAN]
NoPacket == [idx |-> 0, pts |-> 0, key |-> FALSE, gap |-> FALSE]
NoFile == [open |-> FALSE, packets |-> <<>>, good |-> TRUE]

Reasons == {"capture_restart", "input_timeout", "encoded_packet_gap", "max_duration",
            "storage_budget", "storage_error", "write_error", "tail_complete", "shutdown"}

TypeOK ==
  /\ queue \in Seq(Packets) /\ Len(queue) <= QueueCapacity
  /\ closed \in BOOLEAN /\ gap \in BOOLEAN
  /\ trigger_until \in Nat /\ reset_pts \in Nat
  /\ caller \in [Callers -> Nat]
  /\ pc \in {"pop", "cutoff", "idle", "closed", "packet", "record", "finish", "exit"}
  /\ packet \in Packets
  /\ reason \in Reasons \cup {""}
  /\ ring \in Seq(Packets) /\ Len(ring) <= RingLimit
  /\ file \in [open : BOOLEAN, packets : Seq(Packets), good : BOOLEAN]
  /\ handled_until \in Nat /\ cutoff \in Nat /\ idle \in 0..IdleLimit
  /\ current \in {"idle", "recording", "completed", "incomplete", "error"}
  /\ now \in Nat /\ last_pts \in Nat /\ submitted \in Nat /\ triggers \in Nat
  /\ resets \subseteq Nat /\ served \in Nat /\ since \in Nat

Init ==
  /\ queue = <<>> /\ closed = FALSE /\ gap = FALSE
  /\ trigger_until = 0 /\ reset_pts = 0
  /\ caller = [c \in Callers |-> 0]
  /\ pc = "pop" /\ packet = NoPacket /\ reason = ""
  /\ ring = <<>> /\ file = NoFile
  /\ handled_until = 0 /\ cutoff = 0 /\ idle = 0 /\ current = "idle"
  /\ now = 1 /\ last_pts = 0
  /\ submitted = 0 /\ triggers = 0 /\ resets = {} /\ served = 0 /\ since = 0

MaxOf(a, b) == IF a < b THEN b ELSE a

-------------------------------------------------------------------------------
(* The other threads. *)

ThreadFrame == UNCHANGED <<pc, packet, reason, recording>>

Tick ==
  /\ now < MaxTime
  /\ now' = now + 1
  /\ ThreadFrame /\ UNCHANGED <<sharedvars, caller, last_pts, submitted, triggers, resets>>

\* (mutant) a dropped packet is counted but not remembered.
MSubmitForgetsGap(pts, key) ==
  /\ submitted < MaxPackets
  /\ LET p == [idx |-> submitted + 1, pts |-> pts, key |-> key, gap |-> gap] IN
       IF Accepts(queue, QueueCapacity, closed)
         THEN queue' = Append(queue, p)
         ELSE queue' = queue
  /\ gap' = FALSE
  /\ submitted' = submitted + 1 /\ last_pts' = pts
  /\ ThreadFrame
  /\ UNCHANGED <<closed, trigger_until, reset_pts, caller, now, triggers, resets>>

\* submit(): the encoder's callback thread is the only one to touch gap_.  A packet
\* comes out of the encoder some time after its frame was captured at pts.
Submit(pts, key) ==
  /\ submitted < MaxPackets
  /\ LET p == [idx |-> submitted + 1, pts |-> pts, key |-> key, gap |-> gap] IN
       IF Accepts(queue, QueueCapacity, closed)
         THEN queue' = Append(queue, p) /\ gap' = FALSE
         ELSE queue' = queue /\ gap' = TRUE
  /\ submitted' = submitted + 1 /\ last_pts' = pts
  /\ ThreadFrame
  /\ UNCHANGED <<closed, trigger_until, reset_pts, caller, now, triggers, resets>>

\* trigger(): the check against reset_pts_ ...
TriggerCheck(c, pts) ==
  /\ caller[c] = 0 /\ triggers < MaxTriggers
  /\ pts >= reset_pts
  /\ triggers' = triggers + 1
  /\ caller' = [caller EXCEPT ![c] = pts]
  /\ ThreadFrame /\ UNCHANGED <<sharedvars, now, last_pts, submitted, resets>>

\* ... and the compare-exchange loop, which leaves the maximum.
TriggerRaise(c) ==
  /\ caller[c] # 0
  /\ trigger_until' = MaxOf(trigger_until, caller[c] + TailTime)
  /\ caller' = [caller EXCEPT ![c] = 0]
  /\ ThreadFrame
  /\ UNCHANGED <<queue, closed, gap, reset_pts, now, last_pts, submitted, triggers, resets>>

\* reset(), by the capture thread: its frames are older before, newer after it.
Reset ==
  /\ now < MaxTime
  /\ now' = now + 1
  /\ reset_pts' = now' /\ resets' = resets \cup {now'}
  /\ ThreadFrame
  /\ UNCHANGED <<queue, closed, gap, trigger_until, caller, last_pts, submitted, triggers>>

\* stop(): close(false) and, in join(), the wait for the recorder.
Stop ==
  /\ ~closed
  /\ closed' = TRUE
  /\ ThreadFrame /\ UNCHANGED <<queue, gap, trigger_until, reset_pts, world>>

-------------------------------------------------------------------------------
(* run(), on the recorder thread. *)

RunFrame == UNCHANGED <<closed, gap, trigger_until, reset_pts, world>>
RunLocal == RunFrame /\ UNCHANGED <<queue, packet>>

ClearingReasons == Reasons \ {"write_error", "tail_complete", "shutdown"}

\* Where run() goes on after finish(why).
Resume(why) ==
  IF why = "capture_restart" THEN IF packet = NoPacket THEN "idle" ELSE "packet"
  ELSE IF why = "input_timeout" THEN "closed"
  ELSE IF why = "encoded_packet_gap" THEN "record"
  ELSE IF why = "shutdown" THEN "exit" ELSE "pop"

\* The statements after finish(why), which left handled_until at h; the cutoff is c.
Continue(why, h, c) ==
  /\ pc' = Resume(why)
  /\ handled_until' = IF why = "capture_restart" THEN MaxOf(h, c + TailTime) ELSE h
  /\ IF why \in ClearingReasons THEN ring' = <<>> /\ since' = 0
                                ELSE UNCHANGED <<ring, since>>

\* finish(why): void without an open file, else a step of its own.
Interrupt(why) ==
  IF file.open THEN /\ pc' = "finish" /\ reason' = why
                    /\ UNCHANGED <<ring, since, handled_until>>
               ELSE Continue(why, handled_until, cutoff') /\ reason' = reason

\* (mutant) the final record of the event is not published.
MFinishSilently ==
  /\ pc = "finish"
  /\ file' = NoFile
  /\ Continue(reason, MaxOf(handled_until, trigger_until), cutoff) /\ reason' = ""
  /\ RunLocal /\ UNCHANGED <<cutoff, idle, served, current>>

\* The file and its manifest are closed, either of which may fail, and every
\* trigger made by now counts as handled.
Finish ==
  /\ pc = "finish"
  /\ file' = NoFile
  /\ \/ current' = "error"
     \/ /\ file.good
        /\ current' = IF reason \in {"tail_complete", "max_duration"} THEN "completed"
                      ELSE "incomplete"
  /\ Continue(reason, MaxOf(handled_until, trigger_until), cutoff) /\ reason' = ""
  /\ RunLocal /\ UNCHANGED <<cutoff, idle, served>>

Pop ==
  /\ pc = "pop"
  /\ IF queue = <<>> THEN packet' = NoPacket /\ queue' = queue
                     ELSE packet' = Head(queue) /\ queue' = Tail(queue)
  /\ pc' = "cutoff"
  /\ RunFrame /\ UNCHANGED <<reason, recording>>

\* (mutant) an event under way is continued across the reset.
MCutoffKeepsFile ==
  /\ pc = "cutoff"
  /\ cutoff' = MaxOf(cutoff, reset_pts)
  /\ pc' = Resume("capture_restart")
  /\ RunLocal /\ UNCHANGED <<reason, ring, since, handled_until, file, idle, current, served>>

\* reset_pts_ is read after the packet was taken.
Cutoff ==
  /\ pc = "cutoff"
  /\ cutoff' = MaxOf(cutoff, reset_pts)
  /\ IF reset_pts > cutoff
       THEN Interrupt("capture_restart")
       ELSE pc' = Resume("capture_restart") /\ UNCHANGED <<reason, ring, since, handled_until>>
  /\ RunLocal /\ UNCHANGED <<file, idle, current, served>>

\* (mutant) silence does not end an event.
MIdleWaitsOn ==
  /\ pc = "idle"
  /\ pc' = "closed"
  /\ RunLocal /\ UNCHANGED <<recording, reason>>

\* pop timed out once more; inactivity_ms_ without a packet ends an event.
Idle ==
  /\ pc = "idle"
  /\ idle' = IF idle < IdleLimit THEN idle + 1 ELSE idle
  /\ IF idle' = IdleLimit
       THEN Interrupt("input_timeout")
       ELSE pc' = "closed" /\ UNCHANGED <<reason, ring, since, handled_until>>
  /\ RunLocal /\ UNCHANGED <<file, cutoff, current, served>>

\* (mutant) the recorder leaves without finishing the event under way.
MClosedLeaves ==
  /\ pc = "closed"
  /\ pc' = IF closed THEN "exit" ELSE "pop"
  /\ UNCHANGED <<reason, ring, since, handled_until>>
  /\ RunLocal /\ UNCHANGED <<file, cutoff, idle, current, served>>

\* if (queue_.closed()) break, and finish("shutdown") after the loop.
Closed ==
  /\ pc = "closed"
  /\ IF closed THEN Interrupt("shutdown")
               ELSE pc' = "pop" /\ UNCHANGED <<reason, ring, since, handled_until>>
  /\ RunLocal /\ UNCHANGED <<file, cutoff, idle, current, served>>

\* A packet older than the cutoff is skipped; a gap ends an event.
Packet ==
  /\ pc = "packet"
  /\ IF packet.pts < cutoff
       THEN pc' = "pop" /\ UNCHANGED <<reason, ring, since, handled_until, idle>>
       ELSE /\ idle' = 0
            /\ IF packet.gap THEN Interrupt("encoded_packet_gap")
               ELSE pc' = "record" /\ UNCHANGED <<reason, ring, since, handled_until>>
  /\ RunLocal /\ UNCHANGED <<file, cutoff, current, served>>

-------------------------------------------------------------------------------
(* Lines 154-246: everything after the packet was accepted.  trigger_until_ is *)
(* the only shared state they read, once, at line 175.                         *)

\* (mutant) the key frame that is old enough goes with the group before it.
MTrimmed(packets) ==
  LET old == {i \in 2..Len(packets) : packets[i].key /\ packets[i].pts + PreTime < packet.pts}
  IN IF old = {} THEN packets ELSE SubSeq(packets, Max(old) + 1, Len(packets))

\* The ring gives up the groups of pictures whose successor is old enough to
\* serve as the start of an event.
Trimmed(packets) ==
  LET old == {i \in 2..Len(packets) : packets[i].key /\ packets[i].pts + PreTime < packet.pts}
  IN IF old = {} THEN packets ELSE SubSeq(packets, Max(old), Len(packets))

\* (mutant) the ring grows without a limit.
MNewRing == IF packet.key \/ ring # <<>> THEN Trimmed(Append(ring, packet)) ELSE ring

\* A packet enters the ring behind a key frame only; an overfull ring starts over.
NewRing ==
  LET packets == IF packet.key \/ ring # <<>> THEN Trimmed(Append(ring, packet)) ELSE ring
  IN IF Len(packets) > RingLimit THEN <<>> ELSE packets

\* To finish(why) or to the next packet.
Goto(why) == IF why = "" THEN pc' = "pop" /\ reason' = ""
                         ELSE pc' = "finish" /\ reason' = why

\* (mutant) a trigger is compared with the packet only.
MWanted == trigger_until > packet.pts /\ NewRing # <<>>

Wanted == trigger_until > packet.pts /\ trigger_until > handled_until /\ NewRing # <<>>

\* Storage rejects the event or throws, or the file cannot be opened.
OpenFails ==
  /\ ~file.open /\ Wanted
  /\ handled_until' = trigger_until /\ current' = "error"
  /\ Goto("")
  /\ UNCHANGED <<file, served>>

Open ==
  /\ ~file.open /\ Wanted
  /\ handled_until' = trigger_until /\ current' = "recording"
  /\ served' = trigger_until
  /\ \E good \in BOOLEAN :
       /\ file' = [open |-> TRUE, packets |-> NewRing, good |-> good]
       /\ Goto(IF good THEN "" ELSE "write_error")

\* The file is max_duration old, or the check of each second finds no room.
Limit ==
  /\ file.open
  /\ \E why \in {"max_duration", "storage_budget", "storage_error"} : Goto(why)
  /\ UNCHANGED <<file, handled_until, current, served>>

Write ==
  /\ file.open
  /\ \E good \in BOOLEAN :
       /\ file' = [open |-> TRUE, packets |-> Append(file.packets, packet), good |-> good]
       /\ Goto(IF ~good THEN "write_error"
               ELSE IF packet.pts >= trigger_until THEN "tail_complete" ELSE "")
  /\ UNCHANGED <<handled_until, current, served>>

Skip ==
  /\ ~file.open /\ ~Wanted
  /\ Goto("")
  /\ UNCHANGED <<file, handled_until, current, served>>

Record ==
  /\ pc = "record"
  /\ ring' = NewRing
  /\ since' = IF NewRing = <<>> THEN 0 ELSE IF ring = <<>> THEN packet.idx ELSE since
  /\ OpenFails \/ Open \/ Limit \/ Write \/ Skip
  /\ RunLocal /\ UNCHANGED <<cutoff, idle>>

Run == Finish \/ Pop \/ Cutoff \/ Idle \/ Closed \/ Packet \/ Record

-------------------------------------------------------------------------------
Next ==
  \/ Tick
  \/ \E pts \in last_pts + 1 .. now, key \in BOOLEAN : Submit(pts, key)
  \/ \E c \in Callers :
       \/ \E pts \in {now - 1, now} \ {0} : TriggerCheck(c, pts)
       \/ TriggerRaise(c)
  \/ Reset \/ Stop \/ Run

\* The recorder thread is scheduled, and its waits are timed.
Spec == Init /\ [][Next]_vars /\ WF_vars(Run)

-------------------------------------------------------------------------------
(* Properties. *)

\* An event file can be played from its first packet: it starts with a key frame
\* and misses no packet of the encoder's output, although packets are dropped when
\* the queue is full and the ring is trimmed, overfull and cleared.
FilePlayable ==
  LET s == file.packets IN
  file.open => /\ s # <<>> /\ s[1].key
               /\ \A i \in 2..Len(s) : s[i].idx = s[i - 1].idx + 1

\* No event file holds frames from before and from after a camera interruption,
\* even when several of them pass before the recorder wakes up.
OneSideOfReset ==
  LET s == file.packets IN
  \A r \in resets : (\A i \in DOMAIN s : s[i].pts < r) \/ (\A i \in DOMAIN s : s[i].pts >= r)

\* The ring begins with the group of pictures that holds the time PreTime before its
\* last packet (EventRecorder.h:158): it reaches back to that time, or to where it began,
\* and no later key frame of it would do.
PreRecorded ==
  ring # <<>> =>
    LET last == ring[Len(ring)] IN
    /\ ring[1].idx = since \/ ring[1].pts + PreTime < last.pts
    /\ \A i \in 2..Len(ring) : ring[i].key => last.pts <= ring[i].pts + PreTime

\* A file is opened for a trigger that no earlier file was opened for and that
\* was made after the last reset the recorder knows of.
OpensForNewTrigger ==
  [][~file.open /\ file'.open
       => trigger_until > served /\ trigger_until > cutoff + TailTime]_vars

\* get_events shows an event as recording exactly while its file is open, however
\* it ended.
StatusMatches == file.open <=> current = "recording"

\* No event stays open for ever when the encoder falls silent, and the recorder leaves
\* after stop(), with no file left open.
RecorderEnds == (file.open ~> ~file.open) /\ (closed ~> (pc = "exit" /\ ~file.open))

\* "Triggered again within the tail, the same event is extended"
\* (docs/architecture.md:34): an event that ends by its tail covers every trigger
\* made until then.  False: a trigger between line 175 and line 121 neither extends
\* the event nor starts another, for finish() marks it as handled.
TailCoversTriggers ==
  [][pc = "finish" /\ reason = "tail_complete"
       => file.packets[Len(file.packets)].pts >= trigger_until]_vars
===============================================================================
