# EdgeVision-Agent: a verification project

TLA+ modules of the agent in `src/`, TLC configurations that check them on small
instances, and TLAPS proofs for every value of the constants.  Line numbers are
those of the sources in this repository.

## 1. The system

One process on an RK3588 board: frames come from a V4L2 camera, go through YOLOv5
on the NPU, are encoded to H.264 for RTSP and for event files, and clients control
it all over a line-delimited JSON protocol on TCP.

| Thread | Code | Talks to the others through |
|---|---|---|
| main | `main.cpp`, `VisionPipeline::stop` | `running_`, queue closing, joins, `EventLoop::stop` |
| network | `EventLoop::run`, `TcpServer`, `VisionPipeline::command` | `state_mutex_`, `inference_`, `snapshots_`, `restart_capture_`, `pending_functors_` |
| capture | `VisionPipeline::captureLoop` | `state_mutex_`, `inference_`, video `frames_`, `EventRecorder::reset` |
| inference | `VisionPipeline::inferenceLoop` | `state_mutex_`, `inference_`, `EventRecorder::trigger` |
| JPEG (io) | `VisionPipeline::snapshotLoop` | `snapshots_`, `state_mutex_`, `EventLoop::queueInLoop` |
| video | `VideoService::run` | `frames_`, GStreamer |
| encoder callback | `VideoService::onPacket` | `EventRecorder::submit`, `rtsp_mutex_` |
| recorder | `EventRecorder::run` | its `queue_`, `trigger_until_`, `reset_pts_`, files |

### Inventory

Every component, what it keeps, what makes it correct.  *Status* repeats
`PROJECT.json`.

| Component | State | Operations | Hard part | What makes it correct | Status |
|---|---|---|---|---|---|
| VisionPipeline | `enabled_`, `inference_epoch_`, `latest_`, `detection_frame_`, `detections_`, queues, locals of four loops | capture, infer, publish, start, stop, restart_camera, get_preview, capture command, shutdown | inference and JPEG work on frames outside the lock while a generation ends | nothing of an ended generation is shown, paired or confirmed; order; restarts served; shutdown ends | partly |
| BoundedQueue | deque, `closed_`, `dropped_`, `high_` | pushLatest, tryPush, pop, popLatest, clear, close | several threads, lossy by design, closing while draining | all items accounted for, order kept, drain workers end | modelled |
| EventLoop | `running_`, `stop_requested_`, eventfd, pending functors | run, stop, queueInLoop, dispatch | atomics and an eventfd without a common lock | no lost wake-up, once each and in order, stop ends it | partly |
| EventRecorder | packet queue, `gap_`, `trigger_until_`, `reset_pts_`, ring, file, cutoff | submit, trigger, reset, status, run, stop | triggers, resets and packets race with a file being written | files playable, on one side of a reset, long enough, opened once per trigger | modelled |
| TcpServer | clients, ids, buffers, eof/reading/pending | accept, read, send, retain, release | descriptor reuse in one epoll batch, half-close, callbacks that close | replies reach the client that asked, connections end once drained | partly |
| Control protocol | `replies_`, `reply_order_` | dispatch, cacheReply | retries against 128 shared entries | a retry is not executed twice | partly |
| TimerManager | heap, `active_ids_`, timerfd | add, cancel, expire | callbacks that change the heap while it is processed, time cut to milliseconds | the next expiry is always armed; a cancelled timer stays silent | modelled |
| FramePool | free list | acquire, release by the last holder | five threads and the encoder hold frames | a frame has no reader while it is written; the capture always gets one | modelled |
| EventStorage | directory of events | reserve | a deletion throws, the agent crashes, data not flushed | the quota holds; only complete events are given up, oldest first | modelled |
| VideoService | GStreamer handles, key-frame gate, threads | start, submit, run, onPacket, media callbacks, stop | callbacks of three libraries' threads | a client starts at a key frame with its own clock; shutdown order | partly |
| InferenceHealth | streaks, degraded | begin, end, fail, snapshot | boundaries of the hysteresis | the mode is that of the last full streak | partly |
| V4L2Camera | fd, buffers, streaming | open, start, copyFrame, close | failure at every ioctl, a device that comes back | nothing leaked, no torn frame, frames again | modelled |
| Yolov5PostProcess | none | nms, restore, decoding | boundaries, limits, rounding | agrees with a definition | partly (nms, restore) |
| RKNNEngine, Preprocessor | driver handles | infer, run | none that interleaves | - | not modelled: calls of drivers on one thread |
| Metrics, Config, main's start-up | counters; constants | - | none | - | not modelled: display, and one-time parsing |
| edge_client, pc_viewer, cloud agent | - | - | clients of the protocol | - | the peers of `ControlPlane`; the cloud agent keeps no state |

`PROJECT.json` lists, under `hazards`, what in this code is hard to test, each at
its line, with the property that would catch it or the reason why none does yet.

## 2. The modules

```
QueueOps ---- BoundedQueue          one queue, all its methods, a drain worker
   |--------- VisionPipeline        four threads and the shutdown
   |--------- EventRecorder         recorder thread, encoder callback, triggers, resets
   |--------- ControlPlane          network thread with sockets and replay cache, JPEG thread
   `--------- FrameFlow ---.        who holds the frames of the pool
Mailbox <--refined by-- EventLoop   epoll thread, posters, stop()
Dialogue <--refined by-- ControlPlane
LiveView <--refined by-- VisionPipeline

TimerManager, InferenceHealth, EventStorage, Camera, Detections, VideoService
                           `------- Parts -- MCParts   one of the seven at a time

QueueOpsProofs -- BoundedQueueProofs
       `--------- VisionPipelineProofs
       `--------- PartsProofs (also the modules of Parts)
EventLoopProofs (Mailbox as well)
EventRecorderProofs
ControlPlaneProofs - DialogueProofs
```

Each `MC*.cfg` gives the constants of one module their values; the file's name
says which (`MCParts.tla` adds two values that a configuration cannot write).  An operator whose comment begins with `(mutant)` is a plausible bug:
it stands in no specification, and substituting it for the definition after it
breaks the property that `PROJECT.json` pairs it with.  A property that is a
conjunction has a mutant for most of its parts; the check takes the last of them.

**QueueOps** has what one call of `pushLatest`, `tryPush` and `popLatest` does to
the queued items.  Every method runs under one mutex, so a call is one step, and
the larger modules use these operators for `inference_`, `snapshots_` and `queue_`.

**BoundedQueue** is the class under arbitrary callers, with the loop that
`snapshotLoop` and `EventRecorder::run` share: `pop`, and after a time-out
`closed()`, which are two steps.  `accepted`, `delivered`, `discarded` and `last`
are history variables.

**EventLoop** takes one step per atomic access, critical section and system call.
`running_ = !stop_requested_` (line 77) is therefore two steps, `queueInLoop` is an
append and a write of the eventfd, and `doPendingFunctors` is a swap followed by
one step per functor.  Tasks may be posted by other threads, by fd callbacks (which
do not write the eventfd) and by running functors (which do).

**Mailbox** is what `queueInLoop` promises: tasks run once each, in the order they
were posted, until the owner closes the box.  `EventLoop` implements it with
`box <- batch \o pending`, `done <- executed`, `open <- loop # "exit"`.

**VisionPipeline** has one record per thread for its locals and program counter,
and a step per critical section, queue call or atomic access.  A frame is its
sequence number and generation; detections are named by the frame they come from.
Wherever the code compares an age with a limit, both outcomes are possible; the
camera, the engine and the encoder fail or succeed freely.  `mutex` is needed only
because `start` and `stop` call `inference_.clear()` inside their critical section;
every other critical section is one step, guarded by the mutex being free.

**LiveView** is what the pipeline promises those who watch it.  An interruption (a start
or stop, a restart or failure of the camera, a pause after errors) takes effect at once:
detections shown, previews answered and events triggered afterwards come from frames
captured after it.  Detections are shown in the order of the frames and only while the
detection is on, an event is the last of `Confirm` frames with a person that nothing came
between, requests are answered in turn, and the image of a preview is the one its
detections were computed from.  `VisionPipeline` implements it (section "What is seen of
it from outside"): `shown` is `detection_frame_`, and nothing while `start` or `stop` holds
the mutex; `asking` is the request between its commit and `tryPush`, `asked` the job being
encoded followed by the queue, `answer` the one about to be posted; `since`, `run`
and `event` are the history `boundary`, `streak` and `triggered`.  LiveView has no
generations, no inference queue, no lock and no threads, so that a frame copied, queued or
inferred across an interruption must leave no trace in it.

**EventRecorder** has the encoder callback, the triggering threads, the resetting
capture thread and `run()`.  `finish()` is called from nine places; the model keeps
the reason in `reason` and continues in `Resume(reason)`, so that the other threads
run between the decision to finish and the end of it.  Lines 154-246 read shared
state once (line 175) and are one step, `Record`.  A packet carries its place in
the encoder's output (`idx`), so that a hole in a file is visible.

**`ControlPlane`** is `TcpServer`, the descriptor table of `EventLoop`, and
`command()` seen from the sockets: what is read, stored, replayed, queued and sent.
`VisionPipeline` has the same commands seen from the state they change.  `net.pc`
says where the network thread is: waiting for events, in a batch of them, in the
loop of `acceptClients`, over the lines of one client (`readClient`), between
`tryPush` and `retain`, or in the functors.  The other steps of that thread are
whole calls, because nothing else touches what they change; the JPEG thread's two
steps and the peers' run in between.  Descriptors are used again, connection ids
are not, and a socket has a number of its own (`sock`), which the code does not
have: it says whose request a reply answers.  `inserted` and `executed` are history.
A send takes any part of the output, or none while the peer does not read; an
error of a socket, an oversized line and an overfull output close the connection at
every point where the code would.

**Dialogue** is what the protocol promises a socket.  Its requests are executed once
each, in the order it sent them.  A request is answered, or gets a reply repeated that
this socket was sent for the same id, or becomes a job; a job is first told to be
accepted and then answered, and the jobs of all sockets are answered in the order in
which they were taken.  A connection may end at any time; what it was to be sent is then
cut off at some place, and nothing follows.  `ControlPlane` implements it (section
"What the sockets see of it"): `sent` is what the peer got and what `out` of its
descriptor holds, `asked` the lines read and not executed (`in`) and those on the wire,
`phase` follows from whether a descriptor holds the socket, `waiting` are the jobs in the
queue, with the JPEG thread and among the functors, and `untold` is the one job between
`tryPush` and `retain`.  The dialogue knows no descriptors, events, buffers or cache, so that
reuse, partial sends, half-close and eviction must all be invisible in it.

The next seven model one class each.  **Parts** puts them side by side: `part` says
which of them is at work, the others do not start.  They share no state, so nothing
is lost by checking them one at a time, and one run serves them all.

**TimerManager** keeps the heap as a set of entries whose expiry is relative to the
present; `TimerTick` moves all of them and the timerfd.  `handleTimerEvent` is one
step per entry and one per callback, between which time passes and callbacks call
`addTimer` and `cancelTimer`.  Which of two entries that expire together is at the
front is left open.

**InferenceHealth** has `begin`, `end` and `fail` with the two streaks; the sequence
of outcomes is history, from which the property recomputes the mode.

**EventStorage** is `reserve()` with the recorder's calls of it.  The directory, what
the stream still buffers (`unsynced`) and the steps of scanning, deleting a file and
deleting its manifest are separate, because each may throw and the agent may crash
between any two.  The space left on the file system is a free choice.  `SecondBytes` is
what is written between two of the recorder's checks (`EventRecorder.h:218`): a second of the
encoder's output as long as the recorder keeps up with it; a backlog of its queue adds to it.

**Camera** is `captureLoop` around `open`, `copyFrame`, `stop` and `close`.  The driver
owns the queued buffers and fills them at any time; the device breaks and comes back
at any time; a descriptor from before that is dead, and calls on it fail, time out or
return old buffers.

**Detections** has `nms` as a loop over sorted candidates and `restore` for one
coordinate, with exact fractions and the rounding of `std::round`.

**VideoService** has the main thread in `start` and `stop`, `run()`, the streaming thread
of the encoder in `onPacket`, and the RTSP thread with its main loop and the media
callbacks.  A packet's number is also its time stamp.  GStreamer is external and
assumed to do this: the shared factory keeps one media at a time and forgets it after
the handlers of `unprepared` have run; setting a pipeline to NULL waits until its
streaming thread is out of the callback; a source attached to a main context runs once
its loop does.

**FrameFlow** follows the frames of the pool through all their holders: the capture,
`latest_`, `detection_frame_`, the inference thread, three queues, the JPEG thread and
the buffers of the encoder, which is external and may keep what it has for ever.

## 3. The runs

| Run | Shows | Bounds |
|---|---|---|
| `queue` | `Accounting`, `DeliveryOrder` | capacity 3, 6 items, all methods |
| `loop` | `NoLostWakeup`, `RefinesMailbox`, `LoopServes` (`TaskRuns` and `StopEndsLoop`) | 3 tasks, one stop |
| `loop_stop` | `StopAlwaysEndsLoop` is false | 1 task |
| `pipeline` | `NoStaleDetections`, `PublishOrder`, `TriggerConfirmed`, `PauseKeepsStart` | 3 frames, 3 disturbances, queue of 2, limits of 2 |
| `pipeline_live` | `RefinesLiveView`, `PreviewPairs`, `PreviewFresh`, `RestartServed`, `ShutdownCompletes` | 2 frames, 2 disturbances, limits of 1, JPEG queue of 1 |
| `pipeline_drain` | `SnapshotsDrained` is false | 1 frame, 1 command |
| `recorder` | `FilePlayable`, `OneSideOfReset`, `PreRecorded`, `StatusMatches`, `OpensForNewTrigger`, `RecorderEnds` | 3 packets, 4 ticks, 2 triggers, queue of 1, ring of 2, pre-event time and tail of 1 |
| `parts` | `TimersKept`, `ModesKept`, `StorageKept`, `CameraKept`, `DetectionsKept`, `VideoKept`, `FramesKept` | below |
| `control` | `OwnReplies`, `AcceptedFirst`, `PendingExact`, `EventsMeetOwner`, `DrainedCompletely` | 3 connections on 2 descriptors, 2 captures, JPEG queue of 1, cache of 1 |
| `control_live` | `ExecutedOnce`, `HalfClosedEnds`, `RefinesDialogue` | 1 connection that may stop reading, 2 requests with 3 ids (one null), cache of 1 |
| `control_replay` | `ExecutedOncePerConnection` is false | 2 connections, 3 requests, cache of 1 |
| `recorder_tail` | `TailCoversTriggers` is false | 2 packets, 3 ticks, 2 triggers |

A *disturbance* is a client command, a failed copy or an inference error; the
number of loop iterations, time-outs, expiries and failed opens is not bounded.

Why these bounds meet the interesting cases: three frames with a confirmation of
two allow a confirmed pair before, across and after an interruption; a queue of two
overflows and is skipped over by `popLatest`; three disturbances allow two errors
that pause inference with a `start` between them, or two copy failures that reopen
the camera and a command around them.  For the recorder, a queue of one overflows
with the second packet (a gap), a ring of two overflows with the third, or is cut
before it: packets of the ticks 1, 2 and 4, the second a key frame, are the fewest
that are, with a pre-event time of one, and an event may be opened from what is left.
Four ticks and a tail of one also allow a file to end by its tail and another to be
opened.  In `control`, two descriptors for three connections are
used again while the first owner's capture is still queued, and a client's send
buffer fills up; in `control_live` two requests let
two captures be under way together, a capture be asked for again before and after it is
answered, and, with a cache of one, be evicted between its acceptance and its result,
while the peer reads all, some or nothing of it.  (That an evicted one is asked for again
takes a third request, which `control_replay` has.)  Each run's mutants fail under its own bounds, which is the
test that the case each property is about does happen.

The properties of `parts` are conjunctions, one for each component, of its type
invariant, its safety properties and, where its threads are fair, its liveness:

| Component | Property | Bounds, and what they reach |
|---|---|---|
| TimerManager | `TimersKept`: `Armed`, `ActiveIdsExact`, `CancelledStaysSo`, `TimerRuns` | 2 timers, delays and periods of 0 and 3 ticks, 2 ticks to the millisecond, 2 ticks of lateness: remainders below a millisecond, timers that expire together or during another's callback, one that cancels itself |
| InferenceHealth | `ModesKept`: `DegradedExact` | 6 inferences, limits of 2 and 3, times at both thresholds and between: degraded mode on and off again, with streaks broken by failures |
| EventStorage | `StorageKept`: `QuotaKept`, `DeletesOldestComplete` | 7 blocks, 2 files, 3 events: both limits bind, one deletion fails and the next is tried, a crash leaves an incomplete event |
| Camera | `CameraKept`: `NoTornFrame`, `NothingLeaked`, `CameraRecovers` | 2 buffers, failure limit of 2, 1 restart; the device breaks as often as it likes: all buffers lost, opening failed half-way, reopened |
| Detections | `DetectionsKept`: `NmsExact`, `RestoreExact` | 5 candidates of 4 kinds, `TopK` 4, `OutLimit` 3: both limits cut the list; chains in which the middle box overlaps both others; square of 6, images from 1 to 13 on a side |
| VideoService | `VideoKept`: `Decodable`, `OwnClock`, `RecorderGetsAll`, `NoHandlerLeft`, `ErrorNoticed`, `VideoStops` | 3 frames, 2 media: a media replaced by another, packets dropped between, a stop at every point |
| FrameFlow | `FramesKept`: `Immutable`, `CaptureProceeds` | pool of 4, queues of 1, 1 frame at the encoder: `latest_`, `detection_frame_` and the encoder hold three different frames for ever, and the fourth goes round |

`latest_`, `detection_frame_` and the encoder may keep their frames; everyone else lets
go.  The capture therefore needs a pool of three and what the encoder may keep, which
is what the run has.  `Config.h:71` asks for the queue plus six, which leaves the encoder
four at the smallest queue: two wait in `appsrc`, and that the encoder proper keeps
no more than the rest is an assumption about it.

The runs of the pipeline are those of a camera; synthetic frames (`Synthetic`), which
leave out the failures, are covered by the theorems.

Deadlock is checked in the pipeline runs, whose only stop is `Terminated`.  It is
not checked where the system may rest: a queue, a recorder or a part whose callers have
reached the bounds, connections with nothing to say, a loop asleep with nothing to do.

### Fairness

Weak fairness per thread, for the steps a thread takes by itself: the operating
system schedules it, its queue waits are timed (200 ms, 100 ms) and `epoll_wait`
returns when the eventfd is readable.  Nothing is assumed of clients, signals, the
camera, descriptors or triggers.  `StopBegin` is fair only once `running_` is false,
because `main` polls it every 200 ms.  A task posted to the loop may stay unrun when
the loop ends, so `TaskRuns` allows that.  In `ControlPlane` both threads are fair and
the peers are not; `HalfClosedEnds` is about peers that go on reading.

In the parts, the network thread runs expired timers and time passes; the capture
thread goes on, and the driver fills buffers while the device works (`CameraRecovers`
is about a device that works for good from some time on).  The threads of
`VideoService` are scheduled; the wait for the end of the stream ends by its time-out;
no client and no encoder is fair.  In `FrameFlow` the capture, inference, JPEG and
video threads are fair, the encoder is not.

### What the violated properties say

1. **`EventLoop.h:77`.** `run()` loads `stop_requested_` and then stores `running_`.
   A `stop()` in between is overwritten: the first iteration consumes its wake-up
   and the loop sleeps for ever, although `EventLoop.h:74` and `:104` promise a
   thread-safe stop.  `StopEndsLoop` is what does hold: any `stop()` outside that
   window ends the loop.  The agent joins three threads before `loop_.stop()`,
   which makes the window hard to hit.
2. **`VisionPipeline.cpp:484`.** `pop()` and `closed()` are two critical sections.
   A snapshot accepted after the first, and the `close(false)` of shutdown, both
   before the second, leave the job in the queue, although `docs/architecture.md:47`
   says that shutdown drains it.
3. **`EventRecorder.h:121`.** `finish()` counts every trigger made by now as handled.
   A trigger after line 175 neither extends the event that is ending nor starts
   another, although `docs/architecture.md:34` says it extends it.
4. **`VisionPipeline.cpp:335`.** `docs/protocol.md:28` promises each connection its
   latest 128 responses.  The 128 entries are shared by all connections, closed ones
   included, so that other clients' requests evict a connection's replies and a
   retried command is executed again.  `ExecutedOnce` is what does hold: a command is
   not executed again while its reply is among the 128 stored last.

## 4. The theorems

TLC checks small instances; the following hold for every value of the constants
that satisfies the assumptions in the modules (capacities and limits at least 1,
bounds natural numbers, any set of tasks, any subset of the commands).

| Theorem | Says |
|---|---|
| `BoundedQueueProofs!TypeCorrect`, `NothingLost`, `OrderKept` | the queue's safety properties |
| `EventLoopProofs!TypeCorrect`, `Announced`, `NeverSleepsOverTask` | no lost wake-up |
| `EventLoopProofs!ImplementsMailbox` | `Spec => M!Spec`, with the refinement mapping above |
| `VisionPipelineProofs!TypeCorrect` | types and bounds |
| `VisionPipelineProofs!NeverStale` | `[]NoStaleDetections` |
| `VisionPipelineProofs!PreviewsAreFresh`, `PausesKeepStarts`, `PublishedInOrder`, `TriggersAreConfirmed` | the action properties |
| `VisionPipelineProofs!PreviewsArePairs` | `[]PreviewPairs` |
| `VisionPipelineProofs!ImplementsLiveView` | `Spec => L!Spec`: the pipeline implements the live view |
| `EventRecorderProofs!TypeCorrect` | types and bounds |
| `EventRecorderProofs!FilesArePlayable`, `FilesKeepSides` | `[]FilePlayable`, `[]OneSideOfReset`: what an event file holds |
| `EventRecorderProofs!RingHoldsPreTime`, `StatusIsTrue`, `OpensAreForNewTriggers` | `[]PreRecorded`, `[]StatusMatches`, `OpensForNewTrigger` |
| `ControlPlaneProofs!TypeCorrect` | types and bounds |
| `ControlPlaneProofs!RepliesAreOwn`, `AcceptedIsFirst` | `[]OwnReplies`, `[]AcceptedFirst`: what a socket is sent |
| `ControlPlaneProofs!EventsAreOwn`, `PendingIsExact` | `[]EventsMeetOwner`, `[]PendingExact`: descriptors and `retain` |
| `ControlPlaneProofs!DrainsCompletely`, `CommandsExecuteOnce` | `DrainedCompletely`, `ExecutedOnce` |
| `DialogueProofs!ImplementsDialogue` | `Spec => D!Spec`: the control plane implements the dialogue |
| `PartsProofs!FrameTypesHold`, `TimerTypesHold`, `CameraTypesHold` | types and bounds of `FrameFlow`, `TimerManager`, `Camera` |
| `PartsProofs!FramesImmutable` | `FrameFlow`: `[]Immutable`, for every pool and capacity |
| `PartsProofs!TablesAgree`, `CancelledNeverRuns`, `FirstTimerArmed` | `TimerManager`: `[]ActiveIdsExact`, `CancelledStaysSo`, `[]Armed` |
| `PartsProofs!CameraLeaksNothing`, `CopiesAreWhole` | `Camera`: `[]NothingLeaked`, `[]NoTornFrame` |
| `PartsProofs!ModesExact` | `InferenceHealth`: `[]ModesKept` |
| `PartsProofs!DeletionsGoByAge`, `FilesKeepLimit` | `EventStorage`: `DeletesOldestComplete`, and of `QuotaKept` the number of files |
| `PartsProofs!VideoTypes`, `MediaDecodable`, `MediaClock`, `RecorderMissesNothing`, `HandlersGone` | `VideoService`: all of `VideoKept` but its liveness |
| `PartsProofs!DetectionsExact` | `Detections`: `[]DetectionsKept`, all of it |

**Queue.** The conjunction of the three properties is inductive.  The only hard
steps are `PushLatest` on a full queue and `PopLatest`, which the lemmas of
`QueueOpsProofs` carry.

**Loop.** `NoLostWakeup` alone is not inductive: it speaks only of a loop that is
about to sleep.  `WakeupCovers` says at every moment who will take care of a
pending task: a readable eventfd, a poster that has yet to write, or a loop on its
way to the swap.  The refinement needs one more fact, `Unposted`: a task that was
never posted is in none of the three sequences, which is what makes `Post` of the
mailbox applicable.

**Pipeline.** The properties speak of the frame that is shown; the invariant must
follow it from the camera on.  `Ages` attaches to every place that holds a frame
(the capture thread, the queue, the inference thread, the published frame, the
requests for the JPEG thread) the fact `Fresh`: its generation is not in the
future, its sequence is not beyond the counter, and *if its generation is the
current one it lies after the last interruption*.  `Fresh` survives both ways in
which its terms change (lemma `Clock`): a new generation makes its last part
vacuous, a new frame leaves the interruption where it was.  The checks of the code
(`Current`) turn `Fresh` into freshness at the moment of publication or encoding.
`Order` keeps the frames on their way in the order of capture, `ViewPaired` and
`JobsPaired` tie detections to frames, and `Confirming` ties the counter
`confirmed` to the history `streak` while the generation of the frame at hand is
current, and bounds it otherwise.

**Live view.** The refinement is proved on these and two more conjuncts.  `Locked`: the
mutex is held exactly between the two steps of `start` and `stop`, so that what `Shown`
hides during them is hidden by nobody else.  `Existing`: whatever is shown or asked for is
a frame.  There is one lemma per thread, which says which step of LiveView each of its
steps is (`CaptureViews`, `InferViews`, `NetworkViews`, `SnapshotViews`, `MainViews`).  The
hard ones are `InferPublish`, where `Ages` gives that the frame is from after the last
interruption, `Order` that it is a later one than the last shown, and `Confirming` that the
event is confirmed; the pause, which the code performs only if its generation is still
current, and then a frame taken since the last interruption has failed; and the answers,
where the check of `IoEncode` and the order of the queue give LiveView's conditions.

**Recorder.** `FilePlayable` speaks of packets that were accepted one after the other,
while the queue drops some in between; the invariant (`RecorderIInv`) therefore follows
each packet from the encoder to the file.  A packet without a `gap` mark is the
neighbour of the one accepted before it (`Follows`), in the queue (`Marked`), between
the queue and the encoder (`Latest`, which ties `gap_` to the last accepted packet),
and between the recorder's hand and the end of ring and file (`Awaited`, `Ending`).  A
packet with a mark ends the file and clears the ring before it is recorded.  A packet
older than the cutoff is skipped without a mark; it leaves no hole, because it comes
after every recorded packet and those are from after the cutoff (`Between`), so that
ring and file are empty when a packet is skipped.  `Between` also gives
`OneSideOfReset`: what is recorded lies after every reset the recorder knows of and
before every other.  `Handled` orders `served`, `handled_until` and the cutoff, from
which `OpensForNewTrigger` follows.  The invariant was first checked by TLC on the
instance of `recorder`.

**Control plane.** The properties are about what a socket has been sent, but the steps
work on descriptors, identifiers, jobs and cached replies; the invariant
(`ControlIInv`, proved as `ControlInductive`) ties these together.  `Identified`: an open
connection has one descriptor, its identifier is its own, and every reply it holds, or
its peer got, is addressed to it.  `Cached`: a stored reply is addressed to the
connection in its key, and the keys in `reply_order_` are the `CacheLimit` latest ones,
each once, so that `DOMAIN replies` is exactly `Recent(inserted)`.  `Watching`: the
events still to be dispatched belong to open connections, one each.  `Reading` and
`Placed` say where the network thread must be for a line, a new job or a released one to
exist.  `InTurn` orders the jobs on their way by age (released, batch, functors, JPEG
thread, queue), and hence no job is in two places.  `Promised` is what makes `AcceptedFirst` inductive: whatever
job is still on its way, and whatever job a stored reply speaks of, its socket has been
told that it is accepted, unless the network thread stands between `tryPush` and the first
reply.  `Counted` is `PendingExact` over the set of these jobs: a push adds one that
was never given before, a release removes one that, by `InTurn`, is nowhere else.
The steps are sorted by what they do to the connections (`Effect`: nothing, one opens, one
reads, one is served), and each conjunct is proved from that instead of from the actions.

`TypeCorrect` is proved on top of this invariant, because its bounds are not local.  That
`jobs` and `executed.count` stay within the number of requests follows from `Tally`: the
requests nobody has read yet (`Unread`, on the wire of any socket or among the lines in
hand) and the jobs made, or the commands executed, are together never more than the
requests sent, since each line is taken from the wire once and is spent when it is
executed.  `Room` is the limit on clients, which only `Accept` could break, and `Heard`
says that every reply, sent or stored, names a job that was made.  This invariant too
was first checked by TLC on the instance of `control`.

**Dialogue.** The step simulation (`StepRefines`) is proved on `ControlIInv` and two more
conjuncts, which TLC checked first, on the instance of `control`.  `Fresh`: a socket that
has no connection yet has asked nothing, so a new connection starts the dialogue from
nothing.  `Echo`: a reply stored for an open
connection is one its socket was sent, which is what makes a replay a `Repeat`.  `Echo` is not
obvious: the final reply of a job is stored by the network thread after it was given to
`sendResponse`, which may have closed the connection, and then the reply is stored for an
identifier that no connection will have again.  The proof goes in three layers: what an
operation shows of a socket (`ServesViews`: it sees what the client record says, or its
connection ends with a prefix of that), what it does to the set of jobs (`InTurn` gives
that the functor at the head is the oldest job not yet answered), and the actions one by
one.

**Parts.** `FrameFlow`: the frame that is being written is in no queue and in nobody's
hands (`Unshared`), because the pool hands out only frames without a holder; a frame that
is held can only be passed on or dropped.  `TimerManager`: identifiers are handed out
once, each has one place (the heap, the batch of expired timers or the running
callback) and a cancelled one is gone from `active_ids` for good, which is what the check
before a callback reads.  `Camera`: a buffer has one owner, the driver or the camera
(`OneOwner`), and every mapping and descriptor is listed where `close` will find it
(`Accounted`); an open camera has not failed too often (`Reads`).  `InferenceHealth`: the two counters are the lengths of the streaks that
end the history (`Counted`), so a limit is reached exactly when a streak of that
length ends.  `EventStorage`: while reserve() deletes, the files there are are the ones
it has read, and the event being written has no manifest (`StorageIInv`), so the oldest
candidate is older than every complete event that is left; its count is never below the
number of files (`Numbered`).  `TimerManager` again: of timers that all lie after some
time one is first (`FrontExists`, from the well-ordering of the naturals, lemma
`LeastOf`), and rounding down never goes past it (`ResetCovers`).  `VideoService`: what
stop has waited for does not come back (`Ended`), so that no frame enters the encoder after
EOS and what is inside only gets less (`Drained`); frames are counted on their way
(`Moving`); `Fed` says of the media that is fed which packet it got last unless it waits
for a key frame, and that its clock starts at a packet it was offered.  `Detections`: the
loop of nms keeps that each candidate it has seen is in `out` or suppressed from there
(`NmsIInv`); that neighbours in order mean all in order is proved by the first index that
would be wrong (`DescendingAll`); the letterbox rests on one lemma about rounding
(`RoundedNear`).

**Only model-checked.** Liveness (`LoopServes`, `RestartServed`,
`ShutdownCompletes`, `RecorderEnds`, `HalfClosedEnds`, and of the parts
`TimerRuns`, `CameraRecovers`, `CaptureProceeds`, `ErrorNoticed`, `VideoStops`), which is out of
the prover's reach; the bytes of `QuotaKept`, a sum over a set that is folded; and the
type invariant of `EventStorage`, because that sum is part of it.

## 5. What is abstracted

- **Time.** Ages, back-offs, cool-downs and time-outs are free choices, except in
  the recorder, where presentation times are ticks because cutoff, tail and
  pre-event time are compared with each other.
- **Data.** Images, detections, JSON and files are identities.  A detection result
  is whether it contains a person in the region of interest.
- **Failures.** Failed system calls, disk errors and exceptions of the engine, the
  camera and the encoder are free choices where the code handles them.  Memory
  exhaustion, and exceptions the code lets escape from a thread, are left out.
- **Memory order.** Atomics are sequentially consistent, as the code uses them.
- **`trigger` and `reset` in the pipeline.** `VisionPipeline` records that an event
  was triggered and by which frame; what happens then is `EventRecorder`.

### Not modelled

- **RKNN engine, preprocessing, decoding of the output tensors.** Calls of the NPU and RGA
  drivers on one thread and floating-point arithmetic; `infer()` returns or throws freely.
- **Metrics, the stall report of `InferenceHealth`, the fields of `get_status`.** Counters and
  ages for display; no decision is taken from them.
- **Configuration and start-up of `main`.** One pass before any thread exists; its ranges
  justify the assumptions on the constants.
- **GStreamer, V4L2, the file system, epoll.** External: modelled as the code uses them.
- **Clients and the cloud agent.** The clients are the peers of `ControlPlane`; the cloud
  agent handles one request at a time and keeps nothing.

### Known, and covered by no property

Each of these was met while modelling; the code does it in the model too, unless said
otherwise, and the documents say nothing for or against it.

- An error pause clears `enabled_` but leaves `detections_` (`VisionPipeline.cpp:302`):
  `get_detections` shows the last result until `infer_max_age_ms` has passed.
- A loop that ends by an error leaves functors pending (`EventLoop.h:85`); the mailbox allows
  it, and the agent then shuts down.
- A trigger less than a tail after a reset is swallowed (`EventRecorder.h:133`).
- A repeated `get_preview` is encoded again (`VisionPipeline.cpp:436`), as `docs/protocol.md:28`
  says.
- A manifest whose removal throws after its event is gone is counted by no later call
  (`EventStorage.h:75`), and a reservation that cannot succeed deletes every complete
  event first (`EventStorage.h:68`).
- `onPacket` returns early for a buffer without a time stamp or that cannot be mapped
  (`VideoService.cpp:123`) and marks no gap; left out, because the encoder keeps the time
  stamps it is given and system memory can be mapped.

## 6. Plan

Done: all of it.

1. `QueueOps`, `BoundedQueue`; `Mailbox`, `EventLoop`; `VisionPipeline`.
2. `EventRecorder`.
3. Proofs for the queue, the loop with its refinement, and the pipeline.
4. The runs above.
5. `ControlPlane`: `TcpServer` with the descriptor table of `EventLoop`, the replay
   cache, retain and release, and the JPEG thread's replies.
6. `FrameFlow`: the pool and every holder of a frame.
7. `TimerManager`, `InferenceHealth`, `EventStorage`, `Camera`, `Detections`.
8. `VideoService`: the encoder's callback, the media of the RTSP factory, shutdown.
9. `PartsProofs`: the safety of `FrameFlow`, `TimerManager`, `Camera`,
   `InferenceHealth`, `EventStorage`, `VideoService`, `Detections`.
10. `EventRecorderProofs`: the safety of the recorder.
11. `ControlPlaneProofs`: the safety of the control protocol, its type invariant included.
12. `Dialogue`: the abstract specification of the connections, which `ControlPlane`
   implements, and the proof of it in `DialogueProofs`.
13. `LiveView`: the abstract specification of what the pipeline shows, which
   `VisionPipeline` implements, and the proof of it in `VisionPipelineProofs`.

Left is what the provers do not reach: liveness, the bytes of `QuotaKept`, and the type
invariant of `EventStorage`.
