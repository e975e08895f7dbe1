---------------------------- MODULE VisionPipeline ----------------------------
(***************************************************************************)
(* VisionPipeline (app/VisionPipeline.{h,cpp}): the capture, inference,    *)
(* network and JPEG threads and the thread that shuts them down, over the  *)
(* state they share: the switch enabled_, the generation number            *)
(* inference_epoch_, the published frame and detections, and the queues    *)
(* inference_ and snapshots_.                                              *)
(*                                                                         *)
(* A step is one critical section of state_mutex_, one call of a queue or  *)
(* one access to an atomic.  A frame is its sequence number and the        *)
(* generation stamped on it; detections are named by the frame they were   *)
(* computed from, 0 for the empty list.  Ages are abstracted: wherever the *)
(* code compares an age with a limit, both outcomes are possible.  The     *)
(* outcome of the camera, of the engine and of the JPEG encoder is free.   *)
(***************************************************************************)
EXTENDS QueueOps

CONSTANTS
  QueueCapacity,      \* config_.queue
  SnapshotCapacity,   \* capacity of snapshots_ (8)
  FailureLimit,       \* failed copies that reopen the camera (5)
  ErrorLimit,         \* inference errors that pause inference (3)
  EventConfirm,       \* config_.event_confirm
  Synthetic,          \* config_.synthetic: frames without a camera
  Commands,           \* the commands clients send
  MaxSequence,        \* bound on the frames captured
  MaxDisturbances     \* bound on commands, copy failures and inference errors

AllCommands == {"start", "stop", "restart_camera", "get_preview", "capture"}

ASSUME CapacityAssumption ==
  QueueCapacity \in Nat \ {0} /\ SnapshotCapacity \in Nat \ {0}
ASSUME LimitAssumption ==
  /\ FailureLimit \in Nat \ {0} /\ ErrorLimit \in Nat \ {0} /\ EventConfirm \in Nat \ {0}
  /\ MaxSequence \in Nat /\ MaxDisturbances \in Nat
ASSUME ChoiceAssumption == Synthetic \in BOOLEAN /\ Commands \subseteq AllCommands

VARIABLES
  running, enabled, restart_capture,           \* running_, enabled_, restart_capture_
  mutex,                                       \* who holds state_mutex_ across steps
  inference_epoch,                             \* inference_epoch_
  latest, detection_frame, detections,         \* latest_, detection_frame_, detections_
  inference, inference_closed,                 \* inference_: items and closed flag
  snapshots, snapshots_closed,                 \* snapshots_: items and closed flag
  capture,      \* captureLoop: [pc, opened, failures, frame]
  sequence,     \* captureLoop: sequence
  infer,        \* inferenceLoop: [pc, frame, generation, confirmed, errors, person]
  network,      \* command(): [pc, job]
  io,           \* snapshotLoop: [pc, job, ok]
  main,         \* stop(): how far shutdown is
  disturbances, \* how much of MaxDisturbances is used
  boundary,     \* history: sequence at the last interruption (start, stop, restart,
                \*   camera failure, pause)
  published,    \* history: sequence of the frame published last
  streak,       \* history: consecutive frames since the boundary that were published
                \*   with a person (counted up to EventConfirm)
  triggered     \* history: sequence of the frame of the last video_->trigger

\* What UNCHANGED names together.
flags == <<running, enabled, restart_capture>>
views == <<latest, detection_frame, detections>>
input == <<inference, inference_closed>>
jobs == <<snapshots, snapshots_closed>>
camera == <<capture, sequence>>
history == <<boundary, published, streak, triggered>>
vars == <<flags, mutex, inference_epoch, views, input, jobs, camera, infer, network, io,
          main, disturbances, history>>

-------------------------------------------------------------------------------
None == [sequence |-> 0, generation |-> 0]
Frames == [sequence : Nat, generation : Nat]
Jobs == [frame : Frames, preview : BOOLEAN, detections : Nat]
NoJob == [frame |-> None, preview |-> FALSE, detections |-> 0]

CapturePc == {"replay", "top", "restart", "restart_lock", "restart_clear", "open",
              "acquire", "stamp", "copy", "fail_lock", "fail_clear", "latest", "offer",
              "push", "exit"}
InferPc == {"top", "pop", "check", "run", "publish", "disable", "drain", "exit"}
MainPc == {"up", "close_inference", "close_snapshots", "join", "stop_loop", "reset", "down"}

TypeOK ==
  /\ running \in BOOLEAN /\ enabled \in BOOLEAN /\ restart_capture \in BOOLEAN
  /\ mutex \in {"free", "network"}
  /\ inference_epoch \in Nat
  /\ latest \in Frames /\ detection_frame \in Frames /\ detections \in Nat
  /\ inference \in Seq(Frames) /\ Len(inference) <= QueueCapacity
  /\ inference_closed \in BOOLEAN
  /\ snapshots \in Seq(Jobs) /\ Len(snapshots) <= SnapshotCapacity
  /\ snapshots_closed \in BOOLEAN
  /\ capture \in [pc : CapturePc, opened : BOOLEAN, failures : 0..FailureLimit,
                  frame : Frames]
  /\ sequence \in Nat
  /\ infer \in [pc : InferPc, frame : Frames, generation : Nat \cup {-1},
                confirmed : 0..EventConfirm, errors : 0..ErrorLimit, person : BOOLEAN]
  /\ network \in [pc : {"idle", "commit", "push", "exit"}, job : Jobs]
  /\ io \in [pc : {"pop", "closed", "encode", "reply", "exit"}, job : Jobs, ok : BOOLEAN]
  /\ main \in MainPc
  /\ disturbances \in 0..MaxDisturbances
  /\ boundary \in Nat /\ published \in Nat /\ triggered \in Nat
  /\ streak \in 0..EventConfirm

\* start(): the constructor's values, the threads about to enter their loops.
Init ==
  /\ running = TRUE /\ enabled = TRUE /\ restart_capture = FALSE /\ mutex = "free"
  /\ inference_epoch = 0
  /\ latest = None /\ detection_frame = None /\ detections = 0
  /\ inference = <<>> /\ inference_closed = FALSE
  /\ snapshots = <<>> /\ snapshots_closed = FALSE
  /\ capture = [pc |-> "replay", opened |-> FALSE, failures |-> 0, frame |-> None]
  /\ sequence = 0
  /\ infer = [pc |-> "top", frame |-> None, generation |-> -1, confirmed |-> 0,
              errors |-> 0, person |-> FALSE]
  /\ network = [pc |-> "idle", job |-> NoJob]
  /\ io = [pc |-> "pop", job |-> NoJob, ok |-> FALSE]
  /\ main = "up"
  /\ disturbances = 0
  /\ boundary = 0 /\ published = 0 /\ streak = 0 /\ triggered = 0

LeastOf(a, b) == IF a < b THEN a ELSE b

\* One more of the environment's disturbances.
Disturb == disturbances < MaxDisturbances /\ disturbances' = disturbances + 1

\* A new generation; whatever was captured so far lies behind the boundary.
NewEpoch ==
  /\ inference_epoch' = inference_epoch + 1
  /\ boundary' = sequence /\ streak' = 0

-------------------------------------------------------------------------------
(* captureLoop. *)

Capture(from, to) == capture.pc = from /\ capture' = [capture EXCEPT !.pc = to]

\* What no step of captureLoop touches.
CaptureFrame == UNCHANGED <<running, enabled, mutex, inference_closed, jobs, infer, network,
                            io, main, published, triggered>>
\* ... and what only its recoveries touch.
CaptureLocal == CaptureFrame /\ UNCHANGED <<inference_epoch, detection_frame, detections,
                                            boundary, streak>>

\* The replay file is read once; a bad one ends the thread (state "failed").
CaptureReplay ==
  /\ \E to \in {"top"} \cup (IF Synthetic THEN {"exit"} ELSE {}) : Capture("replay", to)
  /\ CaptureLocal /\ UNCHANGED <<restart_capture, latest, inference, sequence, disturbances>>

CaptureTop ==
  /\ Capture("top", IF running THEN "restart" ELSE "exit")
  /\ CaptureLocal /\ UNCHANGED <<restart_capture, latest, inference, sequence, disturbances>>

\* (mutant) the request is looked at only while the camera is open.
MCaptureRestartOpened ==
  /\ capture.pc = "restart"
  /\ restart_capture' = (restart_capture /\ ~capture.opened)
  /\ capture' = IF restart_capture /\ capture.opened
                THEN [capture EXCEPT !.pc = "restart_lock", !.opened = FALSE, !.failures = 0]
                ELSE [capture EXCEPT !.pc = "open"]
  /\ CaptureLocal /\ UNCHANGED <<latest, inference, sequence, disturbances>>

\* restart_capture_.exchange(false), and camera.close().
CaptureRestart ==
  /\ capture.pc = "restart"
  /\ restart_capture' = FALSE
  /\ capture' = IF restart_capture
                THEN [capture EXCEPT !.pc = "restart_lock", !.opened = FALSE, !.failures = 0]
                ELSE [capture EXCEPT !.pc = "open"]
  /\ CaptureLocal /\ UNCHANGED <<latest, inference, sequence, disturbances>>

\* (mutant) the recovery keeps the generation.
MCaptureForgetKeepsEpoch(from, to) ==
  /\ Capture(from, to) /\ mutex = "free"
  /\ boundary' = sequence /\ streak' = 0
  /\ latest' = None /\ detection_frame' = None /\ detections' = 0
  /\ CaptureFrame
  /\ UNCHANGED <<restart_capture, inference_epoch, inference, sequence, disturbances>>

\* The critical section of both recoveries: lines 63-71 and 136-146.
CaptureForget(from, to) ==
  /\ Capture(from, to) /\ mutex = "free"
  /\ NewEpoch
  /\ latest' = None /\ detection_frame' = None /\ detections' = 0
  /\ CaptureFrame /\ UNCHANGED <<restart_capture, inference, sequence, disturbances>>

\* The rest of both recoveries: inference_.clear(), after FailureLimit failures
\* camera.close() too; resetRecording is EventRecorder's Reset.
CaptureClear(from, to) ==
  /\ capture.pc = from
  /\ capture' = [capture EXCEPT !.pc = to, !.opened = FALSE]
  /\ inference' = <<>>
  /\ CaptureLocal /\ UNCHANGED <<restart_capture, latest, sequence, disturbances>>

\* Before next_retry, or when the camera does not open, the loop starts over.
CaptureOpen ==
  /\ \/ (Synthetic \/ capture.opened) /\ Capture("open", "acquire")
     \/ /\ ~Synthetic /\ ~capture.opened /\ capture.pc = "open"
        /\ \/ capture' = [capture EXCEPT !.pc = "acquire", !.opened = TRUE, !.failures = 0]
           \/ capture' = [capture EXCEPT !.pc = "top"]
  /\ CaptureLocal /\ UNCHANGED <<restart_capture, latest, inference, sequence, disturbances>>

\* The pool may be exhausted.
CaptureAcquire ==
  /\ \/ sequence < MaxSequence /\ Capture("acquire", "stamp")
     \/ Capture("acquire", "top")
  /\ CaptureLocal /\ UNCHANGED <<restart_capture, latest, inference, sequence, disturbances>>

CaptureStamp ==
  /\ capture.pc = "stamp" /\ mutex = "free"
  /\ capture' = [capture EXCEPT !.pc = "copy", !.frame.generation = inference_epoch]
  /\ CaptureLocal /\ UNCHANGED <<restart_capture, latest, inference, sequence, disturbances>>

CaptureCopied ==
  /\ capture.pc = "copy"
  /\ sequence' = sequence + 1
  /\ capture' = [capture EXCEPT !.pc = "latest", !.failures = 0,
                                !.frame.sequence = sequence + 1]
  /\ CaptureLocal /\ UNCHANGED <<restart_capture, latest, inference, disturbances>>

\* A timeout or an error of copyFrame; FailureLimit in a row reopen the camera.
CaptureCopyFails ==
  /\ capture.pc = "copy" /\ ~Synthetic
  /\ Disturb
  /\ LET n == capture.failures + 1 IN
       capture' = [capture EXCEPT !.pc = IF n >= FailureLimit THEN "fail_lock" ELSE "top",
                                  !.failures = n, !.frame = None]
  /\ CaptureLocal /\ UNCHANGED <<restart_capture, latest, inference, sequence>>

CaptureLatest ==
  /\ Capture("latest", "offer") /\ mutex = "free"
  /\ latest' = capture.frame
  /\ CaptureLocal /\ UNCHANGED <<restart_capture, inference, sequence, disturbances>>

\* if (enabled_), read without the lock.
CaptureOffer ==
  /\ capture.pc = "offer"
  /\ capture' = IF enabled THEN [capture EXCEPT !.pc = "push"]
                           ELSE [capture EXCEPT !.pc = "top", !.frame = None]
  /\ CaptureLocal /\ UNCHANGED <<restart_capture, latest, inference, sequence, disturbances>>

\* (mutant) a full queue is not made to give up its oldest frame.
MCapturePushGrows ==
  /\ capture.pc = "push"
  /\ capture' = [capture EXCEPT !.pc = "top", !.frame = None]
  /\ inference' = IF inference_closed THEN inference ELSE Append(inference, capture.frame)
  /\ CaptureLocal /\ UNCHANGED <<restart_capture, latest, sequence, disturbances>>

CapturePush ==
  /\ capture.pc = "push"
  /\ capture' = [capture EXCEPT !.pc = "top", !.frame = None]
  /\ inference' = IF inference_closed THEN inference
                  ELSE AfterPushLatest(inference, QueueCapacity, capture.frame)
  /\ CaptureLocal /\ UNCHANGED <<restart_capture, latest, sequence, disturbances>>

CaptureLoop ==
  \/ CaptureReplay \/ CaptureTop \/ CaptureRestart
  \/ CaptureForget("restart_lock", "restart_clear")
  \/ CaptureClear("restart_clear", "open")
  \/ CaptureOpen \/ CaptureAcquire \/ CaptureStamp \/ CaptureCopied \/ CaptureCopyFails
  \/ CaptureForget("fail_lock", "fail_clear")
  \/ CaptureClear("fail_clear", "top")
  \/ CaptureLatest \/ CaptureOffer \/ CapturePush

-------------------------------------------------------------------------------
(* inferenceLoop.  A frame that ends without being published breaks the streak. *)

InferFrame == UNCHANGED <<running, restart_capture, mutex, latest, inference_closed, jobs,
                          camera, network, io, main>>
InferLocal == InferFrame /\ UNCHANGED <<enabled, inference_epoch, detection_frame,
                                        detections, boundary, published, triggered>>

\* The frame is let go and counts against the confirmation.
InferDiscard ==
  /\ infer' = [infer EXCEPT !.pc = "top", !.frame = None, !.confirmed = 0,
                            !.person = FALSE]
  /\ streak' = 0

\* while (running_), after the cool-down of next_admission.
InferTop ==
  /\ infer.pc = "top"
  /\ infer' = [infer EXCEPT !.pc = IF running THEN "pop" ELSE "exit"]
  /\ InferLocal /\ UNCHANGED <<inference, disturbances, streak>>

InferPopEmpty ==
  /\ infer.pc = "pop" /\ inference = <<>>
  /\ infer' = [infer EXCEPT !.pc = "top"]
  /\ InferLocal /\ UNCHANGED <<inference, disturbances, streak>>

\* (mutant) the confirmation outlives the generation.
MInferPopNoReset ==
  /\ infer.pc = "pop" /\ inference # <<>>
  /\ infer' = [infer EXCEPT !.pc = "check", !.frame = Newest(inference),
                            !.generation = Newest(inference).generation]
  /\ inference' = <<>>
  /\ InferLocal /\ UNCHANGED <<disturbances, streak>>

\* (mutant) the older frames stay queued.
MInferPopKeepsOlder ==
  /\ infer.pc = "pop" /\ inference # <<>>
  /\ LET f == Newest(inference) IN
       infer' = [infer EXCEPT !.pc = "check", !.frame = f, !.generation = f.generation,
                   !.confirmed = IF f.generation # infer.generation THEN 0 ELSE @]
  /\ inference' = SubSeq(inference, 1, Len(inference) - 1)
  /\ InferLocal /\ UNCHANGED <<disturbances, streak>>

\* popLatest; a frame of another generation restarts the confirmation.
InferPop ==
  /\ infer.pc = "pop" /\ inference # <<>>
  /\ LET f == Newest(inference) IN
       infer' = [infer EXCEPT !.pc = "check", !.frame = f, !.generation = f.generation,
                   !.confirmed = IF f.generation # infer.generation THEN 0 ELSE @]
  /\ inference' = <<>>
  /\ InferLocal /\ UNCHANGED <<disturbances, streak>>

Current(f) == enabled /\ f.generation = inference_epoch

InferCheck ==
  /\ infer.pc = "check" /\ mutex = "free"
  /\ IF Current(infer.frame)
       THEN infer' = [infer EXCEPT !.pc = "run"] /\ streak' = streak
       ELSE InferDiscard
  /\ InferLocal /\ UNCHANGED <<inference, disturbances>>

\* The frame waited longer than infer_max_age_ms.
InferExpired ==
  /\ infer.pc = "run"
  /\ InferDiscard
  /\ InferLocal /\ UNCHANGED <<inference, disturbances>>

InferCompletes ==
  /\ infer.pc = "run"
  /\ \E person \in BOOLEAN :
       infer' = [infer EXCEPT !.pc = "publish", !.errors = 0, !.person = person]
  /\ InferLocal /\ UNCHANGED <<inference, disturbances, streak>>

\* The engine throws; ErrorLimit times in a row pause inference.
InferThrows ==
  /\ infer.pc = "run"
  /\ Disturb
  /\ LET n == infer.errors + 1 IN
       infer' = [infer EXCEPT !.pc = IF n >= ErrorLimit THEN "disable" ELSE "top",
                   !.errors = n, !.confirmed = 0,
                   !.frame = IF n >= ErrorLimit THEN @ ELSE None]
  /\ streak' = 0
  /\ InferLocal /\ UNCHANGED inference

\* (mutant) the generation is checked before the inference only.
MInferPublishUnchecked ==
  /\ infer.pc = "publish" /\ mutex = "free"
  /\ running /\ enabled
  /\ LET confirmed == IF infer.person THEN LeastOf(infer.confirmed + 1, EventConfirm) ELSE 0
         f == infer.frame IN
       /\ detection_frame' = f /\ detections' = f.sequence /\ published' = f.sequence
       /\ infer' = [infer EXCEPT !.pc = "top", !.frame = None, !.confirmed = confirmed,
                                 !.person = FALSE]
       /\ triggered' = IF confirmed >= EventConfirm THEN f.sequence ELSE triggered
       /\ streak' = IF infer.person THEN LeastOf(streak + 1, EventConfirm) ELSE 0
  /\ InferFrame /\ UNCHANGED <<enabled, inference_epoch, inference, disturbances, boundary>>

\* A result of another generation, of a paused pipeline, or too old.
InferStale ==
  /\ infer.pc = "publish" /\ mutex = "free"
  /\ InferDiscard
  /\ InferLocal /\ UNCHANGED <<inference, disturbances>>

InferPublish ==
  /\ infer.pc = "publish" /\ mutex = "free"
  /\ running /\ Current(infer.frame)
  /\ LET confirmed == IF infer.person THEN LeastOf(infer.confirmed + 1, EventConfirm) ELSE 0
         f == infer.frame IN
       /\ detection_frame' = f /\ detections' = f.sequence /\ published' = f.sequence
       /\ infer' = [infer EXCEPT !.pc = "top", !.frame = None, !.confirmed = confirmed,
                                 !.person = FALSE]
       /\ triggered' = IF confirmed >= EventConfirm THEN f.sequence ELSE triggered
       /\ streak' = IF infer.person THEN LeastOf(streak + 1, EventConfirm) ELSE 0
  /\ InferFrame /\ UNCHANGED <<enabled, inference_epoch, inference, disturbances, boundary>>

\* (mutant) the pause does not ask whose frame failed.
MInferDisableAlways ==
  /\ infer.pc = "disable" /\ mutex = "free"
  /\ infer' = [infer EXCEPT !.pc = "drain"]
  /\ enabled' = FALSE /\ NewEpoch
  /\ InferFrame /\ UNCHANGED <<detection_frame, detections, inference, disturbances,
                               published, triggered>>

InferDisable ==
  /\ infer.pc = "disable" /\ mutex = "free"
  /\ infer' = [infer EXCEPT !.pc = "drain"]
  /\ IF infer.frame.generation = inference_epoch
       THEN enabled' = FALSE /\ NewEpoch
       ELSE UNCHANGED <<enabled, inference_epoch, boundary, streak>>
  /\ InferFrame /\ UNCHANGED <<detection_frame, detections, inference, disturbances,
                               published, triggered>>

InferDrain ==
  /\ infer.pc = "drain"
  /\ inference' = <<>>
  /\ infer' = [infer EXCEPT !.pc = "top", !.frame = None, !.errors = 0]
  /\ InferLocal /\ UNCHANGED <<disturbances, streak>>

InferenceLoop ==
  \/ InferTop \/ InferPopEmpty \/ InferPop \/ InferCheck \/ InferExpired
  \/ InferCompletes \/ InferThrows \/ InferStale \/ InferPublish
  \/ InferDisable \/ InferDrain

(* command(), on the network thread: its handlers run one at a time.       *)
(* set_threshold, set_infer_delay and the get_* queries change nothing     *)
(* that is modelled here; record_event belongs to EventRecorder.           *)

NetworkFrame == UNCHANGED <<running, inference_closed, snapshots_closed, latest, camera,
                            infer, io, main, published, triggered>>

\* start and stop: one critical section, whose clear() is a call of the queue.
StartStop(cmd) ==
  /\ cmd \in Commands \cap {"start", "stop"}
  /\ network.pc = "idle" /\ mutex = "free" /\ Disturb
  /\ mutex' = "network"
  /\ network' = [network EXCEPT !.pc = "commit"]
  /\ NewEpoch
  /\ enabled' = (cmd = "start")
  /\ NetworkFrame /\ UNCHANGED <<restart_capture, detection_frame, detections, inference,
                                 snapshots>>

\* (mutant) the frame of the detections that are dropped is kept.
MStartStopKeepsFrame ==
  /\ network.pc = "commit"
  /\ inference' = <<>>
  /\ detections' = 0
  /\ mutex' = "free"
  /\ network' = [network EXCEPT !.pc = "idle"]
  /\ NetworkFrame
  /\ UNCHANGED <<enabled, restart_capture, inference_epoch, detection_frame, snapshots,
                 disturbances, boundary, streak>>

StartStopCommit ==
  /\ network.pc = "commit"
  /\ inference' = <<>>
  /\ detection_frame' = None /\ detections' = 0
  /\ mutex' = "free"
  /\ network' = [network EXCEPT !.pc = "idle"]
  /\ NetworkFrame /\ UNCHANGED <<enabled, restart_capture, inference_epoch, snapshots,
                                 disturbances, boundary, streak>>

NetworkLocal == NetworkFrame /\ UNCHANGED <<enabled, mutex, inference_epoch, detection_frame,
                                            detections, inference, boundary, streak>>

RestartCamera ==
  /\ "restart_camera" \in Commands
  /\ network.pc = "idle" /\ Disturb
  /\ restart_capture' = TRUE
  /\ NetworkLocal /\ UNCHANGED <<network, snapshots>>

\* get_preview and capture take a frame under the lock; without a frame, or with
\* one that is too old, the answer is an error and nothing changes.
Request(cmd, job) ==
  /\ cmd \in Commands
  /\ network.pc = "idle" /\ mutex = "free" /\ Disturb
  /\ job.frame # None
  /\ network' = [pc |-> "push", job |-> job]
  /\ NetworkLocal /\ UNCHANGED <<restart_capture, snapshots>>

GetPreview == Request("get_preview",
  [frame |-> detection_frame, preview |-> TRUE, detections |-> detections])
CaptureCommand == Request("capture",
  [frame |-> latest, preview |-> FALSE, detections |-> 0])

\* tryPush; when it is refused the answer is 429.
RequestPush ==
  /\ network.pc = "push"
  /\ network' = [pc |-> "idle", job |-> NoJob]
  /\ snapshots' = IF Accepts(snapshots, SnapshotCapacity, snapshots_closed)
                  THEN Append(snapshots, network.job) ELSE snapshots
  /\ NetworkLocal /\ UNCHANGED <<restart_capture, disturbances>>

\* loop_.run() ends on an error of epoll_wait; main sees running() false.
NetworkFails ==
  /\ network.pc = "idle" /\ main = "up"
  /\ network' = [network EXCEPT !.pc = "exit"]
  /\ running' = FALSE
  /\ UNCHANGED <<enabled, restart_capture, mutex, inference_epoch, views, input, jobs,
                 camera, infer, io, main, disturbances, history>>

-------------------------------------------------------------------------------
(* snapshotLoop. *)

IoFrame == UNCHANGED <<flags, mutex, inference_epoch, views, input, snapshots_closed, camera,
                       infer, network, main, disturbances, history>>

IoPop ==
  /\ io.pc = "pop"
  /\ IF snapshots = <<>>
       THEN io' = [io EXCEPT !.pc = "closed"] /\ snapshots' = snapshots
       ELSE /\ io' = [io EXCEPT !.pc = "encode", !.job = Head(snapshots)]
            /\ snapshots' = Tail(snapshots)
  /\ IoFrame

IoClosed ==
  /\ io.pc = "closed"
  /\ io' = [io EXCEPT !.pc = IF snapshots_closed THEN "exit" ELSE "pop"]
  /\ IoFrame /\ UNCHANGED snapshots

\* (mutant) the preview is answered with whatever frame the job holds.
MIoEncodeUnchecked ==
  /\ io.pc = "encode"
  /\ io.job.preview => mutex = "free"
  /\ \E ok \in BOOLEAN : io' = [io EXCEPT !.pc = "reply", !.ok = ok]
  /\ IoFrame /\ UNCHANGED snapshots

\* Converting and encoding may fail; a preview also fails when its generation is over.
IoEncode ==
  /\ io.pc = "encode"
  /\ io.job.preview => mutex = "free"
  /\ \E ok \in BOOLEAN :
       /\ ok /\ io.job.preview => Current(io.job.frame)
       /\ io' = [io EXCEPT !.pc = "reply", !.ok = ok]
  /\ IoFrame /\ UNCHANGED snapshots

\* loop_.queueInLoop(reply).
IoReply ==
  /\ io.pc = "reply"
  /\ io' = [pc |-> "pop", job |-> NoJob, ok |-> FALSE]
  /\ IoFrame /\ UNCHANGED snapshots

SnapshotLoop == IoPop \/ IoClosed \/ IoEncode \/ IoReply

-------------------------------------------------------------------------------
(* stop(), on the main thread, after a signal or when running() is false. *)

Main(from, to) == main = from /\ main' = to
MainFrame == UNCHANGED <<enabled, restart_capture, mutex, inference_epoch, detections, camera,
                         infer, io, disturbances, history>>

StopBegin ==
  /\ Main("up", "close_inference")
  /\ running' = FALSE
  /\ MainFrame /\ UNCHANGED <<latest, detection_frame, input, jobs, network>>

CloseInference ==
  /\ Main("close_inference", "close_snapshots")
  /\ inference' = <<>> /\ inference_closed' = TRUE
  /\ MainFrame /\ UNCHANGED <<running, latest, detection_frame, jobs, network>>

\* (mutant) the queue of the JPEG thread is left open.
MCloseSnapshotsForgets ==
  /\ Main("close_snapshots", "join")
  /\ MainFrame
  /\ UNCHANGED <<running, latest, detection_frame, input, jobs, network>>

\* close(false): what is queued stays for the JPEG thread.
CloseSnapshots ==
  /\ Main("close_snapshots", "join")
  /\ snapshots_closed' = TRUE
  /\ MainFrame /\ UNCHANGED <<running, latest, detection_frame, input, snapshots, network>>

\* The joins of the capture, inference and JPEG threads.
Join ==
  /\ Main("join", "stop_loop")
  /\ capture.pc = "exit" /\ infer.pc = "exit" /\ io.pc = "exit"
  /\ MainFrame /\ UNCHANGED <<running, latest, detection_frame, input, jobs, network>>

\* video_->stop(), loop_.stop() and the join of the network thread.
StopLoop ==
  /\ Main("stop_loop", "reset")
  /\ network.pc \in {"idle", "exit"}
  /\ network' = [network EXCEPT !.pc = "exit"]
  /\ MainFrame /\ UNCHANGED <<running, latest, detection_frame, input, jobs>>

StopReset ==
  /\ Main("reset", "down") /\ mutex = "free"
  /\ latest' = None /\ detection_frame' = None
  /\ MainFrame /\ UNCHANGED <<running, input, jobs, network>>

Terminated == main = "down" /\ UNCHANGED vars

-------------------------------------------------------------------------------
Stop == CloseInference \/ CloseSnapshots \/ Join \/ StopLoop \/ StopReset

Network ==
  \/ (\E cmd \in {"start", "stop"} : StartStop(cmd)) \/ StartStopCommit
  \/ RestartCamera \/ GetPreview \/ CaptureCommand \/ RequestPush \/ NetworkFails

Next ==
  \/ CaptureLoop \/ InferenceLoop \/ Network \/ SnapshotLoop
  \/ StopBegin \/ Stop \/ Terminated

\* Every thread is scheduled; clients and signals owe nothing.  main polls
\* running() every 200 ms.
Spec ==
  /\ Init /\ [][Next]_vars
  /\ WF_vars(CaptureLoop) /\ WF_vars(InferenceLoop) /\ WF_vars(SnapshotLoop)
  /\ WF_vars(StartStopCommit \/ RequestPush)
  /\ WF_vars(Stop) /\ WF_vars(StopBegin /\ ~running)

-------------------------------------------------------------------------------
(* What is seen of it from outside. *)

Unlocked == mutex = "free"

\* start and stop show nothing from their first step on.
Shown == IF Unlocked THEN detection_frame.sequence ELSE 0

View(job) ==
  [preview |-> job.preview, image |-> job.frame.sequence, detections |-> job.detections]

Asking == IF network.pc = "push" THEN View(network.job) ELSE View(NoJob)
Queued == (IF io.pc = "encode" THEN <<io.job>> ELSE <<>>) \o snapshots
Asked == [i \in 1..Len(Queued) |-> View(Queued[i])]
Answer == IF io.pc = "reply" THEN [request |-> View(io.job), ok |-> io.ok]
          ELSE [request |-> View(NoJob), ok |-> FALSE]

L == INSTANCE LiveView WITH
       Confirm <- EventConfirm,
       on <- enabled, taken <- sequence, since <- boundary, image <- latest.sequence,
       shown <- Shown, last <- published, run <- streak, event <- triggered,
       asking <- Asking, asked <- Asked, answer <- Answer

\* However the threads interleave, an interruption takes effect at once.
RefinesLiveView == L!Spec

-------------------------------------------------------------------------------
(* Properties. *)

\* Detections shown while inference is enabled were computed from a frame copied
\* after the last start, stop, camera restart, camera failure or pause, although
\* none of these waits for the frame being copied, queued or inferred.
NoStaleDetections ==
  Unlocked /\ enabled /\ detection_frame # None => detection_frame.sequence > boundary

\* A preview pairs an image with its own detections, wherever the request is:
\* published, being queued, queued or being encoded.
PreviewPairs ==
  /\ Unlocked /\ detection_frame # None => detections = detection_frame.sequence
  /\ \A job \in {network.job, io.job} \cup {snapshots[i] : i \in DOMAIN snapshots} :
       job.preview => job.frame # None /\ job.detections = job.frame.sequence

\* A preview is answered with a frame from after the last interruption, and only
\* while inference is enabled, whenever the request was made.
PreviewFresh ==
  [][io.pc = "encode" /\ io'.pc = "reply" /\ io'.ok /\ io.job.preview
       => enabled /\ io.job.frame.sequence > boundary]_vars

\* Published frames go forward: get_detections never falls back to an earlier
\* frame, although frames are overwritten, skipped and discarded on their way.
PublishOrder ==
  [][detection_frame' \notin {detection_frame, None}
       => detection_frame'.sequence > published]_vars

\* An event is triggered by exactly those published frames that complete
\* EventConfirm consecutive ones with a person, none of them from before the last
\* interruption, and none discarded, expired or failed in between.
TriggerConfirmed ==
  [][published' # published => (triggered' = published' <=> streak' = EventConfirm)]_vars

\* Repeated inference errors pause inference only over a frame captured after the
\* last interruption: a pause never undoes a start it did not see.
PauseKeepsStart ==
  [][enabled /\ ~enabled' /\ network.pc = "idle" /\ network'.pc = "idle"
       => infer.frame.sequence > boundary]_vars

\* A requested camera restart is taken up by the capture thread while it lives.
RestartServed == restart_capture ~> (~restart_capture \/ capture.pc = "exit")

\* Once shutdown begins, or the network thread fails, every thread is joined.
ShutdownCompletes == ~running ~> (main = "down")

\* "Drain JPEG" on exit (docs/architecture.md:47): no accepted snapshot is left
\* unanswered.  False: pop and closed() are two calls of the queue, and a request
\* and the close can both fall between them.
SnapshotsDrained == main = "down" => snapshots = <<>>
===============================================================================
