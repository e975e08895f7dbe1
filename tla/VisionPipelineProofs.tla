------------------------- MODULE VisionPipelineProofs -------------------------
(***************************************************************************)
(* The generations of VisionPipeline, for every capacity, limit and number *)
(* of frames, failures and commands: the types, then the ages of the       *)
(* frames under way, and from these that no stale detections are shown or  *)
(* answered, that published frames go forward and that a pause never       *)
(* undoes a start; last, that all of it together implements LiveView.      *)
(***************************************************************************)
EXTENDS VisionPipeline, QueueOpsProofs

-------------------------------------------------------------------------------
(* Types, one thread at a time. *)

CaptureTyped ==
  /\ capture \in [pc : CapturePc, opened : BOOLEAN, failures : 0..FailureLimit,
                  frame : Frames]
  /\ ~Synthetic /\ capture.pc \in {"acquire", "stamp", "copy"} => capture.opened
  /\ capture.opened /\ capture.pc \notin {"fail_lock", "fail_clear"}
       => capture.failures < FailureLimit

InferTyped ==
  /\ infer \in [pc : InferPc, frame : Frames, generation : Nat \cup {-1},
                confirmed : 0..EventConfirm, errors : 0..ErrorLimit, person : BOOLEAN]
  /\ infer.pc \notin {"disable", "drain"} => infer.errors < ErrorLimit

RequestsTyped ==
  /\ snapshots \in Seq(Jobs) /\ Len(snapshots) <= SnapshotCapacity
  /\ network \in [pc : {"idle", "commit", "push", "exit"}, job : Jobs]
  /\ io \in [pc : {"pop", "closed", "encode", "reply", "exit"}, job : Jobs, ok : BOOLEAN]

QueueTyped == inference \in Seq(Frames) /\ Len(inference) <= QueueCapacity

ViewsTyped == latest \in Frames /\ detection_frame \in Frames /\ detections \in Nat

NumbersTyped ==
  /\ inference_epoch \in Nat /\ sequence \in Nat
  /\ disturbances \in 0..MaxDisturbances
  /\ boundary \in Nat /\ published \in Nat /\ triggered \in Nat
  /\ streak \in 0..EventConfirm

FlagsTyped ==
  /\ running \in BOOLEAN /\ enabled \in BOOLEAN /\ restart_capture \in BOOLEAN
  /\ inference_closed \in BOOLEAN /\ snapshots_closed \in BOOLEAN
  /\ mutex \in {"free", "network"} /\ main \in MainPc

Typed ==
  /\ CaptureTyped /\ InferTyped /\ RequestsTyped /\ QueueTyped
  /\ ViewsTyped /\ NumbersTyped /\ FlagsTyped

LEMMA TypedIsTypeOK == Typed => TypeOK
BY DEF Typed, TypeOK, CaptureTyped, InferTyped, RequestsTyped, QueueTyped, ViewsTyped,
       NumbersTyped, FlagsTyped

LEMMA CaptureSteps == Typed /\ CaptureLoop => CaptureTyped'
<1> SUFFICES ASSUME CaptureTyped, sequence \in Nat, inference_epoch \in Nat, CaptureLoop
             PROVE  CaptureTyped'
  BY DEF Typed, NumbersTyped
<1> USE ChoiceAssumption DEF CaptureTyped, CapturePc, Frames, None
<1>l. 0 \in 0..FailureLimit /\ 0 < FailureLimit
  BY LimitAssumption
<1>1. CASE CaptureReplay
  BY <1>1 DEF CaptureReplay, Capture
<1>2. CASE CaptureTop
  BY <1>2 DEF CaptureTop, Capture
<1>3. CASE CaptureRestart
  <2>1. CASE restart_capture
    BY <1>l, <1>3, <2>1 DEF CaptureRestart
  <2>2. CASE ~restart_capture
    BY <1>3, <2>2 DEF CaptureRestart
  <2> QED
    BY <2>1, <2>2
<1>4. CASE CaptureForget("restart_lock", "restart_clear")
  BY <1>4 DEF CaptureForget, Capture
<1>5. CASE CaptureClear("restart_clear", "open")
  BY <1>5 DEF CaptureClear
<1>6. CASE CaptureOpen
  <2>1. CASE Synthetic \/ capture.opened
    BY <1>6, <2>1 DEF CaptureOpen, Capture
  <2>2. CASE ~Synthetic /\ ~capture.opened
    <3>1. CASE capture' = [capture EXCEPT !.pc = "acquire", !.opened = TRUE, !.failures = 0]
      BY <1>l, <1>6, <2>2, <3>1 DEF CaptureOpen
    <3>2. CASE capture' = [capture EXCEPT !.pc = "top"]
      BY <1>6, <2>2, <3>2 DEF CaptureOpen
    <3> QED
      BY <1>6, <2>2, <3>1, <3>2, Zenon DEF CaptureOpen
  <2> QED
    BY <2>1, <2>2
<1>7. CASE CaptureAcquire
  BY <1>7 DEF CaptureAcquire, Capture
<1>8. CASE CaptureStamp
  BY <1>8 DEF CaptureStamp
<1>9. CASE CaptureCopied
  <2>1. capture' = [capture EXCEPT !.pc = "latest", !.failures = 0,
                                     !.frame = [capture.frame EXCEPT !.sequence = sequence + 1]]
    BY <1>9 DEF CaptureCopied
  <2>2. [capture.frame EXCEPT !.sequence = sequence + 1] \in Frames
    BY SMT
  <2> QED
    BY <1>l, <2>1, <2>2
<1>10. CASE CaptureCopyFails
  <2> DEFINE n == capture.failures + 1
  <2>1. capture.failures \in 0..FailureLimit - 1
    BY <1>10, LimitAssumption DEF CaptureCopyFails
  <2>2. CASE n >= FailureLimit
    <3>1. capture' = [capture EXCEPT !.pc = "fail_lock", !.failures = n, !.frame = None]
      BY <1>10, <2>2 DEF CaptureCopyFails
    <3>2. n \in 0..FailureLimit
      BY <2>1, LimitAssumption
    <3> QED
      BY <3>1, <3>2
  <2>3. CASE ~(n >= FailureLimit)
    <3>1. capture' = [capture EXCEPT !.pc = "top", !.failures = n, !.frame = None]
      BY <1>10, <2>3 DEF CaptureCopyFails
    <3>2. n \in 0..FailureLimit /\ n < FailureLimit
      BY <2>1, <2>3, LimitAssumption
    <3> HIDE DEF n
    <3> QED
      BY <3>1, <3>2
  <2> QED
    BY <2>2, <2>3
<1>11. CASE CaptureForget("fail_lock", "fail_clear")
  BY <1>11 DEF CaptureForget, Capture
<1>12. CASE CaptureClear("fail_clear", "top")
  BY <1>12 DEF CaptureClear
<1>13. CASE CaptureLatest
  BY <1>13 DEF CaptureLatest, Capture
<1>14. CASE CaptureOffer
  BY <1>14 DEF CaptureOffer
<1>15. CASE CapturePush
  BY <1>15 DEF CapturePush
<1> QED
  BY <1>1, <1>2, <1>3, <1>4, <1>5, <1>6, <1>7, <1>8, <1>9, <1>10, <1>11, <1>12, <1>13, <1>14,
     <1>15 DEF CaptureLoop

LEMMA InferSteps == Typed /\ InferenceLoop => InferTyped'
<1> SUFFICES ASSUME InferTyped, QueueTyped, InferenceLoop PROVE InferTyped'
  BY DEF Typed
<1> USE DEF InferTyped, InferPc, Frames, None
<1>l. /\ 0 \in 0..ErrorLimit /\ 0 < ErrorLimit /\ ErrorLimit \in Nat
      /\ 0 \in 0..EventConfirm /\ EventConfirm \in Nat
  BY LimitAssumption
<1>d. ASSUME InferDiscard, infer.pc \notin {"disable", "drain"} PROVE InferTyped'
  BY <1>l, <1>d DEF InferDiscard
<1>1. CASE InferTop
  BY <1>1 DEF InferTop
<1>2. CASE InferPopEmpty
  BY <1>2 DEF InferPopEmpty
<1>3. CASE InferPop
  <2> DEFINE f == Newest(inference)
             n == IF f.generation # infer.generation THEN 0 ELSE infer.confirmed
  <2>1. f \in Frames
    <3>1. inference # <<>> /\ inference \in Seq(Frames)
      BY <1>3 DEF InferPop, QueueTyped
    <3> QED
      BY <3>1, NewestItem, Zenon
  <2>2. f.generation \in Nat \cup {-1}
    <3>1. \A g \in Frames : g.generation \in Nat \cup {-1}
      OBVIOUS
    <3> QED
      BY <2>1, <3>1, Zenon
  <2>3. n \in 0..EventConfirm
    BY <1>l
  <2>4. infer.pc = "pop" /\ infer' = [infer EXCEPT !.pc = "check", !.frame = f,
                                        !.generation = f.generation, !.confirmed = n]
    BY <1>3 DEF InferPop
  <2> HIDE DEF f, n
  <2> QED
    BY <2>1, <2>2, <2>3, <2>4
<1>4. CASE InferCheck
  <2>1. CASE Current(infer.frame)
    BY <1>4, <2>1 DEF InferCheck
  <2>2. CASE ~Current(infer.frame)
    BY <1>4, <1>d, <2>2 DEF InferCheck
  <2> QED
    BY <2>1, <2>2
<1>5. CASE InferExpired
  BY <1>5, <1>d DEF InferExpired
<1>6. CASE InferCompletes
  BY <1>6, <1>l DEF InferCompletes
<1>7. CASE InferThrows
  <2> DEFINE n == infer.errors + 1
  <2>1. infer.errors \in 0..ErrorLimit - 1
    BY <1>7, <1>l DEF InferThrows
  <2>2. CASE n >= ErrorLimit
    <3>1. infer' = [infer EXCEPT !.pc = "disable", !.errors = n, !.confirmed = 0]
      BY <1>7, <2>2 DEF InferThrows
    <3>2. n \in 0..ErrorLimit
      BY <1>l, <2>1
    <3> HIDE DEF n
    <3> QED
      BY <1>l, <3>1, <3>2
  <2>3. CASE ~(n >= ErrorLimit)
    <3>1. infer' = [infer EXCEPT !.pc = "top", !.errors = n, !.confirmed = 0, !.frame = None]
      BY <1>7, <2>3 DEF InferThrows
    <3>2. n \in 0..ErrorLimit /\ n < ErrorLimit
      BY <1>l, <2>1, <2>3
    <3> HIDE DEF n
    <3> QED
      BY <1>l, <3>1, <3>2
  <2> QED
    BY <2>2, <2>3
<1>8. CASE InferStale
  BY <1>8, <1>d DEF InferStale
<1>9. CASE InferPublish
  <2> DEFINE n == IF infer.person THEN LeastOf(infer.confirmed + 1, EventConfirm) ELSE 0
  <2>1. n \in 0..EventConfirm
    BY <1>l DEF LeastOf
  <2>2. /\ infer.pc = "publish"
        /\ infer' = [infer EXCEPT !.pc = "top", !.frame = None, !.confirmed = n,
                                  !.person = FALSE]
    BY <1>9 DEF InferPublish
  <2> HIDE DEF n
  <2> QED
    BY <2>1, <2>2
<1>10. CASE InferDisable
  BY <1>10 DEF InferDisable
<1>11. CASE InferDrain
  BY <1>11, <1>l DEF InferDrain
<1> QED
  BY <1>1, <1>2, <1>3, <1>4, <1>5, <1>6, <1>7, <1>8, <1>9, <1>10, <1>11 DEF InferenceLoop

\* What each thread leaves alone.
LEMMA CaptureLeaves == CaptureLoop => CaptureFrame
BY DEF CaptureLoop, CaptureReplay, CaptureTop, CaptureRestart, CaptureForget, CaptureClear,
       CaptureOpen, CaptureAcquire, CaptureStamp, CaptureCopied, CaptureCopyFails,
       CaptureLatest, CaptureOffer, CapturePush, CaptureLocal

LEMMA InferLeaves == InferenceLoop => InferFrame
BY DEF InferenceLoop, InferTop, InferPopEmpty, InferPop, InferCheck, InferExpired,
       InferCompletes, InferThrows, InferStale, InferPublish, InferDisable, InferDrain,
       InferLocal

LEMMA NetworkLeaves ==
  Network => /\ UNCHANGED <<inference_closed, snapshots_closed, latest, camera, infer, io,
                            main, published, triggered>>
             /\ running' = running \/ running' = FALSE
BY DEF Network, StartStop, StartStopCommit, RestartCamera, Request, GetPreview, CaptureCommand,
       RequestPush, NetworkFails, NetworkLocal, NetworkFrame, input, jobs, views, camera,
       history

LEMMA SnapshotLeaves == SnapshotLoop => IoFrame
BY DEF SnapshotLoop, IoPop, IoClosed, IoEncode, IoReply

LEMMA MainLeaves == StopBegin \/ Stop => MainFrame
BY DEF StopBegin, Stop, CloseInference, CloseSnapshots, Join, StopLoop, StopReset

LEMMA QueueSteps == Typed /\ [Next]_vars => QueueTyped'
<1> SUFFICES ASSUME CaptureTyped, QueueTyped, [Next]_vars PROVE QueueTyped'
  BY DEF Typed
<1>1. ASSUME inference' = <<>> PROVE QueueTyped'
  BY <1>1, CapacityAssumption DEF QueueTyped
<1>2. ASSUME UNCHANGED inference PROVE QueueTyped'
  BY <1>2 DEF QueueTyped
<1>3. CASE CapturePush
  <2>1. CASE inference_closed
    BY <1>3, <1>2, <2>1 DEF CapturePush
  <2>2. CASE ~inference_closed
    <3>1. capture.frame \in Frames
      BY DEF CaptureTyped
    <3>2. inference' = AfterPushLatest(inference, QueueCapacity, capture.frame)
      BY <1>3, <2>2 DEF CapturePush
    <3>3. QueueCapacity \in Nat \ {0} /\ inference \in Seq(Frames)
          /\ Len(inference) <= QueueCapacity
      BY CapacityAssumption DEF QueueTyped
    <3> QED
      BY <3>1, <3>2, <3>3, PushLatestItems DEF QueueTyped
  <2> QED
    BY <2>1, <2>2
<1>4. CASE CaptureLoop
  <2>1. CapturePush \/ inference' = <<>> \/ UNCHANGED inference
    BY <1>4 DEF CaptureLoop, CaptureReplay, CaptureTop, CaptureRestart, CaptureForget,
                CaptureClear, CaptureOpen, CaptureAcquire, CaptureStamp, CaptureCopied,
                CaptureCopyFails, CaptureLatest, CaptureOffer
  <2> QED
    BY <1>1, <1>2, <1>3, <2>1
<1>5. CASE InferenceLoop
  <2>1. inference' = <<>> \/ UNCHANGED inference
    BY <1>5 DEF InferenceLoop, InferTop, InferPopEmpty, InferPop, InferCheck, InferExpired,
                InferCompletes, InferThrows, InferStale, InferPublish, InferDisable, InferDrain
  <2> QED
    BY <1>1, <1>2, <2>1
<1>6. CASE Network
  <2>1. inference' = <<>> \/ UNCHANGED inference
    BY <1>6 DEF Network, StartStop, StartStopCommit, RestartCamera, Request, GetPreview,
                CaptureCommand, RequestPush, NetworkFails, NetworkLocal, input
  <2> QED
    BY <1>1, <1>2, <2>1
<1>7. CASE SnapshotLoop
  BY <1>2, <1>7, SnapshotLeaves DEF IoFrame, input
<1>8. CASE StopBegin \/ Stop
  <2>1. inference' = <<>> \/ UNCHANGED inference
    BY <1>8 DEF StopBegin, Stop, CloseInference, CloseSnapshots, Join, StopLoop, StopReset, input
  <2> QED
    BY <1>1, <1>2, <2>1
<1>9. CASE UNCHANGED vars
  BY <1>2, <1>9 DEF vars, input
<1> QED
  BY <1>4, <1>5, <1>6, <1>7, <1>8, <1>9 DEF Next, Terminated

\* A job is a frame the pipeline shows, with or without its detections.
LEMMA JobTyped ==
  ASSUME NEW f \in Frames, NEW p \in BOOLEAN, NEW n \in Nat
  PROVE  [frame |-> f, preview |-> p, detections |-> n] \in Jobs
BY DEF Jobs

LEMMA NoJobTyped == NoJob \in Jobs
BY DEF Jobs, NoJob, None, Frames

LEMMA RequestSteps == Typed /\ [Next]_vars => RequestsTyped'
<1> SUFFICES ASSUME RequestsTyped, ViewsTyped, [Next]_vars PROVE RequestsTyped'
  BY DEF Typed
<1>0. ASSUME UNCHANGED <<snapshots, network, io>> PROVE RequestsTyped'
  BY <1>0 DEF RequestsTyped
<1>1. ASSUME UNCHANGED <<snapshots, io>>,
             network' \in [pc : {"idle", "commit", "push", "exit"}, job : Jobs]
      PROVE  RequestsTyped'
  BY <1>1 DEF RequestsTyped
<1>2. ASSUME NEW p \in {"idle", "commit", "push", "exit"}
      PROVE  [network EXCEPT !.pc = p] \in [pc : {"idle", "commit", "push", "exit"}, job : Jobs]
  BY DEF RequestsTyped
<1>3. ASSUME NEW job \in Jobs, NEW cmd, Request(cmd, job) PROVE RequestsTyped'
  BY <1>1, <1>3 DEF Request, NetworkLocal, NetworkFrame
<1>4. CASE RequestPush
  <2>1. network' \in [pc : {"idle", "commit", "push", "exit"}, job : Jobs] /\ io' = io
    BY <1>4, NoJobTyped DEF RequestPush, NetworkLocal, NetworkFrame
  <2>2. CASE Accepts(snapshots, SnapshotCapacity, snapshots_closed)
    <3>1. Len(snapshots) # SnapshotCapacity
      BY <2>2 DEF Accepts
    <3>2. snapshots' = Append(snapshots, network.job)
      BY <1>4, <2>2 DEF RequestPush
    <3>3. snapshots \in Seq(Jobs) /\ Len(snapshots) <= SnapshotCapacity /\ network.job \in Jobs
          /\ SnapshotCapacity \in Nat
      BY CapacityAssumption DEF RequestsTyped
    <3>4. snapshots' \in Seq(Jobs) /\ Len(snapshots') <= SnapshotCapacity
      BY <3>1, <3>2, <3>3
    <3> QED
      BY <2>1, <3>4 DEF RequestsTyped
  <2>3. CASE ~Accepts(snapshots, SnapshotCapacity, snapshots_closed)
    BY <1>1, <1>4, <2>1, <2>3 DEF RequestPush
  <2> QED
    BY <2>2, <2>3
<1>5. CASE Network
  <2>1. ASSUME NEW cmd, StartStop(cmd) PROVE RequestsTyped'
    BY <1>1, <1>2, <2>1 DEF StartStop, NetworkFrame
  <2>2. CASE StartStopCommit
    BY <1>1, <1>2, <2>2 DEF StartStopCommit, NetworkFrame
  <2>3. CASE RestartCamera
    BY <1>0, <2>3 DEF RestartCamera, NetworkLocal, NetworkFrame
  <2>4. CASE GetPreview
    BY <1>3, <2>4, JobTyped DEF GetPreview, ViewsTyped
  <2>5. CASE CaptureCommand
    BY <1>3, <2>5, JobTyped DEF CaptureCommand, ViewsTyped
  <2>6. CASE NetworkFails
    BY <1>1, <1>2, <2>6 DEF NetworkFails, jobs
  <2> QED
    BY <1>4, <1>5, <2>1, <2>2, <2>3, <2>4, <2>5, <2>6 DEF Network
<1>6. CASE SnapshotLoop
  <2>1. CASE IoPop
    <3>1. CASE snapshots = <<>>
      BY <2>1, <3>1 DEF IoPop, IoFrame, RequestsTyped
    <3>2. CASE snapshots # <<>>
      <4>1. Head(snapshots) \in Jobs /\ Tail(snapshots) \in Seq(Jobs)
            /\ Len(Tail(snapshots)) <= SnapshotCapacity
        BY <3>2, CapacityAssumption DEF RequestsTyped
      <4>2. io' = [io EXCEPT !.pc = "encode", !.job = Head(snapshots)]
            /\ snapshots' = Tail(snapshots) /\ network' = network
        BY <2>1, <3>2 DEF IoPop, IoFrame
      <4> QED
        BY <4>1, <4>2 DEF RequestsTyped
    <3> QED
      BY <3>1, <3>2
  <2>2. CASE IoClosed
    BY <2>2 DEF IoClosed, IoFrame, RequestsTyped
  <2>3. CASE IoEncode
    BY <2>3 DEF IoEncode, IoFrame, RequestsTyped
  <2>4. CASE IoReply
    BY <2>4, NoJobTyped DEF IoReply, IoFrame, RequestsTyped
  <2> QED
    BY <1>6, <2>1, <2>2, <2>3, <2>4 DEF SnapshotLoop
<1>7. CASE StopBegin \/ Stop
  <2>1. UNCHANGED <<snapshots, io>>
        /\ (network' = network \/ network' = [network EXCEPT !.pc = "exit"])
    BY <1>7 DEF StopBegin, Stop, CloseInference, CloseSnapshots, Join, StopLoop, StopReset,
                MainFrame, jobs
  <2> QED
    BY <1>0, <1>1, <1>2, <2>1
<1>8. CASE CaptureLoop
  BY <1>0, <1>8, CaptureLeaves DEF CaptureFrame, jobs
<1>9. CASE InferenceLoop
  BY <1>0, <1>9, InferLeaves DEF InferFrame, jobs
<1>10. CASE UNCHANGED vars
  BY <1>0, <1>10 DEF vars, jobs
<1> QED
  BY <1>5, <1>6, <1>7, <1>8, <1>9, <1>10 DEF Next, Terminated

LEMMA ViewSteps == Typed /\ [Next]_vars => ViewsTyped'
<1> SUFFICES ASSUME ViewsTyped, CaptureTyped, InferTyped, [Next]_vars PROVE ViewsTyped'
  BY DEF Typed
<1>n. None \in Frames
  BY DEF None, Frames
<1>0. ASSUME latest' \in {latest, None}, detection_frame' \in {detection_frame, None},
             detections' \in {detections, 0}
      PROVE  ViewsTyped'
  BY <1>0, <1>n DEF ViewsTyped
<1>1. CASE CaptureLatest
  BY <1>1 DEF CaptureLatest, CaptureLocal, ViewsTyped, CaptureTyped
<1>2. CASE InferPublish
  <2>1. infer.frame \in Frames /\ infer.frame.sequence \in Nat
    BY DEF InferTyped, Frames
  <2>2. latest' = latest /\ detection_frame' = infer.frame
        /\ detections' = infer.frame.sequence
    BY <1>2 DEF InferPublish, InferFrame
  <2> QED
    BY <2>1, <2>2 DEF ViewsTyped
<1>3. CASE CaptureLoop
  <2>1. \/ CaptureLatest
        \/ /\ latest' \in {latest, None}
           /\ detection_frame' \in {detection_frame, None} /\ detections' \in {detections, 0}
    BY <1>3 DEF CaptureLoop, CaptureReplay, CaptureTop, CaptureRestart, CaptureForget,
                CaptureClear, CaptureOpen, CaptureAcquire, CaptureStamp, CaptureCopied,
                CaptureCopyFails, CaptureOffer, CapturePush, CaptureLocal
  <2> QED
    BY <1>0, <1>1, <2>1
<1>4. CASE InferenceLoop
  <2>1. InferPublish \/ UNCHANGED <<latest, detection_frame, detections>>
    BY <1>4, InferLeaves DEF InferenceLoop, InferTop, InferPopEmpty, InferPop, InferCheck,
       InferExpired, InferCompletes, InferThrows, InferStale, InferDisable, InferDrain,
       InferLocal, InferFrame
  <2> QED
    BY <1>0, <1>2, <2>1
<1>5. CASE Network
  <2>1. latest' = latest
    BY <1>5, NetworkLeaves
  <2>2. detection_frame' \in {detection_frame, None} /\ detections' \in {detections, 0}
    BY <1>5 DEF Network, StartStop, StartStopCommit, RestartCamera, Request, GetPreview,
                CaptureCommand, RequestPush, NetworkFails, NetworkLocal, views
  <2> QED
    BY <1>0, <2>1, <2>2
<1>6. CASE SnapshotLoop
  BY <1>0, <1>6, SnapshotLeaves DEF IoFrame, views
<1>7. CASE StopBegin \/ Stop
  <2>1. latest' \in {latest, None} /\ detection_frame' \in {detection_frame, None}
        /\ detections' = detections
    BY <1>7 DEF StopBegin, Stop, CloseInference, CloseSnapshots, Join, StopLoop, StopReset,
                MainFrame
  <2> QED
    BY <1>0, <2>1
<1>8. CASE UNCHANGED vars
  BY <1>0, <1>8 DEF vars, views
<1> QED
  BY <1>3, <1>4, <1>5, <1>6, <1>7, <1>8 DEF Next, Terminated

LEMMA NumberSteps == Typed /\ [Next]_vars => NumbersTyped'
<1> SUFFICES ASSUME NumbersTyped, InferTyped, [Next]_vars PROVE NumbersTyped'
  BY DEF Typed
<1>l. 0 \in 0..EventConfirm /\ EventConfirm \in Nat /\ MaxDisturbances \in Nat
  BY LimitAssumption
<1>f. infer.frame.sequence \in Nat
  BY DEF InferTyped, Frames
<1>1. ASSUME inference_epoch' \in {inference_epoch, inference_epoch + 1},
             sequence' \in {sequence, sequence + 1},
             disturbances' = disturbances \/ Disturb,
             boundary' \in {boundary, sequence},
             published' \in {published, infer.frame.sequence},
             triggered' \in {triggered, infer.frame.sequence},
             streak' \in {streak, 0, LeastOf(streak + 1, EventConfirm)}
      PROVE  NumbersTyped'
  <2>1. inference_epoch' \in Nat /\ sequence' \in Nat /\ boundary' \in Nat
    BY <1>1 DEF NumbersTyped
  <2>2. published' \in Nat /\ triggered' \in Nat
    BY <1>1, <1>f DEF NumbersTyped
  <2>3. streak' \in 0..EventConfirm
    BY <1>1, <1>l DEF NumbersTyped, LeastOf
  <2>4. disturbances' \in 0..MaxDisturbances
    BY <1>1, <1>l DEF NumbersTyped, Disturb
  <2> QED
    BY <2>1, <2>2, <2>3, <2>4 DEF NumbersTyped
<1>2. CASE CaptureLoop
  BY <1>1, <1>2 DEF CaptureLoop, CaptureReplay, CaptureTop, CaptureRestart, CaptureForget,
     CaptureClear, CaptureOpen, CaptureAcquire, CaptureStamp, CaptureCopied, CaptureCopyFails,
     CaptureLatest, CaptureOffer, CapturePush, CaptureLocal, CaptureFrame, NewEpoch
<1>3. CASE InferenceLoop
  <2>1. CASE InferPublish
    BY <1>1, <2>1 DEF InferPublish, InferFrame, camera
  <2>2. CASE ~InferPublish
    BY <1>1, <1>3, <2>2 DEF InferenceLoop, InferTop, InferPopEmpty, InferPop, InferCheck,
       InferExpired, InferCompletes, InferThrows, InferStale, InferDisable, InferDrain,
       InferLocal, InferFrame, InferDiscard, NewEpoch, camera
  <2> QED
    BY <2>1, <2>2
<1>4. CASE Network
  BY <1>1, <1>4 DEF Network, StartStop, StartStopCommit, RestartCamera, Request, GetPreview,
     CaptureCommand, RequestPush, NetworkFails, NetworkLocal, NetworkFrame, NewEpoch, camera,
     history
<1>5. CASE SnapshotLoop
  BY <1>1, <1>5, SnapshotLeaves DEF IoFrame, camera, history
<1>6. CASE StopBegin \/ Stop
  BY <1>1, <1>6, MainLeaves DEF MainFrame, camera, history
<1>7. CASE UNCHANGED vars
  BY <1>1, <1>7 DEF vars, camera, history
<1> QED
  BY <1>2, <1>3, <1>4, <1>5, <1>6, <1>7 DEF Next, Terminated

LEMMA FlagSteps == Typed /\ [Next]_vars => FlagsTyped'
<1> SUFFICES ASSUME FlagsTyped, [Next]_vars PROVE FlagsTyped'
  BY DEF Typed
<1>1. ASSUME running' \in {running, FALSE}, enabled' \in BOOLEAN,
             restart_capture' \in {restart_capture, TRUE, FALSE},
             inference_closed' \in {inference_closed, TRUE},
             snapshots_closed' \in {snapshots_closed, TRUE},
             mutex' \in {mutex, "network", "free"}, main' \in MainPc
      PROVE  FlagsTyped'
  BY <1>1, Zenon DEF FlagsTyped
<1>2. CASE CaptureLoop
  BY <1>1, <1>2 DEF FlagsTyped, CaptureLoop, CaptureReplay, CaptureTop, CaptureRestart,
     CaptureForget, CaptureClear, CaptureOpen, CaptureAcquire, CaptureStamp, CaptureCopied,
     CaptureCopyFails, CaptureLatest, CaptureOffer, CapturePush, CaptureLocal, CaptureFrame, jobs
<1>3. CASE InferenceLoop
  <2>1. enabled' \in {enabled, FALSE}
    BY <1>3 DEF InferenceLoop, InferTop, InferPopEmpty, InferPop, InferCheck, InferExpired,
       InferCompletes, InferThrows, InferStale, InferPublish, InferDisable, InferDrain, InferLocal
  <2> QED
    BY <1>1, <1>3, <2>1, InferLeaves DEF FlagsTyped, InferFrame, jobs
<1>4. CASE Network
  <2>1. mutex' \in {mutex, "network", "free"}
    BY <1>4 DEF Network, StartStop, StartStopCommit, RestartCamera, Request, GetPreview,
       CaptureCommand, RequestPush, NetworkFails, NetworkLocal
  <2>2. restart_capture' \in {restart_capture, TRUE}
    BY <1>4 DEF Network, StartStop, StartStopCommit, RestartCamera, Request, GetPreview,
       CaptureCommand, RequestPush, NetworkFails
  <2>3. ASSUME NEW cmd, StartStop(cmd) PROVE enabled' \in BOOLEAN
    BY <2>3 DEF StartStop
  <2>4. (\E cmd \in {"start", "stop"} : StartStop(cmd)) \/ enabled' = enabled
    BY <1>4 DEF Network, StartStopCommit, RestartCamera, Request, GetPreview, CaptureCommand,
       RequestPush, NetworkFails, NetworkLocal
  <2>5. enabled' \in BOOLEAN
    BY <2>3, <2>4 DEF FlagsTyped
  <2> QED
    BY <1>1, <1>4, <2>1, <2>2, <2>5, NetworkLeaves DEF FlagsTyped
<1>5. CASE SnapshotLoop
  BY <1>1, <1>5, SnapshotLeaves DEF IoFrame, flags, input, FlagsTyped
<1>6. CASE StopBegin \/ Stop
  BY <1>1, <1>6 DEF FlagsTyped, StopBegin, Stop, CloseInference, CloseSnapshots, Join, StopLoop,
     StopReset, Main, MainFrame, MainPc, input, jobs
<1>7. CASE UNCHANGED vars
  BY <1>7 DEF FlagsTyped, vars, flags, input, jobs
<1> QED
  BY <1>2, <1>3, <1>4, <1>5, <1>6, <1>7 DEF Next, Terminated

LEMMA TypedInitially == Init => Typed
<1> SUFFICES ASSUME Init PROVE Typed
  OBVIOUS
<1> USE DEF Init, None, Frames
<1>l. /\ 0 \in 0..FailureLimit /\ 0 \in 0..ErrorLimit /\ 0 < ErrorLimit /\ 0 \in 0..EventConfirm
      /\ 0 \in 0..MaxDisturbances /\ 0 <= QueueCapacity /\ 0 <= SnapshotCapacity
  BY LimitAssumption, CapacityAssumption
<1>1. CaptureTyped
  BY <1>l DEF CaptureTyped, CapturePc
<1>2. InferTyped
  BY <1>l DEF InferTyped, InferPc
<1>3. RequestsTyped
  BY <1>l, NoJobTyped DEF RequestsTyped
<1>4. QueueTyped
  BY <1>l DEF QueueTyped
<1>5. ViewsTyped
  BY DEF ViewsTyped
<1>6. NumbersTyped
  BY <1>l DEF NumbersTyped
<1>7. FlagsTyped
  BY Zenon DEF FlagsTyped, MainPc
<1> QED
  BY <1>1, <1>2, <1>3, <1>4, <1>5, <1>6, <1>7 DEF Typed

LEMMA TypedInductive == Typed /\ [Next]_vars => Typed'
<1> SUFFICES ASSUME Typed, [Next]_vars PROVE Typed'
  OBVIOUS
<1>1. CaptureTyped'
  <2>1. CASE CaptureLoop
    BY <2>1, CaptureSteps
  <2>2. CASE UNCHANGED capture
    BY <2>2 DEF Typed, CaptureTyped
  <2> QED
    BY <2>1, <2>2, InferLeaves, NetworkLeaves, SnapshotLeaves, MainLeaves
    DEF Next, Terminated, InferFrame, IoFrame, MainFrame, camera, vars
<1>2. InferTyped'
  <2>1. CASE InferenceLoop
    BY <2>1, InferSteps
  <2>2. CASE UNCHANGED infer
    BY <2>2 DEF Typed, InferTyped
  <2> QED
    BY <2>1, <2>2, CaptureLeaves, NetworkLeaves, SnapshotLeaves, MainLeaves
    DEF Next, Terminated, CaptureFrame, IoFrame, MainFrame, vars
<1> QED
  BY <1>1, <1>2, RequestSteps, QueueSteps, ViewSteps, NumberSteps, FlagSteps DEF Typed

\* The pipeline stays in the states its types have names for: queues within their
\* capacity, the failure and error counts within their limits.
THEOREM TypeCorrect == Spec => []TypeOK
<1>1. Spec => []Typed
  BY TypedInitially, TypedInductive, PTL DEF Spec
<1> QED
  BY <1>1, TypedIsTypeOK, PTL

-------------------------------------------------------------------------------
(* Ages: a frame of the current generation is newer than the last              *)
(* interruption, wherever it is.                                               *)

FreshAt(f, epoch, bound, last) ==
  /\ f.generation <= epoch /\ f.sequence <= last
  /\ f.generation = epoch => f.sequence > bound

Fresh(f) == FreshAt(f, inference_epoch, boundary, sequence)
FreshNext(f) == FreshAt(f, inference_epoch', boundary', sequence')

CaptureAges ==
  /\ boundary <= sequence
  /\ capture.pc = "copy" => capture.frame.generation <= inference_epoch
  /\ capture.pc \in {"latest", "offer", "push"} => Fresh(capture.frame)

QueueAges == \A i \in 1..Len(inference) : Fresh(inference[i])

InferAges == infer.pc \in {"check", "run", "publish", "disable"} => Fresh(infer.frame)

ViewAges == detection_frame # None => Fresh(detection_frame)

RequestAges ==
  /\ \A i \in 1..Len(snapshots) : snapshots[i].preview => Fresh(snapshots[i].frame)
  /\ network.job.preview => Fresh(network.job.frame)
  /\ io.job.preview => Fresh(io.job.frame)

Ages == CaptureAges /\ QueueAges /\ InferAges /\ ViewAges /\ RequestAges /\ NoStaleDetections

\* Time goes on in two ways: another frame is copied, or a new generation begins
\* behind the frames copied so far.
LEMMA Clock ==
  Typed /\ [Next]_vars =>
    \/ UNCHANGED <<inference_epoch, boundary>> /\ sequence' \in {sequence, sequence + 1}
    \/ inference_epoch' = inference_epoch + 1 /\ boundary' = sequence /\ sequence' = sequence
<1> DEFINE Ticks ==
      \/ UNCHANGED <<inference_epoch, boundary>> /\ sequence' \in {sequence, sequence + 1}
      \/ inference_epoch' = inference_epoch + 1 /\ boundary' = sequence /\ sequence' = sequence
<1> SUFFICES ASSUME Typed, [Next]_vars PROVE Ticks
  OBVIOUS
<1>1. CASE CaptureLoop
  BY <1>1 DEF CaptureLoop, CaptureReplay, CaptureTop, CaptureRestart, CaptureForget,
     CaptureClear, CaptureOpen, CaptureAcquire, CaptureStamp, CaptureCopied, CaptureCopyFails,
     CaptureLatest, CaptureOffer, CapturePush, CaptureLocal, NewEpoch
<1>2. CASE InferenceLoop
  <2>1. UNCHANGED <<inference_epoch, boundary>> \/ NewEpoch
    BY <1>2 DEF InferenceLoop, InferTop, InferPopEmpty, InferPop, InferCheck, InferExpired,
       InferCompletes, InferThrows, InferStale, InferPublish, InferDisable, InferDrain, InferLocal
  <2> QED
    BY <1>2, <2>1, InferLeaves DEF InferFrame, camera, NewEpoch
<1>3. CASE Network
  <2>1. UNCHANGED <<inference_epoch, boundary>> \/ NewEpoch
    BY <1>3 DEF Network, StartStop, StartStopCommit, RestartCamera, Request, GetPreview,
       CaptureCommand, RequestPush, NetworkFails, NetworkLocal, history
  <2> QED
    BY <1>3, <2>1, NetworkLeaves DEF camera, NewEpoch
<1>4. CASE SnapshotLoop
  BY <1>4, SnapshotLeaves DEF IoFrame, camera, history
<1>5. CASE StopBegin \/ Stop
  BY <1>5, MainLeaves DEF MainFrame, camera, history
<1>6. CASE UNCHANGED vars
  BY <1>6 DEF vars, camera, history
<1> QED
  BY <1>1, <1>2, <1>3, <1>4, <1>5, <1>6 DEF Next, Terminated

\* A fresh frame stays fresh: a new generation leaves it behind for good.
LEMMA Aging ==
  ASSUME Typed, boundary <= sequence, [Next]_vars, NEW f \in Frames, Fresh(f)
  PROVE  FreshNext(f)
<1>1. f.generation \in Nat /\ f.sequence \in Nat
  BY DEF Frames
<1>2. inference_epoch \in Nat /\ boundary \in Nat /\ sequence \in Nat
  BY DEF Typed, NumbersTyped
<1>3. CASE UNCHANGED <<inference_epoch, boundary>> /\ sequence' \in {sequence, sequence + 1}
  BY <1>1, <1>2, <1>3 DEF Fresh, FreshNext, FreshAt
<1>4. CASE inference_epoch' = inference_epoch + 1 /\ boundary' = sequence /\ sequence' = sequence
  BY <1>1, <1>2, <1>4 DEF Fresh, FreshNext, FreshAt
<1> QED
  BY <1>3, <1>4, Clock

LEMMA CaptureAging == Typed /\ Ages /\ [Next]_vars => CaptureAges'
<1> SUFFICES ASSUME Typed, CaptureAges, [Next]_vars PROVE CaptureAges'
  BY DEF Ages
<1>n. inference_epoch \in Nat /\ boundary \in Nat /\ sequence \in Nat /\ capture.frame \in Frames
      /\ capture.frame.generation \in Nat
  BY DEF Typed, NumbersTyped, CaptureTyped, Frames
<1>1. boundary' <= sequence' /\ inference_epoch <= inference_epoch' /\ inference_epoch' \in Nat
  BY <1>n, Clock DEF CaptureAges
<1>2. Fresh(capture.frame) => FreshNext(capture.frame)
  BY <1>n, Aging DEF CaptureAges
<1>3. ASSUME capture'.pc \in {"latest", "offer", "push"} =>
               capture.pc \in {"latest", "offer", "push"} /\ capture'.frame = capture.frame,
             capture'.pc = "copy" =>
               capture.pc = "copy" /\ capture'.frame = capture.frame
      PROVE  CaptureAges'
  <2>1. capture'.pc = "copy" => capture'.frame.generation <= inference_epoch'
    BY <1>n, <1>1, <1>3 DEF CaptureAges
  <2>2. capture'.pc \in {"latest", "offer", "push"} => FreshNext(capture'.frame)
    BY <1>2, <1>3 DEF CaptureAges
  <2> QED
    BY <1>1, <2>1, <2>2 DEF CaptureAges, Fresh, FreshNext
<1>4. ASSUME UNCHANGED capture PROVE CaptureAges'
  BY <1>3, <1>4
<1>5. CASE CaptureLoop
  <2> USE DEF Typed, CaptureTyped, Frames
  <2>1. CASE CaptureStamp
    <3>1. capture'.pc = "copy" /\ capture'.frame.generation = inference_epoch
          /\ inference_epoch' = inference_epoch
      BY <2>1 DEF CaptureStamp, CaptureLocal
    <3> QED
      BY <1>n, <1>1, <3>1 DEF CaptureAges
  <2>2. CASE CaptureCopied
    <3>1. /\ capture'.pc = "latest" /\ capture'.frame.sequence = sequence + 1
          /\ capture'.frame.generation = capture.frame.generation
          /\ capture.frame.generation <= inference_epoch
      BY <2>2 DEF CaptureCopied, CaptureAges
    <3>2. UNCHANGED <<inference_epoch, boundary>> /\ sequence' = sequence + 1
      BY <2>2 DEF CaptureCopied, CaptureLocal
    <3>3. FreshNext(capture'.frame)
      BY <1>n, <3>1, <3>2 DEF CaptureAges, FreshNext, FreshAt
    <3> QED
      BY <1>1, <3>1, <3>3 DEF CaptureAges, Fresh, FreshNext
  <2>3. CASE CaptureLatest
    BY <1>3, <2>3 DEF CaptureLatest, Capture
  <2>4. CASE CaptureOffer
    BY <1>3, <2>4 DEF CaptureOffer
  <2>5. ASSUME capture'.pc \notin {"copy", "latest", "offer", "push"} PROVE CaptureAges'
    BY <1>3, <2>5
  <2>6. CASE CaptureReplay \/ CaptureTop \/ CaptureAcquire
    BY <2>5, <2>6 DEF CaptureReplay, CaptureTop, CaptureAcquire, Capture
  <2>7. CASE CaptureRestart
    BY <2>5, <2>7 DEF CaptureRestart
  <2>8. CASE CaptureOpen
    BY <2>5, <2>8 DEF CaptureOpen, Capture
  <2>11. CASE CaptureCopyFails
    <3>1. capture'.pc \in {"fail_lock", "top"}
      BY <2>11 DEF CaptureCopyFails
    <3> QED
      BY <2>5, <3>1
  <2>9. CASE CapturePush
    BY <2>5, <2>9 DEF CapturePush
  <2>10. CASE \/ CaptureForget("restart_lock", "restart_clear")
              \/ CaptureForget("fail_lock", "fail_clear")
              \/ CaptureClear("restart_clear", "open") \/ CaptureClear("fail_clear", "top")
    BY <2>5, <2>10 DEF CaptureForget, CaptureClear, Capture
  <2> QED
    BY <1>5, <2>1, <2>2, <2>3, <2>4, <2>6, <2>7, <2>8, <2>9, <2>10,
       <2>11 DEF CaptureLoop
<1> QED
  BY <1>4, <1>5, InferLeaves, NetworkLeaves, SnapshotLeaves, MainLeaves
  DEF Next, Terminated, InferFrame, IoFrame, MainFrame, camera, vars

LEMMA QueueAging == Typed /\ Ages /\ [Next]_vars => QueueAges'
<1> SUFFICES ASSUME Typed, CaptureAges, QueueAges, [Next]_vars PROVE QueueAges'
  BY DEF Ages
<1> DEFINE FreshThen(q) == \A i \in 1..Len(q) : FreshNext(q[i])
<1>q. inference \in Seq(Frames) /\ Len(inference) \in Nat
  BY DEF Typed, QueueTyped
<1>k. ASSUME NEW f \in Frames, Fresh(f) PROVE FreshNext(f)
  BY <1>k, Aging DEF CaptureAges
<1>0. FreshThen(inference)
  <2>1. ASSUME NEW i \in 1..Len(inference) PROVE FreshNext(inference[i])
    <3>1. inference[i] \in Frames /\ Fresh(inference[i])
      BY <1>q DEF QueueAges
    <3> QED
      BY <1>k, <3>1
  <2> QED
    BY <2>1
<1>1. ASSUME FreshThen(inference') PROVE QueueAges'
  BY <1>1 DEF QueueAges, Fresh, FreshNext
<1>2. FreshThen(<<>>)
  OBVIOUS
<1>3. CASE inference' \in {inference, <<>>}
  BY <1>0, <1>1, <1>2, <1>3
<1>4. CASE CapturePush
  <2>1. CASE inference_closed
    BY <1>3, <1>4, <2>1 DEF CapturePush
  <2>2. CASE ~inference_closed
    <3>1. capture.frame \in Frames /\ FreshNext(capture.frame)
      BY <1>4, <1>k DEF Typed, CaptureTyped, CaptureAges, CapturePush
    <3>2. inference' = AfterPushLatest(inference, QueueCapacity, capture.frame)
      BY <1>4, <2>2 DEF CapturePush
    <3>3. QueueCapacity \in Nat \ {0} /\ Len(inference) <= QueueCapacity
      BY CapacityAssumption DEF Typed, QueueTyped
    <3>4. Kept(inference, capture.frame, inference')
      BY <1>q, <3>1, <3>2, <3>3, PushLatestKeeps
    <3>5. ASSUME NEW i \in 1..Len(inference') PROVE FreshNext(inference'[i])
      <4>1. CASE i = Len(inference')
        BY <3>1, <3>4, <4>1 DEF Kept
      <4>2. CASE i # Len(inference')
        <5>1. i \in 1..Len(inference') - 1
          BY <1>q, <3>4, <3>5, <4>2 DEF Kept
        <5>2. \E j \in 1..Len(inference) : inference'[i] = inference[j]
          BY <3>4, <5>1 DEF Kept
        <5> QED
          BY <1>0, <5>2
      <4> QED
        BY <4>1, <4>2
    <3> QED
      BY <1>1, <3>5
  <2> QED
    BY <2>1, <2>2
<1>5. CASE CaptureLoop
  <2>1. CapturePush \/ inference' \in {inference, <<>>}
    BY <1>5 DEF CaptureLoop, CaptureReplay, CaptureTop, CaptureRestart, CaptureForget,
       CaptureClear, CaptureOpen, CaptureAcquire, CaptureStamp, CaptureCopied, CaptureCopyFails,
       CaptureLatest, CaptureOffer
  <2> QED
    BY <1>3, <1>4, <2>1
<1>6. CASE InferenceLoop
  <2>1. inference' \in {inference, <<>>}
    BY <1>6 DEF InferenceLoop, InferTop, InferPopEmpty, InferPop, InferCheck, InferExpired,
       InferCompletes, InferThrows, InferStale, InferPublish, InferDisable, InferDrain
  <2> QED
    BY <1>3, <2>1
<1>7. CASE Network
  <2>1. inference' \in {inference, <<>>}
    BY <1>7 DEF Network, StartStop, StartStopCommit, RestartCamera, Request, GetPreview,
       CaptureCommand, RequestPush, NetworkFails, NetworkLocal, input
  <2> QED
    BY <1>3, <2>1
<1>8. CASE SnapshotLoop
  BY <1>3, <1>8, SnapshotLeaves DEF IoFrame, input
<1>9. CASE StopBegin \/ Stop
  <2>1. inference' \in {inference, <<>>}
    BY <1>9 DEF StopBegin, Stop, CloseInference, CloseSnapshots, Join, StopLoop, StopReset, input
  <2> QED
    BY <1>3, <2>1
<1>10. CASE UNCHANGED vars
  BY <1>3, <1>10 DEF vars, input
<1> QED
  BY <1>5, <1>6, <1>7, <1>8, <1>9, <1>10 DEF Next, Terminated

LEMMA InferAging == Typed /\ Ages /\ [Next]_vars => InferAges'
<1> SUFFICES ASSUME Typed, CaptureAges, QueueAges, InferAges, [Next]_vars PROVE InferAges'
  BY DEF Ages
<1> DEFINE Holding == infer.pc \in {"check", "run", "publish", "disable"}
<1>k. ASSUME NEW f \in Frames, Fresh(f) PROVE FreshNext(f)
  BY <1>k, Aging DEF CaptureAges
<1>1. ASSUME infer'.pc \in {"check", "run", "publish", "disable"} =>
               Holding /\ infer'.frame = infer.frame
      PROVE  InferAges'
  <2>1. infer.frame \in Frames
    BY DEF Typed, InferTyped
  <2>2. Holding => FreshNext(infer.frame)
    BY <1>k, <2>1 DEF InferAges
  <2> QED
    BY <1>1, <2>2 DEF InferAges, Fresh, FreshNext
<1>2. CASE InferenceLoop
  <2> USE DEF Typed, InferTyped
  <2>1. ASSUME infer'.pc \notin {"check", "run", "publish", "disable"} PROVE InferAges'
    BY <1>1, <2>1
  <2>2. CASE InferTop \/ InferPopEmpty \/ InferDrain
    BY <2>1, <2>2 DEF InferTop, InferPopEmpty, InferDrain
  <2>3. CASE InferPop
    <3>1. inference # <<>> /\ inference \in Seq(Frames)
      BY <2>3 DEF InferPop, QueueTyped
    <3>2. Newest(inference) \in Frames /\ Fresh(Newest(inference))
      <4>1. Newest(inference) \in Frames
        BY <3>1, NewestItem, Zenon
      <4>2. \E i \in 1..Len(inference) : Newest(inference) = inference[i]
        BY <3>1, NewestItem, Zenon
      <4> QED
        BY <4>1, <4>2 DEF QueueAges
    <3>3. infer'.frame = Newest(inference)
      BY <2>3 DEF InferPop
    <3> QED
      BY <1>k, <3>2, <3>3 DEF InferAges, Fresh, FreshNext
  <2>4. ASSUME InferDiscard PROVE InferAges'
    BY <2>1, <2>4 DEF InferDiscard
  <2>5. CASE InferCheck
    <3>1. InferDiscard \/ (infer.pc = "check" /\ infer' = [infer EXCEPT !.pc = "run"])
      BY <2>5 DEF InferCheck
    <3> QED
      BY <1>1, <2>4, <3>1
  <2>6. CASE InferExpired \/ InferStale
    BY <2>4, <2>6 DEF InferExpired, InferStale
  <2>7. CASE InferCompletes
    BY <1>1, <2>7 DEF InferCompletes
  <2>8. CASE InferThrows
    <3>1. CASE infer.errors + 1 >= ErrorLimit
      BY <1>1, <2>8, <3>1 DEF InferThrows
    <3>2. CASE ~(infer.errors + 1 >= ErrorLimit)
      <4>1. infer'.pc = "top"
        BY <2>8, <3>2 DEF InferThrows
      <4> QED
        BY <2>1, <4>1
    <3> QED
      BY <3>1, <3>2
  <2>9. CASE InferPublish
    <3>1. infer'.pc = "top"
      BY <2>9 DEF InferPublish
    <3> QED
      BY <2>1, <3>1
  <2>10. CASE InferDisable
    <3>1. infer'.pc = "drain"
      BY <2>10 DEF InferDisable
    <3> QED
      BY <2>1, <3>1
  <2> QED
    BY <1>2, <2>2, <2>3, <2>5, <2>6, <2>7, <2>8, <2>9, <2>10 DEF InferenceLoop
<1>3. CASE UNCHANGED infer
  BY <1>1, <1>3
<1> QED
  BY <1>2, <1>3, CaptureLeaves, NetworkLeaves, SnapshotLeaves, MainLeaves
  DEF Next, Terminated, CaptureFrame, IoFrame, MainFrame, vars

\* What happens to the published frame: replaced by the inferred one, taken back,
\* or left alone.
LEMMA ViewChange ==
  Typed /\ [Next]_vars =>
    \/ InferPublish
    \/ detection_frame' = None
    \/ /\ detection_frame' = detection_frame
       /\ inference_epoch' = inference_epoch \/ mutex' = "network" \/ ~enabled'
       /\ mutex' = mutex \/ mutex' = "network"
       /\ enabled' = enabled \/ mutex' = "network" \/ ~enabled'
<1> DEFINE Leave == /\ detection_frame' = detection_frame
                    /\ inference_epoch' = inference_epoch \/ mutex' = "network" \/ ~enabled'
                    /\ mutex' = mutex \/ mutex' = "network"
                    /\ enabled' = enabled \/ mutex' = "network" \/ ~enabled'
<1> SUFFICES ASSUME Typed, [Next]_vars
             PROVE  InferPublish \/ detection_frame' = None \/ Leave
  OBVIOUS
<1>1. ASSUME UNCHANGED <<detection_frame, inference_epoch, mutex, enabled>> PROVE Leave
  BY <1>1
<1>2. CASE CaptureLoop
  <2>1. detection_frame' = None \/ UNCHANGED <<detection_frame, inference_epoch>>
    BY <1>2 DEF CaptureLoop, CaptureReplay, CaptureTop, CaptureRestart, CaptureForget,
       CaptureClear, CaptureOpen, CaptureAcquire, CaptureStamp, CaptureCopied, CaptureCopyFails,
       CaptureLatest, CaptureOffer, CapturePush, CaptureLocal
  <2> QED
    BY <1>1, <1>2, <2>1, CaptureLeaves DEF CaptureFrame
<1>3. CASE InferDisable
  <2>1. detection_frame' = detection_frame /\ mutex' = mutex
    BY <1>3 DEF InferDisable, InferFrame
  <2>2. UNCHANGED <<inference_epoch, enabled>> \/ enabled' = FALSE
    BY <1>3 DEF InferDisable
  <2> QED
    BY <1>1, <2>1, <2>2
<1>4. CASE InferenceLoop
  <2>1. InferPublish \/ InferDisable \/ UNCHANGED <<detection_frame, inference_epoch, enabled>>
    BY <1>4 DEF InferenceLoop, InferTop, InferPopEmpty, InferPop, InferCheck, InferExpired,
       InferCompletes, InferThrows, InferStale, InferDrain, InferLocal
  <2> QED
    BY <1>1, <1>3, <1>4, <2>1, InferLeaves DEF InferFrame
<1>5. CASE Network
  <2>1. ASSUME NEW cmd, StartStop(cmd) PROVE Leave
    BY <2>1 DEF StartStop
  <2>2. CASE StartStopCommit
    BY <2>2 DEF StartStopCommit
  <2>3. \/ \E cmd \in {"start", "stop"} : StartStop(cmd)
        \/ StartStopCommit
        \/ UNCHANGED <<detection_frame, inference_epoch, mutex, enabled>>
    BY <1>5 DEF Network, RestartCamera, Request, GetPreview, CaptureCommand, RequestPush,
       NetworkFails, NetworkLocal, views
  <2> QED
    BY <1>1, <2>1, <2>2, <2>3
<1>6. CASE SnapshotLoop
  BY <1>1, <1>6, SnapshotLeaves DEF IoFrame, views, flags
<1>7. CASE StopBegin \/ Stop
  <2>1. detection_frame' = None \/ detection_frame' = detection_frame
    BY <1>7 DEF StopBegin, Stop, CloseInference, CloseSnapshots, Join, StopLoop, StopReset
  <2> QED
    BY <1>1, <1>7, <2>1, MainLeaves DEF MainFrame
<1>8. CASE UNCHANGED vars
  BY <1>1, <1>8 DEF vars, views, flags
<1> QED
  BY <1>2, <1>4, <1>5, <1>6, <1>7, <1>8 DEF Next, Terminated

LEMMA ViewAging == Typed /\ Ages /\ [Next]_vars => ViewAges' /\ NoStaleDetections'
<1> SUFFICES ASSUME Typed, CaptureAges, InferAges, ViewAges, NoStaleDetections, [Next]_vars
             PROVE  ViewAges' /\ NoStaleDetections'
  BY DEF Ages
<1>k. ASSUME NEW f \in Frames, Fresh(f) PROVE FreshNext(f)
  BY <1>k, Aging DEF CaptureAges
<1>n. inference_epoch \in Nat /\ boundary \in Nat /\ sequence \in Nat
      /\ detection_frame \in Frames /\ infer.frame \in Frames
  BY DEF Typed, NumbersTyped, ViewsTyped, InferTyped
<1>1. CASE InferPublish
  <2>1. /\ infer.pc = "publish" /\ infer.frame.generation = inference_epoch
        /\ detection_frame' = infer.frame
        /\ UNCHANGED <<inference_epoch, boundary>>
    BY <1>1 DEF InferPublish, Current
  <2>2. Fresh(infer.frame)
    BY <2>1 DEF InferAges
  <2>3. infer.frame.sequence > boundary
    BY <2>1, <2>2 DEF Fresh, FreshAt
  <2>4. FreshNext(detection_frame')
    BY <1>k, <1>n, <2>1, <2>2
  <2> QED
    BY <2>1, <2>3, <2>4 DEF ViewAges, NoStaleDetections, Fresh, FreshNext
<1>2. CASE detection_frame' = None
  BY <1>2 DEF ViewAges, NoStaleDetections
<1>3. CASE /\ detection_frame' = detection_frame
           /\ inference_epoch' = inference_epoch \/ mutex' = "network" \/ ~enabled'
           /\ mutex' = mutex \/ mutex' = "network"
           /\ enabled' = enabled \/ mutex' = "network" \/ ~enabled'
  <2>1. ViewAges'
    BY <1>3, <1>k, <1>n DEF ViewAges, Fresh, FreshNext
  <2>2. ASSUME mutex' = "free", enabled', detection_frame' # None
        PROVE  detection_frame'.sequence > boundary'
    <3>1. mutex = "free" /\ enabled /\ inference_epoch' = inference_epoch
      BY <1>3, <2>2
    <3>2. detection_frame.sequence > boundary
      BY <1>3, <2>2, <3>1 DEF NoStaleDetections, Unlocked
    <3>3. boundary' = boundary
      BY <1>n, <3>1, Clock
    <3> QED
      BY <1>3, <3>2, <3>3
  <2> QED
    BY <2>1, <2>2 DEF NoStaleDetections, Unlocked
<1> QED
  BY <1>1, <1>2, <1>3, ViewChange

\* A job of before the step, one without detections, or one made of what is shown.
Known(job) ==
  \/ job \in {network.job, io.job}
  \/ \E i \in 1..Len(snapshots) : job = snapshots[i]
  \/ ~job.preview
  \/ detection_frame # None /\ job.frame = detection_frame /\ job.detections = detections

KnownNext ==
  /\ Known(network'.job) /\ Known(io'.job)
  /\ \A i \in 1..Len(snapshots') : Known(snapshots'[i])

LEMMA JobsMove == Typed /\ [Next]_vars => KnownNext
<1> SUFFICES ASSUME Typed, [Next]_vars PROVE KnownNext
  OBVIOUS
<1>n. snapshots \in Seq(Jobs)
  BY DEF Typed, RequestsTyped
<1>o. Known(network.job) /\ Known(io.job) /\ \A i \in 1..Len(snapshots) : Known(snapshots[i])
  BY DEF Known
<1>e. Known(NoJob)
  BY DEF Known, NoJob
<1>1. ASSUME Known(network'.job), UNCHANGED <<snapshots, io>> PROVE KnownNext
  BY <1>1, <1>o DEF KnownNext
<1>2. ASSUME network'.job = network.job, UNCHANGED <<snapshots, io>> PROVE KnownNext
  BY <1>1, <1>2, <1>o
<1>3. CASE Network
  <2>1. CASE GetPreview
    <3>1. /\ network'.job = [frame |-> detection_frame, preview |-> TRUE,
                             detections |-> detections]
          /\ network'.job.frame # None /\ UNCHANGED <<snapshots, io>>
      BY <2>1 DEF GetPreview, Request, NetworkLocal, NetworkFrame
    <3>2. Known(network'.job)
      BY <3>1 DEF Known
    <3> QED
      BY <1>1, <3>1, <3>2
  <2>2. CASE CaptureCommand
    <3>1. ~network'.job.preview /\ UNCHANGED <<snapshots, io>>
      BY <2>2 DEF CaptureCommand, Request, NetworkLocal, NetworkFrame
    <3> QED
      BY <1>1, <3>1 DEF Known
  <2>3. CASE RequestPush
    <3>1. network'.job = NoJob /\ io' = io
      BY <2>3 DEF RequestPush, NetworkLocal, NetworkFrame
    <3>2. ASSUME NEW i \in 1..Len(snapshots') PROVE Known(snapshots'[i])
      <4>1. CASE snapshots' = snapshots
        BY <1>o, <3>2, <4>1
      <4>2. CASE snapshots' = Append(snapshots, network.job)
        <5>1. snapshots'[i] = network.job \/ \E j \in 1..Len(snapshots) : snapshots'[i] = snapshots[j]
          BY <1>n, <3>2, <4>2
        <5> QED
          BY <5>1 DEF Known
      <4> QED
        BY <2>3, <4>1, <4>2 DEF RequestPush
    <3> QED
      BY <1>e, <1>o, <3>1, <3>2 DEF KnownNext
  <2>4. ASSUME NEW p, network' = [network EXCEPT !.pc = p], UNCHANGED <<snapshots, io>>
        PROVE  KnownNext
    <3>1. network'.job = network.job
      BY <2>4 DEF Typed, RequestsTyped
    <3> QED
      BY <1>2, <2>4, <3>1
  <2>5. ASSUME NEW cmd, StartStop(cmd) PROVE KnownNext
    BY <2>4, <2>5 DEF StartStop, NetworkFrame
  <2>6. CASE StartStopCommit
    BY <2>4, <2>6 DEF StartStopCommit, NetworkFrame
  <2>7. CASE RestartCamera
    BY <1>2, <2>7 DEF RestartCamera, NetworkLocal, NetworkFrame
  <2>8. CASE NetworkFails
    BY <2>4, <2>8 DEF NetworkFails, jobs
  <2> QED
    BY <1>3, <2>1, <2>2, <2>3, <2>5, <2>6, <2>7, <2>8 DEF Network
<1>4. CASE SnapshotLoop
  <2>0. network'.job = network.job
    BY <1>4, SnapshotLeaves DEF IoFrame
  <2>1. CASE IoPop
    <3>1. CASE snapshots = <<>>
      <4>1. io'.job = io.job /\ snapshots' = snapshots
        BY <2>1, <3>1 DEF IoPop, Typed, RequestsTyped
      <4> QED
        BY <1>o, <2>0, <4>1 DEF KnownNext
    <3>2. CASE snapshots # <<>>
      <4>1. io'.job = Head(snapshots) /\ snapshots' = Tail(snapshots)
        BY <2>1, <3>2 DEF IoPop, Typed, RequestsTyped
      <4>2. Head(snapshots) = snapshots[1] /\ 1 \in 1..Len(snapshots)
        BY <1>n, <3>2
      <4>3. \A i \in 1..Len(Tail(snapshots)) :
              Tail(snapshots)[i] = snapshots[i + 1] /\ i + 1 \in 1..Len(snapshots)
        BY <1>n, <3>2
      <4> QED
        BY <1>o, <2>0, <4>1, <4>2, <4>3 DEF KnownNext
    <3> QED
      BY <3>1, <3>2
  <2>2. CASE IoClosed \/ IoEncode
    <3>1. io'.job = io.job /\ snapshots' = snapshots
      BY <2>2 DEF IoClosed, IoEncode, Typed, RequestsTyped
    <3> QED
      BY <1>o, <2>0, <3>1 DEF KnownNext
  <2>3. CASE IoReply
    <3>1. io'.job = NoJob /\ snapshots' = snapshots
      BY <2>3 DEF IoReply
    <3> QED
      BY <1>e, <1>o, <2>0, <3>1 DEF KnownNext
  <2> QED
    BY <1>4, <2>1, <2>2, <2>3 DEF SnapshotLoop
<1>5. CASE StopBegin \/ Stop
  <2>1. UNCHANGED <<snapshots, io>>
    BY <1>5 DEF StopBegin, Stop, CloseInference, CloseSnapshots, Join, StopLoop, StopReset,
       MainFrame, jobs
  <2>2. network'.job = network.job
    BY <1>5 DEF StopBegin, Stop, CloseInference, CloseSnapshots, Join, StopLoop, StopReset,
       Typed, RequestsTyped
  <2> QED
    BY <1>2, <2>1, <2>2
<1>6. CASE CaptureLoop
  BY <1>2, <1>6, CaptureLeaves DEF CaptureFrame, jobs
<1>7. CASE InferenceLoop
  BY <1>2, <1>7, InferLeaves DEF InferFrame, jobs
<1>8. CASE UNCHANGED vars
  BY <1>2, <1>8 DEF vars, jobs
<1> QED
  BY <1>3, <1>4, <1>5, <1>6, <1>7, <1>8 DEF Next, Terminated

LEMMA RequestAging == Typed /\ Ages /\ [Next]_vars => RequestAges'
<1> SUFFICES ASSUME Typed, Ages, [Next]_vars PROVE RequestAges'
  OBVIOUS
<1>1. ASSUME NEW job \in Jobs, Known(job), job.preview PROVE FreshNext(job.frame)
  <2>1. job.frame \in Frames
    BY DEF Jobs
  <2>2. Fresh(job.frame)
    BY <1>1 DEF Known, Ages, ViewAges, RequestAges
  <2> QED
    BY <2>1, <2>2, Aging DEF Ages, CaptureAges
<1>2. RequestsTyped'
  BY RequestSteps
<1>3. /\ network'.job \in Jobs /\ io'.job \in Jobs
      /\ \A i \in 1..Len(snapshots') : snapshots'[i] \in Jobs
  BY <1>2 DEF RequestsTyped
<1> QED
  BY <1>1, <1>3, JobsMove DEF KnownNext, RequestAges, Fresh, FreshNext

LEMMA AgesInitially == Init => Ages
<1> SUFFICES ASSUME Init PROVE Ages
  OBVIOUS
<1>1. CaptureAges
  BY DEF Init, CaptureAges
<1>2. QueueAges
  BY DEF Init, QueueAges
<1>3. InferAges
  BY DEF Init, InferAges
<1>4. ViewAges /\ NoStaleDetections
  BY DEF Init, ViewAges, NoStaleDetections
<1>5. RequestAges
  BY DEF Init, RequestAges, NoJob
<1> QED
  BY <1>1, <1>2, <1>3, <1>4, <1>5 DEF Ages

LEMMA AgesInductive == Typed /\ Ages /\ [Next]_vars => Ages'
BY CaptureAging, QueueAging, InferAging, ViewAging, RequestAging DEF Ages

LEMMA AgesInvariance == Spec => [](Typed /\ Ages)
<1>1. Init => Typed /\ Ages
  BY TypedInitially, AgesInitially
<1>2. (Typed /\ Ages) /\ [Next]_vars => (Typed /\ Ages)'
  BY TypedInductive, AgesInductive
<1> QED
  BY <1>1, <1>2, PTL DEF Spec

\* Whatever is shown while inference is enabled was captured after the last start,
\* stop, camera restart, camera failure or pause.
THEOREM NeverStale == Spec => []NoStaleDetections
<1>1. Typed /\ Ages => NoStaleDetections
  BY DEF Ages
<1> QED
  BY <1>1, AgesInvariance, PTL

\* No preview answers a request with a frame from before an interruption, however
\* long the request was queued.
THEOREM PreviewsAreFresh == Spec => PreviewFresh
<1>1. Typed /\ Ages /\ [Next]_vars =>
        [io.pc = "encode" /\ io'.pc = "reply" /\ io'.ok /\ io.job.preview
           => enabled /\ io.job.frame.sequence > boundary]_vars
  <2> SUFFICES ASSUME Typed, RequestAges, Next, io.pc = "encode", io'.pc = "reply", io'.ok,
                      io.job.preview
               PROVE  enabled /\ io.job.frame.sequence > boundary
    BY DEF Ages
  <2>1. IoEncode
    <3>1. SnapshotLoop
      <4>1. io' # io
        OBVIOUS
      <4> QED
        BY <4>1, CaptureLeaves, InferLeaves, NetworkLeaves, MainLeaves
        DEF Next, Terminated, CaptureFrame, InferFrame, MainFrame, vars
    <3> QED
      BY <3>1 DEF SnapshotLoop, IoPop, IoClosed, IoReply
  <2>2. Current(io.job.frame)
    <3>1. PICK ok \in BOOLEAN : /\ ok /\ io.job.preview => Current(io.job.frame)
                                /\ io' = [io EXCEPT !.pc = "reply", !.ok = ok]
      BY <2>1 DEF IoEncode
    <3>2. io'.ok = ok
      BY <3>1 DEF Typed, RequestsTyped
    <3> QED
      BY <3>1, <3>2
  <2> QED
    BY <2>2 DEF Current, RequestAges, Fresh, FreshAt
<1> QED
  BY <1>1, AgesInvariance, PTL DEF Spec, PreviewFresh

\* Inference errors pause the pipeline only over a frame of the current generation,
\* so a start that came after the frame is never undone.
THEOREM PausesKeepStarts == Spec => PauseKeepsStart
<1>1. Typed /\ Ages /\ [Next]_vars =>
        [enabled /\ ~enabled' /\ network.pc = "idle" /\ network'.pc = "idle"
           => infer.frame.sequence > boundary]_vars
  <2> SUFFICES ASSUME Typed, InferAges, Next, enabled, ~enabled', network.pc = "idle",
                      network'.pc = "idle"
               PROVE  infer.frame.sequence > boundary
    BY DEF Ages
  <2>1. CASE InferenceLoop
    <3>1. InferDisable
      BY <2>1 DEF InferenceLoop, InferTop, InferPopEmpty, InferPop, InferCheck, InferExpired,
         InferCompletes, InferThrows, InferStale, InferPublish, InferDrain, InferLocal
    <3>2. infer.pc = "disable" /\ infer.frame.generation = inference_epoch
      BY <3>1 DEF InferDisable
    <3> QED
      BY <3>2 DEF InferAges, Fresh, FreshAt
  <2>2. CASE Network
    <3>1. ASSUME NEW cmd, StartStop(cmd) PROVE FALSE
      <4>1. network'.pc = "commit"
        BY <3>1 DEF StartStop, Typed, RequestsTyped
      <4> QED
        BY <4>1
    <3> QED
      BY <2>2, <3>1 DEF Network, StartStopCommit, RestartCamera, Request, GetPreview,
         CaptureCommand, RequestPush, NetworkFails, NetworkLocal
  <2> QED
    BY <2>1, <2>2, CaptureLeaves, SnapshotLeaves, MainLeaves
    DEF Next, Terminated, CaptureFrame, IoFrame, MainFrame, flags, vars
<1> QED
  BY <1>1, AgesInvariance, PTL DEF Spec, PauseKeepsStart

-------------------------------------------------------------------------------
(* The order of the frames on their way: published, inferred, queued, copied.  *)

Inferring == infer.pc \in {"check", "run", "publish"}
Copied == capture.pc \in {"latest", "offer", "push"}

Order ==
  /\ published <= sequence
  /\ \A i \in 1..Len(inference) : published < inference[i].sequence
  /\ Inferring =>
       /\ published < infer.frame.sequence
       /\ \A i \in 1..Len(inference) : infer.frame.sequence < inference[i].sequence
  /\ Copied =>
       /\ capture.frame.sequence = sequence /\ published < sequence
       /\ \A i \in 1..Len(inference) : inference[i].sequence < sequence
       /\ Inferring => infer.frame.sequence < sequence

\* A step that brings no frame further.
LEMMA NothingFurther ==
  ASSUME Order, UNCHANGED <<sequence, published>>, inference' \in {inference, <<>>},
         Inferring' => Inferring /\ infer'.frame = infer.frame,
         Copied' => Copied /\ capture'.frame = capture.frame
  PROVE  Order'
<1>1. \A i \in 1..Len(inference') : i \in 1..Len(inference) /\ inference'[i] = inference[i]
  OBVIOUS
<1> QED
  BY <1>1 DEF Order

LEMMA OrderInductive == Typed /\ Ages /\ Order /\ [Next]_vars => Order'
<1> SUFFICES ASSUME Typed, Ages, Order, [Next]_vars PROVE Order'
  OBVIOUS
<1>t. /\ capture.frame \in Frames /\ infer.frame \in Frames /\ inference \in Seq(Frames)
      /\ sequence \in Nat /\ published \in Nat /\ Len(inference) \in Nat
      /\ infer.frame.sequence \in Nat
      /\ \A i \in 1..Len(inference) : inference[i].sequence \in Nat
  <2>1. capture.frame \in Frames
    BY DEF Typed, CaptureTyped
  <2>2. infer.frame \in Frames
    BY DEF Typed, InferTyped
  <2>3. inference \in Seq(Frames) /\ Len(inference) \in Nat
    BY DEF Typed, QueueTyped
  <2>4. sequence \in Nat /\ published \in Nat
    BY DEF Typed, NumbersTyped
  <2>5. \A f \in Frames : f.sequence \in Nat
    BY DEF Frames
  <2>6. \A i \in 1..Len(inference) : inference[i] \in Frames
    BY <2>3
  <2> QED
    BY <2>1, <2>2, <2>3, <2>4, <2>5, <2>6
<1>a. /\ \A i \in 1..Len(inference) : inference[i].sequence <= sequence
      /\ Inferring => infer.frame.sequence <= sequence
  BY DEF Ages, QueueAges, InferAges, Fresh, FreshAt, Inferring
<1>1. CASE CaptureCopied
  <2>1. /\ capture'.frame.sequence = sequence + 1
        /\ sequence' = sequence + 1 /\ UNCHANGED <<inference, infer, published>>
    BY <1>1 DEF CaptureCopied, CaptureLocal, CaptureFrame, Typed, CaptureTyped, Frames
  <2> QED
    BY <1>t, <1>a, <2>1 DEF Order, Inferring
<1>2. CASE CapturePush
  <2>1. /\ Copied /\ capture'.pc = "top" /\ UNCHANGED <<sequence, infer, published>>
    BY <1>2 DEF CapturePush, CaptureLocal, CaptureFrame, Copied, Typed, CaptureTyped
  <2>2. ~Copied'
    BY <2>1 DEF Copied
  <2>3. CASE inference_closed
    <3>1. inference' = inference
      BY <1>2, <2>3 DEF CapturePush
    <3> QED
      BY <2>1, <2>2, <3>1, NothingFurther DEF Inferring
  <2>4. CASE ~inference_closed
    <3>1. inference' = AfterPushLatest(inference, QueueCapacity, capture.frame)
      BY <1>2, <2>4 DEF CapturePush
    <3>2. QueueCapacity \in Nat \ {0} /\ Len(inference) <= QueueCapacity
      BY CapacityAssumption DEF Typed, QueueTyped
    <3>3. Kept(inference, capture.frame, inference') /\ Len(inference') \in Nat
      <4>1. inference' \in Seq(Frames)
        BY <1>t, <3>1, <3>2, PushLatestItems
      <4> QED
        BY <1>t, <3>1, <3>2, <4>1, PushLatestKeeps
    <3>4. ASSUME NEW i \in 1..Len(inference')
          PROVE  /\ published < inference'[i].sequence
                 /\ Inferring => infer.frame.sequence < inference'[i].sequence
      <4>1. CASE i = Len(inference')
        BY <2>1, <3>3, <4>1 DEF Kept, Order
      <4>2. CASE i # Len(inference')
        <5>1. i \in 1..Len(inference') - 1
          BY <3>3, <3>4, <4>2
        <5>2. \E j \in 1..Len(inference) : inference'[i] = inference[j]
          BY <3>3, <5>1 DEF Kept
        <5> QED
          BY <5>2 DEF Order
      <4> QED
        BY <4>1, <4>2
    <3> QED
      BY <2>1, <2>2, <3>4 DEF Order, Inferring
  <2> QED
    BY <2>3, <2>4
<1>3. CASE InferPop
  <2>1. /\ inference # <<>> /\ inference' = <<>> /\ infer'.frame = Newest(inference)
        /\ UNCHANGED <<sequence, published, capture>>
    BY <1>3 DEF InferPop, InferLocal, InferFrame, camera, Typed, InferTyped
  <2>2. \E i \in 1..Len(inference) : Newest(inference) = inference[i]
    BY <1>t, <2>1, NewestItem, Zenon
  <2>3. published < infer'.frame.sequence /\ (Copied => infer'.frame.sequence < sequence)
    BY <2>1, <2>2 DEF Order
  <2> QED
    BY <2>1, <2>3 DEF Order, Copied
<1>4. CASE InferPublish
  <2>1. /\ infer.pc = "publish" /\ infer'.pc = "top" /\ published' = infer.frame.sequence
        /\ UNCHANGED <<inference, sequence, capture>>
    BY <1>4 DEF InferPublish, InferFrame, camera, Typed, InferTyped
  <2>2. Inferring /\ ~Inferring'
    BY <2>1 DEF Inferring
  <2> QED
    BY <1>a, <2>1, <2>2 DEF Order, Copied
<1>5. CASE CaptureLoop
  <2>1. CASE CaptureLatest
    BY <2>1, NothingFurther DEF CaptureLatest, Capture, CaptureLocal, CaptureFrame, Inferring,
       Copied, Typed, CaptureTyped
  <2>2. CASE CaptureOffer
    <3>1. UNCHANGED <<sequence, published, inference, infer>>
      BY <2>2 DEF CaptureOffer, CaptureLocal, CaptureFrame
    <3>2. Copied /\ (Copied' => capture'.frame = capture.frame)
      BY <2>2 DEF CaptureOffer, Copied, Typed, CaptureTyped
    <3> QED
      BY <3>1, <3>2, NothingFurther DEF Inferring
  <2>3. ASSUME inference' \in {inference, <<>>}, UNCHANGED <<sequence, published, infer>>,
               capture'.pc \notin {"latest", "offer", "push"}
        PROVE  Order'
    BY <2>3, NothingFurther DEF Inferring, Copied
  <2>4. CASE ~(CaptureCopied \/ CapturePush \/ CaptureLatest \/ CaptureOffer)
    <3>1. inference' \in {inference, <<>>} /\ UNCHANGED <<sequence, published, infer>>
      BY <1>5, <2>4, CaptureLeaves DEF CaptureLoop, CaptureReplay, CaptureTop, CaptureRestart,
         CaptureForget, CaptureClear, CaptureOpen, CaptureAcquire, CaptureStamp,
         CaptureCopyFails, CaptureLocal, CaptureFrame
    <3>2. capture'.pc \in CapturePc \ {"latest", "offer", "push"}
      BY <1>5, <2>4 DEF CaptureLoop, CaptureReplay, CaptureTop, CaptureRestart, CaptureForget,
         CaptureClear, CaptureOpen, CaptureAcquire, CaptureStamp, CaptureCopyFails, Capture,
         CapturePc, Typed, CaptureTyped
    <3> QED
      BY <2>3, <3>1, <3>2
  <2> QED
    BY <1>1, <1>2, <2>1, <2>2, <2>4
<1>6. CASE InferenceLoop
  <2>1. CASE ~(InferPop \/ InferPublish)
    <3>1. inference' \in {inference, <<>>} /\ UNCHANGED <<sequence, published, capture>>
      BY <1>6, <2>1, InferLeaves DEF InferenceLoop, InferTop, InferPopEmpty, InferCheck,
         InferExpired, InferCompletes, InferThrows, InferStale, InferDisable, InferDrain,
         InferLocal, InferFrame, camera
    <3>2. Inferring' => Inferring /\ infer'.frame = infer.frame
      BY <1>6, <2>1 DEF InferenceLoop, InferTop, InferPopEmpty, InferCheck, InferExpired,
         InferCompletes, InferThrows, InferStale, InferDisable, InferDrain, InferDiscard,
         Inferring, Typed, InferTyped
    <3> QED
      BY <3>1, <3>2, NothingFurther DEF Copied
  <2> QED
    BY <1>3, <1>4, <2>1
<1>7. ASSUME UNCHANGED <<sequence, published, capture, infer>>, inference' \in {inference, <<>>}
      PROVE  Order'
  BY <1>7, NothingFurther DEF Inferring, Copied
<1>8. CASE Network
  <2>1. inference' \in {inference, <<>>}
    BY <1>8 DEF Network, StartStop, StartStopCommit, RestartCamera, Request, GetPreview,
       CaptureCommand, RequestPush, NetworkFails, NetworkLocal, input
  <2> QED
    BY <1>7, <1>8, <2>1, NetworkLeaves DEF camera
<1>9. CASE SnapshotLoop
  BY <1>7, <1>9, SnapshotLeaves DEF IoFrame, camera, history, input
<1>10. CASE StopBegin \/ Stop
  <2>1. inference' \in {inference, <<>>}
    BY <1>10 DEF StopBegin, Stop, CloseInference, CloseSnapshots, Join, StopLoop, StopReset, input
  <2> QED
    BY <1>7, <1>10, <2>1, MainLeaves DEF MainFrame, camera, history
<1>11. CASE UNCHANGED vars
  BY <1>7, <1>11 DEF vars, camera, history, input
<1> QED
  BY <1>5, <1>6, <1>8, <1>9, <1>10, <1>11 DEF Next, Terminated

\* get_detections never falls back to an earlier frame, whatever the queue drops, the
\* limits discard and the generations cut off.
THEOREM PublishedInOrder == Spec => PublishOrder
<1>1. Init => Order
  BY DEF Init, Order, Inferring, Copied
<1>2. Typed /\ Ages /\ Order /\ [Next]_vars =>
        [detection_frame' \notin {detection_frame, None}
           => detection_frame'.sequence > published]_vars
  <2> SUFFICES ASSUME Typed, Order, [Next]_vars, detection_frame' \notin {detection_frame, None}
               PROVE  detection_frame'.sequence > published
    OBVIOUS
  <2>1. InferPublish
    BY ViewChange
  <2>2. infer.pc = "publish" /\ detection_frame' = infer.frame
    BY <2>1 DEF InferPublish
  <2>3. published < infer.frame.sequence
    BY <2>2 DEF Order, Inferring
  <2>4. published \in Nat /\ infer.frame.sequence \in Nat
    BY DEF Typed, NumbersTyped, InferTyped, Frames
  <2> QED
    BY <2>2, <2>3, <2>4
<1> QED
  BY <1>1, <1>2, AgesInvariance, OrderInductive, PTL DEF Spec, PublishOrder

-------------------------------------------------------------------------------
(* Detections and the frame they were computed from.                           *)

ViewPaired == detection_frame # None => detections = detection_frame.sequence

JobPaired(job) == job.preview => job.frame # None /\ job.detections = job.frame.sequence

JobsPaired ==
  /\ JobPaired(network.job) /\ JobPaired(io.job)
  /\ \A i \in 1..Len(snapshots) : JobPaired(snapshots[i])

LEMMA ViewPairing == Typed /\ ViewPaired /\ [Next]_vars => ViewPaired'
<1> SUFFICES ASSUME Typed, ViewPaired, [Next]_vars PROVE ViewPaired'
  OBVIOUS
<1>1. CASE InferPublish
  BY <1>1 DEF InferPublish, ViewPaired
<1>2. CASE detection_frame' = None
  BY <1>2 DEF ViewPaired
<1>3. CASE UNCHANGED <<detection_frame, detections>>
  BY <1>3 DEF ViewPaired
<1>4. CASE CaptureLoop
  BY <1>2, <1>3, <1>4 DEF CaptureLoop, CaptureReplay, CaptureTop, CaptureRestart, CaptureForget,
     CaptureClear, CaptureOpen, CaptureAcquire, CaptureStamp, CaptureCopied, CaptureCopyFails,
     CaptureLatest, CaptureOffer, CapturePush, CaptureLocal
<1>5. CASE InferenceLoop
  BY <1>1, <1>3, <1>5 DEF InferenceLoop, InferTop, InferPopEmpty, InferPop, InferCheck,
     InferExpired, InferCompletes, InferThrows, InferStale, InferDisable, InferDrain, InferLocal
<1>6. CASE Network
  BY <1>2, <1>3, <1>6 DEF Network, StartStop, StartStopCommit, RestartCamera, Request,
     GetPreview, CaptureCommand, RequestPush, NetworkFails, NetworkLocal, views
<1>7. CASE SnapshotLoop
  BY <1>3, <1>7, SnapshotLeaves DEF IoFrame, views
<1>8. CASE StopBegin \/ Stop
  <2>1. detection_frame' = None \/ detection_frame' = detection_frame
    BY <1>8 DEF StopBegin, Stop, CloseInference, CloseSnapshots, Join, StopLoop, StopReset
  <2> QED
    BY <1>2, <1>3, <1>8, <2>1, MainLeaves DEF MainFrame
<1>9. CASE UNCHANGED vars
  BY <1>3, <1>9 DEF vars, views
<1> QED
  BY <1>4, <1>5, <1>6, <1>7, <1>8, <1>9 DEF Next, Terminated

\* A preview answers with the detections of its own image, although both are read,
\* queued and encoded while the pipeline goes on.
THEOREM PreviewsArePairs == Spec => []PreviewPairs
<1> DEFINE Paired == ViewPaired /\ JobsPaired
<1>1. Init => Paired
  BY DEF Init, ViewPaired, JobsPaired, JobPaired, NoJob
<1>2. Typed /\ Paired /\ [Next]_vars => Paired'
  <2> SUFFICES ASSUME Typed, Paired, [Next]_vars PROVE Paired'
    OBVIOUS
  <2>1. ASSUME NEW job, Known(job) PROVE JobPaired(job)
    BY <2>1 DEF Known, JobPaired, JobsPaired, ViewPaired
  <2>2. JobPaired(network'.job) /\ JobPaired(io'.job)
        /\ \A i \in 1..Len(snapshots') : JobPaired(snapshots'[i])
    BY <2>1, JobsMove DEF KnownNext
  <2>3. JobsPaired'
    BY <2>2 DEF JobsPaired, JobPaired
  <2> QED
    BY <2>3, ViewPairing
<1>3. Typed /\ Paired => PreviewPairs
  <2> SUFFICES ASSUME Typed, Paired PROVE PreviewPairs
    OBVIOUS
  <2>1. DOMAIN snapshots = 1..Len(snapshots)
    BY DEF Typed, RequestsTyped
  <2>2. \A job \in {network.job, io.job} \cup {snapshots[i] : i \in DOMAIN snapshots} : JobPaired(job)
    BY <2>1 DEF JobsPaired
  <2> QED
    BY <2>2 DEF ViewPaired, JobPaired, PreviewPairs
<1> QED
  BY <1>1, <1>2, <1>3, AgesInvariance, PTL DEF Spec

-------------------------------------------------------------------------------
(* The confirmation of an event.                                               *)

\* The thread's count is the length of the streak as long as the generation of the
\* frame it took last is the current one; otherwise the streak is over, at the
\* latest when that frame is checked.
Confirming ==
  /\ infer.generation = inference_epoch => infer.confirmed = streak
  /\ infer.generation < inference_epoch /\ infer.pc # "check" => streak = 0
  /\ infer.generation <= inference_epoch
  /\ Inferring => infer.generation = infer.frame.generation
  /\ triggered <= published

LEMMA ConfirmingInductive == Typed /\ Ages /\ Order /\ Confirming /\ [Next]_vars => Confirming'
<1> SUFFICES ASSUME Typed, Ages, Order, Confirming, [Next]_vars PROVE Confirming'
  OBVIOUS
<1>t. /\ infer.frame \in Frames /\ infer.frame.sequence \in Nat /\ infer.generation \in Int
      /\ inference_epoch \in Nat /\ published \in Nat /\ triggered \in Nat
  BY DEF Typed, InferTyped, NumbersTyped, Frames
<1>1. CASE NewEpoch /\ UNCHANGED <<published, triggered>>
           /\ infer'.generation = infer.generation /\ infer'.frame = infer.frame
           /\ (Inferring' => Inferring)
  BY <1>1, <1>t DEF Confirming, NewEpoch
<1>2. CASE UNCHANGED <<inference_epoch, streak, published, triggered>>
           /\ infer'.generation = infer.generation /\ infer'.confirmed = infer.confirmed
           /\ (Inferring' => Inferring /\ infer'.frame = infer.frame)
           /\ (infer.pc = "check" => infer'.pc = "check")
  BY <1>2 DEF Confirming
<1>3. CASE UNCHANGED <<inference_epoch, streak, published, triggered, infer>>
  BY <1>2, <1>3 DEF Inferring
<1>4. ASSUME streak' = 0, infer'.confirmed = 0, infer'.generation = infer.generation,
             UNCHANGED <<inference_epoch, published, triggered>>,
             Inferring' => Inferring /\ infer'.frame = infer.frame
      PROVE  Confirming'
  BY <1>4 DEF Confirming
<1>5. CASE InferenceLoop
  <2> USE DEF Typed, InferTyped
  <2>1. CASE InferTop \/ InferPopEmpty \/ InferCompletes \/ InferDrain
    BY <1>2, <2>1 DEF InferTop, InferPopEmpty, InferCompletes, InferDrain, InferLocal, Inferring
  <2>2. CASE InferPop
    <3>1. /\ infer'.generation = Newest(inference).generation
          /\ infer'.frame = Newest(inference)
          /\ infer'.confirmed = IF Newest(inference).generation # infer.generation THEN 0
                                ELSE infer.confirmed
          /\ UNCHANGED <<inference_epoch, streak, published, triggered>>
      BY <2>2 DEF InferPop, InferLocal
    <3>2. inference # <<>> /\ inference \in Seq(Frames)
      BY <2>2 DEF InferPop, QueueTyped
    <3>3. Newest(inference) \in Frames
      BY <3>2, NewestItem, Zenon
    <3>4. \E i \in 1..Len(inference) : Newest(inference) = inference[i]
      BY <3>2, NewestItem, Zenon
    <3>5. Newest(inference).generation <= inference_epoch /\ Newest(inference).generation \in Nat
      <4>1. Fresh(Newest(inference))
        BY <3>4 DEF Ages, QueueAges
      <4> QED
        BY <3>3, <4>1 DEF Fresh, FreshAt, Frames
    <3>6. infer.pc = "pop" /\ infer'.pc = "check"
      BY <2>2 DEF InferPop
    <3>7. CASE Newest(inference).generation = infer.generation
      BY <1>t, <3>1, <3>5, <3>6, <3>7 DEF Confirming
    <3>8. CASE Newest(inference).generation # infer.generation
      <4>1. Newest(inference).generation = inference_epoch => streak = 0
        BY <1>t, <3>6, <3>8 DEF Confirming
      <4>2. infer'.confirmed = 0
        BY <3>1, <3>8
      <4> QED
        BY <1>t, <3>1, <3>5, <3>6, <4>1, <4>2 DEF Confirming
    <3> QED
      BY <3>7, <3>8
  <2>3. ASSUME InferDiscard, InferLocal PROVE Confirming'
    BY <1>4, <2>3 DEF InferDiscard, InferLocal, Inferring
  <2>4. CASE InferCheck
    <3>1. CASE Current(infer.frame)
      <4>1. /\ infer' = [infer EXCEPT !.pc = "run"] /\ infer.pc = "check"
            /\ infer.frame.generation = inference_epoch
            /\ UNCHANGED <<inference_epoch, streak, published, triggered>>
        BY <2>4, <3>1 DEF InferCheck, InferLocal, Current
      <4>2. infer.generation = inference_epoch
        BY <4>1 DEF Confirming, Inferring
      <4> QED
        BY <1>t, <4>1, <4>2 DEF Confirming, Inferring
    <3>2. CASE ~Current(infer.frame)
      BY <2>3, <2>4, <3>2 DEF InferCheck
    <3> QED
      BY <3>1, <3>2
  <2>5. CASE InferExpired \/ InferStale
    BY <2>3, <2>5 DEF InferExpired, InferStale
  <2>6. CASE InferThrows
    <3>1. /\ streak' = 0 /\ infer'.confirmed = 0 /\ infer'.generation = infer.generation
          /\ UNCHANGED <<inference_epoch, published, triggered>> /\ infer'.pc \in {"top", "disable"}
      BY <2>6 DEF InferThrows, InferLocal
    <3> QED
      BY <1>4, <3>1 DEF Inferring
  <2>7. CASE InferPublish
    <3> DEFINE n == IF infer.person THEN LeastOf(infer.confirmed + 1, EventConfirm) ELSE 0
               m == IF infer.person THEN LeastOf(streak + 1, EventConfirm) ELSE 0
    <3>1. /\ infer.pc = "publish" /\ infer.frame.generation = inference_epoch
          /\ infer'.pc = "top" /\ infer'.generation = infer.generation
          /\ infer'.confirmed = n /\ streak' = m
          /\ published' = infer.frame.sequence /\ triggered' \in {triggered, infer.frame.sequence}
          /\ inference_epoch' = inference_epoch
      BY <2>7 DEF InferPublish, Current
    <3>2. infer.generation = inference_epoch /\ n = m /\ published < infer.frame.sequence
      BY <3>1 DEF Confirming, Inferring, Order
    <3>3. triggered' <= published'
      BY <1>t, <3>1, <3>2 DEF Confirming
    <3>4. ~Inferring' /\ infer'.generation = inference_epoch' /\ infer'.confirmed = streak'
      BY <3>1, <3>2 DEF Inferring
    <3> HIDE DEF n, m
    <3> QED
      BY <1>t, <3>1, <3>3, <3>4 DEF Confirming
  <2>8. CASE InferDisable
    <3>1. /\ infer'.generation = infer.generation /\ infer'.confirmed = infer.confirmed
          /\ infer'.frame = infer.frame
          /\ infer.pc = "disable" /\ infer'.pc = "drain"
          /\ UNCHANGED <<published, triggered>>
          /\ NewEpoch \/ UNCHANGED <<inference_epoch, streak>>
      BY <2>8 DEF InferDisable
    <3> QED
      BY <1>1, <1>2, <3>1 DEF Inferring
  <2> QED
    BY <1>5, <2>1, <2>2, <2>4, <2>5, <2>6, <2>7, <2>8 DEF InferenceLoop
<1>6. CASE CaptureLoop
  <2>1. NewEpoch \/ UNCHANGED <<inference_epoch, streak>>
    BY <1>6 DEF CaptureLoop, CaptureReplay, CaptureTop, CaptureRestart, CaptureForget,
       CaptureClear, CaptureOpen, CaptureAcquire, CaptureStamp, CaptureCopied, CaptureCopyFails,
       CaptureLatest, CaptureOffer, CapturePush, CaptureLocal
  <2> QED
    BY <1>1, <1>3, <1>6, <2>1, CaptureLeaves DEF CaptureFrame, Inferring
<1>7. CASE Network
  <2>1. NewEpoch \/ UNCHANGED <<inference_epoch, streak>>
    BY <1>7 DEF Network, StartStop, StartStopCommit, RestartCamera, Request, GetPreview,
       CaptureCommand, RequestPush, NetworkFails, NetworkLocal, history
  <2> QED
    BY <1>1, <1>3, <1>7, <2>1, NetworkLeaves DEF Inferring
<1>8. CASE SnapshotLoop
  BY <1>3, <1>8, SnapshotLeaves DEF IoFrame, history
<1>9. CASE StopBegin \/ Stop
  BY <1>3, <1>9, MainLeaves DEF MainFrame, history
<1>10. CASE UNCHANGED vars
  BY <1>3, <1>10 DEF vars, history
<1> QED
  BY <1>5, <1>6, <1>7, <1>8, <1>9, <1>10 DEF Next, Terminated

\* Exactly the frames that complete EventConfirm consecutive detections of the current
\* generation trigger an event.
THEOREM TriggersAreConfirmed == Spec => TriggerConfirmed
<1>1. Init => Order /\ Confirming
  BY DEF Init, Order, Inferring, Copied, Confirming
<1>2. Typed /\ Ages /\ Order /\ Confirming /\ [Next]_vars =>
        [published' # published => (triggered' = published' <=> streak' = EventConfirm)]_vars
  <2> SUFFICES ASSUME Typed, Order, Confirming, [Next]_vars, published' # published
               PROVE  triggered' = published' <=> streak' = EventConfirm
    OBVIOUS
  <2>1. InferPublish
    <3>1. InferenceLoop
      BY CaptureLeaves, NetworkLeaves, SnapshotLeaves, MainLeaves
      DEF Next, Terminated, CaptureFrame, IoFrame, MainFrame, history, vars
    <3> QED
      BY <3>1 DEF InferenceLoop, InferTop, InferPopEmpty, InferPop, InferCheck, InferExpired,
         InferCompletes, InferThrows, InferStale, InferDisable, InferDrain, InferLocal
  <2> DEFINE n == IF infer.person THEN LeastOf(infer.confirmed + 1, EventConfirm) ELSE 0
             m == IF infer.person THEN LeastOf(streak + 1, EventConfirm) ELSE 0
  <2>2. /\ infer.pc = "publish" /\ infer.frame.generation = inference_epoch
        /\ published' = infer.frame.sequence /\ streak' = m
        /\ triggered' = IF n >= EventConfirm THEN infer.frame.sequence ELSE triggered
    BY <2>1 DEF InferPublish, Current
  <2>3. n = m /\ triggered <= published /\ published < infer.frame.sequence
    BY <2>2 DEF Confirming, Inferring, Order
  <2>4. /\ infer.frame.sequence \in Nat /\ published \in Nat /\ triggered \in Nat
        /\ streak \in 0..EventConfirm /\ EventConfirm \in Nat
    BY LimitAssumption DEF Typed, InferTyped, NumbersTyped, Frames
  <2>5. m <= EventConfirm /\ m \in Nat
    BY <2>4, LimitAssumption DEF LeastOf
  <2> HIDE DEF n, m
  <2> QED
    BY <2>2, <2>3, <2>4, <2>5
<1> QED
  BY <1>1, <1>2, AgesInvariance, OrderInductive, ConfirmingInductive, PTL
  DEF Spec, TriggerConfirmed

-------------------------------------------------------------------------------
(* The pipeline implements LiveView. *)

\* What start and stop hold the mutex for.
Locked == mutex = "network" <=> network.pc = "commit"

\* Whatever is shown or asked for is a frame.
Existing ==
  /\ detection_frame # None => detection_frame.sequence > 0
  /\ latest # None => latest.sequence > 0
  /\ network.pc = "push" => network.job.frame.sequence > 0

LEMMA LockedInductive == Typed /\ Locked /\ [Next]_vars => Locked'
<1> SUFFICES ASSUME Typed, Locked, [Next]_vars PROVE Locked'
  OBVIOUS
<1>t. network \in [pc : {"idle", "commit", "push", "exit"}, job : Jobs]
  BY DEF Typed, RequestsTyped
<1>1. CASE UNCHANGED <<mutex, network>>
  BY <1>1 DEF Locked
<1>2. CASE CaptureLoop
  BY <1>1, <1>2, CaptureLeaves DEF CaptureFrame
<1>3. CASE InferenceLoop
  BY <1>1, <1>3, InferLeaves DEF InferFrame
<1>4. CASE SnapshotLoop
  BY <1>1, <1>4, SnapshotLeaves DEF IoFrame
<1>5. CASE Network
  <2>1. ASSUME NEW cmd, StartStop(cmd) PROVE Locked'
    BY <1>t, <2>1 DEF StartStop, Locked
  <2>2. CASE StartStopCommit
    BY <1>t, <2>2 DEF StartStopCommit, Locked
  <2>3. ASSUME NEW cmd, NEW job, Request(cmd, job) PROVE Locked'
    BY <2>3 DEF Request, NetworkLocal, Locked
  <2>4. CASE RestartCamera \/ RequestPush \/ NetworkFails
    BY <1>t, <2>4 DEF RestartCamera, RequestPush, NetworkFails, NetworkLocal, Locked
  <2> QED
    BY <1>5, <2>1, <2>2, <2>3, <2>4 DEF Network, GetPreview, CaptureCommand
<1>6. CASE StopBegin \/ Stop
  <2>1. mutex' = mutex
    BY <1>6, MainLeaves DEF MainFrame
  <2>2. network' = network \/ (network.pc \in {"idle", "exit"} /\ network'.pc = "exit")
    BY <1>6, <1>t DEF StopBegin, Stop, CloseInference, CloseSnapshots, Join, StopLoop, StopReset
  <2> QED
    BY <2>1, <2>2 DEF Locked
<1>7. CASE UNCHANGED vars
  BY <1>1, <1>7 DEF vars
<1> QED
  BY <1>2, <1>3, <1>4, <1>5, <1>6, <1>7, Zenon DEF Next, Terminated

LEMMA ExistingInductive == Typed /\ Ages /\ Order /\ Existing /\ [Next]_vars => Existing'
<1> SUFFICES ASSUME Typed, Ages, Order, Existing, [Next]_vars PROVE Existing'
  OBVIOUS
<1>t. /\ network \in [pc : {"idle", "commit", "push", "exit"}, job : Jobs]
      /\ infer.frame.sequence \in Nat /\ published \in Nat /\ sequence \in Nat
      /\ None.sequence = 0
  BY DEF Typed, RequestsTyped, InferTyped, NumbersTyped, Frames, None
<1>1. detection_frame' # None => detection_frame'.sequence > 0
  <2>1. CASE InferPublish
    <3>1. detection_frame' = infer.frame /\ Inferring
      BY <2>1 DEF InferPublish, Inferring
    <3> QED
      BY <1>t, <3>1 DEF Order
  <2>2. CASE ~InferPublish
    BY <2>2, ViewChange DEF Existing
  <2> QED
    BY <2>1, <2>2
<1>2. latest' # None => latest'.sequence > 0
  <2>1. CASE CaptureLatest
    <3>1. latest' = capture.frame /\ Copied
      BY <2>1 DEF CaptureLatest, Capture, Copied
    <3> QED
      BY <1>t, <3>1 DEF Order
  <2>2. ASSUME latest' \in {latest, None} PROVE latest' # None => latest'.sequence > 0
    BY <2>2 DEF Existing
  <2>3. CASE CaptureLoop
    <3>1. CaptureLatest \/ latest' \in {latest, None}
      BY <2>3 DEF CaptureLoop, CaptureReplay, CaptureTop, CaptureRestart, CaptureForget,
         CaptureClear, CaptureOpen, CaptureAcquire, CaptureStamp, CaptureCopied,
         CaptureCopyFails, CaptureOffer, CapturePush
    <3> QED
      BY <2>1, <2>2, <3>1
  <2>4. CASE StopBegin \/ Stop
    BY <2>2, <2>4 DEF StopBegin, Stop, CloseInference, CloseSnapshots, Join, StopLoop, StopReset
  <2>5. CASE InferenceLoop \/ Network \/ SnapshotLoop \/ UNCHANGED vars
    <3>1. latest' = latest
      BY <2>5, InferLeaves, NetworkLeaves, SnapshotLeaves DEF InferFrame, IoFrame, views, vars
    <3> QED
      BY <2>2, <3>1
  <2> QED
    BY <2>3, <2>4, <2>5, Zenon DEF Next, Terminated
<1>3. network'.pc = "push" => network'.job.frame.sequence > 0
  <2>1. CASE network' = network
    BY <2>1 DEF Existing
  <2>2. CASE network'.pc # "push"
    BY <2>2
  <2>3. ASSUME NEW cmd, NEW job, Request(cmd, job),
               job.frame = latest \/ job.frame = detection_frame
        PROVE  network'.job.frame.sequence > 0
    <3>1. network'.job = job /\ job.frame # None
      BY <2>3 DEF Request
    <3> QED
      BY <2>3, <3>1 DEF Existing
  <2>4. CASE Network
    <3>1. ASSUME NEW cmd, StartStop(cmd) PROVE network'.pc # "push"
      BY <1>t, <3>1 DEF StartStop
    <3>2. CASE StartStopCommit \/ RequestPush \/ NetworkFails
      BY <1>t, <2>2, <3>2 DEF StartStopCommit, RequestPush, NetworkFails
    <3>3. CASE RestartCamera
      BY <2>1, <3>3 DEF RestartCamera
    <3>4. CASE GetPreview \/ CaptureCommand
      BY <2>3, <3>4 DEF GetPreview, CaptureCommand
    <3> QED
      BY <2>2, <2>4, <3>1, <3>2, <3>3, <3>4 DEF Network
  <2>5. CASE StopBegin \/ Stop
    <3>1. network' = network \/ network'.pc = "exit"
      BY <1>t, <2>5 DEF StopBegin, Stop, CloseInference, CloseSnapshots, Join, StopLoop, StopReset
    <3> QED
      BY <2>1, <3>1
  <2>6. CASE CaptureLoop \/ InferenceLoop \/ SnapshotLoop \/ UNCHANGED vars
    <3>1. network' = network
      BY <2>6, CaptureLeaves, InferLeaves, SnapshotLeaves
      DEF CaptureFrame, InferFrame, IoFrame, vars
    <3> QED
      BY <2>1, <3>1
  <2> QED
    BY <2>4, <2>5, <2>6, Zenon DEF Next, Terminated
<1> QED
  BY <1>1, <1>2, <1>3 DEF Existing


\* What the requests look like from outside.
Viewed(q) == [i \in 1..Len(q) |-> View(q[i])]

LEMMA SeqIsFunction ==
  ASSUME NEW S, NEW s \in Seq(S), NEW n, n = Len(s)
  PROVE  s = [i \in 1..n |-> s[i]]
OBVIOUS

LEMMA ViewedFacts ==
  ASSUME NEW q \in Seq(Jobs)
  PROVE  /\ Len(Viewed(q)) = Len(q)
         /\ \A job \in Jobs : Viewed(Append(q, job)) = Append(Viewed(q), View(job))
         /\ q # <<>> => /\ Viewed(q) # <<>> /\ Head(Viewed(q)) = View(Head(q))
                        /\ Viewed(Tail(q)) = Tail(Viewed(q))
<1> DEFINE Views == [preview : BOOLEAN, image : Nat, detections : Nat]
<1>1. \A job \in Jobs : View(job) \in Views
  BY DEF View, Jobs, Frames
<1>2. \A i \in 1..Len(q) : View(q[i]) \in Views
  BY <1>1
<1>3. PICK v : v = Viewed(q)
  OBVIOUS
<1>4. v = [i \in 1..Len(q) |-> View(q[i])]
  BY <1>3 DEF Viewed
<1>5. v \in Seq(Views) /\ Len(v) = Len(q) /\ Len(q) \in Nat
      /\ \A i \in 1..Len(q) : v[i] = View(q[i])
  <2> HIDE DEF Views
  <2> QED
    BY <1>2, <1>4
<1>6. ASSUME NEW job \in Jobs PROVE Viewed(Append(q, job)) = Append(v, View(job))
  <2>1. PICK w : w = Append(q, job)
    OBVIOUS
  <2>2. /\ w \in Seq(Jobs) /\ Len(w) = Len(q) + 1 /\ w[Len(q) + 1] = job
        /\ \A i \in 1..Len(q) : w[i] = q[i]
    BY <2>1
  <2>3. PICK x : x = View(job) /\ x \in Views
    BY <1>1
  <2>4. /\ Append(v, x) \in Seq(Views) /\ Len(Append(v, x)) = Len(q) + 1
        /\ Append(v, x)[Len(q) + 1] = x
        /\ \A i \in 1..Len(q) : Append(v, x)[i] = v[i]
    <3> HIDE DEF Views
    <3> QED
      BY <1>5, <2>3
  <2>5. Append(v, x) = [i \in 1..Len(w) |-> Append(v, x)[i]]
    <3> HIDE DEF Views
    <3>1. PICK a : a = Append(v, x)
      OBVIOUS
    <3>2. a \in Seq(Views) /\ Len(w) = Len(a)
      BY <2>2, <2>4, <3>1
    <3>3. a = [i \in 1..Len(w) |-> a[i]]
      BY <3>2, SeqIsFunction
    <3> QED
      BY <3>1, <3>3
  <2>6. \A i \in 1..Len(w) : Append(v, x)[i] = View(w[i])
    <3> SUFFICES ASSUME NEW i \in 1..Len(w) PROVE Append(v, x)[i] = View(w[i])
      OBVIOUS
    <3>1. CASE i = Len(q) + 1
      BY <2>2, <2>3, <2>4, <3>1
    <3>2. CASE i # Len(q) + 1
      <4>1. i \in 1..Len(q)
        BY <1>5, <2>2, <3>2
      <4>2. w[i] = q[i] /\ Append(v, x)[i] = v[i] /\ v[i] = View(q[i])
        BY <1>5, <2>2, <2>4, <4>1
      <4> QED
        BY <4>2
    <3> QED
      BY <3>1, <3>2
  <2>7. Viewed(w) = [i \in 1..Len(w) |-> Append(v, x)[i]]
    BY <2>6 DEF Viewed
  <2> QED
    BY <2>1, <2>3, <2>5, <2>7
<1>7. ASSUME q # <<>>
      PROVE  v # <<>> /\ Head(v) = View(Head(q)) /\ Viewed(Tail(q)) = Tail(v)
  <2>1. Len(q) > 0 /\ v # <<>>
    BY <1>5, <1>7
  <2>2. Head(v) = View(Head(q))
    <3>1. Head(v) = v[1] /\ Head(q) = q[1] /\ 1 \in 1..Len(q)
      BY <1>5, <2>1
    <3> QED
      BY <1>5, <3>1
  <2>3. PICK t : t = Tail(q)
    OBVIOUS
  <2>4. /\ t \in Seq(Jobs) /\ Len(t) = Len(q) - 1 /\ Len(t) \in Nat
        /\ \A i \in 1..Len(t) : t[i] = q[i + 1] /\ i + 1 \in 1..Len(q)
    BY <1>7, <2>1, <2>3
  <2>5. /\ Tail(v) = [i \in 1..Len(t) |-> Tail(v)[i]]
        /\ \A i \in 1..Len(t) : Tail(v)[i] = v[i + 1]
    <3> HIDE DEF Views
    <3>1. PICK a : a = Tail(v)
      OBVIOUS
    <3>2. a \in Seq(Views) /\ Len(t) = Len(a)
      BY <1>5, <2>1, <2>4, <3>1
    <3>3. a = [i \in 1..Len(t) |-> a[i]]
      BY <3>2, SeqIsFunction
    <3>4. \A i \in 1..Len(t) : a[i] = v[i + 1]
      BY <1>5, <2>1, <2>4, <3>1
    <3> QED
      BY <3>1, <3>3, <3>4
  <2>6. \A i \in 1..Len(t) : Tail(v)[i] = View(t[i])
    BY <1>5, <2>4, <2>5
  <2>7. Viewed(t) = [i \in 1..Len(t) |-> Tail(v)[i]]
    BY <2>6 DEF Viewed
  <2> QED
    BY <2>1, <2>2, <2>3, <2>5, <2>7
<1> QED
  BY <1>3, <1>5, <1>6, <1>7

\* The state of LiveView in three parts: a step leaves some of them.
SameCamera == UNCHANGED <<sequence, latest>>
SameDetection == Shown' = Shown /\ UNCHANGED <<enabled, boundary, published, streak, triggered>>
SameRequests == UNCHANGED <<Asking, Asked, Answer>>

LEMMA SameParts ==
  /\ SameCamera => UNCHANGED L!camera
  /\ SameDetection => UNCHANGED L!detection
  /\ SameRequests => UNCHANGED L!requests
  /\ SameCamera /\ SameDetection /\ SameRequests => UNCHANGED L!vars
BY DEF SameCamera, SameDetection, SameRequests, L!camera, L!detection, L!requests, L!vars

LEMMA RequestsStay ==
  ASSUME UNCHANGED <<snapshots, io>>,
         network' = network \/ (network.pc # "push" /\ network'.pc # "push")
  PROVE  SameRequests
<1>1. Asking' = Asking
  BY DEF Asking, NoJob, None, View
<1>2. Asked' = Asked /\ Answer' = Answer
  BY DEF Asked, Queued, Answer, NoJob, None, View
<1> QED
  BY <1>1, <1>2 DEF SameRequests

LEMMA ShownStays == UNCHANGED <<mutex, detection_frame>> => Shown' = Shown
BY DEF Shown, Unlocked


LEMMA CaptureViews == Typed /\ Order /\ CaptureLoop => [L!Next]_(L!vars)
<1> SUFFICES ASSUME Typed, Order, CaptureLoop PROVE [L!Next]_(L!vars)
  OBVIOUS
<1>t. capture.frame.sequence \in Nat /\ sequence \in Nat /\ published \in Nat
  BY DEF Typed, CaptureTyped, NumbersTyped, Frames
<1>0. /\ SameRequests /\ UNCHANGED <<enabled, mutex, published, triggered>>
      /\ UNCHANGED L!requests
  <2>1. CaptureFrame
    BY CaptureLeaves
  <2> QED
    BY <2>1, RequestsStay, SameParts DEF CaptureFrame, jobs
<1>1. CASE CaptureCopied
  <2>1. /\ sequence' = sequence + 1
        /\ UNCHANGED <<latest, boundary, streak, detection_frame>>
    BY <1>1 DEF CaptureCopied, CaptureLocal
  <2>2. SameDetection
    BY <1>0, <2>1, ShownStays DEF SameDetection
  <2>3. L!Take
    BY <1>0, <2>1, <2>2, SameParts DEF L!Take
  <2> QED
    BY <2>3 DEF L!Next
<1>2. CASE CaptureLatest
  <2>1. /\ latest' = capture.frame /\ Copied
        /\ UNCHANGED <<sequence, boundary, streak, detection_frame>>
    BY <1>2 DEF CaptureLatest, CaptureLocal, Capture, Copied
  <2>2. SameDetection
    BY <1>0, <2>1, ShownStays DEF SameDetection
  <2>3. latest'.sequence = sequence /\ sequence > 0
    BY <1>t, <2>1 DEF Order
  <2>4. L!Show
    BY <1>0, <2>1, <2>2, <2>3, SameParts DEF L!Show
  <2> QED
    BY <2>4 DEF L!Next
<1>3. ASSUME NEW from, NEW to, CaptureForget(from, to) PROVE L!Next
  <2>1. /\ boundary' = sequence /\ streak' = 0 /\ sequence' = sequence
        /\ latest' = None /\ detection_frame' = None /\ mutex = "free"
    BY <1>3 DEF CaptureForget, NewEpoch
  <2>2. Shown' = 0 /\ latest'.sequence = 0
    BY <2>1 DEF Shown, None
  <2>3. L!Lose
    BY <1>0, <2>1, <2>2 DEF L!Lose, L!Interrupted
  <2> QED
    BY <2>3 DEF L!Next
<1>4. CASE ~(CaptureCopied \/ CaptureLatest \/ \E from, to : CaptureForget(from, to))
  <2>1. UNCHANGED <<sequence, latest, boundary, streak, detection_frame>>
    BY <1>4 DEF CaptureLoop, CaptureReplay, CaptureTop, CaptureRestart, CaptureClear,
       CaptureOpen, CaptureAcquire, CaptureStamp, CaptureCopyFails, CaptureOffer, CapturePush,
       CaptureLocal
  <2> QED
    BY <1>0, <2>1, ShownStays, SameParts DEF SameCamera, SameDetection
<1> QED
  BY <1>1, <1>2, <1>3, <1>4

LEMMA InferViews ==
  Typed /\ Ages /\ Order /\ Confirming /\ InferenceLoop => [L!Next]_(L!vars)
<1> SUFFICES ASSUME Typed, Ages, Order, Confirming, InferenceLoop PROVE [L!Next]_(L!vars)
  OBVIOUS
<1>t. /\ infer.frame.sequence \in Nat /\ sequence \in Nat /\ published \in Nat
      /\ boundary \in Nat /\ streak \in 0..EventConfirm /\ EventConfirm \in Nat \ {0}
      /\ triggered \in Nat /\ infer.person \in BOOLEAN
  BY LimitAssumption DEF Typed, InferTyped, NumbersTyped, Frames
<1>0. /\ SameRequests /\ SameCamera /\ mutex' = mutex
      /\ UNCHANGED L!requests /\ UNCHANGED L!camera
  <2>1. InferFrame
    BY InferLeaves
  <2> QED
    BY <2>1, RequestsStay, SameParts DEF InferFrame, jobs, camera, SameCamera
<1>1. CASE InferPublish
  <2> DEFINE n == IF infer.person THEN LeastOf(infer.confirmed + 1, EventConfirm) ELSE 0
             m == IF infer.person THEN LeastOf(streak + 1, EventConfirm) ELSE 0
             f == infer.frame.sequence
  <2>1. /\ infer.pc = "publish" /\ infer.frame.generation = inference_epoch /\ enabled
        /\ mutex = "free" /\ detection_frame' = infer.frame /\ published' = f
        /\ streak' = m /\ triggered' = IF n >= EventConfirm THEN f ELSE triggered
        /\ UNCHANGED <<enabled, boundary>>
    BY <1>1 DEF InferPublish, Current
  <2>2. n = m /\ published < f
    BY <2>1 DEF Confirming, Inferring, Order
  <2>3. Fresh(infer.frame)
    BY <2>1 DEF Ages, InferAges
  <2>4. boundary < f /\ f <= sequence
    BY <2>1, <2>3 DEF Fresh, FreshAt
  <2>5. Shown' = f
    BY <1>0, <2>1 DEF Shown, Unlocked
  <2>6. /\ m = IF ~infer.person THEN 0 ELSE IF streak < EventConfirm THEN streak + 1 ELSE streak
        /\ m >= EventConfirm <=> m = EventConfirm
    BY <1>t DEF LeastOf
  <2>7. triggered' = IF streak' = EventConfirm THEN f ELSE triggered
    BY <2>1, <2>2, <2>6
  <2>8. L!Publish(f, infer.person)
    <3> HIDE DEF n, m
    <3> QED
      BY <1>0, <2>1, <2>2, <2>4, <2>5, <2>6, <2>7 DEF L!Publish
  <2>9. f \in 1..sequence
    BY <1>t, <2>2, <2>4
  <2> HIDE DEF n, m, f
  <2> QED
    BY <1>t, <2>8, <2>9 DEF L!Next
<1>2. CASE InferDisable /\ infer.frame.generation = inference_epoch
  <2>1. /\ infer.pc = "disable" /\ enabled' = FALSE /\ boundary' = sequence /\ streak' = 0
        /\ UNCHANGED <<detection_frame, published, triggered>>
    BY <1>2 DEF InferDisable, NewEpoch
  <2>2. Fresh(infer.frame)
    BY <2>1 DEF Ages, InferAges
  <2>3. sequence > boundary
    BY <1>2, <1>t, <2>2 DEF Fresh, FreshAt
  <2>4. Shown' = Shown
    BY <1>0, <2>1, ShownStays
  <2>5. L!Pause
    BY <1>0, <2>1, <2>3, <2>4 DEF L!Pause, L!Interrupted, SameCamera
  <2> QED
    BY <2>5 DEF L!Next
<1>3. ASSUME UNCHANGED <<enabled, detection_frame, boundary, published, triggered>>,
             streak' = streak \/ streak' = 0
      PROVE  [L!Next]_(L!vars)
  <2>1. Shown' = Shown
    BY <1>0, <1>3, ShownStays
  <2>2. CASE streak' = streak
    BY <1>0, <1>3, <2>1, <2>2, SameParts DEF SameDetection
  <2>3. CASE streak' = 0
    <3>1. L!Pass
      BY <1>0, <1>3, <2>1, <2>3 DEF L!Pass
    <3> QED
      BY <3>1 DEF L!Next
  <2> QED
    BY <1>3, <2>2, <2>3
<1>4. CASE ~(InferPublish \/ (InferDisable /\ infer.frame.generation = inference_epoch))
  <2>1. /\ UNCHANGED <<enabled, detection_frame, boundary, published, triggered>>
        /\ streak' = streak \/ streak' = 0
    BY <1>4 DEF InferenceLoop, InferTop, InferPopEmpty, InferPop, InferCheck, InferExpired,
       InferCompletes, InferThrows, InferStale, InferDiscard, InferDisable, InferDrain, InferLocal
  <2> QED
    BY <1>3, <2>1
<1> QED
  BY <1>1, <1>2, <1>4


LEMMA NetworkViews ==
  Typed /\ Locked /\ Existing /\ ViewPaired /\ Network => [L!Next]_(L!vars)
<1> SUFFICES ASSUME Typed, Locked, Existing, ViewPaired, Network PROVE [L!Next]_(L!vars)
  OBVIOUS
<1>t. /\ network \in [pc : {"idle", "commit", "push", "exit"}, job : Jobs]
      /\ snapshots \in Seq(Jobs) /\ detection_frame \in Frames /\ latest \in Frames
  BY DEF Typed, RequestsTyped, ViewsTyped
<1>0. SameCamera /\ UNCHANGED <<io, published, triggered>> /\ UNCHANGED L!camera
  BY NetworkLeaves, SameParts DEF SameCamera, camera
<1>1. ASSUME NEW cmd, StartStop(cmd) PROVE L!Next
  <2>1. /\ mutex' = "network" /\ boundary' = sequence /\ streak' = 0 /\ enabled' \in BOOLEAN
        /\ snapshots' = snapshots /\ network.pc = "idle" /\ network'.pc = "commit"
    BY <1>1, <1>t DEF StartStop, NewEpoch
  <2>2. Shown' = 0
    BY <2>1 DEF Shown, Unlocked
  <2>3. UNCHANGED L!requests
    BY <1>0, <2>1, RequestsStay, SameParts
  <2>4. L!Switch
    BY <1>0, <2>1, <2>2, <2>3 DEF L!Switch, L!Interrupted, SameCamera
  <2> QED
    BY <2>4 DEF L!Next
<1>2. CASE StartStopCommit
  <2>1. /\ mutex = "network" /\ detection_frame' = None /\ network.pc = "commit"
        /\ network'.pc = "idle" /\ UNCHANGED <<snapshots, enabled, boundary, streak>>
    BY <1>2, <1>t DEF StartStopCommit, Locked
  <2>2. Shown' = Shown
    BY <2>1 DEF Shown, Unlocked, None
  <2>3. SameRequests
    BY <1>0, <2>1, RequestsStay
  <2> QED
    BY <1>0, <2>1, <2>2, <2>3, SameParts DEF SameDetection
<1>3. CASE RestartCamera \/ NetworkFails
  <2>1. /\ UNCHANGED <<mutex, detection_frame, snapshots, enabled, boundary, streak>>
        /\ network' = network \/ (network.pc = "idle" /\ network'.pc = "exit")
    BY <1>3, <1>t DEF RestartCamera, NetworkFails, NetworkLocal, views, jobs, history
  <2>2. SameRequests
    BY <1>0, <2>1, RequestsStay
  <2> QED
    BY <1>0, <2>1, <2>2, ShownStays, SameParts DEF SameDetection
<1>4. ASSUME NEW cmd, NEW job, Request(cmd, job)
      PROVE  /\ SameDetection /\ UNCHANGED L!detection /\ mutex = "free" /\ job.frame # None
             /\ Asking = L!NoRequest /\ Asking' = View(job)
             /\ Asked' = Asked /\ Answer' = Answer
  <2>1. /\ UNCHANGED <<mutex, detection_frame, snapshots, enabled, boundary, streak>>
        /\ network.pc = "idle" /\ network' = [pc |-> "push", job |-> job]
        /\ mutex = "free" /\ job.frame # None
    BY <1>4 DEF Request, NetworkLocal
  <2>2. SameDetection
    BY <1>0, <2>1, ShownStays DEF SameDetection
  <2>3. Asking = L!NoRequest
    BY <2>1 DEF Asking, View, NoJob, None, L!NoRequest
  <2>4. Asking' = View(job)
    BY <2>1 DEF Asking, View
  <2>5. Asked' = Asked /\ Answer' = Answer
    BY <1>0, <2>1 DEF Asked, Queued, Answer, View, NoJob, None
  <2> QED
    BY <2>1, <2>2, <2>3, <2>4, <2>5, SameParts
<1>5. CASE GetPreview
  <2>1. PICK job : job = [frame |-> detection_frame, preview |-> TRUE, detections |-> detections]
    OBVIOUS
  <2>2. Request("get_preview", job)
    BY <1>5, <2>1 DEF GetPreview
  <2>3. /\ UNCHANGED L!detection /\ mutex = "free" /\ job.frame # None
        /\ Asking = L!NoRequest /\ Asking' = View(job)
        /\ Asked' = Asked /\ Answer' = Answer
    BY <1>4, <2>2
  <2>4. Shown = detection_frame.sequence /\ Shown > 0
    BY <2>1, <2>3 DEF Shown, Unlocked, Existing
  <2>5. View(job) = [preview |-> TRUE, image |-> Shown, detections |-> Shown]
    BY <2>1, <2>3, <2>4 DEF View, ViewPaired
  <2>6. Shown # 0
    BY <2>4
  <2>7. L!Preview
    BY <1>0, <2>3, <2>5, <2>6 DEF L!Preview, L!Ask
  <2> QED
    BY <2>7 DEF L!Next
<1>6. CASE CaptureCommand
  <2>1. PICK job : job = [frame |-> latest, preview |-> FALSE, detections |-> 0]
    OBVIOUS
  <2>2. Request("capture", job)
    BY <1>6, <2>1 DEF CaptureCommand
  <2>3. /\ UNCHANGED L!detection /\ job.frame # None
        /\ Asking = L!NoRequest /\ Asking' = View(job)
        /\ Asked' = Asked /\ Answer' = Answer
    BY <1>4, <2>2
  <2>4. latest.sequence # 0
    BY <2>1, <2>3 DEF Existing
  <2>5. View(job) = [preview |-> FALSE, image |-> latest.sequence, detections |-> 0]
    BY <2>1 DEF View
  <2>6. L!Capture
    BY <1>0, <2>3, <2>4, <2>5 DEF L!Capture, L!Ask
  <2> QED
    BY <2>6 DEF L!Next
<1>7. CASE RequestPush
  <2>1. /\ UNCHANGED <<mutex, detection_frame, enabled, boundary, streak>>
        /\ network.pc = "push" /\ network'.pc = "idle" /\ network.job \in Jobs
        /\ snapshots' = snapshots \/ snapshots' = Append(snapshots, network.job)
    BY <1>7, <1>t DEF RequestPush, NetworkLocal
  <2>2. UNCHANGED L!detection
    BY <1>0, <2>1, ShownStays, SameParts DEF SameDetection
  <2>3. Asking = View(network.job) /\ Asking' = L!NoRequest
    BY <2>1 DEF Asking, View, NoJob, None, L!NoRequest
  <2>4. Asking # L!NoRequest
    <3>1. Asking.image > 0 /\ L!NoRequest.image = 0
      BY <2>1, <2>3 DEF View, Existing, L!NoRequest
    <3> QED
      BY <3>1
  <2>5. Answer' = Answer
    BY <1>0 DEF Answer, View, NoJob, None
  <2>6. Asked' \in {Asked, Append(Asked, Asking)}
    <3>1. CASE snapshots' = snapshots
      BY <1>0, <3>1 DEF Asked, Queued, View
    <3>2. CASE snapshots' = Append(snapshots, network.job)
      <4>1. PICK q : q = Queued
        OBVIOUS
      <4>2. io.job \in Jobs
        BY DEF Typed, RequestsTyped
      <4>3. q \in Seq(Jobs) /\ Queued' = Append(q, network.job)
        BY <1>0, <1>t, <2>1, <3>2, <4>1, <4>2 DEF Queued
      <4>4. Asked' = Viewed(Append(q, network.job)) /\ Asked = Viewed(q)
        BY <4>1, <4>3 DEF Asked, Viewed, View
      <4> QED
        BY <2>1, <2>3, <4>3, <4>4, ViewedFacts
    <3> QED
      BY <2>1, <3>1, <3>2
  <2>7. L!Accept
    BY <1>0, <2>2, <2>3, <2>4, <2>5, <2>6 DEF L!Accept
  <2> QED
    BY <2>7 DEF L!Next
<1> QED
  BY <1>1, <1>2, <1>3, <1>5, <1>6, <1>7, Zenon DEF Network

LEMMA SnapshotViews == Typed /\ Ages /\ SnapshotLoop => [L!Next]_(L!vars)
<1> SUFFICES ASSUME Typed, Ages, SnapshotLoop PROVE [L!Next]_(L!vars)
  OBVIOUS
<1>t. /\ io \in [pc : {"pop", "closed", "encode", "reply", "exit"}, job : Jobs, ok : BOOLEAN]
      /\ snapshots \in Seq(Jobs)
  BY DEF Typed, RequestsTyped
<1>0. /\ SameCamera /\ SameDetection /\ Asking' = Asking
      /\ UNCHANGED L!camera /\ UNCHANGED L!detection
  <2>1. IoFrame
    BY SnapshotLeaves
  <2>2. Asking' = Asking
    BY <2>1 DEF IoFrame, Asking, View, NoJob, None
  <2>3. UNCHANGED <<mutex, detection_frame, sequence, latest, enabled, boundary, published,
                    streak, triggered>>
    BY <2>1 DEF IoFrame, flags, views, camera, history
  <2> QED
    BY <2>2, <2>3, ShownStays, SameParts DEF SameCamera, SameDetection
<1>1. ASSUME Queued' = Queued, io.pc # "reply", io'.pc # "reply" PROVE UNCHANGED L!vars
  <2>1. Asked' = Asked /\ Answer' = Answer
    BY <1>1 DEF Asked, Answer, View, NoJob, None
  <2> QED
    BY <1>0, <2>1, SameParts DEF SameRequests
<1>2. CASE IoPop
  <2>1. CASE snapshots = <<>>
    <3>1. io.pc = "pop" /\ io'.pc = "closed" /\ snapshots' = snapshots
      BY <1>2, <1>t, <2>1 DEF IoPop
    <3> QED
      BY <1>1, <3>1 DEF Queued
  <2>2. CASE snapshots # <<>>
    <3>1. /\ io.pc = "pop" /\ io'.pc = "encode" /\ io'.job = Head(snapshots)
          /\ snapshots' = Tail(snapshots)
      BY <1>2, <1>t, <2>2 DEF IoPop
    <3>2. <<Head(snapshots)>> \o Tail(snapshots) = snapshots /\ <<>> \o snapshots = snapshots
      BY <1>t, <2>2
    <3>3. Queued' = snapshots /\ Queued = snapshots
      BY <3>1, <3>2 DEF Queued
    <3> QED
      BY <1>1, <3>1, <3>3
  <2> QED
    BY <2>1, <2>2
<1>3. CASE IoClosed
  <2>1. /\ io.pc = "closed" /\ io'.pc \in {"exit", "pop"} /\ snapshots' = snapshots
    BY <1>3, <1>t DEF IoClosed
  <2> QED
    BY <1>1, <2>1 DEF Queued
<1>4. CASE IoEncode
  <2>1. PICK ok \in BOOLEAN : /\ ok /\ io.job.preview => Current(io.job.frame)
                              /\ io' = [io EXCEPT !.pc = "reply", !.ok = ok]
    BY <1>4 DEF IoEncode
  <2>2. /\ io.pc = "encode" /\ io'.pc = "reply" /\ io'.ok = ok /\ io'.job = io.job
        /\ snapshots' = snapshots /\ io.job \in Jobs
    BY <1>4, <1>t, <2>1 DEF IoEncode
  <2>3. PICK q : q = <<io.job>> \o snapshots
    OBVIOUS
  <2>4. q \in Seq(Jobs) /\ q # <<>> /\ Head(q) = io.job /\ Tail(q) = snapshots
    BY <1>t, <2>2, <2>3
  <2>5. Queued = q /\ Queued' = snapshots
    BY <1>t, <2>2, <2>3 DEF Queued
  <2>6. Asked = Viewed(q) /\ Asked' = Viewed(snapshots)
    BY <2>5 DEF Asked, Viewed, View
  <2>7. Asked # <<>> /\ Head(Asked) = View(io.job) /\ Asked' = Tail(Asked)
    BY <2>4, <2>6, ViewedFacts
  <2>8. Answer = L!NoAnswer /\ Answer' = [request |-> View(io.job), ok |-> ok]
    BY <2>2 DEF Answer, L!NoAnswer, L!NoRequest, View, NoJob, None
  <2>9. ok /\ View(io.job).preview => enabled /\ boundary < View(io.job).image
    <3>1. View(io.job).preview = io.job.preview /\ View(io.job).image = io.job.frame.sequence
      BY DEF View
    <3>2. io.job.preview => Fresh(io.job.frame)
      BY <2>2 DEF Ages, RequestAges
    <3>3. Current(io.job.frame) /\ Fresh(io.job.frame) => enabled /\ boundary < io.job.frame.sequence
      BY DEF Current, Fresh, FreshAt
    <3> QED
      BY <2>1, <3>1, <3>2, <3>3
  <2>10. L!Answer(ok)
    BY <1>0, <2>7, <2>8, <2>9 DEF L!Answer
  <2> QED
    BY <2>1, <2>10 DEF L!Next
<1>5. CASE IoReply
  <2>1. io.pc = "reply" /\ io'.pc = "pop" /\ snapshots' = snapshots
    BY <1>5, <1>t DEF IoReply
  <2>2. Queued' = Queued /\ Answer' = L!NoAnswer
    BY <2>1 DEF Queued, Answer, L!NoAnswer, L!NoRequest, View, NoJob, None
  <2>3. Asked' = Asked
    BY <2>2 DEF Asked, View
  <2>4. L!Deliver
    BY <1>0, <2>2, <2>3 DEF L!Deliver
  <2> QED
    BY <2>4 DEF L!Next
<1> QED
  BY <1>2, <1>3, <1>4, <1>5 DEF SnapshotLoop

LEMMA MainViews == Typed /\ (StopBegin \/ Stop) => [L!Next]_(L!vars)
<1> SUFFICES ASSUME Typed, StopBegin \/ Stop PROVE [L!Next]_(L!vars)
  OBVIOUS
<1>t. network \in [pc : {"idle", "commit", "push", "exit"}, job : Jobs]
  BY DEF Typed, RequestsTyped
<1>0. /\ MainFrame /\ snapshots' = snapshots
      /\ network' = network \/ (network.pc # "push" /\ network'.pc # "push")
  <2>1. /\ snapshots' = snapshots
        /\ network' = network \/ (network.pc \in {"idle", "exit"} /\ network'.pc = "exit")
    BY <1>t DEF StopBegin, Stop, CloseInference, CloseSnapshots, Join, StopLoop, StopReset, jobs
  <2> QED
    BY <2>1, MainLeaves
<1>1. SameRequests /\ UNCHANGED L!requests
  BY <1>0, RequestsStay, SameParts DEF MainFrame
<1>2. UNCHANGED <<enabled, boundary, published, streak, triggered, sequence, mutex>>
  BY <1>0 DEF MainFrame, camera, history
<1>3. CASE StopReset
  <2>1. latest' = None /\ detection_frame' = None
    BY <1>3 DEF StopReset
  <2>2. latest'.sequence = 0 /\ Shown' = 0
    BY <2>1 DEF Shown, None
  <2>3. L!Clear
    BY <1>1, <1>2, <2>2 DEF L!Clear
  <2> QED
    BY <2>3 DEF L!Next
<1>4. CASE ~StopReset
  <2>1. UNCHANGED <<latest, detection_frame>>
    BY <1>4 DEF StopBegin, Stop, CloseInference, CloseSnapshots, Join, StopLoop
  <2> QED
    BY <1>1, <1>2, <2>1, ShownStays, SameParts DEF SameCamera, SameDetection
<1> QED
  BY <1>3, <1>4

\* The threads with their queues, lock and generations do no more than LiveView: an
\* interruption takes effect at once, whatever is being copied, queued, inferred or
\* encoded, and requests are answered in turn.
THEOREM ImplementsLiveView == Spec => RefinesLiveView
<1> DEFINE Rest == Order /\ Confirming /\ ViewPaired /\ Locked /\ Existing
<1>1. Init => L!Init
  <2> SUFFICES ASSUME Init PROVE L!Init
    OBVIOUS
  <2>1. Asking = L!NoRequest /\ Answer = L!NoAnswer /\ Shown = 0 /\ latest.sequence = 0
    BY DEF Init, Asking, Answer, Shown, View, NoJob, None, L!NoRequest, L!NoAnswer
  <2>2. Asked = <<>>
    <3>1. Queued = <<>>
      BY DEF Init, Queued
    <3> QED
      BY <3>1 DEF Asked
  <2> QED
    BY <2>1, <2>2 DEF Init, L!Init
<1>2. Init => Rest
  BY DEF Init, Order, Inferring, Copied, Confirming, ViewPaired, Locked, Existing, NoJob
<1>3. Typed /\ Ages /\ Rest /\ [Next]_vars => Rest'
  BY OrderInductive, ConfirmingInductive, ViewPairing, LockedInductive, ExistingInductive
<1>4. Typed /\ Ages /\ Rest /\ [Next]_vars => [L!Next]_(L!vars)
  <2> SUFFICES ASSUME Typed, Ages, Rest, [Next]_vars PROVE [L!Next]_(L!vars)
    OBVIOUS
  <2>1. CASE UNCHANGED vars
    <3>1. UNCHANGED <<mutex, detection_frame, sequence, latest, enabled, boundary, published,
                      streak, triggered, snapshots, io, network>>
      BY <2>1 DEF vars, flags, views, camera, jobs, history
    <3>2. SameRequests /\ Shown' = Shown
      BY <3>1, RequestsStay, ShownStays
    <3> QED
      BY <3>1, <3>2, SameParts DEF SameCamera, SameDetection
  <2> QED
    BY <2>1, CaptureViews, InferViews, NetworkViews, SnapshotViews, MainViews, Zenon
    DEF Next, Terminated
<1> QED
  BY <1>1, <1>2, <1>3, <1>4, AgesInvariance, PTL DEF Spec, RefinesLiveView, L!Spec
===============================================================================
