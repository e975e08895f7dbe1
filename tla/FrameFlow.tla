------------------------------ MODULE FrameFlow -------------------------------
(***************************************************************************)
(* Who holds the frames of the pool (core/memory/FramePool.h).  A frame is *)
(* in the pool exactly while nobody holds it: the deleter of the last      *)
(* reference puts it back, whichever thread that is.  The capture writes   *)
(* into a frame it acquired, and publishes it to the network thread, the   *)
(* inference and the encoder, which read it without a lock.                *)
(*                                                                         *)
(* The encoder is external: it holds what was wrapped into a buffer for    *)
(* it until it drops the buffer, and may stop doing so.                    *)
(***************************************************************************)
EXTENDS QueueOps, FiniteSets, Functions

CONSTANTS
  Frames,          \* the frames of the pool
  InferenceSize,   \* capacity of inference_
  VideoSize,       \* capacity of frames_
  JobSize,         \* capacity of snapshots_
  InputLimit       \* the frames the encoder may hold before one more is dropped

NoFrame == "no frame"

ASSUME FrameAssumption ==
  /\ IsFiniteSet(Frames)
  /\ {InferenceSize, VideoSize, JobSize} \subseteq Nat \ {0}
  /\ InputLimit \in Nat
  /\ NoFrame \notin Frames

VARIABLES
  fpc,         \* captureLoop: what it does with its frame
  filling,     \* captureLoop: frame
  latest,      \* latest_
  detection,   \* detection_frame_
  inferring,   \* inferenceLoop: frame
  inference,   \* inference_
  jobs,        \* the frames in snapshots_
  job,         \* snapshotLoop: job.frame
  waiting,     \* VideoService: frames_
  input        \* external: the frames of the buffers that the encoder holds

capturevars == <<fpc, filling>>
statevars == <<latest, detection>>
inferencevars == <<inference, inferring>>
jobvars == <<jobs, job>>
encodervars == <<waiting, input>>
framevars == <<capturevars, statevars, inferencevars, jobvars, encodervars>>

Holders == {latest, detection, inferring, job}

FrameTypeOK ==
  /\ fpc \in {"acquire", "fill", "inference", "video"}
  /\ {filling} \cup Holders \subseteq Frames \cup {NoFrame}
  /\ {inference, jobs, waiting, input} \subseteq Seq(Frames)
  /\ Len(inference) <= InferenceSize /\ Len(waiting) <= VideoSize /\ Len(jobs) <= JobSize
  /\ Len(input) <= InputLimit

FrameInit ==
  /\ fpc = "acquire" /\ filling = NoFrame
  /\ latest = NoFrame /\ detection = NoFrame /\ inferring = NoFrame /\ job = NoFrame
  /\ inference = <<>> /\ jobs = <<>> /\ waiting = <<>>
  /\ input = <<>>

-------------------------------------------------------------------------------
\* Everybody but the capture that has a reference.
Shared ==
  Holders \cup UNION {Range(queue) : queue \in {inference, jobs, waiting, input}}

\* (mutant) a buffer for the encoder points at the bytes and holds no reference.
MPool ==
  Frames \ ({filling} \cup Holders \cup UNION {Range(queue) : queue \in {inference, jobs, waiting}})

\* The free frames of the pool.
Pool == Frames \ ({filling} \cup Shared)

-------------------------------------------------------------------------------
(* captureLoop *)

\* Which of the free frames acquire hands out makes no difference.
Acquire ==
  /\ fpc = "acquire" /\ Pool # {}
  /\ filling' = CHOOSE frame \in Pool : TRUE
  /\ fpc' = "fill"
  /\ UNCHANGED <<statevars, inferencevars, jobvars, encodervars>>

\* The camera has none: the frame goes back; after too many failures the results
\* are given up.
FillFails ==
  /\ fpc = "fill"
  /\ fpc' = "acquire" /\ filling' = NoFrame
  /\ \/ latest' = NoFrame /\ detection' = NoFrame /\ inference' = <<>>
     \/ UNCHANGED <<statevars, inference>>
  /\ UNCHANGED <<inferring, jobvars, encodervars>>

\* restart_camera, before the next frame.
RestartCapture ==
  /\ fpc = "acquire"
  /\ latest' = NoFrame /\ detection' = NoFrame /\ inference' = <<>>
  /\ UNCHANGED <<capturevars, inferring, jobvars, encodervars>>

\* The frame is complete: it becomes latest_.
Fill ==
  /\ fpc = "fill" /\ fpc' = "inference"
  /\ latest' = filling
  /\ UNCHANGED <<filling, detection, inferencevars, jobvars, encodervars>>

\* Inference may be off.
PublishInference ==
  /\ fpc = "inference" /\ fpc' = "video"
  /\ inference' \in {inference, AfterPushLatest(inference, InferenceSize, filling)}
  /\ UNCHANGED <<filling, statevars, inferring, jobvars, encodervars>>

\* Video may be off or unhealthy.  The capture's own reference ends here.
PublishVideo ==
  /\ fpc = "video" /\ fpc' = "acquire" /\ filling' = NoFrame
  /\ waiting' \in {waiting, AfterPushLatest(waiting, VideoSize, filling)}
  /\ UNCHANGED <<statevars, inferencevars, jobvars, input>>

Publish == PublishInference \/ PublishVideo

-------------------------------------------------------------------------------
(* The readers. *)

PopInference ==
  /\ inferring = NoFrame /\ inference # <<>>
  /\ inferring' = Newest(inference) /\ inference' = <<>>
  /\ UNCHANGED <<capturevars, statevars, jobvars, encodervars>>

\* The result is published with its frame, or discarded.
EndFrame ==
  /\ inferring # NoFrame
  /\ inferring' = NoFrame /\ detection' \in {detection, inferring}
  /\ UNCHANGED <<capturevars, latest, inference, jobvars, encodervars>>

\* The commands start and stop.
ResetInference ==
  /\ detection' = NoFrame /\ inference' = <<>>
  /\ UNCHANGED <<capturevars, latest, inferring, jobvars, encodervars>>

\* The commands capture and get_preview.
TakeSnapshot ==
  /\ Accepts(jobs, JobSize, FALSE)
  /\ \E frame \in {latest, detection} \ {NoFrame} : jobs' = Append(jobs, frame)
  /\ UNCHANGED <<capturevars, statevars, inferencevars, job, encodervars>>

\* snapshotLoop lets go of a job before it waits for the next.
PopJob ==
  /\ job = NoFrame /\ jobs # <<>>
  /\ job' = Head(jobs) /\ jobs' = Tail(jobs)
  /\ UNCHANGED <<capturevars, statevars, inferencevars, encodervars>>

EndJob ==
  /\ job # NoFrame /\ job' = NoFrame
  /\ UNCHANGED <<capturevars, statevars, inferencevars, jobs, encodervars>>

-------------------------------------------------------------------------------
(* VideoService::run, and the encoder. *)

\* (mutant) a frame waits until the encoder has room for it.
MPushVideo ==
  /\ waiting # <<>> /\ Len(input) < InputLimit
  /\ waiting' = Tail(waiting)
  /\ input' = Append(input, Head(waiting))
  /\ UNCHANGED <<capturevars, statevars, inferencevars, jobvars>>

\* The frame is wrapped into a buffer, or dropped when there are enough of them in
\* front of the encoder or the service is unhealthy.
PushVideo ==
  /\ waiting # <<>> /\ waiting' = Tail(waiting)
  /\ \/ Len(input) < InputLimit /\ input' = Append(input, Head(waiting))
     \/ UNCHANGED input
  /\ UNCHANGED <<capturevars, statevars, inferencevars, jobvars>>

EncoderReleases ==
  /\ input # <<>> /\ input' = Tail(input)
  /\ UNCHANGED <<capturevars, statevars, inferencevars, jobvars, waiting>>

FrameNext ==
  \/ RestartCapture \/ Acquire \/ Fill \/ FillFails \/ Publish
  \/ PopInference \/ EndFrame \/ ResetInference \/ TakeSnapshot \/ PopJob \/ EndJob
  \/ PushVideo \/ EncoderReleases

\* Every thread of the program goes on; the encoder may not.
FrameFairness ==
  /\ WF_framevars(Acquire \/ Fill \/ Publish)
  /\ WF_framevars(PopInference \/ EndFrame)
  /\ WF_framevars(PopJob \/ EndJob)
  /\ WF_framevars(PushVideo)

FrameSpec == FrameInit /\ [][FrameNext]_framevars /\ FrameFairness

-------------------------------------------------------------------------------
(* Properties. *)

\* What a frame holds does not change under its readers: the capture writes only
\* into one that nobody else has (FramePool.h:10, "immutable after publication").
Immutable == fpc = "fill" => filling \notin Shared

\* The capture gets its next frame, whoever is slow, and even when the encoder
\* never gives back the ones it has.
CaptureProceeds == fpc = "acquire" ~> fpc = "fill"
===============================================================================
