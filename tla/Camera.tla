-------------------------------- MODULE Camera --------------------------------
(***************************************************************************)
(* V4L2Camera (hardware/v4l2_camera/V4L2Camera.cpp) and the part of        *)
(* captureLoop that opens, reads, closes and opens it again                *)
(* (VisionPipeline.cpp:77-100, 131-155).  The driver owns the queued       *)
(* buffers and may write to any of them at any time.  A device that breaks *)
(* leaves the descriptor dead: calls on it fail, time out or still return  *)
(* old buffers, and only a new descriptor works again.                     *)
(***************************************************************************)
EXTENDS Integers, FiniteSets

CONSTANTS
  Buffers,       \* the buffers the driver grants
  FailureLimit,  \* consecutive failures before the camera is reopened (5)
  MaxRestarts    \* bound: restart_camera commands

\* open() gives up a driver that grants fewer than two buffers (V4L2Camera.cpp:83).
ASSUME CameraAssumption ==
  /\ IsFiniteSet(Buffers) /\ Buffers # {}
  /\ FailureLimit \in Nat \ {0} /\ MaxRestarts \in Nat

VARIABLES
  device,              \* external: "ok" or "broken"
  descriptor,          \* external: the device as fd_ sees it: "live", "dead" or "none"
  queued, filled,      \* external: buffers the driver owns, buffers it has filled
  descriptors, maps,   \* external: open descriptors and mappings of the process
  fd_open, mapped, streaming,   \* fd_ >= 0, buffers_ with data, streaming_
  opened, failures,    \* captureLoop: opened, failures
  restarts,            \* restarts so far
  cpc,                 \* captureLoop: where it is
  index, valid         \* copyFrame: b.index and valid

driver == <<device, descriptor, queued, filled>>
resources == <<descriptors, maps, fd_open, mapped, streaming>>
cameravars == <<driver, resources, opened, failures, restarts, cpc, index, valid>>

CameraTypeOK ==
  /\ device \in {"ok", "broken"} /\ descriptor \in {"live", "dead", "none"}
  /\ queued \subseteq Buffers /\ filled \subseteq Buffers /\ mapped \subseteq Buffers
  /\ descriptors \in Nat /\ maps \in Nat
  /\ fd_open \in BOOLEAN /\ streaming \in BOOLEAN /\ opened \in BOOLEAN
  /\ failures \in 0..FailureLimit /\ restarts \in 0..MaxRestarts
  /\ cpc \in {"top", "open", "opening", "failed", "poll", "copy", "requeue", "frame", "exit"}
  /\ index \in Buffers /\ valid \in BOOLEAN

CameraInit ==
  /\ device = "ok" /\ descriptor = "none" /\ queued = {} /\ filled = {}
  /\ descriptors = 0 /\ maps = 0
  /\ fd_open = FALSE /\ mapped = {} /\ streaming = FALSE
  /\ opened = FALSE /\ failures = 0 /\ restarts = 0 /\ cpc = "top"
  /\ index = (CHOOSE b \in Buffers : TRUE) /\ valid = FALSE

-------------------------------------------------------------------------------
(* The device and its driver. *)

DeviceBreaks ==
  /\ device = "ok"
  /\ device' = "broken"
  /\ descriptor' = IF descriptor = "live" THEN "dead" ELSE descriptor
  /\ UNCHANGED <<queued, filled, resources, opened, failures, restarts, cpc, index, valid>>

DeviceReturns ==
  /\ device = "broken"
  /\ device' = "ok"
  /\ UNCHANGED <<descriptor, queued, filled, resources, opened, failures, restarts, cpc, index, valid>>

FillBuffer ==
  /\ descriptor = "live" /\ streaming
  /\ \E b \in queued : queued' = queued \ {b} /\ filled' = filled \cup {b}
  /\ UNCHANGED <<device, descriptor, resources, opened, failures, restarts, cpc, index, valid>>

-------------------------------------------------------------------------------
(* V4L2Camera. *)

\* (mutant) a camera that does not stream is not closed.
MCloseCamera ==
  IF streaming
    THEN /\ descriptor' = "none" /\ queued' = {} /\ filled' = {}
         /\ streaming' = FALSE /\ mapped' = {} /\ fd_open' = FALSE
         /\ maps' = maps - Cardinality(mapped)
         /\ descriptors' = descriptors - (IF fd_open THEN 1 ELSE 0)
    ELSE UNCHANGED <<resources, descriptor, queued, filled>>

\* close(): STREAMOFF if streaming, munmap, close; the driver forgets the buffers.
CloseCamera ==
  /\ descriptor' = "none" /\ queued' = {} /\ filled' = {}
  /\ streaming' = FALSE /\ mapped' = {} /\ fd_open' = FALSE
  /\ maps' = maps - Cardinality(mapped)
  /\ descriptors' = descriptors - (IF fd_open THEN 1 ELSE 0)

CameraFrame == UNCHANGED <<resources, descriptor, queued, filled>>

\* The loop begins again: a restart may be requested, which closes the camera.
LoopTop ==
  /\ cpc = "top"
  /\ cpc' = IF opened THEN "poll" ELSE "open"
  /\ CameraFrame /\ UNCHANGED <<device, opened, failures, restarts, index, valid>>

Restart ==
  /\ cpc = "top" /\ restarts < MaxRestarts
  /\ CloseCamera /\ opened' = FALSE /\ failures' = 0
  /\ restarts' = restarts + 1 /\ cpc' = "open"
  /\ UNCHANGED <<device, index, valid>>

\* The loop ends, by running_ or by an exception.
LoopEnds ==
  /\ cpc = "top"
  /\ CloseCamera /\ cpc' = "exit"
  /\ UNCHANGED <<device, opened, failures, restarts, index, valid>>

\* open() begins with close().
OpenCloses ==
  /\ cpc = "open"
  /\ CloseCamera /\ cpc' = "opening"
  /\ UNCHANGED <<device, opened, failures, restarts, index, valid>>

\* open() && start().
OpenCamera ==
  /\ cpc = "opening" /\ device = "ok"
  /\ descriptors' = descriptors + 1 /\ fd_open' = TRUE /\ descriptor' = "live"
  /\ maps' = maps + Cardinality(Buffers) /\ mapped' = Buffers
  /\ queued' = Buffers /\ filled' = {} /\ streaming' = TRUE
  /\ opened' = TRUE /\ failures' = 0 /\ cpc' = "poll"
  /\ UNCHANGED <<device, restarts, index, valid>>

\* They fail half-way: there may be no descriptor, or one with some of the buffers
\* mapped, or with all of them mapped and some queued.
OpenFailsMidway ==
  /\ cpc = "opening" /\ device = "broken"
  /\ \E got \in BOOLEAN, some \in SUBSET Buffers, given \in SUBSET Buffers :
       /\ some # {} => got
       /\ given # {} => some = Buffers
       /\ fd_open' = got /\ descriptor' = (IF got THEN "dead" ELSE "none")
       /\ descriptors' = descriptors + (IF got THEN 1 ELSE 0)
       /\ mapped' = some /\ maps' = maps + Cardinality(some)
       /\ queued' = given
  /\ cpc' = "failed"
  /\ UNCHANGED <<device, filled, streaming, opened, failures, restarts, index, valid>>

\* captureLoop closes what was opened, and tries again two seconds later.
CloseFailed ==
  /\ cpc = "failed"
  /\ CloseCamera /\ cpc' = "top"
  /\ UNCHANGED <<device, opened, failures, restarts, index, valid>>

\* (mutant) time-outs are not counted.
MFailure(timeout, rest) ==
  IF ~timeout /\ failures + 1 >= FailureLimit
    THEN CloseCamera /\ opened' = FALSE /\ failures' = failures + 1
    ELSE /\ failures' = IF timeout THEN failures ELSE failures + 1
         /\ queued' = rest /\ UNCHANGED <<resources, descriptor, filled, opened>>

\* copyFrame returned no frame, with the buffers in rest queued: FailureLimit times in
\* a row, and the camera is closed.
Failure(timeout, rest) ==
  IF failures + 1 >= FailureLimit
    THEN CloseCamera /\ opened' = FALSE /\ failures' = failures + 1
    ELSE /\ failures' = failures + 1
         /\ queued' = rest /\ UNCHANGED <<resources, descriptor, filled, opened>>

ReadFrame == UNCHANGED <<device, restarts, index>>

\* poll and VIDIOC_DQBUF: no buffer in time.  A camera that works delivers one before
\* the last of the time-outs.
PollTimeout ==
  /\ cpc = "poll"
  /\ descriptor = "live" => filled = {} /\ failures + 1 < FailureLimit
  /\ Failure(TRUE, queued) /\ cpc' = "top"
  /\ ReadFrame /\ UNCHANGED valid

PollError ==
  /\ cpc = "poll" /\ descriptor = "dead"
  /\ Failure(FALSE, queued) /\ cpc' = "top"
  /\ ReadFrame /\ UNCHANGED valid

\* (mutant) the buffer is given back before it is copied.
MDequeue ==
  /\ cpc = "poll"
  /\ \E b \in filled :
       /\ filled' = filled \ {b} /\ index' = b /\ queued' = queued \cup {b}
       /\ valid' \in IF descriptor = "live" THEN {TRUE} ELSE BOOLEAN
  /\ cpc' = "copy"
  /\ UNCHANGED <<device, descriptor, resources, opened, failures, restarts>>

\* A buffer is taken; from a dead descriptor it may be damaged or too short.
Dequeue ==
  /\ cpc = "poll"
  /\ \E b \in filled :
       /\ filled' = filled \ {b} /\ index' = b
       /\ valid' \in IF descriptor = "live" THEN {TRUE} ELSE BOOLEAN
  /\ cpc' = "copy"
  /\ UNCHANGED <<device, descriptor, queued, resources, opened, failures, restarts>>

\* The rows are copied, if the buffer is valid.
CopyRows ==
  /\ cpc = "copy"
  /\ cpc' = "requeue"
  /\ CameraFrame /\ ReadFrame /\ UNCHANGED <<opened, failures, valid>>

\* VIDIOC_QBUF, after which a valid frame is delivered.
Requeue ==
  /\ cpc = "requeue"
  /\ IF valid THEN /\ queued' = queued \cup {index} /\ failures' = 0 /\ cpc' = "frame"
                   /\ UNCHANGED <<resources, descriptor, filled, opened>>
              ELSE Failure(FALSE, queued \cup {index}) /\ cpc' = "top"
  /\ ReadFrame /\ UNCHANGED valid

\* It fails, and the buffer is lost.
RequeueFails ==
  /\ cpc = "requeue" /\ descriptor = "dead"
  /\ Failure(FALSE, queued) /\ cpc' = "top"
  /\ ReadFrame /\ UNCHANGED valid

\* The frame is published, and the loop goes on.
Deliver ==
  /\ cpc = "frame"
  /\ cpc' = "top"
  /\ CameraFrame /\ ReadFrame /\ UNCHANGED <<opened, failures, valid>>

CaptureStep ==
  \/ LoopTop \/ Restart \/ OpenCloses \/ OpenCamera \/ OpenFailsMidway \/ CloseFailed
  \/ PollTimeout \/ PollError \/ Dequeue \/ CopyRows \/ Requeue \/ RequeueFails \/ Deliver

CameraNext == CaptureStep \/ LoopEnds \/ DeviceBreaks \/ DeviceReturns \/ FillBuffer

\* The capture thread is scheduled, and a camera that works fills its buffers.
CameraFairness ==
  /\ WF_cameravars(CaptureStep)
  /\ WF_cameravars(FillBuffer)

CameraSpec == CameraInit /\ [][CameraNext]_cameravars /\ CameraFairness

-------------------------------------------------------------------------------
(* Properties. *)

\* While a frame is copied, its buffer is mapped and not the driver's to write to.
NoTornFrame == cpc = "copy" => index \in mapped /\ index \notin queued \cup filled

\* However opening fails, and however often the camera is reopened, the process holds
\* one descriptor and one mapping of each buffer at most, and none when it has ended.
NothingLeaked ==
  /\ descriptors = (IF fd_open THEN 1 ELSE 0) /\ maps = Cardinality(mapped)
  /\ cpc = "exit" => descriptors = 0 /\ maps = 0

\* Once the device works for good, frames arrive, although the old descriptor is dead,
\* buffers were lost, and every call on it only times out.
CameraRecovers ==
  <>[](device = "ok") => (cpc # "top" ~> cpc \in {"frame", "exit"})

\* What captureLoop relies on: whole frames, nothing leaked by any failure, and frames
\* again once the device is back.
CameraKept == []CameraTypeOK /\ []NoTornFrame /\ []NothingLeaked /\ CameraRecovers
===============================================================================
