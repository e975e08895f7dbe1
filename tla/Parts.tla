-------------------------------- MODULE Parts ---------------------------------
(***************************************************************************)
(* The smaller components, each of which is used by one other alone and    *)
(* shares no state with the rest: one behaviour is one of them at work,    *)
(* and the others do not start.                                            *)
(***************************************************************************)
EXTENDS TimerManager, InferenceHealth, EventStorage, Camera, Detections, VideoService, FrameFlow

VARIABLE part

allvars == <<part, timervars, healthvars, storagevars, cameravars, detectionvars,
             videoservicevars, framevars>>

PartNames == {"timer", "health", "storage", "camera", "detections", "video", "frames"}

PartsInit ==
  /\ part \in PartNames
  /\ TimerInit /\ HealthInit /\ StorageInit /\ CameraInit /\ DetectionsInit
  /\ VideoInit /\ FrameInit

PartsNext ==
  \/ /\ part = "timer" /\ TimerNext
     /\ UNCHANGED <<part, healthvars, storagevars, cameravars, detectionvars,
                    videoservicevars, framevars>>
  \/ /\ part = "health" /\ HealthNext
     /\ UNCHANGED <<part, timervars, storagevars, cameravars, detectionvars,
                    videoservicevars, framevars>>
  \/ /\ part = "storage" /\ StorageNext
     /\ UNCHANGED <<part, timervars, healthvars, cameravars, detectionvars,
                    videoservicevars, framevars>>
  \/ /\ part = "camera" /\ CameraNext
     /\ UNCHANGED <<part, timervars, healthvars, storagevars, detectionvars,
                    videoservicevars, framevars>>
  \/ /\ part = "detections" /\ DetectionsNext
     /\ UNCHANGED <<part, timervars, healthvars, storagevars, cameravars,
                    videoservicevars, framevars>>
  \/ /\ part = "video" /\ VideoNext
     /\ UNCHANGED <<part, timervars, healthvars, storagevars, cameravars,
                    detectionvars, framevars>>
  \/ /\ part = "frames" /\ FrameNext
     /\ UNCHANGED <<part, timervars, healthvars, storagevars, cameravars,
                    detectionvars, videoservicevars>>

\* The fairness of the part at work, as its module states it.
TimerRunning == part = "timer"
CameraRunning == part = "camera"
VideoRunning == part = "video"
FramesRunning == part = "frames"

PartsSpec ==
  /\ PartsInit /\ [][PartsNext]_allvars
  /\ WF_timervars(TimerRunning /\ TimerLoop) /\ WF_timervars(TimerRunning /\ TimerTick)
  /\ WF_cameravars(CameraRunning /\ CaptureStep) /\ WF_cameravars(CameraRunning /\ FillBuffer)
  /\ WF_videoservicevars(VideoRunning /\ MainStop)
  /\ WF_videoservicevars(VideoRunning /\ VideoThread)
  /\ WF_videoservicevars(VideoRunning /\ StreamingThread)
  /\ WF_videoservicevars(VideoRunning /\ RunLoop)
  /\ WF_videoservicevars(VideoRunning /\ QuitLoop)
  /\ WF_framevars(FramesRunning /\ (Acquire \/ Fill \/ Publish))
  /\ WF_framevars(FramesRunning /\ (PopInference \/ EndFrame))
  /\ WF_framevars(FramesRunning /\ (PopJob \/ EndJob))
  /\ WF_framevars(FramesRunning /\ PushVideo)

-------------------------------------------------------------------------------
\* Frames are immutable while anyone reads them and, where they are at work, the
\* capture always gets its next one (elsewhere the capture does not start).
FramesKept == []FrameTypeOK /\ []Immutable /\ (part = "frames" => CaptureProceeds)
===============================================================================
