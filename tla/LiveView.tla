------------------------------- MODULE LiveView -------------------------------
(***************************************************************************)
(* What the vision pipeline promises those who watch it.                   *)
(*                                                                         *)
(* An interruption (a start or stop, a restart or failure of the camera, a *)
(* pause after errors) ends all that was captured before it, at once: the  *)
(* detections shown next, the previews answered next and the next event    *)
(* come from frames captured after it.  Detections are shown in the order  *)
(* of the frames, while the detection is on.  An event is the last of      *)
(* Confirm frames with a person, none before an interruption and with no   *)
(* frame lost among them.  Requests are answered in turn; the image of a   *)
(* preview is the one its detections were computed from.                   *)
(***************************************************************************)
EXTENDS Naturals, Sequences

CONSTANT Confirm

VARIABLES
  on,       \* whether detections are computed
  taken,    \* the number of frames captured
  since,    \* that number at the last interruption
  image,    \* the newest frame, 0 without one
  shown,    \* the frame whose detections are shown, 0 without one
  last,     \* the frame that was shown last
  run,      \* how many frames in a row had a person, up to Confirm
  event,    \* the frame of the last event
  asking,   \* the request not yet accepted
  asked,    \* those accepted, in order
  answer    \* what is being answered

camera == <<taken, image>>
detection == <<on, since, shown, last, run, event>>
requests == <<asking, asked, answer>>
vars == <<camera, detection, requests>>

NoRequest == [preview |-> FALSE, image |-> 0, detections |-> 0]
NoAnswer == [request |-> NoRequest, ok |-> FALSE]

Init ==
  /\ on = TRUE /\ taken = 0 /\ since = 0 /\ image = 0 /\ shown = 0
  /\ last = 0 /\ run = 0 /\ event = 0
  /\ asking = NoRequest /\ asked = <<>> /\ answer = NoAnswer

Take ==
  /\ taken' = taken + 1
  /\ UNCHANGED <<image, detection, requests>>

Show ==
  /\ taken > 0 /\ image' = taken
  /\ UNCHANGED <<taken, detection, requests>>

Interrupted == since' = taken /\ run' = 0 /\ UNCHANGED <<taken, last, event, requests>>

Switch == Interrupted /\ on' \in BOOLEAN /\ shown' = 0 /\ UNCHANGED image
Lose == Interrupted /\ shown' = 0 /\ image' = 0 /\ UNCHANGED on

\* A frame captured since the last interruption has failed.
Pause == Interrupted /\ taken > since /\ on' = FALSE /\ UNCHANGED <<shown, image>>

Publish(f, person) ==
  /\ on /\ since < f /\ last < f
  /\ shown' = f /\ last' = f
  /\ run' = IF ~person THEN 0 ELSE IF run < Confirm THEN run + 1 ELSE run
  /\ event' = IF run' = Confirm THEN f ELSE event
  /\ UNCHANGED <<on, since, camera, requests>>

\* A frame is given up.
Pass == run' = 0 /\ UNCHANGED <<on, since, shown, last, event, camera, requests>>

\* At the end.
Clear ==
  /\ shown' = 0 /\ image' = 0
  /\ UNCHANGED <<taken, on, since, last, run, event, requests>>

Ask(request) ==
  /\ asking = NoRequest /\ request.image # 0
  /\ asking' = request
  /\ UNCHANGED <<camera, detection, asked, answer>>

Preview == Ask([preview |-> TRUE, image |-> shown, detections |-> shown])
Capture == Ask([preview |-> FALSE, image |-> image, detections |-> 0])

\* A request may be refused.
Accept ==
  /\ asking # NoRequest /\ asking' = NoRequest
  /\ asked' \in {asked, Append(asked, asking)}
  /\ UNCHANGED <<camera, detection, answer>>

Answer(ok) ==
  /\ asked # <<>> /\ answer = NoAnswer
  /\ ok /\ Head(asked).preview => on /\ since < Head(asked).image
  /\ answer' = [request |-> Head(asked), ok |-> ok] /\ asked' = Tail(asked)
  /\ UNCHANGED <<camera, detection, asking>>

Deliver == answer' = NoAnswer /\ UNCHANGED <<camera, detection, asking, asked>>

Next ==
  \/ Take \/ Show \/ Switch \/ Lose \/ Pause \/ Pass \/ Clear
  \/ \E f \in 1..taken, person \in BOOLEAN : Publish(f, person)
  \/ Preview \/ Capture \/ Accept \/ (\E ok \in BOOLEAN : Answer(ok)) \/ Deliver

Spec == Init /\ [][Next]_vars
===============================================================================
