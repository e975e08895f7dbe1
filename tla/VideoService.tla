----------------------------- MODULE VideoService -----------------------------
(***************************************************************************)
(* VideoService (media/VideoService.cpp): frames go through a queue and    *)
(* the video thread into the encoder; its streaming thread brings every    *)
(* packet to the recorder and to the media of the RTSP factory, which the  *)
(* RTSP thread configures and unprepares.  The main thread starts and      *)
(* stops it all.                                                           *)
(*                                                                         *)
(* GStreamer is external: the encoder may break, with a message or         *)
(* without one; a set_state to NULL returns when the streaming thread is   *)
(* out of its callback; the factory, which is shared, keeps one media at a *)
(* time and forgets it after the handlers of "unprepared" have run.        *)
(* Packets are numbered in the order they leave the encoder, and the       *)
(* number stands for the time stamp too.                                   *)
(***************************************************************************)
EXTENDS Integers

CONSTANTS
  MaxFrames,   \* bound: frames submitted
  MaxMedia     \* bound: media the factory makes

ASSUME VideoAssumption == MaxFrames \in Nat /\ MaxMedia \in Nat

VARIABLES
  vpc,           \* the main thread: where it is in start and stop
  running,       \* running_
  healthy,       \* healthy_
  frames,        \* how many frames frames_ holds
  closed,        \* frames_ is closed
  submitted,     \* bound: frames submitted
  vthread,       \* video_thread_
  recorder,      \* recorder_: not started, started or stopped
  loop,          \* rtsp_thread_, with its main loop
  quit,          \* the idle source that quits the main loop is attached
  rtsp_input,    \* rtsp_input_: the media it belongs to, or None
  media,         \* media_
  connected,     \* the media whose "unprepared" calls unprepareMedia
  waiting_key,   \* waiting_key_
  rtsp_base,     \* rtsp_base_, or ClockNone
  encoder,       \* external: state, frames inside, EOS on its way, broken
  bus,           \* external: the messages on the bus
  packet,        \* external: the packet in the streaming thread's callback
  packets,       \* external: how many packets there were
  factory,       \* external: the media it has, how many it made, the packets by then
  timed_out,     \* history: the wait for EOS was given up
  sent           \* history: the last push to a media

mainvars == <<vpc, running, closed>>
videovars == <<frames, submitted, vthread, healthy>>
rtspvars == <<rtsp_input, media, connected, waiting_key, rtsp_base>>
loopvars == <<loop, quit>>
externalvars == <<encoder, bus, packet, packets>>
videoservicevars ==
  <<mainvars, videovars, rtspvars, loopvars, externalvars, recorder, factory, timed_out, sent>>

None == 0
ClockNone == -1
Idle == [n |-> 0, key |-> FALSE, at |-> "none"]
QueueSize == 2   \* frames_
InputSize == 2   \* the frames appsrc holds before run drops one

\* stop, in its order.
StopSteps == <<"stop", "join_video", "eos", "wait", "null", "stop_recorder", "quit",
               "join_rtsp", "clients", "clear", "stopped">>

VideoTypeOK ==
  /\ vpc \in {"new", "started", "failed"} \cup {StopSteps[i] : i \in 1..11}
  /\ {running, healthy, closed, quit, waiting_key, timed_out} \subseteq BOOLEAN
  /\ frames \in 0..QueueSize /\ submitted \in 0..MaxFrames
  /\ vthread \in {"none", "top", "pop", "push", "done"}
  /\ recorder \in {"new", "on", "stopped"}
  /\ loop \in {"none", "starting", "running", "done"}
  /\ {rtsp_input, media} \cup connected \subseteq 0..MaxMedia
  /\ rtsp_base \in {ClockNone} \cup 0..MaxFrames
  /\ encoder \in [playing : BOOLEAN, inside : 0..InputSize, eos : BOOLEAN, broken : BOOLEAN]
  /\ bus \subseteq {"error", "eos"}
  /\ packet \in [n : 0..MaxFrames, key : BOOLEAN, at : {"none", "recorder", "rtsp"}]
  /\ packets \in 0..MaxFrames
  /\ factory \in [live : 0..MaxMedia, made : 0..MaxMedia, since : 0..MaxFrames]
  /\ sent \in [media : 0..MaxMedia, n : 0..MaxFrames, key : BOOLEAN, pts : Int]

VideoInit ==
  /\ vpc = "new" /\ running = FALSE /\ healthy = FALSE /\ closed = FALSE
  /\ frames = 0 /\ submitted = 0 /\ vthread = "none" /\ recorder = "new"
  /\ loop = "none" /\ quit = FALSE
  /\ rtsp_input = None /\ media = None /\ connected = {}
  /\ waiting_key = TRUE /\ rtsp_base = 0
  /\ encoder = [playing |-> FALSE, inside |-> 0, eos |-> FALSE, broken |-> FALSE]
  /\ bus = {} /\ packet = Idle /\ packets = 0
  /\ factory = [live |-> None, made |-> 0, since |-> 0] /\ timed_out = FALSE
  /\ sent = [media |-> None, n |-> 0, key |-> FALSE, pts |-> 0]

-------------------------------------------------------------------------------
(* start *)

StartVideo ==
  /\ vpc = "new"
  /\ recorder' = "on" /\ encoder' = [encoder EXCEPT !.playing = TRUE]
  /\ running' = TRUE /\ healthy' = TRUE /\ loop' = "starting" /\ vthread' = "top"
  /\ vpc' = "started"
  /\ UNCHANGED <<closed, frames, submitted, rtspvars, quit, bus, packet, packets, factory,
                 timed_out, sent>>

\* It throws: the port is taken, or the encoder refuses to play.
StartVideoFails ==
  /\ vpc = "new"
  /\ recorder' \in {"new", "on"} /\ vpc' = "failed"
  /\ UNCHANGED <<running, closed, videovars, rtspvars, loopvars, externalvars, factory,
                 timed_out, sent>>

-------------------------------------------------------------------------------
(* The video thread. *)

\* submit, called by the capture thread: pushLatest.
SubmitFrame ==
  /\ healthy /\ submitted < MaxFrames
  /\ submitted' = submitted + 1
  /\ frames' = IF closed \/ frames = QueueSize THEN frames ELSE frames + 1
  /\ UNCHANGED <<mainvars, vthread, healthy, rtspvars, loopvars, externalvars, recorder,
                 factory, timed_out, sent>>

\* run: every message takes healthy_ away.
RunTop ==
  /\ vthread = "top"
  /\ \/ ~running /\ vthread' = "done" /\ UNCHANGED <<healthy, bus>>
     \/ running /\ bus = {} /\ vthread' = "pop" /\ UNCHANGED <<healthy, bus>>
     \/ /\ running /\ vthread' = "pop" /\ healthy' = FALSE
        /\ \E message \in bus : bus' = bus \ {message}
  /\ UNCHANGED <<mainvars, frames, submitted, rtspvars, loopvars, encoder, packet, packets,
                 recorder, factory, timed_out, sent>>

\* (mutant) frames_.pop waits for a frame, however long it takes.
MRunPop ==
  /\ vthread = "pop" /\ (frames > 0 \/ closed)
  /\ frames' = IF frames > 0 THEN frames - 1 ELSE 0
  /\ vthread' = IF frames > 0 /\ healthy /\ encoder.inside < InputSize THEN "push" ELSE "top"
  /\ UNCHANGED <<mainvars, submitted, healthy, rtspvars, loopvars, externalvars, recorder,
                 factory, timed_out, sent>>

\* frames_.pop, which gives up after 200 ms, and the checks that follow.
RunPop ==
  /\ vthread = "pop"
  /\ frames' = IF frames > 0 THEN frames - 1 ELSE 0
  /\ vthread' = IF frames > 0 /\ healthy /\ encoder.inside < InputSize THEN "push" ELSE "top"
  /\ UNCHANGED <<mainvars, submitted, healthy, rtspvars, loopvars, externalvars, recorder,
                 factory, timed_out, sent>>

\* The push to the encoder fails only when it is broken.
RunPush ==
  /\ vthread = "push" /\ vthread' = "top"
  /\ \/ /\ encoder' = [encoder EXCEPT !.inside = @ + 1]
        /\ UNCHANGED healthy
     \/ encoder.broken /\ healthy' = FALSE /\ UNCHANGED encoder
  /\ UNCHANGED <<mainvars, frames, submitted, rtspvars, loopvars, bus, packet, packets,
                 recorder, factory, timed_out, sent>>

VideoThread == RunTop \/ RunPop \/ RunPush

-------------------------------------------------------------------------------
(* The encoder and its streaming thread. *)

Encoding == encoder.playing /\ ~encoder.broken /\ packet = Idle

\* A frame becomes a packet; the first of all is a key frame.
Encode(key) ==
  /\ Encoding /\ encoder.inside > 0
  /\ packets = 0 => key
  /\ encoder' = [encoder EXCEPT !.inside = @ - 1]
  /\ packets' = packets + 1
  /\ packet' = [n |-> packets + 1, key |-> key, at |-> "recorder"]
  /\ UNCHANGED <<mainvars, videovars, rtspvars, loopvars, bus, recorder, factory, timed_out, sent>>

\* The leaky queue before the encoder drops a frame.
EncoderDrops ==
  /\ encoder.playing /\ encoder.inside > 1
  /\ encoder' = [encoder EXCEPT !.inside = @ - 1]
  /\ UNCHANGED <<mainvars, videovars, rtspvars, loopvars, bus, packet, packets, recorder,
                 factory, timed_out, sent>>

EncoderDrained ==
  /\ Encoding /\ encoder.eos /\ encoder.inside = 0 /\ "eos" \notin bus
  /\ bus' = bus \cup {"eos"}
  /\ UNCHANGED <<mainvars, videovars, rtspvars, loopvars, encoder, packet, packets, recorder,
                 factory, timed_out, sent>>

EncoderBreaks ==
  /\ encoder.playing /\ ~encoder.broken
  /\ encoder' = [encoder EXCEPT !.broken = TRUE]
  /\ bus' \in {bus, bus \cup {"error"}}
  /\ UNCHANGED <<mainvars, videovars, rtspvars, loopvars, packet, packets, recorder, factory,
                 timed_out, sent>>

\* onPacket, before rtsp_mutex_: recorder_.submit.
OnPacket ==
  /\ packet.at = "recorder"
  /\ packet' = [packet EXCEPT !.at = "rtsp"]
  /\ UNCHANGED <<mainvars, videovars, rtspvars, loopvars, encoder, bus, packets, recorder,
                 factory, timed_out, sent>>

\* (mutant) a packet dropped because the media is behind asks for no key frame.
MPushPacket(behind, accepted) ==
  /\ packet.at = "rtsp" /\ packet' = Idle
  /\ IF rtsp_input = None \/ behind \/ (waiting_key /\ ~packet.key)
       THEN UNCHANGED <<waiting_key, rtsp_base, sent>>
       ELSE /\ rtsp_base' = IF waiting_key /\ rtsp_base = ClockNone THEN packet.n
                                                                     ELSE rtsp_base
            /\ waiting_key' = ~accepted
            /\ sent' = IF accepted THEN [media |-> rtsp_input, n |-> packet.n,
                                         key |-> packet.key, pts |-> packet.n - rtsp_base']
                                   ELSE sent
  /\ UNCHANGED <<mainvars, videovars, rtsp_input, media, connected, loopvars, encoder, bus,
                 packets, recorder, factory, timed_out>>

\* onPacket, under rtsp_mutex_: the media may be behind by more than a megabyte,
\* or not accept the packet.
PushPacket(behind, accepted) ==
  /\ packet.at = "rtsp" /\ packet' = Idle
  /\ IF rtsp_input = None \/ (~behind /\ waiting_key /\ ~packet.key)
       THEN UNCHANGED <<waiting_key, rtsp_base, sent>>
       ELSE IF behind
       THEN waiting_key' = TRUE /\ UNCHANGED <<rtsp_base, sent>>
       ELSE /\ rtsp_base' = IF waiting_key /\ rtsp_base = ClockNone THEN packet.n
                                                                     ELSE rtsp_base
            /\ waiting_key' = ~accepted
            /\ sent' = IF accepted THEN [media |-> rtsp_input, n |-> packet.n,
                                         key |-> packet.key, pts |-> packet.n - rtsp_base']
                                   ELSE sent
  /\ UNCHANGED <<mainvars, videovars, rtsp_input, media, connected, loopvars, encoder, bus,
                 packets, recorder, factory, timed_out>>

StreamingThread == OnPacket \/ \E behind, accepted \in BOOLEAN : PushPacket(behind, accepted)

-------------------------------------------------------------------------------
(* The RTSP thread. *)

RunLoop ==
  /\ loop = "starting" /\ loop' = "running"
  /\ UNCHANGED <<mainvars, videovars, rtspvars, quit, externalvars, recorder, factory,
                 timed_out, sent>>

\* The idle source runs: g_main_loop_quit.
QuitLoop ==
  /\ loop = "running" /\ quit
  /\ loop' = "done" /\ quit' = FALSE
  /\ UNCHANGED <<mainvars, videovars, rtspvars, externalvars, recorder, factory, timed_out, sent>>

\* (mutant) the media before keeps its handler, and the time stamps their base.
MConfigureMedia ==
  /\ loop = "running" /\ factory.live = None /\ factory.made < MaxMedia
  /\ LET new == factory.made + 1 IN
     /\ factory' = [live |-> new, made |-> new, since |-> packets]
     /\ rtsp_input' = new /\ media' = new
     /\ connected' = connected \cup {new}
  /\ waiting_key' = TRUE
  /\ UNCHANGED <<rtsp_base, mainvars, videovars, loopvars, externalvars, recorder, timed_out, sent>>

\* A client comes when there is no media.
ConfigureMedia ==
  /\ loop = "running" /\ factory.live = None /\ factory.made < MaxMedia
  /\ LET new == factory.made + 1 IN
     /\ factory' = [live |-> new, made |-> new, since |-> packets]
     /\ rtsp_input' = new /\ media' = new
     /\ connected' = (connected \ {media}) \cup {new}
  /\ waiting_key' = TRUE /\ rtsp_base' = ClockNone
  /\ UNCHANGED <<mainvars, videovars, loopvars, externalvars, recorder, timed_out, sent>>

\* The media is unprepared: the handler runs when it is connected.
Unprepared ==
  /\ factory' = [factory EXCEPT !.live = None]
  /\ IF factory.live \in connected
       THEN rtsp_input' = None /\ waiting_key' = TRUE
       ELSE UNCHANGED <<rtsp_input, waiting_key>>
  /\ UNCHANGED <<media, connected, rtsp_base>>

\* The last client goes.
UnprepareMedia ==
  /\ loop = "running" /\ factory.live # None /\ Unprepared
  /\ UNCHANGED <<mainvars, videovars, loopvars, externalvars, recorder, timed_out, sent>>

RtspThread == RunLoop \/ QuitLoop \/ ConfigureMedia \/ UnprepareMedia

-------------------------------------------------------------------------------
(* stop; it is called in every state, from the destructor at the latest. *)

\* What stop does at one step, and the step after it.
At(step, next) == vpc = step /\ vpc' = next

StopVideo ==
  /\ vpc \in {"started", "failed"} /\ vpc' = "join_video"
  /\ healthy' = FALSE /\ running' = FALSE /\ closed' = TRUE /\ frames' = 0
  /\ UNCHANGED <<submitted, vthread, rtspvars, loopvars, externalvars, recorder,
                 factory, timed_out, sent>>

JoinVideo ==
  /\ At("join_video", "eos") /\ vthread \in {"none", "done"}
  /\ UNCHANGED <<running, closed, videovars, rtspvars, loopvars, externalvars, recorder,
                 factory, timed_out, sent>>

EndOfStream ==
  /\ At("eos", "wait")
  /\ encoder' = [encoder EXCEPT !.eos = TRUE]
  /\ UNCHANGED <<running, closed, videovars, rtspvars, loopvars, bus, packet, packets,
                 recorder, factory, timed_out, sent>>

\* (mutant) it does not wait for the encoder to drain.
MWaitForEos ==
  /\ At("wait", "null")
  /\ UNCHANGED <<bus, timed_out, running, closed, videovars, rtspvars, loopvars, encoder,
                 packet, packets, recorder, factory, sent>>

\* For two seconds at most.
WaitForEos ==
  /\ At("wait", "null")
  /\ \/ \E message \in bus : bus' = bus \ {message} /\ UNCHANGED timed_out
     \/ bus = {} /\ timed_out' = TRUE /\ UNCHANGED bus
  /\ UNCHANGED <<running, closed, videovars, rtspvars, loopvars, encoder, packet, packets,
                 recorder, factory, sent>>

\* The encoder goes to NULL: no callback is left.
StopEncoder ==
  /\ At("null", "stop_recorder") /\ packet = Idle
  /\ encoder' = [encoder EXCEPT !.playing = FALSE]
  /\ UNCHANGED <<running, closed, videovars, rtspvars, loopvars, bus, packet, packets,
                 recorder, factory, timed_out, sent>>

StopRecorder ==
  /\ At("stop_recorder", "quit")
  /\ recorder' = "stopped"
  /\ UNCHANGED <<running, closed, videovars, rtspvars, loopvars, externalvars, factory,
                 timed_out, sent>>

\* (mutant) g_main_loop_quit is called at once, and forgotten by a loop that only
\* starts afterwards.
MAttachQuit ==
  /\ At("quit", "join_rtsp")
  /\ loop' = IF loop = "running" THEN "done" ELSE loop
  /\ UNCHANGED <<quit, running, closed, videovars, rtspvars, externalvars, recorder, factory,
                 timed_out, sent>>

AttachQuit ==
  /\ At("quit", "join_rtsp")
  /\ quit' = TRUE
  /\ UNCHANGED <<loop, running, closed, videovars, rtspvars, externalvars, recorder, factory,
                 timed_out, sent>>

JoinRtsp ==
  /\ At("join_rtsp", "clients") /\ loop \in {"none", "done"}
  /\ UNCHANGED <<running, closed, videovars, rtspvars, loopvars, externalvars, recorder,
                 factory, timed_out, sent>>

\* The clients are removed, which unprepares the media unless somebody else has it.
RemoveClients ==
  /\ At("clients", "clear")
  /\ Unprepared \/ UNCHANGED <<factory, rtspvars>>
  /\ UNCHANGED <<running, closed, videovars, loopvars, externalvars, recorder, timed_out, sent>>

ClearMedia ==
  /\ At("clear", "stopped")
  /\ connected' = connected \ {media} /\ media' = None /\ rtsp_input' = None
  /\ UNCHANGED <<running, closed, videovars, waiting_key, rtsp_base, loopvars, externalvars,
                 recorder, factory, timed_out, sent>>

MainStop ==
  \/ JoinVideo \/ EndOfStream \/ WaitForEos \/ StopEncoder \/ StopRecorder
  \/ AttachQuit \/ JoinRtsp \/ RemoveClients \/ ClearMedia

VideoNext ==
  \/ StartVideo \/ StartVideoFails \/ StopVideo \/ MainStop
  \/ SubmitFrame \/ VideoThread
  \/ \E key \in BOOLEAN : Encode(key)
  \/ EncoderDrops \/ EncoderDrained \/ EncoderBreaks
  \/ StreamingThread \/ RtspThread

\* The threads are scheduled, and the wait for EOS ends; nothing of GStreamer is
\* fair, except that the encoder's callbacks return.
VideoFairness ==
  /\ WF_videoservicevars(MainStop)
  /\ WF_videoservicevars(VideoThread)
  /\ WF_videoservicevars(StreamingThread)
  /\ WF_videoservicevars(RunLoop)
  /\ WF_videoservicevars(QuitLoop)

VideoSpec == VideoInit /\ [][VideoNext]_videoservicevars /\ VideoFairness

-------------------------------------------------------------------------------
(* Properties. *)

\* What a media gets can be decoded from its first packet on: each one is a key
\* frame or follows the one sent to the same media before it, whatever was
\* dropped because the media was behind, refused, or was replaced between.
Decodable ==
  [][sent' # sent =>
       sent'.key \/ (sent'.media = sent.media /\ sent'.n = sent.n + 1)]_sent

\* The time stamps of a media count from a packet it was offered, not from one of
\* the media before, and grow.
OwnClock ==
  [][sent' # sent =>
       IF sent'.media = sent.media THEN sent'.pts > sent.pts
                                   ELSE sent'.pts \in 0..sent'.n - factory.since]_sent

\* The packets of an encoder that works are all with the recorder before it is
\* stopped, and none comes afterwards.
RecorderGetsAll ==
  /\ packet.at = "recorder" => recorder = "on"
  /\ recorder = "stopped" /\ ~encoder.broken /\ ~timed_out
       => encoder.inside = 0 /\ packet = Idle

\* No handler of a media refers to the service when stop has returned.
NoHandlerLeft ==
  vpc = "stopped" => connected = {} /\ rtsp_input = None /\ media = None

\* What the encoder reports is noticed, whether frames come or not.
ErrorNoticed == "error" \in bus /\ vpc = "started" ~> ~healthy

\* stop returns, however early it is called and whatever the encoder does.
VideoStops == vpc = "join_video" ~> vpc = "stopped"

\* A client and the recorder get packets that can be decoded, on a clock of their own,
\* and all of them; nothing is left of a media when stop has returned; and the threads
\* get on: an error is noticed and stop returns.
VideoKept ==
  /\ []VideoTypeOK /\ Decodable /\ OwnClock /\ []RecorderGetsAll /\ []NoHandlerLeft
  /\ ErrorNoticed /\ VideoStops
===============================================================================
