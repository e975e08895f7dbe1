----------------------------- MODULE ControlPlane -----------------------------
(***************************************************************************)
(* The control protocol: TcpServer (core/reactor/TcpServer.h) with the     *)
(* descriptor table of EventLoop, VisionPipeline::command with its replay  *)
(* cache, and the JPEG thread that answers later (app/VisionPipeline.cpp). *)
(*                                                                         *)
(* A descriptor is used again once it is closed, a connection id never.    *)
(* A socket is named by a number of its own (sock), which the code does    *)
(* not have: it says whose requests and replies these are.  A request is   *)
(* one line, a reply one response; byte limits are free choices, and the   *)
(* result of a job is "completed" also when its code is 500.  That a       *)
(* posted functor wakes the loop up is EventLoop's affair.                 *)
(***************************************************************************)
EXTENDS QueueOps, FiniteSets, SequencesExt

CONSTANTS
  Fds,               \* the descriptors of clients
  MaxClients,        \* clients at a time (16)
  CacheLimit,        \* entries of replies_ (128)
  SnapshotCapacity,  \* capacity of snapshots_ (8)
  Ids,               \* the ids clients use; 0 is the null id
  Commands,          \* the commands clients send
  Slow,              \* the sockets whose peers may stop reading
  MaxSockets,        \* bound on the connections ever taken
  MaxRequests        \* bound on the requests ever sent

\* "query" answers at once, "bad" is refused with 400, "long" is an oversized line.
AllCommands == {"query", "capture", "get_preview", "bad", "long"}

ASSUME LimitAssumption ==
  /\ MaxClients \in Nat \ {0} /\ CacheLimit \in Nat \ {0} /\ SnapshotCapacity \in Nat \ {0}
  /\ MaxSockets \in Nat /\ MaxRequests \in Nat /\ Slow \subseteq 1..MaxSockets
ASSUME RequestAssumption == Fds \subseteq Nat \ {0} /\ Ids \subseteq Nat /\ Commands \subseteq AllCommands

VARIABLES
  clients,             \* clients_ and ids_, with the events registered for the descriptor
  next,                \* next_
  replies, order,      \* replies_, reply_order_
  snapshots, io,       \* snapshots_, and the job of the JPEG thread
  functors, batch,     \* pending_functors_, and those of this iteration
  ready,               \* the events of this epoll_wait not yet dispatched
  net,                 \* the network thread: [pc, fd, job]
  peers,               \* per socket, the other end: [wire, end, stalled, got, over]
  backlog,             \* connections not yet accepted
  requests, jobs,      \* history: how many requests were sent, jobs were made
  inserted,            \* history: every key ever put into reply_order_
  executed             \* history: [count, key] of the cacheable commands executed

store == <<replies, order, inserted>>
work == <<snapshots, io, jobs>>
world == <<backlog, requests>>
vars == <<clients, next, store, work, functors, batch, ready, net, peers, world, executed>>

NoClient == [id |-> 0, sock |-> 0, in |-> <<>>, out |-> <<>>, eof |-> FALSE,
             reading |-> FALSE, pending |-> 0, events |-> {}]
NoJob == [conn |-> 0, sock |-> 0, id |-> 0, cached |-> FALSE, n |-> 0]

Requests == [id : Ids, cmd : Commands]
Replies == [sock : 1..MaxSockets, id : Ids, status : {"completed", "accepted", "error"},
            job : 0..MaxRequests]
Jobs == [conn : Nat, sock : 1..MaxSockets, id : Ids, cached : BOOLEAN, n : 1..MaxRequests]
Keys == Nat \X (Ids \cup {0})
Clients == [id : Nat, sock : 1..MaxSockets, in : Seq(Requests), out : Seq(Replies),
            eof : BOOLEAN, reading : BOOLEAN, pending : Nat, events : SUBSET {"in", "out"}]

TypeOK ==
  /\ clients \in [Fds -> Clients \cup {NoClient}]
  /\ Cardinality({fd \in Fds : clients[fd] # NoClient}) <= MaxClients
  /\ next \in Nat /\ backlog \in Nat /\ requests \in 0..MaxRequests /\ jobs \in 0..MaxRequests
  /\ order \in Seq(Keys) /\ Len(order) <= CacheLimit /\ inserted \in Seq(Keys)
  /\ DOMAIN replies = ToSet(order) /\ \A k \in DOMAIN replies : replies[k] \in Replies
  /\ snapshots \in Seq(Jobs) /\ Len(snapshots) <= SnapshotCapacity
  /\ io \in Jobs \cup {NoJob} /\ functors \in Seq(Jobs) /\ batch \in Seq(Jobs)
  /\ ready \in SUBSET [fd : Fds \cup {0}, sock : 0..MaxSockets,
                       flags : SUBSET {"in", "out", "err"}]
  /\ net \in [pc : {"poll", "dispatch", "accept", "lines", "retain", "tasks", "release"},
              fd : Fds \cup {0}, job : Jobs \cup {NoJob}]
  /\ peers \in [1..MaxSockets ->
                  [wire : Seq(Requests), end : {"open", "half", "gone"}, stalled : BOOLEAN,
                   got : Seq(Replies), over : {"no", "drained", "dropped"}]]
  /\ executed \in [count : 0..MaxRequests, key : Keys]

Init ==
  /\ clients = [fd \in Fds |-> NoClient] /\ next = 1
  /\ replies = [k \in {} |-> {}] /\ order = <<>> /\ inserted = <<>>
  /\ snapshots = <<>> /\ io = NoJob /\ functors = <<>> /\ batch = <<>>
  /\ ready = {} /\ net = [pc |-> "poll", fd |-> 0, job |-> NoJob]
  /\ peers = [s \in 1..MaxSockets |-> [wire |-> <<>>, end |-> "open", stalled |-> FALSE,
                                       got |-> <<>>, over |-> "no"]]
  /\ backlog = 0 /\ requests = 0 /\ jobs = 0
  /\ executed = [count |-> 0, key |-> <<0, 0>>]

Used == {fd \in Fds : clients[fd] # NoClient}

-------------------------------------------------------------------------------
(* The other ends. *)

PeerFrame == UNCHANGED <<clients, next, store, work, functors, batch, ready, net, executed>>

Connect ==
  /\ next + backlog <= MaxSockets
  /\ backlog' = backlog + 1
  /\ PeerFrame /\ UNCHANGED <<peers, requests>>

Connected(s) == \E fd \in Used : clients[fd].sock = s

PeerSend(s, request) ==
  /\ Connected(s) /\ peers[s].end = "open" /\ requests < MaxRequests
  /\ peers' = [peers EXCEPT ![s].wire = Append(@, request)]
  /\ requests' = requests + 1
  /\ PeerFrame /\ UNCHANGED backlog

\* shutdown(SHUT_WR), or the connection is gone altogether.
PeerEnds(s, end) ==
  /\ Connected(s)
  /\ peers[s].end = "open" \/ (peers[s].end = "half" /\ end = "gone")
  /\ peers' = [peers EXCEPT ![s].end = end]
  /\ PeerFrame /\ UNCHANGED world

\* The peer stops reading until the socket's buffer is full, or reads again.
PeerStalls(s) ==
  /\ Connected(s) /\ s \in Slow
  /\ peers' = [peers EXCEPT ![s].stalled = ~@]
  /\ PeerFrame /\ UNCHANGED world

-------------------------------------------------------------------------------
(* TcpServer: what its methods do to the clients. *)

\* closeClient after an error.
Drop(fd) ==
  /\ clients' = [clients EXCEPT ![fd] = NoClient]
  /\ peers' = [peers EXCEPT ![clients[fd].sock].over = "dropped"]

\* The replies the socket takes: some of them, or none when it is full.
Taken(peer, out) == IF out = <<>> \/ peer.stalled THEN {0} ELSE 1..Len(out)

\* (mutant) a connection at its end is closed while its lines are being read.
MDrainedEarly(c) == c.eof /\ c.pending = 0 /\ c.out = <<>>

Drained(c) == c.eof /\ ~c.reading /\ c.pending = 0 /\ c.out = <<>>

\* The events flush() registers with updateFd.
Watched(c) == (IF c.eof THEN {} ELSE {"in"}) \cup (IF c.out = <<>> THEN {} ELSE {"out"})

\* flush(fd), for a client that is c by now.
Flush(fd, c) ==
  \/ /\ c.out # <<>> /\ peers[c.sock].end = "gone"
     /\ Drop(fd)
  \/ \E n \in Taken(peers[c.sock], c.out) :
       LET rest == [c EXCEPT !.out = SubSeq(c.out, n + 1, Len(c.out))] IN
       /\ clients' = [clients EXCEPT ![fd] =
                        IF Drained(rest) THEN NoClient ELSE [rest EXCEPT !.events = Watched(rest)]]
       /\ peers' = [peers EXCEPT ![c.sock].got = @ \o SubSeq(c.out, 1, n),
                                 ![c.sock].over = IF Drained(rest) THEN "drained" ELSE @]

\* sendResponse to a client that is c by now; too much unsent output closes it.
Send(fd, c, reply) ==
  \/ c.out # <<>> /\ Drop(fd)
  \/ Flush(fd, [c EXCEPT !.out = Append(@, reply)])

\* ids_.find(id).
Found(conn) == {fd \in Used : clients[fd].id = conn}

SendResponse(conn, reply) ==
  IF Found(conn) = {} THEN UNCHANGED <<clients, peers>>
  ELSE \E fd \in Found(conn) : Send(fd, clients[fd], reply)

-------------------------------------------------------------------------------
(* EventLoop and TcpServer's callbacks, on the network thread. *)

NetTo(pc) == net' = [net EXCEPT !.pc = pc]
LoopFrame == UNCHANGED <<store, work, requests, executed>>

\* A gone peer may be reported as an error whatever is registered.
Reported(fd, gone) ==
  LET c == clients[fd] p == peers[c.sock] IN
    (IF "in" \in c.events /\ (p.wire # <<>> \/ p.end # "open") THEN {"in"} ELSE {})
    \cup (IF "out" \in c.events /\ (~p.stalled \/ p.end = "gone") THEN {"out"} ELSE {})
    \cup (IF fd \in gone THEN {"err"} ELSE {})

Poll ==
  /\ net.pc = "poll"
  /\ \E gone \in SUBSET {fd \in Used : peers[clients[fd].sock].end = "gone"} :
       ready' = {[fd |-> fd, sock |-> clients[fd].sock, flags |-> Reported(fd, gone)] :
                   fd \in {fd \in Used : Reported(fd, gone) # {}}}
                \cup (IF backlog > 0 THEN {[fd |-> 0, sock |-> 0, flags |-> {"in"}]} ELSE {})
  /\ ready' # {} \/ functors # <<>>
  /\ NetTo("dispatch")
  /\ LoopFrame /\ UNCHANGED <<clients, next, functors, batch, peers, backlog>>

Dispatch(event) == net.pc = "dispatch" /\ event \in ready /\ ready' = ready \ {event}

\* acceptClients: the loop over accept4 begins ...
DispatchListen ==
  /\ \E event \in ready : event.fd = 0 /\ Dispatch(event)
  /\ NetTo("accept")
  /\ LoopFrame /\ UNCHANGED <<clients, next, functors, batch, peers, backlog>>

\* (mutant) connections are identified by their descriptors.
MNewId(fd) == fd

NewId(fd) == next

AcceptFrame ==
  /\ net.pc = "accept" /\ backlog > 0 /\ backlog' = backlog - 1
  /\ LoopFrame /\ UNCHANGED <<functors, batch, ready, net>>

\* (mutant) a connection too many takes the place of another.
MAcceptEvicts ==
  /\ AcceptFrame
  /\ Cardinality(Used) >= MaxClients
  /\ next' = next + 1
  /\ \E fd \in Used :
       /\ clients' = [clients EXCEPT ![fd] =
                        [NoClient EXCEPT !.id = NewId(fd), !.sock = next, !.events = {"in"}]]
       /\ peers' = [peers EXCEPT ![clients[fd].sock].over = "dropped"]

\* ... closes a connection too many ...
AcceptTooMany ==
  /\ AcceptFrame
  /\ Cardinality(Used) >= MaxClients
  /\ UNCHANGED <<clients, next, peers>>

\* ... and takes the others, but closes those whose descriptor cannot be registered ...
Accept ==
  /\ AcceptFrame
  /\ Cardinality(Used) < MaxClients
  /\ next' = next + 1
  /\ \/ peers' = [peers EXCEPT ![next].over = "dropped"] /\ clients' = clients
     \/ /\ \E fd \in Fds \ Used :
             clients' = [clients EXCEPT ![fd] =
                           [NoClient EXCEPT !.id = NewId(fd), !.sock = next, !.events = {"in"}]]
        /\ peers' = peers

\* ... and ends, at the latest after 32 of them.
AcceptDone ==
  /\ net.pc = "accept"
  /\ NetTo("dispatch")
  /\ LoopFrame /\ UNCHANGED <<clients, next, functors, batch, ready, peers, backlog>>

\* The callback of a client's descriptor.
ClientEvent(event) == event.fd # 0 /\ Dispatch(event)

\* EPOLLERR, or recv fails.
DispatchError ==
  /\ \E event \in ready :
       /\ ClientEvent(event) /\ clients[event.fd] # NoClient
       /\ "err" \in event.flags \/ peers[clients[event.fd].sock].end = "gone"
       /\ Drop(event.fd)
  /\ LoopFrame /\ UNCHANGED <<next, functors, batch, net, backlog>>

\* readClient: a prefix of what has arrived, and the end of it when nothing is left.
\* The callback's own flush after it adds nothing that LinesDone could not have sent.
DispatchRead ==
  \E event \in ready :
    LET fd == event.fd  c == clients[fd]  p == peers[c.sock] IN
    /\ ClientEvent(event) /\ c # NoClient
    /\ "in" \in event.flags /\ "err" \notin event.flags
    /\ \E n \in 0..Len(p.wire), eof \in BOOLEAN :
         /\ n = 0 => p.wire = <<>>
         /\ eof => n = Len(p.wire) /\ p.end # "open"
         /\ n = 0 /\ p.end # "open" => eof
         /\ clients' = [clients EXCEPT ![fd].in = @ \o SubSeq(p.wire, 1, n),
                                       ![fd].eof = @ \/ eof, ![fd].reading = TRUE]
         /\ peers' = [peers EXCEPT ![c.sock].wire = SubSeq(@, n + 1, Len(@))]
    /\ net' = [net EXCEPT !.pc = "lines", !.fd = fd]
    /\ LoopFrame /\ UNCHANGED <<next, functors, batch, backlog>>

\* fd_ctxs_ has no callback for a closed descriptor.
DispatchWrite ==
  /\ \E event \in ready :
       /\ ClientEvent(event)
       /\ event.flags = {"out"} \/ clients[event.fd] = NoClient
       /\ IF clients[event.fd] = NoClient THEN UNCHANGED <<clients, peers>>
          ELSE Flush(event.fd, clients[event.fd])
  /\ LoopFrame /\ UNCHANGED <<next, functors, batch, net, backlog>>

\* All events are dispatched: doPendingFunctors takes the functors.
Swap ==
  /\ net.pc = "dispatch" /\ ready = {}
  /\ batch' = functors /\ functors' = <<>>
  /\ NetTo("tasks")
  /\ LoopFrame /\ UNCHANGED <<clients, next, ready, peers, backlog>>

-------------------------------------------------------------------------------
(* command(), for the lines of net.fd. *)

\* (mutant) the reply of an evicted key stays.
MCacheReplyKeeps(key, reply) ==
  LET new == key \notin DOMAIN replies
      full == new /\ Len(order) >= CacheLimit
  IN /\ order' = IF new THEN Append(IF full THEN Tail(order) ELSE order, key) ELSE order
     /\ replies' = [k \in DOMAIN replies \cup {key} |-> IF k = key THEN reply ELSE replies[k]]
     /\ inserted' = IF new THEN Append(inserted, key) ELSE inserted

\* cacheReply: a new key takes the place of the oldest.
CacheReply(key, reply) ==
  LET new == key \notin DOMAIN replies
      full == new /\ Len(order) >= CacheLimit
      kept == IF full THEN DOMAIN replies \ {Head(order)} ELSE DOMAIN replies
  IN /\ order' = IF new THEN Append(IF full THEN Tail(order) ELSE order, key) ELSE order
     /\ replies' = [k \in kept \cup {key} |-> IF k = key THEN reply ELSE replies[k]]
     /\ inserted' = IF new THEN Append(inserted, key) ELSE inserted

\* Requests with the null id have no key and are not stored.
Store(key, reply) == IF key[2] = 0 THEN UNCHANGED store ELSE CacheReply(key, reply)

Executing(key) ==
  executed' = IF key[2] = 0 THEN executed ELSE [count |-> executed.count + 1, key |-> key]

CommandFrame == UNCHANGED <<next, functors, batch, ready, world>>

\* The next line, its client without it, its key, and replies to it.
Line(cmds) == /\ net.pc = "lines" /\ clients[net.fd] # NoClient
              /\ clients[net.fd].in # <<>> /\ clients[net.fd].in[1].cmd \in cmds
Rest == [clients[net.fd] EXCEPT !.in = Tail(@)]
Key == <<Rest.id, clients[net.fd].in[1].id>>
Answer(status, n) == [sock |-> Rest.sock, id |-> Key[2], status |-> status, job |-> n]

\* A line of more than 8192 bytes.
LineTooLong ==
  /\ Line({"long"})
  /\ Drop(net.fd)
  /\ CommandFrame /\ UNCHANGED <<store, work, net, executed>>

Replay ==
  /\ Line(AllCommands \ {"long"}) /\ Key \in DOMAIN replies
  /\ Send(net.fd, Rest, replies[Key])
  /\ CommandFrame /\ UNCHANGED <<store, work, net, executed>>

\* (mutant) only a command that is completed is not executed again.
MNew(cmds) ==
  Line(cmds) /\ (Key \in DOMAIN replies => replies[Key].status = "accepted")

New(cmds) == Line(cmds) /\ Key \notin DOMAIN replies

Query ==
  /\ New({"query"})
  /\ Executing(Key)
  /\ Store(Key, Answer("completed", 0))
  /\ Send(net.fd, Rest, Answer("completed", 0))
  /\ CommandFrame /\ UNCHANGED <<work, net>>

\* Errors are not stored: bad requests, and capture or preview without a fresh frame.
Reject ==
  /\ New({"bad", "capture", "get_preview"})
  /\ Send(net.fd, Rest, Answer("error", 0))
  /\ CommandFrame /\ UNCHANGED <<store, work, net, executed>>

\* tryPush; get_preview clears its key, so that its replies are not stored.
TryPush ==
  /\ New({"capture", "get_preview"})
  /\ LET cached == clients[net.fd].in[1].cmd = "capture"
         job == [conn |-> Rest.id, sock |-> Rest.sock, id |-> Key[2], cached |-> cached,
                 n |-> jobs + 1]
     IN /\ IF cached THEN Executing(Key) ELSE executed' = executed
        /\ IF Accepts(snapshots, SnapshotCapacity, FALSE)
             THEN /\ snapshots' = Append(snapshots, job) /\ jobs' = jobs + 1
                  /\ clients' = [clients EXCEPT ![net.fd] = Rest]
                  /\ net' = [net EXCEPT !.pc = "retain", !.job = job]
                  /\ UNCHANGED <<store, peers>>
             ELSE /\ Send(net.fd, Rest, Answer("error", 0))
                  /\ IF cached THEN Store(Key, Answer("error", 0)) ELSE UNCHANGED store
                  /\ UNCHANGED <<snapshots, jobs, net>>
  /\ CommandFrame /\ UNCHANGED io

Reply(job, status) == [sock |-> job.sock, id |-> job.id, status |-> status, job |-> job.n]
StoreFor(job, status) ==
  IF job.cached THEN Store(<<job.conn, job.id>>, Reply(job, status)) ELSE UNCHANGED store

\* (mutant) the connection is not held for its job.
MRetain ==
  /\ net.pc = "retain"
  /\ StoreFor(net.job, "accepted")
  /\ Send(net.fd, clients[net.fd], Reply(net.job, "accepted"))
  /\ net' = [net EXCEPT !.pc = "lines", !.job = NoJob]
  /\ CommandFrame /\ UNCHANGED <<work, executed>>

\* server_.retain, and the first of the two replies.
Retain ==
  /\ net.pc = "retain"
  /\ StoreFor(net.job, "accepted")
  /\ Send(net.fd, [clients[net.fd] EXCEPT !.pending = @ + 1], Reply(net.job, "accepted"))
  /\ net' = [net EXCEPT !.pc = "lines", !.job = NoJob]
  /\ CommandFrame /\ UNCHANGED <<work, executed>>

\* No line is left, or the connection was closed over one of them.
LinesDone ==
  /\ net.pc = "lines"
  /\ \/ clients[net.fd] = NoClient /\ UNCHANGED <<clients, peers>>
     \/ /\ clients[net.fd] # NoClient /\ clients[net.fd].in = <<>>
        /\ Flush(net.fd, [clients[net.fd] EXCEPT !.reading = FALSE])
  /\ net' = [net EXCEPT !.pc = "dispatch", !.fd = 0]
  /\ CommandFrame /\ UNCHANGED <<store, work, executed>>

-------------------------------------------------------------------------------
(* The JPEG thread, and the functors it posts. *)

IoFrame == UNCHANGED <<next, store, jobs, batch, ready, net, world, executed>>

IoTake ==
  /\ io = NoJob /\ snapshots # <<>>
  /\ io' = Head(snapshots) /\ snapshots' = Tail(snapshots)
  /\ IoFrame /\ UNCHANGED <<clients, functors, peers>>

\* (mutant) the JPEG thread answers by itself.
MIoPost ==
  /\ io # NoJob
  /\ io' = NoJob /\ snapshots' = snapshots
  /\ SendResponse(io.conn, Reply(io, "completed"))
  /\ IoFrame /\ UNCHANGED functors

\* (mutant) a functor is put before the others.
MIoPostFirst ==
  /\ io # NoJob
  /\ functors' = <<io>> \o functors /\ io' = NoJob
  /\ IoFrame /\ UNCHANGED <<clients, snapshots, peers>>

IoPost ==
  /\ io # NoJob
  /\ functors' = Append(functors, io) /\ io' = NoJob
  /\ IoFrame /\ UNCHANGED <<clients, snapshots, peers>>

\* A functor: cacheReply and sendResponse ...
RunFunctor ==
  /\ net.pc = "tasks" /\ batch # <<>>
  /\ LET job == Head(batch) IN
       /\ StoreFor(job, "completed")
       /\ SendResponse(job.conn, Reply(job, "completed"))
       /\ net' = [net EXCEPT !.pc = "release", !.job = job]
  /\ batch' = Tail(batch)
  /\ UNCHANGED <<next, work, functors, ready, world, executed>>

\* (mutant) a released connection is not looked at again.
MRelease ==
  /\ net.pc = "release"
  /\ IF Found(net.job.conn) = {} THEN UNCHANGED <<clients, peers>>
     ELSE \E fd \in Found(net.job.conn) :
            /\ clients' = [clients EXCEPT ![fd].pending = IF @ > 0 THEN @ - 1 ELSE 0]
            /\ peers' = peers
  /\ net' = [net EXCEPT !.pc = "tasks", !.job = NoJob]
  /\ UNCHANGED <<next, store, work, functors, batch, ready, world, executed>>

\* ... and release.
Release ==
  /\ net.pc = "release"
  /\ IF Found(net.job.conn) = {} THEN UNCHANGED <<clients, peers>>
     ELSE \E fd \in Found(net.job.conn) :
            Flush(fd, [clients[fd] EXCEPT !.pending = IF @ > 0 THEN @ - 1 ELSE 0])
  /\ net' = [net EXCEPT !.pc = "tasks", !.job = NoJob]
  /\ UNCHANGED <<next, store, work, functors, batch, ready, world, executed>>

FunctorsDone ==
  /\ net.pc = "tasks" /\ batch = <<>>
  /\ NetTo("poll")
  /\ LoopFrame /\ UNCHANGED <<clients, next, functors, batch, ready, peers, backlog>>

-------------------------------------------------------------------------------
Network ==
  \/ Poll \/ DispatchListen \/ AcceptTooMany \/ Accept \/ AcceptDone
  \/ DispatchError \/ DispatchRead \/ DispatchWrite \/ Swap
  \/ LineTooLong \/ Replay \/ Query \/ Reject \/ TryPush \/ Retain \/ LinesDone
  \/ RunFunctor \/ Release \/ FunctorsDone

Io == IoTake \/ IoPost

Peers ==
  \/ Connect
  \/ \E s \in 1..MaxSockets :
       \/ \E request \in Requests : PeerSend(s, request)
       \/ \E end \in {"half", "gone"} : PeerEnds(s, end)
       \/ PeerStalls(s)

Next == Network \/ Io \/ Peers

\* Both threads are scheduled.
Spec == Init /\ [][Next]_vars /\ WF_vars(Network) /\ WF_vars(Io)

-------------------------------------------------------------------------------
(* What the sockets see of it. *)

Holding(s) == {fd \in Used : clients[fd].sock = s}

\* What was sent to socket s, or still waits in its client's out.
Sent(s) ==
  IF Holding(s) = {} THEN peers[s].got
  ELSE peers[s].got \o clients[CHOOSE fd \in Holding(s) : TRUE].out

\* The requests of socket s that are not yet executed, while it is open.
Asked(s) ==
  IF Holding(s) = {} THEN <<>>
  ELSE clients[CHOOSE fd \in Holding(s) : TRUE].in \o peers[s].wire

Phase(s) == IF Connected(s) THEN "open" ELSE IF s < next THEN "over" ELSE "new"

Phases == [s \in 1..MaxSockets |-> Phase(s)]
AllAsked == [s \in 1..MaxSockets |-> Asked(s)]
AllSent == [s \in 1..MaxSockets |-> Sent(s)]

\* A job as its socket knows it; the jobs not yet answered, and those to be accepted.
Seen(job) == [sock |-> job.sock, id |-> job.id, n |-> job.n]
Unanswered ==
  {Seen(job) : job \in ToSet(batch) \cup ToSet(functors) \cup ({io} \ {NoJob}) \cup ToSet(snapshots)}
Unaccepted == IF net.pc = "retain" THEN {Seen(net.job)} ELSE {}

D == INSTANCE Dialogue WITH
       Sockets <- 1..MaxSockets, phase <- Phases, asked <- AllAsked, sent <- AllSent,
       taken <- jobs, waiting <- Unanswered, untold <- Unaccepted

\* Each request is executed once, in order, and each job is accepted and then answered,
\* in the order of the jobs; nothing else is said.
RefinesDialogue == D!Spec

-------------------------------------------------------------------------------
(* Properties. *)

\* The jobs of socket s that are accepted and not yet answered and released.
Outstanding(s) ==
  {job \in ToSet(snapshots) \cup ToSet(functors) \cup ToSet(batch) \cup {io, net.job} :
     job.sock = s}

\* A reply reaches the socket that sent the request, although descriptors are used
\* again while jobs of closed connections are still queued (docs/protocol.md:28).
OwnReplies == \A s \in 1..MaxSockets : \A i \in DOMAIN Sent(s) : Sent(s)[i].sock = s

\* "accepted" comes before the result, although the JPEG thread may be done before
\* the network thread has written it (docs/protocol.md:24).
AcceptedFirst ==
  \A s \in 1..MaxSockets : \A i \in DOMAIN Sent(s) :
    Sent(s)[i].job # 0 /\ Sent(s)[i].status = "completed"
      => \E j \in 1..i - 1 : Sent(s)[j].job = Sent(s)[i].job /\ Sent(s)[j].status = "accepted"

\* A connection is held for exactly its unanswered jobs.
PendingExact ==
  \A fd \in Used :
    clients[fd].pending + (IF net.pc = "retain" /\ net.fd = fd THEN 1 ELSE 0)
      = Cardinality(Outstanding(clients[fd].sock))

\* An event is never delivered to another connection than the one it was reported
\* for, although descriptors are closed and accepted again within one batch.
EventsMeetOwner ==
  \A event \in ready : event.fd = 0 \/ clients[event.fd].sock \in {0, event.sock}

\* A half-closed connection is closed only when it has read, executed and answered
\* everything that was sent to it (docs/protocol.md:28).
DrainedCompletely ==
  [][\A s \in 1..MaxSockets :
       peers[s].over = "no" /\ peers'[s].over = "drained"
         => /\ peers[s].wire = <<>>
            /\ \A fd \in Used : clients[fd].sock = s => clients[fd].in = <<>>
            /\ \A job \in Outstanding(s) : job = net.job /\ net.pc = "release"]_vars

\* A command is not executed again while its reply is among the CacheLimit stored
\* last, for all connections together.
Recent(keys) == {keys[i] : i \in {i \in DOMAIN keys : i > Len(keys) - CacheLimit}}
ExecutedOnce ==
  [][executed'.count # executed.count => executed'.key \notin Recent(inserted)]_vars

\* A half-closed client that goes on reading sees its connection end.
HalfClosedEnds ==
  \A s \in 1..MaxSockets :
    <>[](~peers[s].stalled)
      => ((peers[s].end = "half" /\ peers[s].over = "no") ~> (peers[s].over # "no"))

\* "Each connection's 128 latest responses are stored, and a repeated id is answered
\* with the old response" (docs/protocol.md:28).  False: the 128 are shared.
ExecutedOncePerConnection ==
  [][executed'.count # executed.count =>
       LET k == executed'.key
           Own(key) == key[1] = k[1] IN
       k \notin Recent(SelectSeq(inserted, Own))]_vars
===============================================================================
