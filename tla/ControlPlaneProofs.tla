------------------------- MODULE ControlPlaneProofs ---------------------------
(***************************************************************************)
(* What holds of the control protocol for every value of the constants:    *)
(* replies and events belong to the connection they are given to, a        *)
(* connection is held for exactly its unanswered jobs, "accepted" comes    *)
(* first, and the replay cache keeps its CacheLimit latest entries.        *)
(***************************************************************************)
EXTENDS ControlPlane, FiniteSetTheorems, SequenceTheorems, TLAPS

Sockets == 1..MaxSockets

\* Replies; those to socket s; and the jobs that sockets have given up to now.
Answers == [sock : Sockets, id : Ids, status : {"completed", "accepted", "error"}, job : Nat]
To(s) == {r \in Answers : r.sock = s}
Given == {j \in [conn : Sockets, sock : Sockets, id : Ids, cached : BOOLEAN, n : Nat \ {0}] :
            j.conn = j.sock /\ j.sock < next /\ j.n <= jobs}

\* The records of clients_, and those of peers.
Form == [id : Nat, sock : Sockets, in : Seq(Requests), out : Seq(Answers),
         eof : BOOLEAN, reading : BOOLEAN, pending : Nat, events : SUBSET {"in", "out"}]
Peer == [wire : Seq(Requests), end : {"open", "half", "gone"}, stalled : BOOLEAN,
         got : Seq(Answers), over : {"no", "drained", "dropped"}]
Pcs == {"poll", "dispatch", "accept", "lines", "retain", "tasks", "release"}
Event == [fd : Fds \cup {0}, sock : 0..MaxSockets, flags : SUBSET {"in", "out", "err"}]

Shaped ==
  /\ clients \in [Fds -> Form \cup {NoClient}] /\ peers \in [Sockets -> Peer]
  /\ next \in Nat \ {0} /\ backlog \in Nat /\ jobs \in Nat
  /\ next + backlog <= MaxSockets + 1
  /\ snapshots \in Seq(Given) /\ functors \in Seq(Given) /\ batch \in Seq(Given)
  /\ io \in Given \cup {NoJob}
  /\ net \in [pc : Pcs, fd : Fds \cup {0}, job : Given \cup {NoJob}]
  /\ ready \in SUBSET Event

\* A connection has one descriptor and one number, and its own replies.
Identified ==
  /\ \A fd \in Used : clients[fd].id = clients[fd].sock /\ clients[fd].sock < next
  /\ \A f, g \in Used : clients[f].sock = clients[g].sock => f = g
  /\ \A fd \in Used : clients[fd].out \in Seq(To(clients[fd].sock))
  /\ \A s \in Sockets : peers[s].got \in Seq(To(s))

\* The events still to be dispatched are those of open clients.
Watching ==
  /\ \A e \in ready : e.fd = 0 \/ (e.fd \in Used /\ clients[e.fd].sock = e.sock)
  /\ \A e, f \in ready : e.fd = f.fd => e = f
  /\ net.pc \in {"poll", "tasks", "release"} => ready = {}
  /\ net.pc \in {"lines", "retain"} => \A e \in ready : e.fd # net.fd

\* The jobs on their way, from the oldest to the newest.
Busy == {io} \ {NoJob}
Released == IF net.pc = "release" THEN {net.job} ELSE {}
Waiting == ToSet(batch) \cup ToSet(functors) \cup Busy \cup ToSet(snapshots)

\* Where the network thread is tells what it knows.
Placed ==
  /\ net.pc \in {"lines", "retain"} => net.fd \in Fds
  /\ net.pc \in {"retain", "release"} <=> net.job # NoJob
  /\ net.pc = "retain" =>
       net.fd \in Used /\ clients[net.fd].sock = net.job.sock /\ net.job \in Waiting
  /\ batch # <<>> => net.pc \in {"tasks", "release"}

\* What was read belongs to the client whose lines are being executed, and the end
\* of a connection was read last.
Reading ==
  \A fd \in Used :
    /\ clients[fd].reading => net.pc \in {"lines", "retain"} /\ net.fd = fd
    /\ ~clients[fd].reading => clients[fd].in = <<>>
    /\ clients[fd].eof => /\ peers[clients[fd].sock].wire = <<>>
                          /\ peers[clients[fd].sock].end # "open"

Ordered(s) == \A i, j \in DOMAIN s : i < j => s[i].n < s[j].n
Below(S, T) == \A x \in S, y \in T : x.n < y.n

\* The jobs of each of the five are older than those of the next.
Turns(R, B, F, I, S) ==
  /\ Below(R, B) /\ Below(R, F) /\ Below(R, I) /\ Below(R, S)
  /\ Below(B, F) /\ Below(B, I) /\ Below(B, S)
  /\ Below(F, I) /\ Below(F, S) /\ Below(I, S)

InTurn ==
  /\ Ordered(batch) /\ Ordered(functors) /\ Ordered(snapshots)
  /\ Turns(Released, ToSet(batch), ToSet(functors), Busy, ToSet(snapshots))

\* ks holds the last of the keys ever, at most CacheLimit, each once.
LatestOf(ks, ever) ==
  /\ Len(ks) = (IF Len(ever) < CacheLimit THEN Len(ever) ELSE CacheLimit)
  /\ \A i \in 1..Len(ks) : ks[i] = ever[Len(ever) - Len(ks) + i]
  /\ \A i, j \in 1..Len(ks) : ks[i] = ks[j] => i = j

\* A reply is stored under the key of the connection it was sent to.
CacheKeys == Sockets \X Ids
OwnReply(k, r) == k[1] < next /\ r \in To(k[1])

\* order holds the keys of the cache, the latest ones ever put into it.
Cached ==
  /\ order \in Seq(CacheKeys) /\ inserted \in Seq(CacheKeys)
  /\ LatestOf(order, inserted) /\ DOMAIN replies = ToSet(order)
  /\ \A k \in DOMAIN replies : OwnReply(k, replies[k])

\* The jobs that the replies in q say are accepted.
Told(q) == {q[i].job : i \in {i \in DOMAIN q : q[i].status = "accepted"}}

\* In q, a job is accepted before it is completed.
Sound(q) ==
  \A i \in DOMAIN q :
    q[i].job # 0 /\ q[i].status = "completed"
      => \E j \in 1..i - 1 : q[j].job = q[i].job /\ q[j].status = "accepted"

\* The jobs not yet answered and released, and those of socket s.
Pool == Waiting \cup Released
Owed(s) == {j \in Pool : j.sock = s}

\* Every job that socket s will be told to be done is accepted, in what it was sent:
\* the jobs on their way, and those whose replies are stored.
Sure(s) == \A j \in Owed(s) : j.n \in Told(Sent(s)) \/ (net.pc = "retain" /\ j = net.job)
Known(s) == \A k \in DOMAIN replies :
              k[1] = s /\ replies[k].job # 0 => replies[k].job \in Told(Sent(s))
Promised == \A fd \in Used, s \in Sockets : clients[fd].sock = s => Sure(s) /\ Known(s)

\* PendingExact, in these terms.
Unpaid(fd) == clients[fd].pending + (IF net.pc = "retain" /\ net.fd = fd THEN 1 ELSE 0)
Counted ==
  \A fd \in Used, s \in Sockets : clients[fd].sock = s => Unpaid(fd) = Cardinality(Owed(s))

ControlIInv ==
  /\ Shaped /\ Identified /\ Watching /\ Placed /\ Reading /\ InTurn /\ Cached
  /\ AcceptedFirst /\ Promised /\ Counted

-------------------------------------------------------------------------------
(* Sequences. *)

LEMMA SeqWider ==
  ASSUME NEW S, NEW T, S \subseteq T, NEW s \in Seq(S)
  PROVE  s \in Seq(T)
<1>1. \A i \in 1..Len(s) : s[i] \in T
  OBVIOUS
<1> QED
  BY <1>1

LEMMA ItemsOf ==
  ASSUME NEW S, NEW s \in Seq(S)
  PROVE  /\ Len(s) \in Nat /\ DOMAIN s = 1..Len(s) /\ ToSet(s) \subseteq S
         /\ ToSet(s) = {s[i] : i \in 1..Len(s)}
         /\ s = <<>> => ToSet(s) = {} /\ Len(s) = 0
<1>1. DOMAIN s = 1..Len(s) /\ \A i \in 1..Len(s) : s[i] \in S
  OBVIOUS
<1>2. s = <<>> => DOMAIN s = {} /\ Len(s) = 0
  OBVIOUS
<1> QED
  BY <1>1, <1>2 DEF ToSet

LEMMA ItemsOfAppend ==
  ASSUME NEW S, NEW s \in Seq(S), NEW x \in S
  PROVE  Append(s, x) \in Seq(S) /\ ToSet(Append(s, x)) = ToSet(s) \cup {x}
<1>1. /\ Append(s, x) \in Seq(S) /\ Len(Append(s, x)) = Len(s) + 1 /\ Len(s) \in Nat
      /\ \A i \in 1..Len(s) : Append(s, x)[i] = s[i]
      /\ Append(s, x)[Len(s) + 1] = x
  OBVIOUS
<1>2. ToSet(s) = {s[i] : i \in 1..Len(s)}
      /\ ToSet(Append(s, x)) = {Append(s, x)[i] : i \in 1..Len(Append(s, x))}
  BY <1>1, ItemsOf, Zenon
<1>3. 1..Len(s) + 1 = 1..Len(s) \cup {Len(s) + 1}
  BY <1>1
<1> QED
  BY <1>1, <1>2, <1>3

LEMMA ItemsOfTail ==
  ASSUME NEW S, NEW s \in Seq(S), s # <<>>
  PROVE  /\ Head(s) \in S /\ Tail(s) \in Seq(S) /\ ToSet(s) = {Head(s)} \cup ToSet(Tail(s))
         /\ Len(Tail(s)) = Len(s) - 1 /\ Len(s) \in Nat \ {0} /\ Head(s) = s[1]
         /\ \A i \in 1..Len(s) - 1 : Tail(s)[i] = s[i + 1]
<1>1. /\ Head(s) \in S /\ Tail(s) \in Seq(S)
      /\ Len(Tail(s)) = Len(s) - 1 /\ Len(s) \in Nat \ {0} /\ Head(s) = s[1]
      /\ \A i \in 1..Len(s) - 1 : Tail(s)[i] = s[i + 1]
  OBVIOUS
<1>2. ToSet(s) = {s[i] : i \in 1..Len(s)} /\ ToSet(Tail(s)) = {Tail(s)[i] : i \in 1..Len(s) - 1}
  BY <1>1, ItemsOf
<1>3. ASSUME NEW x \in ToSet(s) PROVE x \in {Head(s)} \cup ToSet(Tail(s))
  <2>1. PICK i \in 1..Len(s) : x = s[i]
    BY <1>2, <1>3
  <2>2. CASE i = 1
    BY <1>1, <2>1, <2>2
  <2>3. CASE i # 1
    <3>1. i - 1 \in 1..Len(s) - 1 /\ (i - 1) + 1 = i
      BY <1>1, <2>1, <2>3
    <3>2. Tail(s)[i - 1] = s[i]
      BY <1>1, <3>1
    <3> QED
      BY <1>2, <2>1, <3>1, <3>2
  <2> QED
    BY <2>2, <2>3
<1>4. ASSUME NEW x \in {Head(s)} \cup ToSet(Tail(s)) PROVE x \in ToSet(s)
  <2>1. CASE x = Head(s)
    <3>1. 1 \in 1..Len(s)
      BY <1>1
    <3> QED
      BY <1>1, <1>2, <2>1, <3>1
  <2>2. CASE x \in ToSet(Tail(s))
    <3>1. PICK i \in 1..Len(s) - 1 : x = Tail(s)[i]
      BY <1>2, <2>2
    <3>2. i + 1 \in 1..Len(s) /\ x = s[i + 1]
      BY <1>1, <3>1
    <3> QED
      BY <1>2, <3>2
  <2> QED
    BY <1>4, <2>1, <2>2
<1> QED
  BY <1>1, <1>3, <1>4

LEMMA NoItems == ToSet(<<>>) = {} /\ \A S : <<>> \in Seq(S)
  BY DEF ToSet

LEMMA Joined ==
  ASSUME NEW S, NEW a \in Seq(S), NEW b \in Seq(S), NEW c \in Seq(S), Len(c) = Len(a) + Len(b),
         \A i \in 1..Len(a) : c[i] = a[i], \A i \in 1..Len(b) : c[Len(a) + i] = b[i]
  PROVE  a \o b = c
<1>1. /\ a \o b \in Seq(S) /\ Len(a \o b) = Len(c) /\ Len(a) \in Nat /\ Len(b) \in Nat
      /\ \A i \in 1..Len(c) : (a \o b)[i] = IF i <= Len(a) THEN a[i] ELSE b[i - Len(a)]
  OBVIOUS
<1>2. ASSUME NEW i \in 1..Len(c) PROVE (a \o b)[i] = c[i]
  <2>1. CASE i <= Len(a)
    BY <1>1, <2>1
  <2>2. CASE ~(i <= Len(a))
    <3>1. i - Len(a) \in 1..Len(b) /\ Len(a) + (i - Len(a)) = i
      BY <1>1, <2>2
    <3>2. c[i] = b[i - Len(a)]
      BY <3>1
    <3> QED
      BY <1>1, <2>2, <3>2
  <2> QED
    BY <2>1, <2>2
<1> QED
  BY <1>1, <1>2, SeqEqual

\* b1 and b2 are the two parts of b.
InTwo(b, b1, b2) ==
  /\ Len(b) = Len(b1) + Len(b2) /\ \A i \in 1..Len(b1) : b[i] = b1[i]
  /\ \A i \in 1..Len(b2) : b[Len(b1) + i] = b2[i]

LEMMA Halves ==
  ASSUME NEW S, NEW b \in Seq(S), NEW n \in 0..Len(b)
  PROVE  \E b1, b2 \in Seq(S) :
           b1 = SubSeq(b, 1, n) /\ b2 = SubSeq(b, n + 1, Len(b)) /\ InTwo(b, b1, b2)
<1>1. PICK b1, b2 : b1 = SubSeq(b, 1, n) /\ b2 = SubSeq(b, n + 1, Len(b))
  OBVIOUS
<1>2. /\ Len(b) \in Nat /\ n \in Nat /\ b1 \in Seq(S) /\ b2 \in Seq(S)
      /\ Len(b1) = n /\ Len(b2) = Len(b) - n
      /\ \A i \in 1..n : b1[i] = b[i]
      /\ \A i \in 1..Len(b) - n : b2[i] = b[n + i]
  BY <1>1
<1>3. InTwo(b, b1, b2)
  BY <1>2 DEF InTwo
<1> QED
  BY <1>1, <1>2, <1>3, Zenon

\* The first n items of b go to the end of a.
MovesOver(S, a, b, n) ==
  /\ a \o SubSeq(b, 1, n) \in Seq(S) /\ SubSeq(b, n + 1, Len(b)) \in Seq(S)
  /\ (a \o SubSeq(b, 1, n)) \o SubSeq(b, n + 1, Len(b)) = a \o b

LEMMA Transfer ==
  ASSUME NEW S, NEW a \in Seq(S), NEW b \in Seq(S), NEW n \in 0..Len(b)
  PROVE  MovesOver(S, a, b, n)
<1>1. PICK b1, b2 \in Seq(S) :
        b1 = SubSeq(b, 1, n) /\ b2 = SubSeq(b, n + 1, Len(b)) /\ InTwo(b, b1, b2)
  BY Halves
<1>2. b1 \o b2 = b
  <2>1. InTwo(b, b1, b2)
    BY <1>1, Zenon
  <2> QED
    BY <2>1, Joined DEF InTwo
<1>3. a \o b1 \in Seq(S) /\ (a \o b1) \o b2 = a \o (b1 \o b2)
  <2>1. a \o b1 \in Seq(S)
    BY ConcatProperties
  <2>2. (a \o b1) \o b2 = a \o (b1 \o b2)
    BY ConcatAssociative
  <2> QED
    BY <2>1, <2>2
<1>4. SubSeq(b, 1, n) = b1 /\ SubSeq(b, n + 1, Len(b)) = b2
  BY <1>1, Zenon
<1>5. a \o b1 \in Seq(S) /\ b2 \in Seq(S) /\ (a \o b1) \o b2 = a \o b
  BY <1>2, <1>3, Zenon
<1> QED
  BY <1>4, <1>5 DEF MovesOver

LEMMA AppendedLast ==
  ASSUME NEW S, NEW a \in Seq(S), NEW b \in Seq(S), NEW x \in S
  PROVE  a \o Append(b, x) = Append(a \o b, x) /\ a \o b \in Seq(S)
<1>1. a \o b \in Seq(S) /\ Append(b, x) \in Seq(S) /\ <<x>> \in Seq(S)
  BY ConcatProperties
<1>2. Append(b, x) = b \o <<x>> /\ Append(a \o b, x) = (a \o b) \o <<x>>
  BY <1>1, AppendIsConcat
<1> QED
  BY <1>1, <1>2, ConcatAssociative

-------------------------------------------------------------------------------
(* Clients and peers. *)

LEMMA Limits ==
  /\ MaxClients \in Nat \ {0} /\ CacheLimit \in Nat \ {0} /\ SnapshotCapacity \in Nat \ {0}
  /\ MaxSockets \in Nat /\ 0 \notin Fds /\ Ids \subseteq Nat
  BY LimitAssumption, RequestAssumption DEF LimitAssumption, RequestAssumption

LEMMA Nobody == NoClient.sock = 0 /\ NoClient.id = 0 /\ NoClient \notin Form /\ 0 \notin Sockets
  BY Limits DEF NoClient, Form, Sockets

LEMMA Fields ==
  ASSUME NEW c \in Form
  PROVE  /\ c.id \in Nat /\ c.sock \in Sockets /\ c.in \in Seq(Requests) /\ c.out \in Seq(Answers)
         /\ c.eof \in BOOLEAN /\ c.reading \in BOOLEAN /\ c.pending \in Nat
         /\ c.events \in SUBSET {"in", "out"} /\ c # NoClient
  BY Nobody DEF Form

LEMMA PeerFields ==
  ASSUME NEW p \in Peer
  PROVE  /\ p.wire \in Seq(Requests) /\ p.end \in {"open", "half", "gone"} /\ p.stalled \in BOOLEAN
         /\ p.got \in Seq(Answers) /\ p.over \in {"no", "drained", "dropped"}
  BY DEF Peer

\* d is c but for its output and its events.
Like(d, c) ==
  /\ d.id = c.id /\ d.sock = c.sock /\ d.in = c.in
  /\ d.eof = c.eof /\ d.reading = c.reading /\ d.pending = c.pending

LEMMA OutputSet ==
  ASSUME NEW c \in Form, NEW out \in Seq(Answers)
  PROVE  LET d == [c EXCEPT !.out = out] IN d \in Form /\ Like(d, c) /\ d.out = out
  BY DEF Form, Like

LEMMA EventsSet ==
  ASSUME NEW c \in Form, NEW events \in SUBSET {"in", "out"}
  PROVE  LET d == [c EXCEPT !.events = events] IN d \in Form /\ Like(d, c) /\ d.out = c.out
  BY DEF Form, Like

LEMMA InputSet ==
  ASSUME NEW c \in Form, NEW in \in Seq(Requests)
  PROVE  LET d == [c EXCEPT !.in = in] IN
         /\ d \in Form /\ d.in = in /\ d.id = c.id /\ d.sock = c.sock /\ d.out = c.out
         /\ d.eof = c.eof /\ d.reading = c.reading /\ d.pending = c.pending
  BY DEF Form

LEMMA ReadingSet ==
  ASSUME NEW c \in Form, NEW reading \in BOOLEAN
  PROVE  LET d == [c EXCEPT !.reading = reading] IN
         /\ d \in Form /\ d.reading = reading /\ d.id = c.id /\ d.sock = c.sock /\ d.out = c.out
         /\ d.eof = c.eof /\ d.in = c.in /\ d.pending = c.pending
  BY DEF Form

LEMMA PendingSet ==
  ASSUME NEW c \in Form, NEW pending \in Nat
  PROVE  LET d == [c EXCEPT !.pending = pending] IN
         /\ d \in Form /\ d.pending = pending /\ d.id = c.id /\ d.sock = c.sock /\ d.out = c.out
         /\ d.eof = c.eof /\ d.in = c.in /\ d.reading = c.reading
  BY DEF Form

LEMMA WatchedEvents == \A c : Watched(c) \in SUBSET {"in", "out"}
  BY DEF Watched

LEMMA PeerSet ==
  ASSUME peers \in [Sockets -> Peer], NEW s \in Sockets, NEW got \in Seq(Answers),
         NEW over \in {"no", "drained", "dropped"},
         peers' = [peers EXCEPT ![s] = [@ EXCEPT !.got = got, !.over = over]]
  PROVE  /\ peers' \in [Sockets -> Peer] /\ \A t \in Sockets \ {s} : peers'[t] = peers[t]
         /\ peers'[s].wire = peers[s].wire /\ peers'[s].end = peers[s].end
         /\ peers'[s].got = got /\ peers'[s].over = over
<1>1. [peers[s] EXCEPT !.got = got, !.over = over] \in Peer
  BY DEF Peer
<1>2. peers'[s] = [peers[s] EXCEPT !.got = got, !.over = over]
  OBVIOUS
<1>3. /\ peers'[s].wire = peers[s].wire /\ peers'[s].end = peers[s].end
      /\ peers'[s].got = got /\ peers'[s].over = over
  BY <1>2 DEF Peer
<1> QED
  BY <1>1, <1>3

\* What Drop, Flush and Send have in common: descriptor fd, whose client is c by now,
\* is closed with or without its output sent, or some of it moves to the peer.
Serves(fd, c) ==
  LET s == c.sock IN
  /\ clients' \in [Fds -> Form \cup {NoClient}] /\ peers' \in [Sockets -> Peer]
  /\ \A g \in Fds \ {fd} : clients'[g] = clients[g]
  /\ \A t \in Sockets \ {s} : peers'[t] = peers[t]
  /\ peers'[s].wire = peers[s].wire /\ peers'[s].end = peers[s].end
  /\ \/ /\ clients'[fd] = NoClient /\ peers'[s].over = "dropped"
        /\ peers'[s].got = peers[s].got
     \/ /\ clients'[fd] = NoClient /\ peers'[s].over = "drained"
        /\ c.eof /\ ~c.reading /\ c.pending = 0
        /\ peers'[s].got = peers[s].got \o c.out
     \/ /\ clients'[fd] \in Form /\ Like(clients'[fd], c)
        /\ peers'[s].over = peers[s].over
        /\ clients'[fd].out \in Seq(To(s)) /\ peers'[s].got \in Seq(To(s))
        /\ peers'[s].got \o clients'[fd].out = peers[s].got \o c.out

\* A client that may have made progress since clients has it.
Served(fd, c) ==
  /\ fd \in Used /\ c \in Form /\ c.sock = clients[fd].sock /\ c.id = clients[fd].id
  /\ c.eof = clients[fd].eof /\ c.out \in Seq(To(c.sock))

\* Client c with one more reply to send.
With(c, reply) == [c EXCEPT !.out = Append(c.out, reply)]

LEMMA ToAnswers == \A s : To(s) \subseteq Answers
  BY DEF To

LEMMA UsedForm ==
  ASSUME Shaped, NEW fd \in Used
  PROVE  fd \in Fds /\ clients[fd] \in Form /\ clients[fd].sock \in Sockets
  BY Fields DEF Shaped, Used

LEMMA DropServes ==
  ASSUME Shaped, Identified, NEW fd, NEW c, Served(fd, c), Drop(fd)
  PROVE  Serves(fd, c)
<1>1. fd \in Fds /\ clients[fd] \in Form /\ c.sock = clients[fd].sock /\ c.sock \in Sockets
      /\ clients \in [Fds -> Form \cup {NoClient}] /\ peers \in [Sockets -> Peer]
  BY UsedForm DEF Served, Shaped
<1>2. /\ clients' \in [Fds -> Form \cup {NoClient}] /\ clients'[fd] = NoClient
      /\ \A g \in Fds \ {fd} : clients'[g] = clients[g]
  BY <1>1 DEF Drop
<1>3. peers[c.sock] \in Peer /\ peers[c.sock].got \in Seq(Answers)
  BY <1>1, PeerFields
<1>4. peers' = [peers EXCEPT ![c.sock] = [@ EXCEPT !.got = peers[c.sock].got, !.over = "dropped"]]
  <2>1. peers' = [peers EXCEPT ![c.sock] = [@ EXCEPT !.over = "dropped"]]
    BY <1>1 DEF Drop
  <2>2. [peers[c.sock] EXCEPT !.over = "dropped"]
          = [peers[c.sock] EXCEPT !.got = peers[c.sock].got, !.over = "dropped"]
    BY <1>3 DEF Peer
  <2> QED
    BY <2>1, <2>2
<1>5. /\ peers' \in [Sockets -> Peer] /\ \A t \in Sockets \ {c.sock} : peers'[t] = peers[t]
      /\ peers'[c.sock].wire = peers[c.sock].wire /\ peers'[c.sock].end = peers[c.sock].end
      /\ peers'[c.sock].got = peers[c.sock].got /\ peers'[c.sock].over = "dropped"
  BY <1>1, <1>3, <1>4, PeerSet
<1> QED
  BY <1>2, <1>5, Zenon DEF Serves

LEMMA FlushServes ==
  ASSUME Shaped, Identified, NEW fd, NEW c, Served(fd, c), Flush(fd, c)
  PROVE  Serves(fd, c)
<1> DEFINE s == c.sock
<1>1. fd \in Fds /\ c \in Form /\ c.sock = clients[fd].sock /\ s \in Sockets
      /\ clients \in [Fds -> Form \cup {NoClient}] /\ peers \in [Sockets -> Peer]
      /\ c.out \in Seq(To(s)) /\ peers[s].got \in Seq(To(s))
  BY UsedForm DEF Served, Shaped, Identified
<1>2. CASE Drop(fd)
  BY <1>2, DropServes
<1>3. CASE ~Drop(fd)
  <2> DEFINE Left(n) == [c EXCEPT !.out = SubSeq(c.out, n + 1, Len(c.out))]
  <2>1. PICK n \in Taken(peers[c.sock], c.out) :
         /\ clients' = [clients EXCEPT ![fd] = IF Drained(Left(n)) THEN NoClient
                          ELSE [Left(n) EXCEPT !.events = Watched(Left(n))]]
         /\ peers' = [peers EXCEPT ![c.sock].got = @ \o SubSeq(c.out, 1, n),
                                   ![c.sock].over = IF Drained(Left(n)) THEN "drained" ELSE @]
    BY <1>3, Zenon DEF Flush
  <2>2. n \in 0..Len(c.out)
    <3>1. Len(c.out) \in Nat
      BY <1>1
    <3> QED
      BY <3>1 DEF Taken
  <2> DEFINE got == peers[s].got \o SubSeq(c.out, 1, n)
             out == SubSeq(c.out, n + 1, Len(c.out))
             rest == Left(n)
  <2>3. /\ got \in Seq(To(s)) /\ out \in Seq(To(s)) /\ got \o out = peers[s].got \o c.out
    <3>1. PICK a, b, S : a = peers[s].got /\ b = c.out /\ S = To(s)
      OBVIOUS
    <3>2. a \in Seq(S) /\ b \in Seq(S) /\ n \in 0..Len(b)
      BY <1>1, <2>2, <3>1, Zenon
    <3>3. MovesOver(S, a, b, n)
      BY <3>2, Transfer, Zenon
    <3>4. got = a \o SubSeq(b, 1, n) /\ out = SubSeq(b, n + 1, Len(b))
      BY <3>1, Zenon
    <3> HIDE DEF got, out
    <3> QED
      BY <3>1, <3>3, <3>4, Zenon DEF MovesOver
  <2>4. got \in Seq(Answers) /\ out \in Seq(Answers)
    BY <2>3, ToAnswers, SeqWider
  <2>5. rest \in Form /\ Like(rest, c) /\ rest.out = out
    BY <1>1, <2>4, OutputSet
  <2>6. /\ [rest EXCEPT !.events = Watched(rest)] \in Form
        /\ Like([rest EXCEPT !.events = Watched(rest)], rest)
        /\ [rest EXCEPT !.events = Watched(rest)].out = out
    <3> HIDE DEF rest, out
    <3> QED
      BY <2>5, EventsSet, WatchedEvents
  <2> DEFINE over == IF Drained(rest) THEN "drained" ELSE peers[s].over
  <2>7. over \in {"no", "drained", "dropped"}
    BY <1>1, PeerFields
  <2>8. peers' = [peers EXCEPT ![s] = [@ EXCEPT !.got = got, !.over = over]]
    BY <2>1
  <2>9. /\ clients' = [clients EXCEPT ![fd] = IF Drained(rest) THEN NoClient
                         ELSE [rest EXCEPT !.events = Watched(rest)]]
    BY <2>1
  <2> HIDE DEF got, out, rest, over
  <2>10. /\ peers' \in [Sockets -> Peer] /\ \A t \in Sockets \ {s} : peers'[t] = peers[t]
         /\ peers'[s].wire = peers[s].wire /\ peers'[s].end = peers[s].end
         /\ peers'[s].got = got /\ peers'[s].over = over
    BY <1>1, <2>4, <2>7, <2>8, PeerSet
  <2>11. CASE Drained(rest)
    <3>1. /\ clients'[fd] = NoClient /\ clients' \in [Fds -> Form \cup {NoClient}]
          /\ \A g \in Fds \ {fd} : clients'[g] = clients[g]
      BY <1>1, <2>9, <2>11
    <3>2. c.eof /\ ~c.reading /\ c.pending = 0 /\ out = <<>>
      BY <2>5, <2>11 DEF Drained, Like
    <3>3. got = peers[s].got \o c.out
      <4>1. got \o <<>> = got
        BY <2>3, ConcatEmptySeq
      <4> QED
        BY <2>3, <3>2, <4>1
    <3>4. over = "drained"
      BY <2>11 DEF over
    <3> QED
      BY <2>10, <3>1, <3>2, <3>3, <3>4, Zenon DEF Serves
  <2>12. CASE ~Drained(rest)
    <3>1. /\ clients'[fd] = [rest EXCEPT !.events = Watched(rest)]
          /\ clients' \in [Fds -> Form \cup {NoClient}]
          /\ \A g \in Fds \ {fd} : clients'[g] = clients[g]
      BY <1>1, <2>6, <2>9, <2>12
    <3>2. clients'[fd] \in Form /\ Like(clients'[fd], c) /\ clients'[fd].out = out
      BY <2>5, <2>6, <3>1 DEF Like
    <3>3. over = peers[s].over
      BY <2>12 DEF over
    <3> QED
      BY <2>3, <2>10, <3>1, <3>2, <3>3, Zenon DEF Serves
  <2> QED
    BY <2>11, <2>12
<1> QED
  BY <1>2, <1>3

LEMMA SendServes ==
  ASSUME Shaped, Identified, NEW fd, NEW c, Served(fd, c),
         NEW reply \in To(c.sock), Send(fd, c, reply)
  PROVE  /\ Served(fd, With(c, reply)) /\ Serves(fd, With(c, reply)) /\ Like(With(c, reply), c)
         /\ With(c, reply).out = Append(c.out, reply)
<1> DEFINE d == [c EXCEPT !.out = Append(c.out, reply)]
<1>1. c \in Form /\ c.out \in Seq(To(c.sock)) /\ Append(c.out, reply) \in Seq(To(c.sock))
  BY DEF Served
<1>2. d \in Form /\ Like(d, c) /\ d.out = Append(c.out, reply)
  BY <1>1, ToAnswers, SeqWider, OutputSet
<1>3. Drop(fd) \/ Flush(fd, d)
  BY DEF Send
<1> HIDE DEF d
<1>4. Served(fd, d)
  BY <1>1, <1>2 DEF Served, Like
<1>5. Serves(fd, d)
  BY <1>3, <1>4, DropServes, FlushServes
<1> QED
  BY <1>2, <1>4, <1>5 DEF d, With

-------------------------------------------------------------------------------
(* What serving a client changes. *)

LEMMA ServesUsed ==
  ASSUME Shaped, Identified, NEW fd, NEW c, Served(fd, c), Serves(fd, c)
  PROVE  /\ Used' \subseteq Used /\ \A g \in Used : g # fd => g \in Used'
         /\ \A g \in Used' : clients'[g].id = clients[g].id /\ clients'[g].sock = clients[g].sock
         /\ fd \in Used' => clients'[fd] \in Form /\ Like(clients'[fd], c)
<1>1. /\ fd \in Used /\ c.sock = clients[fd].sock /\ c.id = clients[fd].id
      /\ \A g \in Fds \ {fd} : clients'[g] = clients[g]
      /\ clients'[fd] = NoClient \/ (clients'[fd] \in Form /\ Like(clients'[fd], c))
  BY Zenon DEF Served, Serves
<1>2. fd \in Used' => clients'[fd] \in Form /\ Like(clients'[fd], c)
  BY <1>1, Zenon DEF Used
<1>3. /\ fd \in Used' => clients'[fd].id = clients[fd].id /\ clients'[fd].sock = clients[fd].sock
  BY <1>1, <1>2, Zenon DEF Like
<1> QED
  BY <1>1, <1>2, <1>3, Zenon DEF Used

LEMMA ServesIdentity ==
  ASSUME Shaped, Identified, NEW fd, NEW c, Served(fd, c), Serves(fd, c), next' = next
  PROVE  Identified'
<1> DEFINE s == c.sock
<1>1. fd \in Used /\ fd \in Fds /\ s = clients[fd].sock /\ s \in Sockets /\ c.out \in Seq(To(s))
  BY UsedForm DEF Served
<1>2. /\ Used' \subseteq Used /\ \A g \in Used : g # fd => g \in Used'
      /\ \A g \in Used' : clients'[g].id = clients[g].id /\ clients'[g].sock = clients[g].sock
  BY ServesUsed
<1>3. \A g \in Used' : clients'[g].id = clients'[g].sock /\ clients'[g].sock < next'
  BY <1>2, Zenon DEF Identified
<1>4. ASSUME NEW f \in Used', NEW g \in Used', clients'[f].sock = clients'[g].sock
      PROVE  f = g
  <2>1. f \in Used /\ g \in Used /\ clients[f].sock = clients[g].sock
    BY <1>2, <1>4
  <2> QED
    BY <2>1, Zenon DEF Identified
<1>5. ASSUME NEW g \in Used' PROVE clients'[g].out \in Seq(To(clients'[g].sock))
  <2>1. CASE g = fd
    <3>1. clients'[fd] # NoClient
      BY <2>1, Zenon DEF Used
    <3>2. clients'[fd].out \in Seq(To(s))
      BY <3>1, Zenon DEF Serves
    <3> QED
      BY <1>1, <1>2, <2>1, <3>2, Zenon
  <2>2. CASE g # fd
    <3>1. g \in Used /\ g \in Fds
      BY <1>2, UsedForm
    <3>2. clients'[g] = clients[g]
      BY <2>2, <3>1, Zenon DEF Serves
    <3> QED
      BY <3>1, <3>2, Zenon DEF Identified
  <2> QED
    BY <2>1, <2>2
<1>6. ASSUME NEW t \in Sockets PROVE peers'[t].got \in Seq(To(t))
  <2>1. peers[t].got \in Seq(To(t)) /\ peers[s].got \in Seq(To(s))
    BY <1>1 DEF Identified
  <2>2. CASE t # s
    BY <2>1, <2>2, Zenon DEF Serves
  <2>3. CASE t = s
    <3>1. peers[s].got \o c.out \in Seq(To(s))
      BY <1>1, <2>1
    <3> QED
      BY <2>1, <2>3, <3>1, Zenon DEF Serves
  <2> QED
    BY <2>2, <2>3
<1> QED
  BY <1>3, <1>4, <1>5, <1>6, Zenon DEF Identified

\* Sent, with the clients and the peers as parameters.
SentIn(C, P, s) ==
  LET own == {fd \in {fd \in Fds : C[fd] # NoClient} : C[fd].sock = s} IN
  IF own = {} THEN P[s].got ELSE P[s].got \o C[CHOOSE fd \in own : TRUE].out

LEMMA SentIsIn ==
  \A s : Sent(s) = SentIn(clients, peers, s) /\ Sent(s)' = SentIn(clients', peers', s)
BY DEF Sent, SentIn, Holding, Used

LEMMA SentInOne ==
  ASSUME NEW C, NEW P, NEW fd \in Fds, C[fd] # NoClient,
         \A g \in Fds : C[g] # NoClient /\ C[g].sock = C[fd].sock => g = fd
  PROVE  SentIn(C, P, C[fd].sock) = P[C[fd].sock].got \o C[fd].out
<1> DEFINE own == {f \in {f \in Fds : C[f] # NoClient} : C[f].sock = C[fd].sock}
<1>1. own = {fd}
  OBVIOUS
<1>2. (CHOOSE f \in own : TRUE) = fd
  BY <1>1
<1> QED
  BY <1>1, <1>2 DEF SentIn

LEMMA SentInNone ==
  ASSUME NEW C, NEW P, NEW s, \A g \in Fds : C[g] = NoClient \/ C[g].sock # s
  PROVE  SentIn(C, P, s) = P[s].got
BY DEF SentIn

LEMMA SentInSame ==
  ASSUME NEW C, NEW P, NEW E, NEW Q, NEW s, P[s].got = Q[s].got,
         \A g \in Fds : C[g] = E[g] \/ ((C[g] = NoClient \/ C[g].sock # s)
                                        /\ (E[g] = NoClient \/ E[g].sock # s))
  PROVE  SentIn(C, P, s) = SentIn(E, Q, s)
<1> DEFINE own == {f \in {f \in Fds : C[f] # NoClient} : C[f].sock = s}
<1>1. own = {f \in {f \in Fds : E[f] # NoClient} : E[f].sock = s}
  BY Zenon
<1>2. own # {} => C[CHOOSE f \in own : TRUE] = E[CHOOSE f \in own : TRUE]
  <2>1. ASSUME NEW f \in own PROVE C[f] = E[f]
    BY Zenon
  <2> HIDE DEF own
  <2>2. own # {} => (CHOOSE f \in own : TRUE) \in own
    BY Zenon
  <2> QED
    BY <2>1, <2>2, Zenon
<1> QED
  BY <1>1, <1>2, Zenon DEF SentIn

\* A socket whose client is open was sent what arrived and what is waiting.
LEMMA SentToOpen ==
  ASSUME Identified, NEW fd \in Used
  PROVE  Sent(clients[fd].sock) = peers[clients[fd].sock].got \o clients[fd].out
<1>1. fd \in Fds /\ clients[fd] # NoClient
      /\ \A g \in Fds : clients[g] # NoClient /\ clients[g].sock = clients[fd].sock => g = fd
  BY Zenon DEF Identified, Used
<1> QED
  BY <1>1, SentIsIn, SentInOne, Zenon

\* Serving a client leaves what the others were sent; its own socket was sent the
\* output it has by now, unless the client is dropped.
LEMMA ServesSent ==
  ASSUME Shaped, Identified, NEW fd, NEW c, Served(fd, c), Serves(fd, c), next' = next
  PROVE  /\ \A t \in Sockets \ {c.sock} : Sent(t)' = Sent(t)
         /\ \/ Sent(c.sock)' = peers[c.sock].got \o c.out
            \/ fd \notin Used' /\ Sent(c.sock)' = peers[c.sock].got
<1> DEFINE s == c.sock
<1>1. fd \in Used /\ fd \in Fds /\ s = clients[fd].sock /\ s \in Sockets
  BY UsedForm DEF Served
<1>2. /\ Used' \subseteq Used
      /\ \A g \in Used' : clients'[g].sock = clients[g].sock
  BY ServesUsed
<1>3. Identified'
  BY ServesIdentity
<1>4. ASSUME NEW t \in Sockets \ {s} PROVE Sent(t)' = Sent(t)
  <2>1. peers'[t].got = peers[t].got
    BY <1>4, Zenon DEF Serves
  <2>2. \A g \in Fds : clients[g] = clients'[g] \/ ((clients[g] = NoClient \/ clients[g].sock # t)
                                        /\ (clients'[g] = NoClient \/ clients'[g].sock # t))
    <3>1. \A g \in Fds \ {fd} : clients'[g] = clients[g]
      BY Zenon DEF Serves
    <3>2. clients[fd].sock # t
      BY <1>1, <1>4
    <3>3. clients'[fd] = NoClient \/ clients'[fd].sock # t
      BY <1>1, <1>2, <3>2, Zenon DEF Used
    <3> QED
      BY <3>1, <3>2, <3>3, Zenon
  <2>3. SentIn(clients, peers, t) = SentIn(clients', peers', t)
    BY <2>1, <2>2, SentInSame
  <2> QED
    BY <2>3, SentIsIn, Zenon
<1>5. CASE clients'[fd] = NoClient
  <2>1. \A g \in Fds : clients'[g] = NoClient \/ clients'[g].sock # s
    <3>1. ASSUME NEW g \in Fds, clients'[g] # NoClient PROVE clients'[g].sock # s
      <4>1. g \in Used' /\ g \in Used /\ g # fd
        BY <1>2, <1>5, <3>1 DEF Used
      <4>2. clients'[g].sock = clients[g].sock
        BY <1>2, <4>1, Zenon
      <4>3. clients[g].sock # clients[fd].sock
        BY <1>1, <4>1, Zenon DEF Identified
      <4> QED
        BY <1>1, <4>2, <4>3, Zenon
    <3> QED
      BY <3>1
  <2>2. Sent(s)' = peers'[s].got
    <3>1. SentIn(clients', peers', s) = peers'[s].got
      BY <2>1, SentInNone
    <3> QED
      BY <3>1, SentIsIn, Zenon
  <2>3. fd \notin Used'
    BY <1>5 DEF Used
  <2>4. peers'[s].got = peers[s].got \/ peers'[s].got = peers[s].got \o c.out
    BY <1>5, Nobody, Zenon DEF Serves
  <2> QED
    BY <1>4, <2>2, <2>3, <2>4, Zenon
<1>6. CASE clients'[fd] # NoClient
  <2>1. fd \in Used' /\ clients'[fd].sock = s
    BY <1>1, <1>2, <1>6, Zenon DEF Used
  <2>2. \A g \in Fds : clients'[g] # NoClient /\ clients'[g].sock = clients'[fd].sock => g = fd
    BY <1>3, <2>1, Zenon DEF Identified, Used
  <2>3. SentIn(clients', peers', clients'[fd].sock)
          = peers'[clients'[fd].sock].got \o clients'[fd].out
    BY <1>1, <1>6, <2>2, SentInOne, Zenon
  <2>4. Sent(s)' = peers'[s].got \o clients'[fd].out
    BY <2>1, <2>3, SentIsIn, Zenon
  <2>5. peers'[s].got \o clients'[fd].out = peers[s].got \o c.out
    BY <1>6, Zenon DEF Serves
  <2> QED
    BY <1>4, <2>4, <2>5, Zenon
<1> QED
  BY <1>5, <1>6

-------------------------------------------------------------------------------
(* Replies in their order. *)

LEMMA AnswerFields ==
  ASSUME NEW r \in Answers
  PROVE  r.sock \in Sockets /\ r.id \in Ids /\ r.job \in Nat
         /\ r.status \in {"completed", "accepted", "error"}
  BY DEF Answers

LEMMA SoundPrefix ==
  ASSUME NEW S, NEW q \in Seq(S), NEW r \in Seq(S), Sound(q \o r)
  PROVE  Sound(q)
<1>1. /\ Len(q) \in Nat /\ DOMAIN q = 1..Len(q) /\ DOMAIN (q \o r) = 1..Len(q) + Len(r)
      /\ Len(r) \in Nat /\ \A i \in 1..Len(q) : (q \o r)[i] = q[i]
  OBVIOUS
<1>2. ASSUME NEW i \in DOMAIN q, q[i].job # 0, q[i].status = "completed"
      PROVE  \E j \in 1..i - 1 : q[j].job = q[i].job /\ q[j].status = "accepted"
  <2>1. i \in DOMAIN (q \o r) /\ (q \o r)[i] = q[i] /\ \A j \in 1..i - 1 : (q \o r)[j] = q[j]
    BY <1>1
  <2>2. PICK j \in 1..i - 1 : /\ (q \o r)[j].job = (q \o r)[i].job
                              /\ (q \o r)[j].status = "accepted"
    BY <1>2, <2>1, Zenon DEF Sound
  <2> QED
    BY <2>1, <2>2, Zenon
<1> QED
  BY <1>2, Zenon DEF Sound

LEMMA SoundAppend ==
  ASSUME NEW S, NEW q \in Seq(S), NEW x \in S, Sound(q),
         x.job = 0 \/ x.status # "completed" \/ x.job \in Told(q)
  PROVE  /\ Sound(Append(q, x)) /\ Told(q) \subseteq Told(Append(q, x))
         /\ x.status = "accepted" => x.job \in Told(Append(q, x))
<1> DEFINE p == Append(q, x)
<1>1. /\ Len(q) \in Nat /\ DOMAIN q = 1..Len(q) /\ DOMAIN p = 1..Len(q) + 1
      /\ \A i \in 1..Len(q) : p[i] = q[i]
      /\ p[Len(q) + 1] = x
  OBVIOUS
<1> HIDE DEF p
<1>2. 1..Len(q) \subseteq 1..Len(q) + 1 /\ Len(q) + 1 \in 1..Len(q) + 1
  BY <1>1
<1>3. Told(q) \subseteq Told(p)
  BY <1>1, <1>2, Zenon DEF Told
<1>4. x.status = "accepted" => x.job \in Told(p)
  BY <1>1, <1>2, Zenon DEF Told
<1>5. ASSUME NEW i \in DOMAIN p, p[i].job # 0, p[i].status = "completed"
      PROVE  \E j \in 1..i - 1 : p[j].job = p[i].job /\ p[j].status = "accepted"
  <2>1. CASE i \in 1..Len(q)
    <3>1. p[i] = q[i] /\ i \in DOMAIN q
      BY <1>1, <2>1
    <3>2. PICK j \in 1..i - 1 : q[j].job = q[i].job /\ q[j].status = "accepted"
      BY <1>5, <3>1, Zenon DEF Sound
    <3>3. j \in 1..Len(q)
      BY <1>1, <2>1
    <3> QED
      BY <1>1, <3>1, <3>2, <3>3, Zenon
  <2>2. CASE i \notin 1..Len(q)
    <3>1. i = Len(q) + 1 /\ i - 1 = Len(q)
      BY <1>1, <2>2
    <3>2. x.job \in Told(q)
      BY <1>1, <1>5, <3>1, Zenon
    <3>3. PICK j \in DOMAIN q : q[j].status = "accepted" /\ q[j].job = x.job
      BY <3>2, Zenon DEF Told
    <3>4. j \in 1..i - 1 /\ p[j] = q[j] /\ p[i] = x
      BY <1>1, <3>1
    <3> QED
      BY <3>3, <3>4, Zenon
  <2> QED
    BY <2>1, <2>2
<1>6. Sound(p)
  BY <1>5, Zenon DEF Sound
<1> QED
  BY <1>3, <1>4, <1>6 DEF p

LEMMA AllSound ==
  /\ AcceptedFirst <=> \A s \in Sockets : Sound(Sent(s))
  /\ AcceptedFirst' <=> \A s \in Sockets : Sound(Sent(s)')
<1>1. AcceptedFirst <=> \A s \in Sockets : Sound(Sent(s))
  BY Zenon DEF AcceptedFirst, Sound, Sockets
<1>2. AcceptedFirst' <=> \A s \in Sockets : Sound(Sent(s)')
  BY Zenon DEF AcceptedFirst, Sound, Sockets
<1> QED
  BY <1>1, <1>2

\* A reply that may be appended to what its socket was sent.
Answerable(fd, c) ==
  \/ c.out = clients[fd].out
  \/ \E r \in To(c.sock) :
       /\ c.out = Append(clients[fd].out, r)
       /\ r.job = 0 \/ (r.status # "completed" /\ r.job <= jobs) \/ r.job \in Told(Sent(c.sock))

LEMMA AppendOnce ==
  ASSUME NEW S, NEW q \in Seq(S), NEW x \in S, NEW y \in S
  PROVE  Append(q, x) # q /\ (Append(q, x) = Append(q, y) => x = y)
<1>1. Len(Append(q, x)) = Len(q) + 1 /\ Len(q) \in Nat
      /\ Append(q, x)[Len(q) + 1] = x /\ Append(q, y)[Len(q) + 1] = y
  OBVIOUS
<1>2. Append(q, x) # q
  BY <1>1
<1>3. Append(q, x) = Append(q, y) => x = y
  BY <1>1, Zenon
<1> QED
  BY <1>2, <1>3

LEMMA ServesAnswers ==
  ASSUME Shaped, Identified, AcceptedFirst, NEW fd, NEW c, Served(fd, c), Serves(fd, c),
         next' = next, Answerable(fd, c)
  PROVE  /\ AcceptedFirst'
         /\ \A g \in Used', t \in Sockets :
              clients[g].sock = t => Told(Sent(t)) \subseteq Told(Sent(t)')
         /\ \A r \in To(c.sock) :
              fd \in Used' /\ c.out = Append(clients[fd].out, r) /\ r.status = "accepted"
                => r.job \in Told(Sent(c.sock)')
<1>1. PICK s, a, b, d : /\ s = c.sock /\ a = peers[s].got /\ b = clients[fd].out /\ d = c.out
  OBVIOUS
<1>2. fd \in Used /\ s = clients[fd].sock /\ s \in Sockets /\ a \in Seq(To(s)) /\ b \in Seq(To(s))
  BY <1>1, UsedForm, Zenon DEF Served, Identified
<1>3. Sent(s) = a \o b
  BY <1>1, <1>2, SentToOpen, Zenon
<1>4. a \o b \in Seq(To(s))
  BY <1>2
<1>5. Sound(a \o b) /\ Sound(a)
  <2>1. Sound(a \o b)
    BY <1>2, <1>3, AllSound, Zenon
  <2> QED
    BY <1>2, <2>1, SoundPrefix
<1>6. /\ \A t \in Sockets \ {s} : Sent(t)' = Sent(t)
      /\ Sent(s)' = a \o d \/ (fd \notin Used' /\ Sent(s)' = a)
  BY <1>1, ServesSent, Zenon
<1> DEFINE Grown ==
      /\ Sound(a \o d) /\ Told(a \o b) \subseteq Told(a \o d)
      /\ \A r \in To(s) : d = Append(b, r) /\ r.status = "accepted" => r.job \in Told(a \o d)
<1>7. Grown
  <2>1. CASE d = b
    <3>1. \A r \in To(s) : d # Append(b, r)
      BY <1>2, <2>1, AppendOnce
    <3> QED
      BY <1>5, <2>1, <3>1, Zenon
  <2>2. ASSUME NEW r \in To(s), d = Append(b, r),
               r.job = 0 \/ r.status # "completed" \/ r.job \in Told(a \o b)
        PROVE  Grown
    <3>1. a \o d = Append(a \o b, r)
      BY <1>2, <2>2, AppendedLast
    <3>2. PICK q : q = a \o b
      OBVIOUS
    <3>3. q \in Seq(To(s)) /\ Sound(q) /\ (r.job = 0 \/ r.status # "completed" \/ r.job \in Told(q))
      BY <1>4, <1>5, <2>2, <3>2, Zenon
    <3>4. /\ Sound(Append(q, r)) /\ Told(q) \subseteq Told(Append(q, r))
          /\ r.status = "accepted" => r.job \in Told(Append(q, r))
      BY <3>3, SoundAppend
    <3>5. \A x \in To(s) : d = Append(b, x) => x = r
      <4>1. ASSUME NEW x \in To(s), d = Append(b, x) PROVE x = r
        <5>1. Append(b, x) = Append(b, r)
          BY <2>2, <4>1, Zenon
        <5> QED
          BY <1>2, <5>1, AppendOnce
      <4> QED
        BY <4>1
    <3> QED
      BY <3>1, <3>2, <3>4, <3>5, Zenon
  <2> QED
    BY <1>1, <1>3, <2>1, <2>2, Zenon DEF Answerable
<1>8. AcceptedFirst'
  <2>1. \A t \in Sockets : Sound(Sent(t)')
    BY <1>5, <1>6, <1>7, AllSound, Zenon
  <2> QED
    BY <2>1, AllSound, Zenon
<1> HIDE DEF Grown
<1>9. ASSUME NEW g \in Used', NEW t \in Sockets, clients[g].sock = t
      PROVE  Told(Sent(t)) \subseteq Told(Sent(t)')
  <2>1. g \in Used
    BY <1>9, ServesUsed, Zenon
  <2>2. CASE t = s
    <3>1. g = fd
      BY <1>2, <1>9, <2>1, <2>2, Zenon DEF Identified
    <3>2. fd \in Used'
      BY <1>9, <3>1
    <3>3. Sent(s)' = a \o d
      BY <1>6, <3>2, Zenon
    <3> QED
      BY <1>3, <1>7, <2>2, <3>3, Zenon DEF Grown
  <2>3. CASE t # s
    BY <1>6, <2>3
  <2> QED
    BY <2>2, <2>3
<1> QED
  BY <1>1, <1>6, <1>7, <1>8, <1>9, Zenon DEF Grown

-------------------------------------------------------------------------------
(* The replay cache. *)

LEMMA LatestAppends ==
  ASSUME NEW S, NEW ks \in Seq(S), NEW ever \in Seq(S), NEW key \in S, LatestOf(ks, ever),
         key \notin ToSet(ks), Len(ks) < CacheLimit
  PROVE  LatestOf(Append(ks, key), Append(ever, key))
<1>1. PICK p, e : p = Append(ks, key) /\ e = Append(ever, key)
  OBVIOUS
<1>2. /\ Len(ks) \in Nat /\ Len(ever) \in Nat /\ Len(p) = Len(ks) + 1 /\ Len(e) = Len(ever) + 1
      /\ \A i \in 1..Len(ks) : p[i] = ks[i]
      /\ \A i \in 1..Len(ever) : e[i] = ever[i]
      /\ p[Len(ks) + 1] = key /\ e[Len(ever) + 1] = key
  BY <1>1
<1>3. Len(ks) = Len(ever) /\ CacheLimit \in Nat
  BY <1>2, Limits DEF LatestOf
<1>4. \A i \in 1..Len(ks) : ks[i] = ever[i] /\ ks[i] # key
  <2>1. ASSUME NEW i \in 1..Len(ks) PROVE ks[i] = ever[i] /\ ks[i] # key
    <3>1. Len(ever) - Len(ks) + i = i
      BY <1>2, <1>3
    <3>2. ks[i] = ever[i]
      BY <3>1, Zenon DEF LatestOf
    <3> QED
      BY <3>2, ItemsOf
  <2> QED
    BY <2>1
<1>5. \A i \in 1..Len(p) : p[i] = e[Len(e) - Len(p) + i]
  <2>1. ASSUME NEW i \in 1..Len(p) PROVE p[i] = e[i] /\ Len(e) - Len(p) + i = i
    BY <1>2, <1>3, <1>4
  <2> QED
    BY <2>1, Zenon
<1>6. \A i, j \in 1..Len(p) : p[i] = p[j] => i = j
  <2>1. \A i, j \in 1..Len(ks) : ks[i] = ks[j] => i = j
    BY Zenon DEF LatestOf
  <2> QED
    BY <1>2, <1>4, <2>1
<1>7. Len(p) = (IF Len(e) < CacheLimit THEN Len(e) ELSE CacheLimit)
  BY <1>2, <1>3
<1> QED
  BY <1>1, <1>5, <1>6, <1>7, Zenon DEF LatestOf

LEMMA LatestMoves ==
  ASSUME NEW S, NEW ks \in Seq(S), NEW ever \in Seq(S), NEW key \in S, LatestOf(ks, ever),
         key \notin ToSet(ks), Len(ks) >= CacheLimit
  PROVE  LatestOf(Append(Tail(ks), key), Append(ever, key)) /\ Head(ks) \notin ToSet(Tail(ks))
<1>1. Len(ks) = CacheLimit /\ Len(ks) \in Nat \ {0} /\ Len(ever) \in Nat /\ Len(ks) <= Len(ever)
  BY Limits DEF LatestOf
<1>2. ks # <<>>
  BY <1>1, EmptySeq
<1>3. PICK t, p, e : t = Tail(ks) /\ p = Append(t, key) /\ e = Append(ever, key)
  OBVIOUS
<1>4. /\ t \in Seq(S) /\ Len(t) = Len(ks) - 1 /\ Head(ks) = ks[1]
      /\ \A i \in 1..Len(ks) - 1 : t[i] = ks[i + 1]
  BY <1>2, <1>3, ItemsOfTail
<1>5. /\ Len(p) = Len(ks) /\ Len(e) = Len(ever) + 1
      /\ \A i \in 1..Len(ks) - 1 : p[i] = t[i]
      /\ \A i \in 1..Len(ever) : e[i] = ever[i]
      /\ p[Len(ks)] = key /\ e[Len(ever) + 1] = key
  <2>1. /\ Len(p) = Len(t) + 1 /\ Len(e) = Len(ever) + 1
        /\ \A i \in 1..Len(t) : p[i] = t[i]
        /\ \A i \in 1..Len(ever) : e[i] = ever[i]
        /\ p[Len(t) + 1] = key /\ e[Len(ever) + 1] = key
    BY <1>3, <1>4
  <2>2. Len(t) = Len(ks) - 1 /\ Len(t) + 1 = Len(ks)
    BY <1>1, <1>4
  <2> QED
    BY <2>1, <2>2
<1>6. \A i \in 1..Len(ks) : ks[i] # key
  BY ItemsOf
<1>7. ASSUME NEW i \in 1..Len(ks) - 1
      PROVE  /\ p[i] = ks[i + 1] /\ i + 1 \in 1..Len(ks) /\ i \in 1..Len(ks)
             /\ p[i] = e[Len(ever) - Len(ks) + i + 1]
  <2>1. i + 1 \in 1..Len(ks) /\ i \in 1..Len(ks) /\ Len(ever) - Len(ks) + (i + 1) \in 1..Len(ever)
        /\ Len(ever) - Len(ks) + (i + 1) = Len(ever) - Len(ks) + i + 1
    BY <1>1
  <2>2. p[i] = ks[i + 1]
    BY <1>4, <1>5
  <2>3. ks[i + 1] = ever[Len(ever) - Len(ks) + (i + 1)]
    BY <2>1, Zenon DEF LatestOf
  <2>4. e[Len(ever) - Len(ks) + (i + 1)] = ever[Len(ever) - Len(ks) + (i + 1)]
    BY <1>5, <2>1, Zenon
  <2> QED
    BY <2>1, <2>2, <2>3, <2>4, Zenon
<1>8. \A i \in 1..Len(p) : p[i] = e[Len(e) - Len(p) + i]
  <2>1. ASSUME NEW i \in 1..Len(ks) PROVE p[i] = e[Len(e) - Len(p) + i]
    <3>1. CASE i = Len(ks)
      <4>1. Len(e) - Len(p) + i = Len(ever) + 1
        BY <1>1, <1>5, <3>1
      <4> QED
        BY <1>5, <3>1, <4>1, Zenon
    <3>2. CASE i # Len(ks)
      <4>0. Len(p) = Len(ks) /\ Len(e) = Len(ever) + 1 /\ Len(ks) \in Nat /\ Len(ever) \in Nat
        BY <1>1, <1>5, Zenon
      <4>1. i \in 1..Len(ks) - 1 /\ Len(e) - Len(p) + i = Len(ever) - Len(ks) + i + 1
        BY <3>2, <4>0
      <4> QED
        BY <1>7, <4>1, Zenon
    <3> QED
      BY <3>1, <3>2
  <2> QED
    BY <1>5, <2>1, Zenon
<1>9. \A i, j \in 1..Len(ks) : p[i] = p[j] => i = j
  <2>1. \A i, j \in 1..Len(ks) : ks[i] = ks[j] => i = j
    BY Zenon DEF LatestOf
  <2>2. ASSUME NEW i \in 1..Len(ks), NEW j \in 1..Len(ks), p[i] = p[j] PROVE i = j
    <3>1. CASE i = Len(ks) /\ j = Len(ks)
      BY <3>1
    <3>2. CASE i # Len(ks) /\ j # Len(ks)
      <4>1. i \in 1..Len(ks) - 1 /\ j \in 1..Len(ks) - 1
        BY <1>1, <3>2
      <4>2. ks[i + 1] = ks[j + 1] /\ i + 1 \in 1..Len(ks) /\ j + 1 \in 1..Len(ks)
        <5>1. i + 1 \in 1..Len(ks) /\ j + 1 \in 1..Len(ks)
          BY <1>1, <3>2
        <5>2. p[i] = ks[i + 1] /\ p[j] = ks[j + 1]
          BY <1>7, <4>1, Zenon
        <5> QED
          BY <2>2, <5>1, <5>2, Zenon
      <4>3. i + 1 = j + 1
        BY <2>1, <4>2, Zenon
      <4> QED
        BY <4>3
    <3>3. CASE i # Len(ks) /\ j = Len(ks)
      <4>1. i \in 1..Len(ks) - 1
        BY <1>1, <3>3
      <4> QED
        <5>1. p[i] = ks[i + 1] /\ i + 1 \in 1..Len(ks)
          BY <1>7, <4>1, Zenon
        <5>2. p[j] = key
          BY <1>5, <3>3, Zenon
        <5> QED
          BY <1>6, <2>2, <5>1, <5>2, Zenon
    <3>4. CASE i = Len(ks) /\ j # Len(ks)
      <4>1. j \in 1..Len(ks) - 1
        BY <1>1, <3>4
      <4> QED
        <5>1. p[j] = ks[j + 1] /\ j + 1 \in 1..Len(ks)
          BY <1>7, <4>1, Zenon
        <5>2. p[i] = key
          BY <1>5, <3>4, Zenon
        <5> QED
          BY <1>6, <2>2, <5>1, <5>2, Zenon
    <3> QED
      BY <3>1, <3>2, <3>3, <3>4
  <2> QED
    BY <2>2
<1>10. Len(p) = (IF Len(e) < CacheLimit THEN Len(e) ELSE CacheLimit)
  BY <1>1, <1>5
<1>11. Head(ks) \notin ToSet(t)
  <2>1. ASSUME NEW i \in 1..Len(t) PROVE t[i] # ks[1]
    <3>1. i + 1 \in 1..Len(ks) /\ 1 \in 1..Len(ks) /\ i + 1 # 1 /\ t[i] = ks[i + 1]
      BY <1>1, <1>4
    <3> QED
      BY <3>1, Zenon DEF LatestOf
  <2> QED
    BY <1>4, <2>1, ItemsOf
<1>12. LatestOf(p, e)
  BY <1>5, <1>8, <1>9, <1>10, Zenon DEF LatestOf
<1> QED
  BY <1>3, <1>11, <1>12, Zenon

\* What storing a reply does to the cache.
Stores(key, reply) ==
  \A k \in DOMAIN replies' : \/ k = key /\ replies'[k] = reply
                             \/ k \in DOMAIN replies /\ replies'[k] = replies[k]

LEMMA CacheSet ==
  ASSUME NEW key \in CacheKeys, NEW reply, OwnReply(key, reply), next' = next,
         \A k \in DOMAIN replies : OwnReply(k, replies[k]),
         NEW kept \in SUBSET (DOMAIN replies),
         replies' = [k \in kept \cup {key} |-> IF k = key THEN reply ELSE replies[k]]
  PROVE  /\ DOMAIN replies' = kept \cup {key} /\ Stores(key, reply)
         /\ \A k \in DOMAIN replies' : OwnReply(k, replies[k])'
<1>1. DOMAIN replies' = kept \cup {key}
  OBVIOUS
<1>2. \A k \in kept \cup {key} : replies'[k] = IF k = key THEN reply ELSE replies[k]
  OBVIOUS
<1>3. Stores(key, reply)
  BY <1>1, <1>2, Zenon DEF Stores
<1>4. ASSUME NEW k \in DOMAIN replies' PROVE OwnReply(k, replies[k])'
  <2>1. OwnReply(k, replies'[k])
    BY <1>3, Zenon DEF Stores
  <2> QED
    BY <2>1 DEF OwnReply
<1> QED
  BY <1>1, <1>3, <1>4

LEMMA CacheReplyKeeps ==
  ASSUME Cached, NEW key \in CacheKeys, NEW reply, OwnReply(key, reply),
         next' = next, CacheReply(key, reply)
  PROVE  Cached' /\ Stores(key, reply)
<1>1. /\ order \in Seq(CacheKeys) /\ inserted \in Seq(CacheKeys) /\ LatestOf(order, inserted)
      /\ DOMAIN replies = ToSet(order)
      /\ \A k \in DOMAIN replies : OwnReply(k, replies[k])
  BY Zenon DEF Cached
<1>2. Len(order) \in Nat /\ Len(inserted) \in Nat /\ CacheLimit \in Nat \ {0}
  BY <1>1, Limits, ItemsOf
<1> DEFINE Kept(kept) ==
      /\ kept \in SUBSET (DOMAIN replies)
      /\ replies' = [k \in kept \cup {key} |-> IF k = key THEN reply ELSE replies[k]]
      /\ order' \in Seq(CacheKeys) /\ inserted' \in Seq(CacheKeys)
      /\ LatestOf(order', inserted') /\ ToSet(order') = kept \cup {key}
<1>3. ASSUME NEW kept, Kept(kept) PROVE Cached' /\ Stores(key, reply)
  <2>1. /\ DOMAIN replies' = kept \cup {key} /\ Stores(key, reply)
        /\ \A k \in DOMAIN replies' : OwnReply(k, replies[k])'
    BY <1>1, <1>3, CacheSet
  <2>2. LatestOf(order, inserted)'
    BY <1>3 DEF LatestOf
  <2> QED
    BY <1>3, <2>1, <2>2 DEF Cached
<1>4. CASE key \in DOMAIN replies
  <2>1. /\ order' = order /\ inserted' = inserted
        /\ replies' = [k \in DOMAIN replies \cup {key} |-> IF k = key THEN reply ELSE replies[k]]
    BY <1>4 DEF CacheReply
  <2>2. Kept(DOMAIN replies)
    BY <1>1, <1>4, <2>1
  <2> HIDE DEF Kept
  <2> QED
    BY <1>3, <2>2
<1>5. CASE key \notin DOMAIN replies /\ Len(order) < CacheLimit
  <2>1. /\ order' = Append(order, key) /\ inserted' = Append(inserted, key)
        /\ replies' = [k \in DOMAIN replies \cup {key} |-> IF k = key THEN reply ELSE replies[k]]
    BY <1>2, <1>5 DEF CacheReply
  <2>2. /\ ToSet(order') = DOMAIN replies \cup {key}
        /\ order' \in Seq(CacheKeys) /\ inserted' \in Seq(CacheKeys)
    BY <1>1, <2>1, ItemsOfAppend
  <2>3. LatestOf(order', inserted')
    BY <1>1, <1>5, <2>1, LatestAppends
  <2>4. Kept(DOMAIN replies)
    BY <2>1, <2>2, <2>3, Zenon
  <2> HIDE DEF Kept
  <2> QED
    BY <1>3, <2>4
<1>6. CASE key \notin DOMAIN replies /\ Len(order) >= CacheLimit
  <2>1. /\ order' = Append(Tail(order), key) /\ inserted' = Append(inserted, key)
        /\ replies' = [k \in (DOMAIN replies \ {Head(order)}) \cup {key} |->
                         IF k = key THEN reply ELSE replies[k]]
    BY <1>6 DEF CacheReply
  <2>2. order # <<>>
    BY <1>1, <1>2, <1>6, EmptySeq
  <2>3. /\ Tail(order) \in Seq(CacheKeys) /\ ToSet(order) = {Head(order)} \cup ToSet(Tail(order))
    BY <1>1, <2>2, ItemsOfTail
  <2>4. /\ LatestOf(order', inserted') /\ Head(order) \notin ToSet(Tail(order))
    BY <1>1, <1>6, <2>1, LatestMoves
  <2>5. /\ ToSet(order') = ToSet(Tail(order)) \cup {key}
        /\ order' \in Seq(CacheKeys) /\ inserted' \in Seq(CacheKeys)
    <3>1. PICK t : t = Tail(order)
      OBVIOUS
    <3>2. t \in Seq(CacheKeys)
      BY <2>3, <3>1, Zenon
    <3>3. /\ ToSet(Append(t, key)) = ToSet(t) \cup {key} /\ Append(t, key) \in Seq(CacheKeys)
      BY <3>2, ItemsOfAppend
    <3>4. inserted' \in Seq(CacheKeys)
      BY <1>1, <2>1, ItemsOfAppend
    <3> QED
      BY <2>1, <3>1, <3>3, <3>4, Zenon
  <2>6. ToSet(Tail(order)) = DOMAIN replies \ {Head(order)}
    BY <1>1, <2>3, <2>4
  <2>7. Kept(DOMAIN replies \ {Head(order)})
    BY <2>1, <2>4, <2>5, <2>6, Zenon
  <2> HIDE DEF Kept
  <2> QED
    BY <1>3, <2>7
<1>7. Len(order) < CacheLimit \/ Len(order) >= CacheLimit
  BY <1>2
<1> QED
  BY <1>4, <1>5, <1>6, <1>7, Zenon

LEMMA CacheKept ==
  ASSUME Cached, next' \in Nat, next \in Nat, next <= next', UNCHANGED store
  PROVE  Cached'
<1>1. replies' = replies /\ order' = order /\ inserted' = inserted
  BY DEF store
<1>2. ASSUME NEW k \in DOMAIN replies PROVE OwnReply(k, replies[k])'
  <2>1. OwnReply(k, replies[k])
    BY DEF Cached
  <2>2. k[1] \in Sockets
    <3>1. k \in CacheKeys
      BY ItemsOf, Zenon DEF Cached
    <3> QED
      BY <3>1 DEF CacheKeys
  <2>3. k[1] < next'
    BY <2>1, <2>2 DEF OwnReply, Sockets
  <2> QED
    BY <1>1, <2>1, <2>3 DEF OwnReply
<1> QED
  BY <1>1, <1>2, Zenon DEF Cached, LatestOf

LEMMA StoreKeeps ==
  ASSUME Cached, next \in Nat, NEW key \in CacheKeys, NEW reply, OwnReply(key, reply),
         next' = next, Store(key, reply)
  PROVE  Cached' /\ Stores(key, reply)
<1>1. CASE key[2] = 0
  <2>1. UNCHANGED store
    BY <1>1, Zenon DEF Store
  <2>2. Stores(key, reply)
    BY <2>1 DEF Stores, store
  <2> QED
    BY <2>1, <2>2, CacheKept
<1>2. CASE key[2] # 0
  <2>1. CacheReply(key, reply)
    BY <1>2, Zenon DEF Store
  <2> QED
    BY <2>1, CacheReplyKeeps
<1> QED
  BY <1>1, <1>2

\* The keys ever stored, from the last CacheLimit of them, are those of the cache.
LEMMA RecentIsCached ==
  ASSUME Cached
  PROVE  Recent(inserted) = DOMAIN replies
<1>1. /\ DOMAIN replies = ToSet(order) /\ ToSet(order) = {order[i] : i \in 1..Len(order)}
      /\ DOMAIN inserted = 1..Len(inserted)
  BY ItemsOf DEF Cached
<1>2. PICK l, m, n : l = Len(order) /\ m = Len(inserted) /\ n = CacheLimit
  OBVIOUS
<1>3. l \in Nat /\ m \in Nat /\ n \in Nat \ {0} /\ l = (IF m < n THEN m ELSE n)
  BY <1>2, Limits, ItemsOf DEF Cached, LatestOf
<1>4. \A i \in 1..l : order[i] = inserted[m - l + i]
  BY <1>2, Zenon DEF Cached, LatestOf
<1>5. ASSUME NEW i \in 1..m, i > m - n
      PROVE  inserted[i] \in ToSet(order)
  <2>1. i - (m - l) \in 1..l /\ m - l + (i - (m - l)) = i
    BY <1>3, <1>5
  <2>2. order[i - (m - l)] = inserted[i]
    BY <1>4, <2>1, Zenon
  <2> QED
    BY <1>1, <1>2, <2>1, <2>2, Zenon
<1>6. ASSUME NEW j \in 1..l
      PROVE  \E i \in 1..m : i > m - n /\ order[j] = inserted[i]
  <2>1. m - l + j \in 1..m /\ m - l + j > m - n
    BY <1>3
  <2> QED
    BY <1>4, <2>1, Zenon
<1>7. Recent(inserted) = {inserted[i] : i \in {i \in 1..m : i > m - n}}
  BY <1>1, <1>2, Zenon DEF Recent
<1>8. ToSet(order) = {order[i] : i \in 1..l}
  BY <1>1, <1>2
<1>9. \A k \in Recent(inserted) : k \in ToSet(order)
  BY <1>5, <1>7, Zenon
<1>10. \A k \in ToSet(order) : k \in Recent(inserted)
  <2>1. ASSUME NEW j \in 1..l PROVE order[j] \in Recent(inserted)
    BY <1>6, <1>7, Zenon
  <2> QED
    BY <1>8, <2>1, Zenon
<1> QED
  BY <1>1, <1>9, <1>10, Zenon

-------------------------------------------------------------------------------
(* The other things a step does to the clients. *)

\* They stay, and their peers keep what they got.
Kept ==
  /\ clients' = clients /\ next' \in {next, next + 1} /\ peers' \in [Sockets -> Peer]
  /\ \A s \in Sockets :
       /\ peers'[s].got = peers[s].got /\ peers'[s].over \in {peers[s].over, "dropped"}
       /\ peers[s].end # "open" => peers'[s].wire = peers[s].wire /\ peers'[s].end # "open"

\* A connection is taken with descriptor fd.
Opens(fd) ==
  /\ fd \in Fds \ Used /\ next \in Sockets /\ next' = next + 1 /\ peers' = peers
  /\ clients' \in [Fds -> Form \cup {NoClient}]
  /\ \A g \in Fds \ {fd} : clients'[g] = clients[g]
  /\ clients'[fd] \in Form /\ clients'[fd].id = next /\ clients'[fd].sock = next
  /\ clients'[fd].in = <<>> /\ clients'[fd].out = <<>> /\ clients'[fd].pending = 0
  /\ clients'[fd].eof = FALSE /\ clients'[fd].reading = FALSE

\* Client fd goes on with its input, and its peer's output is taken.
Reads(fd) ==
  /\ fd \in Used /\ next' = next
  /\ clients' \in [Fds -> Form \cup {NoClient}] /\ peers' \in [Sockets -> Peer]
  /\ \A g \in Fds \ {fd} : clients'[g] = clients[g]
  /\ clients'[fd] \in Form /\ clients'[fd].id = clients[fd].id
  /\ clients'[fd].sock = clients[fd].sock /\ clients'[fd].out = clients[fd].out
  /\ clients'[fd].pending = clients[fd].pending
  /\ \A s \in Sockets : peers'[s].got = peers[s].got /\ peers'[s].over = peers[s].over
  /\ \A s \in Sockets \ {clients[fd].sock} : peers'[s] = peers[s]

LEMMA KeptIdentity ==
  ASSUME Shaped, Identified, Kept
  PROVE  Identified' /\ \A s \in Sockets : Sent(s)' = Sent(s)
<1>1. Used' = Used /\ clients' = clients
  BY DEF Kept, Used
<1>2. ASSUME NEW fd \in Used PROVE clients[fd].sock < next'
  <2>1. clients[fd].sock < next /\ next \in Nat /\ next' \in {next, next + 1}
    BY DEF Identified, Shaped, Kept
  <2>2. clients[fd].sock \in Nat
    BY UsedForm DEF Sockets
  <2> QED
    BY <2>1, <2>2
<1>3. \A s \in Sockets : peers'[s].got = peers[s].got
  BY Zenon DEF Kept
<1>4. Identified'
  BY <1>1, <1>2, <1>3, Zenon DEF Identified
<1>5. ASSUME NEW s \in Sockets PROVE Sent(s)' = Sent(s)
  <2>0. \A g \in Fds : clients[g] = clients'[g]
    BY <1>1
  <2>1. SentIn(clients, peers, s) = SentIn(clients', peers', s)
    BY <1>3, <2>0, SentInSame
  <2> QED
    BY <2>1, SentIsIn, Zenon
<1> QED
  BY <1>4, <1>5

LEMMA OpensIdentity ==
  ASSUME Shaped, Identified, NEW fd, Opens(fd)
  PROVE  /\ Used' = Used \cup {fd} /\ fd \notin Used /\ \A g \in Used : clients'[g] = clients[g]
         /\ Identified' /\ \A s \in Sockets : Sent(s)' = Sent(s)
<1>1. /\ fd \in Fds /\ fd \notin Used /\ next \in Sockets /\ next' = next + 1 /\ peers' = peers
      /\ \A g \in Fds \ {fd} : clients'[g] = clients[g]
      /\ clients'[fd] \in Form /\ clients'[fd].id = next /\ clients'[fd].sock = next
      /\ clients'[fd].out = <<>>
  BY Zenon DEF Opens
<1>2. Used' = Used \cup {fd} /\ \A g \in Used : clients'[g] = clients[g]
  BY <1>1, Nobody DEF Used
<1>3. ASSUME NEW g \in Used
      PROVE  clients[g].sock < next' /\ clients[g].sock # next /\ next < next'
  <2>1. clients[g].sock < next /\ clients[g].sock \in Nat /\ next \in Nat
    BY <1>1, UsedForm DEF Identified, Sockets
  <2> QED
    BY <1>1, <2>1
<1>4. next < next'
  BY <1>1 DEF Sockets
<1>5. \A g \in Used' : clients'[g].id = clients'[g].sock /\ clients'[g].sock < next'
  BY <1>1, <1>2, <1>3, <1>4, Zenon DEF Identified
<1>6. \A f, g \in Used' : clients'[f].sock = clients'[g].sock => f = g
  <2>1. \A g \in Used : clients'[g].sock # next
    BY <1>2, <1>3
  <2>2. \A f, g \in Used : clients'[f].sock = clients'[g].sock => f = g
    BY <1>2 DEF Identified
  <2> QED
    BY <1>1, <1>2, <2>1, <2>2
<1>7. \A g \in Used' : clients'[g].out \in Seq(To(clients'[g].sock))
  <2>1. <<>> \in Seq(To(next))
    BY NoItems
  <2> QED
    BY <1>1, <1>2, <2>1, Zenon DEF Identified
<1>8. Identified'
  BY <1>1, <1>5, <1>6, <1>7, Zenon DEF Identified
<1>9. ASSUME NEW s \in Sockets PROVE Sent(s)' = Sent(s)
  <2>1. CASE s = next
    <3>1. \A g \in Fds : clients[g] = NoClient \/ clients[g].sock # next
      BY <1>3, Zenon DEF Used
    <3>2. Sent(s) = peers[s].got
      BY <2>1, <3>1, SentIsIn, SentInNone
    <3>3. \A g \in Fds : clients'[g] # NoClient /\ clients'[g].sock = clients'[fd].sock => g = fd
      BY <1>1, <1>2, <1>6, Zenon DEF Used
    <3>4. SentIn(clients', peers', clients'[fd].sock) = peers'[clients'[fd].sock].got \o clients'[fd].out
      BY <1>1, <3>3, Nobody, SentInOne, Zenon
    <3>5. Sent(s)' = peers[s].got \o <<>>
      BY <1>1, <2>1, <3>4, SentIsIn, Zenon
    <3>6. peers[s].got \in Seq(To(s))
      BY DEF Identified
    <3>7. peers[s].got \o <<>> = peers[s].got
      BY <3>6, ConcatEmptySeq
    <3> QED
      BY <3>2, <3>5, <3>7, Zenon
  <2>2. CASE s # next
    <3>1. \A g \in Fds : clients[g] = clients'[g] \/ ((clients[g] = NoClient \/ clients[g].sock # s)
                                        /\ (clients'[g] = NoClient \/ clients'[g].sock # s))
      BY <1>1, <2>2, Zenon DEF Used
    <3>2. SentIn(clients, peers, s) = SentIn(clients', peers', s)
      BY <1>1, <3>1, SentInSame
    <3> QED
      BY <3>2, SentIsIn, Zenon
  <2> QED
    BY <2>1, <2>2
<1> QED
  BY <1>1, <1>2, <1>8, <1>9

LEMMA ReadsIdentity ==
  ASSUME Shaped, Identified, NEW fd, Reads(fd)
  PROVE  /\ Used' = Used /\ fd \in Used /\ \A g \in Used : clients'[g].sock = clients[g].sock
         /\ Identified' /\ \A s \in Sockets : Sent(s)' = Sent(s)
<1>1. /\ fd \in Used /\ fd \in Fds /\ next' = next /\ clients'[fd] \in Form
      /\ \A g \in Fds \ {fd} : clients'[g] = clients[g]
      /\ clients'[fd].id = clients[fd].id
      /\ clients'[fd].sock = clients[fd].sock /\ clients'[fd].out = clients[fd].out
      /\ \A s \in Sockets : peers'[s].got = peers[s].got
  BY UsedForm, Zenon DEF Reads
<1>2. Used' = Used
  BY <1>1, Nobody DEF Used
<1>3. \A g \in Used : /\ clients'[g].id = clients[g].id /\ clients'[g].sock = clients[g].sock
                      /\ clients'[g].out = clients[g].out
  BY <1>1, Zenon DEF Used
<1>4. Identified'
  <2>1. \A g \in Used' : clients'[g].id = clients'[g].sock /\ clients'[g].sock < next'
    BY <1>1, <1>2, <1>3 DEF Identified
  <2>2. \A f, g \in Used' : clients'[f].sock = clients'[g].sock => f = g
    BY <1>2, <1>3 DEF Identified
  <2>3. ASSUME NEW g \in Used' PROVE clients'[g].out \in Seq(To(clients'[g].sock))
    <3>1. clients[g].out \in Seq(To(clients[g].sock))
      BY <1>2, <2>3, Zenon DEF Identified
    <3> QED
      BY <1>2, <1>3, <2>3, <3>1
  <2>4. \A s \in Sockets : peers'[s].got \in Seq(To(s))
    BY <1>1, Zenon DEF Identified
  <2> QED
    BY <2>1, <2>2, <2>3, <2>4, Zenon DEF Identified
<1>5. ASSUME NEW s \in Sockets PROVE Sent(s)' = Sent(s)
  <2>1. CASE s = clients[fd].sock
    <3>1. Sent(s) = peers[s].got \o clients[fd].out
      BY <1>1, <2>1, SentToOpen, Zenon
    <3>2. \A g \in Fds : clients'[g] # NoClient /\ clients'[g].sock = clients'[fd].sock => g = fd
      BY <1>1, <1>2, <1>4, Zenon DEF Used, Identified
    <3>3. SentIn(clients', peers', clients'[fd].sock) = peers'[clients'[fd].sock].got \o clients'[fd].out
      BY <1>1, <3>2, Nobody, SentInOne, Zenon
    <3> QED
      BY <1>1, <2>1, <3>1, <3>3, SentIsIn, Zenon
  <2>2. CASE s # clients[fd].sock
    <3>1. \A g \in Fds : clients[g] = clients'[g] \/ ((clients[g] = NoClient \/ clients[g].sock # s)
                                        /\ (clients'[g] = NoClient \/ clients'[g].sock # s))
      BY <1>1, <2>2, Zenon
    <3>2. SentIn(clients, peers, s) = SentIn(clients', peers', s)
      BY <1>1, <3>1, SentInSame
    <3> QED
      BY <3>2, SentIsIn, Zenon
  <2> QED
    BY <2>1, <2>2
<1> QED
  BY <1>1, <1>2, <1>3, <1>4, <1>5, Zenon

\* The step of a client: what it has to say may be said.
Steps(fd, c) == Served(fd, c) /\ Serves(fd, c) /\ Answerable(fd, c) /\ next' = next

\* All that a step may do to the clients, and what follows from it for all of them.
Effect ==
  \/ Kept
  \/ \E fd \in Fds : Opens(fd) \/ Reads(fd)
  \/ \E fd \in Fds : \E c \in Form : Steps(fd, c)

LEMMA EffectKeeps ==
  ASSUME Shaped, Identified, AcceptedFirst, Effect
  PROVE  /\ Identified' /\ AcceptedFirst'
         /\ \A g \in Used', t \in Sockets :
              clients'[g].sock = t => Told(Sent(t)) \subseteq Told(Sent(t)')
<1>1. ASSUME Identified', \A s \in Sockets : Sent(s)' = Sent(s)
      PROVE  /\ Identified' /\ AcceptedFirst'
             /\ \A g \in Used', t \in Sockets :
                  clients'[g].sock = t => Told(Sent(t)) \subseteq Told(Sent(t)')
  <2>1. AcceptedFirst'
    BY <1>1, AllSound, Zenon
  <2> QED
    BY <1>1, <2>1, Zenon
<1>2. CASE Kept
  BY <1>1, <1>2, KeptIdentity, Zenon
<1>3. CASE \E fd \in Fds : Opens(fd)
  BY <1>1, <1>3, OpensIdentity, Zenon
<1>4. CASE \E fd \in Fds : Reads(fd)
  BY <1>1, <1>4, ReadsIdentity, Zenon
<1>5. ASSUME NEW fd \in Fds, NEW c \in Form, Steps(fd, c)
      PROVE  /\ Identified' /\ AcceptedFirst'
             /\ \A g \in Used', t \in Sockets :
                  clients'[g].sock = t => Told(Sent(t)) \subseteq Told(Sent(t)')
  <2>1. Served(fd, c) /\ Serves(fd, c) /\ Answerable(fd, c) /\ next' = next
    BY <1>5, Zenon DEF Steps
  <2>2. Identified'
    BY <2>1, ServesIdentity
  <2>3. \A g \in Used' : clients'[g].sock = clients[g].sock
    BY <2>1, ServesUsed
  <2>4. /\ AcceptedFirst'
        /\ \A g \in Used', t \in Sockets :
             clients[g].sock = t => Told(Sent(t)) \subseteq Told(Sent(t)')
    BY <2>1, ServesAnswers
  <2> QED
    BY <2>2, <2>3, <2>4, Zenon
<1> QED
  BY <1>2, <1>3, <1>4, <1>5, Zenon DEF Effect

-------------------------------------------------------------------------------
(* Which effect an action has. *)

LEMMA QuietKept ==
  ASSUME Shaped, clients' = clients, peers' = peers, next' = next
  PROVE  Kept
BY PeerFields DEF Kept, Shaped

LEMMA PeerKept ==
  ASSUME Shaped, NEW s \in Sockets, NEW p \in Peer, clients' = clients, next' = next,
         peers' = [peers EXCEPT ![s] = p], p.got = peers[s].got, p.over = peers[s].over,
         peers[s].end # "open" => p.wire = peers[s].wire /\ p.end # "open"
  PROVE  Kept
<1>1. peers' \in [Sockets -> Peer] /\ peers'[s] = p /\ \A t \in Sockets \ {s} : peers'[t] = peers[t]
  BY DEF Shaped
<1>2. \A t \in Sockets :
        /\ peers'[t].got = peers[t].got /\ peers'[t].over \in {peers[t].over, "dropped"}
        /\ peers[t].end # "open" => peers'[t].wire = peers[t].wire /\ peers'[t].end # "open"
  BY <1>1
<1> QED
  BY <1>1, <1>2 DEF Kept

LEMMA PeersKept ==
  ASSUME Shaped, NEW s \in Sockets,
         \/ \E request \in Requests : PeerSend(s, request)
         \/ \E end \in {"half", "gone"} : PeerEnds(s, end)
         \/ PeerStalls(s)
  PROVE  Kept
<1>1. peers \in [Sockets -> Peer] /\ peers[s] \in Peer
  BY DEF Shaped
<1>2. CASE \E request \in Requests : PeerSend(s, request)
  <2>1. PICK request \in Requests : PeerSend(s, request)
    BY <1>2
  <2>2. PICK p : p = [peers[s] EXCEPT !.wire = Append(peers[s].wire, request)]
    OBVIOUS
  <2>3. Append(peers[s].wire, request) \in Seq(Requests)
    BY <1>1, PeerFields
  <2>4. p \in Peer /\ p.got = peers[s].got /\ p.over = peers[s].over
    BY <1>1, <2>2, <2>3 DEF Peer
  <2>5. /\ peers' = [peers EXCEPT ![s] = p] /\ peers[s].end = "open"
        /\ clients' = clients /\ next' = next
    BY <1>1, <2>1, <2>2 DEF PeerSend, PeerFrame
  <2> QED
    BY <2>4, <2>5, PeerKept
<1>3. CASE \E end \in {"half", "gone"} : PeerEnds(s, end)
  <2>1. PICK end \in {"half", "gone"} : PeerEnds(s, end)
    BY <1>3
  <2>2. PICK p : p = [peers[s] EXCEPT !.end = end]
    OBVIOUS
  <2>3. p \in Peer /\ p.got = peers[s].got /\ p.over = peers[s].over /\ p.wire = peers[s].wire
        /\ p.end # "open"
    BY <1>1, <2>2 DEF Peer
  <2>4. peers' = [peers EXCEPT ![s] = p] /\ clients' = clients /\ next' = next
    BY <1>1, <2>1, <2>2 DEF PeerEnds, PeerFrame
  <2> QED
    BY <2>3, <2>4, PeerKept
<1>4. CASE PeerStalls(s)
  <2>1. PICK p : p = [peers[s] EXCEPT !.stalled = ~peers[s].stalled]
    OBVIOUS
  <2>2. p \in Peer /\ p.got = peers[s].got /\ p.over = peers[s].over /\ p.wire = peers[s].wire
        /\ p.end = peers[s].end
    BY <1>1, <2>1 DEF Peer
  <2>3. peers' = [peers EXCEPT ![s] = p] /\ clients' = clients /\ next' = next
    BY <1>1, <1>4, <2>1 DEF PeerStalls, PeerFrame
  <2> QED
    BY <2>2, <2>3, PeerKept
<1> QED
  BY <1>2, <1>3, <1>4

LEMMA AcceptDoes ==
  ASSUME Shaped, Accept
  PROVE  Kept \/ \E fd \in Fds : Opens(fd)
<1>1. /\ next \in Sockets /\ next' = next + 1 /\ peers \in [Sockets -> Peer]
      /\ clients \in [Fds -> Form \cup {NoClient}]
  <2>1. /\ next \in Nat \ {0} /\ backlog \in Nat /\ next + backlog <= MaxSockets + 1
        /\ peers \in [Sockets -> Peer] /\ clients \in [Fds -> Form \cup {NoClient}]
    BY Zenon DEF Shaped
  <2>2. backlog > 0 /\ next' = next + 1
    BY Zenon DEF Accept, AcceptFrame
  <2>3. next \in Sockets
    BY <2>1, <2>2, Limits DEF Sockets
  <2> QED
    BY <2>1, <2>2, <2>3, Zenon
<1>2. CASE peers' = [peers EXCEPT ![next].over = "dropped"] /\ clients' = clients
  <2>1. peers[next] \in Peer
    BY <1>1
  <2>2. PICK p : p = [peers[next] EXCEPT !.over = "dropped"]
    OBVIOUS
  <2>3. /\ p \in Peer /\ p.got = peers[next].got /\ p.over = "dropped"
        /\ p.wire = peers[next].wire /\ p.end = peers[next].end
    BY <2>1, <2>2 DEF Peer
  <2>4. peers' = [peers EXCEPT ![next] = p]
    BY <1>1, <1>2, <2>2
  <2>5. peers' \in [Sockets -> Peer] /\ peers'[next] = p
        /\ \A t \in Sockets \ {next} : peers'[t] = peers[t]
    BY <1>1, <2>3, <2>4
  <2>6. \A t \in Sockets :
          /\ peers'[t].got = peers[t].got /\ peers'[t].over \in {peers[t].over, "dropped"}
          /\ peers[t].end # "open" => peers'[t].wire = peers[t].wire /\ peers'[t].end # "open"
    BY <2>3, <2>5
  <2> QED
    BY <1>1, <1>2, <2>5, <2>6 DEF Kept
<1>3. ASSUME NEW fd \in Fds \ Used, peers' = peers,
             clients' = [clients EXCEPT ![fd] =
                           [NoClient EXCEPT !.id = NewId(fd), !.sock = next, !.events = {"in"}]]
      PROVE  Opens(fd)
  <2>1. PICK c : c = [NoClient EXCEPT !.id = NewId(fd), !.sock = next, !.events = {"in"}]
    OBVIOUS
  <2>2. /\ c \in Form /\ c.id = next /\ c.sock = next /\ c.in = <<>> /\ c.out = <<>>
        /\ c.pending = 0 /\ c.eof = FALSE /\ c.reading = FALSE
    <3>1. /\ c.id = next /\ c.sock = next /\ c.in = <<>> /\ c.out = <<>>
          /\ c.pending = 0 /\ c.eof = FALSE /\ c.reading = FALSE
      BY <2>1 DEF NoClient, NewId
    <3>2. c = [id |-> next, sock |-> next, in |-> <<>>, out |-> <<>>, eof |-> FALSE,
               reading |-> FALSE, pending |-> 0, events |-> {"in"}]
      BY <2>1 DEF NoClient, NewId
    <3>3. next \in Nat
      BY <1>1 DEF Sockets
    <3>4. <<>> \in Seq(Requests) /\ <<>> \in Seq(Answers) /\ {"in"} \in SUBSET {"in", "out"}
      OBVIOUS
    <3>5. c \in Form
      BY <1>1, <3>2, <3>3, <3>4 DEF Form
    <3> QED
      BY <3>1, <3>5
  <2>3. clients' = [clients EXCEPT ![fd] = c]
    BY <1>3, <2>1, Zenon
  <2>4. /\ clients' \in [Fds -> Form \cup {NoClient}] /\ clients'[fd] = c
        /\ \A g \in Fds \ {fd} : clients'[g] = clients[g]
    BY <1>1, <2>2, <2>3
  <2> QED
    BY <1>1, <1>3, <2>2, <2>4 DEF Opens
<1> QED
  BY <1>2, <1>3, Zenon DEF Accept

\* A client as clients has it.
LEMMA ServedAsIs ==
  ASSUME Shaped, Identified, NEW fd \in Used
  PROVE  Served(fd, clients[fd]) /\ Answerable(fd, clients[fd]) /\ fd \in Fds
BY UsedForm, Zenon DEF Served, Identified, Answerable

LEMMA WriteDoes ==
  ASSUME Shaped, Identified, Watching, DispatchError \/ DispatchWrite
  PROVE  /\ net.pc = "dispatch" /\ net' = net
         /\ \E event \in ready :
              /\ ready' = ready \ {event} /\ event.fd \in Used
              /\ Steps(event.fd, clients[event.fd])
<1>1. net.pc = "dispatch" /\ net' = net /\ next' = next
  BY Zenon DEF DispatchError, DispatchWrite, ClientEvent, Dispatch
<1>2. PICK event \in ready :
        /\ ready' = ready \ {event} /\ event.fd # 0
        /\ \/ Drop(event.fd)
           \/ clients[event.fd] = NoClient
           \/ Flush(event.fd, clients[event.fd])
  BY Zenon DEF DispatchError, DispatchWrite, ClientEvent, Dispatch
<1>3. event.fd \in Used
  BY <1>2, Zenon DEF Watching
<1>4. Served(event.fd, clients[event.fd]) /\ Answerable(event.fd, clients[event.fd])
  BY <1>3, ServedAsIs
<1>5. Drop(event.fd) \/ Flush(event.fd, clients[event.fd])
  BY <1>2, <1>3, Zenon DEF Used
<1>6. Serves(event.fd, clients[event.fd])
  <2>1. PICK fd, c : fd = event.fd /\ c = clients[fd]
    OBVIOUS
  <2>2. Served(fd, c) /\ (Drop(fd) \/ Flush(fd, c))
    BY <1>4, <1>5, <2>1, Zenon
  <2>3. Serves(fd, c)
    BY <2>2, DropServes, FlushServes
  <2> QED
    BY <2>1, <2>3, Zenon
<1> QED
  BY <1>1, <1>2, <1>3, <1>4, <1>6, Zenon DEF Steps

\* Client fd of socket s, whose other end is p, takes some of what has arrived.
Receives(fd, s, p) ==
  \E n \in 0..Len(p.wire), eof \in BOOLEAN :
    /\ n = 0 => p.wire = <<>>
    /\ eof => n = Len(p.wire) /\ p.end # "open"
    /\ n = 0 /\ p.end # "open" => eof
    /\ clients' = [clients EXCEPT ![fd].in = @ \o SubSeq(p.wire, 1, n),
                                  ![fd].eof = @ \/ eof, ![fd].reading = TRUE]
    /\ peers' = [peers EXCEPT ![s].wire = SubSeq(@, n + 1, Len(@))]

\* What leaves the wire of socket s is input of client fd.
MovesLines(fd, s) ==
  /\ Len(peers'[s].wire) <= Len(peers[s].wire)
  /\ Len(clients'[fd].in) + Len(peers'[s].wire) = Len(clients[fd].in) + Len(peers[s].wire)
  /\ clients'[fd].in \o peers'[s].wire = clients[fd].in \o peers[s].wire

LEMMA ReadDoes ==
  ASSUME Shaped, Identified, Watching, Reading, DispatchRead
  PROVE  \E event \in ready :
           LET fd == event.fd  s == clients[fd].sock IN
           /\ net.pc = "dispatch" /\ ready' = ready \ {event} /\ fd \in Fds
           /\ net' = [net EXCEPT !.pc = "lines", !.fd = fd]
           /\ Reads(fd) /\ clients'[fd].reading
           /\ clients'[fd].eof => peers'[s].wire = <<>> /\ peers'[s].end # "open"
           /\ clients[fd].sock \in Sockets /\ MovesLines(fd, s)
<1>1. PICK event \in ready :
        /\ ClientEvent(event) /\ clients[event.fd] # NoClient
        /\ Receives(event.fd, clients[event.fd].sock, peers[clients[event.fd].sock])
        /\ net' = [net EXCEPT !.pc = "lines", !.fd = event.fd]
  BY Zenon DEF DispatchRead, Receives
<1>2. PICK fd, c, s, p : fd = event.fd /\ c = clients[fd] /\ s = c.sock /\ p = peers[s]
  OBVIOUS
<1>3. PICK n \in 0..Len(p.wire), eof \in BOOLEAN :
        /\ eof => n = Len(p.wire) /\ p.end # "open"
        /\ clients' = [clients EXCEPT ![fd].in = @ \o SubSeq(p.wire, 1, n),
                                      ![fd].eof = @ \/ eof, ![fd].reading = TRUE]
        /\ peers' = [peers EXCEPT ![s].wire = SubSeq(@, n + 1, Len(@))]
  <2>1. Receives(fd, s, p)
    BY <1>1, <1>2, Zenon
  <2> QED
    BY <2>1, Zenon DEF Receives
<1>4. /\ net.pc = "dispatch" /\ ready' = ready \ {event} /\ fd # 0
      /\ net' = [net EXCEPT !.pc = "lines", !.fd = fd] /\ next' = next
  BY <1>1, <1>2, Zenon DEF ClientEvent, Dispatch, DispatchRead
<1>5. fd \in Used
  BY <1>2, <1>4, Zenon DEF Watching
<1>6. /\ fd \in Fds /\ c \in Form /\ s \in Sockets /\ p \in Peer
      /\ clients \in [Fds -> Form \cup {NoClient}] /\ peers \in [Sockets -> Peer]
  BY <1>2, <1>5, UsedForm DEF Shaped
<1>7. PICK in, wire : in = c.in \o SubSeq(p.wire, 1, n) /\ wire = SubSeq(p.wire, n + 1, Len(p.wire))
  OBVIOUS
<1>8. /\ in \in Seq(Requests) /\ wire \in Seq(Requests) /\ (n = Len(p.wire) => wire = <<>>)
      /\ Len(wire) <= Len(p.wire) /\ Len(in) + Len(wire) = Len(c.in) + Len(p.wire)
      /\ in \o wire = c.in \o p.wire
  <2>1. PICK a, b : a = c.in /\ b = p.wire
    OBVIOUS
  <2>2. a \in Seq(Requests) /\ b \in Seq(Requests) /\ n \in 0..Len(b)
    BY <1>6, <2>1, Fields, PeerFields
  <2>3. in = a \o SubSeq(b, 1, n) /\ wire = SubSeq(b, n + 1, Len(b))
    BY <1>7, <2>1
  <2>4. /\ in \in Seq(Requests) /\ wire \in Seq(Requests) /\ (n = Len(b) => wire = <<>>)
        /\ Len(wire) = Len(b) - n /\ Len(in) = Len(a) + n /\ Len(a) \in Nat /\ Len(b) \in Nat
    BY ONLY <2>2, <2>3
  <2>5. Len(wire) <= Len(b) /\ Len(in) + Len(wire) = Len(a) + Len(b)
    BY <2>2, <2>4
  <2>6. MovesOver(Requests, a, b, n)
    BY <2>2, Transfer
  <2>7. in \o wire = a \o b
    BY <2>3, <2>6, Zenon DEF MovesOver
  <2> QED
    BY <2>1, <2>4, <2>5, <2>7, Zenon
<1>9. PICK d, q : /\ d = [c EXCEPT !.in = in, !.eof = c.eof \/ eof, !.reading = TRUE]
                  /\ q = [p EXCEPT !.wire = wire]
  OBVIOUS
<1>10. /\ d \in Form /\ d.id = c.id /\ d.sock = c.sock /\ d.out = c.out /\ d.pending = c.pending
       /\ d.reading /\ d.eof = (c.eof \/ eof) /\ d.in = in
  BY <1>6, <1>8, <1>9 DEF Form
<1>11. /\ q \in Peer /\ q.got = p.got /\ q.over = p.over /\ q.wire = wire /\ q.end = p.end
  BY <1>6, <1>8, <1>9 DEF Peer
<1>12. clients' = [clients EXCEPT ![fd] = d] /\ peers' = [peers EXCEPT ![s] = q]
  BY <1>2, <1>3, <1>6, <1>7, <1>9
<1>13. /\ clients' \in [Fds -> Form \cup {NoClient}] /\ peers' \in [Sockets -> Peer]
       /\ clients'[fd] = d /\ peers'[s] = q
       /\ \A g \in Fds \ {fd} : clients'[g] = clients[g]
       /\ \A t \in Sockets \ {s} : peers'[t] = peers[t]
  BY <1>6, <1>10, <1>11, <1>12
<1>14. \A t \in Sockets : peers'[t].got = peers[t].got /\ peers'[t].over = peers[t].over
  BY <1>2, <1>11, <1>13, Zenon
<1>15. Reads(fd)
  BY <1>2, <1>4, <1>5, <1>10, <1>13, <1>14, Zenon DEF Reads
<1>16. d.eof => wire = <<>> /\ p.end # "open"
  <2>1. CASE eof
    BY <1>3, <1>8, <2>1
  <2>2. CASE c.eof
    <3>1. p.wire = <<>> /\ p.end # "open"
      BY <1>2, <1>5, <2>2, Zenon DEF Reading
    <3>2. n = Len(p.wire)
      BY <1>3, <3>1
    <3> QED
      BY <1>8, <3>1, <3>2
  <2> QED
    BY <1>10, <2>1, <2>2, Zenon
<1>17. MovesLines(fd, s)
  <2>1. clients'[fd].in = in /\ peers'[s].wire = wire /\ clients[fd] = c /\ peers[s] = p
    BY <1>2, <1>10, <1>11, <1>13, Zenon
  <2> QED
    BY <1>8, <2>1, Zenon DEF MovesLines
<1> QED
  BY <1>2, <1>4, <1>6, <1>10, <1>11, <1>13, <1>15, <1>16, <1>17, Zenon

\* The reply r may be sent to socket s by now.
MaySend(s, r) ==
  /\ r \in To(s)
  /\ r.job = 0 \/ (r.status # "completed" /\ r.job <= jobs) \/ r.job \in Told(Sent(s))

LEMMA SendDoes ==
  ASSUME Shaped, Identified, NEW fd, NEW c, Served(fd, c), c.out = clients[fd].out,
         NEW r, MaySend(c.sock, r), Send(fd, c, r), next' = next
  PROVE  fd \in Fds /\ \E d \in Form :
           Steps(fd, d) /\ Like(d, c) /\ d.out = Append(clients[fd].out, r)
<1>1. r \in To(c.sock)
  BY Zenon DEF MaySend
<1>2. PICK d : d = With(c, r)
  OBVIOUS
<1>3. Served(fd, d) /\ Serves(fd, d) /\ Like(d, c) /\ d.out = Append(clients[fd].out, r)
  <2>1. /\ Served(fd, With(c, r)) /\ Serves(fd, With(c, r)) /\ Like(With(c, r), c)
        /\ With(c, r).out = Append(c.out, r)
    BY <1>1, SendServes
  <2> QED
    BY <1>2, <2>1, Zenon
<1>4. d.sock = c.sock /\ fd \in Used /\ d \in Form
  BY <1>3, Zenon DEF Like, Served
<1>5. Answerable(fd, d)
  BY <1>3, <1>4, Zenon DEF Answerable, MaySend
<1>6. fd \in Fds
  BY <1>4, UsedForm
<1> QED
  BY <1>3, <1>4, <1>5, <1>6, Zenon DEF Steps

LEMMA AnswerTo ==
  ASSUME NEW s \in Sockets, NEW id \in Ids, NEW status \in {"completed", "accepted", "error"},
         NEW n \in Nat
  PROVE  LET r == [sock |-> s, id |-> id, status |-> status, job |-> n] IN
         r \in To(s) /\ r.job = n /\ r.status = status
BY DEF To, Answers

LEMMA JobFacts ==
  ASSUME NEW job \in Given
  PROVE  /\ job.conn = job.sock /\ job.sock \in Sockets /\ job.id \in Ids /\ job.sock < next
         /\ job.n \in Nat \ {0} /\ job.n <= jobs /\ job # NoJob
BY DEF Given, NoJob

LEMMA JobReply ==
  ASSUME NEW job \in Given, NEW status \in {"completed", "accepted", "error"}
  PROVE  /\ <<job.conn, job.id>> \in CacheKeys /\ Reply(job, status) \in To(job.sock)
         /\ Reply(job, status).job = job.n /\ Reply(job, status).status = status
         /\ OwnReply(<<job.conn, job.id>>, Reply(job, status))
<1>1. job.conn = job.sock /\ job.sock \in Sockets /\ job.id \in Ids /\ job.sock < next
      /\ job.n \in Nat
  BY JobFacts
<1>2. /\ Reply(job, status) \in To(job.sock)
      /\ Reply(job, status).job = job.n /\ Reply(job, status).status = status
  BY <1>1, AnswerTo DEF Reply
<1>3. <<job.conn, job.id>> \in CacheKeys /\ <<job.conn, job.id>>[1] = job.sock
  BY <1>1 DEF CacheKeys
<1>4. OwnReply(<<job.conn, job.id>>, Reply(job, status))
  BY <1>1, <1>2, <1>3, Zenon DEF OwnReply
<1> QED
  BY <1>2, <1>3, <1>4

\* The client whose line is next, and its key.
LEMMA LineFacts ==
  ASSUME Shaped, Identified, Placed, NEW cmds, Line(cmds)
  PROVE  /\ net.pc = "lines" /\ net.fd \in Used /\ net.fd \in Fds
         /\ clients[net.fd] \in Form /\ clients[net.fd].sock \in Sockets
         /\ clients[net.fd].sock < next
         /\ clients[net.fd].in # <<>> /\ clients[net.fd].in[1] \in Requests
         /\ Rest \in Form /\ Rest.in = Tail(clients[net.fd].in) /\ Rest.id = clients[net.fd].id
         /\ Rest.sock = clients[net.fd].sock /\ Rest.out = clients[net.fd].out
         /\ Rest.eof = clients[net.fd].eof /\ Rest.reading = clients[net.fd].reading
         /\ Rest.pending = clients[net.fd].pending
         /\ Served(net.fd, Rest) /\ Rest.id = Rest.sock
         /\ Key \in CacheKeys /\ Key[1] = clients[net.fd].sock /\ Key[2] \in Ids
<1>1. net.pc = "lines" /\ net.fd \in Used /\ clients[net.fd].in # <<>>
  BY Zenon DEF Line, Placed, Used
<1>2. PICK fd, c : fd = net.fd /\ c = clients[fd]
  OBVIOUS
<1>3. fd \in Fds /\ c \in Form /\ c.sock \in Sockets
  BY <1>1, <1>2, UsedForm
<1>4. c.in \in Seq(Requests) /\ c.in # <<>>
  BY <1>1, <1>2, <1>3, Fields
<1>5. Tail(c.in) \in Seq(Requests) /\ c.in[1] \in Requests
  BY <1>4, ItemsOfTail
<1>6. c.id = c.sock /\ c.sock < next /\ c.out \in Seq(To(c.sock))
  BY <1>1, <1>2, Zenon DEF Identified
<1>7. Rest = [c EXCEPT !.in = Tail(c.in)]
  BY <1>2 DEF Rest
<1>8. /\ Rest \in Form /\ Rest.in = Tail(c.in) /\ Rest.id = c.id /\ Rest.sock = c.sock
      /\ Rest.out = c.out /\ Rest.eof = c.eof /\ Rest.reading = c.reading
      /\ Rest.pending = c.pending
  BY <1>3, <1>5, <1>7, InputSet
<1>9. Key = <<c.sock, c.in[1].id>> /\ c.in[1].id \in Ids
  BY <1>2, <1>5, <1>6, <1>8 DEF Key, Requests
<1>10. Key \in CacheKeys /\ Key[1] = c.sock /\ Key[2] \in Ids
  BY <1>3, <1>9 DEF CacheKeys
<1>11. Served(net.fd, Rest)
  BY <1>1, <1>2, <1>6, <1>8, Zenon DEF Served
<1> QED
  BY <1>1, <1>2, <1>3, <1>4, <1>5, <1>6, <1>8, <1>10, <1>11, Zenon

\* The client of net.fd has been answered its next line.
Answered ==
  \E d \in Form : Steps(net.fd, d) /\ d.in = Tail(clients[net.fd].in)
                  /\ d.reading = clients[net.fd].reading /\ d.pending = clients[net.fd].pending

\* ... and the answer is r.
Says(r) ==
  \E d \in Form : Steps(net.fd, d) /\ d.in = Tail(clients[net.fd].in)
                  /\ d.out = Append(clients[net.fd].out, r)

LEMMA LineAnswered ==
  ASSUME Shaped, Identified, Placed, NEW cmds, Line(cmds), NEW r,
         MaySend(clients[net.fd].sock, r), Send(net.fd, Rest, r), next' = next
  PROVE  Answered /\ Says(r)
<1>1. PICK fd, c : fd = net.fd /\ c = Rest
  OBVIOUS
<1>2. Served(fd, c) /\ c.out = clients[fd].out /\ MaySend(c.sock, r) /\ Send(fd, c, r)
  BY <1>1, LineFacts, Zenon
<1>3. PICK d \in Form : Steps(fd, d) /\ Like(d, c) /\ d.out = Append(clients[fd].out, r)
  BY <1>2, SendDoes
<1>4. /\ d.in = Tail(clients[net.fd].in)
      /\ d.reading = clients[net.fd].reading /\ d.pending = clients[net.fd].pending
  BY <1>1, <1>3, LineFacts, Zenon DEF Like
<1>5. Answered
  BY <1>1, <1>3, <1>4, Zenon DEF Answered
<1>6. Says(r)
  BY <1>1, <1>3, <1>4, Zenon DEF Says
<1> QED
  BY <1>5, <1>6

LEMMA AnswerMay ==
  ASSUME Shaped, Identified, Placed, NEW cmds, Line(cmds),
         NEW status \in {"completed", "accepted", "error"}
  PROVE  /\ MaySend(clients[net.fd].sock, Answer(status, 0))
         /\ OwnReply(Key, Answer(status, 0)) /\ Answer(status, 0).job = 0
<1>1. PICK s : s = clients[net.fd].sock
  OBVIOUS
<1>2. s \in Sockets /\ Key[2] \in Ids /\ Key[1] = s /\ Rest.sock = s /\ s < next
  BY <1>1, LineFacts, Zenon
<1>3. PICK id : id = Key[2]
  OBVIOUS
<1>4. Answer(status, 0) = [sock |-> s, id |-> id, status |-> status, job |-> 0]
  BY <1>2, <1>3, Zenon DEF Answer
<1>5. Answer(status, 0) \in To(s) /\ Answer(status, 0).job = 0
  BY <1>2, <1>3, <1>4, AnswerTo
<1> QED
  BY <1>1, <1>2, <1>5, Zenon DEF MaySend, OwnReply

LEMMA ReplayDoes ==
  ASSUME Shaped, Identified, Placed, Cached, Promised, Replay
  PROVE  Answered /\ Says(replies[Key])
<1>1. /\ Line(AllCommands \ {"long"}) /\ Key \in DOMAIN replies
      /\ Send(net.fd, Rest, replies[Key]) /\ next' = next
  BY Zenon DEF Replay, CommandFrame
<1>2. net.fd \in Used /\ Key[1] = clients[net.fd].sock
  BY <1>1, LineFacts
<1>3. replies[Key] \in To(Key[1])
  BY <1>1, Zenon DEF Cached, OwnReply
<1>4. replies[Key].job # 0 => replies[Key].job \in Told(Sent(clients[net.fd].sock))
  <2>1. PICK s \in Sockets : s = clients[net.fd].sock
    BY <1>2, UsedForm
  <2>2. Known(s)
    BY <1>2, <2>1, Zenon DEF Promised
  <2> QED
    BY <1>1, <1>2, <2>1, <2>2, Zenon DEF Known
<1>5. MaySend(clients[net.fd].sock, replies[Key])
  BY <1>2, <1>3, <1>4, Zenon DEF MaySend
<1> QED
  BY <1>1, <1>5, LineAnswered, Zenon

LEMMA TooLongDoes ==
  ASSUME Shaped, Identified, Placed, LineTooLong
  PROVE  /\ net.fd \in Used /\ Steps(net.fd, clients[net.fd]) /\ clients'[net.fd] = NoClient
<1>1. PICK fd, c : fd = net.fd /\ c = clients[fd]
  OBVIOUS
<1>2. fd \in Used /\ Drop(fd) /\ next' = next
  BY <1>1, LineFacts, Zenon DEF LineTooLong, CommandFrame
<1>3. Served(fd, c) /\ Answerable(fd, c) /\ fd \in Fds
  BY <1>1, <1>2, ServedAsIs, Zenon
<1>4. Serves(fd, c)
  BY <1>2, <1>3, DropServes
<1>5. clients'[fd] = NoClient
  BY <1>2, <1>3 DEF Drop, Shaped
<1> QED
  BY <1>1, <1>2, <1>3, <1>4, <1>5, Zenon DEF Steps

LEMMA PushDoes ==
  ASSUME Shaped, Identified, Placed, NEW cmds, Line(cmds), next' = next, peers' = peers,
         clients' = [clients EXCEPT ![net.fd] = Rest]
  PROVE  /\ Reads(net.fd) /\ clients'[net.fd] = Rest
<1>1. PICK fd, c : fd = net.fd /\ c = Rest
  OBVIOUS
<1>2. /\ fd \in Used /\ fd \in Fds /\ c \in Form /\ c.id = clients[fd].id
      /\ c.sock = clients[fd].sock /\ c.out = clients[fd].out /\ c.pending = clients[fd].pending
  BY <1>1, LineFacts, Zenon
<1>3. clients \in [Fds -> Form \cup {NoClient}] /\ peers \in [Sockets -> Peer]
  BY DEF Shaped
<1>4. /\ clients' \in [Fds -> Form \cup {NoClient}] /\ clients'[fd] = c
      /\ \A g \in Fds \ {fd} : clients'[g] = clients[g]
  BY <1>1, <1>2, <1>3
<1>5. Reads(fd)
  BY <1>2, <1>3, <1>4, Zenon DEF Reads
<1> QED
  BY <1>1, <1>4, <1>5, Zenon

LEMMA RetainDoes ==
  ASSUME Shaped, Identified, Placed, Retain
  PROVE  /\ net.fd \in Used /\ clients[net.fd].sock = net.job.sock /\ net.job \in Given
         /\ \E d \in Form :
              /\ Steps(net.fd, d) /\ d.out = Append(clients[net.fd].out, Reply(net.job, "accepted"))
              /\ d.in = clients[net.fd].in /\ d.reading = clients[net.fd].reading
              /\ d.pending = clients[net.fd].pending + 1
<1>1. PICK fd, b, job : fd = net.fd /\ b = clients[fd] /\ job = net.job
  OBVIOUS
<1>2. net.pc = "retain" /\ fd \in Used /\ b.sock = job.sock /\ job # NoJob
  BY <1>1, Zenon DEF Retain, Placed
<1>3. job \in Given
  BY <1>1, <1>2 DEF Shaped
<1>4. fd \in Fds /\ b \in Form /\ b.pending \in Nat /\ b.out \in Seq(To(b.sock))
  BY <1>1, <1>2, UsedForm, Fields DEF Identified
<1>5. PICK n, c : n = b.pending + 1 /\ c = [b EXCEPT !.pending = n]
  OBVIOUS
<1>6. /\ c \in Form /\ c.pending = b.pending + 1 /\ c.id = b.id /\ c.sock = b.sock /\ c.out = b.out
      /\ c.eof = b.eof /\ c.in = b.in /\ c.reading = b.reading
  <2>1. n \in Nat
    BY <1>4, <1>5
  <2> QED
    BY <1>4, <1>5, <2>1, PendingSet
<1>7. Served(fd, c)
  BY <1>1, <1>2, <1>4, <1>6, Zenon DEF Served
<1>8. Send(fd, c, Reply(job, "accepted")) /\ next' = next
  BY <1>1, <1>5 DEF Retain, CommandFrame
<1>9. MaySend(c.sock, Reply(job, "accepted"))
  BY <1>2, <1>3, <1>6, JobReply, JobFacts DEF MaySend
<1>10. PICK d \in Form : /\ Steps(fd, d) /\ Like(d, c)
                         /\ d.out = Append(b.out, Reply(job, "accepted"))
  BY <1>1, <1>6, <1>7, <1>8, <1>9, SendDoes
<1>11. d.in = b.in /\ d.reading = b.reading /\ d.pending = b.pending + 1
  BY <1>6, <1>10, Zenon DEF Like
<1> QED
  BY <1>1, <1>2, <1>3, <1>10, <1>11, Zenon

LEMMA DoneDoes ==
  ASSUME Shaped, Identified, Placed, LinesDone
  PROVE  \/ clients' = clients /\ peers' = peers /\ next' = next /\ net.fd \notin Used
         \/ /\ net.fd \in Used
            /\ \E c \in Form :
                 /\ Steps(net.fd, c) /\ c.in = <<>> /\ c.reading = FALSE
                 /\ clients[net.fd].in = <<>> /\ c.pending = clients[net.fd].pending
                 /\ c.out = clients[net.fd].out
<1>1. next' = next /\ net.pc = "lines" /\ net.fd \in Fds
  BY Zenon DEF LinesDone, CommandFrame, Placed
<1>2. CASE clients[net.fd] = NoClient /\ UNCHANGED <<clients, peers>>
  BY <1>1, <1>2 DEF Used
<1>3. CASE /\ clients[net.fd] # NoClient /\ clients[net.fd].in = <<>>
           /\ Flush(net.fd, [clients[net.fd] EXCEPT !.reading = FALSE])
  <2>1. PICK fd, b, c : fd = net.fd /\ b = clients[fd] /\ c = [b EXCEPT !.reading = FALSE]
    OBVIOUS
  <2>2. fd \in Used /\ b.in = <<>> /\ Flush(fd, c)
    BY <1>1, <1>3, <2>1, Zenon DEF Used
  <2>3. b \in Form /\ b.out \in Seq(To(b.sock))
    BY <2>1, <2>2, UsedForm DEF Identified
  <2>4. /\ c \in Form /\ c.reading = FALSE /\ c.id = b.id /\ c.sock = b.sock /\ c.out = b.out
        /\ c.eof = b.eof /\ c.in = b.in /\ c.pending = b.pending
    BY <2>1, <2>3, ReadingSet
  <2>5. Served(fd, c) /\ Answerable(fd, c)
    BY <2>1, <2>2, <2>3, <2>4, Zenon DEF Served, Answerable
  <2>6. Serves(fd, c)
    BY <2>2, <2>5, FlushServes
  <2> QED
    BY <1>1, <2>1, <2>2, <2>4, <2>5, <2>6, Zenon DEF Steps
<1> QED
  BY <1>2, <1>3, Zenon DEF LinesDone

LEMMA FunctorDoes ==
  ASSUME Shaped, Identified, Placed, Promised, RunFunctor
  PROVE  /\ net.pc = "tasks" /\ Head(batch) \in Given /\ Head(batch) \in Pool
         /\ \/ /\ clients' = clients /\ peers' = peers /\ next' = next
               /\ \A fd \in Used : clients[fd].sock # Head(batch).sock
            \/ \E fd \in Used, d \in Form :
                 /\ Steps(fd, d) /\ clients[fd].sock = Head(batch).sock
                 /\ d.in = clients[fd].in /\ d.reading = clients[fd].reading
                 /\ d.pending = clients[fd].pending
                 /\ d.out = Append(clients[fd].out, Reply(Head(batch), "completed"))
<1>1. PICK job, r : job = Head(batch) /\ r = Reply(job, "completed")
  OBVIOUS
<1>2. net.pc = "tasks" /\ batch # <<>> /\ SendResponse(job.conn, r) /\ next' = next
  BY <1>1, Zenon DEF RunFunctor
<1>3. batch \in Seq(Given)
  BY DEF Shaped
<1>4. job \in Given /\ job \in ToSet(batch)
  BY <1>1, <1>2, <1>3, ItemsOfTail
<1>5. job \in Pool
  BY <1>4, Zenon DEF Pool, Waiting
<1>6. CASE Found(job.conn) = {}
  <2>1. \A fd \in Used : clients[fd].sock # job.sock
    BY <1>4, <1>6, JobFacts DEF Found, Identified
  <2> QED
    BY <1>1, <1>2, <1>4, <1>5, <1>6, <2>1 DEF SendResponse
<1>7. ASSUME NEW fd \in Found(job.conn), Send(fd, clients[fd], r)
      PROVE  \E d \in Form :
                 /\ Steps(fd, d) /\ clients[fd].sock = Head(batch).sock /\ fd \in Used
                 /\ d.in = clients[fd].in /\ d.reading = clients[fd].reading
                 /\ d.pending = clients[fd].pending
                 /\ d.out = Append(clients[fd].out, Reply(Head(batch), "completed"))
  <2>1. fd \in Used /\ clients[fd].id = job.conn
    BY <1>7, Zenon DEF Found
  <2>2. clients[fd].sock = job.sock
    BY <1>4, <2>1, JobFacts DEF Identified
  <2>3. job.n \in Told(Sent(clients[fd].sock))
    <3>1. PICK s \in Sockets : s = clients[fd].sock
      BY <2>1, UsedForm
    <3>2. Sure(s)
      BY <2>1, <3>1, Zenon DEF Promised
    <3> QED
      BY <1>2, <1>5, <2>2, <3>1, <3>2 DEF Sure, Owed
  <2>4. r \in To(job.sock) /\ r.job = job.n
    BY <1>1, <1>4, JobReply
  <2>5. MaySend(clients[fd].sock, r)
    BY <2>2, <2>3, <2>4, Zenon DEF MaySend
  <2>6. PICK c : c = clients[fd]
    OBVIOUS
  <2>7. Served(fd, c) /\ c.out = clients[fd].out
    BY <2>1, <2>6, ServedAsIs, Zenon
  <2>8. PICK d \in Form : Steps(fd, d) /\ Like(d, c) /\ d.out = Append(clients[fd].out, r)
    BY <1>2, <1>7, <2>5, <2>6, <2>7, SendDoes
  <2> QED
    BY <1>1, <2>1, <2>2, <2>6, <2>8, Zenon DEF Like
<1> QED
  BY <1>1, <1>2, <1>4, <1>5, <1>6, <1>7, Zenon DEF SendResponse

LEMMA ReleaseDoes ==
  ASSUME Shaped, Identified, Placed, Release
  PROVE  /\ net.pc = "release" /\ net.job \in Given
         /\ \/ /\ clients' = clients /\ peers' = peers /\ next' = next
               /\ \A fd \in Used : clients[fd].sock # net.job.sock
            \/ \E fd \in Used, d \in Form :
                 /\ Steps(fd, d) /\ clients[fd].sock = net.job.sock
                 /\ d.in = clients[fd].in /\ d.reading = clients[fd].reading
                 /\ d.pending = (IF clients[fd].pending > 0 THEN clients[fd].pending - 1 ELSE 0)
                 /\ d.out = clients[fd].out
<1>1. PICK job : job = net.job
  OBVIOUS
<1>2. net.pc = "release" /\ job # NoJob /\ next' = next
  BY <1>1, Zenon DEF Release, Placed
<1>3. job \in Given
  BY <1>1, <1>2 DEF Shaped
<1>4. CASE Found(job.conn) = {}
  <2>1. \A fd \in Used : clients[fd].sock # job.sock
    BY <1>3, <1>4, JobFacts DEF Found, Identified
  <2> QED
    BY <1>1, <1>2, <1>3, <1>4, <2>1 DEF Release
<1>5. ASSUME NEW fd \in Found(job.conn),
             Flush(fd, [clients[fd] EXCEPT !.pending = IF @ > 0 THEN @ - 1 ELSE 0])
      PROVE  \E d \in Form :
                 /\ Steps(fd, d) /\ clients[fd].sock = net.job.sock /\ fd \in Used
                 /\ d.in = clients[fd].in /\ d.reading = clients[fd].reading
                 /\ d.pending = (IF clients[fd].pending > 0 THEN clients[fd].pending - 1 ELSE 0)
                 /\ d.out = clients[fd].out
  <2>1. fd \in Used /\ clients[fd].id = job.conn
    BY <1>5, Zenon DEF Found
  <2>2. clients[fd].sock = job.sock
    BY <1>3, <2>1, JobFacts DEF Identified
  <2>3. PICK b, n : b = clients[fd] /\ n = IF b.pending > 0 THEN b.pending - 1 ELSE 0
    OBVIOUS
  <2>4. b \in Form /\ b.out \in Seq(To(b.sock))
    BY <2>1, <2>3, UsedForm DEF Identified
  <2>5. n \in Nat
    BY <2>3, <2>4, Fields
  <2>6. PICK d : d = [b EXCEPT !.pending = n]
    OBVIOUS
  <2>7. /\ d \in Form /\ d.pending = n /\ d.id = b.id /\ d.sock = b.sock /\ d.out = b.out
        /\ d.eof = b.eof /\ d.in = b.in /\ d.reading = b.reading
    BY <2>4, <2>5, <2>6, PendingSet
  <2>8. Flush(fd, d)
    BY <1>5, <2>3, <2>6
  <2>9. Served(fd, d) /\ Answerable(fd, d)
    BY <2>1, <2>3, <2>4, <2>7, Zenon DEF Served, Answerable
  <2>10. Serves(fd, d)
    BY <2>8, <2>9, FlushServes
  <2> QED
    BY <1>1, <1>2, <2>1, <2>2, <2>3, <2>7, <2>9, <2>10, Zenon DEF Steps
<1> QED
  BY <1>1, <1>2, <1>3, <1>4, <1>5, Zenon DEF Release

LEMMA AnsweredEffect ==
  ASSUME Shaped, Answered
  PROVE  Effect
<1>1. PICK d \in Form : Steps(net.fd, d)
  BY Zenon DEF Answered
<1>2. net.fd \in Fds
  BY <1>1, UsedForm, Zenon DEF Steps, Served
<1> QED
  BY <1>1, <1>2, Zenon DEF Effect

LEMMA StepsEffect ==
  ASSUME Shaped, NEW fd, NEW c, Steps(fd, c)
  PROVE  Effect
<1>1. fd \in Fds /\ c \in Form
  BY UsedForm, Zenon DEF Steps, Served
<1> QED
  BY <1>1, Zenon DEF Effect

LEMMA LinesEffect ==
  ASSUME Shaped, Identified, Placed, Cached, Promised,
         Replay \/ Query \/ Reject \/ LineTooLong
  PROVE  Answered \/ LineTooLong
<1>1. CASE Replay
  BY <1>1, ReplayDoes
<1>2. CASE Query
  <2>1. New({"query"}) /\ Send(net.fd, Rest, Answer("completed", 0)) /\ next' = next
    BY <1>2, Zenon DEF Query, CommandFrame
  <2>2. Line({"query"})
    BY <2>1, Zenon DEF New
  <2> QED
    BY <2>1, <2>2, AnswerMay, LineAnswered
<1>3. CASE Reject
  <2>1. /\ New({"bad", "capture", "get_preview"}) /\ Send(net.fd, Rest, Answer("error", 0))
        /\ next' = next
    BY <1>3, Zenon DEF Reject, CommandFrame
  <2>2. Line({"bad", "capture", "get_preview"})
    BY <2>1, Zenon DEF New
  <2> QED
    BY <2>1, <2>2, AnswerMay, LineAnswered
<1> QED
  BY <1>1, <1>2, <1>3

\* TryPush, when the queue takes the job, and when it does not.
NewJob == [conn |-> Rest.id, sock |-> Rest.sock, id |-> Key[2],
           cached |-> clients[net.fd].in[1].cmd = "capture", n |-> jobs + 1]
Pushed ==
  /\ New({"capture", "get_preview"}) /\ Reads(net.fd) /\ clients'[net.fd] = Rest
  /\ Accepts(snapshots, SnapshotCapacity, FALSE)
  /\ snapshots' = Append(snapshots, NewJob) /\ jobs' = jobs + 1
  /\ net' = [net EXCEPT !.pc = "retain", !.job = NewJob] /\ peers' = peers /\ UNCHANGED store

LEMMA TryPushDoes ==
  ASSUME Shaped, Identified, Placed, TryPush
  PROVE  /\ \/ Pushed
            \/ /\ Answered /\ Says(Answer("error", 0))
               /\ snapshots' = snapshots /\ jobs' = jobs /\ net' = net
         /\ UNCHANGED <<next, functors, batch, ready, backlog, io>>
<1>1. /\ New({"capture", "get_preview"}) /\ UNCHANGED <<next, functors, batch, ready, backlog, io>>
  BY Zenon DEF TryPush, CommandFrame, world
<1>2. Line({"capture", "get_preview"}) /\ next' = next
  BY <1>1, Zenon DEF New
<1>3. CASE Accepts(snapshots, SnapshotCapacity, FALSE)
  <2>1. /\ snapshots' = Append(snapshots, NewJob) /\ jobs' = jobs + 1
        /\ clients' = [clients EXCEPT ![net.fd] = Rest]
        /\ net' = [net EXCEPT !.pc = "retain", !.job = NewJob]
        /\ peers' = peers /\ UNCHANGED store
    BY <1>3 DEF TryPush, NewJob
  <2>2. Reads(net.fd) /\ clients'[net.fd] = Rest
    BY <1>2, <2>1, PushDoes
  <2> QED
    BY <1>1, <1>3, <2>1, <2>2, Zenon DEF Pushed
<1>4. CASE ~Accepts(snapshots, SnapshotCapacity, FALSE)
  <2>1. /\ Send(net.fd, Rest, Answer("error", 0))
        /\ snapshots' = snapshots /\ jobs' = jobs /\ net' = net
    BY <1>4 DEF TryPush
  <2>2. MaySend(clients[net.fd].sock, Answer("error", 0))
    BY <1>2, AnswerMay
  <2>3. Answered /\ Says(Answer("error", 0))
    BY <1>2, <2>1, <2>2, LineAnswered
  <2> QED
    BY <1>1, <2>1, <2>3, Zenon
<1> QED
  BY <1>3, <1>4

LEMMA NewJobGiven ==
  ASSUME Shaped, Identified, Placed, NEW cmds, Line(cmds), next' = next, jobs' = jobs + 1
  PROVE  /\ NewJob \in Given' /\ NewJob.sock = clients[net.fd].sock /\ NewJob.n = jobs + 1
         /\ NewJob # NoJob /\ NewJob \notin Given
<1>1. PICK s, id, cached : /\ s = clients[net.fd].sock /\ id = Key[2]
                           /\ cached = (clients[net.fd].in[1].cmd = "capture")
  OBVIOUS
<1>2. /\ s \in Sockets /\ id \in Ids /\ s < next /\ Rest.id = s /\ Rest.sock = s
      /\ cached \in BOOLEAN
  BY <1>1, LineFacts
<1>3. jobs \in Nat
  BY DEF Shaped
<1>4. NewJob = [conn |-> s, sock |-> s, id |-> id, cached |-> cached, n |-> jobs + 1]
  BY <1>1, <1>2 DEF NewJob
<1>5. NewJob \in [conn : Sockets, sock : Sockets, id : Ids, cached : BOOLEAN, n : Nat \ {0}]
      /\ NewJob.sock = s /\ NewJob.conn = s /\ NewJob.n = jobs + 1
  BY <1>2, <1>3, <1>4
<1>6. NewJob \in Given' /\ NewJob \notin Given
  BY <1>2, <1>3, <1>5 DEF Given
<1>7. NewJob # NoJob
  BY <1>3, <1>5 DEF NoJob
<1> QED
  BY <1>1, <1>5, <1>6, <1>7, Zenon

\* Where the network thread goes without looking at its clients.
Quiet ==
  Poll \/ DispatchListen \/ AcceptTooMany \/ AcceptDone \/ Swap \/ FunctorsDone
    \/ IoTake \/ IoPost \/ Connect \/ UNCHANGED vars

LEMMA QuietDoes ==
  ASSUME Quiet
  PROVE  clients' = clients /\ peers' = peers /\ next' = next
<1>1. CASE Poll \/ DispatchListen \/ AcceptDone
  BY <1>1 DEF Poll, DispatchListen, AcceptDone
<1>2. CASE AcceptTooMany \/ Swap \/ FunctorsDone
  BY <1>2 DEF AcceptTooMany, Swap, FunctorsDone
<1>3. CASE IoTake \/ IoPost \/ Connect \/ UNCHANGED vars
  BY <1>3 DEF IoTake, IoPost, IoFrame, Connect, PeerFrame, vars
<1> QED
  BY <1>1, <1>2, <1>3 DEF Quiet

\* Every step, by what has to be said about it.
PeerStep ==
  \E s \in Sockets : \/ \E request \in Requests : PeerSend(s, request)
                     \/ \E end \in {"half", "gone"} : PeerEnds(s, end)
                     \/ PeerStalls(s)

LEMMA Cases ==
  ASSUME [Next]_vars
  PROVE  \/ Quiet \/ PeerStep \/ Accept
         \/ (DispatchError \/ DispatchWrite) \/ DispatchRead
         \/ (Replay \/ Query \/ Reject \/ LineTooLong) \/ TryPush \/ Retain \/ LinesDone
         \/ RunFunctor \/ Release
BY Zenon DEF Next, Network, Io, Peers, Quiet, PeerStep, Sockets

LEMMA AnyEffect ==
  ASSUME Shaped, Identified, Watching, Placed, Reading, Cached, Promised, [Next]_vars
  PROVE  Effect
<1>1. CASE Quiet
  BY <1>1, QuietDoes, QuietKept DEF Effect
<1>2. CASE PeerStep
  BY <1>2, PeersKept, Zenon DEF PeerStep, Effect
<1>3. CASE Accept
  BY <1>3, AcceptDoes, Zenon DEF Effect
<1>4. CASE DispatchError \/ DispatchWrite
  BY <1>4, WriteDoes, StepsEffect, Zenon
<1>5. CASE DispatchRead
  BY <1>5, ReadDoes, Zenon DEF Effect
<1>6. CASE Replay \/ Query \/ Reject \/ LineTooLong
  BY <1>6, LinesEffect, TooLongDoes, StepsEffect, AnsweredEffect, Zenon
<1>7. CASE TryPush
  <2>1. CASE Answered
    BY <2>1, AnsweredEffect
  <2>2. CASE Pushed
    <3>1. Reads(net.fd)
      BY <2>2, Zenon DEF Pushed
    <3>2. net.fd \in Fds
      BY <3>1, UsedForm DEF Reads
    <3> QED
      BY <3>1, <3>2, Zenon DEF Effect
  <2> QED
    BY <1>7, <2>1, <2>2, TryPushDoes, Zenon
<1>8. CASE Retain
  BY <1>8, RetainDoes, StepsEffect, Zenon
<1>9. CASE LinesDone
  BY <1>9, DoneDoes, StepsEffect, QuietKept, Zenon DEF Effect
<1>10. CASE RunFunctor
  BY <1>10, FunctorDoes, StepsEffect, QuietKept, Zenon DEF Effect
<1>11. CASE Release
  BY <1>11, ReleaseDoes, StepsEffect, QuietKept, Zenon DEF Effect
<1> QED
  BY <1>1, <1>2, <1>3, <1>4, <1>5, <1>6, <1>7, <1>8, <1>9, <1>10, <1>11, Cases

-------------------------------------------------------------------------------
(* The types. *)

LEMMA EndsKept ==
  ASSUME Shaped, Effect
  PROVE  /\ clients' \in [Fds -> Form \cup {NoClient}] /\ peers' \in [Sockets -> Peer]
         /\ next' \in Nat \ {0} /\ next' \in {next, next + 1}
<1>1. /\ clients \in [Fds -> Form \cup {NoClient}] /\ next \in Nat \ {0}
  BY Zenon DEF Shaped
<1>2. next + 1 \in Nat \ {0}
  BY <1>1
<1>3. CASE Kept
  BY <1>1, <1>2, <1>3 DEF Kept
<1>4. CASE \E fd \in Fds : Opens(fd)
  <2>1. \A s \in Sockets : peers[s] \in Peer
    BY DEF Shaped
  <2>2. peers \in [Sockets -> Peer]
    BY Zenon DEF Shaped
  <2> QED
    BY <1>1, <1>2, <1>4, <2>2 DEF Opens
<1>5. CASE \E fd \in Fds : Reads(fd)
  BY <1>1, <1>5 DEF Reads
<1>6. CASE \E fd \in Fds : \E c \in Form : Steps(fd, c)
  BY <1>1, <1>6, Zenon DEF Steps, Serves
<1> QED
  BY <1>3, <1>4, <1>5, <1>6, Zenon DEF Effect

\* The rest of Shaped, for the jobs that have been given by now.
Backlogged == backlog \in Nat /\ next + backlog <= MaxSockets + 1
Works ==
  /\ jobs \in Nat
  /\ snapshots \in Seq(Given) /\ functors \in Seq(Given) /\ batch \in Seq(Given)
  /\ io \in Given \cup {NoJob}
  /\ net \in [pc : Pcs, fd : Fds \cup {0}, job : Given \cup {NoJob}]

LEMMA BacklogKept ==
  ASSUME Shaped, Next, next' \in {next, next + 1}
  PROVE  Backlogged'
<1>1. /\ next \in Nat \ {0} /\ backlog \in Nat /\ next + backlog <= MaxSockets + 1
      /\ MaxSockets \in Nat
  BY Limits DEF Shaped
<1>2. CASE AcceptTooMany \/ Accept
  <2>1. backlog > 0 /\ backlog' = backlog - 1
    BY <1>2, Zenon DEF AcceptTooMany, Accept, AcceptFrame
  <2>2. next' = next \/ next' = next + 1
    OBVIOUS
  <2>3. backlog' \in Nat /\ next' + backlog' <= MaxSockets + 1
    <3>1. CASE next' = next
      BY <1>1, <2>1, <3>1
    <3>2. CASE next' = next + 1
      BY <1>1, <2>1, <3>2
    <3> QED
      BY <2>2, <3>1, <3>2, Zenon
  <2> QED
    BY <2>3 DEF Backlogged
<1>3. CASE Connect
  <2>1. next + backlog <= MaxSockets /\ backlog' = backlog + 1 /\ next' = next
    BY <1>3 DEF Connect, PeerFrame
  <2> QED
    BY <1>1, <2>1 DEF Backlogged
<1>4. CASE ~(AcceptTooMany \/ Accept \/ Connect)
  <2>1. backlog' = backlog /\ next' = next
    <3>1. CASE Poll \/ DispatchListen \/ AcceptDone \/ DispatchError \/ DispatchRead
                 \/ DispatchWrite \/ Swap \/ FunctorsDone
      BY <3>1 DEF Poll, DispatchListen, AcceptDone, DispatchError, DispatchRead, DispatchWrite,
                  Swap, FunctorsDone
    <3>2. CASE LineTooLong \/ Replay \/ Query \/ Reject \/ TryPush \/ Retain \/ LinesDone
      BY <3>2 DEF LineTooLong, Replay, Query, Reject, TryPush, Retain, LinesDone,
                  CommandFrame, world
    <3>3. CASE RunFunctor \/ Release \/ IoTake \/ IoPost
      BY <3>3 DEF RunFunctor, Release, IoTake, IoPost, IoFrame, world
    <3>4. CASE PeerStep
      BY <3>4 DEF PeerStep, PeerSend, PeerEnds, PeerStalls, PeerFrame, world
    <3> QED
      BY <1>4, <3>1, <3>2, <3>3, <3>4, Zenon
         DEF Next, Network, Io, Peers, PeerStep, Sockets
  <2> QED
    BY <1>1, <2>1 DEF Backlogged
<1> QED
  BY <1>2, <1>3, <1>4

LEMMA GivenGrows ==
  ASSUME next \in Nat, jobs \in Nat, jobs' \in {jobs, jobs + 1}, next' \in {next, next + 1}
  PROVE  Given \subseteq Given'
<1>1. ASSUME NEW j \in Given PROVE j \in Given'
  <2>1. j \in [conn : Sockets, sock : Sockets, id : Ids, cached : BOOLEAN, n : Nat \ {0}]
        /\ j.conn = j.sock /\ j.sock < next /\ j.n <= jobs
    BY DEF Given
  <2>2. j.sock \in Nat /\ j.n \in Nat
    BY <2>1 DEF Sockets
  <2>3. j.sock < next' /\ j.n <= jobs'
    BY <2>1, <2>2
  <2> QED
    BY <2>1, <2>3 DEF Given
<1> QED
  BY <1>1

\* What the step does with the jobs: nothing ...
WorkStays == UNCHANGED <<snapshots, io, jobs, functors, batch>>

\* ... and where the network thread may go then.
Goes ==
  \/ net' = net
  \/ \E pc \in Pcs : net' = [net EXCEPT !.pc = pc]
  \/ \E fd \in Fds : net' = [net EXCEPT !.pc = "lines", !.fd = fd]
  \/ net' = [net EXCEPT !.pc = "dispatch", !.fd = 0]
  \/ \E pc \in Pcs, job \in Given' \cup {NoJob} : net' = [net EXCEPT !.pc = pc, !.job = job]

LEMMA GoesKeeps ==
  ASSUME Shaped, Goes, Given \subseteq Given'
  PROVE  net' \in [pc : Pcs, fd : Fds \cup {0}, job : Given' \cup {NoJob}]
<1>1. net \in [pc : Pcs, fd : Fds \cup {0}, job : Given' \cup {NoJob}]
  <2>1. net \in [pc : Pcs, fd : Fds \cup {0}, job : Given \cup {NoJob}]
    BY Zenon DEF Shaped
  <2> QED
    BY <2>1
<1>2. "lines" \in Pcs /\ "dispatch" \in Pcs
  BY DEF Pcs
<1>3. CASE net' = net
  BY <1>1, <1>3
<1>4. CASE \E pc \in Pcs : net' = [net EXCEPT !.pc = pc]
  BY <1>1, <1>4
<1>5. CASE \E fd \in Fds : net' = [net EXCEPT !.pc = "lines", !.fd = fd]
  BY <1>1, <1>2, <1>5
<1>6. CASE net' = [net EXCEPT !.pc = "dispatch", !.fd = 0]
  BY <1>1, <1>2, <1>6
<1>7. CASE \E pc \in Pcs, job \in Given' \cup {NoJob} : net' = [net EXCEPT !.pc = pc, !.job = job]
  BY <1>1, <1>7
<1> QED
  BY <1>3, <1>4, <1>5, <1>6, <1>7, Zenon DEF Goes

LEMMA StaysKeeps ==
  ASSUME Shaped, WorkStays, next' \in {next, next + 1}, Goes
  PROVE  Works'
<1>1. Given \subseteq Given' /\ jobs' = jobs /\ jobs \in Nat
  BY GivenGrows DEF Shaped, WorkStays
<1>2. /\ snapshots \in Seq(Given') /\ functors \in Seq(Given') /\ batch \in Seq(Given')
      /\ io \in Given' \cup {NoJob}
  BY <1>1, SeqWider DEF Shaped
<1>3. net' \in [pc : Pcs, fd : Fds \cup {0}, job : Given' \cup {NoJob}]
  BY <1>1, GoesKeeps
<1> QED
  BY <1>1, <1>2, <1>3 DEF Works, WorkStays

LEMMA WorksKept ==
  ASSUME Shaped, Identified, Watching, Placed, Reading, Cached, Promised, Next,
         next' \in {next, next + 1}
  PROVE  Works'
<1>0. /\ next \in Nat /\ jobs \in Nat
      /\ snapshots \in Seq(Given) /\ functors \in Seq(Given) /\ batch \in Seq(Given)
      /\ io \in Given \cup {NoJob}
  BY DEF Shaped
<1>1. CASE Poll \/ DispatchListen \/ AcceptDone \/ FunctorsDone
  <2>1. WorkStays /\ Goes
    BY <1>1 DEF Poll, DispatchListen, AcceptDone, FunctorsDone, WorkStays, Goes, NetTo,
                LoopFrame, work, Pcs
  <2> QED
    BY <2>1, StaysKeeps
<1>2. CASE AcceptTooMany \/ Accept \/ Connect \/ PeerStep
  <2>1. WorkStays /\ net' = net
    BY <1>2 DEF AcceptTooMany, Accept, AcceptFrame, Connect, PeerStep, PeerSend, PeerEnds,
                PeerStalls, PeerFrame, WorkStays, LoopFrame, work
  <2> QED
    BY <2>1, StaysKeeps DEF Goes
<1>3. CASE DispatchError \/ DispatchWrite \/ LineTooLong \/ Replay \/ Query \/ Reject
  <2>1. WorkStays /\ net' = net
    BY <1>3 DEF DispatchError, DispatchWrite, LineTooLong, Replay, Query, Reject, CommandFrame,
                WorkStays, LoopFrame, work
  <2> QED
    BY <2>1, StaysKeeps DEF Goes
<1>4. CASE DispatchRead
  <2>1. WorkStays
    BY <1>4 DEF DispatchRead, WorkStays, LoopFrame, work
  <2>2. Goes
    BY <1>4, ReadDoes, Zenon DEF Goes
  <2> QED
    BY <2>1, <2>2, StaysKeeps
<1>5. CASE LinesDone
  <2>1. WorkStays /\ Goes
    BY <1>5 DEF LinesDone, CommandFrame, WorkStays, work, Goes
  <2> QED
    BY <2>1, StaysKeeps
<1>6. CASE Retain \/ Release
  <2>1. WorkStays /\ Goes
    BY <1>6 DEF Retain, Release, CommandFrame, WorkStays, work, Goes, Pcs
  <2> QED
    BY <2>1, StaysKeeps
<1>7. CASE TryPush
  <2>1. UNCHANGED <<next, functors, batch, io>>
    BY <1>7, TryPushDoes
  <2>2. CASE snapshots' = snapshots /\ jobs' = jobs /\ net' = net
    BY <2>1, <2>2, StaysKeeps DEF WorkStays, Goes
  <2>3. CASE Pushed
    <3>1. /\ New({"capture", "get_preview"}) /\ snapshots' = Append(snapshots, NewJob)
          /\ jobs' = jobs + 1 /\ net' = [net EXCEPT !.pc = "retain", !.job = NewJob]
      BY <2>3, Zenon DEF Pushed
    <3>2. Line({"capture", "get_preview"})
      BY <3>1, Zenon DEF New
    <3>3. NewJob \in Given'
      BY <2>1, <3>1, <3>2, NewJobGiven
    <3>4. Given \subseteq Given' /\ jobs' \in Nat
      BY <1>0, <3>1, GivenGrows
    <3>5. /\ snapshots \in Seq(Given') /\ functors \in Seq(Given') /\ batch \in Seq(Given')
          /\ io \in Given' \cup {NoJob}
      BY <1>0, <3>4, SeqWider
    <3>6. snapshots' \in Seq(Given')
      BY <3>1, <3>3, <3>5, ItemsOfAppend
    <3>7. Goes
      BY <3>1, <3>3 DEF Goes, Pcs
    <3>8. net' \in [pc : Pcs, fd : Fds \cup {0}, job : Given' \cup {NoJob}]
      BY <3>4, <3>7, GoesKeeps
    <3> QED
      BY <2>1, <3>4, <3>5, <3>6, <3>8 DEF Works
  <2> QED
    BY <1>7, <2>2, <2>3, TryPushDoes, Zenon
<1>8. ASSUME jobs' = jobs, Goes, snapshots' \in Seq(Given), functors' \in Seq(Given),
             batch' \in Seq(Given), io' \in Given \cup {NoJob}
      PROVE  Works'
  <2>1. Given \subseteq Given'
    BY <1>0, <1>8, GivenGrows
  <2>2. /\ snapshots' \in Seq(Given') /\ functors' \in Seq(Given') /\ batch' \in Seq(Given')
        /\ io' \in Given' \cup {NoJob}
    BY <1>8, <2>1, SeqWider
  <2>3. net' \in [pc : Pcs, fd : Fds \cup {0}, job : Given' \cup {NoJob}]
    BY <1>8, <2>1, GoesKeeps
  <2> QED
    BY <1>0, <1>8, <2>2, <2>3 DEF Works
<1>9. CASE Swap
  <2>1. /\ batch' = functors /\ functors' = <<>> /\ UNCHANGED <<snapshots, io, jobs>> /\ Goes
    BY <1>9 DEF Swap, NetTo, LoopFrame, work, Goes, Pcs
  <2> QED
    BY <1>0, <1>8, <2>1, NoItems, Zenon
<1>10. CASE IoTake
  <2>1. /\ snapshots # <<>> /\ io' = Head(snapshots) /\ snapshots' = Tail(snapshots)
        /\ UNCHANGED <<functors, batch, jobs, net>>
    BY <1>10 DEF IoTake, IoFrame
  <2>2. io' \in Given /\ snapshots' \in Seq(Given)
    BY <1>0, <2>1, ItemsOfTail
  <2> QED
    BY <1>0, <1>8, <2>1, <2>2 DEF Goes
<1>11. CASE IoPost
  <2>1. /\ io # NoJob /\ functors' = Append(functors, io) /\ io' = NoJob
        /\ UNCHANGED <<snapshots, batch, jobs, net>>
    BY <1>11 DEF IoPost, IoFrame
  <2>2. functors' \in Seq(Given)
    BY <1>0, <2>1, ItemsOfAppend
  <2> QED
    BY <1>0, <1>8, <2>1, <2>2 DEF Goes
<1>12. CASE RunFunctor
  <2>1. /\ batch # <<>> /\ batch' = Tail(batch)
        /\ net' = [net EXCEPT !.pc = "release", !.job = Head(batch)]
        /\ UNCHANGED <<next, functors, snapshots, io, jobs>>
    BY <1>12 DEF RunFunctor, work
  <2>2. Head(batch) \in Given /\ batch' \in Seq(Given)
    BY <1>0, <2>1, ItemsOfTail
  <2>3. Given \subseteq Given'
    BY <1>0, <2>1, GivenGrows
  <2>4. Goes
    BY <2>1, <2>2, <2>3 DEF Goes, Pcs
  <2> QED
    BY <1>0, <1>8, <2>1, <2>2, <2>4
<1> QED
  BY <1>1, <1>2, <1>3, <1>4, <1>5, <1>6, <1>7, <1>9, <1>10, <1>11, <1>12, Zenon
     DEF Next, Network, Io, Peers, PeerStep, Sockets

LEMMA ReadyKept ==
  ASSUME Shaped, Next
  PROVE  ready' \in SUBSET Event
<1>1. ready \in SUBSET Event
  BY Zenon DEF Shaped
<1>2. CASE Poll
  <2>1. ASSUME NEW fd \in Used, NEW gone
        PROVE  [fd |-> fd, sock |-> clients[fd].sock, flags |-> Reported(fd, gone)] \in Event
    <3>1. fd \in Fds /\ clients[fd].sock \in 0..MaxSockets
      BY UsedForm, Limits DEF Sockets
    <3>2. Reported(fd, gone) \in SUBSET {"in", "out", "err"}
      BY DEF Reported
    <3> QED
      BY <3>1, <3>2 DEF Event
  <2>2. [fd |-> 0, sock |-> 0, flags |-> {"in"}] \in Event
    BY Limits DEF Event
  <2>3. PICK gone :
          ready' = {[fd |-> fd, sock |-> clients[fd].sock, flags |-> Reported(fd, gone)] :
                      fd \in {fd \in Used : Reported(fd, gone) # {}}}
                   \cup (IF backlog > 0 THEN {[fd |-> 0, sock |-> 0, flags |-> {"in"}]} ELSE {})
    BY <1>2, Zenon DEF Poll
  <2> QED
    BY <2>1, <2>2, <2>3
<1>3. CASE DispatchListen \/ DispatchError \/ DispatchRead \/ DispatchWrite
  <2>1. \E event \in ready : ready' = ready \ {event}
    BY <1>3, Zenon DEF DispatchListen, DispatchError, DispatchRead, DispatchWrite,
                       ClientEvent, Dispatch
  <2> QED
    BY <1>1, <2>1
<1>4. CASE AcceptTooMany \/ Accept \/ AcceptDone \/ Swap \/ FunctorsDone \/ RunFunctor \/ Release
  BY <1>1, <1>4 DEF AcceptTooMany, Accept, AcceptFrame, AcceptDone, Swap, FunctorsDone,
                    RunFunctor, Release
<1>5. CASE LineTooLong \/ Replay \/ Query \/ Reject \/ TryPush \/ Retain \/ LinesDone
  BY <1>1, <1>5 DEF LineTooLong, Replay, Query, Reject, TryPush, Retain, LinesDone, CommandFrame
<1>6. CASE IoTake \/ IoPost \/ Connect \/ PeerStep
  BY <1>1, <1>6 DEF IoTake, IoPost, IoFrame, Connect, PeerStep, PeerSend, PeerEnds, PeerStalls,
                    PeerFrame
<1> QED
  BY <1>2, <1>3, <1>4, <1>5, <1>6, Zenon DEF Next, Network, Io, Peers, PeerStep, Sockets

LEMMA ShapedKept ==
  ASSUME Shaped, Identified, Watching, Placed, Reading, Cached, Promised, Next
  PROVE  Shaped'
<1>1. /\ clients' \in [Fds -> Form \cup {NoClient}] /\ peers' \in [Sockets -> Peer]
      /\ next' \in Nat \ {0} /\ next' \in {next, next + 1}
  BY AnyEffect, EndsKept
<1>2. Backlogged' /\ Works' /\ ready' \in SUBSET Event
  BY <1>1, BacklogKept, WorksKept, ReadyKept
<1> QED
  BY <1>1, <1>2, Zenon DEF Shaped, Backlogged, Works

-------------------------------------------------------------------------------
(* Who stays open, and the events still to be dispatched. *)

LEMMA StepsStay ==
  ASSUME Shaped, Identified, NEW fd, NEW c, Steps(fd, c)
  PROVE  /\ \A g \in Used : g # fd => g \in Used' /\ clients'[g] = clients[g]
         /\ Used' \subseteq Used /\ fd \in Used
         /\ fd \in Used' => Like(clients'[fd], c) /\ c.sock = clients[fd].sock
                            /\ (c.eof <=> clients[fd].eof)
<1>1. Served(fd, c) /\ Serves(fd, c)
  BY Zenon DEF Steps
<1>2. /\ Used' \subseteq Used /\ \A g \in Used : g # fd => g \in Used'
      /\ fd \in Used' => clients'[fd] \in Form /\ Like(clients'[fd], c)
  BY <1>1, ServesUsed, Zenon
<1>3. \A g \in Used : g # fd => clients'[g] = clients[g]
  BY <1>1, UsedForm, Zenon DEF Serves
<1>4. fd \in Used /\ c.sock = clients[fd].sock /\ (c.eof <=> clients[fd].eof)
  BY <1>1, Zenon DEF Served
<1> QED
  BY <1>2, <1>3, <1>4, Zenon

LEMMA WatchKeeps ==
  ASSUME Watching, ready' \subseteq ready,
         \A e \in ready' :
           e.fd # 0 => e.fd \in Used' /\ clients'[e.fd].sock = clients[e.fd].sock,
         net'.pc \in {"poll", "tasks", "release"} => ready' = {},
         net'.pc \in {"lines", "retain"} => \A e \in ready' : e.fd # net'.fd
  PROVE  Watching'
<1>1. \A e \in ready' : e.fd = 0 \/ (e.fd \in Used' /\ clients'[e.fd].sock = e.sock)
  <2>1. ASSUME NEW e \in ready', e.fd # 0 PROVE e.fd \in Used' /\ clients'[e.fd].sock = e.sock
    <3>1. e \in ready
      BY Zenon
    <3>2. clients[e.fd].sock = e.sock
      BY <2>1, <3>1, Zenon DEF Watching
    <3> QED
      BY <2>1, <3>2, Zenon
  <2> QED
    BY <2>1
<1>2. \A e, f \in ready' : e.fd = f.fd => e = f
  BY Zenon DEF Watching
<1> QED
  BY <1>1, <1>2, Zenon DEF Watching

LEMMA KeptStays ==
  ASSUME Shaped, Identified, Kept \/ (\E fd \in Fds : Opens(fd) \/ Reads(fd))
  PROVE  \A g \in Used : g \in Used' /\ clients'[g].sock = clients[g].sock
<1>1. CASE Kept
  BY <1>1 DEF Kept, Used
<1>2. CASE \E f \in Fds : Opens(f)
  BY <1>2, OpensIdentity, Zenon
<1>3. CASE \E f \in Fds : Reads(f)
  BY <1>3, ReadsIdentity, Zenon
<1> QED
  BY <1>1, <1>2, <1>3, Zenon

\* The action of net.fd's client leaves the events of the others.
LEMMA WatchSteps ==
  ASSUME Shaped, Identified, Watching, net.pc \in {"lines", "retain"}, ready' = ready,
         NEW c, Steps(net.fd, c),
         net'.pc \in {"lines", "retain", "dispatch"},
         net'.pc \in {"lines", "retain"} => net'.fd = net.fd
  PROVE  Watching'
<1>1. \A e \in ready : e.fd # net.fd
  BY Zenon DEF Watching
<1>2. \A e \in ready' : e.fd # 0 => e.fd \in Used' /\ clients'[e.fd].sock = clients[e.fd].sock
  <2>1. ASSUME NEW e \in ready', e.fd # 0
        PROVE  e.fd \in Used' /\ clients'[e.fd].sock = clients[e.fd].sock
    <3>1. e \in ready /\ e.fd # net.fd /\ e.fd \in Used
      BY <1>1, <2>1, Zenon DEF Watching
    <3> QED
      BY <3>1, StepsStay, Zenon
  <2> QED
    BY <2>1
<1>3. net'.pc \in {"poll", "tasks", "release"} => ready' = {}
  OBVIOUS
<1>4. net'.pc \in {"lines", "retain"} => \A e \in ready' : e.fd # net'.fd
  BY <1>1, Zenon
<1>5. ready' \subseteq ready
  OBVIOUS
<1> QED
  BY <1>2, <1>3, <1>4, <1>5, WatchKeeps

LEMMA WatchingKept ==
  ASSUME Shaped, Identified, Watching, Placed, Reading, Cached, Promised, Next
  PROVE  Watching'
<1>0. net \in [pc : Pcs, fd : Fds \cup {0}, job : Given \cup {NoJob}] /\ 0 \notin Fds
  BY Limits, Zenon DEF Shaped
<1>1. CASE Poll
  <2>1. clients' = clients /\ net'.pc = "dispatch"
    BY <1>0, <1>1 DEF Poll, NetTo
  <2>2. PICK gone :
          ready' = {[fd |-> fd, sock |-> clients[fd].sock, flags |-> Reported(fd, gone)] :
                      fd \in {fd \in Used : Reported(fd, gone) # {}}}
                   \cup (IF backlog > 0 THEN {[fd |-> 0, sock |-> 0, flags |-> {"in"}]} ELSE {})
    BY <1>1, Zenon DEF Poll
  <2>3. ASSUME NEW e \in ready'
        PROVE  \/ e = [fd |-> 0, sock |-> 0, flags |-> {"in"}]
               \/ \E fd \in Used :
                    e = [fd |-> fd, sock |-> clients[fd].sock, flags |-> Reported(fd, gone)]
    BY <2>2
  <2>4. \A e \in ready' : e.fd = 0 \/ (e.fd \in Used' /\ clients'[e.fd].sock = e.sock)
    BY <2>1, <2>3 DEF Used
  <2>5. \A fd \in Used : fd # 0
    BY <1>0 DEF Used
  <2>6. \A e, f \in ready' : e.fd = f.fd => e = f
    <3>1. ASSUME NEW e \in ready', NEW f \in ready', e.fd = f.fd PROVE e = f
      <4>1. CASE e = [fd |-> 0, sock |-> 0, flags |-> {"in"}]
        <5>1. e.fd = 0 /\ f.fd = 0
          BY <3>1, <4>1
        <5>2. ASSUME NEW fd \in Used,
                     f = [fd |-> fd, sock |-> clients[fd].sock, flags |-> Reported(fd, gone)]
              PROVE  FALSE
          BY <2>5, <5>1, <5>2
        <5> QED
          BY <2>3, <3>1, <4>1, <5>2, Zenon
      <4>2. ASSUME NEW fd \in Used,
                   e = [fd |-> fd, sock |-> clients[fd].sock, flags |-> Reported(fd, gone)]
            PROVE  e = f
        <5>1. e.fd = fd /\ f.fd = fd /\ fd # 0
          BY <2>5, <3>1, <4>2
        <5>2. f # [fd |-> 0, sock |-> 0, flags |-> {"in"}]
          BY <5>1
        <5>3. PICK h \in Used :
                f = [fd |-> h, sock |-> clients[h].sock, flags |-> Reported(h, gone)]
          BY <2>3, <3>1, <5>2, Zenon
        <5>4. h = fd
          BY <5>1, <5>3
        <5> QED
          BY <4>2, <5>3, <5>4, Zenon
      <4> QED
        BY <2>3, <3>1, <4>1, <4>2, Zenon
    <3> QED
      BY <3>1
  <2> QED
    BY <2>1, <2>4, <2>6 DEF Watching
<1>2. ASSUME clients' = clients, ready' \subseteq ready,
             net'.pc \in {"poll", "tasks", "release"} => ready' = {},
             net'.pc \notin {"lines", "retain"} \/ net' = net
      PROVE  Watching'
  <2>1. \A e \in ready' : e.fd # 0 => e.fd \in Used' /\ clients'[e.fd].sock = clients[e.fd].sock
    <3>1. Used' = Used
      BY <1>2 DEF Used
    <3> QED
      BY <1>2, <3>1, Zenon DEF Watching
  <2>2. net'.pc \in {"lines", "retain"} => \A e \in ready' : e.fd # net'.fd
    BY <1>2, Zenon DEF Watching
  <2> QED
    BY <1>2, <2>1, <2>2, WatchKeeps, Zenon
<1>3. CASE DispatchListen \/ AcceptDone
  <2>1. clients' = clients /\ ready' \subseteq ready /\ net'.pc \in {"accept", "dispatch"}
    BY <1>0, <1>3 DEF DispatchListen, AcceptDone, Dispatch, NetTo
  <2> QED
    BY <1>2, <2>1
<1>4. CASE Swap \/ FunctorsDone
  <2>1. clients' = clients /\ ready' = ready /\ ready = {} /\ net'.pc \in {"tasks", "poll"}
    BY <1>0, <1>4 DEF Swap, FunctorsDone, NetTo, Watching
  <2> QED
    BY <1>2, <2>1
<1>5. CASE AcceptTooMany \/ IoTake \/ IoPost \/ Connect \/ PeerStep
  <2>1. clients' = clients /\ ready' = ready /\ net' = net
    BY <1>5 DEF AcceptTooMany, AcceptFrame, IoTake, IoPost, IoFrame, Connect, PeerStep, PeerSend,
                PeerEnds, PeerStalls, PeerFrame
  <2>2. net'.pc \in {"poll", "tasks", "release"} => ready' = {}
    BY <2>1, Zenon DEF Watching
  <2> QED
    BY <1>2, <2>1, <2>2
<1>6. CASE Accept
  <2>1. ready' = ready /\ net' = net /\ net.pc = "accept"
    BY <1>6 DEF Accept, AcceptFrame
  <2>2. \A g \in Used : g \in Used' /\ clients'[g].sock = clients[g].sock
    BY <1>6, AcceptDoes, KeptStays, Zenon
  <2>3. \A e \in ready' : e.fd # 0 => e.fd \in Used' /\ clients'[e.fd].sock = clients[e.fd].sock
    BY <2>1, <2>2, Zenon DEF Watching
  <2> QED
    BY <2>1, <2>3, WatchKeeps
<1>7. CASE DispatchError \/ DispatchWrite
  <2>1. PICK event \in ready :
          /\ net.pc = "dispatch" /\ net' = net /\ ready' = ready \ {event}
          /\ Steps(event.fd, clients[event.fd])
    BY <1>7, WriteDoes, Zenon
  <2>2. PICK fd, c : fd = event.fd /\ c = clients[fd]
    OBVIOUS
  <2>3. Steps(fd, c)
    BY <2>1, <2>2, Zenon
  <2>4. ASSUME NEW e \in ready', e.fd # 0
        PROVE  e.fd \in Used' /\ clients'[e.fd].sock = clients[e.fd].sock
    <3>1. e \in ready /\ e # event
      BY <2>1
    <3>2. e.fd # fd /\ e.fd \in Used
      BY <2>2, <2>4, <3>1, Zenon DEF Watching
    <3> QED
      BY <2>3, <3>2, StepsStay, Zenon
  <2>5. ready' \subseteq ready
    BY <2>1
  <2> QED
    BY <2>1, <2>4, <2>5, WatchKeeps
<1>8. CASE DispatchRead
  <2>1. PICK event \in ready :
          /\ ready' = ready \ {event} /\ event.fd \in Fds /\ Reads(event.fd)
          /\ net' = [net EXCEPT !.pc = "lines", !.fd = event.fd]
    BY <1>8, ReadDoes, Zenon
  <2>2. net'.pc = "lines" /\ net'.fd = event.fd
    BY <1>0, <2>1
  <2>3. \A g \in Used : g \in Used' /\ clients'[g].sock = clients[g].sock
    BY <2>1, KeptStays, Zenon
  <2>4. ASSUME NEW e \in ready'
        PROVE  /\ e.fd # net'.fd
               /\ e.fd # 0 => e.fd \in Used' /\ clients'[e.fd].sock = clients[e.fd].sock
    <3>1. e \in ready /\ e # event
      BY <2>1
    <3> QED
      BY <2>2, <2>3, <3>1, Zenon DEF Watching
  <2>5. ready' \subseteq ready
    BY <2>1
  <2> QED
    BY <2>2, <2>4, <2>5, WatchKeeps
<1>9. CASE Replay \/ Query \/ Reject \/ LineTooLong
  <2>1. ready' = ready /\ net' = net /\ net.pc = "lines"
    BY <1>9 DEF Replay, Query, Reject, LineTooLong, CommandFrame, Line, New
  <2>2. PICK c : Steps(net.fd, c)
    BY <1>9, LinesEffect, TooLongDoes, Zenon DEF Answered
  <2> QED
    BY <2>1, <2>2, WatchSteps
<1>10. CASE TryPush
  <2>1. ready' = ready
    BY <1>10, TryPushDoes
  <2>2. net.pc = "lines"
    BY <1>10, Zenon DEF TryPush, New, Line
  <2>3. CASE Answered /\ net' = net
    <3>1. PICK c : Steps(net.fd, c)
      BY <2>3, Zenon DEF Answered
    <3> QED
      BY <2>1, <2>2, <2>3, <3>1, WatchSteps
  <2>4. CASE Pushed
    <3>1. Reads(net.fd) /\ net' = [net EXCEPT !.pc = "retain", !.job = NewJob]
      BY <2>4, Zenon DEF Pushed
    <3>2. net'.pc = "retain" /\ net'.fd = net.fd
      BY <1>0, <3>1
    <3>3. net.fd \in Fds
      BY <3>1, UsedForm DEF Reads
    <3>4. \A g \in Used : g \in Used' /\ clients'[g].sock = clients[g].sock
      BY <3>1, <3>3, KeptStays, Zenon
    <3>5. \A e \in ready' :
            /\ e.fd # net'.fd
            /\ e.fd # 0 => e.fd \in Used' /\ clients'[e.fd].sock = clients[e.fd].sock
      BY <2>1, <2>2, <3>2, <3>4 DEF Watching
    <3> QED
      BY <2>1, <3>2, <3>5, WatchKeeps
  <2> QED
    BY <1>10, <2>3, <2>4, TryPushDoes, Zenon
<1>11. CASE Retain
  <2>1. ready' = ready /\ net.pc = "retain" /\ net'.pc = "lines" /\ net'.fd = net.fd
    BY <1>0, <1>11 DEF Retain, CommandFrame
  <2>2. PICK c : Steps(net.fd, c)
    BY <1>11, RetainDoes, Zenon
  <2> QED
    BY <2>1, <2>2, WatchSteps
<1>12. CASE LinesDone
  <2>1. ready' = ready /\ net.pc = "lines" /\ net'.pc = "dispatch"
    BY <1>0, <1>12 DEF LinesDone, CommandFrame
  <2>2. CASE clients' = clients
    BY <1>2, <2>1, <2>2
  <2>3. CASE \E c \in Form : Steps(net.fd, c)
    BY <2>1, <2>3, WatchSteps
  <2> QED
    BY <1>12, <2>2, <2>3, DoneDoes, Zenon
<1>13. CASE RunFunctor \/ Release
  <2>1. ready' = ready /\ net.pc \in {"tasks", "release"} /\ net'.pc \in {"tasks", "release"}
    BY <1>0, <1>13 DEF RunFunctor, Release
  <2>2. ready = {}
    BY <2>1, Zenon DEF Watching
  <2> QED
    BY <2>1, <2>2, WatchKeeps
<1> QED
  BY <1>1, <1>3, <1>4, <1>5, <1>6, <1>7, <1>8, <1>9, <1>10, <1>11, <1>12, <1>13, Zenon
     DEF Next, Network, Io, Peers, PeerStep, Sockets

-------------------------------------------------------------------------------
(* What was read. *)

ReadingOf(fd) ==
  /\ clients[fd].reading => net.pc \in {"lines", "retain"} /\ net.fd = fd
  /\ ~clients[fd].reading => clients[fd].in = <<>>
  /\ clients[fd].eof => /\ peers[clients[fd].sock].wire = <<>>
                        /\ peers[clients[fd].sock].end # "open"

LEMMA ReadingIs == (Reading <=> \A fd \in Used : ReadingOf(fd))
                   /\ (Reading' <=> \A fd \in Used' : ReadingOf(fd)')
BY Zenon DEF Reading, ReadingOf

\* A client that does not change, while the network thread stays with its lines.
LEMMA ReadingStays ==
  ASSUME Shaped, NEW g \in Used, ReadingOf(g), clients'[g] = clients[g],
         \/ peers'[clients[g].sock] = peers[clients[g].sock]
         \/ Kept
         \/ /\ peers'[clients[g].sock].wire = peers[clients[g].sock].wire
            /\ peers'[clients[g].sock].end = peers[clients[g].sock].end,
         clients[g].reading => net'.pc \in {"lines", "retain"} /\ net'.fd = g
  PROVE  ReadingOf(g)'
<1>1. clients[g].sock \in Sockets
  BY UsedForm
<1>2. /\ clients'[g].reading = clients[g].reading /\ clients'[g].in = clients[g].in
      /\ clients'[g].eof = clients[g].eof /\ clients'[g].sock = clients[g].sock
  OBVIOUS
<1>3. clients[g].eof => /\ peers'[clients[g].sock].wire = <<>>
                        /\ peers'[clients[g].sock].end # "open"
  BY <1>1, Zenon DEF Kept, ReadingOf
<1> QED
  BY <1>2, <1>3, Zenon DEF ReadingOf

LEMMA ReadingSteps ==
  ASSUME Shaped, Identified, Reading, NEW fd, NEW c, Steps(fd, c),
         c.reading => net'.pc \in {"lines", "retain"} /\ net'.fd = fd,
         ~c.reading => c.in = <<>>,
         \/ net.pc \notin {"lines", "retain"} \/ net.fd = fd
  PROVE  Reading'
<1>1. Served(fd, c) /\ Serves(fd, c)
  BY Zenon DEF Steps
<1>2. ASSUME NEW g \in Used', g # fd PROVE ReadingOf(g)'
  <2>1. g \in Used /\ clients'[g] = clients[g] /\ ReadingOf(g)
    BY <1>2, StepsStay, ReadingIs, Zenon
  <2>2. ~clients[g].reading
    BY <1>2, <2>1, Zenon DEF ReadingOf
  <2>3. clients[g].sock # c.sock
    BY <1>1, <1>2, <2>1, Zenon DEF Served, Identified
  <2>4. peers'[clients[g].sock] = peers[clients[g].sock]
    BY <1>1, <2>1, <2>3, UsedForm, Zenon DEF Serves
  <2> QED
    BY <2>1, <2>2, <2>4, ReadingStays
<1>3. ASSUME fd \in Used' PROVE ReadingOf(fd)'
  <2>1. /\ clients'[fd].in = c.in /\ clients'[fd].eof = c.eof /\ clients'[fd].reading = c.reading
        /\ clients'[fd].sock = c.sock
    <3>1. Like(clients'[fd], c)
      BY <1>3, StepsStay, Zenon
    <3> QED
      BY <3>1, Zenon DEF Like
  <2>2. fd \in Used /\ c.sock = clients[fd].sock /\ (c.eof <=> clients[fd].eof)
    BY <1>3, StepsStay, Zenon
  <2>3. c.eof => peers[c.sock].wire = <<>> /\ peers[c.sock].end # "open"
    BY <2>2, Zenon DEF Reading
  <2>4. peers'[c.sock].wire = peers[c.sock].wire /\ peers'[c.sock].end = peers[c.sock].end
    BY <1>1, Zenon DEF Serves
  <2> QED
    BY <2>1, <2>3, <2>4, Zenon DEF ReadingOf
<1> QED
  BY <1>2, <1>3, ReadingIs, Zenon

\* The client of a line is reading.
LEMMA LineReading ==
  ASSUME Shaped, Identified, Placed, Reading, NEW cmds, Line(cmds)
  PROVE  clients[net.fd].reading
BY LineFacts, Zenon DEF Reading

LEMMA ReadingKept ==
  ASSUME Shaped, Identified, Watching, Placed, Reading, Cached, Promised, Next
  PROVE  Reading'
<1>0. net \in [pc : Pcs, fd : Fds \cup {0}, job : Given \cup {NoJob}]
  BY Zenon DEF Shaped
<1>1. ASSUME Kept, net' = net \/ net.pc \notin {"lines", "retain"} \/ net.fd \notin Used
      PROVE  Reading'
  <2>1. Used' = Used /\ clients' = clients
    BY <1>1 DEF Kept, Used
  <2>2. ASSUME NEW g \in Used PROVE ReadingOf(g)'
    <3>1. ReadingOf(g)
      BY ReadingIs, Zenon
    <3>2. clients[g].reading => net'.pc \in {"lines", "retain"} /\ net'.fd = g
      BY <1>1, <3>1, Zenon DEF ReadingOf
    <3> QED
      BY <1>1, <2>1, <3>1, <3>2, ReadingStays
  <2> QED
    BY <2>1, <2>2, ReadingIs, Zenon
<1>2. CASE Quiet
  <2>1. net' = net \/ net.pc \notin {"lines", "retain"}
    BY <1>2 DEF Quiet, Poll, DispatchListen, Dispatch, AcceptTooMany, AcceptDone, AcceptFrame, Swap,
                FunctorsDone, IoTake, IoPost, IoFrame, Connect, PeerFrame, vars
  <2>2. Kept
    BY <1>2, QuietDoes, QuietKept
  <2> QED
    BY <1>1, <2>1, <2>2
<1>3. CASE PeerStep
  <2>1. net' = net
    BY <1>3 DEF PeerStep, PeerSend, PeerEnds, PeerStalls, PeerFrame
  <2>2. Kept
    BY <1>3, PeersKept, Zenon DEF PeerStep
  <2> QED
    BY <1>1, <2>1, <2>2
<1>4. CASE Accept
  <2>1. net' = net /\ net.pc = "accept"
    BY <1>4 DEF Accept, AcceptFrame
  <2>2. ASSUME NEW fd \in Fds, Opens(fd) PROVE Reading'
    <3>1. Used' = Used \cup {fd} /\ \A g \in Used : clients'[g] = clients[g]
      BY <2>2, OpensIdentity
    <3>2. peers' = peers /\ clients'[fd].in = <<>> /\ clients'[fd].eof = FALSE
          /\ clients'[fd].reading = FALSE
      BY <2>2, Zenon DEF Opens
    <3>3. ReadingOf(fd)'
      BY <3>2, Zenon DEF ReadingOf
    <3>4. ASSUME NEW g \in Used PROVE ReadingOf(g)'
      <4>1. ReadingOf(g) /\ clients'[g] = clients[g]
        BY <3>1, ReadingIs, Zenon
      <4>2. clients[g].reading => net'.pc \in {"lines", "retain"} /\ net'.fd = g
        BY <2>1, <4>1, Zenon DEF ReadingOf
      <4> QED
        BY <3>2, <4>1, <4>2, ReadingStays
    <3> QED
      BY <3>1, <3>3, <3>4, ReadingIs, Zenon
  <2> QED
    BY <1>1, <1>4, <2>1, <2>2, AcceptDoes, Zenon
<1>5. CASE DispatchError \/ DispatchWrite
  <2>1. PICK fd, c : net.pc = "dispatch" /\ Steps(fd, c) /\ c = clients[fd]
    BY <1>5, WriteDoes, Zenon
  <2>2. fd \in Used
    BY <2>1, StepsStay
  <2>3. ReadingOf(fd)
    BY <2>2, ReadingIs, Zenon
  <2>4. ~c.reading /\ c.in = <<>>
    BY <2>1, <2>3 DEF ReadingOf
  <2> QED
    BY <2>1, <2>4, ReadingSteps
<1>6. CASE DispatchRead
  <2>1. PICK fd \in Fds :
          /\ net.pc = "dispatch" /\ net' = [net EXCEPT !.pc = "lines", !.fd = fd]
          /\ Reads(fd) /\ clients'[fd].reading
          /\ clients'[fd].eof => /\ peers'[clients[fd].sock].wire = <<>>
                                 /\ peers'[clients[fd].sock].end # "open"
    BY <1>6, ReadDoes, Zenon
  <2>2. net'.pc = "lines" /\ net'.fd = fd
    BY <1>0, <2>1
  <2>3. clients'[fd].sock = clients[fd].sock /\ Used' = Used /\ fd \in Used
    BY <2>1, ReadsIdentity, Zenon
  <2>4. ReadingOf(fd)'
    BY <2>1, <2>2, <2>3, Zenon DEF ReadingOf
  <2>5. ASSUME NEW g \in Used, g # fd PROVE ReadingOf(g)'
    <3>1. ReadingOf(g) /\ clients'[g] = clients[g]
      BY <2>1, <2>5, UsedForm, ReadingIs, Zenon DEF Reads
    <3>2. ~clients[g].reading
      BY <2>1, <3>1, Zenon DEF ReadingOf
    <3>3. clients[g].sock # clients[fd].sock
      BY <2>3, <2>5, Zenon DEF Identified
    <3>4. peers'[clients[g].sock] = peers[clients[g].sock]
      BY <2>1, <3>3, UsedForm, Zenon DEF Reads
    <3> QED
      BY <3>1, <3>2, <3>4, ReadingStays
  <2> QED
    BY <2>3, <2>4, <2>5, ReadingIs, Zenon
<1>7. ASSUME Answered, net' = net, net.pc = "lines", clients[net.fd].reading
      PROVE  Reading'
  <2>1. PICK fd : fd = net.fd
    OBVIOUS
  <2>2. PICK d : Steps(fd, d) /\ d.reading = clients[fd].reading
    BY <1>7, <2>1, Zenon DEF Answered
  <2>3. d.reading
    BY <1>7, <2>1, <2>2
  <2> QED
    BY <1>7, <2>1, <2>2, <2>3, ReadingSteps
<1>8. CASE Replay \/ Query \/ Reject \/ LineTooLong
  <2>1. net' = net /\ net.pc = "lines" /\ \E cmds : Line(cmds)
    BY <1>8 DEF Replay, Query, Reject, LineTooLong, New, Line
  <2>2. clients[net.fd].reading
    BY <2>1, LineReading
  <2>3. CASE Answered
    BY <1>7, <2>1, <2>2, <2>3
  <2>4. CASE LineTooLong
    <3>1. PICK fd, c : fd = net.fd /\ c = clients[fd]
      OBVIOUS
    <3>2. Steps(fd, c)
      BY <2>4, <3>1, TooLongDoes, Zenon
    <3>3. c.reading
      BY <2>2, <3>1
    <3> QED
      BY <2>1, <3>1, <3>2, <3>3, ReadingSteps
  <2> QED
    BY <1>8, <2>3, <2>4, LinesEffect
<1>9. CASE TryPush
  <2>1. Line({"capture", "get_preview"})
    BY <1>9, Zenon DEF TryPush, New
  <2>2. net.pc = "lines"
    BY <2>1, Zenon DEF Line
  <2>3. clients[net.fd].reading
    BY <2>1, LineReading
  <2>4. CASE Answered /\ net' = net
    BY <1>7, <2>2, <2>3, <2>4
  <2>5. CASE Pushed
    <3>1. PICK fd : fd = net.fd
      OBVIOUS
    <3>2. /\ Reads(fd) /\ net' = [net EXCEPT !.pc = "retain", !.job = NewJob]
          /\ clients'[fd] = Rest /\ peers' = peers
      BY <2>5, <3>1, Zenon DEF Pushed
    <3>3. net'.pc = "retain" /\ net'.fd = fd
      BY <1>0, <3>1, <3>2
    <3>4. Used' = Used /\ fd \in Used
      BY <3>2, ReadsIdentity
    <3>5. /\ clients'[fd].sock = clients[fd].sock /\ clients'[fd].eof = clients[fd].eof
          /\ clients'[fd].reading = clients[fd].reading
      BY <2>1, <3>1, <3>2, LineFacts, Zenon
    <3>6. clients[fd].eof => /\ peers[clients[fd].sock].wire = <<>>
                             /\ peers[clients[fd].sock].end # "open"
      BY <3>4, Zenon DEF Reading
    <3>7. ReadingOf(fd)'
      BY <2>3, <3>1, <3>2, <3>3, <3>5, <3>6, Zenon DEF ReadingOf
    <3>8. ASSUME NEW g \in Used, g # fd PROVE ReadingOf(g)'
      <4>1. ReadingOf(g) /\ clients'[g] = clients[g]
        BY <3>2, <3>8, UsedForm, ReadingIs, Zenon DEF Reads
      <4>2. ~clients[g].reading
        BY <3>1, <3>8, <4>1, Zenon DEF ReadingOf
      <4> QED
        BY <3>2, <4>1, <4>2, ReadingStays
    <3> QED
      BY <3>4, <3>7, <3>8, ReadingIs, Zenon
  <2> QED
    BY <1>9, <2>4, <2>5, TryPushDoes, Zenon
<1>10. ASSUME NEW fd, NEW d, Steps(fd, d), d.in = clients[fd].in,
              d.reading = clients[fd].reading,
              \/ net'.pc \in {"lines", "retain"} /\ net'.fd = net.fd
              \/ net.pc \notin {"lines", "retain"},
              net.pc \notin {"lines", "retain"} \/ net.fd = fd
       PROVE  Reading'
  <2>1. ReadingOf(fd)
    BY <1>10, StepsStay, ReadingIs, Zenon
  <2>2. /\ d.reading => net'.pc \in {"lines", "retain"} /\ net'.fd = fd
        /\ ~d.reading => d.in = <<>>
    BY <1>10, <2>1, Zenon DEF ReadingOf
  <2> QED
    BY <1>10, <2>2, ReadingSteps
<1>11. CASE Retain
  <2>1. net.pc = "retain" /\ net'.pc = "lines" /\ net'.fd = net.fd
    BY <1>0, <1>11 DEF Retain
  <2>2. PICK fd, d : /\ fd = net.fd /\ Steps(fd, d) /\ d.in = clients[fd].in
                     /\ d.reading = clients[fd].reading
    BY <1>11, RetainDoes, Zenon
  <2> QED
    BY <1>10, <2>1, <2>2
<1>12. CASE LinesDone
  <2>1. CASE clients' = clients /\ peers' = peers /\ next' = next /\ net.fd \notin Used
    BY <1>1, <2>1, QuietKept
  <2>2. CASE \E c \in Form : Steps(net.fd, c) /\ c.in = <<>> /\ c.reading = FALSE
    <3>1. PICK fd, c : fd = net.fd /\ Steps(fd, c) /\ c.in = <<>> /\ c.reading = FALSE
      BY <2>2
    <3> QED
      BY <3>1, ReadingSteps
  <2> QED
    BY <1>12, <2>1, <2>2, DoneDoes, Zenon
<1>13. CASE RunFunctor \/ Release
  <2>1. net.pc \notin {"lines", "retain"}
    BY <1>13 DEF RunFunctor, Release
  <2>2. CASE clients' = clients /\ peers' = peers /\ next' = next
    BY <1>1, <2>1, <2>2, QuietKept
  <2>3. CASE \E fd \in Used, d \in Form :
               /\ Steps(fd, d) /\ d.in = clients[fd].in /\ d.reading = clients[fd].reading
    BY <1>10, <2>1, <2>3, Zenon
  <2> QED
    BY <1>13, <2>2, <2>3, FunctorDoes, ReleaseDoes, Zenon
<1> QED
  BY <1>2, <1>3, <1>4, <1>5, <1>6, <1>8, <1>9, <1>11, <1>12, <1>13, Cases

-------------------------------------------------------------------------------
(* What is stored. *)

\* Every reply in the cache was there, or speaks of no job, or of job n of socket s.
Caches(s, n) ==
  \A k \in DOMAIN replies' :
    \/ k \in DOMAIN replies /\ replies'[k] = replies[k]
    \/ replies'[k].job = 0
    \/ replies'[k].job = n /\ k[1] = s

LEMMA StoreCaches ==
  ASSUME Shaped, Cached, NEW key \in CacheKeys, NEW reply, OwnReply(key, reply),
         next' = next, Store(key, reply) \/ UNCHANGED store
  PROVE  Cached' /\ Caches(key[1], reply.job)
<1>1. next \in Nat /\ next' \in Nat /\ next <= next'
  BY DEF Shaped
<1>2. CASE Store(key, reply)
  <2>1. Cached' /\ Stores(key, reply)
    BY <1>1, <1>2, StoreKeeps
  <2> QED
    BY <2>1, Zenon DEF Stores, Caches
<1>3. CASE UNCHANGED store
  <2>1. Cached'
    BY <1>1, <1>3, CacheKept
  <2>2. replies' = replies
    BY <1>3 DEF store
  <2> QED
    BY <2>1, <2>2, Zenon DEF Caches
<1> QED
  BY <1>2, <1>3

LEMMA JobCaches ==
  ASSUME Shaped, Cached, NEW job \in Given, NEW status \in {"completed", "accepted", "error"},
         next' = next, StoreFor(job, status)
  PROVE  Cached' /\ Caches(job.sock, job.n)
<1>1. PICK key, reply : key = <<job.conn, job.id>> /\ reply = Reply(job, status)
  OBVIOUS
<1>2. /\ key \in CacheKeys /\ OwnReply(key, reply) /\ reply.job = job.n /\ key[1] = job.sock
  BY <1>1, JobReply, JobFacts
<1>3. Store(key, reply) \/ UNCHANGED store
  BY <1>1, Zenon DEF StoreFor
<1>4. Cached' /\ Caches(key[1], reply.job)
  BY <1>2, <1>3, StoreCaches
<1> QED
  BY <1>2, <1>4, Zenon

LEMMA CachedKept ==
  ASSUME Shaped, Identified, Placed, Cached, Next, next' \in {next, next + 1}
  PROVE  /\ Cached'
         /\ \/ Caches(0, 0)
            \/ Retain /\ Caches(net.job.sock, net.job.n)
            \/ RunFunctor /\ Caches(Head(batch).sock, Head(batch).n)
<1>1. ASSUME UNCHANGED store PROVE Cached' /\ Caches(0, 0)
  <2>1. next \in Nat /\ next' \in Nat /\ next <= next'
    BY DEF Shaped
  <2>2. replies' = replies
    BY <1>1 DEF store
  <2> QED
    BY <1>1, <2>1, <2>2, CacheKept DEF Caches
<1>2. CASE Poll \/ DispatchListen \/ AcceptTooMany \/ Accept \/ AcceptDone \/ DispatchError
             \/ DispatchRead \/ DispatchWrite \/ Swap \/ FunctorsDone
  <2>1. UNCHANGED store
    BY <1>2 DEF Poll, DispatchListen, AcceptTooMany, Accept, AcceptFrame, AcceptDone, DispatchError,
                DispatchRead, DispatchWrite, Swap, FunctorsDone, LoopFrame
  <2> QED
    BY <1>1, <2>1
<1>3. CASE LineTooLong \/ Replay \/ Reject \/ LinesDone \/ Release \/ IoTake \/ IoPost
             \/ Connect \/ PeerStep
  <2>1. UNCHANGED store
    BY <1>3 DEF LineTooLong, Replay, Reject, LinesDone, Release, IoTake, IoPost, IoFrame, Connect,
                PeerStep, PeerSend, PeerEnds, PeerStalls, PeerFrame
  <2> QED
    BY <1>1, <2>1
<1>4. ASSUME NEW cmds, Line(cmds), NEW status \in {"completed", "accepted", "error"}, next' = next,
             Store(Key, Answer(status, 0))
      PROVE  Cached' /\ Caches(0, 0)
  <2>1. PICK key, reply : key = Key /\ reply = Answer(status, 0)
    OBVIOUS
  <2>2. key \in CacheKeys /\ OwnReply(key, reply) /\ reply.job = 0 /\ Store(key, reply)
    BY <1>4, <2>1, LineFacts, AnswerMay, Zenon
  <2>3. Cached' /\ Caches(key[1], reply.job)
    BY <1>4, <2>2, StoreCaches
  <2> QED
    BY <2>2, <2>3, Zenon DEF Caches
<1>5. CASE Query
  <2>1. Line({"query"}) /\ next' = next /\ Store(Key, Answer("completed", 0))
    BY <1>5, Zenon DEF Query, New, CommandFrame
  <2> QED
    BY <1>4, <2>1
<1>6. CASE TryPush
  <2>1. Line({"capture", "get_preview"}) /\ next' = next
    BY <1>6, Zenon DEF TryPush, New, CommandFrame
  <2>2. UNCHANGED store \/ Store(Key, Answer("error", 0))
    BY <1>6 DEF TryPush
  <2> QED
    BY <1>1, <1>4, <2>1, <2>2
<1>7. CASE Retain
  <2>1. next' = next /\ StoreFor(net.job, "accepted") /\ net.job \in Given
    BY <1>7, RetainDoes, Zenon DEF Retain, CommandFrame
  <2>2. PICK job : job = net.job
    OBVIOUS
  <2>3. Cached' /\ Caches(job.sock, job.n)
    BY <2>1, <2>2, JobCaches
  <2> QED
    BY <1>7, <2>2, <2>3, Zenon
<1>8. CASE RunFunctor
  <2>1. PICK job : job = Head(batch)
    OBVIOUS
  <2>2. next' = next /\ StoreFor(job, "completed") /\ batch # <<>>
    BY <1>8, <2>1, Zenon DEF RunFunctor
  <2>3. job \in Given
    BY <2>1, <2>2, ItemsOfTail DEF Shaped
  <2>4. Cached' /\ Caches(job.sock, job.n)
    BY <2>2, <2>3, JobCaches
  <2> QED
    BY <1>8, <2>1, <2>4, Zenon
<1> QED
  BY <1>2, <1>3, <1>5, <1>6, <1>7, <1>8, Zenon
     DEF Next, Network, Io, Peers, PeerStep, Sockets

-------------------------------------------------------------------------------
(* The way of a job. *)

\* What a step does with the jobs that are on their way.
Stands == WorkStays /\ Released' = Released
Pushes == /\ Pushed /\ UNCHANGED <<io, functors, batch>>
          /\ Line({"capture", "get_preview"}) /\ next' = next
Swaps == /\ batch = <<>> /\ batch' = functors /\ functors' = <<>> /\ Released = {} /\ Released' = {}
         /\ UNCHANGED <<snapshots, io, jobs>>
Takes == /\ io = NoJob /\ snapshots # <<>> /\ io' = Head(snapshots) /\ snapshots' = Tail(snapshots)
         /\ Released' = Released /\ UNCHANGED <<functors, batch, jobs>>
Posts == /\ io # NoJob /\ functors' = Append(functors, io) /\ io' = NoJob
         /\ Released' = Released /\ UNCHANGED <<snapshots, batch, jobs>>
Starts == /\ RunFunctor /\ batch # <<>> /\ batch' = Tail(batch)
          /\ Released = {} /\ Released' = {Head(batch)}
          /\ UNCHANGED <<snapshots, io, functors, jobs>>
Ends == Release /\ WorkStays /\ Released = {net.job} /\ Released' = {}

LEMMA Flow ==
  ASSUME Shaped, Identified, Placed, Next
  PROVE  Stands \/ Pushes \/ Swaps \/ Takes \/ Posts \/ Starts \/ Ends
<1>0. net \in [pc : Pcs, fd : Fds \cup {0}, job : Given \cup {NoJob}]
  BY Zenon DEF Shaped
<1>1. CASE Poll \/ DispatchListen \/ AcceptDone \/ FunctorsDone \/ LinesDone \/ Retain
  <2>1. WorkStays
    BY <1>1 DEF Poll, DispatchListen, AcceptDone, FunctorsDone, LinesDone, Retain, CommandFrame,
                WorkStays, LoopFrame, work
  <2>2. net.pc # "release" /\ net'.pc # "release"
    BY <1>0, <1>1 DEF Poll, DispatchListen, Dispatch, AcceptDone, FunctorsDone, LinesDone, Retain,
                      NetTo
  <2> QED
    BY <2>1, <2>2 DEF Released, Stands
<1>2. CASE AcceptTooMany \/ Accept \/ Connect \/ PeerStep
  <2>1. WorkStays /\ net' = net
    BY <1>2 DEF AcceptTooMany, Accept, AcceptFrame, Connect, PeerStep, PeerSend, PeerEnds,
                PeerStalls, PeerFrame, WorkStays, LoopFrame, work
  <2> QED
    BY <2>1 DEF Released, Stands
<1>3. CASE DispatchError \/ DispatchWrite \/ LineTooLong \/ Replay \/ Query \/ Reject
  <2>1. WorkStays /\ net' = net
    BY <1>3 DEF DispatchError, DispatchWrite, LineTooLong, Replay, Query, Reject, CommandFrame,
                WorkStays, LoopFrame, work
  <2> QED
    BY <2>1 DEF Released, Stands
<1>4. CASE DispatchRead
  <2>1. WorkStays /\ net.pc = "dispatch"
    BY <1>4 DEF DispatchRead, ClientEvent, Dispatch, WorkStays, LoopFrame, work
  <2>2. net'.pc # "release"
    BY <1>0, <1>4 DEF DispatchRead
  <2> QED
    BY <2>1, <2>2 DEF Released, Stands
<1>5. CASE TryPush
  <2>1. UNCHANGED <<next, functors, batch, io>>
    BY <1>5, TryPushDoes
  <2>2. Line({"capture", "get_preview"})
    BY <1>5, Zenon DEF TryPush, New
  <2>3. CASE snapshots' = snapshots /\ jobs' = jobs /\ net' = net
    BY <2>1, <2>3 DEF WorkStays, Stands, Released
  <2>4. CASE Pushed
    BY <2>1, <2>2, <2>4, Zenon DEF Pushes
  <2> QED
    BY <1>5, <2>3, <2>4, TryPushDoes, Zenon
<1>6. CASE Swap
  <2>1. /\ batch' = functors /\ functors' = <<>> /\ UNCHANGED <<snapshots, io, jobs>>
        /\ net.pc = "dispatch" /\ net'.pc = "tasks"
    BY <1>0, <1>6 DEF Swap, NetTo, LoopFrame, work
  <2>2. batch = <<>>
    BY <2>1, Zenon DEF Placed
  <2> QED
    BY <2>1, <2>2 DEF Swaps, Released
<1>7. CASE IoTake
  BY <1>7 DEF IoTake, IoFrame, Takes, Released
<1>8. CASE IoPost
  BY <1>8 DEF IoPost, IoFrame, Posts, Released
<1>9. CASE RunFunctor
  <2>1. /\ batch # <<>> /\ batch' = Tail(batch) /\ net.pc = "tasks"
        /\ net'.pc = "release" /\ net'.job = Head(batch)
        /\ UNCHANGED <<functors, snapshots, io, jobs>>
    BY <1>0, <1>9 DEF RunFunctor, work
  <2> QED
    BY <1>9, <2>1 DEF Starts, Released
<1>10. CASE Release
  <2>1. WorkStays /\ net.pc = "release" /\ net'.pc = "tasks"
    BY <1>0, <1>10 DEF Release, WorkStays, work
  <2> QED
    BY <1>10, <2>1 DEF Ends, Released
<1> QED
  BY <1>1, <1>2, <1>3, <1>4, <1>5, <1>6, <1>7, <1>8, <1>9, <1>10, Zenon
     DEF Next, Network, Io, Peers, PeerStep, Sockets

LEMMA Holders ==
  ASSUME Shaped
  PROVE  /\ ToSet(batch) \subseteq Given /\ ToSet(functors) \subseteq Given
         /\ ToSet(snapshots) \subseteq Given /\ Busy \subseteq Given /\ Released \subseteq Given \cup {NoJob}
         /\ (Placed => Released \subseteq Given)
<1>1. /\ ToSet(batch) \subseteq Given /\ ToSet(functors) \subseteq Given
      /\ ToSet(snapshots) \subseteq Given /\ io \in Given \cup {NoJob}
      /\ net.job \in Given \cup {NoJob}
  BY ItemsOf DEF Shaped
<1>2. Busy \subseteq Given
  BY <1>1 DEF Busy
<1>3. Released \subseteq Given \cup {NoJob}
  BY <1>1 DEF Released
<1>4. Placed => Released \subseteq Given
  BY <1>1 DEF Released, Placed
<1> QED
  BY <1>1, <1>2, <1>3, <1>4

\* The jobs on their way: one more when it is pushed, one less when it is released.
LEMMA PoolMoves ==
  ASSUME Shaped, Identified, Placed, Next
  PROVE  \/ Pool' = Pool /\ jobs' = jobs /\ (Waiting' = Waiting \/ RunFunctor)
         \/ Pushes /\ Waiting' = Waiting \cup {NewJob} /\ Pool' = Pool \cup {NewJob}
         \/ Ends /\ Waiting' = Waiting /\ Pool = Waiting \cup {net.job} /\ Pool' = Waiting
<1>0. /\ batch \in Seq(Given) /\ functors \in Seq(Given) /\ snapshots \in Seq(Given)
      /\ io \in Given \cup {NoJob} /\ NoJob \notin Given
  BY JobFacts DEF Shaped
<1>1. CASE Stands
  BY <1>1 DEF Stands, WorkStays, Waiting, Busy, Pool
<1>2. CASE Pushes
  <2>1. /\ snapshots' = Append(snapshots, NewJob) /\ UNCHANGED <<io, functors, batch>>
        /\ net' = [net EXCEPT !.pc = "retain", !.job = NewJob]
        /\ Line({"capture", "get_preview"}) /\ next' = next /\ jobs' = jobs + 1
    BY <1>2, Zenon DEF Pushes, Pushed
  <2>2. NewJob \in Given'
    BY <2>1, NewJobGiven
  <2>3. Given \subseteq Given'
    BY <2>1, GivenGrows DEF Shaped
  <2>4. snapshots \in Seq(Given')
    BY <1>0, <2>3, SeqWider
  <2>5. ToSet(snapshots') = ToSet(snapshots) \cup {NewJob}
    BY <2>1, <2>2, <2>4, ItemsOfAppend
  <2>6. Waiting' = Waiting \cup {NewJob}
    BY <2>1, <2>5 DEF Waiting, Busy
  <2>7. net.pc = "lines" /\ net'.pc = "retain"
    BY <2>1 DEF Line, Shaped
  <2> QED
    BY <1>2, <2>6, <2>7 DEF Pool, Released
<1>3. CASE Swaps
  <2>1. Waiting' = Waiting
    BY <1>3, NoItems DEF Swaps, Waiting, Busy
  <2> QED
    BY <1>3, <2>1 DEF Swaps, Pool
<1>4. CASE Takes
  <2>1. ToSet(snapshots) = {Head(snapshots)} \cup ToSet(Tail(snapshots))
        /\ Head(snapshots) \in Given
    BY <1>0, <1>4, ItemsOfTail DEF Takes
  <2>2. Busy = {} /\ Busy' = {Head(snapshots)}
    BY <1>0, <1>4, <2>1 DEF Takes, Busy
  <2>3. Waiting' = Waiting
    BY <1>4, <2>1, <2>2 DEF Takes, Waiting
  <2> QED
    BY <1>4, <2>3 DEF Takes, Pool
<1>5. CASE Posts
  <2>1. ToSet(functors') = ToSet(functors) \cup {io}
    BY <1>0, <1>5, ItemsOfAppend DEF Posts
  <2>2. Busy = {io} /\ Busy' = {}
    BY <1>5 DEF Posts, Busy
  <2>3. Waiting' = Waiting
    BY <1>5, <2>1, <2>2 DEF Posts, Waiting
  <2> QED
    BY <1>5, <2>3 DEF Posts, Pool
<1>6. CASE Starts
  <2>1. ToSet(batch) = {Head(batch)} \cup ToSet(batch')
    BY <1>0, <1>6, ItemsOfTail DEF Starts
  <2>2. Waiting = Waiting' \cup {Head(batch)}
    BY <1>6, <2>1 DEF Starts, Waiting, Busy
  <2> QED
    BY <1>6, <2>2 DEF Starts, Pool
<1>7. CASE Ends
  <2>1. Waiting' = Waiting
    BY <1>7 DEF Ends, WorkStays, Waiting, Busy
  <2> QED
    BY <1>7, <2>1 DEF Ends, Pool
<1> QED
  BY <1>1, <1>2, <1>3, <1>4, <1>5, <1>6, <1>7, Flow

LEMMA BelowSets ==
  /\ \A S : Below({}, S) /\ Below(S, {})
  /\ \A S, T, U : Below(S, T \cup U) <=> Below(S, T) /\ Below(S, U)
  /\ \A S, T, U : Below(S \cup T, U) <=> Below(S, U) /\ Below(T, U)
BY Zenon DEF Below

LEMMA OrderedTail ==
  ASSUME NEW s \in Seq(Given), s # <<>>, Ordered(s)
  PROVE  /\ Ordered(Tail(s)) /\ Below({Head(s)}, ToSet(Tail(s)))
         /\ ToSet(s) = {Head(s)} \cup ToSet(Tail(s))
<1>1. PICK t, h : t = Tail(s) /\ h = Head(s)
  OBVIOUS
<1>2. /\ t \in Seq(Given) /\ ToSet(s) = {h} \cup ToSet(t)
      /\ Len(t) = Len(s) - 1 /\ Len(s) \in Nat \ {0} /\ h = s[1]
      /\ \A i \in 1..Len(s) - 1 : t[i] = s[i + 1]
  BY <1>1, ItemsOfTail
<1>3. DOMAIN s = 1..Len(s) /\ DOMAIN t = 1..Len(s) - 1
      /\ ToSet(t) = {t[i] : i \in 1..Len(s) - 1}
  BY <1>2, ItemsOf
<1>4. ASSUME NEW i \in 1..Len(s) - 1
      PROVE  /\ i + 1 \in DOMAIN s /\ 1 \in DOMAIN s /\ 1 < i + 1 /\ t[i] = s[i + 1]
  BY <1>2, <1>3
<1>5. ASSUME NEW i \in DOMAIN t, NEW j \in DOMAIN t, i < j PROVE t[i].n < t[j].n
  <2>1. i + 1 < j + 1
    BY <1>2, <1>3, <1>5
  <2>2. s[i + 1].n < s[j + 1].n
    BY <1>3, <1>4, <2>1, Zenon DEF Ordered
  <2> QED
    BY <1>3, <1>4, <2>2
<1>6. ASSUME NEW i \in 1..Len(s) - 1 PROVE h.n < t[i].n
  <2>1. s[1].n < s[i + 1].n
    BY <1>4, Zenon DEF Ordered
  <2> QED
    BY <1>2, <1>4, <2>1
<1>7. Below({h}, ToSet(t))
  BY <1>3, <1>6 DEF Below
<1> QED
  BY <1>1, <1>2, <1>5, <1>7, Zenon DEF Ordered

LEMMA OrderedAppend ==
  ASSUME NEW s \in Seq(Given), NEW x, Ordered(s), Below(ToSet(s), {x})
  PROVE  Ordered(Append(s, x))
<1>1. PICK p : p = Append(s, x)
  OBVIOUS
<1>2. /\ Len(s) \in Nat /\ DOMAIN s = 1..Len(s) /\ DOMAIN p = 1..Len(s) + 1
      /\ \A i \in 1..Len(s) : p[i] = s[i]
      /\ p[Len(s) + 1] = x
  BY <1>1
<1>3. \A i \in 1..Len(s) : s[i].n < x.n
  <2>1. \A i \in 1..Len(s) : s[i] \in ToSet(s)
    BY <1>2, ItemsOf
  <2> QED
    BY <2>1, Zenon DEF Below
<1>4. ASSUME NEW i \in DOMAIN p, NEW j \in DOMAIN p, i < j PROVE p[i].n < p[j].n
  <2>1. CASE j \in 1..Len(s)
    <3>1. i \in 1..Len(s)
      BY <1>2, <1>4, <2>1
    <3>2. s[i].n < s[j].n
      BY <1>2, <1>4, <2>1, <3>1, Zenon DEF Ordered
    <3> QED
      BY <1>2, <2>1, <3>1, <3>2
  <2>2. CASE j \notin 1..Len(s)
    <3>1. j = Len(s) + 1 /\ i \in 1..Len(s)
      BY <1>2, <1>4, <2>2
    <3> QED
      BY <1>2, <1>3, <3>1
  <2> QED
    BY <2>1, <2>2
<1> QED
  BY <1>1, <1>4, Zenon DEF Ordered

LEMMA InTurnKept ==
  ASSUME Shaped, Identified, Placed, InTurn, Next
  PROVE  InTurn'
<1>0. /\ batch \in Seq(Given) /\ functors \in Seq(Given) /\ snapshots \in Seq(Given)
      /\ io \in Given \cup {NoJob} /\ NoJob \notin Given
  BY JobFacts DEF Shaped
<1>1. PICK R, B, F, I, S : /\ R = Released /\ B = ToSet(batch) /\ F = ToSet(functors)
                           /\ I = Busy /\ S = ToSet(snapshots)
  OBVIOUS
<1>2. Ordered(batch) /\ Ordered(functors) /\ Ordered(snapshots) /\ Turns(R, B, F, I, S)
  BY <1>1 DEF InTurn
<1>3. /\ InTurn' <=> /\ Ordered(batch') /\ Ordered(functors') /\ Ordered(snapshots')
                     /\ Turns(Released', ToSet(batch'), ToSet(functors'), Busy', ToSet(snapshots'))
  BY DEF InTurn
<1>4. CASE Stands \/ Ends
  <2>1. /\ batch' = batch /\ functors' = functors /\ snapshots' = snapshots /\ Busy' = I
        /\ Released' = R \/ Released' = {}
    BY <1>1, <1>4 DEF Stands, Ends, WorkStays, Busy
  <2>2. Turns({}, B, F, I, S)
    BY <1>2, BelowSets, Zenon DEF Turns
  <2> QED
    BY <1>1, <1>2, <1>3, <2>1, <2>2
<1>5. CASE Pushes
  <2>1. /\ snapshots' = Append(snapshots, NewJob) /\ UNCHANGED <<io, functors, batch>>
        /\ net' = [net EXCEPT !.pc = "retain", !.job = NewJob]
        /\ Line({"capture", "get_preview"}) /\ next' = next /\ jobs' = jobs + 1
    BY <1>5, Zenon DEF Pushes, Pushed
  <2>2. NewJob \in Given' /\ NewJob.n = jobs + 1
    BY <2>1, NewJobGiven
  <2>3. Given \subseteq Given'
    BY <2>1, GivenGrows DEF Shaped
  <2>4. snapshots \in Seq(Given')
    BY <1>0, <2>3, SeqWider
  <2>5. ToSet(snapshots') = S \cup {NewJob}
    BY <1>1, <2>1, <2>2, <2>4, ItemsOfAppend
  <2>6. \A X \in SUBSET Given : Below(X, {NewJob})
    <3>1. ASSUME NEW j \in Given PROVE j.n < NewJob.n
      <4>1. j.n \in Nat /\ j.n <= jobs /\ jobs \in Nat
        BY JobFacts DEF Shaped
      <4> QED
        BY <2>2, <4>1
    <3> QED
      BY <3>1 DEF Below
  <2>7. R \in SUBSET Given /\ B \in SUBSET Given /\ F \in SUBSET Given /\ I \in SUBSET Given
        /\ S \in SUBSET Given
    BY <1>1, Holders
  <2>8. Turns(R, B, F, I, S \cup {NewJob})
    BY <1>2, <2>6, <2>7, BelowSets, Zenon DEF Turns
  <2>9. Ordered(snapshots')
    BY <1>0, <1>1, <1>2, <2>1, <2>6, <2>7, OrderedAppend
  <2>10. net.pc = "lines" /\ net'.pc = "retain"
    BY <2>1 DEF Line, Shaped
  <2>11. Released' = R /\ Busy' = I
    BY <1>1, <2>1, <2>10 DEF Released, Busy
  <2> QED
    BY <1>1, <1>2, <1>3, <2>1, <2>5, <2>8, <2>9, <2>11
<1>6. CASE Swaps
  <2>1. /\ Ordered(<<>>) /\ ToSet(<<>>) = {} /\ Busy' = I /\ Released' = {} /\ functors' = <<>>
        /\ batch' = functors /\ snapshots' = snapshots
    BY <1>1, <1>6, NoItems DEF Swaps, Ordered, Busy
  <2>2. Turns({}, F, {}, I, S)
    BY <1>2, BelowSets, Zenon DEF Turns
  <2> QED
    BY <1>1, <1>2, <1>3, <2>1, <2>2
<1>7. CASE Takes
  <2>1. PICK h, t : h = Head(snapshots) /\ t = Tail(snapshots)
    OBVIOUS
  <2>2. /\ io = NoJob /\ snapshots # <<>> /\ io' = h /\ snapshots' = t
        /\ Released' = Released /\ UNCHANGED <<functors, batch>>
    BY <1>7, <2>1 DEF Takes
  <2>3. Ordered(t) /\ Below({h}, ToSet(t)) /\ S = {h} \cup ToSet(t)
    BY <1>0, <1>1, <1>2, <2>1, <2>2, OrderedTail
  <2>4. h \in Given
    BY <1>0, <2>1, <2>2, ItemsOfTail
  <2>5. Busy' = {h}
    BY <1>0, <2>2, <2>4 DEF Busy
  <2>6. Turns(R, B, F, {h}, ToSet(t))
    BY <1>2, <2>3, BelowSets, Zenon DEF Turns
  <2> QED
    BY <1>1, <1>2, <1>3, <2>2, <2>3, <2>5, <2>6
<1>8. CASE Posts
  <2>1. PICK j : j = io
    OBVIOUS
  <2>2. /\ j \in Given /\ functors' = Append(functors, j) /\ io' = NoJob
        /\ Released' = Released /\ UNCHANGED <<snapshots, batch>>
    BY <1>0, <1>8, <2>1 DEF Posts
  <2>3. I = {j} /\ Busy' = {}
    BY <1>0, <1>1, <2>1, <2>2 DEF Busy
  <2>4. ToSet(functors') = F \cup {j}
    BY <1>0, <1>1, <2>2, ItemsOfAppend
  <2>5. Ordered(functors')
    <3>1. Below(F, {j})
      BY <1>2, <2>3 DEF Turns
    <3> QED
      BY <1>0, <1>1, <1>2, <2>2, <3>1, OrderedAppend
  <2>6. Turns(R, B, F \cup {j}, {}, S)
    BY <1>2, <2>3, BelowSets DEF Turns
  <2> QED
    BY <1>1, <1>2, <1>3, <2>2, <2>3, <2>4, <2>5, <2>6
<1>9. CASE Starts
  <2>1. PICK h, t : h = Head(batch) /\ t = Tail(batch)
    OBVIOUS
  <2>2. /\ batch # <<>> /\ batch' = t /\ Released' = {h}
        /\ UNCHANGED <<snapshots, io, functors>>
    BY <1>9, <2>1 DEF Starts
  <2>3. Ordered(t) /\ Below({h}, ToSet(t)) /\ B = {h} \cup ToSet(t)
    BY <1>0, <1>1, <1>2, <2>1, <2>2, OrderedTail
  <2>4. Busy' = I
    BY <1>1, <2>2 DEF Busy
  <2>5. Turns({h}, ToSet(t), F, I, S)
    BY <1>2, <2>3, BelowSets, Zenon DEF Turns
  <2> QED
    BY <1>1, <1>2, <1>3, <2>2, <2>3, <2>4, <2>5
<1> QED
  BY <1>4, <1>5, <1>6, <1>7, <1>8, <1>9, Flow

-------------------------------------------------------------------------------
(* Where the network thread is. *)

LEMMA WaitingStays ==
  ASSUME Shaped, Identified, Placed, Next, net' = net \/ net.pc # "tasks"
  PROVE  Waiting \subseteq Waiting'
<1>1. RunFunctor => net.pc = "tasks" /\ net'.pc = "release"
  BY DEF RunFunctor, Shaped
<1>2. ~RunFunctor
  BY <1>1
<1> QED
  BY <1>2, PoolMoves, Zenon

LEMMA PlacedStays ==
  ASSUME Shaped, Identified, Placed, Next, net' = net, batch' = batch,
         net.pc = "retain" =>
           \A g \in Used : g \in Used' /\ clients'[g].sock = clients[g].sock
  PROVE  Placed'
<1>1. Waiting \subseteq Waiting'
  BY WaitingStays
<1>2. net.pc = "retain" => net'.fd \in Used' /\ clients'[net'.fd].sock = net'.job.sock
                           /\ net'.job \in Waiting'
  BY <1>1, Zenon DEF Placed
<1> QED
  BY <1>2, Zenon DEF Placed

LEMMA PlacedMoves ==
  ASSUME Placed, batch' = batch \/ batch' = <<>> \/ net'.pc \in {"tasks", "release"},
         batch # <<>> => net'.pc \in {"tasks", "release"},
         net'.pc \in {"lines", "retain"} => net'.fd \in Fds,
         (net'.pc \in {"retain", "release"}) <=> (net'.job # NoJob),
         net'.pc = "retain" => net'.fd \in Used' /\ clients'[net'.fd].sock = net'.job.sock
                               /\ net'.job \in Waiting'
  PROVE  Placed'
BY Zenon DEF Placed

LEMMA PlacedKept ==
  ASSUME Shaped, Identified, Watching, Placed, Reading, Cached, Promised, Next
  PROVE  Placed'
<1>0. net \in [pc : Pcs, fd : Fds \cup {0}, job : Given \cup {NoJob}] /\ NoJob \notin Given
  BY JobFacts, Zenon DEF Shaped
<1>1. CASE AcceptTooMany \/ IoTake \/ IoPost \/ Connect \/ PeerStep
  <2>1. net' = net /\ batch' = batch /\ clients' = clients
    BY <1>1 DEF AcceptTooMany, AcceptFrame, IoTake, IoPost, IoFrame, Connect, PeerStep,
                PeerSend, PeerEnds, PeerStalls, PeerFrame
  <2>2. \A g \in Used : g \in Used' /\ clients'[g].sock = clients[g].sock
    BY <2>1 DEF Used
  <2> QED
    BY <2>1, <2>2, PlacedStays
<1>2. CASE Accept \/ DispatchError \/ DispatchWrite
  <2>1. net' = net /\ batch' = batch /\ net.pc # "retain"
    BY <1>2 DEF Accept, AcceptFrame, DispatchError, DispatchWrite, ClientEvent, Dispatch
  <2> QED
    BY <2>1, PlacedStays
<1>3. CASE Replay \/ Query \/ Reject \/ LineTooLong
  <2>1. net' = net /\ batch' = batch /\ net.pc # "retain"
    BY <1>3 DEF Replay, Query, Reject, LineTooLong, New, Line, CommandFrame
  <2> QED
    BY <2>1, PlacedStays
<1>4. CASE Poll \/ DispatchListen \/ AcceptDone \/ FunctorsDone
  <2>1. /\ batch' = batch /\ net.pc \notin {"retain", "release"}
        /\ net'.pc \in {"dispatch", "accept", "poll"} /\ net'.job = net.job
        /\ (net.pc = "tasks" => batch = <<>>)
    BY <1>0, <1>4 DEF Poll, DispatchListen, Dispatch, AcceptDone, FunctorsDone, NetTo
  <2>2. batch = <<>> /\ net.job = NoJob
    BY <2>1, Zenon DEF Placed
  <2> QED
    BY <2>1, <2>2, PlacedMoves
<1>5. CASE DispatchRead
  <2>1. PICK fd \in Fds :
          net.pc = "dispatch" /\ net' = [net EXCEPT !.pc = "lines", !.fd = fd]
    BY <1>5, ReadDoes, Zenon
  <2>2. batch' = batch
    BY <1>5 DEF DispatchRead
  <2>3. net'.pc = "lines" /\ net'.fd = fd /\ net'.job = net.job
    BY <1>0, <2>1
  <2>4. batch = <<>> /\ net.job = NoJob
    BY <2>1, Zenon DEF Placed
  <2> QED
    BY <2>2, <2>3, <2>4, PlacedMoves
<1>6. CASE TryPush
  <2>1. net.pc = "lines" /\ batch' = batch
    BY <1>6, TryPushDoes, Zenon DEF TryPush, New, Line
  <2>2. CASE net' = net
    BY <2>1, <2>2, PlacedStays
  <2>3. CASE Pushed
    <3>1. Pushes
      BY <1>6, <2>3, TryPushDoes, Zenon DEF Pushes, TryPush, New
    <3>2. /\ Line({"capture", "get_preview"}) /\ next' = next /\ jobs' = jobs + 1
          /\ Reads(net.fd) /\ net' = [net EXCEPT !.pc = "retain", !.job = NewJob]
      BY <3>1, Zenon DEF Pushes, Pushed
    <3>3. net'.pc = "retain" /\ net'.fd = net.fd /\ net'.job = NewJob
      BY <1>0, <3>2
    <3>4. NewJob.sock = clients[net.fd].sock /\ NewJob # NoJob
      BY <3>2, NewJobGiven
    <3>5. Used' = Used /\ net.fd \in Used /\ clients'[net.fd].sock = clients[net.fd].sock
      BY <3>2, ReadsIdentity, Zenon
    <3>6. NewJob \in Waiting'
      <4>1. Given \subseteq Given' /\ NewJob \in Given'
        BY <3>2, GivenGrows, NewJobGiven DEF Shaped
      <4>2. snapshots \in Seq(Given')
        BY <4>1, SeqWider DEF Shaped
      <4>3. snapshots' = Append(snapshots, NewJob)
        BY <2>3, Zenon DEF Pushed
      <4>4. NewJob \in ToSet(snapshots')
        BY <4>1, <4>2, <4>3, ItemsOfAppend
      <4> QED
        BY <4>4, Zenon DEF Waiting
    <3>7. batch = <<>> /\ net.fd \in Fds
      BY <2>1, Zenon DEF Placed
    <3> QED
      BY <2>1, <3>3, <3>4, <3>5, <3>6, <3>7, PlacedMoves
  <2> QED
    BY <1>6, <2>2, <2>3, TryPushDoes, Zenon
<1>7. CASE Retain \/ LinesDone
  <2>1. /\ net.pc \in {"retain", "lines"} /\ batch' = batch
        /\ net'.pc \in {"lines", "dispatch"} /\ (net'.pc = "lines" => net'.fd = net.fd)
        /\ (net.pc = "retain" => net'.job = NoJob) /\ (net.pc = "lines" => net'.job = net.job)
    BY <1>0, <1>7 DEF Retain, LinesDone, CommandFrame
  <2>2. batch = <<>> /\ net.fd \in Fds /\ (net.pc = "lines" => net.job = NoJob)
    BY <2>1, Zenon DEF Placed
  <2> QED
    BY <2>1, <2>2, PlacedMoves
<1>8. CASE Swap \/ Release
  <2>1. /\ net.pc \in {"dispatch", "release"} /\ net'.pc = "tasks"
        /\ (net.pc = "release" => net'.job = NoJob) /\ (net.pc = "dispatch" => net'.job = net.job)
    BY <1>0, <1>8 DEF Swap, Release, NetTo
  <2>2. net.pc = "dispatch" => net.job = NoJob
    BY Zenon DEF Placed
  <2> QED
    BY <2>1, <2>2, PlacedMoves
<1>9. CASE RunFunctor
  <2>1. net'.pc = "release" /\ net'.job = Head(batch)
    BY <1>0, <1>9 DEF RunFunctor
  <2>2. Head(batch) \in Given
    BY <1>9, FunctorDoes
  <2> QED
    BY <1>0, <2>1, <2>2, PlacedMoves
<1> QED
  BY <1>1, <1>2, <1>3, <1>4, <1>5, <1>6, <1>7, <1>8, <1>9, Zenon
     DEF Next, Network, Io, Peers, PeerStep, Sockets

-------------------------------------------------------------------------------
(* Jobs and the replies that promise them. *)

LEMMA PoolGiven ==
  ASSUME Shaped, Placed
  PROVE  Pool \subseteq Given /\ \A s : Owed(s) \subseteq Pool
BY Holders DEF Pool, Waiting, Owed

\* The first reply of a job tells that it is accepted.
LEMMA RetainTold ==
  ASSUME Shaped, Identified, Placed, AcceptedFirst, Retain, NEW s \in Sockets,
         s = net.job.sock, NEW g \in Used', clients'[g].sock = s
  PROVE  net.job.n \in Told(Sent(s)')
<1>1. PICK fd, d, r : /\ fd = net.fd /\ r = Reply(net.job, "accepted")
                      /\ Steps(fd, d) /\ d.out = Append(clients[fd].out, r)
                      /\ fd \in Used /\ clients[fd].sock = s /\ net.job \in Given
  BY RetainDoes, Zenon
<1>2. Served(fd, d) /\ Serves(fd, d) /\ Answerable(fd, d) /\ next' = next
  BY <1>1, Zenon DEF Steps
<1>3. d.sock = s
  BY <1>1, <1>2, Zenon DEF Served
<1>4. r \in To(s) /\ r.job = net.job.n /\ r.status = "accepted"
  BY <1>1, JobReply
<1>5. g = fd
  <2>1. g \in Used /\ clients'[g].sock = clients[g].sock
    BY <1>2, ServesUsed, Zenon
  <2> QED
    BY <1>1, <2>1, Zenon DEF Identified
<1>6. fd \in Used'
  BY <1>5
<1>7. r.job \in Told(Sent(d.sock)')
  BY <1>1, <1>2, <1>3, <1>4, <1>6, ServesAnswers
<1> QED
  BY <1>3, <1>4, <1>7, Zenon

\* Who is open after a step was open before it, but for the newest connection.
LEMMA OpenBefore ==
  ASSUME Shaped, Identified, Effect, NEW g \in Used'
  PROVE  \/ g \in Used /\ clients'[g].sock = clients[g].sock
         \/ g \notin Used /\ Opens(g) /\ clients'[g].sock = next
<1>1. CASE Kept
  BY <1>1 DEF Kept, Used
<1>2. ASSUME NEW fd \in Fds, Opens(fd)
      PROVE  \/ g \in Used /\ clients'[g].sock = clients[g].sock
             \/ g \notin Used /\ Opens(g) /\ clients'[g].sock = next
  <2>1. fd \notin Used /\ Used' = Used \cup {fd} /\ \A h \in Used : clients'[h] = clients[h]
    BY <1>2, OpensIdentity
  <2>2. clients'[fd].sock = next
    BY <1>2, Zenon DEF Opens
  <2>3. CASE g \in Used
    BY <2>1, <2>3, Zenon
  <2>4. CASE g \notin Used
    <3>1. g = fd
      BY <2>1, <2>4
    <3> QED
      BY <1>2, <2>1, <2>2, <3>1, Zenon
  <2> QED
    BY <2>3, <2>4
<1>3. CASE \E fd \in Fds : Reads(fd)
  BY <1>3, ReadsIdentity, Zenon
<1>4. CASE \E fd \in Fds : \E c \in Form : Steps(fd, c)
  BY <1>4, ServesUsed, Zenon DEF Steps
<1> QED
  BY <1>1, <1>2, <1>3, <1>4, Zenon DEF Effect

\* The newest connection has no job yet, and nothing in the cache.
LEMMA NewIsIdle ==
  ASSUME Shaped, Placed, Cached
  PROVE  (\A j \in Pool : j.sock # next) /\ (\A k \in DOMAIN replies : k[1] # next)
<1>1. ASSUME NEW j \in Pool PROVE j.sock # next
  <2>1. j \in Given
    BY PoolGiven
  <2>2. j.sock < next /\ j.sock \in Nat
    BY <2>1, JobFacts DEF Sockets
  <2> QED
    BY <2>2
<1>2. ASSUME NEW k \in DOMAIN replies PROVE k[1] # next
  <2>1. k \in CacheKeys
    BY ItemsOf, Zenon DEF Cached
  <2>2. k[1] \in Nat
    BY <2>1 DEF CacheKeys, Sockets
  <2>3. k[1] < next
    BY Zenon DEF Cached, OwnReply
  <2> QED
    BY <2>2, <2>3
<1> QED
  BY <1>1, <1>2

\* A step that opens a connection does nothing else.
LEMMA OpensAlone ==
  ASSUME Shaped, Identified, Watching, Placed, Reading, Cached, Promised, Next, NEW fd, Opens(fd)
  PROVE  /\ Pool' = Pool /\ replies' = replies /\ net'.pc # "retain" /\ net.pc # "retain"
         /\ Used' = Used \cup {fd} /\ \A g \in Used : clients'[g] = clients[g]
<1>1. next' # next
  BY DEF Opens, Sockets
<1>2. Accept
  <2>1. CASE Quiet
    BY <1>1, <2>1, QuietDoes
  <2>2. CASE PeerStep
    BY <1>1, <2>2 DEF PeerStep, PeerSend, PeerEnds, PeerStalls, PeerFrame
  <2>3. CASE DispatchError \/ DispatchWrite \/ DispatchRead \/ RunFunctor \/ Release
    BY <1>1, <2>3 DEF DispatchError, DispatchWrite, DispatchRead, RunFunctor, Release
  <2>4. CASE Replay \/ Query \/ Reject \/ LineTooLong \/ TryPush \/ Retain \/ LinesDone
    BY <1>1, <2>4 DEF Replay, Query, Reject, LineTooLong, TryPush, Retain, LinesDone, CommandFrame
  <2> QED
    BY <2>1, <2>2, <2>3, <2>4, Cases, Zenon
<1>3. WorkStays /\ net' = net /\ net.pc = "accept" /\ replies' = replies
  BY <1>2 DEF Accept, AcceptFrame, WorkStays, LoopFrame, work, store
<1>4. Pool' = Pool
  BY <1>3 DEF WorkStays, Pool, Waiting, Busy, Released
<1> QED
  BY <1>3, <1>4, OpensIdentity

\* The job that is retained stays until it is, and no other step makes one.
LEMMA RetainWaits ==
  ASSUME Shaped, Identified, Placed, Next, ~Retain
  PROVE  /\ net.pc = "retain" => net' = net
         /\ net.pc # "retain" => net'.pc # "retain" \/ Pushes
<1>0. net \in [pc : Pcs, fd : Fds \cup {0}, job : Given \cup {NoJob}]
  BY Zenon DEF Shaped
<1>1. CASE Quiet
  <2>1. net.pc = "retain" => net' = net
    BY <1>1 DEF Quiet, Poll, DispatchListen, Dispatch, AcceptTooMany, AcceptDone,
                AcceptFrame, Swap, FunctorsDone, IoTake, IoPost, IoFrame, Connect, PeerFrame, vars
  <2>2. net' = net \/ \E pc \in {"dispatch", "accept", "tasks", "poll"} : net' = [net EXCEPT !.pc = pc]
    BY <1>1 DEF Quiet, Poll, DispatchListen, Dispatch, AcceptTooMany, AcceptDone, NetTo,
                AcceptFrame, Swap, FunctorsDone, IoTake, IoPost, IoFrame, Connect, PeerFrame, vars
  <2> QED
    BY <1>0, <2>1, <2>2
<1>2. CASE PeerStep \/ Accept \/ DispatchError \/ DispatchWrite
  BY <1>2 DEF PeerStep, PeerSend, PeerEnds, PeerStalls, PeerFrame, Accept, AcceptFrame,
              DispatchError, DispatchWrite
<1>3. CASE DispatchRead \/ LinesDone \/ RunFunctor \/ Release
  <2>1. net.pc \in {"dispatch", "lines", "tasks", "release"}
        /\ net'.pc \in {"lines", "dispatch", "release", "tasks"}
    BY <1>0, <1>3 DEF DispatchRead, ClientEvent, Dispatch, LinesDone, RunFunctor, Release
  <2> QED
    BY <2>1
<1>4. CASE Replay \/ Query \/ Reject \/ LineTooLong
  BY <1>4 DEF Replay, Query, Reject, LineTooLong
<1>5. CASE TryPush
  <2>1. net.pc = "lines" /\ Line({"capture", "get_preview"})
    BY <1>5, Zenon DEF TryPush, New, Line
  <2>2. CASE Pushed
    BY <1>5, <2>1, <2>2, TryPushDoes, Zenon DEF Pushes
  <2>3. CASE net' = net
    BY <2>1, <2>3
  <2> QED
    BY <1>5, <2>1, <2>2, <2>3, TryPushDoes, Zenon
<1> QED
  BY <1>1, <1>2, <1>3, <1>4, <1>5, Cases, Zenon

LEMMA PromisedKept ==
  ASSUME Shaped, Identified, Watching, Placed, Reading, InTurn, Cached, AcceptedFirst, Promised, Next
  PROVE  Promised'
<1>1. Effect /\ next' \in {next, next + 1}
  BY AnyEffect, EndsKept
<1>2. \A g \in Used', t \in Sockets : clients'[g].sock = t => Told(Sent(t)) \subseteq Told(Sent(t)')
  BY <1>1, EffectKeeps
<1>3. ASSUME NEW g \in Used', NEW s \in Sockets, s = clients'[g].sock, g \in Used, clients[g].sock = s
      PROVE  Sure(s)' /\ Known(s)'
  <2>1. Told(Sent(s)) \subseteq Told(Sent(s)')
    BY <1>2, <1>3, Zenon
  <2>2. \A j \in Owed(s) : j.n \in Told(Sent(s)) \/ (net.pc = "retain" /\ j = net.job)
    BY <1>3, Zenon DEF Promised, Sure
  <2>3. \A k \in DOMAIN replies : k[1] = s /\ replies[k].job # 0 => replies[k].job \in Told(Sent(s))
    BY <1>3, Zenon DEF Promised, Known
  <2>4. \A j \in Owed(s)' : j.n \in Told(Sent(s)') \/ (net'.pc = "retain" /\ j = net'.job)
    <3>1. ASSUME NEW j \in Owed(s)
          PROVE  j.n \in Told(Sent(s)') \/ (net'.pc = "retain" /\ j = net'.job)
      <4>1. CASE j.n \in Told(Sent(s))
        BY <2>1, <4>1, Zenon
      <4>2. CASE net.pc = "retain" /\ j = net.job /\ Retain
        BY <1>3, <3>1, <4>2, RetainTold, Zenon DEF Owed
      <4>3. CASE net.pc = "retain" /\ j = net.job /\ ~Retain
        <5>1. net' = net
          BY <4>3, RetainWaits, Zenon
        <5> QED
          BY <4>3, <5>1
      <4> QED
        BY <2>2, <4>1, <4>2, <4>3, Zenon
    <3>2. CASE Pool' = Pool
      <4>1. Owed(s)' = Owed(s)
        BY <3>2 DEF Owed
      <4> QED
        BY <3>1, <4>1
    <3>3. CASE Pushes /\ Pool' = Pool \cup {NewJob}
      <4>1. net' = [net EXCEPT !.pc = "retain", !.job = NewJob]
        BY <3>3, Zenon DEF Pushes, Pushed
      <4>2. net'.pc = "retain" /\ net'.job = NewJob
        BY <4>1 DEF Shaped
      <4>3. \A j \in Owed(s)' : j \in Owed(s) \/ j = NewJob
        BY <3>3 DEF Owed
      <4> QED
        BY <3>1, <4>2, <4>3, Zenon
    <3>4. CASE Ends /\ Pool = Waiting \cup {net.job} /\ Pool' = Waiting
      <4>1. \A j \in Owed(s)' : j \in Owed(s)
        BY <3>4 DEF Owed
      <4> QED
        BY <3>1, <4>1, Zenon
    <3> QED
      BY <3>2, <3>3, <3>4, PoolMoves, Zenon
  <2>5. \A k \in DOMAIN replies' :
          k[1] = s /\ replies'[k].job # 0 => replies'[k].job \in Told(Sent(s)')
    <3>1. ASSUME NEW k \in DOMAIN replies', k \in DOMAIN replies, replies'[k] = replies[k],
                 k[1] = s, replies'[k].job # 0
          PROVE  replies'[k].job \in Told(Sent(s)')
      BY <2>1, <2>3, <3>1, Zenon
    <3>2. CASE Caches(0, 0)
      BY <3>1, <3>2, Zenon DEF Caches
    <3>3. CASE Retain /\ Caches(net.job.sock, net.job.n)
      <4>1. net.job.sock = s => net.job.n \in Told(Sent(s)')
        BY <1>3, <3>3, RetainTold, Zenon
      <4> QED
        BY <3>1, <3>3, <4>1, Zenon DEF Caches
    <3>4. CASE RunFunctor /\ Caches(Head(batch).sock, Head(batch).n)
      <4>1. PICK job : job = Head(batch)
        OBVIOUS
      <4>2. job \in Pool /\ net.pc = "tasks"
        BY <3>4, <4>1, FunctorDoes, Zenon
      <4>3. job.sock = s => job.n \in Told(Sent(s)')
        BY <2>1, <2>2, <4>2 DEF Owed
      <4> QED
        BY <3>1, <3>4, <4>1, <4>3, Zenon DEF Caches
    <3> QED
      BY <1>1, <3>2, <3>3, <3>4, CachedKept, Zenon
  <2> QED
    BY <2>4, <2>5, Zenon DEF Sure, Known
<1>4. ASSUME NEW g \in Used', NEW s \in Sockets, Opens(g), s = next
      PROVE  Sure(s)' /\ Known(s)'
  <2>1. Pool' = Pool /\ replies' = replies
    BY <1>4, OpensAlone
  <2>2. (\A j \in Pool' : j.sock # s) /\ \A k \in DOMAIN replies' : k[1] # s
    BY <1>4, <2>1, NewIsIdle
  <2>3. Owed(s)' = {}
    BY <2>2 DEF Owed
  <2> QED
    BY <2>2, <2>3, Zenon DEF Sure, Known
<1>5. ASSUME NEW g \in Used', NEW s \in Sockets, clients'[g].sock = s
      PROVE  Sure(s)' /\ Known(s)'
  <2>1. CASE g \in Used /\ clients'[g].sock = clients[g].sock
    BY <1>3, <1>5, <2>1, Zenon
  <2>2. CASE g \notin Used /\ Opens(g) /\ clients'[g].sock = next
    BY <1>4, <1>5, <2>2, Zenon
  <2> QED
    BY <1>1, <2>1, <2>2, OpenBefore, Zenon
<1> QED
  BY <1>5, Zenon DEF Promised

-------------------------------------------------------------------------------
(* A connection is held for its jobs. *)

LEMMA ItemsFinite ==
  ASSUME NEW S, NEW s \in Seq(S)
  PROVE  IsFiniteSet(ToSet(s))
<1>1. Len(s) \in Nat /\ DOMAIN s = 1..Len(s) /\ ToSet(s) = {s[i] : i \in 1..Len(s)}
  BY ItemsOf
<1>2. s \in [1..Len(s) -> ToSet(s)]
  BY <1>1
<1>3. s \in Surjection(1..Len(s), ToSet(s))
  BY <1>1, <1>2 DEF Surjection
<1>4. IsFiniteSet(1..Len(s))
  BY <1>1, FS_Interval
<1> QED
  BY <1>3, <1>4, FS_Surjection

LEMMA OwedFinite ==
  ASSUME Shaped
  PROVE  \A s : IsFiniteSet(Owed(s)) /\ Cardinality(Owed(s)) \in Nat
<1>1. IsFiniteSet(ToSet(batch)) /\ IsFiniteSet(ToSet(functors)) /\ IsFiniteSet(ToSet(snapshots))
  BY ItemsFinite DEF Shaped
<1>2. IsFiniteSet(Busy) /\ IsFiniteSet(Released)
  <2>1. IsFiniteSet({io}) /\ IsFiniteSet({net.job}) /\ IsFiniteSet({})
    BY FS_Singleton, FS_EmptySet
  <2>2. Busy \in SUBSET {io} /\ Released \in SUBSET {net.job}
    BY DEF Busy, Released
  <2> QED
    BY <2>1, <2>2, FS_Subset
<1>3. IsFiniteSet(Waiting)
  BY <1>1, <1>2, FS_Union DEF Waiting
<1>4. IsFiniteSet(Pool)
  BY <1>2, <1>3, FS_Union DEF Pool
<1>5. ASSUME NEW s PROVE IsFiniteSet(Owed(s)) /\ Cardinality(Owed(s)) \in Nat
  <2>1. Owed(s) \in SUBSET Pool
    BY DEF Owed
  <2> QED
    BY <1>4, <2>1, FS_Subset, FS_CardinalityType
<1> QED
  BY <1>5

\* The job being released waits nowhere any more.
LEMMA ReleasedAlone ==
  ASSUME Shaped, Placed, InTurn, net.pc = "release"
  PROVE  net.job \notin Waiting
<1>1. Released = {net.job} /\ net.job \in Given
  BY Holders DEF Released
<1>2. net.job.n \in Nat
  BY <1>1, JobFacts
<1>3. Below({net.job}, Waiting)
  <2>1. /\ Below({net.job}, ToSet(batch)) /\ Below({net.job}, ToSet(functors))
        /\ Below({net.job}, Busy) /\ Below({net.job}, ToSet(snapshots))
    BY <1>1, Zenon DEF InTurn, Turns
  <2> QED
    BY <2>1, BelowSets DEF Waiting
<1> QED
  BY <1>2, <1>3 DEF Below

LEMMA ReleaseMoves ==
  ASSUME Shaped, Placed, Release
  PROVE  Pool = Waiting \cup {net.job} /\ Pool' = Waiting /\ net.pc = "release" /\ net'.pc = "tasks"
<1>1. net.pc = "release" /\ net' = [net EXCEPT !.pc = "tasks", !.job = NoJob]
      /\ UNCHANGED <<functors, batch>> /\ snapshots' = snapshots /\ io' = io
  BY DEF Release, work
<1>2. net'.pc = "tasks"
  BY <1>1 DEF Shaped
<1> QED
  BY <1>1, <1>2 DEF Pool, Waiting, Busy, Released

\* The pending of a client after its step, and of the others.
LEMMA StepPending ==
  ASSUME Shaped, Identified, NEW fd, NEW c, Steps(fd, c), NEW g \in Used'
  PROVE  /\ g \in Used /\ (g = fd => clients'[g].pending = c.pending)
         /\ (g # fd => clients'[g].pending = clients[g].pending)
<1>1. /\ \A h \in Used : h # fd => clients'[h] = clients[h]
      /\ Used' \subseteq Used /\ (fd \in Used' => Like(clients'[fd], c))
  BY StepsStay
<1> QED
  BY <1>1, Zenon DEF Like

LEMMA RetainPending ==
  ASSUME Shaped, Identified, Placed, Retain, NEW g \in Used'
  PROVE  /\ net.pc = "retain" /\ net'.pc = "lines" /\ g \in Used
         /\ (g = net.fd => clients'[g].pending = clients[g].pending + 1)
         /\ (g # net.fd => clients'[g].pending = clients[g].pending)
<1>1. net.pc = "retain" /\ net'.pc = "lines"
  BY DEF Retain, Shaped
<1>2. PICK d : Steps(net.fd, d) /\ d.pending = clients[net.fd].pending + 1
  BY RetainDoes, Zenon
<1> QED
  BY <1>1, <1>2, StepPending, Zenon

LEMMA ReleasePending ==
  ASSUME Shaped, Identified, Placed, Release, NEW g \in Used'
  PROVE  /\ g \in Used
         /\ (clients[g].sock = net.job.sock =>
               clients'[g].pending = IF clients[g].pending > 0 THEN clients[g].pending - 1 ELSE 0)
         /\ (clients[g].sock # net.job.sock => clients'[g].pending = clients[g].pending)
<1>1. CASE clients' = clients /\ \A fd \in Used : clients[fd].sock # net.job.sock
  <2>1. Used' = Used
    BY <1>1 DEF Used
  <2> QED
    BY <1>1, <2>1, Zenon
<1>2. ASSUME NEW fd \in Used, NEW d \in Form, Steps(fd, d), clients[fd].sock = net.job.sock,
             d.pending = IF clients[fd].pending > 0 THEN clients[fd].pending - 1 ELSE 0
      PROVE  /\ g \in Used
             /\ (clients[g].sock = net.job.sock =>
                   clients'[g].pending = IF clients[g].pending > 0 THEN clients[g].pending - 1 ELSE 0)
             /\ (clients[g].sock # net.job.sock => clients'[g].pending = clients[g].pending)
  <2>1. /\ g \in Used /\ (g = fd => clients'[g].pending = d.pending)
        /\ (g # fd => clients'[g].pending = clients[g].pending)
    BY <1>2, StepPending, Zenon
  <2>2. clients[g].sock = net.job.sock => g = fd
    BY <1>2, <2>1, Zenon DEF Identified
  <2> QED
    BY <1>2, <2>1, <2>2, Zenon
<1> QED
  BY <1>1, <1>2, ReleaseDoes, Zenon

LEMMA PendingStays ==
  ASSUME Shaped, Identified, Watching, Placed, Reading, Cached, Promised, Next,
         ~Retain, ~Release, NEW g \in Used', g \in Used
  PROVE  clients'[g].pending = clients[g].pending
<1>1. ASSUME NEW fd, NEW d, Steps(fd, d), d.pending = clients[fd].pending
      PROVE  clients'[g].pending = clients[g].pending
  BY <1>1, StepPending, Zenon
<1>2. CASE Kept
  BY <1>2, Zenon DEF Kept
<1>3. ASSUME NEW fd, Opens(fd) PROVE clients'[g].pending = clients[g].pending
  BY <1>3, OpensIdentity, Zenon
<1>4. ASSUME NEW fd, Reads(fd) PROVE clients'[g].pending = clients[g].pending
  <2>1. g \in Fds
    BY UsedForm
  <2> QED
    BY <1>4, <2>1, Zenon DEF Reads
<1>5. CASE Quiet \/ PeerStep
  BY <1>2, <1>5, QuietDoes, QuietKept, PeersKept, Zenon DEF PeerStep
<1>6. CASE Accept
  BY <1>2, <1>3, <1>6, AcceptDoes, Zenon
<1>7. CASE DispatchError \/ DispatchWrite
  BY <1>1, <1>7, WriteDoes, Zenon
<1>8. CASE DispatchRead
  BY <1>4, <1>8, ReadDoes, Zenon
<1>9. CASE Answered
  BY <1>1, <1>9, Zenon DEF Answered
<1>10. CASE LineTooLong
  BY <1>1, <1>10, TooLongDoes, Zenon
<1>11. CASE Replay \/ Query \/ Reject
  BY <1>9, <1>10, <1>11, LinesEffect, Zenon
<1>12. CASE TryPush
  BY <1>4, <1>9, <1>12, TryPushDoes, Zenon DEF Pushed
<1>13. CASE LinesDone
  <2>1. CASE clients' = clients
    BY <2>1
  <2>2. ASSUME NEW c, Steps(net.fd, c), c.pending = clients[net.fd].pending
        PROVE  clients'[g].pending = clients[g].pending
    BY <1>1, <2>2, Zenon
  <2> QED
    BY <1>13, <2>1, <2>2, DoneDoes, Zenon
<1>14. CASE RunFunctor
  <2>1. CASE clients' = clients
    BY <2>1
  <2>2. ASSUME NEW fd \in Used, NEW d, Steps(fd, d), d.pending = clients[fd].pending
        PROVE  clients'[g].pending = clients[g].pending
    BY <1>1, <2>2, Zenon
  <2> QED
    BY <1>14, <2>1, <2>2, FunctorDoes, Zenon
<1> QED
  BY <1>5, <1>6, <1>7, <1>8, <1>10, <1>11, <1>12, <1>13, <1>14, Cases, Zenon

\* Counted, of one connection: the numbers behind it.
LEMMA CountsAre ==
  ASSUME Shaped, Counted, NEW g \in Used, NEW s \in Sockets, clients[g].sock = s
  PROVE  /\ clients[g].pending \in Nat /\ IsFiniteSet(Owed(s)) /\ Cardinality(Owed(s)) \in Nat
         /\ net.pc = "retain" /\ net.fd = g => Cardinality(Owed(s)) = clients[g].pending + 1
         /\ net.pc # "retain" \/ net.fd # g => Cardinality(Owed(s)) = clients[g].pending
<1>1. clients[g].pending \in Nat
  BY UsedForm, Fields
<1>2. IsFiniteSet(Owed(s)) /\ Cardinality(Owed(s)) \in Nat
  BY OwedFinite
<1>3. Unpaid(g) = Cardinality(Owed(s))
  BY Zenon DEF Counted
<1>4. PICK m, n : m = clients[g].pending /\ n = Cardinality(Owed(s))
  OBVIOUS
<1>5. n = m + (IF net.pc = "retain" /\ net.fd = g THEN 1 ELSE 0)
  BY <1>3, <1>4, Zenon DEF Unpaid
<1> QED
  BY <1>1, <1>2, <1>4, <1>5

LEMMA CountsMake ==
  ASSUME NEW g, NEW s,
         net'.pc = "retain" /\ net'.fd = g => Cardinality(Owed(s)') = clients'[g].pending + 1,
         net'.pc # "retain" \/ net'.fd # g => Cardinality(Owed(s)') = clients'[g].pending,
         clients'[g].pending \in Nat
  PROVE  Unpaid(g)' = Cardinality(Owed(s)')
<1>1. PICK m, n : m = clients'[g].pending /\ n = Cardinality(Owed(s)')
  OBVIOUS
<1>2. n = m + (IF net'.pc = "retain" /\ net'.fd = g THEN 1 ELSE 0)
  BY <1>1
<1> QED
  BY <1>1, <1>2, Zenon DEF Unpaid

\* The three ways in which the jobs of a connection that stays open are counted.
LEMMA CountedStays ==
  ASSUME Shaped, Identified, Watching, Placed, Reading, Cached, Promised, Counted, Next,
         ~Pushes, ~Release, NEW g \in Used', NEW s \in Sockets, g \in Used,
         clients[g].sock = s, clients'[g].sock = s
  PROVE  Unpaid(g)' = Cardinality(Owed(s)')
<1>1. Pool' = Pool
  BY PoolMoves, Zenon DEF Ends
<1>2. Owed(s)' = Owed(s)
  BY <1>1 DEF Owed
<1>3. PICK m, n : m = clients[g].pending /\ n = Cardinality(Owed(s))
  OBVIOUS
<1>4. /\ m \in Nat /\ n \in Nat
      /\ net.pc = "retain" /\ net.fd = g => n = m + 1
      /\ net.pc # "retain" \/ net.fd # g => n = m
  BY <1>3, CountsAre
<1>5. CASE Retain
  <2>1. /\ net.pc = "retain" /\ net'.pc = "lines"
        /\ (g = net.fd => clients'[g].pending = m + 1) /\ (g # net.fd => clients'[g].pending = m)
    BY <1>3, <1>5, RetainPending
  <2>2. clients'[g].pending = n /\ clients'[g].pending \in Nat
    BY <1>4, <2>1
  <2> QED
    BY <1>2, <1>3, <2>1, <2>2, CountsMake
<1>6. CASE ~Retain
  <2>1. clients'[g].pending = m
    BY <1>3, <1>6, PendingStays
  <2>2. /\ net.pc = "retain" => net'.pc = "retain" /\ net'.fd = net.fd
        /\ net.pc # "retain" => net'.pc # "retain"
    BY <1>6, RetainWaits
  <2> QED
    BY <1>2, <1>3, <1>4, <2>1, <2>2, CountsMake
<1> QED
  BY <1>5, <1>6

LEMMA CountedPushes ==
  ASSUME Shaped, Identified, Watching, Placed, Reading, Cached, Promised, Counted, Next,
         Pushes, NEW g \in Used', NEW s \in Sockets, g \in Used,
         clients[g].sock = s, clients'[g].sock = s
  PROVE  Unpaid(g)' = Cardinality(Owed(s)')
<1>1. /\ Line({"capture", "get_preview"}) /\ next' = next /\ jobs' = jobs + 1
      /\ net' = [net EXCEPT !.pc = "retain", !.job = NewJob]
  BY Zenon DEF Pushes, Pushed
<1>2. /\ NewJob.sock = clients[net.fd].sock /\ NewJob \notin Given
      /\ net.pc = "lines" /\ net'.pc = "retain" /\ net'.fd = net.fd /\ net.fd \in Used
  BY <1>1, NewJobGiven, LineFacts DEF Shaped
<1>3. Pool' = Pool \cup {NewJob}
  <2>1. jobs' # jobs
    BY <1>1 DEF Shaped
  <2>2. ~Ends
    BY <1>2 DEF Ends, Release
  <2> QED
    BY <2>1, <2>2, PoolMoves, Zenon
<1>4. PICK m, n : m = clients[g].pending /\ n = Cardinality(Owed(s))
  OBVIOUS
<1>5. m \in Nat /\ n \in Nat /\ n = m /\ IsFiniteSet(Owed(s))
  BY <1>2, <1>4, CountsAre
<1>6. clients'[g].pending = m
  <2>1. ~Retain /\ ~Release
    BY <1>2 DEF Retain, Release
  <2> QED
    BY <1>4, <2>1, PendingStays
<1>7. NewJob \notin Owed(s)
  BY <1>2, PoolGiven
<1>8. CASE g = net.fd
  <2>1. Owed(s)' = Owed(s) \cup {NewJob}
    BY <1>2, <1>3, <1>8 DEF Owed
  <2>2. Cardinality(Owed(s)') = n + 1
    <3>1. PICK T, j : T = Owed(s) /\ j = NewJob
      OBVIOUS
    <3>2. Owed(s)' = T \cup {j} /\ j \notin T /\ IsFiniteSet(T) /\ Cardinality(T) = n
      BY <1>4, <1>5, <1>7, <2>1, <3>1, Zenon
    <3> QED
      BY <3>2, FS_AddElement
  <2> QED
    BY <1>2, <1>5, <1>6, <1>8, <2>2, CountsMake
<1>9. CASE g # net.fd
  <2>1. NewJob.sock # s
    BY <1>2, <1>9, Zenon DEF Identified
  <2>2. Owed(s)' = Owed(s)
    BY <1>3, <2>1 DEF Owed
  <2> QED
    BY <1>2, <1>4, <1>5, <1>6, <1>9, <2>2, CountsMake
<1> QED
  BY <1>8, <1>9

LEMMA CountedReleases ==
  ASSUME Shaped, Identified, Placed, InTurn, Counted, Next,
         Release, NEW g \in Used', NEW s \in Sockets, g \in Used,
         clients[g].sock = s, clients'[g].sock = s
  PROVE  Unpaid(g)' = Cardinality(Owed(s)')
<1>1. Pool = Waiting \cup {net.job} /\ Pool' = Waiting /\ net.pc = "release" /\ net'.pc = "tasks"
  BY ReleaseMoves
<1>2. net.job \notin Waiting
  BY <1>1, ReleasedAlone
<1>3. PICK m, n : m = clients[g].pending /\ n = Cardinality(Owed(s))
  OBVIOUS
<1>4. m \in Nat /\ n \in Nat /\ n = m /\ IsFiniteSet(Owed(s))
  BY <1>1, <1>3, CountsAre
<1>5. CASE net.job.sock = s
  <2>1. net.job \in Owed(s) /\ Owed(s)' = Owed(s) \ {net.job}
    BY <1>1, <1>2, <1>5 DEF Owed
  <2>2. Cardinality(Owed(s)') = n - 1
    BY <1>3, <1>4, <2>1, FS_RemoveElement
  <2>3. n # 0
    BY <1>3, <1>4, <2>1, FS_EmptySet
  <2>4. clients'[g].pending = IF m > 0 THEN m - 1 ELSE 0
    BY <1>3, <1>5, ReleasePending
  <2>5. clients'[g].pending = n - 1 /\ clients'[g].pending \in Nat
    BY <1>4, <2>3, <2>4
  <2> QED
    BY <1>1, <2>2, <2>5, CountsMake
<1>6. CASE net.job.sock # s
  <2>1. Owed(s)' = Owed(s)
    BY <1>1, <1>6 DEF Owed
  <2>2. clients'[g].pending = m
    BY <1>3, <1>6, ReleasePending
  <2> QED
    BY <1>1, <1>3, <1>4, <2>1, <2>2, CountsMake
<1> QED
  BY <1>5, <1>6

LEMMA CountedKept ==
  ASSUME Shaped, Identified, Watching, Placed, Reading, InTurn, Cached, Promised, Counted, Next
  PROVE  Counted'
<1>1. Effect
  BY AnyEffect
<1>2. ASSUME NEW g \in Used', NEW s \in Sockets, clients'[g].sock = s
      PROVE  Unpaid(g)' = Cardinality(Owed(s)')
  <2>1. CASE g \in Used /\ clients'[g].sock = clients[g].sock
    <3>1. CASE Pushes
      BY <1>2, <2>1, <3>1, CountedPushes
    <3>2. CASE Release
      BY <1>2, <2>1, <3>2, CountedReleases
    <3>3. CASE ~Pushes /\ ~Release
      BY <1>2, <2>1, <3>3, CountedStays
    <3> QED
      BY <3>1, <3>2, <3>3
  <2>2. CASE Opens(g) /\ clients'[g].sock = next
    <3>1. Pool' = Pool /\ net'.pc # "retain"
      BY <2>2, OpensAlone
    <3>2. \A j \in Pool' : j.sock # s
      BY <1>2, <2>2, <3>1, NewIsIdle
    <3>3. Owed(s)' = {}
      BY <3>2 DEF Owed
    <3>4. clients'[g].pending = 0
      BY <2>2, Zenon DEF Opens
    <3>5. Cardinality(Owed(s)') = 0
      BY <3>3, FS_EmptySet
    <3> QED
      BY <3>1, <3>4, <3>5, CountsMake
  <2> QED
    BY <1>1, <2>1, <2>2, OpenBefore, Zenon
<1> QED
  BY <1>2, Zenon DEF Counted

-------------------------------------------------------------------------------
(* The invariant. *)

LEMMA InitShaped == Init => Shaped
<1> SUFFICES ASSUME Init PROVE Shaped
  OBVIOUS
<1>1. clients \in [Fds -> Form \cup {NoClient}]
  BY DEF Init
<1>2. peers \in [Sockets -> Peer]
  BY DEF Init, Peer, Sockets
<1>3. next + backlog <= MaxSockets + 1 /\ next \in Nat \ {0} /\ backlog \in Nat /\ jobs \in Nat
  BY Limits DEF Init
<1>4. snapshots \in Seq(Given) /\ functors \in Seq(Given) /\ batch \in Seq(Given)
  BY NoItems, Zenon DEF Init
<1>5. net \in [pc : Pcs, fd : Fds \cup {0}, job : Given \cup {NoJob}]
  BY DEF Init, Pcs
<1>6. ready \in SUBSET Event /\ io \in Given \cup {NoJob}
  BY DEF Init
<1> QED
  BY <1>1, <1>2, <1>3, <1>4, <1>5, <1>6 DEF Shaped

LEMMA InitIInv == Init => ControlIInv
<1> SUFFICES ASSUME Init PROVE ControlIInv
  OBVIOUS
<1>1. Shaped
  BY InitShaped
<1>2. Used = {}
  BY DEF Init, Used
<1>3. /\ net.pc = "poll" /\ net.fd = 0 /\ net.job = NoJob /\ io = NoJob
      /\ ready = {} /\ batch = <<>> /\ functors = <<>> /\ snapshots = <<>>
  BY DEF Init
<1>4. \A s \in Sockets : peers[s].got = <<>>
  BY DEF Init, Sockets
<1>5. Identified
  BY <1>2, <1>4, NoItems DEF Identified
<1>6. Watching /\ Placed /\ Reading
  BY <1>2, <1>3 DEF Watching, Placed, Reading
<1>7. InTurn
  <2>1. ToSet(batch) = {} /\ ToSet(functors) = {} /\ ToSet(snapshots) = {} /\ Busy = {} /\ Released = {}
    BY <1>3, NoItems DEF Busy, Released
  <2>2. Turns(Released, ToSet(batch), ToSet(functors), Busy, ToSet(snapshots))
    BY <2>1, BelowSets, Zenon DEF Turns
  <2>3. DOMAIN batch = {} /\ DOMAIN functors = {} /\ DOMAIN snapshots = {}
    BY <1>3
  <2>4. Ordered(batch) /\ Ordered(functors) /\ Ordered(snapshots)
    BY <2>3, Zenon DEF Ordered
  <2> QED
    BY <2>2, <2>4 DEF InTurn
<1>8. Cached
  <2>1. order = <<>> /\ inserted = <<>> /\ DOMAIN replies = {}
    BY DEF Init
  <2>2. LatestOf(<<>>, <<>>)
    BY Limits DEF LatestOf
  <2>3. <<>> \in Seq(CacheKeys) /\ ToSet(<<>>) = {}
    BY NoItems, Zenon
  <2> QED
    BY <2>1, <2>2, <2>3, Zenon DEF Cached
<1>9. AcceptedFirst
  <2>1. ASSUME NEW s \in Sockets PROVE Sound(Sent(s))
    <3>1. Sent(s) = <<>>
      BY <1>2, <1>4 DEF Sent, Holding
    <3>2. DOMAIN Sent(s) = {}
      BY <3>1
    <3> QED
      BY <3>2, Zenon DEF Sound
  <2> QED
    BY <2>1, AllSound
<1>10. Promised /\ Counted
  BY <1>2 DEF Promised, Counted
<1> QED
  BY <1>1, <1>5, <1>6, <1>7, <1>8, <1>9, <1>10 DEF ControlIInv

LEMMA StutterIInv == ControlIInv /\ UNCHANGED vars => ControlIInv'
<1> SUFFICES ASSUME ControlIInv, UNCHANGED vars PROVE ControlIInv'
  OBVIOUS
<1>1. /\ clients' = clients /\ next' = next /\ replies' = replies /\ order' = order
      /\ inserted' = inserted /\ snapshots' = snapshots /\ io' = io /\ jobs' = jobs
      /\ functors' = functors /\ batch' = batch /\ ready' = ready /\ net' = net
      /\ peers' = peers /\ backlog' = backlog
  BY DEF vars, store, work, world
<1>2. Used' = Used /\ Given' = Given /\ Pool' = Pool /\ Waiting' = Waiting /\ Released' = Released
      /\ Busy' = Busy
  BY <1>1 DEF Used, Given, Pool, Waiting, Released, Busy
<1>3. Shaped /\ Identified /\ Watching /\ Placed /\ Reading /\ InTurn /\ Cached
      /\ AcceptedFirst /\ Promised /\ Counted
  BY Zenon DEF ControlIInv
<1>4. Shaped'
  BY <1>1, <1>2, <1>3 DEF Shaped
<1>5. Kept
  BY <1>1, <1>3, QuietKept
<1>6. Identified' /\ \A s \in Sockets : Sent(s)' = Sent(s)
  BY <1>3, <1>5, KeptIdentity
<1>7. Watching' /\ Placed' /\ Reading'
  BY <1>1, <1>2, <1>3 DEF Watching, Placed, Reading
<1>8. InTurn' /\ Cached'
  <2>1. InTurn'
    BY <1>1, <1>2, <1>3, Zenon DEF InTurn
  <2>2. Cached'
    BY <1>1, <1>3, CacheKept DEF Shaped, store
  <2> QED
    BY <2>1, <2>2
<1>9. AcceptedFirst'
  BY <1>3, <1>6, AllSound, Zenon
<1>10. \A s : Owed(s)' = Owed(s)
  BY <1>2 DEF Owed
<1>11. Promised'
  <2>1. ASSUME NEW s \in Sockets, Sure(s), Known(s) PROVE Sure(s)' /\ Known(s)'
    <3>1. Sent(s)' = Sent(s) /\ Owed(s)' = Owed(s)
      BY <1>6, <1>10
    <3> QED
      BY <1>1, <2>1, <3>1, Zenon DEF Sure, Known
  <2> QED
    BY <1>1, <1>2, <1>3, <2>1, Zenon DEF Promised
<1>12. Counted'
  BY <1>1, <1>2, <1>3, <1>10, Zenon DEF Counted, Unpaid
<1> QED
  BY <1>4, <1>6, <1>7, <1>8, <1>9, <1>11, <1>12, Zenon DEF ControlIInv

LEMMA NextIInv == ControlIInv /\ Next => ControlIInv'
<1> SUFFICES ASSUME ControlIInv, Next PROVE ControlIInv'
  OBVIOUS
<1>1. Shaped /\ Identified /\ Watching /\ Placed /\ Reading /\ InTurn /\ Cached
      /\ AcceptedFirst /\ Promised /\ Counted
  BY Zenon DEF ControlIInv
<1>2. Effect /\ next' \in {next, next + 1}
  BY <1>1, AnyEffect, EndsKept
<1>3. Shaped' /\ Watching' /\ Placed' /\ Reading' /\ InTurn'
  BY <1>1, ShapedKept, WatchingKept, PlacedKept, ReadingKept, InTurnKept
<1>4. Identified' /\ AcceptedFirst'
  BY <1>1, <1>2, EffectKeeps
<1>5. Cached'
  BY <1>1, <1>2, CachedKept
<1>6. Promised'
  BY <1>1, PromisedKept
<1>7. Counted'
  BY <1>1, CountedKept
<1> QED
  BY <1>3, <1>4, <1>5, <1>6, <1>7, Zenon DEF ControlIInv

\* What every step keeps of the table of clients, of the events, of the jobs on their
\* way, of the replay cache and of the replies: TcpServer.h, EventLoop.h and
\* VisionPipeline::command together.
THEOREM ControlInductive == Spec => []ControlIInv
<1>1. ControlIInv /\ [Next]_vars => ControlIInv'
  BY NextIInv, StutterIInv
<1> QED
  BY <1>1, InitIInv, PTL DEF Spec

-------------------------------------------------------------------------------
(* What it gives. *)

LEMMA SentTo ==
  ASSUME Shaped, Identified, NEW s \in Sockets
  PROVE  Sent(s) \in Seq(To(s))
<1>1. CASE \E fd \in Used : clients[fd].sock = s
  <2>1. PICK fd \in Used : clients[fd].sock = s
    BY <1>1
  <2>2. PICK a, b : a = peers[s].got /\ b = clients[fd].out
    OBVIOUS
  <2>3. Sent(s) = a \o b
    BY <2>1, <2>2, SentToOpen, Zenon
  <2>4. a \in Seq(To(s)) /\ b \in Seq(To(s))
    BY <2>1, <2>2, Zenon DEF Identified
  <2>5. a \o b \in Seq(To(s))
    BY <2>4
  <2> QED
    BY <2>3, <2>5
<1>2. CASE \A fd \in Used : clients[fd].sock # s
  <2>1. Sent(s) = peers[s].got
    BY <1>2 DEF Sent, Holding
  <2> QED
    BY <2>1, Zenon DEF Identified
<1> QED
  BY <1>1, <1>2

\* A reply reaches the socket whose request it answers, also when the JPEG thread
\* answers after the connection was closed and its descriptor used again: ids_ knows
\* connections by numbers that are never used twice (TcpServer.h, sendResponse).
THEOREM RepliesAreOwn == Spec => []OwnReplies
<1>1. ControlIInv => OwnReplies
  <2> SUFFICES ASSUME ControlIInv, NEW s \in Sockets, NEW i \in DOMAIN Sent(s)
               PROVE  Sent(s)[i].sock = s
    BY DEF OwnReplies, Sockets
  <2>1. Sent(s) \in Seq(To(s))
    BY SentTo, Zenon DEF ControlIInv
  <2>2. Sent(s)[i] \in To(s)
    BY <2>1
  <2> QED
    BY <2>2 DEF To
<1> QED
  BY <1>1, ControlInductive, PTL

\* An event of an epoll_wait is dispatched to the connection it was reported for:
\* while the events of a batch are dispatched, only the connection of the event at
\* hand is closed, so accept4 cannot return a descriptor whose event is still to
\* come (EventLoop.h, the loop over events; TcpServer.h, closeClient).
THEOREM EventsAreOwn == Spec => []EventsMeetOwner
<1>1. ControlIInv => EventsMeetOwner
  BY DEF ControlIInv, Watching, EventsMeetOwner
<1> QED
  BY <1>1, ControlInductive, PTL

\* "accepted" is written before the result of the same job: the JPEG thread may be done
\* first, but its answer is a functor of the network thread, which runs none between
\* tryPush and the first reply (VisionPipeline::command, capture and get_preview).
THEOREM AcceptedIsFirst == Spec => []AcceptedFirst
<1>1. ControlIInv => AcceptedFirst
  BY Zenon DEF ControlIInv
<1> QED
  BY <1>1, ControlInductive, PTL

LEMMA OutstandingIsOwed ==
  ASSUME Shaped, Placed, NEW s \in Sockets
  PROVE  Outstanding(s) = Owed(s)
<1>1. NoJob.sock # s
  BY Nobody DEF NoJob
<1>2. net.pc \notin {"retain", "release"} => net.job = NoJob
  BY Zenon DEF Placed
<1>3. net.pc = "retain" => net.job \in Waiting
  BY Zenon DEF Placed
<1>4. ASSUME NEW j, j.sock = s PROVE j \in Outstanding(s) <=> j \in Owed(s)
  <2>1. j # NoJob
    BY <1>1, <1>4
  <2>2. j \in Outstanding(s) <=> j \in ToSet(snapshots) \cup ToSet(functors) \cup ToSet(batch) \cup {io, net.job}
    BY <1>4 DEF Outstanding
  <2>3. j \in Owed(s) <=> j \in Waiting \cup Released
    BY <1>4 DEF Owed, Pool
  <2>4. CASE net.pc = "release"
    BY <2>1, <2>2, <2>3, <2>4 DEF Waiting, Released, Busy
  <2>5. CASE net.pc = "retain"
    BY <1>3, <2>1, <2>2, <2>3, <2>5 DEF Waiting, Released, Busy
  <2>6. CASE net.pc \notin {"retain", "release"}
    BY <1>2, <2>1, <2>2, <2>3, <2>6 DEF Waiting, Released, Busy
  <2> QED
    BY <2>4, <2>5, <2>6
<1>5. \A j : (j \in Outstanding(s) \/ j \in Owed(s)) => j.sock = s
  BY DEF Outstanding, Owed
<1> QED
  BY <1>4, <1>5

\* pending counts the jobs of a connection that are not yet answered and released:
\* retain and release are called once for each (TcpServer.h), whatever is replayed,
\* refused or closed in between.
THEOREM PendingIsExact == Spec => []PendingExact
<1>1. ControlIInv => PendingExact
  <2> SUFFICES ASSUME ControlIInv, NEW fd \in Used
               PROVE  Unpaid(fd) = Cardinality(Outstanding(clients[fd].sock))
    BY DEF PendingExact, Unpaid
  <2>1. PICK s \in Sockets : clients[fd].sock = s
    BY UsedForm DEF ControlIInv
  <2>2. Unpaid(fd) = Cardinality(Owed(s))
    BY <2>1, Zenon DEF ControlIInv, Counted
  <2>3. Outstanding(s) = Owed(s)
    BY OutstandingIsOwed, Zenon DEF ControlIInv
  <2> QED
    BY <2>1, <2>2, <2>3, Zenon
<1> QED
  BY <1>1, ControlInductive, PTL

\* A cacheable command is executed only when its key is not among the last CacheLimit
\* keys stored, so a retry with the same id within them never executes twice
\* (VisionPipeline::command and cacheReply).
THEOREM CommandsExecuteOnce == Spec => ExecutedOnce
<1>1. ControlIInv /\ [Next]_vars =>
        [executed'.count # executed.count => executed'.key \notin Recent(inserted)]_vars
  <2> SUFFICES ASSUME ControlIInv, Next, executed' # executed
               PROVE  executed'.key \notin Recent(inserted)
    BY DEF vars
  <2>1. Recent(inserted) = DOMAIN replies
    BY RecentIsCached, Zenon DEF ControlIInv
  <2>2. ASSUME Executing(Key), Key \notin DOMAIN replies
        PROVE  executed'.key \notin Recent(inserted)
    <3>1. PICK k : k = Key
      OBVIOUS
    <3>2. executed' = [count |-> executed.count + 1, key |-> k]
      BY <2>2, <3>1, Zenon DEF Executing
    <3>3. executed'.key = k
      BY <3>2
    <3> QED
      BY <2>1, <2>2, <3>1, <3>3, Zenon
  <2>3. CASE Query
    BY <2>2, <2>3, Zenon DEF Query, New
  <2>4. CASE TryPush
    <3>1. Executing(Key) /\ Key \notin DOMAIN replies
      BY <2>4, Zenon DEF TryPush, New
    <3> QED
      BY <2>2, <3>1
  <2>5. ASSUME ~Query, ~TryPush PROVE executed' = executed
    BY <2>5 DEF Next, Network, Io, Peers, Poll, DispatchListen, AcceptTooMany, Accept, AcceptDone,
      DispatchError, DispatchRead, DispatchWrite, Swap, LineTooLong, Replay, Reject, Retain,
      LinesDone, RunFunctor, Release, FunctorsDone, IoTake, IoPost, IoFrame, Connect, PeerSend,
      PeerEnds, PeerStalls, PeerFrame, LoopFrame, AcceptFrame
  <2> QED
    BY <2>3, <2>4, <2>5, Zenon
<1> QED
  BY <1>1, ControlInductive, PTL DEF Spec, ExecutedOnce

-------------------------------------------------------------------------------
(* The end of a half-closed connection. *)

\* Who is drained by a step of client fd.
LEMMA StepDrains ==
  ASSUME Shaped, Identified, NEW fd, NEW c, Steps(fd, c), NEW s \in Sockets,
         peers[s].over = "no", peers'[s].over = "drained"
  PROVE  /\ fd \in Used /\ clients[fd].sock = s /\ clients[fd].eof
         /\ ~c.reading /\ c.pending = 0
<1>1. Served(fd, c) /\ Serves(fd, c)
  BY Zenon DEF Steps
<1>2. fd \in Used /\ c.sock = clients[fd].sock /\ (c.eof <=> clients[fd].eof)
  BY <1>1, Zenon DEF Served
<1>3. peers'[s] # peers[s]
  BY Zenon
<1>4. c.sock = s
  BY <1>1, <1>3, Zenon DEF Serves
<1>5. c.eof /\ ~c.reading /\ c.pending = 0
  BY <1>1, <1>4 DEF Serves
<1> QED
  BY <1>2, <1>4, <1>5, Zenon

\* What a connection has left.
Finished(s) ==
  /\ peers[s].wire = <<>> /\ \A fd \in Used : clients[fd].sock = s => clients[fd].in = <<>>
  /\ \A job \in Owed(s) : job = net.job /\ net.pc = "release"

LEMMA FinishedIs ==
  ASSUME ControlIInv, NEW s \in Sockets, NEW fd \in Used, clients[fd].sock = s,
         clients[fd].eof, clients[fd].in = <<>>,
         \A job \in Owed(s) : job = net.job /\ net.pc = "release"
  PROVE  Finished(s)
<1>1. peers[s].wire = <<>>
  BY Zenon DEF ControlIInv, Reading
<1>2. \A g \in Used : clients[g].sock = s => clients[g].in = <<>>
  BY Zenon DEF ControlIInv, Identified
<1> QED
  BY <1>1, <1>2 DEF Finished

LEMMA NothingOwed ==
  ASSUME ControlIInv, NEW s \in Sockets, NEW fd \in Used, clients[fd].sock = s,
         clients[fd].pending = 0, net.pc # "retain"
  PROVE  Owed(s) = {}
<1>1. Shaped /\ Counted
  BY Zenon DEF ControlIInv
<1>2. IsFiniteSet(Owed(s)) /\ Cardinality(Owed(s)) = 0
  BY <1>1, CountsAre
<1> QED
  BY <1>2, FS_EmptySet

LEMMA OneOwed ==
  ASSUME ControlIInv, NEW s \in Sockets, NEW fd \in Used, clients[fd].sock = s,
         net.pc = "release", net.job.sock = s,
         IF clients[fd].pending > 0 THEN clients[fd].pending - 1 = 0 ELSE TRUE
  PROVE  \A job \in Owed(s) : job = net.job
<1>1. Shaped /\ Counted
  BY Zenon DEF ControlIInv
<1>2. PICK m, n, T, j : m = clients[fd].pending /\ n = Cardinality(Owed(s))
                        /\ T = Owed(s) /\ j = net.job
  OBVIOUS
<1>3. IsFiniteSet(T) /\ m \in Nat /\ n = m /\ Cardinality(T) = n
  BY <1>1, <1>2, CountsAre
<1>4. j \in T
  BY <1>2 DEF Owed, Pool, Released
<1>5. n # 0
  BY <1>3, <1>4, FS_EmptySet
<1>6. n = 1
  BY <1>2, <1>3, <1>5
<1>7. \E x : T = {x}
  BY <1>3, <1>6, FS_Singleton
<1> QED
  BY <1>2, <1>4, <1>7

LEMMA DrainsFinished ==
  ASSUME ControlIInv, Next, NEW s \in Sockets,
         peers[s].over = "no", peers'[s].over = "drained"
  PROVE  Finished(s)
<1>0. Shaped /\ Identified /\ Watching /\ Placed /\ Reading /\ Cached /\ Promised
  BY Zenon DEF ControlIInv
<1>1. ~Kept
  BY Zenon DEF Kept
<1>2. ASSUME NEW fd, Opens(fd) \/ Reads(fd) PROVE FALSE
  BY <1>2, Zenon DEF Opens, Reads
\* A client whose lines are being executed is not drained.
<1>3. ASSUME NEW fd, NEW c, Steps(fd, c), c.reading PROVE FALSE
  BY <1>0, <1>3, StepDrains, Zenon
\* One without jobs has finished when nothing that was read is left.
<1>4. ASSUME NEW fd, NEW c, Steps(fd, c), c.pending = clients[fd].pending, net.pc # "retain",
             c.reading = clients[fd].reading \/ clients[fd].in = <<>>
      PROVE  Finished(s)
  <2>1. /\ fd \in Used /\ clients[fd].sock = s /\ clients[fd].eof
        /\ ~c.reading /\ clients[fd].pending = 0
    BY <1>0, <1>4, StepDrains, Zenon
  <2>2. clients[fd].in = <<>>
    BY <1>0, <1>4, <2>1, Zenon DEF Reading
  <2>3. Owed(s) = {}
    BY <1>4, <2>1, NothingOwed
  <2> QED
    BY <2>1, <2>2, <2>3, FinishedIs
<1>5. CASE Quiet \/ PeerStep
  BY <1>0, <1>1, <1>5, QuietDoes, QuietKept, PeersKept, Zenon DEF PeerStep
<1>6. CASE Accept
  BY <1>0, <1>1, <1>2, <1>6, AcceptDoes, Zenon
<1>7. CASE DispatchError \/ DispatchWrite
  <2>1. net.pc = "dispatch" /\ \E fd : Steps(fd, clients[fd])
    BY <1>0, <1>7, WriteDoes, Zenon
  <2> QED
    BY <1>4, <2>1
<1>8. CASE DispatchRead
  BY <1>0, <1>2, <1>8, ReadDoes, Zenon
<1>9. CASE Replay \/ Query \/ Reject \/ LineTooLong \/ TryPush
  <2>1. \E cmds : Line(cmds)
    BY <1>9, Zenon DEF Replay, Query, Reject, LineTooLong, TryPush, New
  <2>2. clients[net.fd].reading
    BY <1>0, <2>1, LineReading
  <2>3. CASE Answered
    BY <1>3, <2>2, <2>3, Zenon DEF Answered
  <2>4. CASE LineTooLong
    BY <1>0, <1>3, <2>2, <2>4, TooLongDoes, Zenon
  <2>5. CASE TryPush
    BY <1>0, <1>2, <2>3, <2>5, TryPushDoes, Zenon DEF Pushed
  <2> QED
    BY <1>0, <1>9, <2>3, <2>4, <2>5, LinesEffect, Zenon
<1>10. CASE Retain
  <2>1. PICK d : Steps(net.fd, d) /\ d.pending = clients[net.fd].pending + 1
                 /\ net.fd \in Used
    BY <1>0, <1>10, RetainDoes, Zenon
  <2>2. clients[net.fd].pending \in Nat
    BY <1>0, <2>1, UsedForm, Fields
  <2>3. d.pending # 0
    BY <2>1, <2>2
  <2> QED
    BY <1>0, <2>1, <2>3, StepDrains, Zenon
<1>11. CASE LinesDone
  <2>1. clients' = clients /\ peers' = peers /\ next' = next => FALSE
    BY <1>0, <1>1, QuietKept
  <2>2. PICK c : Steps(net.fd, c) /\ clients[net.fd].in = <<>>
                 /\ c.pending = clients[net.fd].pending
    BY <1>0, <1>11, <2>1, DoneDoes, Zenon
  <2>3. net.pc # "retain"
    BY <1>11 DEF LinesDone
  <2> QED
    BY <1>4, <2>2, <2>3
<1>12. CASE RunFunctor
  <2>1. clients' = clients /\ peers' = peers /\ next' = next => FALSE
    BY <1>0, <1>1, QuietKept
  <2>2. PICK fd, d : Steps(fd, d) /\ d.reading = clients[fd].reading
                     /\ d.pending = clients[fd].pending
    BY <1>0, <1>12, <2>1, FunctorDoes, Zenon
  <2>3. net.pc # "retain"
    BY <1>12 DEF RunFunctor
  <2> QED
    BY <1>4, <2>2, <2>3
<1>13. CASE Release
  <2>1. clients' = clients /\ peers' = peers /\ next' = next => FALSE
    BY <1>0, <1>1, QuietKept
  <2>2. PICK fd, d : /\ Steps(fd, d) /\ clients[fd].sock = net.job.sock
                     /\ d.reading = clients[fd].reading
                     /\ d.pending = IF clients[fd].pending > 0 THEN clients[fd].pending - 1 ELSE 0
    BY <1>0, <1>13, <2>1, ReleaseDoes, Zenon
  <2>3. net.pc = "release"
    BY <1>13 DEF Release
  <2>4. /\ fd \in Used /\ clients[fd].sock = s /\ clients[fd].eof
        /\ ~clients[fd].reading /\ d.pending = 0
    BY <1>0, <2>2, StepDrains, Zenon
  <2>5. clients[fd].in = <<>>
    BY <1>0, <2>4, Zenon DEF Reading
  <2>6. \A job \in Owed(s) : job = net.job
    BY <2>2, <2>3, <2>4, OneOwed
  <2> QED
    BY <2>3, <2>4, <2>5, <2>6, FinishedIs
<1> QED
  BY <1>5, <1>6, <1>7, <1>8, <1>9, <1>10, <1>11, <1>12, <1>13, Cases, Zenon

\* A half-closed connection is closed only when everything sent to it is read and
\* executed, and all its jobs are answered but the one being released (TcpServer.h,
\* flush and release): pending holds it for each of them.
THEOREM DrainsCompletely == Spec => DrainedCompletely
<1>1. ControlIInv /\ [Next]_vars =>
        [\A s \in 1..MaxSockets :
           peers[s].over = "no" /\ peers'[s].over = "drained"
             => /\ peers[s].wire = <<>>
                /\ \A fd \in Used : clients[fd].sock = s => clients[fd].in = <<>>
                /\ \A job \in Outstanding(s) : job = net.job /\ net.pc = "release"]_vars
  <2> SUFFICES ASSUME ControlIInv, Next, NEW s \in Sockets,
                      peers[s].over = "no", peers'[s].over = "drained"
               PROVE  /\ peers[s].wire = <<>>
                      /\ \A fd \in Used : clients[fd].sock = s => clients[fd].in = <<>>
                      /\ \A job \in Outstanding(s) : job = net.job /\ net.pc = "release"
    BY DEF Sockets
  <2>1. Finished(s)
    BY DrainsFinished
  <2>2. Outstanding(s) = Owed(s)
    BY OutstandingIsOwed, Zenon DEF ControlIInv
  <2> QED
    BY <2>1, <2>2 DEF Finished
<1> QED
  BY <1>1, ControlInductive, PTL DEF Spec, DrainedCompletely

-------------------------------------------------------------------------------
(* The type invariant: the bounds of the history, and of the table of clients. *)

\* Request n of those that socket s has not been answered yet is still to be read,
\* or is input of its client.
Waits(s, n) ==
  \/ n <= Len(peers[s].wire)
  \/ \E fd \in Used : clients[fd].sock = s /\ n <= Len(clients[fd].in) + Len(peers[s].wire)
Unread == {p \in Sockets \X (Nat \ {0}) : Waits(p[1], p[2])}

\* A request is executed, and makes a job, once at most.
Tally ==
  /\ requests \in 0..MaxRequests /\ executed \in [count : Nat, key : Keys]
  /\ IsFiniteSet(Unread) /\ jobs + Cardinality(Unread) <= requests
  /\ executed.count + Cardinality(Unread) <= requests

\* The table and the queue of jobs are never larger than their limits.
Room ==
  /\ IsFiniteSet(Used) /\ Cardinality(Used) <= MaxClients
  /\ Len(snapshots) <= SnapshotCapacity

\* Replies name jobs that were made.
Heard ==
  /\ \A fd \in Used : clients[fd].out \in Seq(Replies)
  /\ \A s \in Sockets : peers[s].got \in Seq(Replies)
  /\ \A k \in DOMAIN replies : replies[k] \in Replies

LEMMA RequestLimit == MaxRequests \in Nat
  BY LimitAssumption DEF LimitAssumption

LEMMA InitBounds == Init => Tally /\ Room /\ Heard
<1> SUFFICES ASSUME Init PROVE Tally /\ Room /\ Heard
  OBVIOUS
<1>1. Used = {} /\ \A s \in Sockets : peers[s].wire = <<>> /\ peers[s].got = <<>>
  BY DEF Init, Used, Sockets
<1>2. Unread = {}
  <2>1. ASSUME NEW s \in Sockets, NEW n \in Nat \ {0} PROVE ~Waits(s, n)
    <3>1. Len(peers[s].wire) = 0
      BY <1>1
    <3> QED
      BY <1>1, <3>1 DEF Waits
  <2> QED
    BY <2>1 DEF Unread
<1>3. IsFiniteSet({}) /\ Cardinality({}) = 0
  BY FS_EmptySet
<1>4. requests = 0 /\ jobs = 0 /\ executed = [count |-> 0, key |-> <<0, 0>>]
      /\ snapshots = <<>> /\ DOMAIN replies = {}
  BY DEF Init
<1>5. executed \in [count : Nat, key : Keys] /\ executed.count = 0
  BY <1>4 DEF Keys
<1>6. Tally
  <2>1. jobs + Cardinality(Unread) <= requests /\ executed.count + Cardinality(Unread) <= requests
    BY <1>2, <1>3, <1>4, <1>5
  <2>2. requests \in 0..MaxRequests
    BY <1>4, RequestLimit
  <2> QED
    BY <1>2, <1>3, <1>5, <2>1, <2>2, Zenon DEF Tally
<1>7. Room
  BY <1>1, <1>3, <1>4, Limits DEF Room
<1>8. Heard
  BY <1>1, <1>4, NoItems DEF Heard
<1> QED
  BY <1>6, <1>7, <1>8

\* What a step leaves unread.
LEMMA FewerUnread ==
  ASSUME \A s \in Sockets : Len(peers'[s].wire) \in Nat /\ Len(peers[s].wire) \in Nat
                            /\ Len(peers'[s].wire) <= Len(peers[s].wire),
         \A fd \in Used' :
           \/ clients'[fd].in = <<>>
           \/ /\ fd \in Used /\ clients'[fd].sock = clients[fd].sock
              /\ clients[fd].sock \in Sockets
              /\ Len(clients'[fd].in) \in Nat /\ Len(clients[fd].in) \in Nat
              /\ Len(clients'[fd].in) + Len(peers'[clients[fd].sock].wire)
                   <= Len(clients[fd].in) + Len(peers[clients[fd].sock].wire)
  PROVE  Unread' \subseteq Unread
<1>1. ASSUME NEW s \in Sockets, NEW n \in Nat \ {0}, Waits(s, n)' PROVE Waits(s, n)
  <2>1. PICK l, k : l = Len(peers[s].wire) /\ k = Len(peers'[s].wire)
    OBVIOUS
  <2>2. l \in Nat /\ k \in Nat /\ k <= l
    BY <2>1
  <2>3. CASE n <= k
    <3>1. n <= l
      BY <2>2, <2>3
    <3> QED
      BY <2>1, <3>1 DEF Waits
  <2>4. CASE ~(n <= k)
    <3>1. PICK fd \in Used' : clients'[fd].sock = s /\ n <= Len(clients'[fd].in) + k
      BY <1>1, <2>1, <2>4, Zenon DEF Waits
    <3>2. CASE clients'[fd].in = <<>>
      <4>1. Len(clients'[fd].in) = 0
        BY <3>2
      <4> QED
        BY <2>2, <2>4, <3>1, <4>1
    <3>3. CASE clients'[fd].in # <<>>
      <4>1. PICK a, b : a = Len(clients[fd].in) /\ b = Len(clients'[fd].in)
        OBVIOUS
      <4>2. fd \in Used /\ clients[fd].sock = s /\ a \in Nat /\ b \in Nat /\ b + k <= a + l
        BY <2>1, <3>1, <3>3, <4>1, Zenon
      <4>3. n <= a + l
        BY <2>2, <3>1, <4>1, <4>2
      <4> QED
        BY <2>1, <4>1, <4>2, <4>3, Zenon DEF Waits
    <3> QED
      BY <3>2, <3>3
  <2> QED
    BY <2>3, <2>4
<1>2. Unread' = {p \in Sockets \X (Nat \ {0}) : Waits(p[1], p[2])'}
  BY DEF Unread
<1>3. ASSUME NEW p \in Unread' PROVE p \in Unread
  <2>1. p \in Sockets \X (Nat \ {0}) /\ Waits(p[1], p[2])'
    BY <1>2, <1>3
  <2>2. p[1] \in Sockets /\ p[2] \in Nat \ {0}
    BY <2>1
  <2>3. Waits(p[1], p[2])
    BY <1>1, <2>1, <2>2
  <2> QED
    BY <2>1, <2>3 DEF Unread
<1> QED
  BY <1>3

\* The next line of client fd is taken, or all of them are dropped.
LEMMA OneLess ==
  ASSUME Shaped, Identified, NEW fd \in Used, clients[fd].in # <<>>,
         \A s \in Sockets : peers'[s].wire = peers[s].wire,
         Used' \subseteq Used, \A g \in Used' : clients'[g].sock = clients[g].sock,
         \A g \in Used' : g # fd => clients'[g].in = clients[g].in,
         fd \in Used' => clients'[fd].in = Tail(clients[fd].in)
  PROVE  \E x \in Unread : Unread' \subseteq Unread \ {x}
<1>1. PICK s, a, w : s = clients[fd].sock /\ a = Len(clients[fd].in) /\ w = Len(peers[s].wire)
  BY Zenon
<1>2. s \in Sockets /\ a \in Nat \ {0} /\ w \in Nat /\ Len(Tail(clients[fd].in)) = a - 1
  <2>1. clients[fd].in \in Seq(Requests) /\ s \in Sockets /\ peers[s].wire \in Seq(Requests)
    BY <1>1, UsedForm, Fields, PeerFields DEF Shaped
  <2>2. /\ Len(Tail(clients[fd].in)) = Len(clients[fd].in) - 1
        /\ Len(clients[fd].in) \in Nat \ {0}
    BY <2>1, ItemsOfTail
  <2>3. Len(peers[s].wire) \in Nat
    BY <2>1
  <2> QED
    BY <1>1, <2>1, <2>2, <2>3, Zenon
<1>3. PICK x : x = <<s, a + w>>
  OBVIOUS
<1>4. x \in Unread
  <2>1. a + w \in Nat \ {0} /\ a + w <= a + w
    BY <1>2
  <2>2. Waits(s, a + w)
    BY <1>1, <2>1, Zenon DEF Waits
  <2> QED
    BY <1>2, <1>3, <2>1, <2>2 DEF Unread
<1>5. ASSUME NEW t \in Sockets, NEW n \in Nat \ {0}, Waits(t, n)' PROVE Waits(t, n)
  <2>1. ASSUME NEW g \in Used', clients'[g].sock = t,
               n <= Len(clients'[g].in) + Len(peers'[t].wire)
        PROVE  Waits(t, n)
    <3>1. g \in Used /\ clients[g].sock = t /\ peers'[t].wire = peers[t].wire
      BY <2>1
    <3>2. CASE g # fd
      BY <2>1, <3>1, <3>2, Zenon DEF Waits
    <3>3. CASE g = fd
      <4>1. n <= (a - 1) + w /\ t = s
        BY <1>1, <1>2, <2>1, <3>1, <3>3
      <4>2. n <= a + w
        BY <1>2, <4>1
      <4> QED
        BY <1>1, <3>1, <3>3, <4>1, <4>2, Zenon DEF Waits
    <3> QED
      BY <3>2, <3>3
  <2>2. ASSUME n <= Len(peers'[t].wire) PROVE Waits(t, n)
    <3>1. peers'[t].wire = peers[t].wire
      OBVIOUS
    <3> QED
      BY <2>2, <3>1, Zenon DEF Waits
  <2> QED
    BY <1>5, <2>1, <2>2, Zenon DEF Waits
<1>6. ~Waits(s, a + w)'
  <2>1. ~(a + w <= w) /\ ~(a + w <= (a - 1) + w)
    BY <1>2
  <2>2. Len(peers'[s].wire) = w
    BY <1>1, <1>2
  <2>3. ASSUME NEW g \in Used', clients'[g].sock = s, a + w <= Len(clients'[g].in) + w
        PROVE  FALSE
    <3>1. g \in Used /\ clients[g].sock = s
      BY <2>3, Zenon
    <3>2. clients[g].sock = clients[fd].sock
      BY <1>1, <3>1, Zenon
    <3>3. g = fd
      BY <3>1, <3>2, Zenon DEF Identified
    <3> QED
      BY <1>2, <2>1, <2>3, <3>3
  <2> QED
    BY <2>1, <2>2, <2>3, Zenon DEF Waits
<1>7. Unread' = {p \in Sockets \X (Nat \ {0}) : Waits(p[1], p[2])'}
  BY DEF Unread
<1>8. ASSUME NEW p \in Unread' PROVE p \in Unread /\ p # x
  <2>1. p \in Sockets \X (Nat \ {0}) /\ Waits(p[1], p[2])'
    BY <1>7, <1>8
  <2>2. p[1] \in Sockets /\ p[2] \in Nat \ {0}
    BY <2>1
  <2>3. p \in Unread
    BY <1>5, <2>1, <2>2 DEF Unread
  <2>4. p # x
    <3>1. ~Waits(x[1], x[2])'
      BY <1>3, <1>6
    <3> QED
      BY <2>1, <3>1
  <2> QED
    BY <2>3, <2>4
<1> QED
  BY <1>4, <1>8

LEMMA OneMore ==
  ASSUME Shaped, Identified, NEW s \in Sockets, NEW request \in Requests, PeerSend(s, request)
  PROVE  \E x : Unread' \subseteq Unread \cup {x}
<1>1. /\ Connected(s) /\ clients' = clients
      /\ peers' = [peers EXCEPT ![s].wire = Append(@, request)]
  BY DEF PeerSend, PeerFrame
<1>2. PICK fd \in Used : clients[fd].sock = s
  BY <1>1, Zenon DEF Connected
<1>3. PICK a, w : a = Len(clients[fd].in) /\ w = Len(peers[s].wire)
  OBVIOUS
<1>4. peers[s] \in Peer /\ peers \in [Sockets -> Peer] /\ peers[s].wire \in Seq(Requests)
      /\ clients[fd].in \in Seq(Requests)
  BY <1>2, UsedForm, Fields, PeerFields DEF Shaped
<1>5. a \in Nat /\ w \in Nat /\ Len(peers'[s].wire) = w + 1
  <2>1. peers'[s] = [peers[s] EXCEPT !.wire = Append(peers[s].wire, request)]
    BY <1>1, <1>4
  <2>2. peers'[s].wire = Append(peers[s].wire, request)
    BY <1>4, <2>1 DEF Peer
  <2> QED
    BY <1>3, <1>4, <2>2
<1>6. \A t \in Sockets \ {s} : peers'[t] = peers[t]
  BY <1>1, <1>4
<1>7. Used' = Used
  BY <1>1 DEF Used
<1>8. ASSUME NEW t \in Sockets, NEW n \in Nat \ {0}, Waits(t, n)', <<t, n>> # <<s, a + w + 1>>
      PROVE  Waits(t, n)
  <2>1. CASE t # s
    BY <1>1, <1>6, <1>7, <1>8, <2>1, Zenon DEF Waits
  <2>2. CASE t = s
    <3>1. n <= w + 1 \/ \E g \in Used : clients[g].sock = s /\ n <= Len(clients[g].in) + (w + 1)
      BY <1>1, <1>5, <1>7, <1>8, <2>2, Zenon DEF Waits
    <3>2. \A g \in Used : clients[g].sock = s => g = fd
      BY <1>2, Zenon DEF Identified
    <3>3. n <= a + (w + 1)
      <4>1. CASE n <= w + 1
        BY <1>5, <4>1
      <4>2. CASE \E g \in Used : clients[g].sock = s /\ n <= Len(clients[g].in) + (w + 1)
        BY <1>3, <3>2, <4>2
      <4> QED
        BY <3>1, <4>1, <4>2
    <3>4. n # a + w + 1
      BY <1>8, <2>2
    <3>5. n <= a + w
      BY <1>5, <3>3, <3>4
    <3> QED
      BY <1>2, <1>3, <2>2, <3>5, Zenon DEF Waits
  <2> QED
    BY <2>1, <2>2
<1>9. Unread' = {p \in Sockets \X (Nat \ {0}) : Waits(p[1], p[2])'}
  BY DEF Unread
<1>10. ASSUME NEW p \in Unread', p # <<s, a + w + 1>> PROVE p \in Unread
  <2>1. p \in Sockets \X (Nat \ {0}) /\ Waits(p[1], p[2])'
    BY <1>9, <1>10
  <2>2. p[1] \in Sockets /\ p[2] \in Nat \ {0} /\ p = <<p[1], p[2]>>
    BY <2>1
  <2>3. Waits(p[1], p[2])
    BY <1>8, <1>10, <2>1, <2>2
  <2> QED
    BY <2>1, <2>3 DEF Unread
<1>11. Unread' \subseteq Unread \cup {<<s, a + w + 1>>}
  BY <1>10
<1> QED
  BY <1>11

LEMMA SameUnread ==
  ASSUME Shaped, \A s \in Sockets : peers'[s].wire = peers[s].wire,
         \A fd \in Used' : \/ clients'[fd].in = <<>>
                           \/ /\ fd \in Used /\ clients'[fd].sock = clients[fd].sock
                              /\ clients'[fd].in = clients[fd].in
  PROVE  Unread' \subseteq Unread
<1>1. ASSUME NEW s \in Sockets PROVE Len(peers[s].wire) \in Nat
  <2>1. peers[s].wire \in Seq(Requests)
    BY PeerFields DEF Shaped
  <2> QED
    BY <2>1
<1>2. ASSUME NEW fd \in Used PROVE Len(clients[fd].in) \in Nat /\ clients[fd].sock \in Sockets
  <2>1. clients[fd].in \in Seq(Requests) /\ clients[fd].sock \in Sockets
    BY UsedForm, Fields
  <2> QED
    BY <2>1
<1>3. \A s \in Sockets : Len(peers'[s].wire) \in Nat /\ Len(peers[s].wire) \in Nat
                         /\ Len(peers'[s].wire) <= Len(peers[s].wire)
  BY <1>1
<1>4. ASSUME NEW fd \in Used', clients'[fd].in # <<>>
      PROVE  /\ fd \in Used /\ clients'[fd].sock = clients[fd].sock
             /\ clients[fd].sock \in Sockets
             /\ Len(clients'[fd].in) \in Nat /\ Len(clients[fd].in) \in Nat
             /\ Len(clients'[fd].in) + Len(peers'[clients[fd].sock].wire)
                  <= Len(clients[fd].in) + Len(peers[clients[fd].sock].wire)
  <2>1. fd \in Used /\ clients'[fd].sock = clients[fd].sock /\ clients'[fd].in = clients[fd].in
    BY <1>4
  <2>2. /\ peers'[clients[fd].sock].wire = peers[clients[fd].sock].wire
        /\ Len(clients[fd].in) \in Nat /\ Len(peers[clients[fd].sock].wire) \in Nat
        /\ clients[fd].sock \in Sockets
    BY <1>1, <1>2, <2>1
  <2> QED
    BY <2>1, <2>2
<1> QED
  BY <1>3, <1>4, FewerUnread

LEMMA StepsUnread ==
  ASSUME Shaped, Identified, NEW fd, NEW c, Steps(fd, c)
  PROVE  /\ c.in = clients[fd].in => Unread' \subseteq Unread
         /\ clients[fd].in # <<>> /\ c.in = Tail(clients[fd].in)
              => \E x \in Unread : Unread' \subseteq Unread \ {x}
<1>1. Served(fd, c) /\ Serves(fd, c) /\ fd \in Used
  BY Zenon DEF Steps, Served
<1>2. /\ Used' \subseteq Used /\ \A g \in Used' : clients'[g].sock = clients[g].sock
      /\ fd \in Used' => Like(clients'[fd], c)
  BY <1>1, ServesUsed, Zenon
<1>3. \A s \in Sockets : peers'[s].wire = peers[s].wire
  BY <1>1, Zenon DEF Serves
<1>4. \A g \in Used' : g # fd => clients'[g].in = clients[g].in
  BY <1>1, <1>2, UsedForm, Zenon DEF Serves
<1>5. fd \in Used' => clients'[fd].in = c.in
  BY <1>2 DEF Like
<1>6. ASSUME c.in = clients[fd].in PROVE Unread' \subseteq Unread
  <2>1. \A g \in Used' : clients'[g].in = clients[g].in
    BY <1>4, <1>5, <1>6
  <2> QED
    BY <1>2, <1>3, <2>1, SameUnread
<1>7. ASSUME clients[fd].in # <<>>, c.in = Tail(clients[fd].in)
      PROVE  \E x \in Unread : Unread' \subseteq Unread \ {x}
  BY <1>1, <1>2, <1>3, <1>4, <1>5, <1>7, OneLess
<1> QED
  BY <1>6, <1>7

\* A step leaves the requests as they are, or takes one, or sends one.
Sits == Unread' \subseteq Unread /\ UNCHANGED <<jobs, executed, requests>>
Consumes ==
  /\ \E x \in Unread : Unread' \subseteq Unread \ {x}
  /\ jobs' \in {jobs, jobs + 1} /\ requests' = requests
  /\ \/ executed' = executed
     \/ \E key \in Keys : executed' = [count |-> executed.count + 1, key |-> key]
Posted ==
  /\ \E x : Unread' \subseteq Unread \cup {x}
  /\ requests < MaxRequests /\ requests' = requests + 1 /\ UNCHANGED <<jobs, executed>>

LEMMA TallyKept ==
  ASSUME Tally, jobs \in Nat, Sits \/ Consumes \/ Posted
  PROVE  Tally'
<1>1. PICK n, e, r, m : n = Cardinality(Unread) /\ e = executed.count /\ r = requests
                        /\ m = MaxRequests
  OBVIOUS
<1>2. /\ n \in Nat /\ e \in Nat /\ r \in 0..m /\ m \in Nat /\ jobs + n <= r /\ e + n <= r
      /\ IsFiniteSet(Unread)
  BY <1>1, RequestLimit, FS_CardinalityType DEF Tally
<1>3. ASSUME NEW k \in Nat, IsFiniteSet(Unread'), Cardinality(Unread') = k,
             executed' \in [count : Nat, key : Keys], requests' \in 0..m,
             jobs' + k <= requests', executed'.count + k <= requests'
      PROVE  Tally'
  BY <1>1, <1>3, Zenon DEF Tally
<1>4. CASE Sits
  <2>1. IsFiniteSet(Unread') /\ Cardinality(Unread') <= n /\ Cardinality(Unread') \in Nat
    BY <1>1, <1>2, <1>4, FS_Subset, FS_CardinalityType DEF Sits
  <2>2. jobs' = jobs /\ executed' = executed /\ requests' = requests
    BY <1>4 DEF Sits
  <2>3. executed \in [count : Nat, key : Keys]
    BY DEF Tally
  <2> QED
    BY <1>1, <1>2, <1>3, <2>1, <2>2, <2>3
<1>5. CASE Consumes
  <2>1. PICK x \in Unread : Unread' \subseteq Unread \ {x}
    BY <1>5 DEF Consumes
  <2>2. IsFiniteSet(Unread \ {x}) /\ Cardinality(Unread \ {x}) = n - 1
    BY <1>1, <1>2, <2>1, FS_RemoveElement
  <2>3. IsFiniteSet(Unread') /\ Cardinality(Unread') <= n - 1 /\ Cardinality(Unread') \in Nat
    BY <2>1, <2>2, FS_Subset, FS_CardinalityType
  <2>4. executed' \in [count : Nat, key : Keys] /\ executed'.count \in {e, e + 1}
    <3>1. executed \in [count : Nat, key : Keys]
      BY DEF Tally
    <3> QED
      BY <1>1, <1>2, <1>5, <3>1 DEF Consumes
  <2>5. jobs' \in {jobs, jobs + 1} /\ requests' = r
    BY <1>1, <1>5 DEF Consumes
  <2>6. PICK k : k = Cardinality(Unread')
    OBVIOUS
  <2>7. jobs' + k <= r /\ executed'.count + k <= r
    BY <1>2, <2>3, <2>4, <2>5, <2>6
  <2> QED
    BY <1>2, <1>3, <2>3, <2>4, <2>5, <2>6, <2>7
<1>6. CASE Posted
  <2>1. PICK x : Unread' \subseteq Unread \cup {x}
    BY <1>6 DEF Posted
  <2>2. IsFiniteSet(Unread \cup {x}) /\ Cardinality(Unread \cup {x}) \in {n, n + 1}
    BY <1>1, <1>2, FS_AddElement
  <2>3. IsFiniteSet(Unread') /\ Cardinality(Unread') <= n + 1 /\ Cardinality(Unread') \in Nat
    <3>1. IsFiniteSet(Unread') /\ Cardinality(Unread') <= Cardinality(Unread \cup {x})
      BY <2>1, <2>2, FS_Subset
    <3> QED
      BY <1>2, <2>2, <3>1, FS_CardinalityType
  <2>4. executed' = executed /\ jobs' = jobs /\ requests' = r + 1 /\ r < m
    BY <1>1, <1>6 DEF Posted
  <2>5. executed \in [count : Nat, key : Keys]
    BY DEF Tally
  <2>6. PICK k : k = Cardinality(Unread')
    OBVIOUS
  <2>7. jobs + k <= r + 1 /\ e + k <= r + 1 /\ r + 1 \in 0..m
    BY <1>2, <2>3, <2>4, <2>6
  <2> QED
    BY <1>1, <1>2, <1>3, <2>3, <2>4, <2>5, <2>6, <2>7
<1> QED
  BY <1>4, <1>5, <1>6

LEMMA OnlyAccept ==
  ASSUME [Next]_vars, ~Accept
  PROVE  next' = next
<1>1. CASE Quiet
  BY <1>1, QuietDoes
<1>2. CASE PeerStep
  BY <1>2 DEF PeerStep, PeerSend, PeerEnds, PeerStalls, PeerFrame
<1>3. CASE DispatchError \/ DispatchWrite \/ DispatchRead
  BY <1>3 DEF DispatchError, DispatchWrite, DispatchRead
<1>4. CASE Replay \/ Query \/ Reject \/ LineTooLong \/ TryPush \/ Retain \/ LinesDone
  BY <1>4 DEF Replay, Query, Reject, LineTooLong, TryPush, Retain, LinesDone, CommandFrame
<1>5. CASE RunFunctor \/ Release
  BY <1>5 DEF RunFunctor, Release
<1> QED
  BY <1>1, <1>2, <1>3, <1>4, <1>5, Cases, Zenon

\* Only these steps touch the numbers of requests, of jobs and of executions.
LEMMA NumbersStay ==
  ASSUME \/ Quiet \/ Accept \/ DispatchError \/ DispatchWrite \/ DispatchRead \/ LineTooLong
         \/ Retain \/ LinesDone \/ RunFunctor \/ Release
         \/ \E s \in Sockets : PeerStalls(s) \/ \E end \in {"half", "gone"} : PeerEnds(s, end)
  PROVE  UNCHANGED <<jobs, executed, requests>>
<1>1. CASE Quiet
  BY <1>1 DEF Quiet, Poll, DispatchListen, AcceptTooMany, AcceptFrame, AcceptDone, Swap,
              FunctorsDone, LoopFrame, IoTake, IoPost, IoFrame, Connect, PeerFrame, vars, work, world
<1>2. CASE Accept \/ DispatchError \/ DispatchWrite \/ DispatchRead
  BY <1>2 DEF Accept, AcceptFrame, DispatchError, DispatchWrite, DispatchRead, LoopFrame, work
<1>3. CASE LineTooLong \/ Retain \/ LinesDone \/ RunFunctor \/ Release
  BY <1>3 DEF LineTooLong, Retain, LinesDone, RunFunctor, Release, CommandFrame, work, world
<1>4. CASE \E s \in Sockets : PeerStalls(s) \/ \E end \in {"half", "gone"} : PeerEnds(s, end)
  BY <1>4 DEF PeerStalls, PeerEnds, PeerFrame, work, world
<1> QED
  BY <1>1, <1>2, <1>3, <1>4, Zenon

LEMMA EndsUnread ==
  ASSUME Shaped, NEW s \in Sockets, PeerStalls(s) \/ \E end \in {"half", "gone"} : PeerEnds(s, end)
  PROVE  Unread' \subseteq Unread
<1>1. clients' = clients /\ Used' = Used
  BY DEF PeerStalls, PeerEnds, PeerFrame, Used
<1>2. \A t \in Sockets : peers'[t].wire = peers[t].wire
  <2>1. peers \in [Sockets -> Peer]
    BY DEF Shaped
  <2>2. CASE PeerStalls(s)
    BY <2>1, <2>2 DEF PeerStalls, Peer
  <2>3. ASSUME NEW end \in {"half", "gone"}, PeerEnds(s, end)
        PROVE  \A t \in Sockets : peers'[t].wire = peers[t].wire
    BY <2>1, <2>3 DEF PeerEnds, Peer
  <2> QED
    BY <2>2, <2>3
<1> QED
  BY <1>1, <1>2, SameUnread

LEMMA AcceptUnread ==
  ASSUME Shaped, Identified, Accept
  PROVE  Unread' \subseteq Unread
<1>1. peers \in [Sockets -> Peer]
  BY DEF Shaped
<1>2. \A t \in Sockets : peers'[t].wire = peers[t].wire
  <2>1. CASE peers' = peers
    BY <2>1
  <2>2. CASE peers' = [peers EXCEPT ![next].over = "dropped"]
    BY <1>1, <2>2 DEF Peer
  <2> QED
    BY <2>1, <2>2, Zenon DEF Accept
<1>3. CASE Kept
  <2>1. clients' = clients /\ Used' = Used
    BY <1>3 DEF Kept, Used
  <2> QED
    BY <1>2, <2>1, SameUnread
<1>4. ASSUME NEW fd \in Fds, Opens(fd) PROVE Unread' \subseteq Unread
  <2>1. Used' = Used \cup {fd} /\ \A g \in Used : clients'[g] = clients[g]
    BY <1>4, OpensIdentity
  <2>2. clients'[fd].in = <<>>
    BY <1>4 DEF Opens
  <2> QED
    BY <1>2, <2>1, <2>2, SameUnread
<1> QED
  BY <1>3, <1>4, AcceptDoes

LEMMA ReadUnread ==
  ASSUME Shaped, Identified, Watching, Reading, DispatchRead
  PROVE  Unread' \subseteq Unread
<1>1. PICK fd, s : /\ fd \in Fds /\ s = clients[fd].sock /\ s \in Sockets
                   /\ Reads(fd) /\ MovesLines(fd, s)
  BY ReadDoes, Zenon
<1>2. /\ Used' = Used /\ fd \in Used /\ \A g \in Used : clients'[g].sock = clients[g].sock
      /\ peers' \in [Sockets -> Peer] /\ peers \in [Sockets -> Peer] /\ clients'[fd] \in Form
      /\ \A t \in Sockets \ {s} : peers'[t] = peers[t]
      /\ \A g \in Fds \ {fd} : clients'[g] = clients[g]
  BY <1>1, ReadsIdentity, Zenon DEF Reads, Shaped
<1>3. ASSUME NEW t \in Sockets
      PROVE  /\ Len(peers'[t].wire) \in Nat /\ Len(peers[t].wire) \in Nat
             /\ Len(peers'[t].wire) <= Len(peers[t].wire)
             /\ t # s => Len(peers'[t].wire) = Len(peers[t].wire)
  <2>1. peers'[t].wire \in Seq(Requests) /\ peers[t].wire \in Seq(Requests)
    BY <1>2, PeerFields
  <2>2. Len(peers'[t].wire) \in Nat /\ Len(peers[t].wire) \in Nat
    BY <2>1
  <2>3. CASE t = s
    BY <1>1, <2>2, <2>3 DEF MovesLines
  <2>4. CASE t # s
    <3>1. peers'[t] = peers[t]
      BY <1>2, <2>4
    <3> QED
      BY <2>2, <2>4, <3>1
  <2> QED
    BY <2>3, <2>4
<1>4. ASSUME NEW g \in Used
      PROVE  /\ clients[g].sock \in Sockets
             /\ Len(clients'[g].in) \in Nat /\ Len(clients[g].in) \in Nat
             /\ Len(clients'[g].in) + Len(peers'[clients[g].sock].wire)
                  <= Len(clients[g].in) + Len(peers[clients[g].sock].wire)
  <2>1. clients[g] \in Form /\ g \in Fds /\ clients[g].sock \in Sockets /\ clients'[g] \in Form
    BY <1>2, UsedForm
  <2>2. clients'[g].in \in Seq(Requests) /\ clients[g].in \in Seq(Requests)
    BY <2>1, Fields
  <2>3. Len(clients'[g].in) \in Nat /\ Len(clients[g].in) \in Nat
    BY <2>2
  <2>4. PICK a, b, v, w : /\ a = Len(clients[g].in) /\ v = Len(peers[clients[g].sock].wire)
                          /\ b = Len(clients'[g].in) /\ w = Len(peers'[clients[g].sock].wire)
    BY Zenon
  <2>5. v \in Nat /\ w \in Nat
    BY <1>3, <2>1, <2>4
  <2>6. a \in Nat /\ b \in Nat
    BY <2>3, <2>4, Zenon
  <2>7. b + w = a + v
    <3>1. CASE g = fd
      BY <1>1, <2>4, <3>1, Zenon DEF MovesLines
    <3>2. CASE g # fd
      <4>1. clients'[g] = clients[g] /\ clients[g].sock # s
        BY <1>1, <1>2, <2>1, <3>2, Zenon DEF Identified
      <4>2. Len(peers'[clients[g].sock].wire) = Len(peers[clients[g].sock].wire)
        BY <1>3, <2>1, <4>1, Zenon
      <4> QED
        BY <2>4, <4>1, <4>2, Zenon
    <3> QED
      BY <3>1, <3>2
  <2>8. b + w <= a + v
    BY <2>5, <2>6, <2>7
  <2> QED
    BY <2>1, <2>3, <2>4, <2>8, Zenon
<1> QED
  BY <1>2, <1>3, <1>4, FewerUnread

LEMMA AnsweredUnread ==
  ASSUME Shaped, Identified, Placed, NEW cmds, Line(cmds), Answered
  PROVE  \E x \in Unread : Unread' \subseteq Unread \ {x}
<1>1. PICK fd, d : fd = net.fd /\ Steps(fd, d) /\ d.in = Tail(clients[fd].in)
  BY Zenon DEF Answered
<1>2. clients[fd].in # <<>>
  BY <1>1, LineFacts
<1> QED
  BY <1>1, <1>2, StepsUnread

LEMMA PushedUnread ==
  ASSUME Shaped, Identified, Placed, Pushed
  PROVE  \E x \in Unread : Unread' \subseteq Unread \ {x}
<1>1. PICK fd : fd = net.fd
  OBVIOUS
<1>2. /\ Reads(fd) /\ clients'[fd] = Rest /\ peers' = peers /\ Line({"capture", "get_preview"})
  BY <1>1, Zenon DEF Pushed, New
<1>3. clients[fd].in # <<>> /\ clients'[fd].in = Tail(clients[fd].in)
  BY <1>1, <1>2, LineFacts
<1>4. Used' = Used /\ fd \in Used /\ \A g \in Used : clients'[g].sock = clients[g].sock
  BY <1>2, ReadsIdentity
<1>5. \A g \in Used' : g # fd => clients'[g].in = clients[g].in
  BY <1>2, <1>4, UsedForm DEF Reads
<1>6. \A s \in Sockets : peers'[s].wire = peers[s].wire
  BY <1>2
<1> QED
  BY <1>3, <1>4, <1>5, <1>6, OneLess

LEMMA ExecutingDoes ==
  ASSUME Shaped, Identified, Placed, NEW cmds, Line(cmds), Executing(Key)
  PROVE  \/ executed' = executed
         \/ \E key \in Keys : executed' = [count |-> executed.count + 1, key |-> key]
<1>1. Key \in Keys
  <2>1. Key \in CacheKeys
    BY LineFacts
  <2> QED
    BY <2>1 DEF CacheKeys, Keys, Sockets
<1> QED
  BY <1>1, Zenon DEF Executing

LEMMA TallySteps ==
  ASSUME Shaped, Identified, Watching, Placed, Reading, Cached, Promised, [Next]_vars
  PROVE  Sits \/ Consumes \/ Posted
<1>1. ASSUME clients' = clients, peers' = peers PROVE Unread' \subseteq Unread
  BY <1>1, SameUnread DEF Used
<1>2. ASSUME NEW fd, NEW d, Steps(fd, d), d.in = clients[fd].in PROVE Unread' \subseteq Unread
  BY <1>2, StepsUnread
<1>3. CASE Quiet
  BY <1>1, <1>3, QuietDoes, NumbersStay DEF Sits
<1>4. CASE PeerStep
  <2>1. PICK s \in Sockets : \/ \E request \in Requests : PeerSend(s, request)
                             \/ \E end \in {"half", "gone"} : PeerEnds(s, end)
                             \/ PeerStalls(s)
    BY <1>4, Zenon DEF PeerStep
  <2>2. CASE \E request \in Requests : PeerSend(s, request)
    <3>1. PICK request \in Requests : PeerSend(s, request)
      BY <2>2
    <3>2. \E x : Unread' \subseteq Unread \cup {x}
      BY <3>1, OneMore
    <3>3. requests < MaxRequests /\ requests' = requests + 1 /\ UNCHANGED <<jobs, executed>>
      BY <3>1 DEF PeerSend, PeerFrame, work
    <3> QED
      BY <3>2, <3>3, Zenon DEF Posted
  <2>3. CASE PeerStalls(s) \/ \E end \in {"half", "gone"} : PeerEnds(s, end)
    BY <2>3, EndsUnread, NumbersStay, Zenon DEF Sits
  <2> QED
    BY <2>1, <2>2, <2>3, Zenon
<1>5. CASE Accept \/ DispatchRead
  BY <1>5, AcceptUnread, ReadUnread, NumbersStay, Zenon DEF Sits
<1>6. CASE DispatchError \/ DispatchWrite
  <2>1. PICK fd, c : Steps(fd, c) /\ c = clients[fd]
    BY <1>6, WriteDoes, Zenon
  <2>2. Unread' \subseteq Unread
    BY <1>2, <2>1
  <2> QED
    BY <1>6, <2>2, NumbersStay, Zenon DEF Sits
<1>7. CASE LineTooLong
  <2>1. PICK fd, c : Steps(fd, c) /\ c = clients[fd]
    BY <1>7, TooLongDoes, Zenon
  <2>2. Unread' \subseteq Unread
    BY <1>2, <2>1
  <2> QED
    BY <1>7, <2>2, NumbersStay, Zenon DEF Sits
<1>8. CASE Retain \/ LinesDone \/ RunFunctor \/ Release
  <2>1. \/ clients' = clients /\ peers' = peers
        \/ \E fd, d : Steps(fd, d) /\ d.in = clients[fd].in
    BY <1>8, RetainDoes, DoneDoes, FunctorDoes, ReleaseDoes, Zenon
  <2>2. Unread' \subseteq Unread
    BY <1>1, <1>2, <2>1
  <2> QED
    BY <1>8, <2>2, NumbersStay, Zenon DEF Sits
<1>9. CASE Replay \/ Query \/ Reject
  <2>1. PICK cmds : Line(cmds)
    BY <1>9, Zenon DEF Replay, Query, Reject, New
  <2>2. CASE LineTooLong
    BY <1>7, <2>2
  <2>3. CASE Answered
    <3>1. \E x \in Unread : Unread' \subseteq Unread \ {x}
      BY <2>1, <2>3, AnsweredUnread
    <3>2. jobs' = jobs /\ requests' = requests
      BY <1>9 DEF Replay, Query, Reject, CommandFrame, work, world
    <3>3. executed' = executed \/ Executing(Key)
      BY <1>9, Zenon DEF Replay, Query, Reject
    <3>4. \/ executed' = executed
          \/ \E key \in Keys : executed' = [count |-> executed.count + 1, key |-> key]
      BY <2>1, <3>3, ExecutingDoes
    <3> QED
      BY <3>1, <3>2, <3>4 DEF Consumes
  <2> QED
    BY <1>9, <2>2, <2>3, LinesEffect
<1>10. CASE TryPush
  <2>1. Line({"capture", "get_preview"})
    BY <1>10, Zenon DEF TryPush, New
  <2>2. Pushed \/ (Answered /\ jobs' = jobs)
    BY <1>10, TryPushDoes, Zenon
  <2>3. \E x \in Unread : Unread' \subseteq Unread \ {x}
    BY <2>1, <2>2, PushedUnread, AnsweredUnread
  <2>4. jobs' \in {jobs, jobs + 1}
    BY <2>2 DEF Pushed
  <2>5. requests' = requests /\ (executed' = executed \/ Executing(Key))
    BY <1>10 DEF TryPush, CommandFrame, world
  <2>6. \/ executed' = executed
        \/ \E key \in Keys : executed' = [count |-> executed.count + 1, key |-> key]
    BY <2>1, <2>5, ExecutingDoes
  <2> QED
    BY <2>3, <2>4, <2>5, <2>6, Zenon DEF Consumes
<1> QED
  BY <1>3, <1>4, <1>5, <1>6, <1>7, <1>8, <1>9, <1>10, Cases, Zenon

LEMMA RoomKept ==
  ASSUME Shaped, Identified, Watching, Placed, Reading, Cached, Promised, Next, Room
  PROVE  Room'
<1>1. MaxClients \in Nat /\ SnapshotCapacity \in Nat
  BY Limits
<1>2. Effect
  BY AnyEffect
<1>3. IsFiniteSet(Used') /\ Cardinality(Used') <= MaxClients
  <2>1. ASSUME Used' \subseteq Used PROVE IsFiniteSet(Used') /\ Cardinality(Used') <= MaxClients
    <3>1. IsFiniteSet(Used) /\ Cardinality(Used) \in Nat /\ Cardinality(Used) <= MaxClients
      BY FS_CardinalityType DEF Room
    <3>2. /\ IsFiniteSet(Used') /\ Cardinality(Used') <= Cardinality(Used)
          /\ Cardinality(Used') \in Nat
      BY <2>1, <3>1, FS_Subset, FS_CardinalityType
    <3> QED
      BY <1>1, <3>1, <3>2
  <2>2. CASE Kept
    BY <2>1, <2>2 DEF Kept, Used
  <2>3. CASE \E fd \in Fds : Reads(fd)
    BY <2>1, <2>3, ReadsIdentity
  <2>4. CASE \E fd \in Fds : \E c \in Form : Steps(fd, c)
    <3>1. PICK fd, c : Served(fd, c) /\ Serves(fd, c)
      BY <2>4, Zenon DEF Steps
    <3> QED
      BY <2>1, <3>1, ServesUsed
  <2>5. ASSUME NEW fd \in Fds, Opens(fd)
        PROVE  IsFiniteSet(Used') /\ Cardinality(Used') <= MaxClients
    <3>1. Used' = Used \cup {fd} /\ fd \notin Used
      BY <2>5, OpensIdentity
    <3>2. Accept
      <4>1. next \in Nat /\ next' = next + 1
        BY <2>5, Zenon DEF Opens, Shaped
      <4>2. next' # next
        BY <4>1
      <4> QED
        BY <4>2, OnlyAccept
    <3>3. Cardinality(Used) < MaxClients
      BY <3>2, Zenon DEF Accept
    <3>4. IsFiniteSet(Used) /\ Cardinality(Used) \in Nat
      BY FS_CardinalityType DEF Room
    <3>5. IsFiniteSet(Used \cup {fd}) /\ Cardinality(Used \cup {fd}) = Cardinality(Used) + 1
      BY <3>1, <3>4, FS_AddElement
    <3> QED
      BY <1>1, <3>1, <3>3, <3>4, <3>5
  <2> QED
    BY <1>2, <2>2, <2>3, <2>4, <2>5, Zenon DEF Effect
<1>4. Len(snapshots') <= SnapshotCapacity
  <2>1. snapshots \in Seq(Given) /\ Len(snapshots) <= SnapshotCapacity
    BY DEF Shaped, Room
  <2>2. CASE snapshots' = snapshots
    BY <2>1, <2>2
  <2>3. CASE Takes
    <3>1. Len(Tail(snapshots)) = Len(snapshots) - 1 /\ Len(snapshots) \in Nat
      BY <2>1, <2>3, ItemsOfTail DEF Takes
    <3> QED
      BY <1>1, <2>1, <2>3, <3>1 DEF Takes
  <2>4. CASE Pushes
    <3>1. /\ snapshots' = Append(snapshots, NewJob) /\ Len(snapshots) # SnapshotCapacity
      BY <2>4 DEF Pushes, Pushed, Accepts
    <3>2. Len(Append(snapshots, NewJob)) = Len(snapshots) + 1 /\ Len(snapshots) \in Nat
      BY <2>1
    <3> QED
      BY <1>1, <2>1, <3>1, <3>2
  <2> QED
    BY <2>2, <2>3, <2>4, Flow DEF Stands, WorkStays, Swaps, Posts, Starts, Ends
<1> QED
  BY <1>3, <1>4 DEF Room

\* No job has a number above the bound.
LEMMA JobsBound ==
  ASSUME Shaped, Tally
  PROVE  jobs \in 0..MaxRequests /\ executed.count \in 0..MaxRequests
<1>1. PICK n, e : n = Cardinality(Unread) /\ e = executed.count
  OBVIOUS
<1>2. /\ n \in Nat /\ e \in Nat /\ requests \in 0..MaxRequests /\ MaxRequests \in Nat
      /\ jobs + n <= requests /\ e + n <= requests /\ jobs \in Nat
  BY <1>1, RequestLimit, FS_CardinalityType DEF Tally, Shaped
<1> QED
  BY <1>1, <1>2

LEMMA BoundedReply ==
  ASSUME NEW r \in Answers, r.job \in 0..MaxRequests
  PROVE  r \in Replies
BY DEF Answers, Replies, Sockets

\* The two parts of a sequence of replies.
LEMMA PartsOf ==
  ASSUME NEW S, NEW T, NEW a \in Seq(S), NEW b \in Seq(S), a \o b \in Seq(T)
  PROVE  a \in Seq(T) /\ b \in Seq(T)
<1>1. PICK c : c = a \o b
  OBVIOUS
<1>2. /\ Len(a) \in Nat /\ Len(b) \in Nat /\ Len(c) = Len(a) + Len(b)
      /\ \A i \in 1..Len(a) : c[i] = a[i]
      /\ \A i \in 1..Len(b) : c[Len(a) + i] = b[i]
  BY <1>1
<1>3. c \in Seq(T)
  BY <1>1
<1>4. \A i \in 1..Len(a) + Len(b) : c[i] \in T
  BY <1>2, <1>3
<1>5. \A i \in 1..Len(a) : a[i] \in T
  <2>1. ASSUME NEW i \in 1..Len(a) PROVE i \in 1..Len(a) + Len(b)
    BY <1>2
  <2> QED
    BY <1>2, <1>4, <2>1, Zenon
<1>6. \A i \in 1..Len(b) : b[i] \in T
  <2>1. ASSUME NEW i \in 1..Len(b) PROVE Len(a) + i \in 1..Len(a) + Len(b)
    BY <1>2
  <2> QED
    BY <1>2, <1>4, <2>1, Zenon
<1> QED
  BY <1>5, <1>6

LEMMA ToldBound ==
  ASSUME NEW q \in Seq(Replies), NEW n \in Told(q)
  PROVE  n \in 0..MaxRequests
<1>1. PICK i \in DOMAIN q : n = q[i].job
  BY DEF Told
<1>2. q[i] \in Replies
  BY <1>1
<1> QED
  BY <1>1, <1>2 DEF Replies

\* What a client has to say by now.
LEMMA SaysReplies ==
  ASSUME Shaped, Identified, Tally, Heard, NEW fd, NEW c, Served(fd, c), Answerable(fd, c)
  PROVE  c.out \in Seq(Replies)
<1>1. fd \in Used /\ c.sock = clients[fd].sock /\ clients[fd].out \in Seq(Replies)
  BY DEF Served, Heard
<1>2. CASE c.out = clients[fd].out
  BY <1>1, <1>2
<1>3. ASSUME NEW r \in To(c.sock), c.out = Append(clients[fd].out, r),
             r.job = 0 \/ (r.status # "completed" /\ r.job <= jobs) \/ r.job \in Told(Sent(c.sock))
      PROVE  c.out \in Seq(Replies)
  <2>1. r \in Answers /\ r.job \in Nat
    BY ToAnswers, AnswerFields
  <2>2. r.job \in 0..MaxRequests
    <3>1. CASE r.job = 0
      BY <3>1, RequestLimit
    <3>2. CASE r.job <= jobs
      <4>1. jobs \in 0..MaxRequests
        BY JobsBound
      <4> QED
        BY <2>1, <3>2, <4>1, RequestLimit
    <3>3. CASE r.job \in Told(Sent(c.sock))
      <4>1. PICK a, b : a = peers[c.sock].got /\ b = clients[fd].out
        OBVIOUS
      <4>2. Sent(c.sock) = a \o b
        BY <1>1, <4>1, SentToOpen, Zenon
      <4>3. a \in Seq(Replies) /\ b \in Seq(Replies)
        BY <1>1, <4>1, UsedForm DEF Heard
      <4>4. a \o b \in Seq(Replies)
        BY <4>3
      <4> QED
        BY <3>3, <4>2, <4>4, ToldBound
    <3> QED
      BY <1>3, <3>1, <3>2, <3>3
  <2>3. r \in Replies
    BY <2>1, <2>2, BoundedReply
  <2> QED
    BY <1>1, <1>3, <2>3
<1> QED
  BY <1>2, <1>3, Zenon DEF Answerable

LEMMA ServesHeard ==
  ASSUME Shaped, Identified, Tally, Heard, NEW fd, NEW c, Steps(fd, c)
  PROVE  /\ \A g \in Used' : clients'[g].out \in Seq(Replies)
         /\ \A t \in Sockets : peers'[t].got \in Seq(Replies)
<1>1. Served(fd, c) /\ Serves(fd, c) /\ Answerable(fd, c)
  BY Zenon DEF Steps
<1>2. PICK s, out, got : s = c.sock /\ out = c.out /\ got = peers[s].got
  OBVIOUS
<1>3. s \in Sockets /\ fd \in Used /\ s = clients[fd].sock
  BY <1>1, <1>2, UsedForm DEF Served
<1>4. out \in Seq(Replies) /\ got \in Seq(Replies)
  BY <1>1, <1>2, <1>3, SaysReplies DEF Heard
<1>5. got \o out \in Seq(Replies)
  BY <1>4
<1>6. \/ clients'[fd] = NoClient /\ peers'[s].got \in {got, got \o out}
      \/ /\ clients'[fd].out \in Seq(To(s)) /\ peers'[s].got \in Seq(To(s))
         /\ peers'[s].got \o clients'[fd].out = got \o out
  BY <1>1, <1>2, Zenon DEF Serves
<1>7. /\ peers'[s].got \in Seq(Replies)
      /\ clients'[fd] = NoClient \/ clients'[fd].out \in Seq(Replies)
  <2>1. CASE clients'[fd] = NoClient /\ peers'[s].got \in {got, got \o out}
    BY <1>4, <1>5, <2>1
  <2>2. CASE /\ clients'[fd].out \in Seq(To(s)) /\ peers'[s].got \in Seq(To(s))
             /\ peers'[s].got \o clients'[fd].out = got \o out
    <3>1. PICK a, b : a = peers'[s].got /\ b = clients'[fd].out
      OBVIOUS
    <3>2. a \in Seq(To(s)) /\ b \in Seq(To(s)) /\ a \o b \in Seq(Replies)
      BY <1>5, <2>2, <3>1
    <3> QED
      BY <3>1, <3>2, PartsOf, Zenon
  <2> QED
    BY <1>6, <2>1, <2>2
<1>8. ASSUME NEW g \in Used' PROVE clients'[g].out \in Seq(Replies)
  <2>1. clients'[g] # NoClient /\ g \in Used
    BY <1>1, ServesUsed DEF Used
  <2>2. CASE g = fd
    BY <1>7, <2>1, <2>2
  <2>3. CASE g # fd
    <3>1. clients'[g] = clients[g]
      BY <1>1, <2>1, <2>3, UsedForm, Zenon DEF Serves
    <3> QED
      BY <2>1, <3>1 DEF Heard
  <2> QED
    BY <2>2, <2>3
<1>9. ASSUME NEW t \in Sockets PROVE peers'[t].got \in Seq(Replies)
  <2>1. CASE t = s
    BY <1>7, <2>1
  <2>2. CASE t # s
    <3>1. peers'[t] = peers[t]
      BY <1>1, <1>2, <2>2, Zenon DEF Serves
    <3> QED
      BY <3>1 DEF Heard
  <2> QED
    BY <2>1, <2>2
<1> QED
  BY <1>8, <1>9

LEMMA StoredBound ==
  ASSUME Shaped, Identified, Placed, Cached, Next, Tally, Heard, next' \in {next, next + 1},
         NEW k \in DOMAIN replies'
  PROVE  replies'[k] \in Replies
<1>1. PICK r : r = replies'[k]
  OBVIOUS
<1>2. Cached' /\ \/ Caches(0, 0)
                 \/ Retain /\ Caches(net.job.sock, net.job.n)
                 \/ RunFunctor /\ Caches(Head(batch).sock, Head(batch).n)
  BY CachedKept
<1>3. r \in Answers
  <2>1. r \in To(k[1])
    BY <1>1, <1>2, Zenon DEF Cached, OwnReply
  <2> QED
    BY <2>1, ToAnswers
<1>4. \A j \in Given : j.n \in 0..MaxRequests
  <2>1. ASSUME NEW j \in Given PROVE j.n \in 0..MaxRequests
    <3>1. j.n \in Nat /\ j.n <= jobs /\ jobs \in 0..MaxRequests
      BY JobFacts, JobsBound
    <3> QED
      BY <3>1, RequestLimit
  <2> QED
    BY <2>1
<1>5. ASSUME NEW s, NEW n \in 0..MaxRequests, Caches(s, n) PROVE r \in Replies
  <2>1. (k \in DOMAIN replies /\ r = replies[k]) \/ r.job = 0 \/ r.job = n
    BY <1>1, <1>5, Zenon DEF Caches
  <2>2. CASE k \in DOMAIN replies /\ r = replies[k]
    BY <2>2 DEF Heard
  <2>3. CASE r.job = 0 \/ r.job = n
    <3>1. r.job \in 0..MaxRequests
      BY <1>5, <2>3, RequestLimit
    <3> QED
      BY <1>3, <3>1, BoundedReply
  <2> QED
    BY <2>1, <2>2, <2>3
<1>6. CASE Caches(0, 0)
  <2>1. 0 \in 0..MaxRequests
    BY RequestLimit
  <2> QED
    BY <1>1, <1>5, <1>6, <2>1
<1>7. CASE Retain /\ Caches(net.job.sock, net.job.n)
  <2>1. net.job \in Given
    BY <1>7, RetainDoes
  <2>2. net.job.n \in 0..MaxRequests
    BY <1>4, <2>1
  <2> QED
    BY <1>1, <1>5, <1>7, <2>2
<1>8. CASE RunFunctor /\ Caches(Head(batch).sock, Head(batch).n)
  <2>1. batch # <<>> /\ batch \in Seq(Given)
    BY <1>8, Zenon DEF RunFunctor, Shaped
  <2>2. Head(batch) \in Given
    BY <2>1, ItemsOfTail
  <2>3. Head(batch).n \in 0..MaxRequests
    BY <1>4, <2>2
  <2> QED
    BY <1>1, <1>5, <1>8, <2>3
<1> QED
  BY <1>2, <1>6, <1>7, <1>8

LEMMA HeardKept ==
  ASSUME Shaped, Identified, Watching, Placed, Reading, Cached, Promised, Next, Tally, Heard
  PROVE  Heard'
<1>1. Effect /\ next' \in {next, next + 1}
  BY AnyEffect, EndsKept
<1>2. \A k \in DOMAIN replies' : replies'[k] \in Replies
  BY <1>1, StoredBound
<1> DEFINE Said == /\ \A g \in Used' : clients'[g].out \in Seq(Replies)
                   /\ \A t \in Sockets : peers'[t].got \in Seq(Replies)
<1>3. ASSUME Kept PROVE Said
  <2>1. clients' = clients /\ Used' = Used /\ \A t \in Sockets : peers'[t].got = peers[t].got
    BY <1>3, Zenon DEF Kept, Used
  <2> QED
    BY <2>1, Zenon DEF Heard
<1>4. ASSUME NEW fd \in Fds, Opens(fd) PROVE Said
  <2>1. Used' = Used \cup {fd} /\ \A g \in Used : clients'[g] = clients[g]
    BY <1>4, OpensIdentity
  <2>2. clients'[fd].out = <<>> /\ peers' = peers
    BY <1>4 DEF Opens
  <2> QED
    BY <2>1, <2>2, NoItems DEF Heard
<1>5. ASSUME NEW fd \in Fds, Reads(fd) PROVE Said
  <2>1. Used' = Used
    BY <1>5, ReadsIdentity
  <2>2. ASSUME NEW g \in Used PROVE clients'[g].out = clients[g].out
    BY <1>5, <2>2, UsedForm DEF Reads
  <2>3. \A t \in Sockets : peers'[t].got = peers[t].got
    BY <1>5, Zenon DEF Reads
  <2> QED
    BY <2>1, <2>2, <2>3 DEF Heard
<1>6. ASSUME NEW fd \in Fds, NEW c \in Form, Steps(fd, c) PROVE Said
  BY <1>6, ServesHeard
<1> HIDE DEF Said
<1>7. Said
  BY <1>1, <1>3, <1>4, <1>5, <1>6, Zenon DEF Effect, Said
<1> QED
  BY <1>2, <1>7 DEF Heard, Said

LEMMA StutterBounds ==
  ASSUME UNCHANGED vars, Tally, Room, Heard
  PROVE  Tally' /\ Room' /\ Heard'
<1>1. /\ clients' = clients /\ peers' = peers /\ replies' = replies /\ snapshots' = snapshots
      /\ jobs' = jobs /\ requests' = requests /\ executed' = executed
  BY DEF vars, store, work, world
<1>2. Used' = Used /\ Unread' = Unread
  BY <1>1 DEF Used, Unread, Waits
<1> QED
  BY <1>1, <1>2 DEF Tally, Room, Heard

Bounded == Tally /\ Room /\ Heard

LEMMA TypesFollow ==
  ASSUME ControlIInv, Bounded
  PROVE  TypeOK
<1>1. Shaped /\ Identified /\ Cached /\ Tally /\ Room /\ Heard
  BY DEF ControlIInv, Bounded
<1>2. jobs \in 0..MaxRequests /\ executed.count \in 0..MaxRequests /\ Sockets \subseteq Nat
  BY <1>1, JobsBound DEF Sockets
<1>3. clients \in [Fds -> Clients \cup {NoClient}]
  <2>1. ASSUME NEW fd \in Fds, clients[fd] # NoClient PROVE clients[fd] \in Clients
    <3>1. PICK c : c = clients[fd]
      OBVIOUS
    <3>2. c \in Form /\ c.out \in Seq(Replies)
      BY <1>1, <2>1, <3>1, UsedForm DEF Used, Heard
    <3>3. c \in Clients
      BY <3>2 DEF Form, Clients, Sockets
    <3> QED
      BY <3>1, <3>3
  <2>2. clients \in [Fds -> Form \cup {NoClient}]
    BY <1>1 DEF Shaped
  <2> QED
    BY <2>1, <2>2
<1>4. Cardinality({fd \in Fds : clients[fd] # NoClient}) <= MaxClients
  BY <1>1 DEF Room, Used
<1>5. next \in Nat /\ backlog \in Nat /\ requests \in 0..MaxRequests
  BY <1>1 DEF Shaped, Tally
<1>6. order \in Seq(Keys) /\ Len(order) <= CacheLimit /\ inserted \in Seq(Keys)
  <2>1. order \in Seq(CacheKeys) /\ inserted \in Seq(CacheKeys) /\ LatestOf(order, inserted)
    BY <1>1 DEF Cached
  <2>2. CacheKeys \subseteq Keys
    BY <1>2 DEF CacheKeys, Keys
  <2>3. Len(order) <= CacheLimit
    <3>1. Len(inserted) \in Nat /\ CacheLimit \in Nat
      BY <2>1, Limits, ItemsOf
    <3>2. Len(order) = (IF Len(inserted) < CacheLimit THEN Len(inserted) ELSE CacheLimit)
      BY <2>1 DEF LatestOf
    <3> QED
      BY <3>1, <3>2
  <2> QED
    BY <2>1, <2>2, <2>3, SeqWider
<1>7. DOMAIN replies = ToSet(order) /\ \A k \in DOMAIN replies : replies[k] \in Replies
  BY <1>1 DEF Cached, Heard
<1>8. Given \subseteq Jobs
  <2>1. ASSUME NEW j \in Given PROVE j \in Jobs
    <3>1. /\ j \in [conn : Sockets, sock : Sockets, id : Ids, cached : BOOLEAN, n : Nat \ {0}]
          /\ j.n <= jobs
      BY DEF Given
    <3>2. j.n \in 1..MaxRequests
      BY <1>2, <3>1, RequestLimit
    <3> QED
      BY <1>2, <3>1, <3>2 DEF Jobs, Sockets
  <2> QED
    BY <2>1
<1>9. /\ snapshots \in Seq(Jobs) /\ functors \in Seq(Jobs) /\ batch \in Seq(Jobs)
      /\ io \in Jobs \cup {NoJob}
  BY <1>1, <1>8, SeqWider DEF Shaped
<1>10. Len(snapshots) <= SnapshotCapacity
  BY <1>1 DEF Room
<1>11. ready \in SUBSET [fd : Fds \cup {0}, sock : 0..MaxSockets,
                         flags : SUBSET {"in", "out", "err"}]
  BY <1>1 DEF Shaped, Event
<1>12. net \in [pc : {"poll", "dispatch", "accept", "lines", "retain", "tasks", "release"},
                fd : Fds \cup {0}, job : Jobs \cup {NoJob}]
  <2>1. net \in [pc : Pcs, fd : Fds \cup {0}, job : Given \cup {NoJob}]
    BY <1>1 DEF Shaped
  <2> QED
    BY <1>8, <2>1 DEF Pcs
<1>13. peers \in [1..MaxSockets ->
                   [wire : Seq(Requests), end : {"open", "half", "gone"}, stalled : BOOLEAN,
                    got : Seq(Replies), over : {"no", "drained", "dropped"}]]
  <2>1. peers \in [Sockets -> Peer]
    BY <1>1 DEF Shaped
  <2>2. ASSUME NEW s \in Sockets
        PROVE  peers[s] \in [wire : Seq(Requests), end : {"open", "half", "gone"},
                             stalled : BOOLEAN, got : Seq(Replies),
                             over : {"no", "drained", "dropped"}]
    <3>1. peers[s] \in Peer /\ peers[s].got \in Seq(Replies)
      BY <1>1, <2>1 DEF Heard
    <3> QED
      BY <3>1 DEF Peer
  <2> QED
    BY <2>1, <2>2 DEF Sockets
<1>14. executed \in [count : 0..MaxRequests, key : Keys]
  <2>1. executed \in [count : Nat, key : Keys]
    BY <1>1 DEF Tally
  <2> QED
    BY <1>2, <2>1
<1> QED
  BY <1>2, <1>3, <1>4, <1>5, <1>6, <1>7, <1>9, <1>10, <1>11, <1>12, <1>13, <1>14, Zenon DEF TypeOK

\* clients_ never holds more than 16 clients, the queue of jobs never more than its
\* capacity, the cache never more than 128 replies, and there are never more
\* jobs or executions than requests (TcpServer.h, acceptClients; VisionPipeline.cpp,
\* command and cacheReply).
THEOREM TypeCorrect == Spec => []TypeOK
<1>1. Init => Bounded
  BY InitBounds DEF Bounded
<1>2. ControlIInv /\ Bounded /\ [Next]_vars => Bounded'
  <2> SUFFICES ASSUME ControlIInv, Bounded, [Next]_vars PROVE Bounded'
    OBVIOUS
  <2>1. /\ Shaped /\ Identified /\ Watching /\ Placed /\ Reading /\ Cached /\ Promised
        /\ Tally /\ Room /\ Heard
    BY Zenon DEF ControlIInv, Bounded
  <2>2. CASE UNCHANGED vars
    BY <2>1, <2>2, StutterBounds DEF Bounded
  <2>3. CASE Next
    <3>1. Tally'
      BY <2>1, TallySteps, TallyKept DEF Shaped
    <3>2. Room' /\ Heard'
      BY <2>1, <2>3, RoomKept, HeardKept
    <3> QED
      BY <3>1, <3>2 DEF Bounded
  <2> QED
    BY <2>2, <2>3
<1>3. ControlIInv /\ Bounded => TypeOK
  BY TypesFollow
<1> QED
  BY <1>1, <1>2, <1>3, ControlInductive, PTL DEF Spec
===============================================================================
