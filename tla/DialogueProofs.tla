----------------------------- MODULE DialogueProofs -----------------------------
(***************************************************************************)
(* ControlPlane implements Dialogue, for every value of the constants.     *)
(*                                                                         *)
(* The abstract state is read off clients and peers: first, what a step    *)
(* that serves, opens or reads a client shows of it.  Then the jobs; then  *)
(* what the refinement needs beside ControlIInv, that a stored reply was   *)
(* sent to the socket it is stored for (Echo) and that a socket without a  *)
(* connection has asked nothing (Fresh).  Last, each action is a step of   *)
(* the dialogue or none.                                                   *)
(***************************************************************************)
EXTENDS ControlPlaneProofs

-------------------------------------------------------------------------------
(* The dialogue: what the sockets see of a step. *)

\* Asked, with the clients and the peers as parameters.
AskedIn(C, P, s) ==
  LET own == {fd \in {fd \in Fds : C[fd] # NoClient} : C[fd].sock = s} IN
  IF own = {} THEN <<>> ELSE C[CHOOSE fd \in own : TRUE].in \o P[s].wire

LEMMA AskedIsIn ==
  \A s : Asked(s) = AskedIn(clients, peers, s) /\ Asked(s)' = AskedIn(clients', peers', s)
BY DEF Asked, AskedIn, Holding, Used

LEMMA AskedInOne ==
  ASSUME NEW C, NEW P, NEW fd \in Fds, C[fd] # NoClient,
         \A g \in Fds : C[g] # NoClient /\ C[g].sock = C[fd].sock => g = fd
  PROVE  AskedIn(C, P, C[fd].sock) = C[fd].in \o P[C[fd].sock].wire
<1> DEFINE own == {f \in {f \in Fds : C[f] # NoClient} : C[f].sock = C[fd].sock}
<1>1. own = {fd}
  OBVIOUS
<1>2. (CHOOSE f \in own : TRUE) = fd
  BY <1>1
<1> QED
  BY <1>1, <1>2 DEF AskedIn

LEMMA AskedInNone ==
  ASSUME NEW C, NEW P, NEW s, \A g \in Fds : C[g] = NoClient \/ C[g].sock # s
  PROVE  AskedIn(C, P, s) = <<>>
BY DEF AskedIn

LEMMA AskedInSame ==
  ASSUME NEW C, NEW P, NEW D1, NEW Q, NEW s, P[s].wire = Q[s].wire,
         \A g \in Fds : C[g] = D1[g] \/ ((C[g] = NoClient \/ C[g].sock # s)
                                         /\ (D1[g] = NoClient \/ D1[g].sock # s))
  PROVE  AskedIn(C, P, s) = AskedIn(D1, Q, s)
<1> DEFINE own == {f \in {f \in Fds : C[f] # NoClient} : C[f].sock = s}
<1>1. own = {f \in {f \in Fds : D1[f] # NoClient} : D1[f].sock = s}
  BY Zenon
<1>2. own # {} => C[CHOOSE f \in own : TRUE] = D1[CHOOSE f \in own : TRUE]
  <2>1. ASSUME NEW f \in own PROVE C[f] = D1[f]
    BY Zenon
  <2> HIDE DEF own
  <2>2. own # {} => (CHOOSE f \in own : TRUE) \in own
    BY Zenon
  <2> QED
    BY <2>1, <2>2, Zenon
<1> QED
  BY <1>1, <1>2, Zenon DEF AskedIn

\* What socket fd has asked and waits for, as its client has it.
LEMMA AskedOfOpen ==
  ASSUME Identified, NEW fd \in Used
  PROVE  Asked(clients[fd].sock) = clients[fd].in \o peers[clients[fd].sock].wire
<1>1. fd \in Fds /\ clients[fd] # NoClient
      /\ \A g \in Fds : clients[g] # NoClient /\ clients[g].sock = clients[fd].sock => g = fd
  BY Zenon DEF Identified, Used
<1> QED
  BY <1>1, AskedIsIn, AskedInOne, Zenon

\* What the sockets see, one by one.
LEMMA ViewsAre ==
  ASSUME NEW s \in Sockets
  PROVE  /\ Phases[s] = Phase(s) /\ AllAsked[s] = Asked(s) /\ AllSent[s] = Sent(s)
         /\ Phases'[s] = Phase(s)' /\ AllAsked'[s] = Asked(s)' /\ AllSent'[s] = Sent(s)'
BY DEF Phases, AllAsked, AllSent, Sockets

LEMMA OneView ==
  ASSUME NEW f, NEW g, f = [t \in Sockets |-> f[t]], g = [t \in Sockets |-> g[t]],
         NEW s \in Sockets, \A t \in Sockets \ {s} : g[t] = f[t]
  PROVE  g = [f EXCEPT ![s] = g[s]]
OBVIOUS

LEMMA SameView ==
  ASSUME NEW f, NEW g, f = [t \in Sockets |-> f[t]], g = [t \in Sockets |-> g[t]],
         \A t \in Sockets : g[t] = f[t]
  PROVE  g = f
OBVIOUS

LEMMA ViewsOn ==
  /\ Phases = [t \in Sockets |-> Phases[t]] /\ Phases' = [t \in Sockets |-> Phases'[t]]
  /\ AllAsked = [t \in Sockets |-> AllAsked[t]] /\ AllAsked' = [t \in Sockets |-> AllAsked'[t]]
  /\ AllSent = [t \in Sockets |-> AllSent[t]] /\ AllSent' = [t \in Sockets |-> AllSent'[t]]
BY DEF Phases, AllAsked, AllSent, Sockets

\* Only what one socket sees changes, or nothing.
LEMMA ViewsChange ==
  ASSUME NEW s \in Sockets,
         \A t \in Sockets \ {s} : /\ Phase(t)' = Phase(t) /\ Asked(t)' = Asked(t)
                                  /\ Sent(t)' = Sent(t)
  PROVE  /\ Phases' = [Phases EXCEPT ![s] = Phase(s)']
         /\ AllAsked' = [AllAsked EXCEPT ![s] = Asked(s)']
         /\ AllSent' = [AllSent EXCEPT ![s] = Sent(s)']
         /\ Phase(s)' = Phase(s) => Phases' = Phases
         /\ Asked(s)' = Asked(s) => AllAsked' = AllAsked
         /\ Sent(s)' = Sent(s) => AllSent' = AllSent
<1>1. \A t \in Sockets \ {s} :
        Phases'[t] = Phases[t] /\ AllAsked'[t] = AllAsked[t] /\ AllSent'[t] = AllSent[t]
  BY ViewsAre
<1>2. /\ Phases' = [Phases EXCEPT ![s] = Phases'[s]]
      /\ AllAsked' = [AllAsked EXCEPT ![s] = AllAsked'[s]]
      /\ AllSent' = [AllSent EXCEPT ![s] = AllSent'[s]]
  <2>1. PICK a, b, c, d, e, f : /\ a = Phases /\ b = Phases' /\ c = AllAsked /\ d = AllAsked'
                                /\ e = AllSent /\ f = AllSent'
    OBVIOUS
  <2>2. b = [a EXCEPT ![s] = b[s]]
    BY <1>1, <2>1, ViewsOn, OneView
  <2>3. d = [c EXCEPT ![s] = d[s]]
    BY <1>1, <2>1, ViewsOn, OneView
  <2>4. f = [e EXCEPT ![s] = f[s]]
    BY <1>1, <2>1, ViewsOn, OneView
  <2> QED
    BY <2>1, <2>2, <2>3, <2>4, Zenon
<1>3. Phases'[s] = Phase(s)' /\ AllAsked'[s] = Asked(s)' /\ AllSent'[s] = Sent(s)'
  BY ViewsAre
<1>4. Phase(s)' = Phase(s) => Phases' = Phases
  BY <1>1, ViewsAre, ViewsOn, SameView
<1>5. Asked(s)' = Asked(s) => AllAsked' = AllAsked
  BY <1>1, ViewsAre, ViewsOn, SameView
<1>6. Sent(s)' = Sent(s) => AllSent' = AllSent
  BY <1>1, ViewsAre, ViewsOn, SameView
<1> QED
  BY <1>2, <1>3, <1>4, <1>5, <1>6, Zenon

LEMMA ViewsStay ==
  ASSUME \A t \in Sockets : Phase(t)' = Phase(t) /\ Asked(t)' = Asked(t) /\ Sent(t)' = Sent(t)
  PROVE  Phases' = Phases /\ AllAsked' = AllAsked /\ AllSent' = AllSent
<1>1. \A t \in Sockets :
        Phases'[t] = Phases[t] /\ AllAsked'[t] = AllAsked[t] /\ AllSent'[t] = AllSent[t]
  BY ViewsAre
<1>2. Phases' = Phases
  BY <1>1, ViewsOn, SameView
<1>3. AllAsked' = AllAsked
  BY <1>1, ViewsOn, SameView
<1>4. AllSent' = AllSent
  BY <1>1, ViewsOn, SameView
<1> QED
  BY <1>2, <1>3, <1>4

\* Who has a client, and who had one.
LEMMA PhaseIs ==
  /\ \A s : Phase(s) = IF \E fd \in Used : clients[fd].sock = s THEN "open"
                       ELSE IF s < next THEN "over" ELSE "new"
  /\ \A s : Phase(s)' = IF \E fd \in Used' : clients'[fd].sock = s THEN "open"
                        ELSE IF s < next' THEN "over" ELSE "new"
BY DEF Phase, Connected

LEMMA PrefixOfConcat ==
  ASSUME NEW S, NEW a \in Seq(S), NEW b \in Seq(S)
  PROVE  /\ \E n \in 0..Len(a \o b) : SubSeq(a \o b, 1, n) = a
         /\ \E n \in 0..Len(a \o b) : SubSeq(a \o b, 1, n) = a \o b
<1>1. PICK q : q = a \o b
  OBVIOUS
<1>2. /\ q \in Seq(S) /\ Len(q) = Len(a) + Len(b) /\ Len(a) \in Nat /\ Len(b) \in Nat
      /\ \A i \in 1..Len(a) : q[i] = a[i]
  BY <1>1
<1>3. Len(a) \in 0..Len(q) /\ Len(q) \in 0..Len(q)
  BY <1>2
<1>4. /\ SubSeq(q, 1, Len(a)) \in Seq(S) /\ Len(SubSeq(q, 1, Len(a))) = Len(a)
      /\ \A i \in 1..Len(a) : SubSeq(q, 1, Len(a))[i] = q[i]
  BY <1>2
<1>5. /\ SubSeq(q, 1, Len(q)) \in Seq(S) /\ Len(SubSeq(q, 1, Len(q))) = Len(q)
      /\ \A i \in 1..Len(q) : SubSeq(q, 1, Len(q))[i] = q[i]
  BY <1>2
<1>6. SubSeq(q, 1, Len(a)) = a
  BY <1>2, <1>4, SeqEqual
<1>7. SubSeq(q, 1, Len(q)) = q
  BY <1>2, <1>5, SeqEqual
<1> QED
  BY <1>1, <1>3, <1>6, <1>7, Zenon

\* The phases and the questions of the sockets that a step does not serve.
LEMMA ServesOthers ==
  ASSUME Shaped, Identified, NEW fd, NEW c, Served(fd, c), Serves(fd, c), next' = next
  PROVE  \A t \in Sockets \ {c.sock} : Phase(t)' = Phase(t) /\ Asked(t)' = Asked(t)
<1>1. fd \in Used /\ fd \in Fds /\ c.sock = clients[fd].sock
  BY UsedForm DEF Served
<1>2. /\ Used' \subseteq Used /\ \A g \in Used : g # fd => g \in Used'
      /\ \A g \in Used' : clients'[g].sock = clients[g].sock
  BY ServesUsed
<1>3. /\ \A g \in Fds \ {fd} : clients'[g] = clients[g]
      /\ \A t \in Sockets \ {c.sock} : peers'[t] = peers[t]
  BY Zenon DEF Serves
<1>4. ASSUME NEW t \in Sockets \ {c.sock} PROVE Phase(t)' = Phase(t)
  <2>1. (\E g \in Used' : clients'[g].sock = t) <=> (\E g \in Used : clients[g].sock = t)
    BY <1>1, <1>2, <1>4, Zenon
  <2> QED
    BY <2>1, PhaseIs, Zenon
<1>5. ASSUME NEW t \in Sockets \ {c.sock} PROVE Asked(t)' = Asked(t)
  <2>1. peers[t].wire = peers'[t].wire /\ clients[fd].sock # t
    BY <1>1, <1>3, <1>5
  <2>2. clients'[fd] = NoClient \/ clients'[fd].sock # t
    BY <1>1, <1>2, <2>1, Zenon DEF Used
  <2>3. \A g \in Fds : clients[g] = clients'[g] \/ ((clients[g] = NoClient \/ clients[g].sock # t)
                                        /\ (clients'[g] = NoClient \/ clients'[g].sock # t))
    BY <1>3, <2>1, <2>2, Zenon
  <2>4. AskedIn(clients, peers, t) = AskedIn(clients', peers', t)
    BY <2>1, <2>3, AskedInSame
  <2> QED
    BY <2>4, AskedIsIn, Zenon
<1> QED
  BY <1>4, <1>5

\* A client that is served, and is c by now: its socket sees what c says, or its end.
LEMMA ServesViews ==
  ASSUME Shaped, Identified, NEW fd, NEW c, Served(fd, c), Serves(fd, c), next' = next
  PROVE  LET q == peers[c.sock].got \o c.out IN
         /\ c.sock \in Sockets /\ Phases[c.sock] = "open"
         /\ \/ /\ Phases' = Phases /\ AllSent' = [AllSent EXCEPT ![c.sock] = q]
               /\ AllAsked' = [AllAsked EXCEPT ![c.sock] = c.in \o peers[c.sock].wire]
            \/ D!Closes(c.sock, q)
<1>1. PICK s, a, o, q, rest :
        /\ s = c.sock /\ a = peers[s].got /\ o = c.out /\ q = a \o o
        /\ rest = c.in \o peers[s].wire
  OBVIOUS
<1>2. fd \in Used /\ fd \in Fds /\ s = clients[fd].sock /\ s \in Sockets
  BY <1>1, UsedForm DEF Served
<1>3. a \in Seq(To(s)) /\ o \in Seq(To(s))
  BY <1>1, <1>2, Zenon DEF Served, Identified
<1>4. Phase(s) = "open" /\ Phases[s] = "open"
  BY <1>2, PhaseIs, ViewsAre, Zenon
<1>5. /\ \A t \in Sockets \ {s} :
           Phase(t)' = Phase(t) /\ Asked(t)' = Asked(t) /\ Sent(t)' = Sent(t)
      /\ Sent(s)' = q \/ (fd \notin Used' /\ Sent(s)' = a)
  BY <1>1, ServesOthers, ServesSent, Zenon
<1>6. /\ Phases' = [Phases EXCEPT ![s] = Phase(s)']
      /\ AllAsked' = [AllAsked EXCEPT ![s] = Asked(s)']
      /\ AllSent' = [AllSent EXCEPT ![s] = Sent(s)']
      /\ Phase(s)' = Phase(s) => Phases' = Phases
  BY <1>2, <1>5, ViewsChange
<1>7. /\ Used' \subseteq Used
      /\ \A g \in Used' : clients'[g].sock = clients[g].sock
      /\ fd \in Used' => Like(clients'[fd], c)
  BY ServesUsed
<1>8. Identified' /\ peers'[s].wire = peers[s].wire
  BY <1>1, ServesIdentity, Zenon DEF Serves
<1>9. CASE fd \in Used'
  <2>1. clients'[fd].sock = s /\ clients'[fd].in = c.in
    BY <1>2, <1>7, <1>9, Zenon DEF Like
  <2>2. Phase(s)' = "open"
    BY <1>9, <2>1, PhaseIs, Zenon
  <2>3. Asked(s)' = rest
    <3>1. fd \in Fds /\ clients'[fd] # NoClient
          /\ \A g \in Fds : clients'[g] # NoClient /\ clients'[g].sock = clients'[fd].sock => g = fd
      BY <1>2, <1>8, <1>9, Zenon DEF Identified, Used
    <3>2. AskedIn(clients', peers', clients'[fd].sock)
            = clients'[fd].in \o peers'[clients'[fd].sock].wire
      BY <3>1, AskedInOne, Zenon
    <3>3. AskedIn(clients', peers', s) = c.in \o peers[s].wire
      BY <1>8, <2>1, <3>2, Zenon
    <3> QED
      BY <1>1, <3>3, AskedIsIn, Zenon
  <2>4. Sent(s)' = q
    BY <1>5, <1>9, Zenon
  <2> QED
    BY <1>1, <1>2, <1>4, <1>6, <2>2, <2>3, <2>4, Zenon
<1>10. CASE fd \notin Used'
  <2>1. \A g \in Used' : clients'[g].sock # s
    BY <1>2, <1>7, <1>10, Zenon DEF Identified
  <2>2. Phase(s)' = "over"
    <3>1. s < next'
      BY <1>2, Zenon DEF Identified
    <3> QED
      BY <2>1, <3>1, PhaseIs, Zenon
  <2>3. Asked(s)' = <<>>
    <3>1. \A g \in Fds : clients'[g] = NoClient \/ clients'[g].sock # s
      BY <2>1, Zenon DEF Used
    <3>2. AskedIn(clients', peers', s) = <<>>
      BY <3>1, AskedInNone
    <3> QED
      BY <3>2, AskedIsIn, Zenon
  <2>4. \E n \in 0..Len(q) : AllSent' = [AllSent EXCEPT ![s] = SubSeq(q, 1, n)]
    <3>1. (\E n \in 0..Len(q) : SubSeq(q, 1, n) = a) /\ (\E n \in 0..Len(q) : SubSeq(q, 1, n) = q)
      <4>1. PICK S : S = To(s)
        OBVIOUS
      <4>2. a \in Seq(S) /\ o \in Seq(S)
        BY <1>3, <4>1
      <4>3. /\ \E n \in 0..Len(a \o o) : SubSeq(a \o o, 1, n) = a
            /\ \E n \in 0..Len(a \o o) : SubSeq(a \o o, 1, n) = a \o o
        BY <4>2, PrefixOfConcat
      <4> QED
        BY <1>1, <4>3, Zenon
    <3>2. AllSent' = [AllSent EXCEPT ![s] = q] \/ AllSent' = [AllSent EXCEPT ![s] = a]
      BY <1>5, <1>6, Zenon
    <3>3. CASE AllSent' = [AllSent EXCEPT ![s] = q]
      <4>1. PICK n \in 0..Len(q) : SubSeq(q, 1, n) = q
        BY <3>1
      <4> QED
        BY <3>3, <4>1
    <3>4. CASE AllSent' = [AllSent EXCEPT ![s] = a]
      <4>1. PICK n \in 0..Len(q) : SubSeq(q, 1, n) = a
        BY <3>1
      <4> QED
        BY <3>4, <4>1
    <3> QED
      BY <3>2, <3>3, <3>4
  <2>5. D!Closes(s, q)
    BY <1>6, <2>2, <2>3, <2>4, Zenon DEF D!Closes
  <2> QED
    BY <1>1, <1>2, <1>4, <2>5, Zenon
<1> QED
  BY <1>9, <1>10

\* A client that says nothing: nothing is seen of it, or its end.
LEMMA SilentStep ==
  ASSUME Shaped, Identified, NEW fd, NEW c, Steps(fd, c),
         c.out = clients[fd].out, c.in = clients[fd].in
  PROVE  \/ Phases' = Phases /\ AllAsked' = AllAsked /\ AllSent' = AllSent
         \/ \E s \in Sockets : Phases[s] = "open" /\ D!Closes(s, AllSent[s])
<1>1. Served(fd, c) /\ Serves(fd, c) /\ next' = next
  BY Zenon DEF Steps
<1>2. PICK s, q, rest : /\ s = c.sock /\ q = peers[s].got \o c.out
                        /\ rest = c.in \o peers[s].wire
  OBVIOUS
<1>3. /\ s \in Sockets /\ Phases[s] = "open"
      /\ \/ /\ Phases' = Phases /\ AllSent' = [AllSent EXCEPT ![s] = q]
            /\ AllAsked' = [AllAsked EXCEPT ![s] = rest]
         \/ D!Closes(s, q)
  BY <1>1, <1>2, ServesViews, Zenon
<1>4. fd \in Used /\ s = clients[fd].sock
  BY <1>1, <1>2, Zenon DEF Served
<1>5. Sent(s) = q /\ Asked(s) = rest
  BY <1>2, <1>4, SentToOpen, AskedOfOpen, Zenon
<1>6. AllSent[s] = q /\ AllAsked[s] = rest
  BY <1>3, <1>5, ViewsAre, Zenon
<1>7. [AllSent EXCEPT ![s] = q] = AllSent /\ [AllAsked EXCEPT ![s] = rest] = AllAsked
  BY <1>6, <1>3, ViewsOn
<1> QED
  BY <1>3, <1>6, <1>7, Zenon

\* A client that says r, and has c.in left to execute.
LEMMA TellingStep ==
  ASSUME Shaped, Identified, NEW fd, NEW c, Steps(fd, c), NEW r \in To(clients[fd].sock),
         c.out = Append(clients[fd].out, r)
  PROVE  LET s == clients[fd].sock IN
         s \in Sockets /\ Phases[s] = "open" /\ D!Tells(s, r, c.in \o peers[s].wire)
<1>1. Served(fd, c) /\ Serves(fd, c) /\ next' = next
  BY Zenon DEF Steps
<1>2. PICK s, q, rest : /\ s = c.sock /\ q = peers[s].got \o c.out
                        /\ rest = c.in \o peers[s].wire
  OBVIOUS
<1>3. /\ s \in Sockets /\ Phases[s] = "open"
      /\ \/ /\ Phases' = Phases /\ AllSent' = [AllSent EXCEPT ![s] = q]
            /\ AllAsked' = [AllAsked EXCEPT ![s] = rest]
         \/ D!Closes(s, q)
  BY <1>1, <1>2, ServesViews, Zenon
<1>4. fd \in Used /\ s = clients[fd].sock
  BY <1>1, <1>2, Zenon DEF Served
<1>5. PICK a, b : a = peers[s].got /\ b = clients[fd].out
  OBVIOUS
<1>6. a \in Seq(To(s)) /\ b \in Seq(To(s)) /\ r \in To(s)
  BY <1>3, <1>4, <1>5, Zenon DEF Identified
<1>7. a \o Append(b, r) = Append(a \o b, r)
  BY <1>6, AppendedLast
<1>8. Sent(s) = a \o b
  BY <1>4, <1>5, SentToOpen, Zenon
<1>9. AllSent[s] = a \o b
  BY <1>3, <1>8, ViewsAre, Zenon
<1>10. q = Append(AllSent[s], r)
  BY <1>2, <1>5, <1>7, <1>9, Zenon
<1>11. D!Tells(s, r, rest)
  BY <1>3, <1>10, Zenon DEF D!Tells
<1> QED
  BY <1>2, <1>3, <1>4, <1>11, Zenon

\* Nothing is seen of a step.
Unseen == Phases' = Phases /\ AllAsked' = AllAsked /\ AllSent' = AllSent

\* What is asked is not seen to change unless the wire does.
LEMMA SameClients ==
  ASSUME clients' = clients, NEW t, peers'[t].got = peers[t].got
  PROVE  /\ Sent(t)' = Sent(t) /\ (next' = next => Phase(t)' = Phase(t))
         /\ peers'[t].wire = peers[t].wire => Asked(t)' = Asked(t)
<1>1. \A g \in Fds : clients[g] = clients'[g]
  OBVIOUS
<1>2. Sent(t)' = Sent(t)
  <2>1. SentIn(clients, peers, t) = SentIn(clients', peers', t)
    BY <1>1, SentInSame
  <2> QED
    BY <2>1, SentIsIn, Zenon
<1>3. ASSUME peers'[t].wire = peers[t].wire PROVE Asked(t)' = Asked(t)
  <2>1. AskedIn(clients, peers, t) = AskedIn(clients', peers', t)
    BY <1>1, <1>3, AskedInSame
  <2> QED
    BY <2>1, AskedIsIn, Zenon
<1>4. next' = next => Phase(t)' = Phase(t)
  <2>1. Used' = Used
    BY DEF Used
  <2> QED
    BY <2>1, PhaseIs, Zenon
<1> QED
  BY <1>2, <1>3, <1>4

LEMMA QuietViews ==
  ASSUME clients' = clients, peers' = peers, next' = next
  PROVE  Unseen
<1>1. \A t \in Sockets : Phase(t)' = Phase(t) /\ Asked(t)' = Asked(t) /\ Sent(t)' = Sent(t)
  BY SameClients
<1> QED
  BY <1>1, ViewsStay DEF Unseen

\* The other end asks, or nothing is seen of it.
Asks(s, request) ==
  /\ Phases[s] = "open" /\ Phases' = Phases /\ AllSent' = AllSent
  /\ AllAsked' = [AllAsked EXCEPT ![s] = Append(AllAsked[s], request)]

LEMMA SendViews ==
  ASSUME Shaped, Identified, NEW s \in Sockets, NEW request \in Requests, PeerSend(s, request)
  PROVE  Asks(s, request)
<1>1. PICK fd \in Used : clients[fd].sock = s
  BY Zenon DEF PeerSend, Connected
<1>2. clients' = clients /\ next' = next /\ peers' = [peers EXCEPT ![s].wire = Append(@, request)]
  BY DEF PeerSend, PeerFrame
<1>3. PICK a, b : a = clients[fd].in /\ b = peers[s].wire
  OBVIOUS
<1>4. a \in Seq(Requests) /\ b \in Seq(Requests)
  BY <1>1, <1>3, UsedForm, Fields, PeerFields DEF Shaped
<1>5. \A t \in Sockets : peers'[t].got = peers[t].got /\ (t # s => peers'[t].wire = peers[t].wire)
  BY <1>2 DEF Shaped, Peer
<1>6. peers'[s].wire = Append(b, request)
  BY <1>2, <1>3 DEF Shaped, Peer
<1>7. \A t \in Sockets : /\ Phase(t)' = Phase(t) /\ Sent(t)' = Sent(t)
                         /\ t # s => Asked(t)' = Asked(t)
  BY <1>2, <1>5, SameClients
<1>8. Phases' = Phases /\ AllSent' = AllSent /\ AllAsked' = [AllAsked EXCEPT ![s] = Asked(s)']
  BY <1>7, ViewsChange
<1>9. Asked(s)' = a \o Append(b, request)
  <2>1. /\ fd \in Fds /\ clients'[fd] # NoClient /\ clients'[fd] = clients[fd]
        /\ \A g \in Fds : clients'[g] # NoClient /\ clients'[g].sock = clients'[fd].sock => g = fd
    BY <1>1, <1>2, Zenon DEF Identified, Used
  <2>2. AskedIn(clients', peers', clients'[fd].sock)
          = clients'[fd].in \o peers'[clients'[fd].sock].wire
    BY <2>1, AskedInOne, Zenon
  <2>3. AskedIn(clients', peers', s) = a \o Append(b, request)
    BY <1>1, <1>3, <1>6, <2>1, <2>2, Zenon
  <2> QED
    BY <2>3, AskedIsIn, Zenon
<1>10. AllAsked[s] = a \o b
  BY <1>1, <1>3, AskedOfOpen, ViewsAre, Zenon
<1>11. a \o Append(b, request) = Append(a \o b, request)
  BY <1>4, AppendedLast
<1>12. Phases[s] = "open"
  BY <1>1, PhaseIs, ViewsAre, Zenon
<1> QED
  BY <1>8, <1>9, <1>10, <1>11, <1>12, Zenon DEF Asks

LEMMA PeerViews ==
  ASSUME Shaped, Identified, PeerStep
  PROVE  Unseen \/ \E s \in Sockets, request \in Requests : Asks(s, request)
<1>1. CASE \E s \in Sockets, request \in Requests : PeerSend(s, request)
  BY <1>1, SendViews, Zenon
<1>2. ASSUME NEW s \in Sockets, (\E end \in {"half", "gone"} : PeerEnds(s, end)) \/ PeerStalls(s)
      PROVE  Unseen
  <2>1. clients' = clients /\ next' = next
    BY <1>2 DEF PeerEnds, PeerStalls, PeerFrame
  <2>2. \/ \E end : peers' = [peers EXCEPT ![s].end = end]
        \/ peers' = [peers EXCEPT ![s].stalled = ~@]
    BY <1>2 DEF PeerEnds, PeerStalls
  <2>3. \A t \in Sockets : peers'[t].got = peers[t].got /\ peers'[t].wire = peers[t].wire
    <3>1. peers \in [Sockets -> Peer] /\ peers[s] \in Peer
      BY DEF Shaped
    <3>2. ASSUME NEW end, peers' = [peers EXCEPT ![s].end = end]
          PROVE  \A t \in Sockets : peers'[t].got = peers[t].got /\ peers'[t].wire = peers[t].wire
      BY <3>1, <3>2 DEF Peer
    <3>3. ASSUME peers' = [peers EXCEPT ![s].stalled = ~@]
          PROVE  \A t \in Sockets : peers'[t].got = peers[t].got /\ peers'[t].wire = peers[t].wire
      BY <3>1, <3>3 DEF Peer
    <3> QED
      BY <2>2, <3>2, <3>3, Zenon
  <2>4. \A t \in Sockets : Phase(t)' = Phase(t) /\ Asked(t)' = Asked(t) /\ Sent(t)' = Sent(t)
    BY <2>1, <2>3, SameClients
  <2> QED
    BY <2>4, ViewsStay DEF Unseen
<1> QED
  BY <1>1, <1>2, Zenon DEF PeerStep

\* A socket that has no connection yet has asked nothing.
Fresh == \A s \in Sockets : s >= next => peers[s].wire = <<>>

\* A connection is taken, and may be over at once.
Connects(s) ==
  /\ s \in Sockets /\ Phases[s] = "new" /\ AllAsked' = AllAsked /\ AllSent' = AllSent
  /\ \E p \in {"open", "over"} : Phases' = [Phases EXCEPT ![s] = p]

LEMMA AcceptViews ==
  ASSUME Shaped, Identified, Fresh, Accept
  PROVE  Connects(next)
<1>1. next \in Sockets /\ next' = next + 1
  <2>1. /\ next \in Nat \ {0} /\ backlog \in Nat /\ next + backlog <= MaxSockets + 1
    BY Zenon DEF Shaped
  <2>2. backlog > 0 /\ next' = next + 1
    BY Zenon DEF Accept, AcceptFrame
  <2> QED
    BY <2>1, <2>2, Limits DEF Sockets
<1>2. PICK s : s = next
  OBVIOUS
<1>3. s \in Sockets /\ s < next' /\ ~(s < next) /\ \A t \in Sockets \ {s} : t < next' <=> t < next
  BY <1>1, <1>2 DEF Sockets
<1>4. \A fd \in Used : clients[fd].sock # s
  BY <1>3, Zenon DEF Identified
<1>5. Phase(s) = "new" /\ Phases[s] = "new"
  BY <1>3, <1>4, PhaseIs, ViewsAre, Zenon
<1>6. ASSUME Used' = Used, \A fd \in Used : clients'[fd] = clients[fd]
      PROVE  Phase(s)' = "over" /\ \A t \in Sockets \ {s} : Phase(t)' = Phase(t)
  BY <1>3, <1>4, <1>6, PhaseIs, Zenon
<1>7. ASSUME NEW fd, Opens(fd)
      PROVE  Phase(s)' = "open" /\ \A t \in Sockets \ {s} : Phase(t)' = Phase(t)
  <2>1. Used' = Used \cup {fd} /\ fd \notin Used /\ \A g \in Used : clients'[g] = clients[g]
    BY <1>7, OpensIdentity
  <2>2. clients'[fd].sock = s /\ fd \in Used'
    BY <1>2, <1>7, <2>1, Zenon DEF Opens
  <2>3. Phase(s)' = "open"
    BY <2>2, PhaseIs, Zenon
  <2>4. ASSUME NEW t \in Sockets \ {s} PROVE Phase(t)' = Phase(t)
    <3>1. (\E g \in Used' : clients'[g].sock = t) <=> (\E g \in Used : clients[g].sock = t)
      BY <2>1, <2>2, Zenon
    <3> QED
      BY <1>3, <3>1, PhaseIs, Zenon
  <2> QED
    BY <2>3, <2>4
<1>8. CASE Kept
  <2>1. clients' = clients /\ Used' = Used
    BY <1>8 DEF Kept, Used
  <2>2. \A t \in Sockets : peers'[t].got = peers[t].got /\ peers'[t].wire = peers[t].wire
    <3>1. peers' = [peers EXCEPT ![next].over = "dropped"] \/ peers' = peers
      BY DEF Accept
    <3>2. peers \in [Sockets -> Peer] /\ peers[next] \in Peer
      BY <1>1 DEF Shaped
    <3>3. ASSUME peers' = [peers EXCEPT ![next].over = "dropped"]
          PROVE  \A t \in Sockets : peers'[t].got = peers[t].got /\ peers'[t].wire = peers[t].wire
      BY <1>1, <3>2, <3>3 DEF Peer
    <3> QED
      BY <3>1, <3>3
  <2>3. \A t \in Sockets : Asked(t)' = Asked(t) /\ Sent(t)' = Sent(t)
    BY <2>1, <2>2, SameClients
  <2>4. Phase(s)' = "over" /\ \A t \in Sockets \ {s} : Phase(t)' = Phase(t)
    BY <1>6, <2>1
  <2>5. /\ Phases' = [Phases EXCEPT ![s] = Phase(s)']
        /\ AllAsked' = AllAsked /\ AllSent' = AllSent
    BY <1>3, <2>3, <2>4, ViewsChange
  <2> QED
    BY <1>2, <1>3, <1>5, <2>4, <2>5, Zenon DEF Connects
<1>9. ASSUME NEW fd \in Fds, Opens(fd)
      PROVE  Connects(next)
  <2>1. /\ peers' = peers /\ \A g \in Fds \ {fd} : clients'[g] = clients[g]
        /\ clients[fd] = NoClient /\ clients'[fd].sock = s /\ clients'[fd].in = <<>>
    BY <1>2, <1>9, Zenon DEF Opens, Used
  <2>2. Identified' /\ fd \in Used' /\ \A t \in Sockets : Sent(t)' = Sent(t)
    BY <1>9, OpensIdentity
  <2>3. ASSUME NEW t \in Sockets \ {s} PROVE Asked(t)' = Asked(t)
    <3>1. \A g \in Fds : clients[g] = clients'[g] \/ ((clients[g] = NoClient \/ clients[g].sock # t)
                                          /\ (clients'[g] = NoClient \/ clients'[g].sock # t))
      BY <2>1, <2>3
    <3>2. AskedIn(clients, peers, t) = AskedIn(clients', peers', t)
      BY <2>1, <3>1, AskedInSame
    <3> QED
      BY <3>2, AskedIsIn, Zenon
  <2>4. Asked(s) = <<>>
    <3>1. \A g \in Fds : clients[g] = NoClient \/ clients[g].sock # s
      BY <1>4, Zenon DEF Used
    <3>2. AskedIn(clients, peers, s) = <<>>
      BY <3>1, AskedInNone
    <3> QED
      BY <3>2, AskedIsIn, Zenon
  <2>5. Asked(s)' = <<>>
    <3>1. peers[s].wire = <<>>
      BY <1>1, <1>2 DEF Fresh, Sockets
    <3>2. fd \in Fds /\ clients'[fd] # NoClient
          /\ \A g \in Fds : clients'[g] # NoClient /\ clients'[g].sock = clients'[fd].sock => g = fd
      BY <2>2, Zenon DEF Identified, Used
    <3>3. AskedIn(clients', peers', clients'[fd].sock)
            = clients'[fd].in \o peers'[clients'[fd].sock].wire
      BY <3>2, AskedInOne, Zenon
    <3>4. AskedIn(clients', peers', s) = <<>> \o <<>>
      BY <2>1, <3>1, <3>3, Zenon
    <3>5. AskedIn(clients', peers', s) = <<>>
      BY <3>4
    <3> QED
      BY <3>5, AskedIsIn, Zenon
  <2>6. \A t \in Sockets : Asked(t)' = Asked(t)
    BY <2>3, <2>4, <2>5, Zenon
  <2>7. Phase(s)' = "open" /\ \A t \in Sockets \ {s} : Phase(t)' = Phase(t)
    BY <1>7, <1>9
  <2>8. /\ Phases' = [Phases EXCEPT ![s] = Phase(s)']
        /\ AllAsked' = AllAsked /\ AllSent' = AllSent
    BY <1>3, <2>2, <2>6, <2>7, ViewsChange
  <2> QED
    BY <1>2, <1>3, <1>5, <2>7, <2>8, Zenon DEF Connects
<1> QED
  BY <1>8, <1>9, AcceptDoes

\* Input moves: only what its socket has asked may be seen to change.
LEMMA ReadsViews ==
  ASSUME Shaped, Identified, NEW fd, Reads(fd), NEW s, s = clients[fd].sock
  PROVE  /\ s \in Sockets /\ Phases[s] = "open" /\ Phases' = Phases /\ AllSent' = AllSent
         /\ AllAsked[s] = clients[fd].in \o peers[s].wire
         /\ AllAsked' = [AllAsked EXCEPT ![s] = clients'[fd].in \o peers'[s].wire]
<1>1. /\ fd \in Used /\ fd \in Fds /\ s \in Sockets /\ next' = next
      /\ \A g \in Fds \ {fd} : clients'[g] = clients[g]
      /\ clients'[fd].sock = s /\ \A t \in Sockets \ {s} : peers'[t] = peers[t]
  BY UsedForm, Zenon DEF Reads
<1>2. /\ Used' = Used /\ \A g \in Used : clients'[g].sock = clients[g].sock
      /\ Identified' /\ \A t \in Sockets : Sent(t)' = Sent(t)
  BY ReadsIdentity
<1>3. \A t \in Sockets : Phase(t)' = Phase(t)
  BY <1>1, <1>2, PhaseIs, Zenon
<1>4. ASSUME NEW t \in Sockets \ {s} PROVE Asked(t)' = Asked(t)
  <2>1. \A g \in Fds : clients[g] = clients'[g] \/ ((clients[g] = NoClient \/ clients[g].sock # t)
                                        /\ (clients'[g] = NoClient \/ clients'[g].sock # t))
    BY <1>1, <1>4
  <2>2. peers[t].wire = peers'[t].wire
    BY <1>1
  <2>3. AskedIn(clients, peers, t) = AskedIn(clients', peers', t)
    BY <2>1, <2>2, AskedInSame
  <2> QED
    BY <2>3, AskedIsIn, Zenon
<1>5. Asked(s)' = clients'[fd].in \o peers'[s].wire
  <2>1. fd \in Fds /\ clients'[fd] # NoClient
        /\ \A g \in Fds : clients'[g] # NoClient /\ clients'[g].sock = clients'[fd].sock => g = fd
    BY <1>1, <1>2, Zenon DEF Identified, Used
  <2>2. AskedIn(clients', peers', clients'[fd].sock)
          = clients'[fd].in \o peers'[clients'[fd].sock].wire
    BY <2>1, AskedInOne, Zenon
  <2> QED
    BY <1>1, <2>2, AskedIsIn, Zenon
<1>6. /\ Phases' = Phases /\ AllSent' = AllSent
      /\ AllAsked' = [AllAsked EXCEPT ![s] = Asked(s)']
  BY <1>1, <1>2, <1>3, <1>4, ViewsChange
<1>7. Phases[s] = "open" /\ AllAsked[s] = clients[fd].in \o peers[s].wire
  <2>1. Phases[s] = "open"
    BY <1>1, PhaseIs, ViewsAre, Zenon
  <2>2. Asked(s) = clients[fd].in \o peers[s].wire
    BY <1>1, AskedOfOpen, Zenon
  <2>3. AllAsked[s] = Asked(s)
    BY <1>1, ViewsAre
  <2> QED
    BY <2>1, <2>2, <2>3, Zenon
<1> QED
  BY <1>1, <1>5, <1>6, <1>7, Zenon

LEMMA ReadViews ==
  ASSUME Shaped, Identified, Watching, Reading, DispatchRead
  PROVE  Unseen
<1>1. PICK fd, s : s = clients[fd].sock /\ Reads(fd) /\ MovesLines(fd, s)
  BY ReadDoes, Zenon
<1>2. PICK a, b : a = clients'[fd].in \o peers'[s].wire /\ b = clients[fd].in \o peers[s].wire
  OBVIOUS
<1>3. /\ s \in Sockets /\ Phases' = Phases /\ AllSent' = AllSent
      /\ AllAsked[s] = b /\ AllAsked' = [AllAsked EXCEPT ![s] = a]
  BY <1>1, <1>2, ReadsViews, Zenon
<1>4. a = b
  BY <1>1, <1>2, Zenon DEF MovesLines
<1>5. [AllAsked EXCEPT ![s] = b] = AllAsked
  BY <1>3, ViewsOn
<1> QED
  BY <1>3, <1>4, <1>5, Zenon DEF Unseen

LEMMA TailOfConcat ==
  ASSUME NEW S, NEW a \in Seq(S), NEW b \in Seq(S), a # <<>>
  PROVE  /\ a \o b # <<>> /\ Head(a \o b) = a[1]
         /\ Tail(a \o b) = Tail(a) \o b
<1>1. PICK x, t : x = a[1] /\ t = Tail(a)
  OBVIOUS
<1>2. x \in S /\ t \in Seq(S) /\ a = <<x>> \o t
  BY <1>1
<1>3. (<<x>> \o t) \o b = <<x>> \o (t \o b) /\ t \o b \in Seq(S)
  BY <1>2
<1>4. a \o b = <<x>> \o (t \o b)
  BY <1>2, <1>3
<1>5. PICK q : q = t \o b
  OBVIOUS
<1>6. q \in Seq(S) /\ <<x>> \o q # <<>> /\ Head(<<x>> \o q) = x /\ Tail(<<x>> \o q) = q
  BY <1>2, <1>3, <1>5
<1> QED
  BY <1>1, <1>4, <1>5, <1>6, Zenon

\* The request that is executed is the oldest one asked.
LEMMA LineViews ==
  ASSUME Shaped, Identified, Placed, NEW cmds, Line(cmds), NEW s, s = clients[net.fd].sock
  PROVE  /\ s \in Sockets /\ Phases[s] = "open" /\ AllAsked[s] # <<>>
         /\ Head(AllAsked[s]) = clients[net.fd].in[1]
         /\ Tail(AllAsked[s]) = Tail(clients[net.fd].in) \o peers[s].wire
         /\ Head(AllAsked[s]).cmd \in cmds /\ Head(AllAsked[s]).id = Key[2] /\ Rest.sock = s
<1>1. PICK fd, a, b : fd = net.fd /\ a = clients[fd].in /\ b = peers[s].wire
  OBVIOUS
<1>2. fd \in Used /\ s \in Sockets /\ a # <<>> /\ Rest.sock = s
  BY <1>1, LineFacts, Zenon
<1>3. a \in Seq(Requests) /\ b \in Seq(Requests)
  BY <1>1, <1>2, UsedForm, Fields, PeerFields DEF Shaped
<1>4. a[1].cmd \in cmds /\ Key[2] = a[1].id
  BY <1>1 DEF Line, Key
<1>5. AllAsked[s] = a \o b
  <2>1. Asked(s) = a \o b
    BY <1>1, <1>2, AskedOfOpen, Zenon
  <2> QED
    BY <1>2, <2>1, ViewsAre, Zenon
<1>6. a \o b # <<>> /\ Head(a \o b) = a[1] /\ Tail(a \o b) = Tail(a) \o b
  BY <1>2, <1>3, TailOfConcat
<1>7. Phases[s] = "open"
  BY <1>1, <1>2, PhaseIs, ViewsAre, Zenon
<1> QED
  BY <1>1, <1>2, <1>4, <1>5, <1>6, <1>7, Zenon

LEMMA SaysViews ==
  ASSUME Shaped, Identified, Placed, NEW cmds, Line(cmds), NEW s, s = clients[net.fd].sock,
         NEW r \in To(s), Says(r)
  PROVE  D!Tells(s, r, Tail(AllAsked[s]))
<1>1. PICK fd, d : /\ fd = net.fd /\ Steps(fd, d) /\ d.in = Tail(clients[fd].in)
                   /\ d.out = Append(clients[fd].out, r)
  BY Zenon DEF Says
<1>2. D!Tells(clients[fd].sock, r, d.in \o peers[clients[fd].sock].wire)
  BY <1>1, TellingStep, Zenon
<1>3. Tail(AllAsked[s]) = d.in \o peers[s].wire
  BY <1>1, LineViews, Zenon
<1> QED
  BY <1>1, <1>2, <1>3, Zenon

LEMMA PushViews ==
  ASSUME Shaped, Identified, Placed, Pushed, NEW s
  PROVE  s = clients[net.fd].sock
           => /\ s \in Sockets /\ Phases' = Phases /\ AllSent' = AllSent
              /\ AllAsked' = [AllAsked EXCEPT ![s] = Tail(AllAsked[s])]
<1>0. SUFFICES ASSUME s = clients[net.fd].sock
               PROVE  /\ s \in Sockets /\ Phases' = Phases /\ AllSent' = AllSent
                      /\ AllAsked' = [AllAsked EXCEPT ![s] = Tail(AllAsked[s])]
  OBVIOUS
<1>1. Line({"capture", "get_preview"}) /\ Reads(net.fd) /\ clients'[net.fd] = Rest /\ peers' = peers
  BY Zenon DEF Pushed, New
<1>2. /\ s \in Sockets /\ Phases' = Phases /\ AllSent' = AllSent
      /\ AllAsked' = [AllAsked EXCEPT ![s] = clients'[net.fd].in \o peers'[s].wire]
  <2>1. PICK fd : fd = net.fd
    OBVIOUS
  <2>2. Reads(fd) /\ s = clients[fd].sock
    BY <1>0, <1>1, <2>1
  <2>3. PICK a : a = clients'[fd].in \o peers'[s].wire
    OBVIOUS
  <2>4. /\ s \in Sockets /\ Phases' = Phases /\ AllSent' = AllSent
        /\ AllAsked' = [AllAsked EXCEPT ![s] = a]
    BY <2>2, <2>3, ReadsViews, Zenon
  <2> QED
    BY <2>1, <2>3, <2>4
<1>3. Rest.in = Tail(clients[net.fd].in)
  BY <1>1, LineFacts, Zenon
<1>4. Tail(AllAsked[s]) = Tail(clients[net.fd].in) \o peers[s].wire
  BY <1>0, <1>1, LineViews, Zenon
<1>5. AllAsked' = [AllAsked EXCEPT ![s] = Tail(clients[net.fd].in) \o peers[s].wire]
  BY <1>1, <1>2, <1>3, Zenon
<1> QED
  BY <1>2, <1>4, <1>5, Zenon

\* What is seen of the jobs.
JobsStay == Unanswered' = Unanswered /\ jobs' = jobs /\ Unaccepted' = Unaccepted

LEMMA SeenIs ==
  /\ Unanswered = {Seen(j) : j \in Waiting} /\ Unanswered' = {Seen(j) : j \in Waiting'}
  /\ \A j : Seen(j) = [sock |-> j.sock, id |-> j.id, n |-> j.n]
BY DEF Unanswered, Waiting, Busy, Seen

LEMMA OtherJobs ==
  ASSUME Shaped, Identified, Placed, Next, ~Retain, ~RunFunctor, ~Pushes
  PROVE  JobsStay
<1>1. Waiting' = Waiting /\ jobs' = jobs
  <2>1. CASE Ends /\ Waiting' = Waiting
    BY <2>1 DEF Ends, WorkStays
  <2> QED
    BY <2>1, PoolMoves
<1>2. Unaccepted' = Unaccepted
  <2>1. CASE net.pc = "retain"
    <3>1. net' = net
      BY <2>1, RetainWaits
    <3> QED
      BY <3>1 DEF Unaccepted, Seen
  <2>2. CASE net.pc # "retain"
    <3>1. net'.pc # "retain"
      BY <2>2, RetainWaits
    <3> QED
      BY <2>2, <3>1 DEF Unaccepted
  <2> QED
    BY <2>1, <2>2
<1> QED
  BY <1>1, <1>2, SeenIs, Zenon DEF JobsStay

LEMMA RetainJobs ==
  ASSUME Shaped, Identified, Placed, Retain
  PROVE  /\ Unanswered' = Unanswered /\ jobs' = jobs
         /\ Unaccepted = {Seen(net.job)} /\ Unaccepted' = {} /\ Seen(net.job) \in Unanswered
<1>1. /\ net.pc = "retain" /\ net.job \in Waiting
      /\ UNCHANGED <<batch, functors, snapshots, io, jobs>>
  BY DEF Retain, Placed, CommandFrame, work
<1>2. net'.pc = "lines"
  BY DEF Retain, Shaped
<1>3. Waiting' = Waiting
  BY <1>1 DEF Waiting, Busy
<1>4. Unaccepted = {Seen(net.job)} /\ Unaccepted' = {}
  BY <1>1, <1>2 DEF Unaccepted
<1> QED
  BY <1>1, <1>3, <1>4, SeenIs, Zenon

LEMMA PushJobs ==
  ASSUME Shaped, Identified, Placed, Next, Pushes
  PROVE  /\ Unanswered' = Unanswered \cup {Seen(NewJob)} /\ jobs' = jobs + 1
         /\ Unaccepted = {} /\ Unaccepted' = {Seen(NewJob)}
         /\ Seen(NewJob) = [sock |-> Rest.sock, id |-> Key[2], n |-> jobs + 1]
<1>1. /\ net' = [net EXCEPT !.pc = "retain", !.job = NewJob] /\ jobs' = jobs + 1
      /\ net.pc = "lines"
  BY Zenon DEF Pushes, Pushed, Line
<1>2. net'.pc = "retain" /\ net'.job = NewJob
  BY <1>1 DEF Shaped
<1>3. Waiting' = Waiting \cup {NewJob}
  <2>1. jobs \in Nat
    BY DEF Shaped
  <2>2. ~Ends
    BY <1>1 DEF Ends, Release
  <2>3. jobs' # jobs
    BY <1>1, <2>1
  <2> QED
    BY <2>2, <2>3, PoolMoves, Zenon
<1>4. Unaccepted = {} /\ Unaccepted' = {Seen(NewJob)}
  BY <1>1, <1>2 DEF Unaccepted, Seen
<1>5. Unanswered' = Unanswered \cup {Seen(NewJob)}
  BY <1>3, SeenIs
<1>6. NewJob.sock = Rest.sock /\ NewJob.id = Key[2] /\ NewJob.n = jobs + 1
  BY DEF NewJob
<1>7. Seen(NewJob) = [sock |-> Rest.sock, id |-> Key[2], n |-> jobs + 1]
  BY <1>6 DEF Seen
<1> QED
  BY <1>1, <1>4, <1>5, <1>7

LEMMA RunJobs ==
  ASSUME Shaped, Identified, Placed, InTurn, Promised, Next, RunFunctor, NEW job, job = Head(batch)
  PROVE  /\ Unanswered' = Unanswered \ {Seen(job)} /\ jobs' = jobs
         /\ Unaccepted = {} /\ Unaccepted' = {} /\ Seen(job) \in Unanswered
         /\ \A other \in Unanswered : Seen(job).n <= other.n
<1>1. /\ net.pc = "tasks" /\ batch # <<>> /\ batch' = Tail(batch) /\ net'.pc = "release"
      /\ net'.job = job /\ UNCHANGED <<functors, snapshots, io, jobs>>
  BY DEF RunFunctor, Shaped, work
<1>2. Unaccepted = {} /\ Unaccepted' = {}
  BY <1>1 DEF Unaccepted
<1>3. batch \in Seq(Given)
  BY DEF Shaped
<1>4. job \in Given /\ ToSet(batch) = {job} \cup ToSet(batch')
  BY <1>1, <1>3, ItemsOfTail
<1>5. Waiting = Waiting' \cup {job}
  BY <1>1, <1>4 DEF Waiting, Busy
<1>6. Waiting \subseteq Given
  BY PoolGiven DEF Pool
<1>7. \A j \in Waiting' : job.n < j.n
  <2>1. InTurn' /\ Released' = {job}
    BY <1>1, InTurnKept DEF Released
  <2>2. /\ Below(Released', ToSet(batch')) /\ Below(Released', ToSet(functors'))
        /\ Below(Released', Busy') /\ Below(Released', ToSet(snapshots'))
    BY <2>1, Zenon DEF InTurn, Turns
  <2> QED
    BY <2>1, <2>2, Zenon DEF Below, Waiting
<1>8. \A j \in Given : j.n \in Nat
  BY JobFacts
<1>9. \A j \in Waiting : job.n <= j.n
  BY <1>4, <1>5, <1>6, <1>7, <1>8
<1>10. \A j : Seen(j).n = j.n
  BY DEF Seen
<1>11. \A j \in Waiting' : Seen(j) # Seen(job)
  <2>1. \A j \in Waiting' : j.n # job.n
    BY <1>4, <1>5, <1>6, <1>7, <1>8
  <2> QED
    BY <1>10, <2>1, Zenon
<1>12. Unanswered' = Unanswered \ {Seen(job)} /\ Seen(job) \in Unanswered
  BY <1>5, <1>11, SeenIs
<1>13. \A other \in Unanswered : Seen(job).n <= other.n
  BY <1>9, <1>10, SeenIs
<1> QED
  BY <1>1, <1>2, <1>12, <1>13

\* A refused line and a query are answered at once.
LEMMA QueryDoes ==
  ASSUME Shaped, Identified, Placed, Query
  PROVE  Line({"query"}) /\ Says(Answer("completed", 0)) /\ next' = next
<1>1. Line({"query"}) /\ Send(net.fd, Rest, Answer("completed", 0)) /\ next' = next
  BY Zenon DEF Query, New, CommandFrame
<1> QED
  BY <1>1, AnswerMay, LineAnswered

LEMMA RejectDoes ==
  ASSUME Shaped, Identified, Placed, Reject
  PROVE  /\ Line({"bad", "capture", "get_preview"}) /\ Says(Answer("error", 0))
         /\ next' = next
<1>1. /\ Line({"bad", "capture", "get_preview"}) /\ Send(net.fd, Rest, Answer("error", 0))
      /\ next' = next
  BY Zenon DEF Reject, New, CommandFrame
<1> QED
  BY <1>1, AnswerMay, LineAnswered

\* What was not yet connected is sent nothing.
LEMMA FreshKept ==
  ASSUME Shaped, Identified, Watching, Placed, Reading, Cached, Promised, Fresh, [Next]_vars
  PROVE  Fresh'
<1>0. Effect /\ next' \in {next, next + 1} /\ next \in Nat
  BY AnyEffect, EndsKept DEF Shaped
<1>1. ASSUME \A t \in Sockets : peers'[t].wire = peers[t].wire \/ t < next
      PROVE  Fresh'
  BY <1>0, <1>1 DEF Fresh, Sockets
<1>2. ASSUME NEW fd, NEW c, Steps(fd, c) PROVE Fresh'
  BY <1>1, <1>2, Zenon DEF Steps, Serves
<1>3. ASSUME peers' = peers PROVE Fresh'
  BY <1>1, <1>3, Zenon
<1>4. CASE Quiet
  BY <1>3, <1>4, QuietDoes
<1>5. CASE PeerStep
  <2>1. PICK s \in Sockets : \/ \E request \in Requests : PeerSend(s, request)
                             \/ \E end \in {"half", "gone"} : PeerEnds(s, end)
                             \/ PeerStalls(s)
    BY <1>5, Zenon DEF PeerStep
  <2>2. s < next
    BY <2>1, Zenon DEF PeerSend, PeerEnds, PeerStalls, Connected, Identified
  <2>3. \A t \in Sockets \ {s} : peers'[t] = peers[t]
    BY <2>1 DEF PeerSend, PeerEnds, PeerStalls, Shaped
  <2> QED
    BY <1>1, <2>2, <2>3, Zenon
<1>6. CASE Accept
  <2>1. peers' = [peers EXCEPT ![next].over = "dropped"] \/ peers' = peers
    BY <1>6 DEF Accept
  <2>2. \A t \in Sockets : peers'[t].wire = peers[t].wire
    <3>1. peers \in [Sockets -> Peer]
      BY DEF Shaped
    <3>2. ASSUME peers' = [peers EXCEPT ![next].over = "dropped"], NEW t \in Sockets
          PROVE  peers'[t].wire = peers[t].wire
      <4>1. peers[t] \in Peer
        BY <3>1
      <4> QED
        BY <3>1, <3>2, <4>1 DEF Peer
    <3> QED
      BY <2>1, <3>2
  <2> QED
    BY <1>1, <2>2, Zenon
<1>7. CASE DispatchError \/ DispatchWrite
  BY <1>2, <1>7, WriteDoes, Zenon
<1>8. CASE DispatchRead
  <2>1. PICK fd : Reads(fd)
    BY <1>8, ReadDoes, Zenon
  <2>2. \A t \in Sockets : t # clients[fd].sock => peers'[t] = peers[t]
    BY <2>1, Zenon DEF Reads
  <2>3. clients[fd].sock < next
    BY <2>1, Zenon DEF Reads, Identified
  <2> QED
    BY <1>1, <2>2, <2>3, Zenon
<1>9. CASE Replay \/ Query \/ Reject \/ LineTooLong
  BY <1>2, <1>9, LinesEffect, TooLongDoes, Zenon DEF Answered
<1>10. CASE TryPush
  BY <1>2, <1>3, <1>10, TryPushDoes, Zenon DEF Answered, Pushed
<1>11. CASE Retain
  BY <1>2, <1>11, RetainDoes, Zenon
<1>12. CASE LinesDone
  BY <1>2, <1>3, <1>12, DoneDoes, Zenon
<1>13. CASE RunFunctor
  BY <1>2, <1>3, <1>13, FunctorDoes, Zenon
<1>14. CASE Release
  BY <1>2, <1>3, <1>14, ReleaseDoes, Zenon
<1> QED
  BY <1>4, <1>5, <1>6, <1>7, <1>8, <1>9, <1>10, <1>11, <1>12, <1>13, <1>14, Cases, Zenon

\* A stored reply has the id it is stored under, and was sent to the connection it
\* is stored for, unless that has ended.
Echo ==
  \A k \in DOMAIN replies :
    /\ k[2] # 0 /\ replies[k].id = k[2]
    /\ \A fd \in Used : clients[fd].sock = k[1] => replies[k] \in ToSet(Sent(k[1]))

\* What was sent, as long as it can be asked for again.
Reaches(r, s) == \A g \in Used' : clients'[g].sock = s => r \in ToSet(Sent(s)')
Grows == \A s \in Sockets : \A r \in ToSet(Sent(s)) : Reaches(r, s)

LEMMA StepsGrow ==
  ASSUME Shaped, Identified, NEW fd, NEW c, Steps(fd, c)
  PROVE  /\ Grows
         /\ \A r \in To(c.sock) :
              c.out = Append(clients[fd].out, r) => Reaches(r, c.sock)
<1>1. Served(fd, c) /\ Serves(fd, c) /\ Answerable(fd, c) /\ next' = next
  BY Zenon DEF Steps
<1>2. PICK s, a, b : s = c.sock /\ a = peers[s].got /\ b = clients[fd].out
  OBVIOUS
<1>3. fd \in Used /\ s = clients[fd].sock /\ s \in Sockets
  BY <1>1, <1>2, UsedForm, Zenon DEF Served
<1>4. a \in Seq(To(s)) /\ b \in Seq(To(s))
  BY <1>2, <1>3, Zenon DEF Identified
<1>5. Sent(s) = a \o b
  BY <1>2, <1>3, SentToOpen, Zenon
<1>6. \A g \in Used' : clients'[g].sock = s => g = fd
  BY <1>1, <1>3, ServesUsed, Zenon DEF Identified
<1>7. /\ \A t \in Sockets \ {s} : Sent(t)' = Sent(t)
      /\ fd \in Used' => Sent(s)' = a \o c.out
  BY <1>1, <1>2, ServesSent, Zenon
<1>8. ASSUME NEW r \in To(s), c.out = Append(b, r)
      PROVE  ToSet(a \o c.out) = ToSet(a \o b) \cup {r}
  <2>1. a \o Append(b, r) = Append(a \o b, r) /\ a \o b \in Seq(To(s))
    BY <1>4, <1>8, AppendedLast
  <2>2. ToSet(Append(a \o b, r)) = ToSet(a \o b) \cup {r}
    <3>1. PICK q : q = a \o b
      OBVIOUS
    <3>2. q \in Seq(To(s)) /\ r \in To(s)
      BY <1>8, <2>1, <3>1
    <3>3. ToSet(Append(q, r)) = ToSet(q) \cup {r}
      BY <3>2, ItemsOfAppend
    <3> QED
      BY <3>1, <3>3
  <2> QED
    BY <1>8, <2>1, <2>2, Zenon
<1>9. ToSet(a \o b) \subseteq ToSet(a \o c.out)
  <2>1. CASE c.out = b
    BY <2>1
  <2>2. ASSUME NEW r \in To(s), c.out = Append(b, r)
        PROVE  ToSet(a \o b) \subseteq ToSet(a \o c.out)
    BY <1>8, <2>2
  <2> QED
    BY <1>1, <1>2, <2>1, <2>2, Zenon DEF Answerable
<1>10. ASSUME NEW r \in ToSet(a \o c.out) PROVE Reaches(r, s)
  BY <1>6, <1>7, <1>10, Zenon DEF Reaches
<1>11. Grows
  <2>1. ASSUME NEW t \in Sockets, NEW r \in ToSet(Sent(t)) PROVE Reaches(r, t)
    <3>1. CASE t = s
      <4>1. r \in ToSet(a \o c.out)
        BY <1>5, <1>9, <2>1, <3>1
      <4> QED
        BY <1>10, <3>1, <4>1, Zenon
    <3>2. CASE t # s
      <4>1. Sent(t)' = Sent(t)
        BY <1>7, <3>2
      <4> QED
        BY <2>1, <4>1, Zenon DEF Reaches
    <3> QED
      BY <3>1, <3>2
  <2> QED
    BY <2>1, Zenon DEF Grows
<1>12. ASSUME NEW r \in To(s), c.out = Append(b, r) PROVE Reaches(r, s)
  <2>1. r \in ToSet(a \o c.out)
    BY <1>8, <1>12
  <2> QED
    BY <1>10, <2>1, Zenon
<1> QED
  BY <1>2, <1>11, <1>12, Zenon

LEMMA EffectGrows ==
  ASSUME Shaped, Identified, Effect
  PROVE  Grows
<1>1. ASSUME \A s \in Sockets : Sent(s)' = Sent(s) PROVE Grows
  BY <1>1, Zenon DEF Grows, Reaches
<1>2. CASE Kept
  BY <1>1, <1>2, KeptIdentity
<1>3. CASE \E fd \in Fds : Opens(fd)
  BY <1>1, <1>3, OpensIdentity, Zenon
<1>4. CASE \E fd \in Fds : Reads(fd)
  BY <1>1, <1>4, ReadsIdentity, Zenon
<1>5. CASE \E fd \in Fds : \E c \in Form : Steps(fd, c)
  BY <1>5, StepsGrow, Zenon
<1> QED
  BY <1>2, <1>3, <1>4, <1>5, Zenon DEF Effect

\* What is stored under k stays, or is r if k is key.
Adds(key, r) ==
  \A k \in DOMAIN replies' :
    \/ k \in DOMAIN replies /\ replies'[k] = replies[k]
    \/ k = key /\ replies'[k] = r /\ key[2] # 0

LEMMA StoreAdds ==
  ASSUME Shaped, Cached, NEW key \in CacheKeys, NEW reply, OwnReply(key, reply),
         next' = next, Store(key, reply)
  PROVE  Adds(key, reply)
<1>1. CASE key[2] = 0
  <2>1. replies' = replies
    BY <1>1 DEF Store, store
  <2> QED
    BY <2>1, Zenon DEF Adds
<1>2. CASE key[2] # 0
  <2>1. Stores(key, reply)
    BY StoreKeeps DEF Shaped
  <2> QED
    BY <1>2, <2>1, Zenon DEF Stores, Adds
<1> QED
  BY <1>1, <1>2

LEMMA EchoFrom ==
  ASSUME Shaped, Identified, Placed, Cached, Echo, Effect, NEW key, NEW r,
         Adds(key, r) \/ UNCHANGED store, UNCHANGED store \/ (r.id = key[2] /\ Reaches(r, key[1]))
  PROVE  Echo'
<1>1. \A s \in Sockets : \A reply \in ToSet(Sent(s)) : Reaches(reply, s)
  BY EffectGrows, Zenon DEF Grows
<1>2. ASSUME NEW k \in DOMAIN replies, replies'[k] = replies[k]
      PROVE  k[2] # 0 /\ replies'[k].id = k[2] /\ Reaches(replies'[k], k[1])
  <2>1. k[2] # 0 /\ replies[k].id = k[2]
    BY Zenon DEF Echo
  <2>2. k[1] # next
    BY NewIsIdle
  <2>3. ASSUME NEW g \in Used', clients'[g].sock = k[1]
        PROVE  replies[k] \in ToSet(Sent(k[1])')
    <3>1. g \in Used /\ clients[g].sock = k[1]
      BY <2>2, <2>3, OpenBefore, Zenon
    <3>2. k[1] \in Sockets /\ replies[k] \in ToSet(Sent(k[1]))
      BY <3>1, UsedForm, Zenon DEF Echo
    <3> QED
      BY <1>1, <2>3, <3>2, Zenon DEF Reaches
  <2> QED
    BY <1>2, <2>1, <2>3, Zenon DEF Reaches
<1>3. ASSUME NEW k \in DOMAIN replies'
      PROVE  k[2] # 0 /\ replies'[k].id = k[2] /\ Reaches(replies'[k], k[1])
  <2>1. CASE UNCHANGED store
    <3>1. replies' = replies
      BY <2>1 DEF store
    <3> QED
      BY <1>2, <1>3, <3>1, Zenon
  <2>2. CASE Adds(key, r) /\ r.id = key[2] /\ Reaches(r, key[1])
    BY <1>2, <1>3, <2>2, Zenon DEF Adds
  <2> QED
    BY <2>1, <2>2, Zenon
<1> QED
  BY <1>3, Zenon DEF Echo, Reaches

LEMMA EchoKept ==
  ASSUME Shaped, Identified, Watching, Placed, Reading, Cached, Promised, Echo, Next
  PROVE  Echo'
<1>0. Effect
  BY AnyEffect
<1>1. ASSUME UNCHANGED store PROVE Echo'
  BY <1>0, <1>1, EchoFrom
<1>2. ASSUME NEW key, NEW r, Adds(key, r), r.id = key[2], Reaches(r, key[1]) PROVE Echo'
  BY <1>0, <1>2, EchoFrom
<1>3. CASE Poll \/ DispatchListen \/ AcceptTooMany \/ Accept \/ AcceptDone \/ DispatchError
             \/ DispatchRead \/ DispatchWrite \/ Swap \/ FunctorsDone
  <2>1. UNCHANGED store
    BY <1>3 DEF Poll, DispatchListen, AcceptTooMany, Accept, AcceptFrame, AcceptDone, DispatchError,
                DispatchRead, DispatchWrite, Swap, FunctorsDone, LoopFrame
  <2> QED
    BY <1>1, <2>1
<1>4. CASE LineTooLong \/ Replay \/ Reject \/ LinesDone \/ Release \/ IoTake \/ IoPost
             \/ Connect \/ PeerStep
  <2>1. UNCHANGED store
    BY <1>4 DEF LineTooLong, Replay, Reject, LinesDone, Release, IoTake, IoPost, IoFrame, Connect,
                PeerStep, PeerSend, PeerEnds, PeerStalls, PeerFrame
  <2> QED
    BY <1>1, <2>1
<1>5. ASSUME NEW cmds, Line(cmds), NEW status \in {"completed", "error"}, next' = next,
             Store(Key, Answer(status, 0)), Says(Answer(status, 0))
      PROVE  Echo'
  <2>1. PICK key, r, fd : key = Key /\ r = Answer(status, 0) /\ fd = net.fd
    OBVIOUS
  <2>2. /\ key \in CacheKeys /\ key[1] = clients[fd].sock /\ OwnReply(key, r) /\ Store(key, r)
        /\ r \in To(key[1])
    BY <1>5, <2>1, LineFacts, AnswerMay, Zenon DEF OwnReply
  <2>3. Adds(key, r)
    BY <1>5, <2>2, StoreAdds
  <2>4. r.id = key[2]
    BY <2>1 DEF Answer
  <2>5. PICK d : Steps(fd, d) /\ d.out = Append(clients[fd].out, r)
    BY <1>5, <2>1, Zenon DEF Says
  <2>6. d.sock = key[1]
    BY <2>2, <2>5, Zenon DEF Steps, Served
  <2>7. Reaches(r, d.sock)
    BY <2>2, <2>5, <2>6, StepsGrow, Zenon
  <2> QED
    BY <1>2, <2>3, <2>4, <2>6, <2>7, Zenon
<1>6. CASE Query
  <2>1. Line({"query"}) /\ next' = next /\ Store(Key, Answer("completed", 0))
        /\ Says(Answer("completed", 0))
    BY <1>6, QueryDoes, Zenon DEF Query
  <2> QED
    BY <1>5, <2>1
<1>7. CASE TryPush
  <2>1. Line({"capture", "get_preview"}) /\ next' = next
    BY <1>7, Zenon DEF TryPush, New, CommandFrame
  <2>2. UNCHANGED store \/ (Store(Key, Answer("error", 0)) /\ jobs' = jobs)
    BY <1>7 DEF TryPush
  <2>3. jobs' = jobs => Says(Answer("error", 0))
    <3>1. Pushed => jobs' # jobs
      BY DEF Pushed, Shaped
    <3> QED
      BY <1>7, <3>1, TryPushDoes, Zenon
  <2> QED
    BY <1>1, <1>5, <2>1, <2>2, <2>3
<1>8. ASSUME NEW job \in Given, NEW status \in {"completed", "accepted", "error"},
             next' = next, StoreFor(job, status), Reaches(Reply(job, status), job.sock)
      PROVE  Echo'
  <2>1. PICK key, r : key = <<job.conn, job.id>> /\ r = Reply(job, status)
    OBVIOUS
  <2>2. key \in CacheKeys /\ OwnReply(key, r) /\ r.id = key[2] /\ key[1] = job.sock
    BY <2>1, JobReply, JobFacts DEF Reply
  <2>3. Store(key, r) \/ UNCHANGED store
    BY <1>8, <2>1, Zenon DEF StoreFor
  <2>4. CASE Store(key, r)
    <3>1. Adds(key, r)
      BY <1>8, <2>2, <2>4, StoreAdds
    <3>2. Reaches(r, key[1])
      BY <1>8, <2>1, <2>2, Zenon
    <3> QED
      BY <1>2, <2>2, <3>1, <3>2
  <2> QED
    BY <1>1, <2>3, <2>4
<1>9. CASE Retain
  <2>1. PICK job, r, fd, d : /\ job = net.job /\ r = Reply(job, "accepted") /\ fd = net.fd
                             /\ Steps(fd, d) /\ d.out = Append(clients[fd].out, r)
                             /\ clients[fd].sock = job.sock /\ job \in Given
    BY <1>9, RetainDoes, Zenon
  <2>2. d.sock = job.sock
    BY <2>1, Zenon DEF Steps, Served
  <2>3. r \in To(d.sock)
    BY <2>1, <2>2, JobReply
  <2>4. Reaches(r, job.sock)
    BY <2>1, <2>2, <2>3, StepsGrow, Zenon
  <2>5. next' = next /\ StoreFor(job, "accepted")
    BY <1>9, <2>1, Zenon DEF Retain, CommandFrame
  <2> QED
    BY <1>8, <2>1, <2>4, <2>5
<1>10. CASE RunFunctor
  <2>1. PICK job, r : job = Head(batch) /\ r = Reply(job, "completed")
    OBVIOUS
  <2>2. next' = next /\ StoreFor(job, "completed")
    BY <1>10, <2>1, Zenon DEF RunFunctor
  <2>3. job \in Given /\ r \in To(job.sock)
    BY <1>10, <2>1, FunctorDoes, JobReply, Zenon
  <2>4. Reaches(r, job.sock)
    <3>1. CASE clients' = clients /\ \A fd \in Used : clients[fd].sock # job.sock
      BY <3>1 DEF Reaches, Used
    <3>2. ASSUME NEW fd \in Used, NEW d, Steps(fd, d), clients[fd].sock = job.sock,
                 d.out = Append(clients[fd].out, r)
          PROVE  Reaches(r, job.sock)
      <4>1. d.sock = job.sock
        BY <3>2, Zenon DEF Steps, Served
      <4> QED
        BY <2>3, <3>2, <4>1, StepsGrow, Zenon
    <3> QED
      BY <1>10, <2>1, <3>1, <3>2, FunctorDoes, Zenon
  <2> QED
    BY <1>8, <2>1, <2>2, <2>3, <2>4
<1> QED
  BY <1>3, <1>4, <1>6, <1>7, <1>9, <1>10, Zenon
     DEF Next, Network, Io, Peers, PeerStep, Sockets

-------------------------------------------------------------------------------
(* Every step is one of the dialogue, or none. *)

LEMMA EndsStep ==
  ASSUME JobsStay, Unseen \/ \E s \in Sockets : Phases[s] = "open" /\ D!Closes(s, AllSent[s])
  PROVE  [D!Next]_(D!vars)
<1>1. CASE Unseen
  BY <1>1 DEF Unseen, JobsStay, D!vars, D!jobvars
<1>2. ASSUME NEW s \in Sockets, Phases[s] = "open", D!Closes(s, AllSent[s])
      PROVE  D!Next
  <2>1. UNCHANGED D!jobvars
    BY DEF JobsStay, D!jobvars
  <2>2. D!Ends(s)
    BY <1>2, <2>1, Zenon DEF D!Ends
  <2> QED
    BY <2>2, Zenon DEF D!Next, Sockets
<1> QED
  BY <1>1, <1>2, Zenon

\* The network thread and the peers, where nothing is said.
LEMMA SilentRefines ==
  ASSUME Shaped, Identified, Watching, Placed, Reading, JobsStay,
         Quiet \/ DispatchError \/ DispatchWrite \/ DispatchRead \/ LineTooLong \/ LinesDone \/ Release
  PROVE  [D!Next]_(D!vars)
<1>1. ASSUME NEW fd, NEW c, Steps(fd, c), c.out = clients[fd].out, c.in = clients[fd].in
      PROVE  [D!Next]_(D!vars)
  <2>1. Unseen \/ \E s \in Sockets : Phases[s] = "open" /\ D!Closes(s, AllSent[s])
    BY <1>1, SilentStep, Zenon DEF Unseen
  <2> QED
    BY <2>1, EndsStep
<1>2. ASSUME clients' = clients, peers' = peers, next' = next PROVE [D!Next]_(D!vars)
  BY <1>2, QuietViews, EndsStep
<1>3. CASE Quiet
  BY <1>2, <1>3, QuietDoes
<1>4. CASE DispatchError \/ DispatchWrite
  BY <1>1, <1>4, WriteDoes, Zenon
<1>5. CASE DispatchRead
  BY <1>5, ReadViews, EndsStep
<1>6. CASE LineTooLong
  BY <1>1, <1>6, TooLongDoes, Zenon
<1>7. CASE LinesDone
  BY <1>1, <1>2, <1>7, DoneDoes, Zenon
<1>8. CASE Release
  BY <1>1, <1>2, <1>8, ReleaseDoes, Zenon
<1> QED
  BY <1>3, <1>4, <1>5, <1>6, <1>7, <1>8

LEMMA PeerRefines ==
  ASSUME Shaped, Identified, JobsStay, PeerStep
  PROVE  [D!Next]_(D!vars)
<1>1. CASE Unseen
  BY <1>1, EndsStep
<1>2. ASSUME NEW s \in Sockets, NEW request \in Requests, Asks(s, request)
      PROVE  D!Next
  <2>1. UNCHANGED D!jobvars
    BY DEF JobsStay, D!jobvars
  <2>2. D!Ask(s, request)
    BY <1>2, <2>1, Zenon DEF D!Ask, Asks
  <2> QED
    BY <2>2, Zenon DEF D!Next, Sockets
<1> QED
  BY <1>1, <1>2, PeerViews, Zenon

LEMMA AcceptRefines ==
  ASSUME Shaped, Identified, Fresh, JobsStay, Accept
  PROVE  [D!Next]_(D!vars)
<1>1. PICK s : s = next /\ Connects(s)
  BY AcceptViews
<1>2. UNCHANGED D!jobvars
  BY DEF JobsStay, D!jobvars
<1>3. D!Connect(s)
  BY <1>1, <1>2, Zenon DEF Connects, D!Connect
<1>4. s \in Sockets
  BY <1>1, Zenon DEF Connects
<1> QED
  BY <1>3, <1>4, Zenon DEF D!Next, Sockets

\* A line that is answered at once: with its result, or with a reply of before.
LEMMA AnswerRefines ==
  ASSUME Shaped, Identified, Placed, JobsStay, NEW cmds, Line(cmds),
         NEW status \in {"completed", "error"}, Says(Answer(status, 0)),
         status = "completed" <=> "query" \in cmds, cmds = {"query"} \/ "query" \notin cmds
  PROVE  D!Next
<1>1. PICK s, r : s = clients[net.fd].sock /\ r = Answer(status, 0)
  OBVIOUS
<1>2. /\ s \in Sockets /\ Phases[s] = "open" /\ AllAsked[s] # <<>>
      /\ Head(AllAsked[s]).cmd \in cmds /\ Head(AllAsked[s]).id = Key[2] /\ Rest.sock = s
  BY <1>1, LineViews
<1>3. r \in To(s)
  BY <1>1, AnswerMay DEF MaySend
<1>4. D!Tells(s, r, Tail(AllAsked[s]))
  BY <1>1, <1>3, SaysViews, Zenon
<1>5. D!Result(Head(AllAsked[s])) = status
  BY <1>2 DEF D!Result
<1>6. r = [sock |-> s, id |-> Head(AllAsked[s]).id,
           status |-> D!Result(Head(AllAsked[s])), job |-> 0]
  BY <1>1, <1>2, <1>5, Zenon DEF Answer
<1>7. UNCHANGED D!jobvars
  BY DEF JobsStay, D!jobvars
<1>8. D!Answer(s)
  BY <1>2, <1>4, <1>6, <1>7, Zenon DEF D!Answer, D!Asking
<1> QED
  BY <1>2, <1>8, Zenon DEF D!Next, Sockets

LEMMA ReplayRefines ==
  ASSUME Shaped, Identified, Placed, Cached, Promised, Echo, JobsStay, Replay
  PROVE  D!Next
<1>1. PICK s, r : s = clients[net.fd].sock /\ r = replies[Key]
  OBVIOUS
<1>2. Line(AllCommands \ {"long"}) /\ Key \in DOMAIN replies
  BY Zenon DEF Replay
<1>3. /\ s \in Sockets /\ Phases[s] = "open" /\ AllAsked[s] # <<>>
      /\ Head(AllAsked[s]).id = Key[2] /\ net.fd \in Used /\ Key[1] = s
  BY <1>1, <1>2, LineViews, LineFacts
<1>4. Key[2] # 0 /\ r.id = Key[2] /\ r \in ToSet(Sent(s))
  BY <1>1, <1>2, <1>3, Zenon DEF Echo
<1>5. PICK i \in DOMAIN AllSent[s] : AllSent[s][i] = r
  <2>1. AllSent[s] = Sent(s)
    BY <1>3, ViewsAre
  <2> QED
    BY <1>4, <2>1 DEF ToSet
<1>6. r \in To(s)
  BY <1>1, <1>2, <1>3, Zenon DEF Cached, OwnReply
<1>7. D!Tells(s, AllSent[s][i], Tail(AllAsked[s]))
  <2>1. Says(r)
    BY <1>1, ReplayDoes
  <2> QED
    BY <1>1, <1>2, <1>5, <1>6, <2>1, SaysViews, Zenon
<1>8. UNCHANGED D!jobvars
  BY DEF JobsStay, D!jobvars
<1>9. D!Repeat(s)
  BY <1>3, <1>4, <1>5, <1>7, <1>8, Zenon DEF D!Repeat, D!Asking
<1> QED
  BY <1>3, <1>9, Zenon DEF D!Next, Sockets

LEMMA PushRefines ==
  ASSUME Shaped, Identified, Placed, Next, Pushes
  PROVE  D!Next
<1>1. PICK s, job : s = clients[net.fd].sock /\ job = Seen(NewJob)
  OBVIOUS
<1>2. Line({"capture", "get_preview"}) /\ Pushed
  BY Zenon DEF Pushes
<1>3. /\ s \in Sockets /\ Phases[s] = "open" /\ AllAsked[s] # <<>>
      /\ Head(AllAsked[s]).cmd \in {"capture", "get_preview"}
      /\ Head(AllAsked[s]).id = Key[2] /\ Rest.sock = s
  BY <1>1, <1>2, LineViews
<1>4. /\ Phases' = Phases /\ AllSent' = AllSent
      /\ AllAsked' = [AllAsked EXCEPT ![s] = Tail(AllAsked[s])]
  BY <1>1, <1>2, PushViews
<1>5. /\ Unanswered' = Unanswered \cup {job} /\ jobs' = jobs + 1
      /\ Unaccepted = {} /\ Unaccepted' = {job}
      /\ job = [sock |-> Rest.sock, id |-> Key[2], n |-> jobs + 1]
  BY <1>1, PushJobs
<1>6. job = [sock |-> s, id |-> Head(AllAsked[s]).id, n |-> jobs + 1]
  BY <1>3, <1>5, Zenon
<1>7. Unaccepted' = Unaccepted \cup {job}
  BY <1>5
<1>8. Head(AllAsked[s]).cmd \in D!Deferred
  BY <1>3 DEF D!Deferred
<1>9. D!Take(s)
  BY <1>3, <1>4, <1>5, <1>6, <1>7, <1>8, Zenon DEF D!Take, D!Asking
<1> QED
  BY <1>3, <1>9, Zenon DEF D!Next, Sockets

LEMMA PushStep ==
  ASSUME Shaped, Identified, Placed, Next, TryPush
  PROVE  D!Next
<1>1. UNCHANGED <<next, functors, batch, io>> /\ Line({"capture", "get_preview"})
  BY TryPushDoes, Zenon DEF TryPush, New
<1>2. CASE Pushed
  <2>1. Pushes
    BY <1>1, <1>2, Zenon DEF Pushes
  <2> QED
    BY <2>1, PushRefines
<1>3. CASE /\ Says(Answer("error", 0))
           /\ snapshots' = snapshots /\ jobs' = jobs /\ net' = net
  <2>1. ~Pushes
    <3>1. Pushes => jobs' = jobs + 1
      BY Zenon DEF Pushes, Pushed
    <3> QED
      BY <1>3, <3>1 DEF Shaped
  <2>2. ~Retain /\ ~RunFunctor
    BY <1>1, Zenon DEF Line, Retain, RunFunctor
  <2>3. JobsStay
    BY <2>1, <2>2, OtherJobs
  <2>4. "query" \notin {"capture", "get_preview"}
    OBVIOUS
  <2> QED
    BY <1>1, <1>3, <2>3, <2>4, AnswerRefines
<1> QED
  BY <1>2, <1>3, TryPushDoes, Zenon

\* The two replies of a job.
LEMMA AboutIs ==
  \A job, status : D!About(Seen(job), status) = Reply(job, status) /\ Seen(job).sock = job.sock
BY DEF D!About, Seen, Reply

LEMMA RetainRefines ==
  ASSUME Shaped, Identified, Placed, Retain
  PROVE  D!Next
<1>1. PICK job, r, fd, d : /\ job = net.job /\ r = Reply(job, "accepted") /\ fd = net.fd
                           /\ Steps(fd, d) /\ d.out = Append(clients[fd].out, r)
                           /\ d.in = clients[fd].in /\ fd \in Used
                           /\ clients[fd].sock = job.sock /\ job \in Given
  BY RetainDoes, Zenon
<1>2. PICK s : s = job.sock
  OBVIOUS
<1>3. r \in To(clients[fd].sock)
  BY <1>1, JobReply
<1>4. s \in Sockets /\ D!Tells(s, r, clients[fd].in \o peers[s].wire)
  BY <1>1, <1>2, <1>3, TellingStep, Zenon
<1>5. AllAsked[s] = clients[fd].in \o peers[s].wire
  <2>1. Asked(s) = clients[fd].in \o peers[s].wire
    BY <1>1, <1>2, AskedOfOpen, Zenon
  <2> QED
    BY <1>4, <2>1, ViewsAre, Zenon
<1>6. /\ Unanswered' = Unanswered /\ jobs' = jobs
      /\ Unaccepted = {Seen(job)} /\ Unaccepted' = {} /\ Seen(job) \in Unanswered
  BY <1>1, RetainJobs
<1>7. Unaccepted' = Unaccepted \ {Seen(job)} /\ Seen(job) \in Unaccepted
  BY <1>6
<1>8. D!Tells(Seen(job).sock, D!About(Seen(job), "accepted"), AllAsked[Seen(job).sock])
  BY <1>1, <1>2, <1>4, <1>5, AboutIs, Zenon
<1>9. D!Accept(Seen(job))
  BY <1>6, <1>7, <1>8, Zenon DEF D!Accept
<1> QED
  BY <1>6, <1>9, Zenon DEF D!Next

LEMMA RunRefines ==
  ASSUME Shaped, Identified, Placed, InTurn, Promised, Next, RunFunctor
  PROVE  D!Next
<1>1. PICK job, r : job = Head(batch) /\ r = Reply(job, "completed")
  OBVIOUS
<1>2. /\ Unanswered' = Unanswered \ {Seen(job)} /\ jobs' = jobs
      /\ Unaccepted = {} /\ Unaccepted' = {} /\ Seen(job) \in Unanswered
      /\ \A other \in Unanswered : Seen(job).n <= other.n
  BY <1>1, RunJobs
<1>3. PICK s : s = job.sock
  OBVIOUS
<1>4. job \in Given /\ s \in Sockets
  BY <1>1, <1>3, FunctorDoes, JobFacts, Zenon
<1>5. Seen(job).sock = s /\ D!About(Seen(job), "completed") = r
  BY <1>1, <1>3, AboutIs, Zenon
<1>6. IF Phases[s] = "open" THEN D!Tells(s, r, AllAsked[s]) ELSE UNCHANGED <<Phases, AllAsked, AllSent>>
  <2>1. CASE /\ clients' = clients /\ peers' = peers /\ next' = next
             /\ \A fd \in Used : clients[fd].sock # s
    <3>1. Unseen
      BY <2>1, QuietViews
    <3>2. Phases[s] # "open"
      BY <1>4, <2>1, PhaseIs, ViewsAre, Zenon
    <3> QED
      BY <3>1, <3>2 DEF Unseen
  <2>2. ASSUME NEW fd \in Used, NEW d, Steps(fd, d), clients[fd].sock = s, d.in = clients[fd].in,
               d.out = Append(clients[fd].out, r)
        PROVE  Phases[s] = "open" /\ D!Tells(s, r, AllAsked[s])
    <3>1. r \in To(clients[fd].sock)
      BY <1>1, <1>3, <1>4, <2>2, JobReply
    <3>2. Phases[s] = "open" /\ D!Tells(s, r, clients[fd].in \o peers[s].wire)
      BY <2>2, <3>1, TellingStep, Zenon
    <3>3. AllAsked[s] = clients[fd].in \o peers[s].wire
      <4>1. Asked(s) = clients[fd].in \o peers[s].wire
        BY <2>2, AskedOfOpen, Zenon
      <4> QED
        BY <1>4, <4>1, ViewsAre, Zenon
    <3> QED
      BY <3>2, <3>3, Zenon
  <2> QED
    BY <1>1, <1>3, <2>1, <2>2, FunctorDoes, Zenon
<1>7. Seen(job) \in Unanswered \ Unaccepted /\ Unaccepted' = Unaccepted
  BY <1>2
<1>8. D!Finish(Seen(job))
  BY <1>2, <1>5, <1>6, <1>7, Zenon DEF D!Finish
<1> QED
  BY <1>2, <1>8, Zenon DEF D!Next

\* What the refinement needs to know of a state.
DialogueIInv == ControlIInv /\ Fresh /\ Echo

LEMMA StepRefines ==
  ASSUME DialogueIInv, [Next]_vars
  PROVE  [D!Next]_(D!vars)
<1>0. /\ Shaped /\ Identified /\ Watching /\ Placed /\ Reading /\ InTurn /\ Cached /\ Promised
      /\ Fresh /\ Echo
  BY Zenon DEF DialogueIInv, ControlIInv
<1>1. CASE UNCHANGED vars
  <2>1. clients' = clients /\ peers' = peers /\ next' = next
    BY <1>1 DEF vars
  <2>2. JobsStay
    BY <1>1 DEF vars, work, JobsStay, Unanswered, Unaccepted, Seen
  <2> QED
    BY <2>1, <2>2, QuietViews, EndsStep
<1>2. CASE Next /\ ~Retain /\ ~RunFunctor /\ ~Pushes
  <2>0. JobsStay
    BY <1>0, <1>2, OtherJobs
  <2>1. CASE Quiet \/ DispatchError \/ DispatchWrite \/ DispatchRead \/ LineTooLong \/ LinesDone
               \/ Release
    BY <1>0, <2>0, <2>1, SilentRefines
  <2>2. CASE PeerStep
    BY <1>0, <2>0, <2>2, PeerRefines
  <2>3. CASE Accept
    BY <1>0, <2>0, <2>3, AcceptRefines
  <2>4. CASE Query
    <3>1. Line({"query"}) /\ Says(Answer("completed", 0))
      BY <1>0, <2>4, QueryDoes
    <3> QED
      BY <1>0, <2>0, <3>1, AnswerRefines
  <2>5. CASE Reject
    <3>1. Line({"bad", "capture", "get_preview"}) /\ Says(Answer("error", 0))
      BY <1>0, <2>5, RejectDoes
    <3>2. "query" \notin {"bad", "capture", "get_preview"}
      OBVIOUS
    <3> QED
      BY <1>0, <2>0, <3>1, <3>2, AnswerRefines
  <2>6. CASE Replay
    BY <1>0, <2>0, <2>6, ReplayRefines
  <2>7. CASE TryPush
    BY <1>0, <1>2, <2>7, PushStep
  <2> QED
    BY <1>2, <2>1, <2>2, <2>3, <2>4, <2>5, <2>6, <2>7, Cases, Zenon
<1>3. CASE Next /\ Retain
  BY <1>0, <1>3, RetainRefines
<1>4. CASE Next /\ RunFunctor
  BY <1>0, <1>4, RunRefines
<1>5. CASE Next /\ Pushes
  BY <1>0, <1>5, PushRefines
<1> QED
  BY <1>1, <1>2, <1>3, <1>4, <1>5, Zenon

LEMMA InitRefines == Init => D!Init
<1> SUFFICES ASSUME Init PROVE D!Init
  OBVIOUS
<1>1. /\ clients = [fd \in Fds |-> NoClient] /\ next = 1 /\ jobs = 0 /\ net.pc = "poll"
      /\ snapshots = <<>> /\ functors = <<>> /\ batch = <<>> /\ io = NoJob
      /\ \A s \in Sockets : peers[s].got = <<>> /\ peers[s].wire = <<>>
  BY DEF Init, Sockets
<1>2. Used = {}
  BY <1>1 DEF Used
<1>3. ASSUME NEW s \in Sockets
      PROVE  Phase(s) = "new" /\ Asked(s) = <<>> /\ Sent(s) = <<>>
  <2>1. ~(s < next)
    BY <1>1 DEF Sockets
  <2>2. Holding(s) = {}
    BY <1>2 DEF Holding
  <2> QED
    BY <1>1, <1>2, <2>1, <2>2, PhaseIs DEF Asked, Sent
<1>4. /\ Phases = [s \in Sockets |-> "new"] /\ AllAsked = [s \in Sockets |-> <<>>]
      /\ AllSent = [s \in Sockets |-> <<>>]
  BY <1>3 DEF Phases, AllAsked, AllSent, Sockets
<1>5. Unanswered = {}
  <2>1. Waiting = {}
    BY <1>1, NoItems DEF Waiting, Busy
  <2> QED
    BY <2>1, SeenIs
<1>6. Unaccepted = {}
  BY <1>1 DEF Unaccepted
<1> QED
  BY <1>1, <1>4, <1>5, <1>6 DEF D!Init, Sockets

LEMMA InitDialogue == Init => Fresh /\ Echo
<1> SUFFICES ASSUME Init PROVE Fresh /\ Echo
  OBVIOUS
<1>1. Fresh
  BY DEF Init, Fresh, Sockets
<1>2. DOMAIN replies = {}
  BY DEF Init
<1> QED
  BY <1>1, <1>2 DEF Echo

LEMMA DialogueKept ==
  ASSUME DialogueIInv, [Next]_vars
  PROVE  Fresh' /\ Echo'
<1>0. /\ Shaped /\ Identified /\ Watching /\ Placed /\ Reading /\ InTurn /\ Cached /\ Promised
      /\ Fresh /\ Echo
  BY Zenon DEF DialogueIInv, ControlIInv
<1>1. Fresh'
  BY <1>0, FreshKept
<1>2. CASE Next
  BY <1>0, <1>1, <1>2, EchoKept
<1>3. CASE UNCHANGED vars
  <2>1. clients' = clients /\ peers' = peers /\ replies' = replies
    BY <1>3 DEF vars, store
  <2>2. Echo'
    BY <1>0, <2>1 DEF Echo, Used, Sent, Holding
  <2> QED
    BY <1>1, <2>2
<1> QED
  BY <1>2, <1>3

\* The control plane implements the dialogue: the requests of a socket are executed in
\* the order they were sent, each gets one reply or becomes a job, each job is accepted
\* and then answered once, in the order of the jobs, and a repeated request gets a reply
\* that its socket was sent before; whatever is closed, reused or posted meanwhile
\* (TcpServer.h's callbacks, VisionPipeline::command and the JPEG thread).
THEOREM ImplementsDialogue == Spec => RefinesDialogue
<1>1. Init => D!Init /\ Fresh /\ Echo
  BY InitRefines, InitDialogue, Zenon
<1>2. DialogueIInv /\ [Next]_vars => Fresh' /\ Echo'
  BY DialogueKept
<1>3. DialogueIInv /\ [Next]_vars => [D!Next]_(D!vars)
  BY StepRefines
<1> QED
  BY <1>1, <1>2, <1>3, ControlInductive, PTL DEF Spec, RefinesDialogue, D!Spec, DialogueIInv
===============================================================================
