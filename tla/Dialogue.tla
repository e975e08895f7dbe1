------------------------------- MODULE Dialogue -------------------------------
(***************************************************************************)
(* What the control protocol promises the sockets that speak it.           *)
(*                                                                         *)
(* The requests of a socket are executed in the order they were sent.  A   *)
(* request gets one reply: its result, an error, or the repetition of a    *)
(* reply that this socket was sent before for the same id; or it becomes a *)
(* job.  A job is first told to be accepted and then answered, once; the   *)
(* jobs of all sockets are answered in the order they were taken.  A       *)
(* connection may end at any time, with the last of its replies lost, and  *)
(* its socket is sent nothing afterwards.                                  *)
(***************************************************************************)
EXTENDS Naturals, Sequences

CONSTANTS
  Sockets,
  Requests   \* what they may ask, records [id, cmd]

VARIABLES
  phase,     \* of each socket: "new", "open" or "over"
  asked,     \* the requests of each not yet executed
  sent,      \* the replies that each was sent
  taken,     \* the number of jobs up to now
  waiting,   \* the jobs not yet answered, [sock, id, n]
  untold     \* those of them not yet told to be accepted

jobvars == <<taken, waiting, untold>>
vars == <<phase, asked, sent, jobvars>>

Deferred == {"capture", "get_preview"}

Init ==
  /\ phase = [s \in Sockets |-> "new"]
  /\ asked = [s \in Sockets |-> <<>>] /\ sent = [s \in Sockets |-> <<>>]
  /\ taken = 0 /\ waiting = {} /\ untold = {}

Connect(s) ==
  /\ phase[s] = "new"
  /\ \E p \in {"open", "over"} : phase' = [phase EXCEPT ![s] = p]
  /\ UNCHANGED <<asked, sent, jobvars>>

Ask(s, request) ==
  /\ phase[s] = "open"
  /\ asked' = [asked EXCEPT ![s] = Append(@, request)]
  /\ UNCHANGED <<phase, sent, jobvars>>

\* The connection of s ends, which was to be sent q.
Closes(s, q) ==
  /\ phase' = [phase EXCEPT ![s] = "over"]
  /\ asked' = [asked EXCEPT ![s] = <<>>]
  /\ \E n \in 0..Len(q) : sent' = [sent EXCEPT ![s] = SubSeq(q, 1, n)]

\* Socket s is told r, and the requests in rest are left to execute.
Tells(s, r, rest) ==
  /\ phase[s] = "open"
  /\ \/ /\ sent' = [sent EXCEPT ![s] = Append(@, r)]
        /\ asked' = [asked EXCEPT ![s] = rest]
        /\ phase' = phase
     \/ Closes(s, Append(sent[s], r))

Ends(s) == phase[s] = "open" /\ Closes(s, sent[s]) /\ UNCHANGED jobvars

Asking(s) == phase[s] = "open" /\ asked[s] # <<>>
Result(request) == IF request.cmd = "query" THEN "completed" ELSE "error"

Answer(s) ==
  /\ Asking(s)
  /\ LET request == Head(asked[s]) IN
       Tells(s, [sock |-> s, id |-> request.id, status |-> Result(request), job |-> 0],
             Tail(asked[s]))
  /\ UNCHANGED jobvars

\* The null id, 0, stands for no id.
Repeat(s) ==
  /\ Asking(s) /\ Head(asked[s]).id # 0
  /\ \E i \in DOMAIN sent[s] :
       sent[s][i].id = Head(asked[s]).id /\ Tells(s, sent[s][i], Tail(asked[s]))
  /\ UNCHANGED jobvars

Take(s) ==
  /\ Asking(s) /\ Head(asked[s]).cmd \in Deferred
  /\ LET job == [sock |-> s, id |-> Head(asked[s]).id, n |-> taken + 1] IN
       waiting' = waiting \cup {job} /\ untold' = untold \cup {job}
  /\ taken' = taken + 1
  /\ asked' = [asked EXCEPT ![s] = Tail(@)]
  /\ UNCHANGED <<phase, sent>>

About(job, status) == [sock |-> job.sock, id |-> job.id, status |-> status, job |-> job.n]

Accept(job) ==
  /\ job \in untold
  /\ untold' = untold \ {job}
  /\ Tells(job.sock, About(job, "accepted"), asked[job.sock])
  /\ UNCHANGED <<taken, waiting>>

\* The oldest job is answered, unless nobody waits for it any more.
Finish(job) ==
  /\ job \in waiting \ untold /\ \A other \in waiting : job.n <= other.n
  /\ waiting' = waiting \ {job}
  /\ IF phase[job.sock] = "open"
       THEN Tells(job.sock, About(job, "completed"), asked[job.sock])
       ELSE UNCHANGED <<phase, asked, sent>>
  /\ UNCHANGED <<taken, untold>>

Next ==
  \/ \E s \in Sockets : Connect(s) \/ Ends(s) \/ Answer(s) \/ Repeat(s) \/ Take(s)
  \/ \E s \in Sockets, request \in Requests : Ask(s, request)
  \/ \E job \in waiting : Accept(job) \/ Finish(job)

Spec == Init /\ [][Next]_vars
===============================================================================
