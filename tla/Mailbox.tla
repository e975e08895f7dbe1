-------------------------------- MODULE Mailbox --------------------------------
(***************************************************************************)
(* What EventLoop::queueInLoop promises its callers: tasks posted from any *)
(* thread run one at a time, each at most once, in the order they were     *)
(* posted, until the owner closes the mailbox.                             *)
(***************************************************************************)
EXTENDS Sequences

CONSTANT Tasks

VARIABLES
  box,    \* posted and not yet run
  done,   \* run, in order
  open    \* the owner still runs tasks

vars == <<box, done, open>>

Entries(s) == {s[i] : i \in DOMAIN s}

Init == box = <<>> /\ done = <<>> /\ open = TRUE

Post(t) ==
  /\ t \notin Entries(box) \cup Entries(done)
  /\ box' = Append(box, t)
  /\ UNCHANGED <<done, open>>

Run ==
  /\ open /\ box # <<>>
  /\ done' = Append(done, Head(box))
  /\ box' = Tail(box)
  /\ open' = open

\* A task may post another while it runs.
RunAndPost(t) ==
  /\ open /\ box # <<>>
  /\ t \notin Entries(box) \cup Entries(done)
  /\ done' = Append(done, Head(box))
  /\ box' = Append(Tail(box), t)
  /\ open' = open

Close == open /\ open' = FALSE /\ UNCHANGED <<box, done>>

Next == Run \/ Close \/ \E t \in Tasks : Post(t) \/ RunAndPost(t)

Spec == Init /\ [][Next]_vars
===============================================================================
