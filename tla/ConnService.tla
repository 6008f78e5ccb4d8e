---------------------------- MODULE ConnService ----------------------------
(***************************************************************************)
(* What the server promises of every connection, without descriptors,      *)
(* signals, processes or a kernel queue: connections are served in the     *)
(* order they came, each by a server of its own, for as long as the        *)
(* service is up, and are closed once their server has ended.              *)
(***************************************************************************)
EXTENDS Sequences

CONSTANT Conns

VARIABLES
  up,       \* the service takes connections
  waiting,  \* connections nobody serves yet, first come first
  status    \* [Conns -> Status]

vars == <<up, waiting, status>>

\* "ended": its server is gone, the connection is not closed yet.
Status == {"new", "waiting", "served", "ended", "closed"}

Init == up = TRUE /\ waiting = <<>> /\ status = [c \in Conns |-> "new"]

Becomes(c, s) == status' = [status EXCEPT ![c] = s]

Arrive(c) ==
  /\ status[c] = "new"
  /\ Becomes(c, "waiting")
  /\ waiting' = Append(waiting, c)
  /\ UNCHANGED up

Serve ==
  /\ up /\ waiting # <<>>
  /\ Becomes(Head(waiting), "served")
  /\ waiting' = Tail(waiting)
  /\ UNCHANGED up

Finish(c) ==
  /\ status[c] = "served"
  /\ Becomes(c, "ended") \/ Becomes(c, "closed")
  /\ UNCHANGED <<up, waiting>>

Release(c) ==
  /\ status[c] = "ended"
  /\ Becomes(c, "closed")
  /\ UNCHANGED <<up, waiting>>

\* The service stops for good.  The connection it was about to serve is
\* closed; those being served go on.
Stop ==
  /\ up /\ up' = FALSE
  /\ \/ UNCHANGED <<waiting, status>>
     \/ /\ waiting # <<>>
        /\ Becomes(Head(waiting), "closed")
        /\ waiting' = Tail(waiting)

Next == Serve \/ Stop \/ \E c \in Conns : Arrive(c) \/ Finish(c) \/ Release(c)

Spec == Init /\ [][Next]_vars

\* While it is up, the service gets to every connection; what has ended is
\* closed.  How long a connection is served is its client's affair.
FairSpec == Spec /\ WF_vars(Serve) /\ \A c \in Conns : WF_vars(Release(c))
=============================================================================
