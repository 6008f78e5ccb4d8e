---------------------------- MODULE ServerService ----------------------------
(* Server, seen as the service of ConnService. *)
EXTENDS Server

\* The connection main() has accepted and not forked for is still waiting.
waiting == (IF pc = "fork" THEN <<serving_socket>> ELSE <<>>) \o backlog

StatusOf(c) ==
  IF c \notin arrived THEN "new"
  ELSE IF child[c] \in {"forked", "serving"} THEN "served"
  ELSE IF child[c] \in {"zombie", "reaped"} THEN IF Open(c) THEN "ended" ELSE "closed"
  ELSE IF \E i \in 1..Len(waiting) : waiting[i] = c THEN "waiting" ELSE "closed"

CS == INSTANCE ConnService WITH
        up <- pc # "exited", waiting <- waiting, status <- [c \in Conns |-> StatusOf(c)]

\* The server implements the service: through every interleaving of signals,
\* exits and failing calls, connections are handed to children in the order
\* they came, none twice and none dropped while the server is up but the one
\* in main()'s hands when it stops (server.c:46-67).
ImplementsService == CS!Spec

\* And it keeps the promise: each waiting connection is reached, and each ended
\* one closed, while the server is up (server.c:46-82).
KeepsServing == CS!FairSpec
=============================================================================
