------------------------------- MODULE Server -------------------------------
(***************************************************************************)
(* server.c: the listening process and the processes it forks, one per     *)
(* accepted connection, with the descriptors and the SIGCHLD delivery the  *)
(* kernel keeps for them.                                                  *)
(*                                                                         *)
(* A child process is named by the connection it was forked for; its own   *)
(* work (handle_conn, static.c) is the module Connection, and here it is   *)
(* only "serving" until it exits.  A socket is named by its connection,    *)
(* the listening socket by LISTEN.                                         *)
(***************************************************************************)
EXTENDS Naturals, Sequences

CONSTANTS
  Conns,     \* the connections clients may open
  LISTEN,    \* the listening socket
  NoConn,    \* serving_socket outside the body of the accept loop
  BACKLOG    \* the backlog argument of listen() (5 in the source)

ASSUME ConnsAssumption == LISTEN \notin Conns /\ NoConn \notin Conns
ASSUME BacklogAssumption == BACKLOG \in Nat

VARIABLES
  pc,             \* the call the parent's main() is about to make
  serving_socket, \* the socket the last accept() returned
  parent_fds,     \* sockets open in the parent
  child,          \* [Conns -> ChildState]
  child_fds,      \* sockets open in each child
  handling,       \* sigaction() has installed sigchld_handler
  sigchld,        \* SIGCHLD is pending: one bit, however many children exited
  handler,        \* where the parent is in sigchld_handler, or "idle"
  backlog,        \* connections the kernel has queued for accept()
  arrived,        \* connections that have ever been queued
  faulty          \* whether the parent's calls may fail in this behaviour

kernel == <<backlog, arrived, faulty>>
vars == <<pc, serving_socket, parent_fds, child, child_fds, handling, sigchld,
          handler, kernel>>

Sockets == Conns \union {LISTEN}
ChildState == {"none", "forked", "serving", "zombie", "reaped"}

\* The calls of main() before the accept loop, each with the one after it.
SetupNext == [chdir |-> "socket", socket |-> "setsockopt", setsockopt |-> "bind",
              bind |-> "listen", listen |-> "sigaction", sigaction |-> "accept"]

Open(s) == s \in parent_fds \/ \E c \in Conns : s \in child_fds[c]
Listening == Open(LISTEN) /\ pc \notin {"setsockopt", "bind", "listen"}

\* main()'s own code runs only while no signal handler interrupts it.
MainAt(call) == pc = call /\ handler = "idle"

Init ==
  /\ pc = "chdir"
  /\ serving_socket = NoConn
  /\ parent_fds = {}
  /\ child = [c \in Conns |-> "none"]
  /\ child_fds = [c \in Conns |-> {}]
  /\ handling = FALSE
  /\ sigchld = FALSE
  /\ handler = "idle"
  /\ backlog = <<>>
  /\ arrived = {}
  /\ faulty \in BOOLEAN

-----------------------------------------------------------------------------
(* The parent. *)

\* error(): perror and exit(1).  The kernel closes the parent's descriptors
\* and hands its zombies to init, which reaps them.
Error ==
  /\ faulty
  /\ pc' = "exited"
  /\ serving_socket' = NoConn
  /\ parent_fds' = {}
  /\ child' = [c \in Conns |-> IF child[c] = "zombie" THEN "reaped" ELSE child[c]]
  /\ sigchld' = FALSE
  /\ UNCHANGED <<child_fds, handling, handler, kernel>>

\* Mutant: the handler is not installed.
Setup_NoHandler ==
  /\ pc \in DOMAIN SetupNext
  /\ MainAt(pc)
  /\ pc' = SetupNext[pc]
  /\ parent_fds' = IF pc = "socket" THEN {LISTEN} ELSE parent_fds
  /\ UNCHANGED <<serving_socket, child, child_fds, handling, sigchld, handler, kernel>>

Setup ==
  /\ pc \in DOMAIN SetupNext
  /\ MainAt(pc)
  /\ pc' = SetupNext[pc]
  /\ parent_fds' = IF pc = "socket" THEN {LISTEN} ELSE parent_fds
  /\ handling' = (handling \/ pc = "sigaction")
  /\ UNCHANGED <<serving_socket, child, child_fds, sigchld, handler, kernel>>

\* Every call but sigaction() has its result checked.
SetupFails ==
  /\ pc \in DOMAIN SetupNext \ {"sigaction"}
  /\ MainAt(pc)
  /\ Error

Accept ==
  /\ MainAt("accept")
  /\ backlog # <<>>
  /\ serving_socket' = Head(backlog)
  /\ backlog' = Tail(backlog)
  /\ parent_fds' = parent_fds \union {Head(backlog)}
  /\ pc' = "fork"
  /\ UNCHANGED <<child, child_fds, handling, sigchld, handler, arrived, faulty>>

\* Mutant: the result of accept() is not checked.
AcceptFails_Unchecked ==
  /\ MainAt("accept")
  /\ serving_socket' = "-1"
  /\ pc' = "fork"
  /\ UNCHANGED <<parent_fds, child, child_fds, handling, sigchld, handler, kernel>>

\* error("accept") exits, so the `continue` after it never runs.
AcceptFails == MainAt("accept") /\ Error

\* The child starts with a copy of every descriptor of the parent.
Fork ==
  /\ MainAt("fork")
  /\ child' = [child EXCEPT ![serving_socket] = "forked"]
  /\ child_fds' = [child_fds EXCEPT ![serving_socket] = parent_fds]
  /\ pc' = "close"
  /\ UNCHANGED <<serving_socket, parent_fds, handling, sigchld, handler, kernel>>

\* Mutant: a failed fork() is ignored and the next connection accepted.
ForkFails_Continues ==
  /\ MainAt("fork")
  /\ pc' = "accept"
  /\ serving_socket' = NoConn
  /\ UNCHANGED <<parent_fds, child, child_fds, handling, sigchld, handler, kernel>>

ForkFails == MainAt("fork") /\ Error

\* Mutants: the parent does not close the connection, or closes the wrong socket.
ParentClose_Forgotten ==
  /\ MainAt("close")
  /\ serving_socket' = NoConn
  /\ pc' = "accept"
  /\ UNCHANGED <<parent_fds, child, child_fds, handling, sigchld, handler, kernel>>
ParentClose_Swapped ==
  /\ MainAt("close")
  /\ parent_fds' = parent_fds \ {LISTEN}
  /\ serving_socket' = NoConn
  /\ pc' = "accept"
  /\ UNCHANGED <<child, child_fds, handling, sigchld, handler, kernel>>

ParentClose ==
  /\ MainAt("close")
  /\ parent_fds' = parent_fds \ {serving_socket}
  /\ serving_socket' = NoConn
  /\ pc' = "accept"
  /\ UNCHANGED <<child, child_fds, handling, sigchld, handler, kernel>>

Main == Setup \/ SetupFails \/ Accept \/ AcceptFails \/ Fork \/ ForkFails \/ ParentClose

-----------------------------------------------------------------------------
(* sigchld_handler, which interrupts main() at any point.  SIGCHLD is       *)
(* blocked while it runs: one that arrives then is delivered on its return. *)

Deliver ==
  /\ sigchld /\ handling /\ handler = "idle" /\ pc # "exited"
  /\ sigchld' = FALSE
  /\ handler' = "waitpid"
  /\ UNCHANGED <<pc, serving_socket, parent_fds, child, child_fds, handling, kernel>>

\* Mutant: `if` for `while`, one child reaped per signal.
Reap_Once ==
  /\ handler = "waitpid"
  /\ \E c \in Conns :
       /\ child[c] = "zombie"
       /\ child' = [child EXCEPT ![c] = "reaped"]
  /\ handler' = "return"
  /\ UNCHANGED <<pc, serving_socket, parent_fds, child_fds, handling, sigchld, kernel>>

\* waitpid(-1, NULL, WNOHANG) > 0: some zombie is reaped, and the loop goes on.
Reap ==
  /\ handler = "waitpid"
  /\ \E c \in Conns :
       /\ child[c] = "zombie"
       /\ child' = [child EXCEPT ![c] = "reaped"]
  /\ UNCHANGED <<pc, serving_socket, parent_fds, child_fds, handling, sigchld,
                 handler, kernel>>

\* Mutant: waitpid without WNOHANG, which waits for any child still running.
ReapDone_Blocking ==
  /\ handler = "waitpid"
  /\ \A c \in Conns : child[c] \in {"none", "reaped"}
  /\ handler' = "return"
  /\ UNCHANGED <<pc, serving_socket, parent_fds, child, child_fds, handling,
                 sigchld, kernel>>

\* waitpid found no zombie (0 or ECHILD).  A child may still exit before the
\* handler has returned.
ReapDone ==
  /\ handler = "waitpid"
  /\ \A c \in Conns : child[c] # "zombie"
  /\ handler' = "return"
  /\ UNCHANGED <<pc, serving_socket, parent_fds, child, child_fds, handling,
                 sigchld, kernel>>

\* Mutant: no SA_RESTART, accept() fails with EINTR.
HandlerReturn_NoRestart ==
  /\ handler = "return"
  /\ handler' = "idle"
  /\ pc' = IF pc = "accept" THEN "exited" ELSE pc
  /\ UNCHANGED <<serving_socket, parent_fds, child, child_fds, handling,
                 sigchld, kernel>>

\* SA_RESTART: an accept() that the signal interrupted goes on waiting, so
\* main() is where it was.
HandlerReturn ==
  /\ handler = "return"
  /\ handler' = "idle"
  /\ UNCHANGED <<pc, serving_socket, parent_fds, child, child_fds, handling,
                 sigchld, kernel>>

Handler == Deliver \/ Reap \/ ReapDone \/ HandlerReturn

-----------------------------------------------------------------------------
(* The children. *)

\* Mutant: the child keeps the listening socket.
ChildCloseListen_Kept(c) ==
  /\ child[c] = "forked"
  /\ child' = [child EXCEPT ![c] = "serving"]
  /\ UNCHANGED <<pc, serving_socket, parent_fds, child_fds, handling, sigchld,
                 handler, kernel>>

ChildCloseListen(c) ==
  /\ child[c] = "forked"
  /\ child' = [child EXCEPT ![c] = "serving"]
  /\ child_fds' = [child_fds EXCEPT ![c] = @ \ {LISTEN}]
  /\ UNCHANGED <<pc, serving_socket, parent_fds, handling, sigchld, handler, kernel>>

\* handle_conn only leaves through exit(1) or a fatal signal.  An orphan is
\* reaped by init; otherwise the child is a zombie and the parent is signalled.
ChildExit(c) ==
  /\ child[c] = "serving"
  /\ child_fds' = [child_fds EXCEPT ![c] = {}]
  /\ child' = [child EXCEPT ![c] = IF pc = "exited" THEN "reaped" ELSE "zombie"]
  /\ sigchld' = (pc # "exited")
  /\ UNCHANGED <<pc, serving_socket, parent_fds, handling, handler, kernel>>

-----------------------------------------------------------------------------
(* The kernel's accept queue: full once it holds more than BACKLOG. *)

Connect(c) ==
  /\ c \notin arrived
  /\ Listening
  /\ Len(backlog) <= BACKLOG
  /\ backlog' = Append(backlog, c)
  /\ arrived' = arrived \union {c}
  /\ UNCHANGED <<pc, serving_socket, parent_fds, child, child_fds, handling,
                 sigchld, handler, faulty>>

Next ==
  \/ Main
  \/ Handler
  \/ \E c \in Conns : ChildCloseListen(c) \/ ChildExit(c) \/ Connect(c)

\* The scheduler runs every runnable process, and a pending signal is
\* delivered.  Nothing makes a client connect or a child finish.
Fairness ==
  /\ WF_vars(Main)
  /\ WF_vars(Handler)
  /\ \A c \in Conns : WF_vars(ChildCloseListen(c))

Spec == Init /\ [][Next]_vars
FairSpec == Spec /\ Fairness

-----------------------------------------------------------------------------
(* Properties. *)

TypeOK ==
  /\ pc \in DOMAIN SetupNext \union {"accept", "fork", "close", "exited"}
  /\ serving_socket \in Conns \union {NoConn}
  /\ parent_fds \in SUBSET Sockets
  /\ child \in [Conns -> ChildState]
  /\ child_fds \in [Conns -> SUBSET Sockets]
  /\ handling \in BOOLEAN /\ sigchld \in BOOLEAN
  /\ handler \in {"idle", "waitpid", "return"}
  /\ backlog \in Seq(Conns) /\ Len(backlog) <= BACKLOG + 1
  /\ arrived \in SUBSET Conns /\ faulty \in BOOLEAN

\* SIGCHLD does not queue, so several exits may leave one pending signal.  No
\* zombie is ever forgotten: while one exists, the handler is installed and
\* either it is still looping or a signal that will start it is pending
\* (server.c:73-82).
NoLostZombie ==
  (\E c \in Conns : child[c] = "zombie") =>
    handling /\ (sigchld \/ handler = "waitpid")

\* fork() copies every descriptor, yet no child ever holds the socket of
\* another client (server.c:56-66): the parent has closed all earlier ones.
OwnSocketOnly == \A c \in Conns : child_fds[c] \subseteq {LISTEN, c}

\* Once its child is gone, nothing keeps a client's connection open but the
\* parent's own close() still to come: the client will see the end of the
\* stream (server.c:62-65).
ReleasedWithChild ==
  \A c \in Conns : child[c] \in {"zombie", "reaped"} /\ Open(c) =>
    pc = "close" /\ serving_socket = c

\* Every connection taken from the queue is in exactly one place: in the
\* parent's hands before fork(), with its child, or closed because the parent
\* stopped (server.c:46-67).  None is lost with its socket open.
NoOrphanSocket ==
  \A c \in Conns : child[c] = "none" /\ Open(c) => pc = "fork" /\ serving_socket = c

\* The parent runs the accept loop's body only for a connection that has no
\* child yet, and waits in accept() with nothing but the listening socket
\* open, so it never runs out of descriptors (server.c:46-67).
ParentFds ==
  /\ pc = "accept" => parent_fds = {LISTEN}
  /\ pc = "fork" => child[serving_socket] = "none"

\* Every child that exits is eventually reaped (server.c:73-75).
ZombiesReaped ==
  \A c \in Conns : child[c] = "zombie" ~> child[c] = "reaped"

\* Every connection the kernel queued is eventually handed to a child of its
\* own, unless a call of the parent fails: no exit of a child, and no signal at
\* any point of the accept loop, stops or stalls the server (server.c:46-82).
AllServed ==
  \A c \in Conns : c \in arrived ~> (child[c] # "none" \/ (faulty /\ pc = "exited"))

\* Once the parent has stopped, the listening socket is eventually released
\* even though the children it forked still serve (server.c:61).
PortReleased == pc = "exited" ~> ~Open(LISTEN)
=============================================================================
