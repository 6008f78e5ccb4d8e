---------------------------- MODULE ServerProofs ----------------------------
(***************************************************************************)
(* The safety properties of Server, proved for every set of connections    *)
(* and every BACKLOG.                                                      *)
(*                                                                         *)
(* None of them is inductive: that no child holds a foreign socket depends *)
(* on what the parent holds at fork(), that no zombie is forgotten on the  *)
(* handler being installed before the first fork().  IInv below names      *)
(* exactly what each process holds at each point of main().                *)
(***************************************************************************)
EXTENDS Server, TLAPS

SetupCalls == {"chdir", "socket", "setsockopt", "bind", "listen", "sigaction"}
LoopCalls == {"accept", "fork", "close"}

\* What the parent has open before each call of main().
ParentHolds ==
  /\ pc \in {"chdir", "socket", "exited"} => parent_fds = {}
  /\ pc \in {"setsockopt", "bind", "listen", "sigaction", "accept"} =>
       parent_fds = {LISTEN}
  /\ pc \in {"fork", "close"} =>
       /\ serving_socket \in Conns
       /\ parent_fds = {LISTEN, serving_socket}

\* What a child has open in each of its states.
ChildHolds ==
  \A c \in Conns :
    child_fds[c] = CASE child[c] = "forked"  -> {LISTEN, c}
                     [] child[c] = "serving" -> {c}
                     [] OTHER                -> {}

\* Children, signals and the handler exist only once main() is in its loop,
\* and zombies only while the parent runs.
Stages ==
  /\ pc \in SetupCalls =>
       /\ \A c \in Conns : child[c] = "none"
       /\ ~sigchld /\ handler = "idle"
  /\ pc \in LoopCalls => handling
  /\ pc = "exited" => handler = "idle" /\ \A c \in Conns : child[c] # "zombie"

\* A queued connection waits for its child; so does the one just accepted,
\* and it is no longer in the queue.
Waiting(c) == c \in arrived /\ child[c] = "none"
QueueInv ==
  /\ \A i \in 1..Len(backlog) : Waiting(backlog[i])
  /\ \A i, j \in 1..Len(backlog) : backlog[i] = backlog[j] => i = j
  /\ pc = "fork" =>
       /\ Waiting(serving_socket)
       /\ \A i \in 1..Len(backlog) : backlog[i] # serving_socket
  /\ pc = "close" => child[serving_socket] # "none"
  /\ \A c \in Conns : child[c] # "none" => c \in arrived

IInv == TypeOK /\ ParentHolds /\ ChildHolds /\ Stages /\ NoLostZombie /\ QueueInv

-----------------------------------------------------------------------------

\* The calls of main()'s set-up, and the state they lead to.
LEMMA SetupDomain ==
  /\ DOMAIN SetupNext = SetupCalls
  /\ \A call \in SetupCalls :
       SetupNext[call] \in (SetupCalls \ {"chdir"}) \union {"accept"}
BY DEF SetupNext, SetupCalls

\* Taking the first connection from the queue keeps the others, in order.
LEMMA TailFacts ==
  ASSUME NEW S, NEW q \in Seq(S), q # <<>>
  PROVE  /\ Head(q) \in S /\ Head(q) = q[1]
         /\ Tail(q) \in Seq(S) /\ Len(Tail(q)) = Len(q) - 1
         /\ Len(q) \in Nat /\ Len(q) >= 1
         /\ \A i \in 1..Len(Tail(q)) : Tail(q)[i] = q[i + 1] /\ i + 1 \in 1..Len(q)
OBVIOUS

\* Queueing a connection keeps those already there, in order.
LEMMA AppendFacts ==
  ASSUME NEW S, NEW q \in Seq(S), NEW e \in S
  PROVE  /\ Append(q, e) \in Seq(S) /\ Len(Append(q, e)) = Len(q) + 1
         /\ Len(q) \in Nat
         /\ \A i \in 1..Len(q) : Append(q, e)[i] = q[i]
         /\ Append(q, e)[Len(q) + 1] = e
OBVIOUS

\* TypeOK is preserved by every step.
LEMMA TypeStep == TypeOK /\ [Next]_vars => TypeOK'
<1> SUFFICES ASSUME TypeOK, [Next]_vars PROVE TypeOK'
  OBVIOUS
<1> USE ConnsAssumption, BacklogAssumption, SetupDomain DEF TypeOK, Sockets, ChildState, kernel
<1>1. CASE Setup
  BY <1>1 DEF Setup, MainAt, SetupCalls
<1>2. ASSUME Error PROVE TypeOK'
  BY <1>2 DEF Error
<1>3. CASE Accept
  <2>1. backlog \in Seq(Conns) /\ backlog # <<>>
    BY <1>3 DEF Accept
  <2>2. /\ Head(backlog) \in Conns
        /\ Tail(backlog) \in Seq(Conns) /\ Len(Tail(backlog)) = Len(backlog) - 1
        /\ Len(backlog) \in Nat
    BY <2>1, TailFacts
  <2>3. QED
    BY <1>3, <2>2 DEF Accept, MainAt
<1>4. CASE Fork
  BY <1>4 DEF Fork, MainAt
<1>5. CASE ParentClose
  BY <1>5 DEF ParentClose, MainAt
<1>6. CASE Handler
  BY <1>6 DEF Handler, Deliver, Reap, ReapDone, HandlerReturn
<1>7. ASSUME NEW c \in Conns, ChildCloseListen(c) PROVE TypeOK'
  BY <1>7 DEF ChildCloseListen
<1>8. ASSUME NEW c \in Conns, ChildExit(c) PROVE TypeOK'
  BY <1>8 DEF ChildExit
<1>9. ASSUME NEW c \in Conns, Connect(c) PROVE TypeOK'
  <2>1. /\ Append(backlog, c) \in Seq(Conns)
        /\ Len(Append(backlog, c)) = Len(backlog) + 1
        /\ Len(backlog) \in Nat
    BY AppendFacts
  <2>2. QED
    BY <1>9, <2>1 DEF Connect
<1>10. CASE UNCHANGED vars
  BY <1>10 DEF vars
<1>11. QED
  BY <1>1, <1>2, <1>3, <1>4, <1>5, <1>6, <1>7, <1>8, <1>9, <1>10
  DEF Next, Main, SetupFails, AcceptFails, ForkFails

\* IInv holds initially: nothing is open and nothing has been forked.
LEMMA InitIInv == Init => IInv
<1> SUFFICES ASSUME Init PROVE IInv
  OBVIOUS
<1>1. TypeOK
  <2>1. backlog \in Seq(Conns) /\ Len(backlog) <= BACKLOG + 1
    BY BacklogAssumption DEF Init
  <2>2. QED
    BY <2>1, SetupDomain DEF Init, TypeOK, Sockets, ChildState, SetupCalls
<1>2. ParentHolds /\ Stages /\ NoLostZombie
  BY DEF Init, ParentHolds, Stages, NoLostZombie, LoopCalls
<1>3. ChildHolds
  BY DEF Init, ChildHolds
<1>4. QueueInv
  BY DEF Init, QueueInv
<1>5. QED
  BY <1>1, <1>2, <1>3, <1>4 DEF IInv

\* IInv is preserved by every step.
LEMMA NextIInv == IInv /\ [Next]_vars => IInv'
<1> SUFFICES ASSUME IInv, [Next]_vars PROVE IInv'
  OBVIOUS
<1>t. TypeOK'
  BY TypeStep DEF IInv
<1> USE ConnsAssumption, SetupDomain, <1>t
    DEF IInv, TypeOK, Sockets, ChildState, kernel, SetupCalls, LoopCalls
<1>1. CASE Setup
  <2>1. ParentHolds'
    BY <1>1 DEF Setup, MainAt, ParentHolds, SetupNext
  <2>2. ChildHolds' /\ QueueInv'
    BY <1>1 DEF Setup, MainAt, ChildHolds, QueueInv, Waiting
  <2>3. Stages'
    BY <1>1 DEF Setup, MainAt, Stages, SetupNext
  <2>4. NoLostZombie'
    BY <1>1 DEF Setup, MainAt, Stages, NoLostZombie
  <2>5. QED
    BY <2>1, <2>2, <2>3, <2>4
<1>2. ASSUME Error, handler = "idle" PROVE IInv'
  BY <1>2 DEF Error, ParentHolds, ChildHolds, Stages, NoLostZombie, QueueInv, Waiting
<1>3. CASE Accept
  <2>1. /\ backlog \in Seq(Conns) /\ backlog # <<>>
        /\ Head(backlog) \in Conns /\ Head(backlog) = backlog[1]
        /\ Len(Tail(backlog)) = Len(backlog) - 1
        /\ Len(backlog) \in Nat /\ Len(backlog) >= 1
        /\ \A i \in 1..Len(Tail(backlog)) :
             Tail(backlog)[i] = backlog[i + 1] /\ i + 1 \in 1..Len(backlog)
    BY <1>3, TailFacts DEF Accept
  <2>2. ParentHolds' /\ ChildHolds' /\ Stages' /\ NoLostZombie'
    BY <1>3, <2>1 DEF Accept, MainAt, ParentHolds, ChildHolds, Stages, NoLostZombie
  <2>3. QueueInv'
    <3>1. \A i \in 1..Len(Tail(backlog)) : Waiting(Tail(backlog)[i])
      BY <2>1 DEF QueueInv
    <3>2. \A i, j \in 1..Len(Tail(backlog)) : Tail(backlog)[i] = Tail(backlog)[j] => i = j
      BY <2>1 DEF QueueInv
    <3>3. /\ Waiting(Head(backlog))
          /\ \A i \in 1..Len(Tail(backlog)) : Tail(backlog)[i] # Head(backlog)
      BY <2>1 DEF QueueInv
    <3>4. QED
      BY <1>3, <3>1, <3>2, <3>3 DEF Accept, QueueInv, Waiting
  <2>4. QED
    BY <2>2, <2>3
<1>4. CASE Fork
  <2>1. serving_socket \in Conns /\ parent_fds = {LISTEN, serving_socket}
    BY <1>4 DEF Fork, MainAt, ParentHolds
  <2>2. ParentHolds' /\ ChildHolds' /\ Stages' /\ NoLostZombie'
    BY <1>4, <2>1 DEF Fork, MainAt, ParentHolds, ChildHolds, Stages, NoLostZombie
  <2>3. QueueInv'
    BY <1>4, <2>1 DEF Fork, MainAt, QueueInv, Waiting
  <2>4. QED
    BY <2>2, <2>3
<1>5. CASE ParentClose
  BY <1>5 DEF ParentClose, MainAt, ParentHolds, ChildHolds, Stages, NoLostZombie,
              QueueInv, Waiting
<1>6. CASE Handler
  BY <1>6 DEF Handler, Deliver, Reap, ReapDone, HandlerReturn,
              ParentHolds, ChildHolds, Stages, NoLostZombie, QueueInv, Waiting
<1>7. ASSUME NEW c \in Conns, ChildCloseListen(c) PROVE IInv'
  <2>1. ChildHolds'
    <3>1. child_fds[c] \ {LISTEN} = {c}
      BY <1>7 DEF ChildCloseListen, ChildHolds
    <3>2. QED
      BY <1>7, <3>1 DEF ChildCloseListen, ChildHolds
  <2>2. ParentHolds' /\ Stages' /\ NoLostZombie' /\ QueueInv'
    BY <1>7 DEF ChildCloseListen, ParentHolds, Stages, NoLostZombie, QueueInv, Waiting
  <2>3. QED
    BY <2>1, <2>2
<1>8. ASSUME NEW c \in Conns, ChildExit(c) PROVE IInv'
  <2>1. ChildHolds'
    BY <1>8 DEF ChildExit, ChildHolds
  <2>2. ParentHolds' /\ Stages' /\ NoLostZombie'
    BY <1>8 DEF ChildExit, ParentHolds, Stages, NoLostZombie
  <2>3. QueueInv'
    BY <1>8 DEF ChildExit, QueueInv, Waiting
  <2>4. QED
    BY <2>1, <2>2, <2>3
<1>9. ASSUME NEW c \in Conns, Connect(c) PROVE IInv'
  <2>1. /\ Len(Append(backlog, c)) = Len(backlog) + 1
        /\ Len(backlog) \in Nat
        /\ \A i \in 1..Len(backlog) : Append(backlog, c)[i] = backlog[i]
        /\ Append(backlog, c)[Len(backlog) + 1] = c
    BY AppendFacts
  <2>2. ParentHolds' /\ ChildHolds' /\ Stages' /\ NoLostZombie'
    BY <1>9 DEF Connect, ParentHolds, ChildHolds, Stages, NoLostZombie
  <2>3. QueueInv'
    BY <1>9, <2>1 DEF Connect, QueueInv, Waiting
  <2>4. QED
    BY <2>2, <2>3
<1>10. CASE UNCHANGED vars
  BY <1>10 DEF vars, ParentHolds, ChildHolds, Stages, NoLostZombie, QueueInv, Waiting
<1>11. QED
  BY <1>1, <1>2, <1>3, <1>4, <1>5, <1>6, <1>7, <1>8, <1>9, <1>10
  DEF Next, Main, SetupFails, AcceptFails, ForkFails, MainAt

\* The inductive invariant holds in every reachable state.
LEMMA Inductive == Spec => []IInv
BY InitIInv, NextIInv, PTL DEF Spec

-----------------------------------------------------------------------------

\* Every variable stays in its range, for any backlog and any connections.
THEOREM TypeCorrect == Spec => []TypeOK
<1>1. IInv => TypeOK
  BY DEF IInv
<1>2. QED
  BY <1>1, Inductive, PTL

\* No exited child is ever forgotten, in whatever order children exit and the
\* one-bit SIGCHLD is delivered (server.c:73-82).
THEOREM ZombiesKnown == Spec => []NoLostZombie
<1>1. IInv => NoLostZombie
  BY DEF IInv
<1>2. QED
  BY <1>1, Inductive, PTL

\* A child only ever holds its own client's socket, besides the listening
\* socket it is about to close (server.c:56-66).
THEOREM ChildIsolation == Spec => []OwnSocketOnly
<1>1. IInv => OwnSocketOnly
  BY DEF IInv, ChildHolds, OwnSocketOnly
<1>2. QED
  BY <1>1, Inductive, PTL

\* Who holds a client's socket: its own child while that runs, and the parent
\* between accept() and close().
LEMMA HoldersOf ==
  ASSUME IInv, NEW c \in Conns, Open(c)
  PROVE  \/ child[c] \in {"forked", "serving"}
         \/ pc \in {"fork", "close"} /\ serving_socket = c
<1>1. CASE c \in parent_fds
  BY <1>1, ConnsAssumption, SetupDomain
  DEF IInv, TypeOK, ParentHolds, SetupCalls
<1>2. CASE \E d \in Conns : c \in child_fds[d]
  <2>1. PICK d \in Conns : c \in child_fds[d]
    BY <1>2
  <2>2. d = c /\ child[c] \in {"forked", "serving"}
    BY <2>1, ConnsAssumption DEF IInv, TypeOK, ChildHolds
  <2>3. QED
    BY <2>2
<1>3. QED
  BY <1>1, <1>2 DEF Open

\* The connection of a child that is gone is closed, but for the close() the
\* parent has still to make (server.c:62-65).
THEOREM Released == Spec => []ReleasedWithChild
<1>1. IInv => ReleasedWithChild
  BY HoldersOf DEF IInv, QueueInv, Waiting, ReleasedWithChild
<1>2. QED
  BY <1>1, Inductive, PTL

\* A connection without a child is open only in the parent's hands before
\* fork() (server.c:50-56).
THEOREM NoneOrphaned == Spec => []NoOrphanSocket
<1>1. IInv => NoOrphanSocket
  BY HoldersOf DEF IInv, QueueInv, NoOrphanSocket
<1>2. QED
  BY <1>1, Inductive, PTL

\* Waiting in accept(), the parent has nothing but the listening socket open,
\* and it forks once for each connection (server.c:46-67).
THEOREM ParentBounded == Spec => []ParentFds
<1>1. IInv => ParentFds
  BY DEF IInv, ParentHolds, QueueInv, Waiting, ParentFds
<1>2. QED
  BY <1>1, Inductive, PTL
=============================================================================
