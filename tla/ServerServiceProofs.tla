------------------------- MODULE ServerServiceProofs -------------------------
(***************************************************************************)
(* Server implements the service of ConnService, for every set of          *)
(* connections and every BACKLOG: each step of the server is a step of the *)
(* service or changes nothing that the service shows.  The inductive       *)
(* invariant of ServerProofs says which steps those can be.                *)
(***************************************************************************)
EXTENDS ServerProofs, ServerService

Queued(c) == \E i \in 1..Len(waiting) : waiting[i] = c

\* One connection before a queue: what its first, the others and its members are.
LEMMA InFront ==
  ASSUME NEW S, NEW a \in S, NEW q \in Seq(S)
  PROVE  /\ <<a>> \o q \in Seq(S) /\ <<a>> \o q # <<>>
         /\ Head(<<a>> \o q) = a /\ Tail(<<a>> \o q) = q
         /\ \A x : (\E i \in 1..Len(<<a>> \o q) : (<<a>> \o q)[i] = x)
                     <=> x = a \/ \E i \in 1..Len(q) : q[i] = x
<1> DEFINE s == <<a>> \o q
<1>1. s \in Seq(S) /\ Len(s) = Len(q) + 1 /\ Len(q) \in Nat
  OBVIOUS
<1>2. s[1] = a /\ \A i \in 1..Len(q) : s[i + 1] = q[i]
  OBVIOUS
<1>3. s # <<>> /\ Head(s) = a
  BY <1>1, <1>2
<1>4. Tail(s) = q
  <2>1. Tail(s) \in Seq(S) /\ Len(Tail(s)) = Len(q)
    BY <1>1, <1>3
  <2>2. \A i \in 1..Len(q) : Tail(s)[i] = q[i]
    BY <1>1, <1>2, <1>3
  <2>3. QED
    BY <2>1, <2>2
<1>5. ASSUME NEW x, NEW i \in 1..Len(s), s[i] = x
      PROVE  x = a \/ \E j \in 1..Len(q) : q[j] = x
  <2>1. CASE i = 1
    BY <2>1, <1>2, <1>5
  <2>2. CASE i # 1
    <3>1. i - 1 \in 1..Len(q) /\ (i - 1) + 1 = i
      BY <2>2, <1>1
    <3>2. q[i - 1] = x
      BY <3>1, <1>2, <1>5
    <3>3. QED
      BY <3>1, <3>2
  <2>3. QED
    BY <2>1, <2>2
<1>6. ASSUME NEW x, x = a \/ \E j \in 1..Len(q) : q[j] = x
      PROVE  \E i \in 1..Len(s) : s[i] = x
  <2>1. CASE x = a
    BY <2>1, <1>1, <1>2
  <2>2. ASSUME NEW j \in 1..Len(q), q[j] = x PROVE \E i \in 1..Len(s) : s[i] = x
    <3>1. j + 1 \in 1..Len(s) /\ s[j + 1] = x
      BY <2>2, <1>1, <1>2
    <3>2. QED
      BY <3>1
  <2>3. QED
    BY <1>6, <2>1, <2>2
<1>7. QED
  BY <1>1, <1>3, <1>4, <1>5, <1>6

\* The queue seen by the service, at each point of main().
LEMMA WaitingIs ==
  ASSUME TypeOK
  PROVE  /\ pc # "fork" => waiting = backlog
         /\ pc = "fork" => waiting = <<serving_socket>> \o backlog
BY DEF waiting, TypeOK

LEMMA WaitingIsNext ==
  ASSUME TypeOK'
  PROVE  /\ pc' # "fork" => waiting' = backlog'
         /\ pc' = "fork" => waiting' = <<serving_socket'>> \o backlog'
BY DEF waiting, TypeOK

\* The queue after a step that leaves backlog alone and stays off "fork".
LEMMA SameStatus ==
  ASSUME NEW c \in Conns, UNCHANGED <<arrived, waiting>>,
         child'[c] = child[c] \/ (child[c] = "zombie" /\ child'[c] = "reaped")
                              \/ (child[c] = "forked" /\ child'[c] = "serving"),
         child[c] \in {"zombie", "reaped"} => (Open(c)' <=> Open(c))
  PROVE  StatusOf(c)' = StatusOf(c)
BY DEF StatusOf

\* The whole abstract state is unchanged when the queue and each status are.
LEMMA Stutter ==
  ASSUME UNCHANGED waiting, (pc' = "exited") <=> (pc = "exited"),
         \A c \in Conns : StatusOf(c)' = StatusOf(c)
  PROVE  UNCHANGED CS!vars
<1>1. [c \in Conns |-> StatusOf(c)]' = [c \in Conns |-> StatusOf(c)]
  OBVIOUS
<1>2. QED
  BY <1>1 DEF CS!vars

\* A step that changes the status of one connection only.
LEMMA OneStatus ==
  ASSUME NEW d \in Conns, NEW s, StatusOf(d)' = s,
         \A c \in Conns : c # d => StatusOf(c)' = StatusOf(c)
  PROVE  CS!Becomes(d, s)
<1>1. [c \in Conns |-> StatusOf(c)]' = [[c \in Conns |-> StatusOf(c)] EXCEPT ![d] = s]
  OBVIOUS
<1>2. QED
  BY <1>1 DEF CS!Becomes

\* Initially nothing has come and nothing waits.
LEMMA InitService == Init => CS!Init
<1> SUFFICES ASSUME Init PROVE CS!Init
  OBVIOUS
<1>1. waiting = <<>>
  BY DEF Init, waiting
<1>2. \A c \in Conns : StatusOf(c) = "new"
  BY DEF Init, StatusOf
<1>3. QED
  BY <1>1, <1>2 DEF Init, CS!Init

\* Every step of the server is a step of the service, or invisible to it.
LEMMA StepService == IInv /\ IInv' /\ [Next]_vars => [CS!Next]_(CS!vars)
<1> SUFFICES ASSUME IInv, IInv', [Next]_vars PROVE [CS!Next]_(CS!vars)
  OBVIOUS
<1> USE ConnsAssumption, SetupDomain DEF kernel, SetupCalls
<1>t. TypeOK /\ TypeOK'
  BY DEF IInv
<1>w. /\ pc # "fork" => waiting = backlog
      /\ pc = "fork" => waiting = <<serving_socket>> \o backlog
      /\ pc' # "fork" => waiting' = backlog'
      /\ pc' = "fork" => waiting' = <<serving_socket'>> \o backlog'
  BY <1>t, WaitingIs, WaitingIsNext
<1>q. backlog \in Seq(Conns)
  BY <1>t DEF TypeOK
<1>1. CASE Setup
  <2>1. pc # "fork" /\ pc' # "fork" /\ pc # "exited" /\ pc' # "exited"
    BY <1>1 DEF Setup, MainAt
  <2>2. UNCHANGED <<arrived, child, waiting>>
    BY <1>1, <2>1, <1>w DEF Setup
  <2>3. \A c \in Conns : child[c] = "none"
    BY <1>1 DEF Setup, MainAt, IInv, Stages
  <2>4. \A c \in Conns : StatusOf(c)' = StatusOf(c)
    BY <2>2, <2>3 DEF StatusOf
  <2>5. QED
    BY <2>1, <2>2, <2>4, Stutter
<1>2. CASE SetupFails
  <2>1. pc # "fork" /\ pc # "exited" /\ pc' = "exited"
    BY <1>2 DEF SetupFails, MainAt, Error
  <2>2. \A c \in Conns : child[c] = "none"
    BY <1>2 DEF SetupFails, MainAt, IInv, Stages
  <2>3. UNCHANGED <<arrived, waiting>> /\ \A c \in Conns : child'[c] = "none"
    BY <1>2, <2>1, <2>2, <1>w DEF SetupFails, Error
  <2>4. \A c \in Conns : StatusOf(c)' = StatusOf(c)
    BY <2>2, <2>3 DEF StatusOf
  <2>5. [c \in Conns |-> StatusOf(c)]' = [c \in Conns |-> StatusOf(c)]
    BY <2>4
  <2>6. CS!Stop
    BY <2>1, <2>3, <2>5 DEF CS!Stop
  <2>7. QED
    BY <2>6 DEF CS!Next
<1>3. CASE Accept
  <2>1. /\ pc = "accept" /\ pc' = "fork" /\ backlog # <<>>
        /\ serving_socket' = Head(backlog) /\ backlog' = Tail(backlog)
        /\ UNCHANGED <<child, child_fds, arrived>>
    BY <1>3 DEF Accept, MainAt
  <2>2. waiting' = waiting
    <3>1. <<Head(backlog)>> \o Tail(backlog) = backlog
      BY <1>q, <2>1
    <3>2. QED
      BY <2>1, <1>w, <3>1
  <2>3. ASSUME NEW c \in Conns, child[c] # "none" PROVE c # Head(backlog)
    BY <2>1, <2>3, <1>q, TailFacts DEF IInv, QueueInv, Waiting
  <2>4. \A c \in Conns : child[c] \in {"zombie", "reaped"} => (Open(c)' <=> Open(c))
    BY <1>3, <2>1, <2>3 DEF Open, Accept
  <2>5. \A c \in Conns : StatusOf(c)' = StatusOf(c)
    BY <2>1, <2>2, <2>4, SameStatus
  <2>6. QED
    BY <2>1, <2>2, <2>5, Stutter
<1>4. CASE AcceptFails
  <2>1. /\ pc = "accept" /\ pc' = "exited" /\ UNCHANGED <<arrived, backlog, child_fds>>
        /\ child' = [c \in Conns |-> IF child[c] = "zombie" THEN "reaped" ELSE child[c]]
        /\ parent_fds' = {} /\ parent_fds = {LISTEN}
    BY <1>4 DEF AcceptFails, Error, MainAt, IInv, ParentHolds
  <2>2. waiting' = waiting
    BY <2>1, <1>w
  <2>3. \A c \in Conns : Open(c)' <=> Open(c)
    BY <2>1 DEF Open
  <2>4. \A c \in Conns : StatusOf(c)' = StatusOf(c)
    BY <2>1, <2>2, <2>3, SameStatus
  <2>5. [c \in Conns |-> StatusOf(c)]' = [c \in Conns |-> StatusOf(c)]
    BY <2>4
  <2>6. CS!Stop
    BY <2>1, <2>2, <2>5 DEF CS!Stop
  <2>7. QED
    BY <2>6 DEF CS!Next
<1>5. CASE Fork \/ ForkFails
  <2>0. PICK s \in Conns : s = serving_socket
    BY <1>5 DEF Fork, ForkFails, MainAt, IInv, ParentHolds
  <2>1. /\ pc = "fork" /\ s \in Conns /\ child[s] = "none" /\ s \in arrived
        /\ parent_fds = {LISTEN, s}
        /\ \A i \in 1..Len(backlog) : backlog[i] # s
    BY <1>5, <2>0 DEF Fork, ForkFails, MainAt, IInv, ParentHolds, QueueInv, Waiting
  <2>2. /\ pc' # "fork" /\ UNCHANGED <<arrived, backlog>>
    BY <1>5 DEF Fork, ForkFails, Error
  <2>3. /\ waiting = <<s>> \o backlog /\ waiting' = backlog
    BY <2>0, <2>1, <2>2, <1>w
  <2>4. /\ waiting # <<>> /\ Head(waiting) = s /\ Tail(waiting) = waiting'
        /\ \A c \in Conns : c # s => (Queued(c)' <=> Queued(c))
        /\ Queued(s) /\ ~Queued(s)'
    BY <2>1, <2>3, <1>q, InFront DEF Queued
  <2>5. CASE Fork
    <3>1. /\ child'[s] = "forked" /\ \A c \in Conns : c # s => child'[c] = child[c]
          /\ pc' # "exited" /\ UNCHANGED parent_fds
          /\ child_fds' = [child_fds EXCEPT ![s] = {LISTEN, s}]
      BY <2>5, <2>0, <2>1, <1>t DEF Fork, TypeOK
    <3>2. child_fds[s] = {}
      BY <2>1 DEF IInv, ChildHolds
    <3>3. \A c \in Conns : c # s => (Open(c)' <=> Open(c))
      BY <3>1, <3>2, <2>1, <1>t DEF Open, TypeOK
    <3>4. \A c \in Conns : c # s => StatusOf(c)' = StatusOf(c)
      BY <3>1, <3>3, <2>2, <2>4 DEF StatusOf, Queued
    <3>5. StatusOf(s)' = "served"
      BY <3>1, <2>1, <2>2 DEF StatusOf
    <3>6. CS!Becomes(s, "served")
      BY <3>4, <3>5, <2>1, OneStatus
    <3>7. CS!Serve
      BY <3>1, <3>6, <2>1, <2>4 DEF CS!Serve
    <3>8. QED
      BY <3>7 DEF CS!Next
  <2>6. CASE ForkFails
    <3>1. /\ child' = [c \in Conns |-> IF child[c] = "zombie" THEN "reaped" ELSE child[c]]
          /\ pc' = "exited" /\ parent_fds' = {} /\ UNCHANGED child_fds
      BY <2>6 DEF ForkFails, Error
    <3>2. \A c \in Conns : c # s => (Open(c)' <=> Open(c))
      BY <3>1, <2>1 DEF Open
    <3>3. \A c \in Conns : c # s => StatusOf(c)' = StatusOf(c)
      BY <3>1, <3>2, <2>2, <2>4 DEF StatusOf, Queued
    <3>4. StatusOf(s)' = "closed"
      BY <3>1, <2>1, <2>2, <2>4 DEF StatusOf, Queued
    <3>5. CS!Becomes(s, "closed")
      BY <3>3, <3>4, <2>1, OneStatus
    <3>6. CS!Stop
      BY <3>1, <3>5, <2>1, <2>4 DEF CS!Stop
    <3>7. QED
      BY <3>6 DEF CS!Next
  <2>7. QED
    BY <1>5, <2>5, <2>6
<1>6. CASE ParentClose
  <2>0. PICK s \in Conns : s = serving_socket
    BY <1>6 DEF ParentClose, MainAt, IInv, ParentHolds
  <2>1. /\ pc = "close" /\ pc' = "accept" /\ s \in Conns /\ child[s] # "none"
        /\ s \in arrived /\ parent_fds = {LISTEN, s} /\ parent_fds' = parent_fds \ {s}
        /\ UNCHANGED <<child, child_fds, arrived, backlog>>
    BY <1>6, <2>0 DEF ParentClose, MainAt, IInv, ParentHolds, QueueInv
  <2>2. waiting' = waiting
    BY <2>1, <1>w
  <2>3. \A c \in Conns : c # s => (Open(c)' <=> Open(c))
    BY <2>1 DEF Open
  <2>4. \A c \in Conns : c # s => StatusOf(c)' = StatusOf(c)
    BY <2>1, <2>2, <2>3, SameStatus
  <2>5. CASE child[s] \in {"forked", "serving"}
    <3>1. StatusOf(s)' = StatusOf(s)
      BY <2>5, <2>1 DEF StatusOf
    <3>2. QED
      BY <3>1, <2>1, <2>2, <2>4, Stutter
  <2>6. CASE child[s] \in {"zombie", "reaped"}
    <3>1. \A d \in Conns : s \notin child_fds[d]
      BY <2>1, <2>6 DEF IInv, ChildHolds
    <3>2. Open(s) /\ ~Open(s)'
      BY <3>1, <2>1 DEF Open
    <3>3. StatusOf(s) = "ended" /\ StatusOf(s)' = "closed"
      BY <3>2, <2>1, <2>6 DEF StatusOf
    <3>4. CS!Becomes(s, "closed")
      BY <3>3, <2>1, <2>4, OneStatus
    <3>5. CS!Release(s)
      BY <3>3, <3>4, <2>1, <2>2 DEF CS!Release
    <3>6. QED
      BY <3>5, <2>1 DEF CS!Next
  <2>7. QED
    BY <2>1, <2>5, <2>6, <1>t DEF TypeOK, ChildState
<1>7. CASE Handler
  <2>1. /\ UNCHANGED <<arrived, backlog, serving_socket, pc, parent_fds, child_fds>>
        /\ \A c \in Conns : \/ child'[c] = child[c]
                            \/ child[c] = "zombie" /\ child'[c] = "reaped"
    BY <1>7, <1>t DEF Handler, Deliver, Reap, ReapDone, HandlerReturn, TypeOK
  <2>2. waiting' = waiting
    BY <2>1, <1>w
  <2>3. \A c \in Conns : Open(c)' <=> Open(c)
    BY <2>1 DEF Open
  <2>4. \A c \in Conns : StatusOf(c)' = StatusOf(c)
    BY <2>1, <2>2, <2>3, SameStatus
  <2>5. QED
    BY <2>1, <2>2, <2>4, Stutter
<1>8. ASSUME NEW d \in Conns, ChildCloseListen(d) PROVE UNCHANGED CS!vars
  <2>1. /\ UNCHANGED <<arrived, backlog, serving_socket, pc, parent_fds>>
        /\ \A c \in Conns : \/ child'[c] = child[c]
                            \/ child[c] = "forked" /\ child'[c] = "serving"
    BY <1>8, <1>t DEF ChildCloseListen, TypeOK
  <2>2. waiting' = waiting
    BY <2>1, <1>w
  <2>3. \A e \in Conns : \A c \in Conns : c \in child_fds'[e] <=> c \in child_fds[e]
    BY <1>8, <1>t DEF ChildCloseListen, TypeOK
  <2>4. \A c \in Conns : Open(c)' <=> Open(c)
    BY <2>1, <2>3 DEF Open
  <2>5. \A c \in Conns : StatusOf(c)' = StatusOf(c)
    BY <2>1, <2>2, <2>4, SameStatus
  <2>6. QED
    BY <2>1, <2>2, <2>5, Stutter
<1>9. ASSUME NEW d \in Conns, ChildExit(d) PROVE CS!Finish(d)
  <2>1. /\ UNCHANGED <<arrived, backlog, serving_socket, pc, parent_fds>>
        /\ child[d] = "serving" /\ child'[d] \in {"zombie", "reaped"}
        /\ \A c \in Conns : c # d => child'[c] = child[c] /\ child_fds'[c] = child_fds[c]
        /\ child_fds'[d] = {} /\ child_fds[d] = {d} /\ d \in arrived
    BY <1>9, <1>t DEF ChildExit, TypeOK, IInv, ChildHolds, QueueInv
  <2>2. waiting' = waiting
    BY <2>1, <1>w
  <2>3. \A c \in Conns : c # d => (Open(c)' <=> Open(c))
    BY <2>1 DEF Open
  <2>4. \A c \in Conns : c # d => StatusOf(c)' = StatusOf(c)
    BY <2>1, <2>2, <2>3, SameStatus
  <2>5. StatusOf(d) = "served" /\ StatusOf(d)' \in {"ended", "closed"}
    BY <2>1 DEF StatusOf
  <2>6. CS!Becomes(d, "ended") \/ CS!Becomes(d, "closed")
    BY <2>4, <2>5, OneStatus
  <2>7. QED
    BY <2>1, <2>2, <2>5, <2>6 DEF CS!Finish
<1>10. ASSUME NEW d \in Conns, Connect(d) PROVE CS!Arrive(d)
  <2>1. /\ d \notin arrived /\ arrived' = arrived \union {d}
        /\ backlog' = Append(backlog, d)
        /\ UNCHANGED <<serving_socket, pc, parent_fds, child, child_fds>>
        /\ child[d] = "none"
    BY <1>10, <1>t DEF Connect, IInv, QueueInv, TypeOK, ChildState
  <2>2. waiting' = Append(waiting, d)
    <3>1. CASE pc # "fork"
      BY <3>1, <2>1, <1>w
    <3>2. CASE pc = "fork"
      <4>1. serving_socket \in Conns
        BY <3>2 DEF IInv, ParentHolds
      <4>2. <<serving_socket>> \o Append(backlog, d) = Append(<<serving_socket>> \o backlog, d)
        BY <4>1, <1>q
      <4>3. QED
        BY <3>2, <4>2, <2>1, <1>w
    <3>3. QED
      BY <3>1, <3>2
  <2>3. waiting \in Seq(Conns)
    <3>1. CASE pc # "fork"
      BY <3>1, <1>w, <1>q
    <3>2. CASE pc = "fork"
      <4>1. serving_socket \in Conns
        BY <3>2 DEF IInv, ParentHolds
      <4>2. QED
        <5>1. <<serving_socket>> \o backlog \in Seq(Conns)
          BY <4>1, <1>q, InFront
        <5>2. QED
          BY <3>2, <5>1, <1>w
    <3>3. QED
      BY <3>1, <3>2
  <2>4. \A c \in Conns : Queued(c)' <=> c = d \/ Queued(c)
    BY <2>2, <2>3, AppendFacts DEF Queued
  <2>5. \A c \in Conns : Open(c)' <=> Open(c)
    BY <2>1 DEF Open
  <2>6. \A c \in Conns : c # d => StatusOf(c)' = StatusOf(c)
    BY <2>1, <2>4, <2>5 DEF StatusOf, Queued
  <2>7. StatusOf(d) = "new" /\ StatusOf(d)' = "waiting"
    BY <2>1, <2>4 DEF StatusOf, Queued
  <2>8. CS!Becomes(d, "waiting")
    BY <2>6, <2>7, OneStatus
  <2>9. QED
    BY <2>1, <2>2, <2>7, <2>8 DEF CS!Arrive
<1>11. CASE UNCHANGED vars
  <2>1. waiting' = waiting
    BY <1>11, <1>w DEF vars
  <2>2. \A c \in Conns : StatusOf(c)' = StatusOf(c)
    BY <1>11, <2>1 DEF vars, StatusOf, Open
  <2>3. QED
    BY <1>11, <2>1, <2>2, Stutter DEF vars
<1>12. QED
  BY <1>1, <1>2, <1>3, <1>4, <1>5, <1>6, <1>7, <1>8, <1>9, <1>10, <1>11
  DEF Next, Main, CS!Next

\* The server implements the service: through every interleaving of signals,
\* exits and failing calls, connections are handed to children in the order
\* they came, none twice, and none dropped while the server is up but the one
\* in main()'s hands when it stops (server.c:46-67).
THEOREM ServiceImplemented == Spec => ImplementsService
<1>1. IInv /\ [Next]_vars => IInv'
  BY NextIInv
<1>2. QED
  BY InitService, StepService, Inductive, <1>1, PTL DEF Spec, CS!Spec, ImplementsService
=============================================================================
