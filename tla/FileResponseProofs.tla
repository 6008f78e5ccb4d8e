------------------------- MODULE FileResponseProofs -------------------------
(***************************************************************************)
(* serve_file announces exactly the body it sends, for every BSIZE and     *)
(* every file size.                                                        *)
(***************************************************************************)
EXTENDS FileResponse, TLAPS

\* Where the read position, the announced length and the bytes sent stand at
\* each point of serve_file, for a regular file nobody has resized.
Position ==
  /\ pc \in {"open", "size", "head"} => pos = 0 /\ ~eof /\ sent = 0 /\ status = 0
  /\ pc = "head" => fileSize = size
  /\ pc \in {"read", "send"} => announced = size
  /\ pc = "read" => sent = pos
  /\ pc = "send" => sent + bytesread = pos
  /\ pc \in {"read", "send"} => pos <= size /\ (eof => pos = size)
  /\ pc = "done" => sent = announced

IInv ==
  /\ TypeOK
  /\ kind = "file" /\ rewrites = 0 => Position /\ NeverAhead
  /\ kind = "missing" => pc \in {"open", "done", "killed"} /\ sent = 0 /\ announced = 0
  /\ kind = "directory" => ~eof /\ pc # "done"

\* At fopen() nothing has been read or sent.
LEMMA InitIInv == Init => IInv
<1> SUFFICES ASSUME Init PROVE IInv
  OBVIOUS
<1>1. TypeOK
  <2>1. kind \in PathKind /\ size \in Nat
    BY KindsAssumption, SizesAssumption DEF Init
  <2>2. 0 \in 0..BSIZE /\ 0 \in 0..MaxRewrites
    BY BsizeAssumption, RewritesAssumption
  <2>3. QED
    BY <2>1, <2>2 DEF Init, TypeOK
<1>2. Position /\ NeverAhead
  BY DEF Init, Position, NeverAhead
<1>3. QED
  BY <1>1, <1>2 DEF Init, IInv

\* Every step of serve_file, of another program and of the client keeps it.
LEMMA NextIInv == IInv /\ [Next]_vars => IInv'
<1> SUFFICES ASSUME IInv, [Next]_vars PROVE IInv'
  OBVIOUS
<1> USE BsizeAssumption, SizesAssumption, RewritesAssumption
    DEF IInv, TypeOK, Position, NeverAhead, PathKind, stream, response, env, Send
<1>1. CASE NotFound
  BY <1>1 DEF NotFound
<1>2. CASE OpenFile
  BY <1>2 DEF OpenFile
<1>3. CASE FindSize
  BY <1>3 DEF FindSize
<1>4. CASE SendHead
  BY <1>4 DEF SendHead
<1>5. CASE ReadChunk
  BY <1>5 DEF ReadChunk, Got, Left
<1>6. CASE SendChunk
  BY <1>6 DEF SendChunk
<1>7. CASE Return
  BY <1>7 DEF Return
<1>8. CASE Rewrite
  BY <1>8 DEF Rewrite
<1>9. CASE ClientCloses
  BY <1>9 DEF ClientCloses
<1>10. CASE UNCHANGED vars
  BY <1>10 DEF vars
<1>11. QED
  BY <1>1, <1>2, <1>3, <1>4, <1>5, <1>6, <1>7, <1>8, <1>9, <1>10 DEF Next, serve_file

\* It holds in every reachable state.
LEMMA Inductive == Spec => []IInv
BY InitIInv, NextIInv, PTL DEF Spec

\* The counts stay natural numbers and fread() never returns more than was asked
\* for (static.c:68-97).
THEOREM FileTypeCorrect == Spec => []TypeOK
<1>1. IInv => TypeOK
  BY DEF IInv
<1>2. QED
  BY <1>1, Inductive, PTL

\* A complete response has exactly the body its Content-Length announced, for
\* a file of any size read in chunks of any BSIZE (static.c:68-97).
THEOREM BodyMatches == Spec => []BodyAsAnnounced
<1>1. IInv => BodyAsAnnounced
  BY DEF IInv, TypeOK, PathKind, Position, BodyAsAnnounced
<1>2. QED
  BY <1>1, Inductive, PTL

\* At no point has it sent more than it announced, or than it has read
\* (static.c:93-97).
THEOREM BodyNeverAhead == Spec => []NeverAhead
<1>1. IInv => NeverAhead
  BY DEF IInv, NeverAhead
<1>2. QED
  BY <1>1, Inductive, PTL
=============================================================================
