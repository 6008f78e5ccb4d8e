---------------------------- MODULE FileResponse ----------------------------
(***************************************************************************)
(* serve_file (static.c): one response, from fopen() to the last send(),   *)
(* with the stdio stream it reads and a file other programs may rewrite    *)
(* meanwhile.  The bytes of a file are only counted.                       *)
(***************************************************************************)
EXTENDS Integers

CONSTANTS
  BSIZE,        \* bytes per fread() (4096 in the source)
  Kinds,        \* what a requested path may name: see PathKind
  Sizes,        \* file sizes in bytes
  MaxRewrites   \* bound: how often other programs resize the file meanwhile

\* "missing" is whatever fopen() cannot open.
PathKind == {"missing", "file", "directory"}

ASSUME BsizeAssumption == BSIZE \in Nat \ {0}
ASSUME KindsAssumption == Kinds \subseteq PathKind
ASSUME SizesAssumption == Sizes \subseteq Nat
ASSUME RewritesAssumption == MaxRewrites \in Nat

VARIABLES
  pc,          \* "open", "size", "head", "read", "send", "done" or "killed"
  kind,        \* what the path names
  size,        \* the file's size now; for a directory, what ftell() says of it
  rewrites,    \* how often the file was resized since it was opened
  pos,         \* the stream's position
  eof,         \* feof(file)
  fileSize,    \* what ftell() returned
  bytesread,   \* what the last fread() returned
  status,      \* status sent, 0 before
  announced,   \* Content-Length sent
  sent,        \* body bytes sent
  client_gone  \* the client has closed the connection

stream == <<pos, eof, bytesread>>
response == <<status, announced, sent>>
env == <<kind, size, rewrites, client_gone>>
vars == <<pc, stream, fileSize, response, env>>

Init ==
  /\ pc = "open"
  /\ kind \in Kinds
  /\ size \in Sizes
  /\ rewrites = 0
  /\ pos = 0 /\ eof = FALSE /\ bytesread = 0
  /\ fileSize = 0
  /\ status = 0 /\ announced = 0 /\ sent = 0
  /\ client_gone = FALSE

-----------------------------------------------------------------------------

\* send() blocks until the kernel has taken all the bytes.  After the client
\* has gone it raises SIGPIPE, which ends the child, as soon as the client's
\* reset has come back; until then it still succeeds.
Send(head, length, bytes, next) ==
  \/ /\ status' = head /\ announced' = length /\ sent' = sent + bytes
     /\ pc' = next
  \/ /\ client_gone
     /\ pc' = "killed"
     /\ UNCHANGED response

\* No file: 404 with Content-Length 0 and no body.
NotFound ==
  /\ pc = "open" /\ kind = "missing"
  /\ Send(404, 0, 0, "done")
  /\ UNCHANGED <<stream, fileSize, env>>

\* fopen() of a directory for reading succeeds.
OpenFile ==
  /\ pc = "open" /\ kind # "missing"
  /\ pc' = "size"
  /\ UNCHANGED <<stream, fileSize, response, env>>

\* Mutant: no fseek back to the start.
FindSize_NoSeekBack ==
  /\ pc = "size"
  /\ fileSize' = size
  /\ pos' = size
  /\ pc' = "head"
  /\ UNCHANGED <<eof, bytesread, response, env>>

\* fseek to the end, ftell, fseek back: the size at this moment.
FindSize ==
  /\ pc = "size"
  /\ fileSize' = size
  /\ pc' = "head"
  /\ UNCHANGED <<stream, response, env>>

\* The head of the response, with the size just found as its Content-Length.
SendHead ==
  /\ pc = "head"
  /\ Send(200, fileSize, 0, "read")
  /\ UNCHANGED <<stream, fileSize, env>>

Left == IF size > pos THEN size - pos ELSE 0

\* What fread() returns.  Mutant: it is asked for the whole file.
Got_Whole == IF kind = "directory" THEN 0 ELSE Left
Got == IF kind = "directory" THEN 0 ELSE IF Left < BSIZE THEN Left ELSE BSIZE

\* A short read sets the end-of-file indicator; a directory sets the error
\* indicator instead, which the loop does not look at.
ReadChunk ==
  /\ pc = "read" /\ ~eof
  /\ bytesread' = Got
  /\ pos' = pos + bytesread'
  /\ eof' = (kind = "file" /\ bytesread' < BSIZE)
  /\ pc' = "send"
  /\ UNCHANGED <<fileSize, response, env>>

\* Mutant: the whole buffer is sent whatever was read.
SendChunk_WholeBuffer ==
  /\ pc = "send"
  /\ Send(status, announced, BSIZE, "read")
  /\ UNCHANGED <<stream, fileSize, env>>

\* The chunk just read, which may be empty: the loop then sends no bytes.
SendChunk ==
  /\ pc = "send"
  /\ Send(status, announced, bytesread, "read")
  /\ UNCHANGED <<stream, fileSize, env>>

\* Mutant: the loop waits until the announced size has been sent.
Return_AllSent ==
  /\ pc = "read" /\ eof /\ sent = announced
  /\ pc' = "done"
  /\ UNCHANGED <<stream, fileSize, response, env>>

Return ==
  /\ pc = "read" /\ eof
  /\ pc' = "done"
  /\ UNCHANGED <<stream, fileSize, response, env>>

serve_file ==
  NotFound \/ OpenFile \/ FindSize \/ SendHead \/ ReadChunk \/ SendChunk \/ Return

\* Another program replaces the contents of the file.
Rewrite ==
  /\ pc \notin {"open", "done", "killed"} /\ kind = "file"
  /\ rewrites < MaxRewrites
  /\ size' \in Sizes
  /\ rewrites' = rewrites + 1
  /\ UNCHANGED <<pc, stream, fileSize, response, kind, client_gone>>

ClientCloses ==
  /\ ~client_gone /\ pc \notin {"done", "killed"}
  /\ client_gone' = TRUE
  /\ UNCHANGED <<pc, stream, fileSize, response, kind, size, rewrites>>

Next == serve_file \/ Rewrite \/ ClientCloses

Spec == Init /\ [][Next]_vars
FairSpec == Spec /\ WF_vars(serve_file)

-----------------------------------------------------------------------------
(* Properties. *)

TypeOK ==
  /\ pc \in {"open", "size", "head", "read", "send", "done", "killed"}
  /\ kind \in PathKind /\ size \in Nat /\ rewrites \in 0..MaxRewrites
  /\ pos \in Nat /\ eof \in BOOLEAN /\ bytesread \in 0..BSIZE
  /\ fileSize \in Nat
  /\ status \in {0, 200, 404} /\ announced \in Nat /\ sent \in Nat
  /\ client_gone \in BOOLEAN

\* The client reads exactly Content-Length bytes of body and then the next
\* response, so a complete response has exactly the body it announced, whether
\* or not its size is a multiple of BSIZE (static.c:68-97).  Only a file that
\* another program resized meanwhile may differ.
BodyAsAnnounced ==
  pc = "done" /\ rewrites = 0 => sent = announced

\* Until then, it never sends more than it announced, and never sends body
\* bytes it has not read (static.c:93-97).
NeverAhead ==
  rewrites = 0 /\ status = 200 /\ kind = "file" =>
    sent <= announced /\ sent <= pos

\* serve_file returns to the connection's loop or the child ends with its
\* client (static.c:101: the connection is persistent).
ServeReturns == <>(pc \in {"done", "killed"})
=============================================================================
