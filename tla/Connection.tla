----------------------------- MODULE Connection -----------------------------
(***************************************************************************)
(* handle_conn (static.c): the loop a child runs on its client's socket,   *)
(* reading requests into one buffer and serving each GET, together with    *)
(* the client at the other end of the TCP stream.                          *)
(*                                                                         *)
(* serve_file is one step here: which status it answers and the file it    *)
(* leaves open, or the start of its endless loop over a directory.  The    *)
(* module FileResponse has its own steps.                                  *)
(***************************************************************************)
EXTENDS HttpBytes, Sequences, FiniteSetsExt, Functions

CONSTANTS
  Requests,      \* the requests a client may send: see Render
  Files,         \* the paths of files under the web root
  Directories,   \* the paths of directories, which fopen() opens as well
  Leftovers,     \* what the memory of data[] may hold at the start
  FdLimit,       \* how many files a child can have open at once
  MaxRequests,   \* bound: requests per connection
  Split,         \* TRUE: TCP may deliver a request in several reads
  Pipelined,     \* TRUE: the client does not wait for one answer to ask again
  ResetOutcomes  \* what the memset after a response does, see Reset

ASSUME LimitsAssumption == FdLimit \in Nat /\ MaxRequests \in Nat
ASSUME TcpAssumption == Split \in BOOLEAN /\ Pipelined \in BOOLEAN
ASSUME ResetAssumption == ResetOutcomes \subseteq {"harmless", "pointer", "killed"}
ASSUME PathsAssumption == Files \cap Directories = {}
ASSUME LeftoversAssumption == Leftovers \subseteq [0..BSIZE -> STRING]

NoRequest == [method |-> <<>>, path |-> <<>>]

VARIABLES
  asked,           \* client: the requests sent so far
  closed,          \* client: it has closed its end
  stream,          \* cells sent and not yet read
  pc,              \* the child: "read", "scan", "serve", "reset", "exited", or
                   \* "looping" over a directory
  data,            \* the buffer: 0..BSIZE-1, and what lies after it at BSIZE
  buffer_ok,       \* `data` still points at the buffer
  bytes_read,
  reading_headers,
  req,             \* the parsed request: its method and path
  open_files,      \* files fopen() opened; none is ever closed
  responses        \* the responses sent: [path, status]

client == <<asked, closed>>
local == <<data, buffer_ok, bytes_read, reading_headers, req, open_files>>
vars == <<client, stream, pc, local, responses>>

\* A request is [method, path, version, headers], each a sequence of cells;
\* without a version its line has no second space.
Line(r) ==
  r.method \o <<SP>> \o r.path \o (IF r.version = <<>> THEN <<>> ELSE <<SP>> \o r.version)
Render(r) == Line(r) \o <<CR, LF>> \o r.headers \o <<CR, LF>>

\* What a client sends has no NUL in it, and its first blank line is its end.
BlankLine(s, i) == s[i] = CR /\ s[i+1] = LF /\ s[i+2] = CR /\ s[i+3] = LF
ASSUME RequestsAssumption ==
  \A r \in Requests :
    /\ \A part \in {r.method, r.path, r.version, r.headers} : part \in Seq(STRING)
    /\ \A i \in 1..Len(Render(r)) : Render(r)[i] # NUL
    /\ \A i \in 1..(Len(Render(r)) - 3) : BlankLine(Render(r), i) <=> i = Len(Render(r)) - 3

Init ==
  /\ asked = <<>>
  /\ closed = FALSE
  /\ stream = <<>>
  /\ pc = "read"
  /\ data \in Leftovers
  /\ buffer_ok = TRUE
  /\ bytes_read = 0
  /\ reading_headers = TRUE
  /\ req = NoRequest
  /\ open_files = 0
  /\ responses = <<>>

-----------------------------------------------------------------------------
(* The client. *)

Answered == Len(responses) >= Len(asked)

Send ==
  /\ ~closed /\ pc # "exited"
  /\ Len(asked) < MaxRequests
  /\ Pipelined \/ Answered
  /\ \E r \in Requests :
       /\ asked' = Append(asked, r)
       /\ stream' = stream \o Render(r)
  /\ UNCHANGED <<closed, pc, local, responses>>

Close ==
  /\ ~closed /\ pc # "exited"
  /\ closed' = TRUE
  /\ UNCHANGED <<asked, stream, pc, local, responses>>

-----------------------------------------------------------------------------
(* The child. *)

Exit == pc' = "exited" /\ UNCHANGED <<client, stream, local, responses>>

\* Mutant: the space already used is not subtracted.
room_Whole == BSIZE
room == BSIZE - bytes_read  \* bytes_to_read

\* read() puts what it got at the start of the buffer, whatever bytes_read is.
Read ==
  /\ pc = "read" /\ buffer_ok
  /\ room > 0 /\ stream # <<>>
  /\ LET most == Min({room, Len(stream)}) IN
     \E n \in IF Split THEN 1..most ELSE {most} :
       /\ data' = [i \in 0..BSIZE |-> IF i < n THEN stream[i + 1] ELSE data[i]]
       /\ bytes_read' = bytes_read + n
       /\ stream' = SubSeq(stream, n + 1, Len(stream))
  /\ pc' = "scan"
  /\ UNCHANGED <<client, buffer_ok, reading_headers, req, open_files, responses>>

\* Mutant: `bytes < 0`, the end of the stream is not an exit.
ReadEnds_OnError ==
  /\ pc = "read"
  /\ stream # <<>> /\ ~buffer_ok
  /\ Exit

\* read() of no room returns 0, as it does at the end of the stream; into no
\* buffer it fails once there is something to read.  All three: exit(1).
ReadEnds ==
  /\ pc = "read"
  /\ \/ room = 0
     \/ stream = <<>> /\ closed
     \/ stream # <<>> /\ ~buffer_ok
  /\ Exit

GET == <<"G", "E", "T">>
IsGet(r) == r.method = GET

\* The rest of the iteration: only a GET is served; after any other method
\* reading_headers stays FALSE and what follows is read and ignored.  Header
\* lines here are shorter than the parser's blocks: HeaderParser has the others.
Scan ==
  /\ pc = "scan"
  /\ UNCHANGED <<client, stream, data, buffer_ok, bytes_read, open_files, responses>>
  /\ \/ /\ reading_headers
        /\ end_of_headers(data) = -1
        /\ pc' = "read"
        /\ UNCHANGED <<reading_headers, req>>
     \/ /\ reading_headers
        /\ end_of_headers(data) # -1
        /\ reading_headers' = FALSE
        /\ IF parse_headers(data)
           THEN /\ req' = [method |-> Words(data)[1], path |-> Words(data)[2]]
                /\ pc' = IF IsGet(req') THEN "serve" ELSE "read"
           ELSE pc' = "exited" /\ UNCHANGED req
     \/ /\ ~reading_headers
        /\ pc' = IF IsGet(req) THEN "serve" ELSE "read"
        /\ UNCHANGED <<reading_headers, req>>

\* Is a descriptor left for what fopen() finds?  What it opens stays open.
Openable(path, paths) == open_files < FdLimit /\ path \in paths

\* A file: 200; what fopen() cannot open: 404.
Serve ==
  /\ pc = "serve" /\ ~Openable(req.path, Directories)
  /\ responses' = Append(responses, [path |-> req.path,
                                     status |-> IF Openable(req.path, Files) THEN 200 ELSE 404])
  /\ open_files' = IF Openable(req.path, Files) THEN open_files + 1 ELSE open_files
  /\ pc' = "reset"
  /\ UNCHANGED <<client, stream, data, buffer_ok, bytes_read, reading_headers, req>>

\* A directory: after the head of a response the body loop never ends.
ServeDirectory ==
  /\ pc = "serve" /\ Openable(req.path, Directories)
  /\ open_files' = open_files + 1
  /\ pc' = "looping"
  /\ UNCHANGED <<client, stream, data, buffer_ok, bytes_read, reading_headers, req, responses>>

\* send() to a client that has gone raises SIGPIPE, which ends the child.
ServeKilled == pc = "serve" /\ closed /\ Exit

\* So does a send() of no bytes in that loop, if the client's reset has come
\* back; nothing the loop sends makes it come.
LoopKilled == pc = "looping" /\ closed /\ Exit

\* The four things the loop starts the next request with, each with a mutant
\* that forgets it.
CleanBuffer_Forgotten == UNCHANGED data
CleanBuffer == data' = [i \in 0..BSIZE |-> IF i < BSIZE THEN NUL ELSE data[i]]

CleanFlag_Forgotten == UNCHANGED reading_headers
CleanFlag == reading_headers' = TRUE

CleanRequest_Forgotten == UNCHANGED <<req, reading_headers>>
CleanRequest == req' = NoRequest /\ CleanFlag

CleanCount_Forgotten == UNCHANGED bytes_read
CleanCount == bytes_read' = 0

\* memset(&req, 0, BSIZE) and memset(&resp, 0, BSIZE) clear BSIZE bytes where
\* req and resp are far smaller.  What the rest of those bytes are depends on
\* the compiler's stack layout: nothing live ("harmless"), the pointer to the
\* run-time sized array data[] ("pointer"), or unmapped or checked memory
\* ("killed").
Reset ==
  /\ pc = "reset"
  /\ \E outcome \in ResetOutcomes :
       /\ buffer_ok' = (outcome # "pointer")
       /\ pc' = IF outcome = "killed" THEN "exited" ELSE "read"
  /\ CleanBuffer /\ CleanRequest /\ CleanCount
  /\ UNCHANGED <<client, stream, open_files, responses>>

Child == Read \/ ReadEnds \/ Scan \/ Serve \/ ServeDirectory \/ ServeKilled \/ Reset

Next == Send \/ Close \/ Child \/ LoopKilled

\* The child is scheduled whenever it can run.  The client owes nothing, and so
\* no reset to a child that loops.
Spec == Init /\ [][Next]_vars
FairSpec == Spec /\ WF_vars(Child)

-----------------------------------------------------------------------------
(* Properties. *)

Cells == {NUL} \union (UNION {Range(Render(r)) : r \in Requests})
               \union (UNION {Range(old) : old \in Leftovers})

TypeOK ==
  /\ asked \in Seq(Requests) /\ Len(asked) <= MaxRequests
  /\ closed \in BOOLEAN /\ buffer_ok \in BOOLEAN /\ reading_headers \in BOOLEAN
  /\ stream \in Seq(Cells)
  /\ pc \in {"read", "scan", "serve", "reset", "exited", "looping"}
  /\ data \in [0..BSIZE -> Cells]
  /\ bytes_read \in 0..BSIZE
  /\ req \in [method : Seq(Cells), path : Seq(Cells)]
  /\ open_files \in 0..FdLimit
  /\ responses \in Seq([path : Seq(Cells), status : {200, 404}])

\* A request line is a method, a path and a version, of which sscanf takes all.
IsWord(cells, width) ==
  Len(cells) \in 1..width /\ \A k \in 1..Len(cells) : cells[k] \notin White
WellFormed(r) == IsWord(r.method, WORD) /\ IsWord(r.path, PATH) /\ IsWord(r.version, WORD)

RightAnswer(r, resp) ==
  /\ r.method = GET
  /\ resp.path = r.path
  /\ resp.status = IF r.path \in Files THEN 200 ELSE 404

\* The n-th response is the right one for the n-th request, if that was well
\* formed, and there is none that was not asked for (static.c:110-133): what
\* earlier requests or earlier processes left in the buffer never shows in an
\* answer.
AnswersMatch ==
  \A n \in 1..Len(responses) :
    /\ n <= Len(asked)
    /\ WellFormed(asked[n]) => RightAnswer(asked[n], responses[n])

\* "Headers max size is 4k" (static.c:101).
Fits(r) == Len(Render(r)) <= BSIZE
Proper(r) == WellFormed(r) /\ r.method = GET /\ r.path \notin Directories /\ Fits(r)

\* The connection is persistent (static.c:101): every GET that fits the buffer
\* is answered, as long as the client stays and has sent no other request and
\* asked for no directory.
RequestsAnswered ==
  \A n \in 1..MaxRequests :
    (Len(asked) >= n /\ \A i \in 1..n : Proper(asked[i]))
      ~> (Len(responses) >= n \/ closed)

\* A child leaves a client that is still there only over a request it cannot
\* parse or whose headers are larger than its buffer (static.c:101, 113-123).
GivesUpOnlyOnOversize ==
  pc = "exited" /\ ~closed =>
    \E n \in 1..Len(asked) : ~WellFormed(asked[n]) \/ ~Fits(asked[n])

\* Between two requests the child and its client agree on where they are: what
\* is still to be read is exactly the request not yet answered, from its first
\* byte, and nothing an answered request left in the buffer can complete it
\* before it has all arrived (static.c:110-133).  Without pipelining.
InStep ==
  pc = "read" /\ bytes_read = 0 =>
    /\ stream = IF Answered THEN <<>> ELSE Render(asked[Len(asked)])
    /\ responses # <<>> => end_of_headers(data) = -1
=============================================================================
