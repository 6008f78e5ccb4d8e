---------------------------- MODULE SessionProofs ----------------------------
(***************************************************************************)
(* A connection with every call of serve_file is what Connection says of   *)
(* it, for every size of file, buffer and chunk: each step of Session is   *)
(* one of Connection or changes nothing Connection sees.  From there its   *)
(* answers are the right ones, and its bodies those announced.             *)
(***************************************************************************)
EXTENDS Session, ConnectionProofs

\* Where serve_file stands: outside of it, between two calls or done, with the
\* file or directory found before a descriptor was taken for it; the loop over a
\* directory is never done.
Call ==
  /\ step \in {"open", "size", "head", "read", "send", "done", "killed"}
  /\ kind \in {"missing", "file", "directory"}
  /\ pc # "serve" => step \in {"open", "done", "killed"}
  /\ step = "killed" => pc = "exited"
  /\ pc = "serve" => step \in {"open", "size", "head", "read", "send"}
  /\ step \in {"size", "head", "read", "send"} => kind # "missing"
  /\ pc = "serve" /\ step = "open" => status = 0 /\ kind = KindOf(req.path)
  /\ pc = "serve" /\ step # "open" =>
       /\ open_files - 1 < FdLimit
       /\ req.path \in IF kind = "directory" THEN Directories ELSE Files
  /\ step \in {"size", "head"} => status = 0
  /\ step \in {"read", "send"} => status = 200
  /\ kind = "directory" => ~eof /\ step # "done"
  /\ open_files \in Int

LEMMA InitCall == SessionInit => Call
BY DEF SessionInit, Init, FR!Init, Call

LEMMA NextCall == Call /\ [SessionNext]_sessionVars => Call'
<1> SUFFICES ASSUME Call, [SessionNext]_sessionVars PROVE Call'
  OBVIOUS
<1>1. CASE Client
  BY <1>1 DEF Client, Send, Close, file, local, Call, KindOf, Openable
<1>2. CASE Loop
  <2>1. pc \in {"read", "reset"} /\ pc' \in {"scan", "exited", "read"}
    BY <1>2 DEF Loop, Read, ReadEnds, Exit, Reset
  <2>2. UNCHANGED <<file, open_files>>
    BY <1>2 DEF Loop, Read, ReadEnds, Exit, Reset, local
  <2>3. QED
    BY <2>1, <2>2 DEF Call, file
<1>3. CASE SessionScan
  <2>1. pc = "scan" /\ pc' \in {"read", "serve", "exited"} /\ UNCHANGED open_files
    BY <1>3 DEF SessionScan, Scan
  <2>2. CASE pc' = "serve"
    <3>1. step' = "open" /\ kind' = KindOf(req'.path) /\ status' = 0 /\ eof' = FALSE
      BY <1>3, <2>2 DEF SessionScan, StartResponse
    <3>2. KindOf(req'.path) = KindOf(req.path)'
      BY <2>1 DEF KindOf, Openable
    <3>3. KindOf(req'.path) \in {"missing", "file", "directory"}
      BY DEF KindOf
    <3>4. QED
      BY <2>1, <2>2, <3>1, <3>2, <3>3 DEF Call
  <2>3. CASE pc' # "serve"
    <3>1. UNCHANGED file
      BY <1>3, <2>3 DEF SessionScan
    <3>2. QED
      BY <2>1, <2>3, <3>1 DEF Call, file
  <2>4. QED
    BY <2>2, <2>3
<1>4. CASE Respond
  <2>1. /\ pc = "serve" /\ FR!serve_file
        /\ open_files' = IF FR!OpenFile THEN open_files + 1 ELSE open_files
        /\ UNCHANGED req /\ UNCHANGED kind
    BY <1>4 DEF Respond, FR!serve_file, FR!NotFound, FR!OpenFile, FR!FindSize, FR!SendHead,
                FR!ReadChunk, FR!SendChunk, FR!Return, FR!env
  <2>2. /\ step' = "done" => pc' = "reset"
        /\ step' = "killed" => pc' = "exited"
        /\ step' \notin {"done", "killed"} => pc' = "serve"
    BY <1>4 DEF Respond, Served
  <2>3. kind' = "directory" => ~eof' /\ step' # "done"
    BY <2>1 DEF FR!serve_file, FR!NotFound, FR!OpenFile, FR!FindSize, FR!SendHead,
                FR!ReadChunk, FR!SendChunk, FR!Return, FR!Send, FR!stream, Call
  <2>4. CASE FR!OpenFile
    <3>1. /\ step = "open" /\ step' = "size" /\ kind # "missing" /\ status' = status
          /\ open_files' = open_files + 1
      BY <2>1, <2>4 DEF FR!OpenFile, FR!response
    <3>2. status = 0 /\ kind = KindOf(req.path) /\ open_files \in Int
      BY <2>1, <3>1 DEF Call
    <3>3. open_files < FdLimit /\ req.path \in IF kind = "directory" THEN Directories ELSE Files
      BY <3>1, <3>2 DEF KindOf, Openable
    <3>4. open_files' \in Int /\ open_files' - 1 = open_files
      BY <3>1, <3>2
    <3>5. QED
      BY <2>1, <2>2, <2>3, <3>1, <3>2, <3>3, <3>4 DEF Call
  <2>5. CASE ~FR!OpenFile
    <3>1. open_files' = open_files
      BY <2>1, <2>5
    <3>2. \/ step' \in {"done", "killed"}
          \/ /\ step' \in {"head", "read", "send"} /\ step \in {"size", "head", "read", "send"}
             /\ step' \in {"read", "send"} => status' = 200
             /\ step' = "head" => status' = 0
      BY <2>1, <2>5 DEF FR!serve_file, FR!NotFound, FR!OpenFile, FR!FindSize, FR!SendHead,
                FR!ReadChunk, FR!SendChunk, FR!Return, FR!Send, FR!response, Call
    <3>3. QED
      BY <2>1, <2>2, <2>3, <3>1, <3>2 DEF Call
  <2>6. QED
    BY <2>4, <2>5
<1>5. CASE FileChanges
  BY <1>5 DEF FileChanges, FR!Rewrite, FR!stream, FR!response, vars, local, Call, KindOf, Openable
<1>6. CASE UNCHANGED sessionVars
  BY <1>6 DEF sessionVars, vars, local, file, Call, KindOf, Openable
<1>7. QED
  BY <1>1, <1>2, <1>3, <1>4, <1>5, <1>6 DEF SessionNext, SessionChild
-----------------------------------------------------------------------------
(* Each step of Session is a step of Connection, or none. *)

\* The files Connection takes to be open, and where it takes the child to be.
completed == IF Sending THEN open_files - 1 ELSE open_files
place == IF pc = "serve" /\ InDirectory THEN "looping" ELSE pc

\* The part of Connection's state that Session does not keep in another way.
LEMMA SameClient ==
  ASSUME Send \/ Close, completed' = completed, place' = place, place = "exited" => pc = "exited"
  PROVE  C!Send \/ C!Close
BY DEF Send, Close, C!Send, C!Close, local, C!local, Answered, C!Answered, completed, place,
       Render, C!Render, Line, C!Line, CR, LF, SP, C!CR, C!LF, C!SP

LEMMA SameLoop ==
  ASSUME Read \/ ReadEnds \/ Reset, completed' = completed, place' = pc', place = pc
  PROVE  C!Read \/ C!ReadEnds \/ C!Reset
<1>1. CASE Read
  <2>1. \A S : C!Min(S) = Min(S)
    BY DEF C!Min, Min
  <2>2. QED
    BY <1>1, <2>1 DEF Read, C!Read, room, C!room, client, C!client, completed, place
<1>2. CASE ReadEnds
  BY <1>2 DEF ReadEnds, C!ReadEnds, Exit, C!Exit, room, C!room, client, C!client, local, C!local,
              completed, place
<1>3. CASE Reset
  BY <1>3 DEF Reset, C!Reset, CleanBuffer, C!CleanBuffer, CleanRequest, C!CleanRequest,
              CleanFlag, C!CleanFlag, CleanCount, C!CleanCount, NoRequest, C!NoRequest,
              NUL, C!NUL, client, C!client, completed, place
<1>4. QED
  BY <1>1, <1>2, <1>3

LEMMA SameScans ==
  /\ C!end_of_headers(data) = end_of_headers(data)
  /\ C!Words(data) = Words(data)
  /\ C!parse_headers(data) = parse_headers(data)
<1>1. C!end_of_headers(data) = end_of_headers(data)
  BY DEF C!end_of_headers, end_of_headers, C!CR, CR, C!LF, LF
<1>2. C!Words(data) = Words(data)
  <2>1. \A d, p : C!SkipWhite(d, p) = SkipWhite(d, p)
    BY DEF C!SkipWhite, SkipWhite, C!White, White, C!SP, SP, C!CR, CR, C!LF, LF
  <2>2. \A d, p, width : C!WordEnd(d, p, width) = WordEnd(d, p, width)
    BY DEF C!WordEnd, WordEnd, C!White, White, C!SP, SP, C!CR, CR, C!LF, LF, C!NUL, NUL
  <2>3. QED
    BY <2>1, <2>2 DEF C!Words, Words
<1>3. C!parse_headers(data) = parse_headers(data)
  BY <1>2 DEF C!parse_headers, parse_headers, C!request_line, request_line,
              C!parse_headers_only, parse_headers_only, C!CR, CR, C!LF, LF, C!NUL, NUL
<1>4. QED
  BY <1>1, <1>2, <1>3

LEMMA SameScan ==
  ASSUME Scan, completed' = completed, place' = pc', place = pc
  PROVE  C!Scan
BY SameScans DEF Scan, C!Scan, IsGet, C!IsGet, GET, C!GET, client, C!client, completed, place

\* Outside of serve_file, and before its file is open, Connection counts the
\* files as Session does, and has the child in the same place.
LEMMA NotSending ==
  ASSUME Call, pc # "exited", pc # "serve" \/ step = "open"
  PROVE  ~Sending /\ place = pc
BY DEF Call, Sending, place, InDirectory

\* serve_file's last call is Connection's answer, the head it sends for a
\* directory the start of its loop, SIGPIPE in any of its send()s the child's end,
\* and any other call changes nothing.
LEMMA RespondMaps ==
  ASSUME Call, Respond
  PROVE  C!Serve \/ C!ServeDirectory \/ C!ServeKilled \/ C!LoopKilled \/ UNCHANGED C!vars
<1>1. /\ pc = "serve" /\ FR!serve_file
      /\ open_files' = IF FR!OpenFile THEN open_files + 1 ELSE open_files
      /\ UNCHANGED <<client, stream, data, buffer_ok, bytes_read, reading_headers, req>>
  BY DEF Respond
<1>2. UNCHANGED kind
  BY <1>1 DEF FR!serve_file, FR!NotFound, FR!OpenFile, FR!FindSize, FR!SendHead,
              FR!ReadChunk, FR!SendChunk, FR!Return, FR!env
<1>3. CASE step' = "done"
  <2>1. /\ pc' = "reset"
        /\ responses' = Append(responses, [path |-> req.path, status |-> status'])
    BY <1>3 DEF Respond, Served
  <2>2. \/ step = "open" /\ kind = "missing" /\ status' = 404
        \/ step = "read" /\ status' = status /\ kind = "file"
    BY <1>1, <1>3 DEF FR!serve_file, FR!NotFound, FR!OpenFile, FR!FindSize, FR!SendHead,
              FR!ReadChunk, FR!SendChunk, FR!Return, FR!Send, FR!response, Call
  <2>3. open_files' = open_files /\ ~Sending' /\ place' = "reset"
    BY <1>1, <1>3, <2>1 DEF FR!OpenFile, Sending, place
  <2>4. place = "serve"
    BY <1>1, <2>2 DEF place, InDirectory
  <2>5. CASE step = "open" /\ kind = "missing" /\ status' = 404
    <3>1. ~Sending /\ kind = KindOf(req.path)
      BY <1>1, <2>5 DEF Call, Sending
    <3>2. ~Openable(req.path, Files) /\ ~Openable(req.path, Directories)
      BY <2>5, <3>1 DEF KindOf
    <3>3. ~C!Openable(req.path, Files) /\ ~C!Openable(req.path, Directories)
      BY <3>1, <3>2 DEF Openable, C!Openable
    <3>4. QED
      BY <1>1, <2>1, <2>3, <2>4, <2>5, <3>1, <3>3 DEF C!Serve, client, C!client, place
  <2>6. CASE step = "read" /\ status' = status /\ kind = "file"
    <3>1. Sending /\ status' = 200 /\ open_files \in Int
      BY <2>6 DEF Call, Sending, InDirectory
    <3>2. open_files - 1 < FdLimit /\ req.path \in Files
      BY <1>1, <2>6 DEF Call
    <3>3. open_files' = (open_files - 1) + 1
      BY <2>3, <3>1
    <3>4. C!Openable(req.path, Files) /\ ~C!Openable(req.path, Directories)
      BY <3>1, <3>2, PathsAssumption DEF C!Openable
    <3>5. QED
      BY <1>1, <2>1, <2>3, <2>4, <3>1, <3>3, <3>4 DEF C!Serve, client, C!client, place
  <2>7. QED
    BY <2>2, <2>5, <2>6
<1>4. CASE step' = "killed"
  <2>1. pc' = "exited" /\ UNCHANGED responses
    BY <1>4 DEF Respond, Served
  <2>2. closed /\ UNCHANGED status
    BY <1>1, <1>4 DEF FR!serve_file, FR!NotFound, FR!OpenFile, FR!FindSize, FR!SendHead,
              FR!ReadChunk, FR!SendChunk, FR!Return, FR!Send, FR!response
  <2>3. open_files' = open_files /\ (Sending' <=> Sending) /\ place' = "exited"
    <3>1. ~FR!OpenFile
      BY <1>4 DEF FR!OpenFile
    <3>2. kind = "missing" \/ step \in {"size", "head", "read", "send"}
      BY <1>1, <1>4, <3>1 DEF FR!serve_file, FR!NotFound, FR!FindSize, FR!SendHead,
              FR!ReadChunk, FR!SendChunk, FR!Return, FR!Send
    <3>3. QED
      BY <1>1, <1>2, <1>4, <2>1, <2>2, <3>1, <3>2 DEF Sending, InDirectory, place
  <2>4. CASE place = "serve"
    BY <1>1, <2>1, <2>2, <2>3, <2>4 DEF C!ServeKilled, C!Exit, client, C!client, C!local, place
  <2>5. CASE place = "looping"
    BY <1>1, <2>1, <2>2, <2>3, <2>5 DEF C!LoopKilled, C!Exit, client, C!client, C!local, place
  <2>6. QED
    BY <1>1, <2>4, <2>5 DEF place
<1>5. CASE step' \notin {"done", "killed"}
  <2>1. UNCHANGED <<pc, responses>>
    BY <1>5 DEF Respond, Served
  <2>2. CASE FR!SendHead /\ kind = "directory"
    <3>1. step = "head" /\ step' = "read" /\ status = 0 /\ status' = 200 /\ ~FR!OpenFile
      BY <1>5, <2>2 DEF FR!SendHead, FR!Send, FR!OpenFile, Call
    <3>2. /\ Sending /\ ~Sending' /\ open_files' = open_files /\ open_files \in Int
          /\ open_files - 1 < FdLimit /\ req.path \in Directories
      BY <1>1, <1>2, <2>2, <3>1 DEF Sending, InDirectory, Call
    <3>3. place = "serve" /\ place' = "looping" /\ open_files' = (open_files - 1) + 1
      BY <1>1, <1>2, <2>1, <2>2, <3>1, <3>2 DEF place, InDirectory
    <3>4. C!Openable(req.path, Directories)
      BY <3>2 DEF C!Openable
    <3>5. QED
      BY <1>1, <2>1, <3>2, <3>3, <3>4 DEF C!ServeDirectory, client, C!client, place
  <2>3. CASE ~(FR!SendHead /\ kind = "directory")
    <3>1. completed' = completed /\ place' = place
      <4>1. CASE FR!OpenFile
        <5>1. step = "open" /\ step' = "size" /\ kind # "missing" /\ UNCHANGED status
          BY <4>1 DEF FR!OpenFile, FR!response
        <5>2. status = 0
          BY <1>1, <5>1 DEF Call
        <5>3. ~Sending /\ Sending' /\ open_files' = open_files + 1 /\ open_files \in Int
          BY <1>1, <1>2, <4>1, <5>1, <5>2 DEF Sending, InDirectory, Call
        <5>4. place' = place
          BY <2>1, <5>1, <5>2 DEF place, InDirectory
        <5>5. QED
          BY <5>3, <5>4 DEF completed
      <4>2. CASE ~FR!OpenFile
        <5>1. step \in {"size", "head", "read", "send"} /\ step' \in {"size", "head", "read", "send"}
          BY <1>1, <1>5, <4>2 DEF FR!serve_file, FR!NotFound, FR!FindSize, FR!SendHead,
                FR!ReadChunk, FR!SendChunk, FR!Return, FR!Send
        <5>2. InDirectory' <=> InDirectory
          BY <1>1, <1>2, <1>5, <2>3, <4>2 DEF FR!serve_file, FR!NotFound, FR!FindSize, FR!SendHead,
                FR!ReadChunk, FR!SendChunk, FR!Return, FR!Send, FR!response, InDirectory
        <5>3. open_files' = open_files /\ (Sending' <=> Sending) /\ place' = place
          BY <1>1, <1>2, <2>1, <4>2, <5>1, <5>2 DEF Sending, place
        <5>4. QED
          BY <5>3 DEF completed
      <4>3. QED
        BY <4>1, <4>2
    <3>2. QED
      BY <1>1, <2>1, <3>1 DEF C!vars, C!local, client, C!client, completed, place
  <2>4. QED
    BY <2>2, <2>3
<1>6. QED
  BY <1>3, <1>4, <1>5

LEMMA StepMaps == Call /\ [SessionNext]_sessionVars => [C!Next]_C!vars
<1> SUFFICES ASSUME Call, [SessionNext]_sessionVars PROVE [C!Next]_C!vars
  OBVIOUS
<1>1. CASE Client
  <2>1. completed' = completed /\ place' = place
    BY <1>1 DEF Client, Send, Close, file, local, completed, Sending, place, InDirectory
  <2>2. place = "exited" => pc = "exited"
    BY DEF place
  <2>3. QED
    BY <1>1, <2>1, <2>2, SameClient DEF Client, C!Next
<1>2. CASE Loop
  <2>1. completed' = completed
    BY <1>2 DEF Loop, Read, ReadEnds, Exit, Reset, file, local, completed, Sending, InDirectory
  <2>2. place' = pc' /\ place = pc
    BY <1>2 DEF Loop, Read, ReadEnds, Exit, Reset, place
  <2>3. QED
    BY <1>2, <2>1, <2>2, SameLoop DEF Loop, C!Next, C!Child
<1>3. CASE SessionScan
  <2>1. pc = "scan" /\ UNCHANGED open_files
    BY <1>3 DEF SessionScan, Scan
  <2>2. ~Sending /\ place = pc
    BY <2>1, NotSending
  <2>3. ~Sending' /\ place' = pc'
    <3>1. CASE pc' = "serve"
      <4>1. StartResponse
        BY <1>3, <3>1 DEF SessionScan
      <4>2. QED
        BY <4>1 DEF StartResponse, Sending, place, InDirectory
    <3>2. CASE pc' # "serve"
      BY <1>3, <2>2, <3>2 DEF SessionScan, file, Sending, place, InDirectory
    <3>3. QED
      BY <3>1, <3>2
  <2>4. C!Scan
    BY <1>3, <2>1, <2>2, <2>3, SameScan DEF SessionScan, completed
  <2>5. QED
    BY <2>4 DEF C!Next, C!Child
<1>4. CASE Respond
  BY <1>4, RespondMaps DEF C!Next, C!Child
<1>5. CASE FileChanges \/ UNCHANGED sessionVars
  <2>1. UNCHANGED <<vars, kind, step, status>>
    BY <1>5 DEF FileChanges, FR!Rewrite, FR!response, sessionVars, file
  <2>2. UNCHANGED C!vars
    BY <2>1 DEF vars, local, client, C!vars, C!local, C!client, Sending, InDirectory
  <2>3. QED
    BY <2>2
<1>6. QED
  BY <1>1, <1>2, <1>3, <1>4, <1>5 DEF SessionNext, SessionChild

\* Whatever the client, TCP and other programs do between two calls of
\* serve_file, the connection behaves as Connection says, where a response is
\* one step (handle_conn and serve_file, static.c:47-98, 103-142).  This is
\* the safety part of ImplementsConnection.
THEOREM SessionImplements == SessionSpec => C!Spec
<1>1. SessionInit => C!Init
  BY DEF SessionInit, Init, C!Init, FR!Init, Sending, InDirectory, NoRequest, C!NoRequest
<1>2. QED
  BY <1>1, InitCall, NextCall, StepMaps, PTL DEF SessionSpec, C!Spec
-----------------------------------------------------------------------------
(* The answers, by way of Connection. *)

CP == INSTANCE ConnectionProofs WITH open_files <- completed, pc <- place

\* CP and C are Connection with the same substitution.
LEMMA OneConnection == C!Spec => CP!Spec
<1>1. C!vars = CP!vars /\ C!vars' = CP!vars'
  BY DEF C!vars, CP!vars, C!client, CP!client, C!local, CP!local, completed, place
<1>2. C!Init => CP!Init
  BY DEF C!Init, CP!Init, completed, place, C!NoRequest, CP!NoRequest
<1>3. C!Next => CP!Next
  <2> USE DEF completed, place, C!client, CP!client, C!local, CP!local, C!NUL, CP!NUL, C!CR, CP!CR,
              C!LF, CP!LF, C!SP, CP!SP, C!White, CP!White
  <2>1. C!Send => CP!Send
    BY DEF C!Send, CP!Send, C!Render, CP!Render, C!Line, CP!Line, C!Answered, CP!Answered
  <2>2. C!Close => CP!Close
    BY DEF C!Close, CP!Close
  <2>3. C!Read => CP!Read
    BY DEF C!Read, CP!Read, C!room, CP!room, C!Min, CP!Min
  <2>4. C!ReadEnds => CP!ReadEnds
    BY DEF C!ReadEnds, CP!ReadEnds, C!Exit, CP!Exit, C!room, CP!room
  <2>5. C!Scan => CP!Scan
    BY DEF C!Scan, CP!Scan, C!IsGet, CP!IsGet, C!GET, CP!GET, C!end_of_headers, CP!end_of_headers,
           C!parse_headers, CP!parse_headers, C!request_line, CP!request_line,
           C!parse_headers_only, CP!parse_headers_only, C!Words, CP!Words,
           C!SkipWhite, CP!SkipWhite, C!WordEnd, CP!WordEnd
  <2>6. C!Serve => CP!Serve
    BY DEF C!Serve, CP!Serve, C!Openable, CP!Openable
  <2>7. C!ServeKilled => CP!ServeKilled
    BY DEF C!ServeKilled, CP!ServeKilled, C!Exit, CP!Exit
  <2>8. C!Reset => CP!Reset
    BY DEF C!Reset, CP!Reset, C!CleanBuffer, CP!CleanBuffer, C!CleanRequest, CP!CleanRequest,
           C!CleanFlag, CP!CleanFlag, C!CleanCount, CP!CleanCount, C!NoRequest, CP!NoRequest
  <2>9. C!ServeDirectory => CP!ServeDirectory
    BY DEF C!ServeDirectory, CP!ServeDirectory, C!Openable, CP!Openable
  <2>10. C!LoopKilled => CP!LoopKilled
    BY DEF C!LoopKilled, CP!LoopKilled, C!Exit, CP!Exit
  <2>11. QED
    BY <2>1, <2>2, <2>3, <2>4, <2>5, <2>6, <2>7, <2>8, <2>9, <2>10
    DEF C!Next, CP!Next, C!Child, CP!Child
<1>4. [C!Next]_C!vars => [CP!Next]_CP!vars
  BY <1>1, <1>3
<1>5. QED
  BY <1>2, <1>4, PTL DEF C!Spec, CP!Spec

LEMMA ConnectionAssumptions ==
  /\ CP!BsizeAssumption /\ CP!WidthsAssumption /\ CP!LimitsAssumption /\ CP!TcpAssumption
  /\ CP!ResetAssumption /\ CP!PathsAssumption /\ CP!LeftoversAssumption /\ CP!RequestsAssumption
BY BsizeAssumption, WidthsAssumption, LimitsAssumption, TcpAssumption, ResetAssumption,
   PathsAssumption, LeftoversAssumption, RequestsAssumption
DEF CP!Render, Render, CP!Line, Line, CP!CR, CR, CP!LF, LF, CP!SP, SP, CP!NUL, NUL,
    CP!BlankLine, BlankLine

\* Whole connections, every call of serve_file included, of a client that waits
\* for its answers and whose requests arrive whole: each answer is that of its own
\* request (static.c:47-98, 103-142).
THEOREM SessionAnswers == Orderly /\ MaxRequests <= FdLimit /\ SessionSpec => []AnswersMatch
<1>1. CP!Orderly /\ MaxRequests <= FdLimit /\ CP!Spec => []CP!AnswersMatch
  BY ConnectionAssumptions, CP!AnswersAreRight, PTL
<1>2. Orderly => CP!Orderly
  BY DEF Orderly, CP!Orderly
<1>3. CP!AnswersMatch => AnswersMatch
  BY DEF AnswersMatch, CP!AnswersMatch, WellFormed, CP!WellFormed, RightAnswer, CP!RightAnswer,
         IsWord, CP!IsWord, GET, CP!GET, SP, CP!SP, White, CP!White, CR, CP!CR, LF, CP!LF
<1>4. QED
  BY <1>1, <1>2, <1>3, SessionImplements, OneConnection, PTL
-----------------------------------------------------------------------------
(* The bodies, by way of FileResponse. *)

FRP == INSTANCE FileResponseProofs WITH
         BSIZE <- Chunk, Kinds <- {"missing", "file", "directory"}, pc <- step,
         client_gone <- closed

LEMMA FileAssumptions ==
  FRP!BsizeAssumption /\ FRP!KindsAssumption /\ FRP!SizesAssumption /\ FRP!RewritesAssumption
BY FilesAssumption DEF FRP!PathKind

\* A step of serve_file, and a rewritten file, keep what FileResponseProofs
\* says of the response.
LEMMA ResponseStep ==
  ASSUME FRP!IInv, FR!serve_file \/ FR!Rewrite
  PROVE  FRP!IInv'
<1>1. FRP!Next
  <2> USE DEF FR!stream, FRP!stream, FR!response, FRP!response, FR!env, FRP!env, FR!Send, FRP!Send
  <2>1. FR!NotFound => FRP!NotFound
    BY DEF FR!NotFound, FRP!NotFound
  <2>2. FR!OpenFile => FRP!OpenFile
    BY DEF FR!OpenFile, FRP!OpenFile
  <2>3. FR!FindSize => FRP!FindSize
    BY DEF FR!FindSize, FRP!FindSize
  <2>4. FR!SendHead => FRP!SendHead
    BY DEF FR!SendHead, FRP!SendHead
  <2>5. FR!ReadChunk => FRP!ReadChunk
    BY DEF FR!ReadChunk, FRP!ReadChunk, FR!Got, FRP!Got, FR!Left, FRP!Left
  <2>6. FR!SendChunk => FRP!SendChunk
    BY DEF FR!SendChunk, FRP!SendChunk
  <2>7. FR!Return => FRP!Return
    BY DEF FR!Return, FRP!Return
  <2>8. FR!Rewrite => FRP!Rewrite
    BY DEF FR!Rewrite, FRP!Rewrite
  <2>9. QED
    BY <2>1, <2>2, <2>3, <2>4, <2>5, <2>6, <2>7, <2>8 DEF FR!serve_file, FRP!serve_file, FRP!Next
<1>2. QED
  BY <1>1, FileAssumptions, FRP!NextIInv

\* A new call starts with nothing read and nothing sent.
LEMMA ResponseStart ==
  ASSUME StartResponse, closed' \in BOOLEAN
  PROVE  FRP!IInv'
<1>1. /\ step' = "open" /\ kind' \in {"missing", "file", "directory"} /\ size' \in Nat /\ rewrites' = 0
      /\ pos' = 0 /\ eof' = FALSE /\ bytesread' = 0 /\ fileSize' = 0
      /\ status' = 0 /\ announced' = 0 /\ sent' = 0
  BY FilesAssumption DEF StartResponse, KindOf
<1>2. 0 \in 0..Chunk /\ 0 \in 0..MaxRewrites
  BY FilesAssumption
<1>3. FRP!TypeOK'
  BY <1>1, <1>2 DEF FRP!TypeOK, FRP!PathKind
<1>4. FRP!Position' /\ FRP!NeverAhead'
  BY <1>1 DEF FRP!Position, FRP!NeverAhead
<1>5. QED
  BY <1>1, <1>3, <1>4 DEF FRP!IInv

LEMMA ResponseSame ==
  ASSUME FRP!IInv, UNCHANGED file, closed' \in BOOLEAN
  PROVE  FRP!IInv'
BY DEF FRP!IInv, FRP!TypeOK, FRP!PathKind, FRP!Position, FRP!NeverAhead, file

LEMMA AppendAny ==
  ASSUME NEW S, NEW s \in Seq(S), NEW e
  PROVE  /\ Append(s, e) \in Seq(S \union {e})
         /\ Len(s) \in Nat /\ Len(Append(s, e)) = Len(s) + 1
         /\ \A i \in 1..Len(s) : Append(s, e)[i] = s[i]
         /\ Append(s, e)[Len(s) + 1] = e
<1>1. s \in Seq(S \union {e}) /\ e \in S \union {e}
  BY SeqMonotonic
<1>2. QED
  BY <1>1, AppendProperties, LenProperties

Body == [announced : Nat, sent : Nat, resized : BOOLEAN]

BInv ==
  /\ Call /\ FRP!IInv /\ closed \in BOOLEAN
  /\ bodies \in Seq(Body) /\ BodiesComplete

LEMMA InitBInv == SessionInit => BInv
<1> SUFFICES ASSUME SessionInit PROVE BInv
  OBVIOUS
<1>1. FRP!Init
  BY DEF SessionInit, FR!Init, FRP!Init
<1>2. FRP!IInv
  BY <1>1, FileAssumptions, FRP!InitIInv
<1>3. bodies = <<>> /\ responses = <<>> /\ Len(bodies) = 0 /\ closed = FALSE
  BY EmptySeq DEF SessionInit, Init
<1>4. bodies \in Seq(Body)
  BY <1>3, EmptySeq
<1>5. BodiesComplete
  BY <1>3 DEF BodiesComplete
<1>6. QED
  BY <1>2, <1>3, <1>4, <1>5, InitCall DEF BInv

LEMMA NextBInv ==
  BInv /\ (\E S : responses \in Seq(S)) /\ [SessionNext]_sessionVars => BInv'
<1> SUFFICES ASSUME BInv, NEW S, responses \in Seq(S), [SessionNext]_sessionVars PROVE BInv'
  OBVIOUS
<1>1. Call' /\ Call /\ FRP!IInv /\ closed \in BOOLEAN /\ bodies \in Seq(Body) /\ BodiesComplete
  BY NextCall DEF BInv
<1>2. ASSUME UNCHANGED <<responses, bodies>>
      PROVE  bodies' \in Seq(Body) /\ BodiesComplete'
  BY <1>1, <1>2 DEF BodiesComplete
<1>3. CASE Client \/ Loop \/ UNCHANGED sessionVars
  <2>1. UNCHANGED <<file, responses, bodies>> /\ closed' \in BOOLEAN
    BY <1>1, <1>3 DEF Client, Send, Close, Loop, Read, ReadEnds, Reset, Exit, sessionVars, vars,
                      local, client
  <2>2. QED
    BY <1>1, <1>2, <2>1, ResponseSame DEF BInv
<1>4. CASE SessionScan
  <2>1. UNCHANGED <<responses, bodies>> /\ closed' \in BOOLEAN
    BY <1>1, <1>4 DEF SessionScan, Scan, client
  <2>2. StartResponse \/ UNCHANGED file
    BY <1>4 DEF SessionScan
  <2>3. QED
    BY <1>1, <1>2, <2>1, <2>2, ResponseStart, ResponseSame DEF BInv
<1>5. CASE FileChanges
  <2>1. UNCHANGED <<responses, bodies, closed>> /\ FR!Rewrite
    BY <1>5 DEF FileChanges, vars, client
  <2>2. QED
    BY <1>1, <1>2, <2>1, ResponseStep DEF BInv
<1>6. CASE Respond
  <2>1. FR!serve_file /\ closed' = closed
    BY <1>6 DEF Respond, client
  <2>2. FRP!IInv'
    BY <1>1, <2>1, ResponseStep
  <2>3. CASE step' # "done"
    <3>1. UNCHANGED <<responses, bodies>>
      BY <1>6, <2>3 DEF Respond, Served
    <3>2. QED
      BY <1>1, <1>2, <2>1, <2>2, <3>1 DEF BInv
  <2>4. CASE step' = "done"
    <3> DEFINE resp == [path |-> req.path, status |-> status']
               body == [announced |-> announced', sent |-> sent', resized |-> rewrites > 0]
    <3>1. responses' = Append(responses, resp) /\ bodies' = Append(bodies, body)
      BY <1>6, <2>4 DEF Respond, Served
    <3>2. rewrites' = rewrites
      BY <2>1 DEF FR!serve_file, FR!NotFound, FR!OpenFile, FR!FindSize, FR!SendHead,
              FR!ReadChunk, FR!SendChunk, FR!Return, FR!env
    <3>3. FRP!TypeOK /\ FRP!TypeOK'
      BY <1>1, <2>2 DEF FRP!IInv
    <3>4. kind' \in {"missing", "file"}
      BY <1>1, <2>4 DEF Call
    <3>5. rewrites' = 0 => sent' = announced'
      BY <2>2, <2>4, <3>4 DEF FRP!IInv, FRP!Position
    <3>6. rewrites \in Nat
      BY <3>3, FilesAssumption DEF FRP!TypeOK
    <3>7. body \in Body /\ (body.resized \/ body.sent = body.announced)
      <4>1. announced' \in Nat /\ sent' \in Nat /\ (rewrites > 0) \in BOOLEAN
        BY <3>3 DEF FRP!TypeOK
      <4>2. body \in Body
        BY <4>1 DEF Body
      <4>3. ~(rewrites > 0) => sent' = announced'
        BY <3>2, <3>5, <3>6
      <4>4. body.resized = (rewrites > 0) /\ body.sent = sent' /\ body.announced = announced'
        OBVIOUS
      <4>5. QED
        BY <4>2, <4>3, <4>4
    <3> HIDE DEF body, resp
    <3>8. /\ Len(responses') = Len(responses) + 1
          /\ Len(bodies') = Len(bodies) + 1 /\ Len(bodies) \in Nat
          /\ \A n \in 1..Len(bodies) : bodies'[n] = bodies[n]
          /\ bodies'[Len(bodies) + 1] = body
          /\ bodies' \in Seq(Body)
      <4>1. Len(responses') = Len(responses) + 1
        BY <3>1, AppendAny
      <4>2. QED
        BY <1>1, <3>1, <3>7, <4>1, AppendProperties, LenProperties
    <3>9. \A n \in 1..Len(bodies') : bodies'[n].resized \/ bodies'[n].sent = bodies'[n].announced
      <4>1. TAKE n \in 1..Len(bodies')
      <4>2. n \in 1..Len(bodies) \/ n = Len(bodies) + 1
        BY <3>8
      <4>3. QED
        BY <1>1, <3>7, <3>8, <4>2 DEF BodiesComplete
    <3>10. QED
      BY <1>1, <2>1, <2>2, <3>8, <3>9 DEF BInv, BodiesComplete
  <2>5. QED
    BY <2>3, <2>4
<1>7. QED
  BY <1>3, <1>4, <1>5, <1>6 DEF SessionNext, SessionChild

\* On a connection each complete response has the body its head announced, for
\* files of any size in chunks of any size, unless the file was resized while
\* it was sent (static.c:68-97).
THEOREM SessionBodies == SessionSpec => []BodiesComplete
<1>1. CP!Spec => []CP!TypeOK
  BY ConnectionAssumptions, CP!ChildTypes, PTL
<1>2. CP!TypeOK => \E S : responses \in Seq(S)
  BY DEF CP!TypeOK
<1>3. BInv => BodiesComplete
  BY DEF BInv
<1>4. QED
  BY <1>1, <1>2, <1>3, InitBInv, NextBInv, SessionImplements, OneConnection, PTL DEF SessionSpec
=============================================================================
