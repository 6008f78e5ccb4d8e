------------------------------ MODULE Session ------------------------------
(***************************************************************************)
(* A whole connection: handle_conn (Connection) with every call of         *)
(* serve_file (FileResponse) in place of Connection's one step Serve.  One *)
(* file may be rewritten, and the client may leave, in the middle of a     *)
(* response; what a response leaves behind meets the next one.             *)
(***************************************************************************)
EXTENDS Connection

CONSTANTS
  Chunk,        \* bytes per fread()
  Sizes,        \* file sizes
  MaxRewrites   \* bound: rewrites of a file per response

ASSUME FilesAssumption ==
  Chunk \in Nat \ {0} /\ Sizes \subseteq Nat /\ Sizes # {} /\ MaxRewrites \in Nat

VARIABLES
  step, kind, size, rewrites, pos, eof, fileSize, bytesread, status, announced,
  sent,         \* FileResponse's variables, for the response being sent
  bodies        \* of each complete response: [announced, sent, resized]

file == <<step, kind, size, rewrites, pos, eof, fileSize, bytesread, status,
          announced, sent>>
sessionVars == <<vars, file, bodies>>

FR == INSTANCE FileResponse WITH
        BSIZE <- Chunk, Kinds <- {"missing", "file", "directory"}, pc <- step,
        client_gone <- closed

SessionInit ==
  /\ Init
  /\ FR!Init /\ kind = "missing" /\ size = Min(Sizes)
  /\ bodies = <<>>

\* What fopen() will find, with the descriptors there are now.
KindOf(path) == IF Openable(path, Files) THEN "file"
                ELSE IF Openable(path, Directories) THEN "directory" ELSE "missing"

\* Mutant: the last response's position and end-of-file are taken over.
StartResponse_SameStream ==
  /\ step' = "open"
  /\ kind' = KindOf(req'.path)
  /\ size' \in Sizes
  /\ rewrites' = 0 /\ bytesread' = 0
  /\ fileSize' = 0 /\ status' = 0 /\ announced' = 0 /\ sent' = 0
  /\ UNCHANGED <<pos, eof>>

\* serve_file is called: its variables are new.
StartResponse ==
  /\ step' = "open"
  /\ kind' = KindOf(req'.path)
  /\ size' \in Sizes
  /\ rewrites' = 0 /\ pos' = 0 /\ eof' = FALSE /\ bytesread' = 0
  /\ fileSize' = 0 /\ status' = 0 /\ announced' = 0 /\ sent' = 0

SessionScan ==
  /\ Scan
  /\ IF pc' = "serve" THEN StartResponse ELSE UNCHANGED file
  /\ UNCHANGED bodies

\* Mutant: the loop goes on without its clean-up.
Served_NotReset ==
  /\ step' = "done" /\ pc' = "read"
  /\ responses' = Append(responses, [path |-> req.path, status |-> status'])
  /\ bodies' = Append(bodies, [announced |-> announced', sent |-> sent',
                               resized |-> rewrites > 0])
\* serve_file returns to the loop.
Served ==
  /\ step' = "done" /\ pc' = "reset"
  /\ responses' = Append(responses, [path |-> req.path, status |-> status'])
  /\ bodies' = Append(bodies, [announced |-> announced', sent |-> sent',
                               resized |-> rewrites > 0])

\* One call of serve_file, which returns, ends with SIGPIPE, or goes on.
Respond ==
  /\ pc = "serve"
  /\ FR!serve_file
  /\ open_files' = IF FR!OpenFile THEN open_files + 1 ELSE open_files
  /\ \/ Served
     \/ step' = "killed" /\ pc' = "exited" /\ UNCHANGED <<responses, bodies>>
     \/ step' \notin {"done", "killed"} /\ UNCHANGED <<pc, responses, bodies>>
  /\ UNCHANGED <<client, stream, data, buffer_ok, bytes_read, reading_headers, req>>

Loop == (Read \/ ReadEnds \/ Reset) /\ UNCHANGED <<file, bodies>>

SessionChild == Loop \/ SessionScan \/ Respond

Client == (Send \/ Close) /\ UNCHANGED <<file, bodies>>

FileChanges == FR!Rewrite /\ UNCHANGED <<vars, bodies>>

SessionNext == Client \/ SessionChild \/ FileChanges

SessionSpec == SessionInit /\ [][SessionNext]_sessionVars
SessionFairSpec == SessionSpec /\ WF_sessionVars(SessionChild)

-----------------------------------------------------------------------------
(* Properties. *)

\* The body loop over a directory, from the head of its response on.
InDirectory == kind = "directory" /\ status = 200

\* To Connection, a file is open only when its response is complete, and a
\* directory when its loop begins.
Sending == kind # "missing" /\ step \in {"size", "head", "read", "send", "killed"} /\ ~InDirectory
C == INSTANCE Connection WITH
       open_files <- IF Sending THEN open_files - 1 ELSE open_files,
       pc <- IF pc = "serve" /\ InDirectory THEN "looping" ELSE pc

\* handle_conn with serve_file's calls is what Connection says of it: the
\* client's leaving, the file's changing and other requests' arriving between
\* two calls make no difference to what is answered and when the child ends
\* (static.c:103-142).
ImplementsConnection == C!FairSpec

\* Whatever the client sent and however it arrived, its child exits once the
\* client has closed the connection (static.c:113-114), unless it was asked for
\* a directory and is in the loop that never ends (static.c:93).
ChildEnds == closed ~> (pc = "exited" \/ (pc = "serve" /\ InDirectory))

\* On the one stream, each complete response has the body its head announced,
\* or the client takes part of a body for the next response: nothing of one
\* response shows in a later one, unless the file was resized while it was sent
\* (static.c:68-97).
BodiesComplete ==
  /\ Len(bodies) = Len(responses)
  /\ \A n \in 1..Len(bodies) :
       bodies[n].resized \/ bodies[n].sent = bodies[n].announced
=============================================================================
