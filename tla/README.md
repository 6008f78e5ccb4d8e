# ceeserve in TLA+

ceeserve is a small static-file HTTP server in C: one listening process, one
forked process per connection. Its tests are written with a vendored copy of the
Unity framework, which makes up most of the repository's lines. This directory
holds TLA+ modules translated from that source, the TLC configurations that check
them on small instances, and theorems about them checked by TLAPS.

## 1. Inventory

| component | state | operations |
|---|---|---|
| listening process (`server.c` `main`) | listening socket, the accepted socket, open descriptors | set-up calls, `accept`, `fork`, `close` |
| SIGCHLD handler (`server.c` `sigchld_handler`, `register_zombie_killer`) | pending signal, zombies (kernel) | installation, delivery, `waitpid` loop, return with SA_RESTART |
| connection process (`static.c` `handle_conn`) | `data[BSIZE]`, `bytes_read`, `reading_headers`, `req`, `resp` | `read`, scan, serve, clean-up, `exit` |
| scanning and parsing (`static.c` `end_of_headers`, `http.c` `parse_headers` and callees) | the loop's cursor, line count and offset; key and value blocks | one pass over the buffer |
| header lookup (`http.c` `get_header`) | none | linear search; only the tests call it |
| file response (`static.c` `serve_file`) | the `FILE*` with position and indicators, `fileSize` | `fopen`, size, head, `fread`/`send` loop |
| response formatting (`create_response`, `add_header`, `resptostr`, `send_response`) | `HttpResponse` | fill, format, `send` |
| test framework (`unity/`) | `Unity`: counters, flags of the current test, the `jmp_buf` | `UnityBegin`, `RUN_TEST`, assertions, `UnityEnd` |
| logging (`logger.c`, `log_request`) | none | printing |
| start-up arguments (`listen_address`, `argv`) | none | conversions |
| tests (`test.c`) | none | a program of the framework |

**How they interact.** A client's connection waits in the kernel's accept queue
until `main` accepts it and forks. The child gets a copy of every descriptor of
the parent, closes the listening socket and runs `handle_conn` on the connection;
the parent closes its copy. The child's exit makes it a zombie and raises SIGCHLD
in the parent, whose handler interrupts `main` anywhere. The child and the client
share a byte stream, whose division into `read()`s is TCP's. The child and other
programs share the files. A test calls assertions, which leave it by `longjmp`
when they decide it; the framework calls `setUp`, the test and `tearDown`.

**What is hard.** Signals against the accept loop, and exits that one signal
stands for; descriptors copied by `fork`; a parent that stops while children
serve; a stream cut at any byte; a buffer and four variables reused from one
request to the next; scans over memory nobody has written; blocks without an
end; files that change while they are sent; clients that leave in the middle;
flags and jumps across three functions of a test; casts, sign extension and
differences at the bounds of four integer widths. `PROJECT.json` lists these
hazards at their lines.

**What makes each component correct.**
Server: nobody's socket is in a foreign process, nothing stays open after its
child, no zombie is forgotten, queued connections get a child each, in order.
Connection: the n-th answer is the right answer to the n-th request, every proper
request is answered, the child ends with its client. File response: the body has
the length it announced and the function returns. Parser: it accepts exactly the
header blocks, reads back what was written, and stays in its memory unless a line or the
number of headers is too large for it. Framework:
each test is judged once, by what the names of its assertions promise, and the
counts agree with the report.

## 2. Modules

| module | models |
|---|---|
| `Server` | `server.c`: parent, handler, children as seen from outside, descriptors, accept queue |
| `ServerProofs` | theorems about `Server` |
| `ConnService` | abstract: what the server promises of each connection |
| `ServerService` | `Server` as an implementation of `ConnService`; the module its run checks |
| `ServerServiceProofs` | the proof that it is one |
| `HttpBytes` | the scans as conditions on the buffer: `end_of_headers`, `request_line`, `parse_headers_only`, `parse_headers` |
| `Connection` | `handle_conn` and its client; `serve_file` as one step |
| `ConnectionProofs` | theorems about `Connection` |
| `FileResponse` | `serve_file`, call by call |
| `FileResponseProofs` | theorems about `FileResponse` |
| `Session` | `handle_conn` with the calls of `serve_file`; implements `Connection` |
| `SessionProofs` | the proof that it does, and what follows |
| `HeaderParser` | `parse_headers_only` as its loop, with the memory it fills, and `get_header` |
| `HeaderParserProofs` | theorems about `HeaderParser`, and that it reads what `ResponseHead` writes |
| `ResponseHead` | `create_response`, `add_header`, `resptostr` and the headers `serve_file` gives |
| `UnityAsserts` | the assertions of Unity as functions of their arguments |
| `UnityMeaning` | abstract: what the name of each assertion promises |
| `UnityAssertsProofs` | each assertion holds exactly if what its name promises does, and its report shows the difference |
| `TestSuite` | abstract: what a test program promises, of assertions with any meaning |
| `UnityRun` | the runner of Unity; implements `TestSuite` |
| `UnityRunProofs` | theorems about `UnityRun`, and about programs of well-typed assertions |
| `MCConnection`, `MCSession`, `MCFileResponse`, `MCHeaderParser`, `MCUnity` | the small constants TLC uses |

Who builds on whom: `Connection` and `HeaderParser` EXTEND `HttpBytes`; `Session`
EXTENDS `Connection` and takes its steps of a response from an INSTANCE of
`FileResponse`; `MCHeaderParser` feeds the parser with the heads of
`ResponseHead`; `UnityRun` EXTENDS `UnityMeaning` and that `UnityAsserts`.
Three refinements tie the levels together: `Server` implements `ConnService`,
`Session` implements `Connection`, `UnityRun` implements `TestSuite`. A fourth
relation is between two descriptions of one function: `HeaderParser`'s loop decides
what `HttpBytes` says in a line.

Operators named `X_Something` after "Mutant:" are plausible bugs of `X`. No
specification uses them; each shows that some property fails if `X` has the bug.

### Server, ConnService, ServerService

`pc` is the call `main` makes next (`server.c:27-65`): the set-up calls in order
(`SetupNext`), then `accept`, `fork`, `close`. Every checked call may fail
into `Error` (`static.c:173-176`: exit), in the behaviours where `faulty` is true;
`faulty` is chosen at the start so that one specification also describes the
server none of whose calls fail. `accept` failing exits: the `continue` after it is
never reached. Delivering SIGCHLD, each `waitpid`, the last `waitpid`, and the
handler's return are separate steps; `main` makes no step while the handler runs.
SIGCHLD is one bit, set again by an exit during the handler. An orphan is reaped
by init. `Listening` and `Connect` are the kernel: the queue takes a
connection while it holds at most BACKLOG, and exists while *any* process
has the listening socket open.

`ConnService` has no descriptors, signals or processes: connections arrive, wait in
line, are served by somebody, end and are closed; the service may stop. In
`ServerService` the line is the kernel's queue behind the connection in `main`'s
hands, and a connection's status comes from its child and from who has its
socket open. So "dropped", "served twice", "overtaken" and "never closed" are all
behaviours the abstract specification does not have.

Not in the model: the parent being killed from outside, the descriptors 0-2,
`errno` after the handler, the process limit (a failing `fork` stands for it).

### HttpBytes

A cell of the buffer is one byte: CR, LF, SP, NUL, a colon or a letter. `Words` is the
`sscanf` of `request_line`: each conversion skips white space, line ends included, and takes
at most its width, WORD for the method and the version (49 in the code) and PATH for the
path (2047); what is left of a longer word goes to the next conversion. The scans run to
the cell `BSIZE`, which stands for the memory after `data`.

### Connection

`Read` takes any number of the bytes that have been sent, stores them at the start of the
buffer and adds their number to `bytes_read` (`static.c:112-115`). `Scan` is the rest of the iteration (`117-138`). `Reset` is the
clean-up (`129-133`). `ReadEnds` has the three ways `read()` gives no bytes: no room,
end of stream, no buffer. `Serve` is `serve_file` of a file (200) or of what `fopen` cannot
open (404); `ServeDirectory` is its endless loop over a directory, in which the child stays
(`looping`) unless a `send` of no bytes kills it after the client has gone (`LoopKilled`).
That a request parses depends only on its request line and its blank line here: header lines
are taken to be shorter than the parser's blocks, and `HeaderParser` has the others.

`memset(&req, 0, BSIZE)` and `memset(&resp, 0, BSIZE)` write 4096 bytes at
objects far smaller, which is undefined. `ResetOutcomes` gives the outcomes that builds
of this code have: nothing live is hit (`harmless`; gcc 12 at -O1 to -O3 and with the
stack protector), the pointer to the run-time sized array `data` is zeroed (`pointer`;
gcc 12 at -O0, which is what the Makefile builds), or the process is killed (`killed`;
fortified builds, or a stack that ends too soon). After `pointer` the next `read()`
fails with EFAULT.

`char data[BSIZE]` is not initialised: `data` starts as any member of `Leftovers`, a constant
(in the runs: zeroed memory, and memory full of an old request).

### FileResponse and Session

`FileResponse` has one step per library call, with the position and end-of-file
indicator of the stream. `send` blocks until all bytes are taken; after the client
has closed it either still succeeds or ends the process with SIGPIPE. Other programs
may resize the file at any point (`Rewrite`). A directory can be opened for reading,
and `fread` on it fails without end-of-file.

`Session` replaces `Connection`'s step `Serve` by those steps, on variables of its
own that are new with every call of `serve_file`, and keeps of each complete response
what it announced and what it sent. Between two of them the client sends or leaves
and the file is resized. `Connection`'s `open_files` counts a file from the end of its
response, `Session`'s from `fopen`; the mapping takes the difference out. A path is that of
a file, of a directory or of neither. A SIGPIPE in a body maps to `ServeKilled`, the head of a
directory's response to `ServeDirectory` (`InDirectory` is "looping" above), a SIGPIPE in its
loop to `LoopKilled`, every other call but the last to no step.

### HeaderParser and ResponseHead

One step is one pass of the `while` in `parse_headers_only` (`http.c:36-74`); which
action it is depends on the cell under the cursor: `Blank`, `NewHeader`, `Skip`
(request line and CR), `Colon`, `Put`, `TextEnds`. A key and a value block of CAP cells
(256 bytes in the code) come from `malloc` with each line, each with a content out of
`Memory`, a constant; the history variable `malloced` remembers it. Nobody ends the strings
in them: what follows is what lay there, and a skipped CR leaves a hole of it. The code checks
neither the block's nor the array's size; a line longer than its block or a header more than
HEADERS (1000 in the code) ends the behaviour in `Overrun`, since the program has no meaning
after it. `get_header` compares C strings, so a key that old bytes complete to another name
is found under that one; it is asked for names shorter than a block, of which the comparison
never reads further. The `realloc` at the end is left out: only the first `header_count`
entries are looked at.

`ResponseHead` is the other direction: the record `create_response` and `add_header`
fill, which headers `serve_file` adds for which file, and the text `resptostr` makes. The
file's name is letter by letter, for the code compares its beginning with `files`; a word of
the head is one cell.

### UnityAsserts, UnityMeaning, TestSuite, UnityRun

In `UnityAsserts` an assertion function is an operator that holds or fails with a
report. Integers carry the casts the code makes, at widths of 1, 2, 4 and 8 bytes of
`ByteBits` bits; arrays are bytes in memory, read with the sign extension of the code;
a pointer is the array it points to, or NULL; floats are exact finite numbers up to
FloatMax, two infinities and NaN. A report holds what the printing functions make of
both sides. The `TEST_ASSERT_` macros of `unity.h` and `unity_internals.h` are
operators with the type as a parameter (`Cast`, `StyleOf`, `CastDelta`).

`UnityRun` is `UnityDefaultTestRun` with the statements of the test program: two
`setjmp`s (`AbortFrame` says which one filled the buffer last), `TEST_ABORT` jumping
to it, flags set by the assertions, cleared by `UnityConcludeTest`. A statement is an
assertion, `TEST_FAIL`, `TEST_IGNORE`, `TEST_PASS`, a condition or a message. The
program is a constant family of suites: `setUp`, tests, `tearDown`, each a sequence of
statements.

`TestSuite` has neither flags nor jumps: a test's verdict is that of the first
deciding statement of `setUp` and the test, and `tearDown` can only take away a pass.
What its assertions mean is a parameter; `UnityRun` gives it `UnityMeaning`, which says
for each macro, without casts, masks or differences modulo a power of two, when it
should hold.

## 3. Runs

| run | cfg | what it shows |
|---|---|---|
| server | `ServerService.cfg` | `TypeOK`, `NoLostZombie`, `OwnSocketOnly`, `ReleasedWithChild`, `NoOrphanSocket`, `ParentFds`; it implements the service (`ImplementsService`) and keeps its promises (`KeepsServing`, `ZombiesReaped`, `AllServed`, `PortReleased`) |
| connection | `MCConnection.cfg` | requests arriving whole, harmless clean-up: `TypeOK`, `AnswersMatch`, `InStep`, `GivesUpOnlyOnOversize`, `RequestsAnswered` |
| session | `MCSession.cfg` | any division into reads, pipelining, any clean-up, files and directories, every call of `serve_file`: `ImplementsConnection`, `BodiesComplete`, `ChildEnds` |
| file_response | `MCFileResponse.cfg` | `TypeOK`, `BodyAsAnnounced`, `NeverAhead`, `ServeReturns` |
| header_parser | `MCHeaderParser.cfg` | `TypeOK`, `AcceptsHeaderBlocks`, `OverrunsOnlyOnSize`, `HeadersReadBack`, `LookupRight`, `Stops` |
| unity | `MCUnity.cfg` | `TypeOK`, `ImplementsTestSuite`, `CountsMatchReport`, `OneVerdict`, `TearDownRuns`, `ReportShowsMismatch` |
| persistent, byte_stream, full_buffer, fd_exhaustion, directory_request, unity_arrays | named after them | disagreements with what comments or tests say, section 5 |

**Bounds.**
*server*: four connections, BACKLOG 1 (two queued, one in the parent, one child) reach a
full queue, several zombies behind one signal, and a child exiting in the handler;
each connection is handled the same way and the queue alone relates more than two.
*connection*: BSIZE 20, WORD 3 and PATH 2, and GETs of 12, 17, 19 and 21 bytes, so blocks on
both sides of the buffer's size (one of exactly that size is in full_buffer); besides them
a GET of a directory, another method, a path that `sscanf` cuts to that of a file, and a
line without a version; three requests reuse the buffer twice, with a long request after a
short one and the reverse. FdLimit is not reached in the runs that pass
(MaxRequests <= FdLimit).
*byte_stream*: BSIZE 32 takes a request of another method whose header has the value `GET`
and is followed by another header, cut anywhere.
*session*: BSIZE 13, two requests of a file, a directory or neither, reads of any size, so a
GET cut in its method arrives as another method or as no request at all; Chunk 2 and files of 0 and 3
bytes give empty files, and bodies of two `send`s the client can leave between; one
rewrite per response.
*file_response*: BSIZE 3 and sizes 0..7 give empty files, files below, at and above one
and two chunks; two rewrites.
*header_parser*: every text of up to five cells over CR, LF, SP, colon and a letter,
with and without a request line before it, so every blank line cut at every place;
requests of up to two headers whose names begin one another and whose values hold
colons and spaces; names and values of exactly CAP = 8 cells and of one more; four line ends
for an array of HEADERS = 3; every head `serve_file` can send. The blocks come zeroed, full
of another byte, or with a letter and a NUL behind it where a name's second letter would be,
each block on its own, so `a` can be completed to `ab`.
*unity*: bytes of 2 bits make integers of 2, 4, 8 and 16 bits of those of 8, 16, 32 and
64; arguments are taken around 0 and around the bounds of each width, arrays have two
elements and lengths 0 to 2, with NULL and with one array on both sides. Control
programs have two tests and everything that can decide a test in `setUp`, test and
`tearDown`, so a flag or a frame left over meets the next test. Not among the
programs: arrays of `size_t`, and of narrow unsigned types compared by distance; the
run unity_arrays has them.

**Fairness.** `Server`: weak fairness of `main`, of the handler, and of a child's closing of
the listening socket: the kernel runs every process that can run and delivers
pending signals. No fairness for clients, and none for children exiting: a persistent
connection may last for ever. `Connection`, `Session` and `FileResponse`: weak fairness
of the child; the client may stop at any time, so `RequestsAnswered` allows `closed` and
`ChildEnds` starts from it. A client that keeps the connection and stops reading would
block `send` for ever; the models assume a client that reads or closes.
A child in the loop over a directory is scheduled too, but that one of its `send`s kills it is
owed to nobody, for the loop sends no bytes. `HeaderParser`: weak fairness of the loop. `UnityRun` is a sequential program and needs
none: that deadlock is checked, and `Terminated` is the one state it may stop in, shows
that no program gets stuck.

**Deadlock** is not checked in the other runs: all these systems may stop, e.g. a child
waiting for a client that has nothing to say.

**Restricted runs.** The properties of the connection run (`AnswersMatch`, `InStep`,
`GivesUpOnlyOnOversize`, `RequestsAnswered`) hold only for a client that waits for its answers and
whose requests arrive in one `read`; the last two also need a build with the harmless
clean-up and no request of exactly BSIZE bytes, the first one MaxRequests <= FdLimit. Section 5
shows what happens without. `RequestsAnswered` is about GETs that name no
directory, and `ChildEnds` leaves out the child that is in the loop over one.
`HeadersReadBack` and `LookupRight` are about texts somebody rendered from headers; on other
texts the loop is only asked to stop, to decide rightly and to leave its memory only over
what is too large for it. `LookupRight` is about names shorter than a block.

## 4. Proofs

`ServerProofs`, for every set of connections and every BACKLOG: `TypeOK`,
`NoLostZombie`, `OwnSocketOnly`, `ReleasedWithChild`, `NoOrphanSocket`,
`ParentFds`, each as `Spec => []P`. The properties are not inductive, so the proof
goes through

    IInv == TypeOK /\ ParentHolds /\ ChildHolds /\ Stages /\ NoLostZombie /\ QueueInv

where `ParentHolds` and `ChildHolds` give the exact descriptors of each process at each
point (what a child inherits depends on what the parent holds at `fork`), `Stages` says
that the handler is installed before anything can be forked, and `QueueInv` that
queued connections are distinct and have no child yet, so `fork` never reuses a child's
name. Assumptions: LISTEN and NoConn are not connections, BACKLOG is a natural number.

`ServerServiceProofs`: `ServiceImplemented` is `Spec => ImplementsService`, under the
same assumptions and with the same invariant. Each action gets a step that says which
abstract action it is: `Connect` is `Arrive`, a successful `fork` is `Serve`, a child's exit
or the parent's `close` is `Finish` or `Release` depending on who still has the socket, a
failing call is `Stop`, all others leave the mapped variables alone. `SameStatus` does the
work: a connection's status can only change with its child, its place in line or its
holders.

`FileResponseProofs`, for every BSIZE > 0, every size and any number of resizes:
`TypeOK`, `BodyAsAnnounced` and `NeverAhead`. The inductive invariant relates `pos`,
`sent`, `bytesread` and `announced` at each call, separately for files, directories and
missing paths. It is needed because the equality of `sent` and `announced` at the
end follows from `pos = size` at the end-of-file indicator.

`ConnectionProofs`, for every set of requests, BSIZE, WORD, PATH, FdLimit, MaxRequests and
Leftovers, and for every outcome of the clean-up. `ChildTypes` is `Spec => []TypeOK`, with any
division into reads. The other three are about a client that waits for its answers and whose
requests arrive whole, and go through

    CInv == TypeOK /\ Turns /\ Busy /\ Buffer /\ Reading

`Turns`: the client is at most one request ahead, and the stream is exactly what the
child has not taken of that request. `Busy`: what the child reads, scans or serves is the
request without an answer. `Buffer`: after an answer the buffer is clear, and while a
request is read it starts with the beginning of that request, all of it or as much as there
is room for. `Reading`: only a request read to its end reaches `serve_file`, a well-formed one
as the GET it is, with its own path. The promised answers do not follow from one
another: that the n-th answer is right needs that nothing of request n-1 is left in the
buffer, which needs that the clean-up erased what `bytes_read` counted, which needs
that `bytes_read` counts from the start of the buffer.

- `ClientInStep`: `Orderly /\ Spec => []InStep`.
- `AnswersAreRight`: `Orderly /\ MaxRequests <= FdLimit /\ Spec => []AnswersMatch`.
- `LeavesOnlyOnOversize`:
  `Orderly /\ Undisturbed /\ NoneFills /\ Spec => []GivesUpOnlyOnOversize`.

Every hypothesis is a restriction of the connection run too, and each is needed. `Orderly` is:
the client does not pipeline (of two requests in one `read` the second is erased, so the next
answer is to a later one), and requests arrive whole (byte_stream lifts that and gets a wrong
answer). `MaxRequests <= FdLimit` is what fd_exhaustion lifts, `Undisturbed`, a harmless
clean-up, what persistent does, and `NoneFills`, no request of exactly BSIZE bytes, what
full_buffer does. The assumptions on a request are that it has no NUL and that its first blank line is
its end; its words may be longer than the widths of `sscanf`, and its headers may hold any
word, `GET` included.
The scans choose least indices; `SkipWhiteStops`, `FirstStop` and their kin say
once what they return, and the proofs about the loop use only that.

`SessionProofs`: `SessionImplements` is `SessionSpec => C!Spec`, the safety part of
`ImplementsConnection`: one step of `serve_file` is `Serve` or `ServeKilled` if it ends the
response, `ServeDirectory` or `LoopKilled` if it starts or ends the loop over a directory, and
no step otherwise. `SessionAnswers` carries `AnswersAreRight`, with its hypotheses, over this
refinement to the whole session. `SessionBodies` is `SessionSpec => []BodiesComplete`,
from an instance of `FileResponseProofs` for the response under way, and from
`StartResponse` giving each response new variables.

`HeaderParserProofs`, for every set of texts, BSIZE, CAP and HEADERS, and whatever the blocks held:
`ParserTypes` (`TypeOK`), and `LoopAccepts`, `Spec => []AcceptsHeaderBlocks`, the justification
for `Connection`'s use of the one-line definition. `OverrunsExplained` is
`Spec => []OverrunsOnlyOnSize`: whatever the lines are, a write leaves its memory only if one is
longer than a block or there are more line ends than the array has headers. The invariant says that no cell
behind the cursor ends the text or starts a blank line (`Behind`), that the offset is never in
another line than the cursor (`InLine`), and that `currline` is the number of line ends
passed (`Counted`).
`FieldsReadBack` (`HeadersReadBack`) and `RenderedAccepted` are about texts rendered from
header fields; RenderedAssumption says where their lines, colons and values are. The
invariant `ReadSoFar` says which fields are complete in their blocks and how much of the
current key or value has been written, cell by cell, with the old content of the block
behind it: with `Shape`, one write extends it by one cell. `LookupAsMemoryAllows`
(`LookupRight`) then looks at what a C string comparison makes of such blocks: where the old
bytes end the key at once it is right, and where they do not, the name found is one the key
begins.
`ResponsesRendered` says that the hypothesis has texts to offer: what `resptostr` makes of
*any* response, whose first line and headers have no line ends and whose names have no
colon, is a text that is `Rendered`; `HeadsRendered`, that every head of `serve_file` is
such a response's, whatever file was asked for and however its size is written. Both rest
on `PiecesLie`, which says where each of the pieces that `FlattenSeq` puts one behind the
other is in the whole. So the parser and the formatter of this program agree on all they
share, as long as the text fits its buffer (SourcesAssumption) and the parse stays in its
memory (`OverrunsExplained`).

`UnityAssertsProofs`: each assertion function holds exactly if what `UnityMeaning` says
does, for every value of its arguments and for bytes of 2, 4, 6 or 8 bits.
*Integers*: what a cast gives is the value of its type (`Casts`), and the order or the
distance of two values is that of their casts; `WithinIsNear` is the hardest case:
the test of `UnityAssertNumbersWithin`, a difference modulo 2^64 taken from the larger
in the order of the style, is the distance of the two numbers over the whole range; it
rests on lemmas about remainders (`OwnRemainder`, `Subtraction`).
*Integer arrays*: `Load` reads an element from its bytes as a number of their positional
value (`LoadIs`; for one value written and read again, `RoundTrip`), and equality, as
equality of bytes or of read elements, is that of the elements. *Strings, memory, floats*
and arrays of them: the loops stop at the first difference if there is one.
*What is printed* (`EqualShown` to `StringArrayShown`): of two numbers, bytes or strings that
an assertion tells apart, the printed texts differ. `SameDigits`: two numbers with the same
digits below a weight have the same remainder by it, in base 10 (`UnsignedShown`, with the
sign `IntShown`) and in half bytes (`HexShown`, where the number of digits must be that of
the width). `NumberShown` combines this with `OneSizeFacts`: casts to one width lose
nothing that widening to 64 bits and cutting off again would not. `PrintedIs`: a string
is printed as it is between quotes, or with a backslash.

`UnityRunProofs`, for every test program: `CountersCorrect` (`TypeOK`: counters, flags
and the frame each function runs under) and `TearDownAlwaysRuns` (a test is concluded
only out of its `tearDown`, by return or by jump). `CountsRight` (`CountsMatchReport`) and
`VerdictsOnce` (`OneVerdict`) go through the invariant `Report`, which relates the printed
verdicts to counters *and* flags: while a test is decided but not concluded its line
is already there and only its flag counts it. `VerdictsMeant` (`VerdictsMean`) and
`SuiteImplemented` (`ImplementsTestSuite`) go through `Meaning`, which says of each
place in the program that no statement before it decides, up to `setUp`; their
hypothesis `AssertionsMean` is that the assertions of the program are judged as their names
say. `JudgedAsNamed` shows that of every assertion that is `WellTyped`, and
`WellTypedSuites` puts the two together: a program of such assertions implements
`TestSuite`. Every program of the unity run is one. Not `WellTyped` are the arrays the run unity_arrays shows to be
judged otherwise (of `size_t`, and of unsigned types of less than 64 bits compared by
distance), and arguments outside the type in the name (a `delta` above its range, a NaN
as `delta`).

`FailureShown` and `MismatchShown` (`ReportShowsMismatch`) ask less of the arguments
(`Readable`): numbers of any value, arrays as long as they are read, `size_t` included, strings
that end, bytes; nothing at all of `COMPARE` and `BITS` and the single floats, whose reports are of another
kind. So even where unity_arrays finds an assertion misled, its report is not: it shows
two numbers that differ. The invariant of the run is that the program is one of the family
and its statements are counted from 1 (`InProgram`). Every program of both Unity runs is
such.

Induction over data is not available to the prover as such, but the least-number
principle is (`LeastNumber`, from well-foundedness): the scans, the first deciding
statement, the digits of a number and the recursive functions `Load` and `FlattenSeq` are
treated with it.

Only model-checked: all liveness (fairness and ENABLED are out of TLAPS's reach), so
`RequestsAnswered`, `ChildEnds`, `ServeReturns`, `Stops`, `ZombiesReaped`, `AllServed`,
`PortReleased`, and the liveness half of the two refinements `KeepsServing` and
`ImplementsConnection`; that `UnityRun` does not deadlock; and that the texts of the header_parser run
satisfy its assumptions, which TLC evaluates.

## 5. Where the code and its comments or tests differ

1. **persistent**: `static.c:101` calls the connection persistent. With the Makefile's own
   build the clean-up zeroes the pointer to the buffer and the second request ends
   the child.
2. **byte_stream**: each `read()` is taken for one request ("Read correct amount from
   socket", `static.c:111`), and the bytes of a second `read` overwrite those of the first.
   If TCP cuts a request of another method before a header value `GET` (as in
   `Access-Control-Request-Method: GET`), the rest is parsed as a request of its own,
   with the next header line for its path and version, and answered. Other cuts leave a
   GET without an answer, and a request behind another is erased with the buffer.
3. **full_buffer**: "Headers max size is 4k" (`static.c:101`), but `i < BSIZE-4` in
   `end_of_headers` misses a block of exactly BSIZE bytes, and the child exits.
4. **fd_exhaustion**: files are never closed, so a long connection ends up answering 404 for
   files that exist.
5. **directory_request**: `while (feof(file) == 0)` never ends for a directory, so the
   connection serves nothing after it. In session the child of such a request is the one
   exception to `ChildEnds`.
6. **unity_arrays**: `TEST_ASSERT_UINT8_ARRAY_WITHIN(1, ...)` of 127 and 128 fails: the elements
   are sign-extended and then compared as 64-bit unsigned numbers. The report shows
   127 and 128, because the extension is taken back for printing only. Arrays of
   `size_t` are read as arrays of 4-byte integers.

Items 1 and 5, and a GET that item 2 leaves without an answer, were also seen with the
program built and run by hand.

Of the same kind, without a run of its own: `test.c:8-14` has `GET /` without a version as a
failure; followed by a header line it is accepted (seen by hand too), with `Host:` for the
version, since `%49s` skips line ends. `Words` has this, and the connection run such a request
without a header.

## 6. Not modelled

- Log output (`logger.c`, `log_request`) and the conversions at start-up
  (`listen_address`): no state of the server depends on them.
- `test.c` as a program: it is one of the suites `UnityRun` runs, and was read as the
  reference for the parser.
- Of Unity: doubles and `UnityPrintF`, which this build does not compile; the digits
  `UnityPrintFloat` prints, and rounding; colours, messages, output options, command
  line options. These are wording, or code that is not built.
- What the program does after a header line longer than its 256-byte block, or more than 1000
  headers, has been written outside its memory: that is undefined. `HeaderParser` says when
  it comes to that, and ends there; `Connection` has no such requests.
- Memory that is never freed, TCP below the byte stream, `send` returning short counts.

## 7. Plan

Done: `Server` with `ConnService`; `HttpBytes`, `Connection` and its refinement `Session`;
`FileResponse`, `HeaderParser`, `ResponseHead`; `UnityAsserts`, `UnityRun`, `TestSuite`; of
each of these components every invariant, every action property and the safety part of
the refinements proved.

Left: `System`, `Server` with a `Connection` per child, for the properties that need both
(a connection closed on every path of the child).
