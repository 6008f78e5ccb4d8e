---------------------------- MODULE HeaderParser ----------------------------
(***************************************************************************)
(* parse_headers_only (http.c) as the loop it is: one pass over the        *)
(* request, cell by cell, filling one block of memory per key and per      *)
(* value, and get_header's search in what it built.  Nothing checks that a *)
(* header fits its block, or the headers their array: a write outside ends *)
(* the behaviour in "overrun", for the program has no meaning after it.    *)
(***************************************************************************)
EXTENDS HttpBytes, Sequences, FiniteSetsExt

CONSTANTS
  CAP,      \* cells in a key or value block (256 bytes in the source)
  HEADERS,  \* headers in the array (1000 in the source)
  Memory,   \* what malloc() may leave in the two blocks of a header
  Sources   \* requests to parse: [text, fields, rendered, starts]

ASSUME CapAssumption == CAP \in Nat \ {0} /\ HEADERS \in Nat \ {0}
ASSUME MemoryAssumption ==
  Memory \subseteq [key : [0..(CAP - 1) -> STRING], value : [0..(CAP - 1) -> STRING]]
ASSUME SourcesAssumption == \A s \in Sources : Len(s.text) \in 0..BSIZE

\* In a text that is rendered from fields, starts[n] is where the line of the
\* n-th field begins, and the last of starts is where the blank line does; the
\* value stands behind the colon and the space there may be.
ValueStart(s, n) ==
  LET colon == s.starts[n] + Len(s.fields[n].key)
  IN  IF s.text[colon + 1] = SP THEN colon + 2 ELSE colon + 1

FieldLine(s, n) ==
  LET field == s.fields[n]
      colon == s.starts[n] + Len(field.key)
      end == ValueStart(s, n) + Len(field.value)
  IN  /\ \A k \in 1..Len(field.key) :
           s.text[s.starts[n] + k - 1] = field.key[k] /\ field.key[k] \notin {NUL, CR, LF, COLON}
      /\ s.text[colon] = COLON
      /\ \A k \in 1..Len(field.value) :
           s.text[ValueStart(s, n) + k - 1] = field.value[k] /\ field.value[k] \notin {NUL, CR, LF}
      /\ s.text[end] = CR /\ s.text[end + 1] = LF
      /\ s.starts[n + 1] = end + 2

\* A first line, a line for every field, and the blank line that ends the text.
Rendered(s) ==
  LET blank == s.starts[Len(s.fields) + 1]
  IN  /\ s.fields \in Seq([key : Seq(Range(s.text)), value : Seq(Range(s.text))])
      /\ \A n \in 1..(Len(s.fields) + 1) : s.starts[n] \in 2..Len(s.text)
      /\ \A n \in 1..Len(s.fields) : FieldLine(s, n)
      /\ \A k \in 1..(s.starts[1] - 1) : s.text[k] # NUL
      /\ \A k \in 1..(s.starts[1] - 2) : s.text[k] # LF
      /\ s.text[s.starts[1] - 1] = LF
      /\ s.text[blank] = CR /\ s.text[blank + 1] = LF /\ blank + 1 = Len(s.text)

ASSUME RenderedAssumption ==
  \A s \in Sources : IF s.rendered THEN Rendered(s) ELSE s.fields = <<>>

NULL == 0       \* get_header finds nothing

VARIABLES
  source,       \* the text, and, when it is rendered, the fields it was rendered from and where
  pc,           \* "scan", "done" (returned 0), "failed" (returned -1) or "overrun"
  i, currline, lastOffset, firstColon,
  ar,           \* the headers, each with its key and value block
  malloced,     \* what was in those blocks before the parser wrote (history)
  currPointer,  \* the block being filled, "key" or "value" of the last header
  header_count

line == <<currline, lastOffset, firstColon, currPointer>>
headers == <<ar, malloced>>
vars == <<source, pc, i, line, headers, header_count>>

\* The text as a C string.
request == [k \in 0..BSIZE |-> IF k < Len(source.text) THEN source.text[k + 1] ELSE NUL]

Init ==
  /\ source \in Sources
  /\ pc = "scan" /\ i = 0
  /\ currline = 0 /\ lastOffset = 0 /\ firstColon = FALSE /\ currPointer = "key"
  /\ ar = <<>> /\ malloced = <<>> /\ header_count = 0

At(c) == pc = "scan" /\ request[i] = c

\* Mutant: the request line is taken off the count twice.
Blank_CountedTwice ==
  /\ At(LF) /\ request[i + 1] = CR /\ request[i + 2] = LF
  /\ currline' = currline + 1
  /\ i' = i + 1
  /\ header_count' = currline - 1
  /\ pc' = "done"
  /\ UNCHANGED <<source, lastOffset, firstColon, currPointer, headers>>

\* A line end that the blank line follows: the headers end.
Blank ==
  /\ At(LF) /\ request[i + 1] = CR /\ request[i + 2] = LF
  /\ currline' = currline + 1
  /\ i' = i + 1
  /\ header_count' = currline
  /\ pc' = "done"
  /\ UNCHANGED <<source, lastOffset, firstColon, currPointer, headers>>

\* Any other line end: the next line is a header.
HeaderStarts == At(LF) /\ ~(request[i + 1] = CR /\ request[i + 2] = LF)

\* Its blocks hold whatever was in that memory.
NewHeader ==
  /\ HeaderStarts
  /\ currline < HEADERS
  /\ currline' = currline + 1
  /\ i' = i + 1
  /\ \E old \in Memory : ar' = Append(ar, old) /\ malloced' = Append(malloced, old)
  /\ currPointer' = "key"
  /\ lastOffset' = i'
  /\ firstColon' = FALSE
  /\ UNCHANGED <<source, pc, header_count>>

\* Mutant: `continue` before the i++.
Skip_NotAdvanced ==
  /\ pc = "scan" /\ request[i] \notin {NUL, LF}
  /\ request[i] = CR \/ currline = 0
  /\ UNCHANGED vars

\* The request line and every CR are passed over.  A CR inside a line leaves
\* a cell of the block unwritten.
Skip ==
  /\ pc = "scan" /\ request[i] \notin {NUL, LF}
  /\ request[i] = CR \/ currline = 0
  /\ i' = i + 1
  /\ UNCHANGED <<source, pc, line, headers, header_count>>

\* Mutant: the space after the colon becomes part of the value.
Colon_SpaceKept ==
  /\ At(COLON) /\ currline > 0 /\ ~firstColon
  /\ firstColon' = TRUE
  /\ currPointer' = "value"
  /\ i' = i + 1
  /\ lastOffset' = i'
  /\ UNCHANGED <<source, pc, currline, headers, header_count>>

\* Mutant: the offset is taken behind a space that need not be there.
Colon_OffsetPastSpace ==
  /\ At(COLON) /\ currline > 0 /\ ~firstColon
  /\ firstColon' = TRUE
  /\ currPointer' = "value"
  /\ i' = IF request[i + 1] = SP THEN i + 2 ELSE i + 1
  /\ lastOffset' = i + 2
  /\ UNCHANGED <<source, pc, currline, headers, header_count>>

\* The first colon of a header, with one space after it, starts its value.
Colon ==
  /\ At(COLON) /\ currline > 0 /\ ~firstColon
  /\ firstColon' = TRUE
  /\ currPointer' = "value"
  /\ i' = IF request[i + 1] = SP THEN i + 2 ELSE i + 1
  /\ lastOffset' = i'
  /\ UNCHANGED <<source, pc, currline, headers, header_count>>

\* Any other cell of a header goes into the block.
Writing ==
  /\ pc = "scan" /\ currline > 0
  /\ request[i] \notin {NUL, LF, CR}
  /\ request[i] = COLON => firstColon

Put ==
  /\ Writing
  /\ i - lastOffset \in 0..(CAP - 1)
  /\ ar' = [ar EXCEPT ![currline][currPointer][i - lastOffset] = request[i]]
  /\ i' = i + 1
  /\ UNCHANGED <<source, pc, line, malloced, header_count>>

\* The cell lies outside the block, or the header outside the array.
Overrun ==
  /\ \/ Writing /\ i - lastOffset \notin 0..(CAP - 1)
     \/ HeaderStarts /\ currline >= HEADERS
  /\ pc' = "overrun"
  /\ UNCHANGED <<source, i, line, headers, header_count>>

\* Mutant: the text's end is taken for the headers' end.
TextEnds_Accepts ==
  /\ At(NUL)
  /\ pc' = "done" /\ header_count' = currline
  /\ UNCHANGED <<source, i, line, headers>>

\* The text ends before a blank line.
TextEnds ==
  /\ At(NUL)
  /\ pc' = "failed"
  /\ UNCHANGED <<source, i, line, headers, header_count>>

Next == Blank \/ NewHeader \/ Skip \/ Colon \/ Put \/ Overrun \/ TextEnds

Spec == Init /\ [][Next]_vars
FairSpec == Spec /\ WF_vars(Next)

-----------------------------------------------------------------------------
(* What the blocks hold. *)

\* strcmp() of what a block holds with a string shorter than the block: at
\* the string's end, or before it, the two differ or have both ended, so it
\* never reads behind the block.
Equals(block, string) ==
  /\ Len(string) < CAP
  /\ \A k \in 1..Len(string) : block[k - 1] = string[k]
  /\ block[Len(string)] = NUL

\* Mutant: the search starts at the second header.
get_header_OffByOne(key) ==
  LET found == {n \in 2..header_count : Equals(ar[n].key, key)}
  IN  IF found = {} THEN NULL ELSE Min(found)

\* The first header with this key, as its position.
get_header(key) ==
  LET found == {n \in 1..header_count : Equals(ar[n].key, key)}
  IN  IF found = {} THEN NULL ELSE Min(found)

-----------------------------------------------------------------------------
(* Properties. *)

Stopped == pc \in {"done", "failed", "overrun"}

TypeOK ==
  /\ pc \in {"scan", "done", "failed", "overrun"}
  /\ i \in 0..BSIZE /\ currline \in 0..BSIZE /\ lastOffset \in 0..(BSIZE + 1)
  /\ firstColon \in BOOLEAN /\ currPointer \in {"key", "value"}
  /\ \A n \in DOMAIN ar :
       DOMAIN ar[n].key = 0..(CAP - 1) /\ DOMAIN ar[n].value = 0..(CAP - 1)
  /\ malloced \in Seq(Memory) /\ Len(malloced) = Len(ar)
  /\ header_count \in 0..BSIZE

\* The loop accepts exactly the texts in which some line end is followed by a
\* blank line (http.c:36-74), if it stays in its memory, and it always stops:
\* what handle_conn relies on when it parses a buffer that may hold anything.
AcceptsHeaderBlocks ==
  pc \in {"done", "failed"} => (pc = "done" <=> parse_headers_only(request))
Stops == <>Stopped

\* A write leaves its memory only in a text that has a line longer than a block
\* or more line ends than the array has headers, wherever colons, spaces and
\* stray line ends are (http.c:45-71): the offset restarts with every line and
\* every value.
LongLine == \E b \in 1..Len(source.text) :
              /\ b + CAP <= Len(source.text)
              /\ \A k \in b..(b + CAP) : source.text[k] # LF
LineEnds == {k \in 1..Len(source.text) : source.text[k] = LF}
OverrunsOnlyOnSize == pc = "overrun" => LongLine \/ Cardinality(LineEnds) > HEADERS

\* Does the block hold the string, and behind it what lay there before?
Holds(block, string, old) ==
  /\ Len(string) <= CAP
  /\ \A k \in 1..Len(string) : block[k - 1] = string[k]
  /\ \A k \in Len(string)..(CAP - 1) : block[k] = old[k]

\* Every header of a text rendered from fields is read back: their number,
\* their order, their names, their values, colons and spaces in the values
\* included (http.c:36-77).  It holds of what clients send and of what
\* resptostr writes (http.c:110-128), so the two agree on the format.
HeadersReadBack ==
  pc = "done" /\ source.rendered =>
    /\ header_count = Len(source.fields)
    /\ \A n \in 1..header_count :
         /\ Holds(ar[n].key, source.fields[n].key, malloced[n].key)
         /\ Holds(ar[n].value, source.fields[n].value, malloced[n].value)

\* Nothing ends the key the parser wrote but what lay in the block: a clean
\* block has a NUL right behind the key.
Clean(n) ==
  LET end == Len(source.fields[n].key) IN end < CAP /\ malloced[n].key[end] = NUL

\* y goes on where x ends.
Begins(x, y) == Len(x) <= Len(y) /\ \A j \in 1..Len(x) : y[j] = x[j]

\* get_header passes over no header of that name whose block is clean, and the
\* header it returns has that name, or, in a block that is not clean, a
\* beginning of it that the old bytes completed (http.c:45, 69, 99-108).  In
\* zeroed memory it thus returns the first header of that name, and NULL if
\* there is none, also in a request without headers (http.c:76).
Keys == UNION {{s.fields[n].key : n \in 1..Len(s.fields)} : s \in Sources}
LookupRight ==
  pc = "done" /\ source.rendered =>
    \A key \in {k \in Keys : Len(k) < CAP} :
      LET found == get_header(key)
          name(n) == source.fields[n].key
      IN  /\ found # NULL => Begins(name(found), key)
          /\ found # NULL /\ Clean(found) => name(found) = key
          /\ \A n \in 1..header_count :
               (n < found \/ found = NULL) /\ Clean(n) => name(n) # key
=============================================================================
