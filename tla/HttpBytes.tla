----------------------------- MODULE HttpBytes -----------------------------
(***************************************************************************)
(* What static.c and http.c read in the bytes of a request: where the      *)
(* headers end, the words of the request line, and whether the header      *)
(* lines end in a blank line.                                              *)
(*                                                                         *)
(* A cell of the buffer is one byte.  The buffer d has the cells           *)
(* 0 .. BSIZE-1 of data[], and the cell BSIZE for the memory that follows  *)
(* it, where a scan that meets no NUL runs on.                             *)
(***************************************************************************)
EXTENDS Integers

CONSTANTS
  BSIZE,
  WORD,      \* most cells of a method or a version (49 in the source)
  PATH       \* most cells of a path (2047 in the source)

ASSUME BsizeAssumption == BSIZE \in Nat /\ BSIZE >= 4
ASSUME WidthsAssumption == WORD \in Nat \ {0} /\ PATH \in Nat \ {0}

CR == "CR"
LF == "LF"
SP == "SP"
NUL == "NUL"
COLON == ":"
White == {SP, CR, LF}

\* The index after the first CR LF CR LF, -1 if there is none: the scan starts
\* at 0 and its last start is BSIZE-5 (i < BSIZE-4).
end_of_headers(d) ==
  LET blank(i) == d[i] = CR /\ d[i+1] = LF /\ d[i+2] = CR /\ d[i+3] = LF
      starts == 0..(BSIZE - 5)
  IN  IF \E i \in starts : blank(i)
      THEN 4 + CHOOSE i \in starts : blank(i) /\ \A j \in 0..(i-1) : ~blank(j)
      ELSE -1

\* The first index from p on that is not white space, and the one that ends a
\* word of at most `width` cells.
SkipWhite(d, p) ==
  CHOOSE i \in p..(BSIZE + 1) :
    /\ i <= BSIZE => d[i] \notin White
    /\ \A j \in p..(i-1) : d[j] \in White
WordEnd(d, p, width) ==
  LET ends(i) == i = BSIZE + 1 \/ i = p + width \/ d[i] \in White \union {NUL}
  IN  CHOOSE i \in p..(BSIZE + 1) : ends(i) /\ \A j \in p..(i-1) : ~ends(j)

\* sscanf(request, "%49s %2047s %49s"): each conversion skips white space, line
\* ends included, and takes the cells up to the next white space or NUL, or as
\* many as its width, the rest of such a word being left to the next
\* conversion; one that takes nothing ends the scan.
Words(d) ==
  LET b1 == SkipWhite(d, 0)   e1 == WordEnd(d, b1, WORD)
      b2 == SkipWhite(d, e1)  e2 == WordEnd(d, b2, PATH)
      b3 == SkipWhite(d, e2)  e3 == WordEnd(d, b3, WORD)
      cells(b, e) == [k \in 1..(e - b) |-> d[b + k - 1]]
  IN  <<cells(b1, e1), cells(b2, e2), cells(b3, e3)>>

request_line(d) == \A n \in 1..3 : Words(d)[n] # <<>>

\* parse_headers_only succeeds when it meets a line that is CR LF alone before
\* the string ends.
parse_headers_only(d) ==
  \E i \in 0..(BSIZE - 2) :
    /\ d[i] = LF /\ d[i+1] = CR /\ d[i+2] = LF
    /\ \A j \in 0..i : d[j] # NUL

parse_headers(d) == request_line(d) /\ parse_headers_only(d)
=============================================================================
