-------------------------- MODULE ConnectionProofs --------------------------
(***************************************************************************)
(* What handle_conn promises, for every set of requests, buffer size and   *)
(* number of requests, and however the clean-up of req and resp goes: its  *)
(* types, and for a client that waits for its answers, and whose requests  *)
(* arrive whole, that each answer is that of its own request, that child   *)
(* and client agree on where they are, and that the child leaves only over *)
(* a request that does not fit.                                            *)
(***************************************************************************)
EXTENDS Connection, SequenceTheorems, WellFoundedInduction, TLAPS

Last == asked[Len(asked)]

\* How much of the last request the buffer has taken; while the answer is
\* being cleaned up the client may have sent the next one.
taken == IF pc = "reset" THEN 0 ELSE bytes_read

\* The client is at most one request ahead, and the stream holds what is left
\* of that request.
Turns ==
  /\ Len(responses) <= Len(asked) /\ Len(asked) <= Len(responses) + 1
  /\ Answered => stream = <<>>
  /\ ~Answered =>
       /\ taken + Len(stream) = Len(Render(Last))
       /\ \A i \in 1..Len(stream) : stream[i] = Render(Last)[taken + i]

\* The child is busy with the request that has no answer.
Busy ==
  /\ pc \in {"scan", "serve", "looping"} => ~Answered /\ bytes_read > 0
  /\ pc = "read" /\ bytes_read > 0 => ~Answered

Empty == \A i \in 0..(BSIZE - 1) : data[i] = NUL

\* What has been read is the beginning of the request.
FirstPart == \A i \in 0..BSIZE : i < bytes_read => data[i] = Render(Last)[i + 1]

\* Before the first request the memory may hold anything; a request is read
\* whole, or as much of it as the buffer takes.
Buffer ==
  /\ pc # "exited" /\ bytes_read = 0 => reading_headers /\ (responses # <<>> => Empty)
  /\ pc \notin {"reset", "exited"} /\ bytes_read > 0 =>
       FirstPart /\ (bytes_read = BSIZE \/ stream = <<>>)

\* Only a GET is on its way to serve_file, read to its end.
Reading ==
  /\ pc \in {"read", "scan"} /\ ~reading_headers => ~IsGet(req)
  /\ pc = "serve" =>
       /\ stream = <<>>
       /\ WellFormed(Last) => Last.method = GET /\ req.path = Last.path

CInv == TypeOK /\ Turns /\ Busy /\ Buffer /\ Reading

\* At most one file is left open for each answer, and the answers are right.
AInv ==
  /\ CInv /\ AnswersMatch
  /\ pc \notin {"looping", "exited"} => open_files <= Len(responses)
-----------------------------------------------------------------------------
(* The scans. *)

\* A non-empty set of natural numbers has a least one.
LEMMA LeastNumber ==
  ASSUME NEW T, T \subseteq Nat, T # {}
  PROVE  \E m \in T : \A k \in T : m <= k
<1> DEFINE R == {ss \in Nat \X Nat : ss[1] < ss[2]}
<1>1. IsWellFoundedOn(R, Nat)
  BY NatLessThanWellFounded DEF OpToRel
<1>2. PICK m \in T : \A k \in T : ~(<<k, m>> \in R)
  <2> HIDE DEF R
  <2>1. QED
    BY <1>1, WFMin
<1>3. \A k \in T : ~(k < m)
  BY <1>2
<1>4. QED
  BY <1>2, <1>3

\* A scan from lo that must stop at hi stops at the first cell of S.
LEMMA FirstStop ==
  ASSUME NEW S, NEW lo \in Nat, NEW hi \in Nat, lo <= hi, hi \in S
  PROVE  \E i \in lo..hi : i \in S /\ \A j \in lo..(i - 1) : j \notin S
<1> DEFINE T == {i \in lo..hi : i \in S}
<1>1. T \subseteq Nat /\ hi \in T
  OBVIOUS
<1>2. PICK m \in T : \A k \in T : m <= k
  BY <1>1, LeastNumber
<1>3. \A j \in lo..(m - 1) : j \in T => FALSE
  BY <1>1, <1>2
<1>4. QED
  BY <1>2, <1>3

LEMMA SkipWhiteStops ==
  ASSUME NEW d, NEW p \in 0..(BSIZE + 1)
  PROVE  /\ SkipWhite(d, p) \in p..(BSIZE + 1)
         /\ SkipWhite(d, p) <= BSIZE => d[SkipWhite(d, p)] \notin White
<1> DEFINE S == {i \in Nat : i <= BSIZE => d[i] \notin White}
           Stop(i) == /\ i <= BSIZE => d[i] \notin White
                      /\ \A j \in p..(i-1) : d[j] \in White
<1>1. BSIZE + 1 \in S /\ BSIZE + 1 \in Nat /\ p \in Nat /\ p <= BSIZE + 1
  BY BsizeAssumption
<1>2. PICK i \in p..(BSIZE + 1) : i \in S /\ \A j \in p..(i - 1) : j \notin S
  <2> HIDE DEF S
  <2>1. QED
    BY <1>1, FirstStop
<1>3. Stop(i)
  BY <1>2, BsizeAssumption
<1>4. SkipWhite(d, p) = CHOOSE k \in p..(BSIZE + 1) : Stop(k)
  BY DEF SkipWhite
<1>5. QED
  <2> HIDE DEF Stop
  <2>1. SkipWhite(d, p) \in p..(BSIZE + 1) /\ Stop(SkipWhite(d, p))
    BY <1>3, <1>4
  <2>2. QED
    BY <2>1 DEF Stop

LEMMA WordEndStops ==
  ASSUME NEW d, NEW p \in 0..(BSIZE + 1), NEW width \in Nat
  PROVE  WordEnd(d, p, width) \in p..(BSIZE + 1)
<1> DEFINE ends(i) == i = BSIZE + 1 \/ i = p + width \/ d[i] \in White \union {NUL}
           S == {i \in Nat : ends(i)}
<1>1. BSIZE + 1 \in S /\ BSIZE + 1 \in Nat /\ p \in Nat /\ p <= BSIZE + 1
  BY BsizeAssumption
<1>2. PICK i \in p..(BSIZE + 1) : i \in S /\ \A j \in p..(i - 1) : j \notin S
  <2> HIDE DEF S
  <2>1. QED
    BY <1>1, FirstStop
<1>3. \A j \in p..(i - 1) : j \in Nat
  BY <1>1
<1>4. ends(i) /\ \A j \in p..(i - 1) : ~ends(j)
  <2> HIDE DEF ends
  <2>1. QED
    BY <1>2, <1>3
<1>5. WordEnd(d, p, width)
        = CHOOSE k \in p..(BSIZE + 1) : ends(k) /\ \A j \in p..(k - 1) : ~ends(j)
  BY DEF WordEnd
<1>6. QED
  <2> HIDE DEF ends
  <2>1. QED
    BY <1>4, <1>5

\* The words sscanf finds are pieces of the buffer.
Piece(d, w) ==
  \E b, e \in 0..(BSIZE + 1) : b <= e /\ w = [k \in 1..(e - b) |-> d[b + k - 1]]

LEMMA WordsArePieces ==
  ASSUME NEW d
  PROVE  \A n \in 1..3 : Piece(d, Words(d)[n])
<1> DEFINE b1 == SkipWhite(d, 0)   e1 == WordEnd(d, b1, WORD)
           b2 == SkipWhite(d, e1)  e2 == WordEnd(d, b2, PATH)
           b3 == SkipWhite(d, e2)  e3 == WordEnd(d, b3, WORD)
<1>1. b1 \in 0..(BSIZE + 1)
  BY SkipWhiteStops, BsizeAssumption
<1>2. e1 \in 0..(BSIZE + 1) /\ b1 <= e1
  BY <1>1, WordEndStops, BsizeAssumption, WidthsAssumption
<1>3. b2 \in 0..(BSIZE + 1)
  BY <1>2, SkipWhiteStops, BsizeAssumption
<1>4. e2 \in 0..(BSIZE + 1) /\ b2 <= e2
  BY <1>3, WordEndStops, BsizeAssumption, WidthsAssumption
<1>5. b3 \in 0..(BSIZE + 1)
  BY <1>4, SkipWhiteStops, BsizeAssumption
<1>6. e3 \in 0..(BSIZE + 1) /\ b3 <= e3
  BY <1>5, WordEndStops, BsizeAssumption, WidthsAssumption
<1> DEFINE cells(b, e) == [k \in 1..(e - b) |-> d[b + k - 1]]
<1>7. Words(d) = <<cells(b1, e1), cells(b2, e2), cells(b3, e3)>>
  BY DEF Words
<1> HIDE DEF b1, e1, b2, e2, b3, e3
<1>8. \A b, e \in 0..(BSIZE + 1) : b <= e => Piece(d, cells(b, e))
  BY DEF Piece
<1> HIDE DEF cells
<1>9. Words(d)[1] = cells(b1, e1) /\ Words(d)[2] = cells(b2, e2) /\ Words(d)[3] = cells(b3, e3)
  BY <1>7
<1>10. QED
  BY <1>1, <1>2, <1>3, <1>4, <1>5, <1>6, <1>8, <1>9

\* A word is a sequence of the buffer's cells.
LEMMA PieceType ==
  ASSUME NEW S, NEW d \in [0..BSIZE -> S], NEW w, Piece(d, w)
  PROVE  w \in Seq(S)
<1>1. PICK b, e \in 0..(BSIZE + 1) : b <= e /\ w = [k \in 1..(e - b) |-> d[b + k - 1]]
  BY DEF Piece
<1>2. \A k \in 1..(e - b) : b + k - 1 \in 0..BSIZE
  BY <1>1, BsizeAssumption
<1>3. e - b \in Nat /\ w = [k \in 1..(e - b) |-> d[b + k - 1]]
  BY <1>1, BsizeAssumption
<1>4. w \in [1..(e - b) -> S]
  BY <1>2, <1>3
<1>5. QED
  BY <1>3, <1>4, SeqDef

-----------------------------------------------------------------------------
(* What a request is made of. *)

Joined(u, s, t) ==
  /\ Len(u) = Len(s) + Len(t)
  /\ \A i \in 1..Len(s) : u[i] = s[i]
  /\ \A i \in 1..Len(t) : u[Len(s) + i] = t[i]

LEMMA Concat ==
  ASSUME NEW S, NEW s \in Seq(S), NEW t \in Seq(S)
  PROVE  s \o t \in Seq(S) /\ Len(s) \in Nat /\ Len(t) \in Nat /\ Joined(s \o t, s, t)
<1>1. Len(s) \in Nat /\ Len(t) \in Nat
  BY LenProperties
<1>2. /\ s \o t \in Seq(S) /\ Len(s \o t) = Len(s) + Len(t)
      /\ \A i \in 1..(Len(s) + Len(t)) : (s \o t)[i] = IF i <= Len(s) THEN s[i] ELSE t[i - Len(s)]
  BY ConcatProperties
<1>3. \A i \in 1..Len(s) : (s \o t)[i] = s[i]
  BY <1>1, <1>2
<1>4. \A i \in 1..Len(t) : (s \o t)[Len(s) + i] = t[i]
  <2>1. TAKE i \in 1..Len(t)
  <2>2. Len(s) + i \in 1..(Len(s) + Len(t)) /\ ~(Len(s) + i <= Len(s)) /\ Len(s) + i - Len(s) = i
    BY <1>1
  <2>3. QED
    BY <1>2, <2>2
<1>5. QED
  BY <1>1, <1>2, <1>3, <1>4 DEF Joined

LEMMA RenderFacts ==
  ASSUME NEW r \in Requests
  PROVE  /\ Render(r) \in Seq(Cells)
         /\ Len(Render(r)) \in Nat /\ Len(Render(r)) >= 5
         /\ \A i \in 1..Len(Render(r)) : Render(r)[i] # NUL
<1> DEFINE S == STRING \union {CR, LF, SP}
           nl == <<CR, LF>>
           tail == IF r.version = <<>> THEN <<>> ELSE <<SP>> \o r.version
           R == Render(r)
<1>1. nl \in Seq(S) /\ Len(nl) = 2 /\ <<SP>> \in Seq(S) /\ Len(<<SP>>) = 1
  OBVIOUS
<1>2. r.method \in Seq(S) /\ r.path \in Seq(S) /\ r.version \in Seq(S) /\ r.headers \in Seq(S)
  <2>1. /\ r.method \in Seq(STRING) /\ r.path \in Seq(STRING)
        /\ r.version \in Seq(STRING) /\ r.headers \in Seq(STRING)
    BY RequestsAssumption
  <2>2. STRING \subseteq S
    OBVIOUS
  <2>3. Seq(STRING) \subseteq Seq(S)
    BY <2>2, SeqMonotonic
  <2>4. QED
    BY <2>1, <2>3
<1>3. tail \in Seq(S)
  BY <1>1, <1>2, EmptySeq, Concat
<1>4. R = (((((r.method \o <<SP>>) \o r.path) \o tail) \o nl) \o r.headers) \o nl
  BY DEF Render, Line
<1>5. \A i \in 1..Len(R) : R[i] # NUL
  BY RequestsAssumption
<1>6. \A i \in DOMAIN R : R[i] \in Cells
  <2>1. \A i \in DOMAIN R : R[i] \in Range(R)
    BY DEF Range
  <2>2. Range(R) \in {Range(Render(q)) : q \in Requests}
    OBVIOUS
  <2>3. QED
    BY <2>1, <2>2 DEF Cells
<1> DEFINE l1 == r.method \o <<SP>>
           l2 == l1 \o r.path
           l3 == l2 \o tail
           l4 == l3 \o nl
           l5 == l4 \o r.headers
<1>7. R = l5 \o nl
  BY <1>4
<1> HIDE DEF S, nl, tail, R
<1>8. l1 \in Seq(S) /\ Len(l1) \in Nat /\ Len(l1) >= 1
  <2>1. l1 \in Seq(S) /\ Len(r.method) \in Nat /\ Len(l1) = Len(r.method) + 1
    BY <1>1, <1>2, Concat DEF Joined
  <2>2. QED
    BY <2>1
<1> HIDE DEF l1
<1>9. l2 \in Seq(S) /\ Len(l2) \in Nat /\ Len(l2) >= 1
  <2>1. l2 \in Seq(S) /\ Len(r.path) \in Nat /\ Len(l2) = Len(l1) + Len(r.path)
    BY <1>2, <1>8, Concat DEF Joined
  <2>2. QED
    BY <1>8, <2>1
<1> HIDE DEF l2
<1>10. l3 \in Seq(S) /\ Len(l3) \in Nat /\ Len(l3) >= 1
  <2>1. l3 \in Seq(S) /\ Len(tail) \in Nat /\ Len(l3) = Len(l2) + Len(tail)
    BY <1>3, <1>9, Concat DEF Joined
  <2>2. QED
    BY <1>9, <2>1
<1> HIDE DEF l3
<1>11. l4 \in Seq(S) /\ Len(l4) \in Nat /\ Len(l4) >= 3
  <2>1. l4 \in Seq(S) /\ Len(l4) = Len(l3) + Len(nl)
    BY <1>1, <1>10, Concat DEF Joined
  <2>2. QED
    BY <1>1, <1>10, <2>1
<1> HIDE DEF l4
<1>12. l5 \in Seq(S) /\ Len(l5) \in Nat /\ Len(l5) >= 3
  <2>1. l5 \in Seq(S) /\ Len(r.headers) \in Nat /\ Len(l5) = Len(l4) + Len(r.headers)
    BY <1>2, <1>11, Concat DEF Joined
  <2>2. QED
    BY <1>11, <2>1
<1> HIDE DEF l5
<1>13. R \in Seq(S) /\ Len(R) \in Nat /\ Len(R) >= 5
  <2>1. R \in Seq(S) /\ Len(R) = Len(l5) + Len(nl)
    BY <1>1, <1>7, <1>12, Concat DEF Joined
  <2>2. QED
    BY <1>1, <1>12, <2>1
<1>14. R \in Seq(Cells)
  <2>1. R \in [1..Len(R) -> S]
    BY <1>13, LenProperties
  <2>2. DOMAIN R = 1..Len(R)
    BY <2>1
  <2>3. R \in [1..Len(R) -> Cells]
    BY <1>6, <2>1, <2>2
  <2>4. \A n \in Nat : [1..n -> Cells] \subseteq Seq(Cells)
    BY SeqDef
  <2>5. QED
    BY <1>13, <2>3, <2>4
<1>15. QED
  BY <1>5, <1>13, <1>14 DEF R

\* Where the three words of a request line stand, of m, p and v cells.
LineAt(s, r, m, p, v) ==
  /\ Len(s) >= m + p + v + 6
  /\ \A i \in 1..m : s[i] = r.method[i]
  /\ s[m + 1] = SP
  /\ \A i \in 1..p : s[m + 1 + i] = r.path[i]
  /\ s[m + p + 2] = SP
  /\ \A i \in 1..v : s[m + p + 2 + i] = r.version[i]
  /\ s[m + p + v + 3] = CR

LEMMA LineFacts ==
  ASSUME NEW r \in Requests, WellFormed(r)
  PROVE  LineAt(Render(r), r, Len(r.method), Len(r.path), Len(r.version))
<1> DEFINE S == STRING \union {CR, LF, SP}
           nl == <<CR, LF>>
           sp == <<SP>>
           R == Render(r)
           m == Len(r.method)   p == Len(r.path)   v == Len(r.version)
<1>1. nl \in Seq(S) /\ Len(nl) = 2 /\ nl[1] = CR /\ sp \in Seq(S) /\ Len(sp) = 1 /\ sp[1] = SP
  OBVIOUS
<1>2. r.method \in Seq(S) /\ r.path \in Seq(S) /\ r.version \in Seq(S) /\ r.headers \in Seq(S)
  <2>1. /\ r.method \in Seq(STRING) /\ r.path \in Seq(STRING)
        /\ r.version \in Seq(STRING) /\ r.headers \in Seq(STRING)
    BY RequestsAssumption
  <2>2. STRING \subseteq S
    OBVIOUS
  <2>3. Seq(STRING) \subseteq Seq(S)
    BY <2>2, SeqMonotonic
  <2>4. QED
    BY <2>1, <2>3
<1>3. m \in 1..WORD /\ p \in 1..PATH /\ v \in 1..WORD /\ r.version # <<>>
  <2>1. m \in 1..WORD /\ p \in 1..PATH /\ v \in 1..WORD
    BY DEF WellFormed, IsWord
  <2>2. Len(<<>>) = 0
    OBVIOUS
  <2>3. v # 0
    BY <2>1, WidthsAssumption
  <2>4. QED
    BY <2>1, <2>2, <2>3
<1>4. m \in Nat /\ p \in Nat /\ v \in Nat /\ m >= 1 /\ p >= 1 /\ v >= 1
  BY <1>3, WidthsAssumption
<1> DEFINE l1 == r.method \o sp
           l2 == l1 \o r.path
           t == sp \o r.version
           l3 == l2 \o t
           l4 == l3 \o nl
           l5 == l4 \o r.headers
<1>5. R = l5 \o nl
  BY <1>3 DEF Render, Line
<1> HIDE DEF S, nl, sp, R, m, p, v
<1>6. /\ l1 \in Seq(S) /\ Len(l1) = m + 1
      /\ \A i \in 1..m : l1[i] = r.method[i]
      /\ l1[m + 1] = SP
  <2>0. l1 \in Seq(S) /\ Joined(l1, r.method, sp)
    BY <1>1, <1>2, Concat
  <2>1. /\ l1 \in Seq(S) /\ Len(l1) = m + Len(sp)
        /\ \A i \in 1..m : l1[i] = r.method[i]
        /\ \A i \in 1..Len(sp) : l1[m + i] = sp[i]
    BY <2>0 DEF Joined, m
  <2>2. 1 \in 1..Len(sp)
    BY <1>1
  <2>3. QED
    BY <1>1, <2>1, <2>2
<1> HIDE DEF l1
<1>7. /\ l2 \in Seq(S) /\ Len(l2) = m + 1 + p
      /\ \A i \in 1..(m + 1) : l2[i] = l1[i]
      /\ \A i \in 1..p : l2[m + 1 + i] = r.path[i]
  <2>0. l2 \in Seq(S) /\ Joined(l2, l1, r.path)
    BY <1>2, <1>6, Concat
  <2>1. /\ l2 \in Seq(S) /\ Len(l2) = Len(l1) + p
        /\ \A i \in 1..Len(l1) : l2[i] = l1[i]
        /\ \A i \in 1..p : l2[Len(l1) + i] = r.path[i]
    BY <2>0 DEF Joined, p
  <2>2. QED
    BY <1>6, <2>1
<1> HIDE DEF l2
<1>8. /\ t \in Seq(S) /\ Len(t) = 1 + v /\ t[1] = SP
      /\ \A i \in 1..v : t[1 + i] = r.version[i]
  <2>0. t \in Seq(S) /\ Joined(t, sp, r.version)
    BY <1>1, <1>2, Concat
  <2>1. /\ t \in Seq(S) /\ Len(t) = Len(sp) + v
        /\ \A i \in 1..Len(sp) : t[i] = sp[i]
        /\ \A i \in 1..v : t[Len(sp) + i] = r.version[i]
    BY <2>0 DEF Joined, v
  <2>2. 1 \in 1..Len(sp)
    BY <1>1
  <2>3. QED
    BY <1>1, <2>1, <2>2
<1> HIDE DEF t
<1>9. /\ l3 \in Seq(S) /\ Len(l3) = m + p + v + 2
      /\ \A i \in 1..(m + 1 + p) : l3[i] = l2[i]
      /\ l3[m + p + 2] = SP
      /\ \A i \in 1..v : l3[m + p + 2 + i] = r.version[i]
  <2>0. l3 \in Seq(S) /\ Joined(l3, l2, t)
    BY <1>7, <1>8, Concat
  <2>1. /\ l3 \in Seq(S) /\ Len(l3) = Len(l2) + Len(t)
        /\ \A i \in 1..Len(l2) : l3[i] = l2[i]
        /\ \A i \in 1..Len(t) : l3[Len(l2) + i] = t[i]
    BY <2>0 DEF Joined
  <2>2. Len(l3) = m + p + v + 2
    BY <1>4, <1>7, <1>8, <2>1
  <2>3. l3[m + p + 2] = SP
    <3>1. 1 \in 1..Len(t) /\ Len(l2) + 1 = m + p + 2
      BY <1>4, <1>7, <1>8
    <3>2. QED
      BY <1>8, <2>1, <3>1
  <2>4. \A i \in 1..v : l3[m + p + 2 + i] = r.version[i]
    <3>1. TAKE i \in 1..v
    <3>2. 1 + i \in 1..Len(t) /\ Len(l2) + (1 + i) = m + p + 2 + i
      BY <1>4, <1>7, <1>8
    <3>3. QED
      BY <1>8, <2>1, <3>2
  <2>5. QED
    BY <1>7, <2>1, <2>2, <2>3, <2>4
<1> HIDE DEF l3
<1>10. /\ l4 \in Seq(S) /\ Len(l4) = m + p + v + 4
       /\ \A i \in 1..(m + p + v + 2) : l4[i] = l3[i]
       /\ l4[m + p + v + 3] = CR
  <2>0. l4 \in Seq(S) /\ Joined(l4, l3, nl)
    BY <1>1, <1>9, Concat
  <2>1. /\ l4 \in Seq(S) /\ Len(l4) = Len(l3) + Len(nl)
        /\ \A i \in 1..Len(l3) : l4[i] = l3[i]
        /\ \A i \in 1..Len(nl) : l4[Len(l3) + i] = nl[i]
    BY <2>0 DEF Joined
  <2>2. Len(l4) = m + p + v + 4
    BY <1>1, <1>4, <1>9, <2>1
  <2>3. 1 \in 1..Len(nl) /\ Len(l3) + 1 = m + p + v + 3
    BY <1>1, <1>4, <1>9
  <2>4. QED
    BY <1>1, <1>9, <2>1, <2>2, <2>3
<1> HIDE DEF l4
<1>11. /\ l5 \in Seq(S) /\ Len(l5) \in Nat /\ Len(l5) >= m + p + v + 4
       /\ \A i \in 1..(m + p + v + 4) : l5[i] = l4[i]
  <2>0. l5 \in Seq(S) /\ Len(r.headers) \in Nat /\ Joined(l5, l4, r.headers)
    BY <1>2, <1>10, Concat
  <2>1. Len(l5) = Len(l4) + Len(r.headers) /\ \A i \in 1..Len(l4) : l5[i] = l4[i]
    BY <2>0 DEF Joined
  <2>2. l5 \in Seq(S) /\ Len(l5) \in Nat /\ Len(l5) >= m + p + v + 4
    BY <1>4, <1>10, <2>0, <2>1
  <2>3. QED
    BY <1>10, <2>1, <2>2
<1> HIDE DEF l5
<1>12. /\ Len(R) >= m + p + v + 6
       /\ \A i \in 1..(m + p + v + 4) : R[i] = l5[i]
  <2>0. Joined(R, l5, nl)
    BY <1>1, <1>5, <1>11, Concat
  <2>1. Len(R) = Len(l5) + Len(nl) /\ \A i \in 1..Len(l5) : R[i] = l5[i]
    BY <2>0 DEF Joined
  <2>2. \A i \in 1..(m + p + v + 4) : i \in 1..Len(l5)
    BY <1>4, <1>11
  <2>3. Len(R) >= m + p + v + 6
    BY <1>1, <1>4, <1>11, <2>1
  <2>4. QED
    BY <2>1, <2>2, <2>3
<1>13. \A i \in 1..(m + p + v + 2) : R[i] = l3[i]
  <2>1. \A i \in 1..(m + p + v + 2) : i \in 1..(m + p + v + 4)
    BY <1>4
  <2>2. QED
    BY <1>10, <1>11, <1>12, <2>1
<1>14. \A i \in 1..(m + 1 + p) : R[i] = l2[i]
  <2>1. \A i \in 1..(m + 1 + p) : i \in 1..(m + p + v + 2)
    BY <1>4
  <2>2. QED
    BY <1>9, <1>13, <2>1
<1>15. \A i \in 1..(m + 1) : R[i] = l1[i]
  <2>1. \A i \in 1..(m + 1) : i \in 1..(m + 1 + p)
    BY <1>4
  <2>2. QED
    BY <1>7, <1>14, <2>1
<1>16. (\A i \in 1..m : R[i] = r.method[i]) /\ R[m + 1] = SP
  <2>1. (\A i \in 1..m : i \in 1..(m + 1)) /\ m + 1 \in 1..(m + 1)
    BY <1>4
  <2>2. QED
    BY <1>6, <1>15, <2>1
<1>17. \A i \in 1..p : R[m + 1 + i] = r.path[i]
  <2>1. \A i \in 1..p : m + 1 + i \in 1..(m + 1 + p)
    BY <1>4
  <2>2. QED
    BY <1>7, <1>14, <2>1
<1>18. R[m + p + 2] = SP /\ \A i \in 1..v : R[m + p + 2 + i] = r.version[i]
  <2>1. m + p + 2 \in 1..(m + p + v + 2) /\ \A i \in 1..v : m + p + 2 + i \in 1..(m + p + v + 2)
    BY <1>4
  <2>2. QED
    BY <1>9, <1>13, <2>1
<1>19. R[m + p + v + 3] = CR
  <2>1. m + p + v + 3 \in 1..(m + p + v + 4)
    BY <1>4
  <2>2. QED
    BY <1>10, <1>11, <1>12, <2>1
<1>20. QED
  BY <1>12, <1>16, <1>17, <1>18, <1>19 DEF R, m, p, v, LineAt

LEMMA MinOfTwo ==
  ASSUME NEW a \in Nat, NEW b \in Nat
  PROVE  Min({a, b}) = IF a <= b THEN a ELSE b
BY DEF Min

\* What a read() takes: from 1 to as many cells as there are and fit.
LEMMA ReadTakes ==
  ASSUME TypeOK, Read
  PROVE  \E n \in Nat :
           /\ 1 <= n /\ n <= room /\ n <= Len(stream)
           /\ ~Split => n = room \/ n = Len(stream)
           /\ data' = [i \in 0..BSIZE |-> IF i < n THEN stream[i + 1] ELSE data[i]]
           /\ bytes_read' = bytes_read + n
           /\ stream' = SubSeq(stream, n + 1, Len(stream))
<1>1. room \in Nat /\ room > 0 /\ Len(stream) \in Nat /\ Len(stream) > 0
  <2>1. stream \in Seq(Cells) /\ stream # <<>> /\ room > 0 /\ bytes_read \in 0..BSIZE
    BY DEF Read, TypeOK
  <2>2. QED
    BY <2>1, EmptySeq, LenProperties, BsizeAssumption DEF room
<1> DEFINE most == Min({room, Len(stream)})
<1>2. most \in Nat /\ 1 <= most /\ most <= room /\ most <= Len(stream)
      /\ (most = room \/ most = Len(stream))
  BY <1>1, MinOfTwo
<1>3. PICK n \in IF Split THEN 1..most ELSE {most} :
           /\ data' = [i \in 0..BSIZE |-> IF i < n THEN stream[i + 1] ELSE data[i]]
           /\ bytes_read' = bytes_read + n
           /\ stream' = SubSeq(stream, n + 1, Len(stream))
  BY DEF Read
<1> HIDE DEF most
<1>4. n \in Nat /\ 1 <= n /\ n <= most /\ (~Split => n = most)
  BY <1>2, <1>3, TcpAssumption
<1>5. 1 <= n /\ n <= room /\ n <= Len(stream) /\ (~Split => n = room \/ n = Len(stream))
  BY <1>1, <1>2, <1>4
<1>6. QED
  BY <1>3, <1>4, <1>5
-----------------------------------------------------------------------------
(* Types. *)

LEMMA InitTypes == Init => TypeOK
<1> SUFFICES ASSUME Init PROVE TypeOK
  OBVIOUS
<1>1. data \in Leftovers /\ data \in [0..BSIZE -> STRING]
  BY LeftoversAssumption DEF Init
<1>2. data \in [0..BSIZE -> Cells]
  <2>1. Range(data) \in {Range(old) : old \in Leftovers}
    BY <1>1
  <2>2. \A i \in 0..BSIZE : data[i] \in Range(data)
    BY <1>1 DEF Range
  <2>3. Range(data) \subseteq UNION {Range(old) : old \in Leftovers}
    BY <2>1
  <2>4. UNION {Range(old) : old \in Leftovers} \subseteq Cells
    <3> DEFINE sent == UNION {Range(Render(r)) : r \in Requests}
               left == UNION {Range(old) : old \in Leftovers}
    <3>1. Cells = {NUL} \union sent \union left
      BY DEF Cells
    <3> HIDE DEF sent, left
    <3>2. left \subseteq Cells
      BY <3>1
    <3>3. QED
      BY <3>2 DEF left
  <2>5. QED
    BY <1>1, <2>2, <2>3, <2>4
<1>3. asked = <<>> /\ stream = <<>> /\ responses = <<>> /\ req = [method |-> <<>>, path |-> <<>>]
  BY DEF Init, NoRequest
<1>4. asked \in Seq(Requests) /\ Len(asked) = 0
  BY <1>3, EmptySeq
<1>5. stream \in Seq(Cells) /\ responses \in Seq([path : Seq(Cells), status : {200, 404}])
  BY <1>3, EmptySeq
<1>6. req \in [method : Seq(Cells), path : Seq(Cells)]
  BY <1>3, EmptySeq
<1>7. closed \in BOOLEAN /\ buffer_ok \in BOOLEAN /\ reading_headers \in BOOLEAN
  BY DEF Init
<1>8. bytes_read \in 0..BSIZE /\ open_files \in 0..FdLimit
  BY BsizeAssumption, LimitsAssumption DEF Init
<1>9. pc = "read"
  BY DEF Init
<1>10. QED
  BY <1>2, <1>4, <1>5, <1>6, <1>7, <1>8, <1>9, LimitsAssumption DEF TypeOK

\* The words sscanf finds in the buffer are sequences of its cells.
LEMMA WordType ==
  ASSUME TypeOK
  PROVE  Words(data)[1] \in Seq(Cells) /\ Words(data)[2] \in Seq(Cells)
<1>1. data \in [0..BSIZE -> Cells]
  BY DEF TypeOK
<1>2. Piece(data, Words(data)[1]) /\ Piece(data, Words(data)[2])
  BY WordsArePieces
<1>3. QED
  BY <1>1, <1>2, PieceType

LEMMA NextTypes == TypeOK /\ [Next]_vars => TypeOK'
<1> SUFFICES ASSUME TypeOK, [Next]_vars PROVE TypeOK'
  OBVIOUS
<1>1. CASE Send
  <2>1. PICK r \in Requests : asked' = Append(asked, r) /\ stream' = stream \o Render(r)
    BY <1>1 DEF Send
  <2>2. asked \in Seq(Requests) /\ stream \in Seq(Cells) /\ Render(r) \in Seq(Cells)
    BY RenderFacts DEF TypeOK
  <2>3. asked' \in Seq(Requests) /\ Len(asked') = Len(asked) + 1
    BY <2>1, <2>2, AppendProperties
  <2>4. Len(asked) \in Nat /\ Len(asked) < MaxRequests
    BY <1>1, <2>2, LenProperties DEF Send
  <2>5. Len(asked') <= MaxRequests
    BY <2>3, <2>4, LimitsAssumption
  <2>6. stream' \in Seq(Cells)
    BY <2>1, <2>2, ConcatProperties
  <2>7. QED
    BY <1>1, <2>3, <2>5, <2>6 DEF Send, TypeOK, local
<1>2. CASE Close
  BY <1>2 DEF Close, TypeOK, local
<1>3. CASE Read
  <2>1. PICK n \in Nat :
           /\ 1 <= n /\ n <= room /\ n <= Len(stream)
           /\ data' = [i \in 0..BSIZE |-> IF i < n THEN stream[i + 1] ELSE data[i]]
           /\ bytes_read' = bytes_read + n
           /\ stream' = SubSeq(stream, n + 1, Len(stream))
    BY <1>3, ReadTakes
  <2>2. stream \in Seq(Cells) /\ data \in [0..BSIZE -> Cells] /\ bytes_read \in 0..BSIZE
    BY DEF TypeOK
  <2>3. Len(stream) \in Nat /\ \A i \in 1..Len(stream) : stream[i] \in Cells
    BY <2>2, LenProperties, ElementOfSeq
  <2>4. data' \in [0..BSIZE -> Cells]
    <3>1. \A i \in 0..BSIZE : i < n => i + 1 \in 1..Len(stream)
      BY <2>1, <2>3, BsizeAssumption
    <3>2. QED
      BY <2>1, <2>2, <2>3, <3>1
  <2>5. bytes_read' \in 0..BSIZE
    BY <2>1, <2>2, BsizeAssumption DEF room
  <2>6. stream' \in Seq(Cells)
    <3>1. n + 1 \in Int /\ Len(stream) \in Int /\ \A i \in (n + 1)..Len(stream) : stream[i] \in Cells
      BY <2>3
    <3>2. QED
      BY <2>1, <3>1, SubSeqProperties
  <2>7. QED
    BY <1>3, <2>4, <2>5, <2>6 DEF Read, TypeOK, client
<1>4. CASE ReadEnds \/ ServeKilled \/ LoopKilled
  BY <1>4 DEF ReadEnds, ServeKilled, LoopKilled, Exit, TypeOK, client, local
<1>5. CASE Scan
  <2>1. req' \in [method : Seq(Cells), path : Seq(Cells)]
    BY <1>5, WordType DEF Scan, TypeOK
  <2>2. pc' \in {"read", "serve", "exited"} /\ reading_headers' \in BOOLEAN
    BY <1>5 DEF Scan, TypeOK
  <2>3. UNCHANGED <<client, stream, data, buffer_ok, bytes_read, open_files, responses>>
    BY <1>5 DEF Scan
  <2>4. QED
    BY <2>1, <2>2, <2>3 DEF TypeOK, client
<1>6. CASE Serve
  <2>1. PICK found \in BOOLEAN :
           /\ found => open_files < FdLimit
           /\ responses' = Append(responses, [path |-> req.path,
                                              status |-> IF found THEN 200 ELSE 404])
           /\ open_files' = IF found THEN open_files + 1 ELSE open_files
    <3>1. Openable(req.path, Files) \in BOOLEAN /\ (Openable(req.path, Files) => open_files < FdLimit)
      BY DEF Openable
    <3>2. QED
      BY <1>6, <3>1 DEF Serve
  <2>2. [path |-> req.path, status |-> IF found THEN 200 ELSE 404]
          \in [path : Seq(Cells), status : {200, 404}]
    BY DEF TypeOK
  <2>3. responses' \in Seq([path : Seq(Cells), status : {200, 404}])
    BY <2>1, <2>2, AppendProperties DEF TypeOK
  <2>4. open_files' \in 0..FdLimit
    BY <2>1, LimitsAssumption DEF TypeOK
  <2>5. QED
    BY <1>6, <2>3, <2>4 DEF Serve, TypeOK, client
<1>7. CASE Reset
  <2>1. NUL \in Cells
    BY DEF Cells
  <2>2. data' \in [0..BSIZE -> Cells]
    BY <1>7, <2>1 DEF Reset, CleanBuffer, TypeOK
  <2>3. req' \in [method : Seq(Cells), path : Seq(Cells)]
    BY <1>7, EmptySeq DEF Reset, CleanRequest, NoRequest
  <2>4. bytes_read' \in 0..BSIZE /\ reading_headers' \in BOOLEAN
    BY <1>7, BsizeAssumption DEF Reset, CleanRequest, CleanFlag, CleanCount
  <2>5. PICK outcome \in ResetOutcomes :
           /\ buffer_ok' = (outcome # "pointer")
           /\ pc' = IF outcome = "killed" THEN "exited" ELSE "read"
    BY <1>7 DEF Reset
  <2>6. buffer_ok' \in BOOLEAN
    BY <2>5
  <2>7. pc' \in {"read", "exited"}
    BY <2>5
  <2>8. QED
    BY <1>7, <2>2, <2>3, <2>4, <2>6, <2>7 DEF Reset, TypeOK, client
<1>8. CASE ServeDirectory
  <2>1. open_files' \in 0..FdLimit
    BY <1>8, LimitsAssumption DEF ServeDirectory, Openable, TypeOK
  <2>2. QED
    BY <1>8, <2>1 DEF ServeDirectory, TypeOK, client
<1>9. CASE UNCHANGED vars
  BY <1>9 DEF TypeOK, vars, client, local
<1>10. QED
  BY <1>1, <1>2, <1>3, <1>4, <1>5, <1>6, <1>7, <1>8, <1>9 DEF Next, Child

\* Whatever its clients send, however it arrives and whatever the clean-up hits,
\* the child stays within its buffer, its descriptors and its states.
THEOREM ChildTypes == Spec => []TypeOK
<1>1. QED
  BY InitTypes, NextTypes, PTL DEF Spec
-----------------------------------------------------------------------------
(* What the scans find. *)

LEMMA SkipWhiteIs ==
  ASSUME NEW d, NEW p \in 0..(BSIZE + 1), NEW q \in p..(BSIZE + 1),
         q <= BSIZE => d[q] \notin White, \A j \in p..(q - 1) : d[j] \in White
  PROVE  SkipWhite(d, p) = q
<1> DEFINE Stop(i) == /\ i <= BSIZE => d[i] \notin White
                      /\ \A j \in p..(i-1) : d[j] \in White
<1>1. Stop(q)
  OBVIOUS
<1>2. \A k \in p..(BSIZE + 1) : Stop(k) => k = q
  <2>1. TAKE k \in p..(BSIZE + 1)
  <2>2. k < q => k \in p..(q - 1) /\ k <= BSIZE
    BY BsizeAssumption
  <2>3. q < k => q \in p..(k - 1) /\ q <= BSIZE
    BY BsizeAssumption
  <2>4. Stop(k) => ~(k < q) /\ ~(q < k)
    BY <2>2, <2>3
  <2>5. QED
    BY <2>4, BsizeAssumption
<1>3. SkipWhite(d, p) = CHOOSE k \in p..(BSIZE + 1) : Stop(k)
  BY DEF SkipWhite
<1> HIDE DEF Stop
<1>4. QED
  BY <1>1, <1>2, <1>3

LEMMA WordEndIs ==
  ASSUME NEW d, NEW p \in 0..(BSIZE + 1), NEW q \in p..(BSIZE + 1), NEW width \in Nat,
         q <= p + width, q = BSIZE + 1 \/ q = p + width \/ d[q] \in White \union {NUL},
         \A j \in p..(q - 1) : d[j] \notin White \union {NUL}
  PROVE  WordEnd(d, p, width) = q
<1> DEFINE ends(i) == i = BSIZE + 1 \/ i = p + width \/ d[i] \in White \union {NUL}
           Stop(i) == ends(i) /\ \A j \in p..(i - 1) : ~ends(j)
<1>1. Stop(q)
  <2>1. \A j \in p..(q - 1) : j # BSIZE + 1 /\ j # p + width
    BY BsizeAssumption
  <2>2. QED
    BY <2>1
<1>2. \A k \in p..(BSIZE + 1) : Stop(k) => k = q
  <2>1. TAKE k \in p..(BSIZE + 1)
  <2>2. k < q => k \in p..(q - 1)
    BY BsizeAssumption
  <2>3. q < k => q \in p..(k - 1)
    BY BsizeAssumption
  <2> HIDE DEF ends
  <2>4. Stop(k) => ~(k < q) /\ ~(q < k)
    BY <1>1, <2>2, <2>3
  <2>5. QED
    BY <2>4, BsizeAssumption
<1>3. WordEnd(d, p, width) = CHOOSE k \in p..(BSIZE + 1) : Stop(k)
  BY DEF WordEnd
<1> HIDE DEF Stop
<1>4. QED
  BY <1>1, <1>2, <1>3

\* sscanf reads a method, a path and a version of m, p and v cells.
LEMMA LineWords ==
  ASSUME NEW d, NEW m \in Nat, NEW p \in Nat, NEW v \in Nat,
         m \in 1..WORD, p \in 1..PATH, v \in 1..WORD, m + p + v + 2 <= BSIZE,
         \A j \in 0..(m - 1) : d[j] \notin White \union {NUL},
         \A j \in (m + 1)..(m + p) : d[j] \notin White \union {NUL},
         \A j \in (m + p + 2)..(m + p + v + 1) : d[j] \notin White \union {NUL},
         d[m] = SP, d[m + p + 1] = SP, d[m + p + v + 2] = CR
  PROVE  Words(d) = <<[k \in 1..m |-> d[k - 1]], [k \in 1..p |-> d[m + k]],
                      [k \in 1..v |-> d[m + p + 1 + k]]>>
<1>1. SP \in White /\ CR \in White
  BY DEF White
<1>2. WORD \in Nat /\ PATH \in Nat /\ BSIZE \in Nat
  BY WidthsAssumption, BsizeAssumption
<1>3. /\ 0 \in 0..(BSIZE + 1) /\ m \in 0..(BSIZE + 1)
      /\ m + 1 \in m..(BSIZE + 1) /\ m + 1 \in 0..(BSIZE + 1)
      /\ m + p + 1 \in (m + 1)..(BSIZE + 1) /\ m + p + 1 \in 0..(BSIZE + 1)
      /\ m + p + 2 \in (m + p + 1)..(BSIZE + 1) /\ m + p + 2 \in 0..(BSIZE + 1)
      /\ m + p + v + 2 \in (m + p + 2)..(BSIZE + 1)
  BY <1>2
<1>4. SkipWhite(d, 0) = 0
  <2>1. 0 \in 0..(m - 1) /\ \A j \in 0..(0 - 1) : d[j] \in White
    OBVIOUS
  <2>2. QED
    BY <1>3, <2>1, SkipWhiteIs
<1>5. WordEnd(d, 0, WORD) = m
  <2>1. m \in 0..(BSIZE + 1) /\ m <= 0 + WORD /\ d[m] \in White \union {NUL}
    BY <1>1, <1>2, <1>3
  <2>2. QED
    BY <1>2, <1>3, <2>1, WordEndIs
<1>6. SkipWhite(d, m) = m + 1
  <2>1. m + 1 \in (m + 1)..(m + p) /\ \A j \in m..((m + 1) - 1) : j = m
    OBVIOUS
  <2>2. d[m + 1] \notin White /\ \A j \in m..((m + 1) - 1) : d[j] \in White
    BY <1>1, <2>1
  <2>3. QED
    BY <1>3, <2>2, SkipWhiteIs
<1>7. WordEnd(d, m + 1, PATH) = m + p + 1
  <2>1. m + p + 1 <= (m + 1) + PATH /\ d[m + p + 1] \in White \union {NUL}
    BY <1>1, <1>2
  <2>2. \A j \in (m + 1)..((m + p + 1) - 1) : j \in (m + 1)..(m + p)
    OBVIOUS
  <2>3. \A j \in (m + 1)..((m + p + 1) - 1) : d[j] \notin White \union {NUL}
    BY <2>2
  <2>4. QED
    BY <1>2, <1>3, <2>1, <2>3, WordEndIs
<1>8. SkipWhite(d, m + p + 1) = m + p + 2
  <2>1. /\ m + p + 2 \in (m + p + 2)..(m + p + v + 1)
        /\ \A j \in (m + p + 1)..((m + p + 2) - 1) : j = m + p + 1
    OBVIOUS
  <2>2. /\ d[m + p + 2] \notin White
        /\ \A j \in (m + p + 1)..((m + p + 2) - 1) : d[j] \in White
    BY <1>1, <2>1
  <2>3. QED
    BY <1>3, <2>2, SkipWhiteIs
<1>9. WordEnd(d, m + p + 2, WORD) = m + p + v + 2
  <2>1. m + p + v + 2 <= (m + p + 2) + WORD /\ d[m + p + v + 2] \in White \union {NUL}
    BY <1>1, <1>2
  <2>2. \A j \in (m + p + 2)..((m + p + v + 2) - 1) : j \in (m + p + 2)..(m + p + v + 1)
    OBVIOUS
  <2>3. \A j \in (m + p + 2)..((m + p + v + 2) - 1) : d[j] \notin White \union {NUL}
    BY <2>2
  <2>4. QED
    BY <1>2, <1>3, <2>1, <2>3, WordEndIs
<1> DEFINE cells(b, e) == [k \in 1..(e - b) |-> d[b + k - 1]]
<1>10. Words(d) = <<cells(0, m), cells(m + 1, m + p + 1), cells(m + p + 2, m + p + v + 2)>>
  BY <1>4, <1>5, <1>6, <1>7, <1>8, <1>9 DEF Words
<1>11. cells(0, m) = [k \in 1..m |-> d[k - 1]]
  <2>1. m - 0 = m /\ \A k \in 1..m : 0 + k - 1 = k - 1
    OBVIOUS
  <2>2. QED
    BY <2>1
<1>12. cells(m + 1, m + p + 1) = [k \in 1..p |-> d[m + k]]
  <2>1. (m + p + 1) - (m + 1) = p /\ \A k \in 1..p : (m + 1) + k - 1 = m + k
    OBVIOUS
  <2>2. QED
    BY <2>1
<1>13. cells(m + p + 2, m + p + v + 2) = [k \in 1..v |-> d[m + p + 1 + k]]
  <2>1. /\ (m + p + v + 2) - (m + p + 2) = v
        /\ \A k \in 1..v : (m + p + 2) + k - 1 = m + p + 1 + k
    OBVIOUS
  <2>2. QED
    BY <2>1
<1> HIDE DEF cells
<1>14. QED
  BY <1>10, <1>11, <1>12, <1>13

\* The scan finds a blank line when there is one that starts early enough.
LEMMA BlankFound ==
  ASSUME NEW d
  PROVE  end_of_headers(d) # -1 <=>
           \E i \in 0..(BSIZE - 5) : d[i] = CR /\ d[i+1] = LF /\ d[i+2] = CR /\ d[i+3] = LF
<1> DEFINE blank(i) == d[i] = CR /\ d[i+1] = LF /\ d[i+2] = CR /\ d[i+3] = LF
           starts == 0..(BSIZE - 5)
           first == CHOOSE i \in starts : blank(i) /\ \A j \in 0..(i-1) : ~blank(j)
<1>1. end_of_headers(d) = IF \E i \in starts : blank(i) THEN 4 + first ELSE -1
  BY DEF end_of_headers
<1>2. ASSUME \E i \in starts : blank(i)
      PROVE  first \in starts
  <2> HIDE DEF blank
  <2> DEFINE T == {i \in starts : blank(i)}
  <2>1. T \subseteq Nat /\ T # {}
    BY <1>2, BsizeAssumption
  <2>2. PICK m \in T : \A k \in T : m <= k
    <3> HIDE DEF T
    <3>1. QED
      BY <2>1, LeastNumber
  <2>3. m \in starts /\ blank(m)
    BY <2>2
  <2>4. \A j \in 0..(m-1) : ~blank(j)
    BY <2>2, <2>3, BsizeAssumption
  <2>5. QED
    BY <2>3, <2>4
<1>3. first \in starts => 4 + first # -1
  BY BsizeAssumption
<1> HIDE DEF first, blank, starts
<1>4. end_of_headers(d) # -1 <=> \E i \in starts : blank(i)
  BY <1>1, <1>2, <1>3
<1>5. QED
  BY <1>4 DEF blank, starts
-----------------------------------------------------------------------------
(* The buffer and the request. *)

LEMMA LastIsRequest ==
  ASSUME TypeOK, Turns, ~Answered
  PROVE  /\ Len(asked) \in Nat /\ Len(responses) \in Nat /\ Len(stream) \in Nat
         /\ Len(asked) = Len(responses) + 1
         /\ Last \in Requests
<1>1. Len(asked) \in Nat /\ Len(responses) \in Nat /\ Len(stream) \in Nat
  BY LenProperties DEF TypeOK
<1>2. Len(asked) = Len(responses) + 1
  BY <1>1 DEF Turns, Answered
<1>3. Len(asked) \in 1..Len(asked) /\ asked \in Seq(Requests)
  BY <1>1, <1>2 DEF TypeOK
<1>4. QED
  BY <1>1, <1>2, <1>3, ElementOfSeq DEF Last

\* A blank line found in a buffer that took as much of a request as it could is
\* the request's end: all of it has been read.
LEMMA BlankIsEnd ==
  ASSUME TypeOK, Turns, ~Answered, pc = "scan", FirstPart, end_of_headers(data) # -1,
         bytes_read = BSIZE \/ stream = <<>>
  PROVE  bytes_read = Len(Render(Last)) /\ stream = <<>> /\ bytes_read < BSIZE
<1> DEFINE R == Render(Last)
<1>1. PICK i \in 0..(BSIZE - 5) :
        data[i] = CR /\ data[i+1] = LF /\ data[i+2] = CR /\ data[i+3] = LF
  BY BlankFound
<1>2. Last \in Requests /\ Len(stream) \in Nat /\ bytes_read \in Nat
  BY LastIsRequest, BsizeAssumption DEF TypeOK
<1>3. Len(R) \in Nat /\ Len(R) >= 5
  BY <1>2, RenderFacts
<1>4. bytes_read + Len(stream) = Len(R)
  BY DEF Turns, taken
<1> HIDE DEF R
<1>5. ASSUME i + 3 < bytes_read
      PROVE  i + 1 = Len(R) - 3
  <2>1. BlankLine(R, i + 1)
    <3>1. /\ i \in 0..BSIZE /\ i + 1 \in 0..BSIZE /\ i + 2 \in 0..BSIZE /\ i + 3 \in 0..BSIZE
          /\ i < bytes_read /\ i + 1 < bytes_read /\ i + 2 < bytes_read
          /\ (i + 1) + 1 = i + 2 /\ (i + 1) + 2 = i + 3 /\ (i + 2) + 1 = i + 3
          /\ (i + 1) + 3 = i + 4 /\ (i + 3) + 1 = i + 4
      BY <1>2, <1>5, BsizeAssumption
    <3>2. R[i + 1] = data[i] /\ R[i + 2] = data[i + 1] /\ R[i + 3] = data[i + 2]
          /\ R[i + 4] = data[i + 3]
      BY <1>5, <3>1 DEF FirstPart, R
    <3>3. QED
      BY <1>1, <3>1, <3>2 DEF BlankLine
  <2>2. i + 1 \in 1..(Len(R) - 3)
    BY <1>2, <1>3, <1>4, <1>5, BsizeAssumption
  <2>3. QED
    BY <1>2, <2>1, <2>2, RequestsAssumption DEF R
<1>6. bytes_read # BSIZE
  <2>1. SUFFICES ASSUME bytes_read = BSIZE PROVE FALSE
    OBVIOUS
  <2>2. i + 3 < bytes_read /\ BSIZE <= Len(R) /\ i + 4 < BSIZE
    BY <1>2, <1>3, <1>4, <2>1, BsizeAssumption
  <2>3. QED
    BY <1>3, <1>5, <2>2, BsizeAssumption
<1>7. stream = <<>> /\ bytes_read < BSIZE
  BY <1>6, BsizeAssumption DEF TypeOK
<1>8. bytes_read = Len(R)
  BY <1>2, <1>3, <1>4, <1>7, EmptySeq
<1>9. QED
  BY <1>7, <1>8 DEF R

\* The method and path of a well formed request that has been read are those
\* the words of the buffer give.
LEMMA BufferWords ==
  ASSUME TypeOK, Turns, ~Answered, FirstPart, bytes_read = Len(Render(Last)), WellFormed(Last)
  PROVE  Words(data)[1] = Last.method /\ Words(data)[2] = Last.path /\ request_line(data)
<1> DEFINE R == Render(Last)
           m == Len(Last.method)   p == Len(Last.path)   v == Len(Last.version)
<1>1. Last \in Requests
  BY LastIsRequest
<1>2. LineAt(R, Last, m, p, v)
  BY <1>1, LineFacts
<1>3. /\ Last.method \in [1..m -> STRING] /\ Last.path \in [1..p -> STRING]
      /\ Last.version \in [1..v -> STRING]
  <2>1. Last.method \in Seq(STRING) /\ Last.path \in Seq(STRING) /\ Last.version \in Seq(STRING)
    BY <1>1, RequestsAssumption
  <2>2. QED
    BY <2>1, LenProperties
<1>4. /\ m \in 1..WORD /\ p \in 1..PATH /\ v \in 1..WORD
      /\ \A k \in 1..m : Last.method[k] \notin White
      /\ \A k \in 1..p : Last.path[k] \notin White
      /\ \A k \in 1..v : Last.version[k] \notin White
  BY DEF WellFormed, IsWord
<1>5. Len(R) \in Nat /\ \A k \in 1..Len(R) : R[k] # NUL
  BY <1>1, RenderFacts
<1>6. Len(R) = bytes_read /\ Len(R) <= BSIZE
  BY BsizeAssumption DEF TypeOK
<1> HIDE DEF R, m, p, v
<1>7. /\ Len(R) >= m + p + v + 6
      /\ \A k \in 1..m : R[k] = Last.method[k]
      /\ R[m + 1] = SP
      /\ \A k \in 1..p : R[m + 1 + k] = Last.path[k]
      /\ R[m + p + 2] = SP
      /\ \A k \in 1..v : R[m + p + 2 + k] = Last.version[k]
      /\ R[m + p + v + 3] = CR
  BY <1>2 DEF LineAt
<1>8. m \in Nat /\ p \in Nat /\ v \in Nat /\ BSIZE \in Nat /\ m >= 1 /\ p >= 1 /\ v >= 1
  BY <1>4, WidthsAssumption, BsizeAssumption
<1>9. \A j \in 0..(m + p + v + 2) : j \in 0..BSIZE /\ j < bytes_read /\ j + 1 \in 1..Len(R)
  <2>1. m + p + v + 2 < Len(R) /\ m + p + v + 2 \in Nat
    <3>1. Len(R) \in Nat /\ Len(R) >= m + p + v + 6
      BY <1>5, <1>7
    <3>2. QED
      BY <1>8, <3>1
  <2>2. \A j \in 0..(m + p + v + 2) : j < Len(R) /\ j \in Nat
    BY <1>5, <2>1
  <2>3. \A j \in 0..(m + p + v + 2) : j \in 0..BSIZE /\ j + 1 \in 1..Len(R)
    BY <1>5, <1>6, <1>8, <2>2
  <2>4. QED
    BY <1>6, <2>2, <2>3
<1>10. \A j \in 0..(m + p + v + 2) : data[j] = R[j + 1] /\ data[j] # NUL
  BY <1>5, <1>9 DEF FirstPart, R
<1>11. \A k \in 1..m : data[k - 1] = Last.method[k] /\ data[k - 1] # NUL
  <2>1. TAKE k \in 1..m
  <2>2. k - 1 \in 0..(m + p + v + 2) /\ (k - 1) + 1 = k
    BY <1>8
  <2>3. QED
    BY <1>7, <1>10, <2>2
<1>12. \A k \in 1..p : data[m + k] = Last.path[k] /\ data[m + k] # NUL
  <2>1. TAKE k \in 1..p
  <2>2. m + k \in 0..(m + p + v + 2) /\ (m + k) + 1 = m + 1 + k
    BY <1>8
  <2>3. QED
    BY <1>7, <1>10, <2>2
<1>13. \A k \in 1..v : data[m + p + 1 + k] = Last.version[k] /\ data[m + p + 1 + k] # NUL
  <2>1. TAKE k \in 1..v
  <2>2. m + p + 1 + k \in 0..(m + p + v + 2) /\ (m + p + 1 + k) + 1 = m + p + 2 + k
    BY <1>8
  <2>3. QED
    BY <1>7, <1>10, <2>2
<1>14. data[m] = SP /\ data[m + p + 1] = SP /\ data[m + p + v + 2] = CR
  <2>1. /\ m \in 0..(m + p + v + 2) /\ m + p + 1 \in 0..(m + p + v + 2)
        /\ m + p + v + 2 \in 0..(m + p + v + 2)
        /\ (m + p + 1) + 1 = m + p + 2 /\ (m + p + v + 2) + 1 = m + p + v + 3
    BY <1>8
  <2>2. QED
    BY <1>7, <1>10, <2>1
<1>15. /\ \A j \in 0..(m - 1) : data[j] \notin White \union {NUL}
       /\ \A j \in (m + 1)..(m + p) : data[j] \notin White \union {NUL}
       /\ \A j \in (m + p + 2)..(m + p + v + 1) : data[j] \notin White \union {NUL}
  <2>1. \A j \in 0..(m - 1) : j + 1 \in 1..m /\ (j + 1) - 1 = j
    BY <1>8
  <2>2. \A j \in (m + 1)..(m + p) : j - m \in 1..p /\ m + (j - m) = j
    BY <1>8
  <2>3. \A j \in (m + p + 2)..(m + p + v + 1) :
          j - (m + p + 1) \in 1..v /\ m + p + 1 + (j - (m + p + 1)) = j
    BY <1>8
  <2>4. \A j \in 0..(m - 1) : data[j] \notin White \union {NUL}
    BY <1>4, <1>11, <2>1
  <2>5. \A j \in (m + 1)..(m + p) : data[j] \notin White \union {NUL}
    BY <1>4, <1>12, <2>2
  <2>6. \A j \in (m + p + 2)..(m + p + v + 1) : data[j] \notin White \union {NUL}
    BY <1>4, <1>13, <2>3
  <2>7. QED
    BY <2>4, <2>5, <2>6
<1>16. Words(data) = <<[k \in 1..m |-> data[k - 1]], [k \in 1..p |-> data[m + k]],
                       [k \in 1..v |-> data[m + p + 1 + k]]>>
  <2>1. m + p + v + 2 <= BSIZE
    BY <1>6, <1>7, <1>8
  <2>2. QED
    BY <1>4, <1>8, <1>14, <1>15, <2>1, LineWords
<1>17. /\ [k \in 1..m |-> data[k - 1]] = Last.method
       /\ [k \in 1..p |-> data[m + k]] = Last.path
       /\ [k \in 1..v |-> data[m + p + 1 + k]] = Last.version
  BY <1>3, <1>11, <1>12, <1>13
<1>18. Words(data) = <<Last.method, Last.path, Last.version>>
  BY <1>16, <1>17
<1>19. Last.method # <<>> /\ Last.path # <<>> /\ Last.version # <<>>
  <2>1. m # 0 /\ p # 0 /\ v # 0 /\ Len(<<>>) = 0
    BY <1>8
  <2>2. QED
    BY <2>1 DEF m, p, v
<1>20. request_line(data)
  <2>1. Words(data)[1] # <<>> /\ Words(data)[2] # <<>> /\ Words(data)[3] # <<>>
    BY <1>18, <1>19
  <2>2. \A n \in 1..3 : n = 1 \/ n = 2 \/ n = 3
    OBVIOUS
  <2>3. QED
    BY <2>1, <2>2 DEF request_line
<1>21. QED
  BY <1>18, <1>20
-----------------------------------------------------------------------------
(* The invariant. *)

\* The client waits for its answers, and its requests arrive whole.
Orderly == ~Pipelined /\ ~Split

LEMMA InitCInv == Init => CInv
<1> SUFFICES ASSUME Init PROVE CInv
  OBVIOUS
<1>1. TypeOK
  BY InitTypes
<1>2. /\ pc = "read" /\ bytes_read = 0 /\ reading_headers = TRUE /\ open_files = 0
      /\ asked = <<>> /\ stream = <<>> /\ responses = <<>>
      /\ Len(asked) = 0 /\ Len(responses) = 0
  BY EmptySeq DEF Init
<1>3. Turns
  BY <1>2 DEF Turns, Answered
<1>4. Busy
  BY <1>2 DEF Busy
<1>5. Buffer
  BY <1>2 DEF Buffer
<1>6. Reading
  BY <1>2 DEF Reading
<1>7. QED
  BY <1>1, <1>3, <1>4, <1>5, <1>6 DEF CInv

\* A request is sent into an empty stream, to a child that has nothing of an
\* earlier one left.
LEMMA SendStep == Orderly /\ CInv /\ TypeOK' /\ Send => CInv'
<1> SUFFICES ASSUME Orderly, CInv, TypeOK', Send PROVE CInv'
  OBVIOUS
<1>1. PICK r \in Requests : asked' = Append(asked, r) /\ stream' = stream \o Render(r)
  BY DEF Send
<1>2. Answered /\ UNCHANGED <<closed, pc, local, responses>> /\ pc # "exited"
  BY DEF Send, Orderly
<1>3. Len(asked) \in Nat /\ Len(responses) \in Nat /\ Len(responses) = Len(asked) /\ stream = <<>>
  <2>1. Len(asked) \in Nat /\ Len(responses) \in Nat
    BY LenProperties DEF CInv, TypeOK
  <2>2. QED
    BY <1>2, <2>1 DEF CInv, Turns, Answered
<1>4. Len(asked') = Len(asked) + 1 /\ asked'[Len(asked')] = r
  BY <1>1, AppendProperties DEF CInv, TypeOK
<1>5. stream' = Render(r) /\ Len(Render(r)) \in Nat
  BY <1>1, <1>3, RenderFacts, ConcatEmptySeq
<1>6. pc \in {"read", "reset"} /\ (pc = "read" => bytes_read = 0)
  BY <1>2 DEF CInv, Busy, TypeOK, Answered
<1>7. taken' = 0 /\ Last' = r /\ ~Answered'
  BY <1>2, <1>3, <1>4, <1>6 DEF taken, Last, Answered, local, CInv, TypeOK
<1>8. Turns'
  <2>1. \A i \in 1..Len(stream') : stream'[i] = Render(r)[0 + i]
    BY <1>5
  <2>2. 0 + Len(stream') = Len(Render(r))
    BY <1>5
  <2>3. Len(responses') <= Len(asked') /\ Len(asked') <= Len(responses') + 1
    BY <1>2, <1>3, <1>4
  <2>4. Render(Last)' = Render(r) /\ taken' = 0
    BY <1>7 DEF Render
  <2>5. QED
    BY <1>7, <2>1, <2>2, <2>3, <2>4 DEF Turns
<1>9. Busy'
  BY <1>2, <1>6, <1>7 DEF Busy, local
<1>10. Buffer'
  BY <1>2, <1>6 DEF CInv, Buffer, local, Empty
<1>11. Reading'
  BY <1>2, <1>6 DEF CInv, Reading, local, IsGet
<1>12. QED
  BY <1>8, <1>9, <1>10, <1>11 DEF CInv

\* A read() gets the whole request, or as much of it as the buffer takes.
LEMMA ReadStep == Orderly /\ CInv /\ TypeOK' /\ Read => CInv'
<1> SUFFICES ASSUME Orderly, CInv, TypeOK', Read PROVE CInv'
  OBVIOUS
<1> DEFINE R == Render(Last)
<1>1. PICK n \in Nat :
        /\ 1 <= n /\ n <= room /\ n <= Len(stream)
        /\ ~Split => n = room \/ n = Len(stream)
        /\ data' = [i \in 0..BSIZE |-> IF i < n THEN stream[i + 1] ELSE data[i]]
        /\ bytes_read' = bytes_read + n
        /\ stream' = SubSeq(stream, n + 1, Len(stream))
  BY ReadTakes DEF CInv
<1>2. /\ pc = "read" /\ pc' = "scan" /\ stream # <<>> /\ room > 0
      /\ UNCHANGED <<client, buffer_ok, reading_headers, req, open_files, responses>>
  BY DEF Read
<1>3. TypeOK /\ Turns /\ Busy /\ Buffer /\ Reading
  BY DEF CInv
<1>4. ~Answered
  BY <1>2, <1>3 DEF Turns
<1>5. /\ Len(asked) \in Nat /\ Len(responses) \in Nat /\ Len(stream) \in Nat
      /\ Len(asked) = Len(responses) + 1 /\ Last \in Requests
  BY <1>3, <1>4, LastIsRequest
<1>6. bytes_read \in 0..BSIZE /\ stream \in Seq(Cells) /\ data \in [0..BSIZE -> Cells]
  BY <1>3 DEF TypeOK
<1>7. /\ bytes_read + Len(stream) = Len(R)
      /\ \A i \in 1..Len(stream) : stream[i] = R[bytes_read + i]
  BY <1>2, <1>3, <1>4 DEF Turns, taken
<1>8. bytes_read = 0
  <2>1. SUFFICES ASSUME bytes_read > 0 PROVE FALSE
    BY <1>6, BsizeAssumption
  <2>2. bytes_read = BSIZE
    BY <1>2, <1>3, <2>1 DEF Buffer
  <2>3. QED
    BY <1>2, <2>2, BsizeAssumption DEF room
<1>9. Last' = Last /\ R' = R /\ ~Answered' /\ taken' = bytes_read + n
  BY <1>1, <1>2, <1>4 DEF client, Last, Answered, taken, Render
<1> HIDE DEF R
<1>10. /\ stream' \in Seq(Cells) /\ Len(stream') = Len(stream) - n
       /\ \A i \in 1..Len(stream') : stream'[i] = stream[n + i]
  <2>1. \A i \in (n + 1)..Len(stream) : i \in 1..Len(stream)
    BY <1>1, <1>5
  <2>2. \A i \in (n + 1)..Len(stream) : stream[i] \in Cells
    BY <1>6, <2>1, ElementOfSeq
  <2>3. /\ stream' \in Seq(Cells)
        /\ Len(stream') = IF n + 1 <= Len(stream) THEN Len(stream) - (n + 1) + 1 ELSE 0
        /\ \A i \in 1..(Len(stream) - (n + 1) + 1) : stream'[i] = stream[(n + 1) + i - 1]
    <3>1. n + 1 \in Int /\ Len(stream) \in Int
      BY <1>5
    <3>2. QED
      BY <1>1, <2>2, <3>1, SubSeqProperties
  <2>4. Len(stream') = Len(stream) - n
    BY <1>1, <1>5, <2>3
  <2>5. \A i \in 1..Len(stream') : stream'[i] = stream[n + i]
    <3>1. TAKE i \in 1..Len(stream')
    <3>2. i \in 1..(Len(stream) - (n + 1) + 1) /\ (n + 1) + i - 1 = n + i
      BY <1>5, <2>4
    <3>3. QED
      BY <2>3, <3>2
  <2>6. QED
    BY <2>3, <2>4, <2>5
<1>11. Turns'
  <2> DEFINE l == Len(stream)   b == bytes_read
  <2>0. n \in Nat /\ b \in Nat /\ l \in Nat /\ n <= l /\ Len(stream') = l - n /\ b + l = Len(R)
    BY <1>1, <1>5, <1>6, <1>7, <1>10, BsizeAssumption
  <2> HIDE DEF l, b
  <2>1. (b + n) + Len(stream') = Len(R)
    BY <2>0
  <2>2. \A i \in 1..Len(stream') : stream'[i] = R[(b + n) + i]
    <3>1. TAKE i \in 1..Len(stream')
    <3>2. n + i \in 1..l /\ b + (n + i) = (b + n) + i
      BY <2>0
    <3>3. QED
      BY <1>7, <1>10, <3>2 DEF l, b
  <2>3. Len(responses') <= Len(asked') /\ Len(asked') <= Len(responses') + 1
    BY <1>2, <1>5 DEF client
  <2>5. QED
    BY <1>9, <2>1, <2>2, <2>3 DEF Turns, R, b
<1>12. bytes_read' > 0
  BY <1>1, <1>6, BsizeAssumption
<1>13. Busy'
  BY <1>2, <1>9, <1>12 DEF Busy
<1>14. n <= BSIZE
  BY <1>1, <1>6, BsizeAssumption DEF room
<1>15. \A i \in 0..BSIZE : data'[i] = IF i < n THEN R[bytes_read + (i + 1)] ELSE data[i]
  <2>1. TAKE i \in 0..BSIZE
  <2>2. i < n => i + 1 \in 1..Len(stream)
    BY <1>1, <1>5, BsizeAssumption
  <2>3. i < n => stream[i + 1] = R[bytes_read + (i + 1)]
    BY <1>7, <2>2
  <2>4. data'[i] = IF i < n THEN stream[i + 1] ELSE data[i]
    BY <1>1
  <2>5. QED
    BY <2>3, <2>4
<1>16. FirstPart'
  <2>1. \A i \in 0..BSIZE : i < n => bytes_read + (i + 1) = i + 1
    BY <1>8
  <2>2. bytes_read' = n
    BY <1>1, <1>8
  <2>3. \A i \in 0..BSIZE : i < bytes_read' => data'[i] = R[i + 1]
    BY <1>15, <2>1, <2>2
  <2>4. QED
    BY <1>9, <2>3 DEF FirstPart, R
<1>17. bytes_read' = BSIZE \/ stream' = <<>>
  <2>1. CASE n = room
    BY <1>1, <1>6, <2>1, BsizeAssumption DEF room
  <2>2. CASE n = Len(stream)
    <3>1. Len(stream') = 0
      BY <1>5, <1>10, <2>2
    <3>2. QED
      BY <1>10, <3>1, EmptySeq
  <2>3. QED
    BY <1>1, <2>1, <2>2 DEF Orderly
<1>18. Buffer'
  BY <1>2, <1>12, <1>16, <1>17 DEF Buffer
<1>19. Reading'
  BY <1>2, <1>3 DEF Reading, IsGet
<1>20. QED
  BY <1>11, <1>13, <1>18, <1>19 DEF CInv

\* What leaves the client, the stream and the buffer alone leaves these alone.
LEMMA SameTurns ==
  ASSUME Turns, UNCHANGED <<client, stream, responses>>, taken' = taken
  PROVE  Turns'
BY DEF Turns, client, Answered, Last, Render

LEMMA SameBuffer ==
  ASSUME UNCHANGED <<client, data, bytes_read>>
  PROVE  Empty' = Empty /\ FirstPart' = FirstPart
BY DEF Empty, FirstPart, client, Last, Render

\* The scan sends only a GET on to serve_file, and only when nothing of the
\* request is left in the stream.
LEMMA ScanStep == Orderly /\ CInv /\ TypeOK' /\ Scan => CInv'
<1> SUFFICES ASSUME Orderly, CInv, TypeOK', Scan PROVE CInv'
  OBVIOUS
<1>1. /\ pc = "scan"
      /\ UNCHANGED <<client, stream, data, buffer_ok, bytes_read, open_files, responses>>
  BY DEF Scan
<1>2. TypeOK /\ Turns /\ Busy /\ Buffer /\ Reading
  BY DEF CInv
<1>3. ~Answered /\ ~Answered' /\ bytes_read > 0 /\ bytes_read \in 0..BSIZE
  BY <1>1, <1>2 DEF Busy, TypeOK, Answered, client
<1>4. pc' \in {"read", "serve", "exited"}
  BY <1>1 DEF Scan
<1>5. Turns'
  BY <1>1, <1>2, <1>4, SameTurns DEF taken
<1>6. Busy'
  BY <1>1, <1>3, <1>4 DEF Busy
<1>7. Buffer'
  <2>1. FirstPart' = FirstPart
    BY <1>1, SameBuffer
  <2>2. bytes_read' # 0
    BY <1>1, <1>3, BsizeAssumption
  <2>3. QED
    BY <1>1, <1>2, <1>3, <1>4, <2>1, <2>2 DEF Buffer
<1>8. Reading'
  <2>1. CASE reading_headers /\ end_of_headers(data) = -1
    <3>1. reading_headers' = reading_headers /\ pc' = "read"
      BY <1>1, <2>1 DEF Scan
    <3>2. QED
      BY <2>1, <3>1 DEF Reading
  <2>2. CASE ~reading_headers
    <3>1. pc' = IF IsGet(req) THEN "serve" ELSE "read"
      BY <1>1, <2>2 DEF Scan
    <3>2. ~IsGet(req) /\ UNCHANGED req
      BY <1>1, <1>2, <2>2 DEF Reading, Scan
    <3>3. QED
      BY <3>1, <3>2 DEF Reading, IsGet
  <2>3. CASE reading_headers /\ end_of_headers(data) # -1 /\ ~parse_headers(data)
    <3>1. pc' = "exited"
      BY <1>1, <2>3 DEF Scan
    <3>2. QED
      BY <3>1 DEF Reading
  <2>4. CASE reading_headers /\ end_of_headers(data) # -1 /\ parse_headers(data)
    <3>1. /\ req' = [method |-> Words(data)[1], path |-> Words(data)[2]]
          /\ pc' = IF IsGet(req') THEN "serve" ELSE "read"
      BY <1>1, <2>4 DEF Scan
    <3>2. CASE ~IsGet(req')
      BY <3>1, <3>2 DEF Reading, IsGet
    <3>3. CASE IsGet(req')
      <4>1. Words(data)[1] = GET
        BY <3>1, <3>3 DEF IsGet
      <4>2. FirstPart /\ (bytes_read = BSIZE \/ stream = <<>>)
        BY <1>1, <1>2, <1>3 DEF Buffer
      <4>3. bytes_read = Len(Render(Last)) /\ stream = <<>>
        BY <1>1, <1>2, <1>3, <2>4, <4>2, BlankIsEnd
      <4>4. ASSUME WellFormed(Last)
            PROVE  Last.method = GET /\ req'.path = Last.path
        <5>1. Words(data)[1] = Last.method /\ Words(data)[2] = Last.path
          BY <1>2, <1>3, <4>2, <4>3, <4>4, BufferWords
        <5>2. req'.path = Words(data)[2]
          BY <3>1
        <5>3. QED
          BY <4>1, <5>1, <5>2
      <4>5. pc' = "serve"
        BY <3>1, <3>3
      <4>6. Last' = Last /\ stream' = stream
        BY <1>1 DEF Last, client
      <4>7. QED
        BY <4>3, <4>4, <4>5, <4>6 DEF Reading, WellFormed
    <3>4. QED
      BY <3>2, <3>3
  <2>5. QED
    BY <1>2, <2>1, <2>2, <2>3, <2>4 DEF TypeOK
<1>9. QED
  BY <1>5, <1>6, <1>7, <1>8 DEF CInv

\* With the answer the request is done, and the stream is empty.
LEMMA ServeStep == CInv /\ TypeOK' /\ Serve => CInv'
<1> SUFFICES ASSUME CInv, TypeOK', Serve PROVE CInv'
  OBVIOUS
<1>1. /\ pc = "serve" /\ pc' = "reset"
      /\ Len(responses') = Len(responses) + 1
      /\ UNCHANGED <<client, stream, data, bytes_read>>
  BY AppendProperties DEF Serve, CInv, TypeOK
<1>2. TypeOK /\ Turns /\ Busy /\ Buffer /\ Reading
  BY DEF CInv
<1>3. ~Answered /\ bytes_read > 0 /\ stream = <<>>
  BY <1>1, <1>2 DEF Busy, Reading
<1>4. Len(asked) \in Nat /\ Len(responses) \in Nat /\ Len(asked) = Len(responses) + 1
  BY <1>2, <1>3, LastIsRequest
<1>5. Turns'
  <2>1. Answered' /\ stream' = <<>>
    BY <1>1, <1>3, <1>4 DEF Answered, client
  <2>2. Len(responses') <= Len(asked') /\ Len(asked') <= Len(responses') + 1
    BY <1>1, <1>4 DEF client
  <2>3. QED
    BY <2>1, <2>2 DEF Turns
<1>6. Busy' /\ Reading'
  BY <1>1 DEF Busy, Reading
<1>7. Buffer'
  BY <1>1, <1>2, <1>3, BsizeAssumption DEF Buffer, TypeOK
<1>8. QED
  BY <1>5, <1>6, <1>7 DEF CInv

\* A child caught in a directory keeps the request it will not answer.
LEMMA DirectoryStep == CInv /\ TypeOK' /\ ServeDirectory => CInv'
<1> SUFFICES ASSUME CInv, TypeOK', ServeDirectory PROVE CInv'
  OBVIOUS
<1>1. /\ pc = "serve" /\ pc' = "looping"
      /\ UNCHANGED <<client, stream, data, bytes_read, reading_headers, responses>>
  BY DEF ServeDirectory
<1>2. TypeOK /\ Turns /\ Busy /\ Buffer /\ Reading
  BY DEF CInv
<1>3. ~Answered /\ bytes_read > 0 /\ ~Answered'
  BY <1>1, <1>2 DEF Busy, Answered, client
<1>4. Turns'
  BY <1>1, <1>2, SameTurns DEF taken
<1>5. Busy' /\ Reading'
  BY <1>1, <1>3 DEF Busy, Reading
<1>6. FirstPart' = FirstPart
  BY <1>1, SameBuffer
<1>7. bytes_read' # 0
  BY <1>1, <1>2, <1>3, BsizeAssumption DEF TypeOK
<1>8. Buffer'
  BY <1>1, <1>2, <1>3, <1>6, <1>7 DEF Buffer
<1>9. QED
  BY <1>4, <1>5, <1>8 DEF CInv

\* The clean-up leaves an empty buffer for the next request.
LEMMA ResetStep == CInv /\ TypeOK' /\ Reset => CInv'
<1> SUFFICES ASSUME CInv, TypeOK', Reset PROVE CInv'
  OBVIOUS
<1>1. /\ pc = "reset" /\ bytes_read' = 0 /\ reading_headers' = TRUE
      /\ data' = [i \in 0..BSIZE |-> IF i < BSIZE THEN NUL ELSE data[i]]
      /\ UNCHANGED <<client, stream, open_files, responses>>
  BY DEF Reset, CleanBuffer, CleanRequest, CleanFlag, CleanCount
<1>2. pc' \in {"read", "exited"}
  BY DEF Reset
<1>3. Turns /\ Buffer /\ TypeOK
  BY DEF CInv
<1>4. Turns'
  BY <1>1, <1>2, <1>3, SameTurns DEF taken
<1>5. Busy'
  BY <1>1, <1>2 DEF Busy
<1>6. Empty'
  BY <1>1, BsizeAssumption DEF Empty
<1>7. Buffer'
  BY <1>1, <1>2, <1>6 DEF Buffer
<1>8. Reading'
  BY <1>1, <1>2 DEF Reading
<1>9. QED
  BY <1>4, <1>5, <1>7, <1>8 DEF CInv

LEMMA NextCInv == Orderly /\ CInv /\ [Next]_vars => CInv'
<1> SUFFICES ASSUME Orderly, CInv, [Next]_vars PROVE CInv'
  OBVIOUS
<1>1. TypeOK'
  BY NextTypes DEF CInv
<1>2. TypeOK /\ Turns /\ Busy /\ Buffer /\ Reading
  BY DEF CInv
<1>3. CASE Close \/ UNCHANGED vars
  <2>1. UNCHANGED <<asked, stream, pc, local, responses>>
    BY <1>3 DEF Close, vars, client
  <2>2. Turns' /\ Busy'
    BY <1>2, <2>1 DEF Turns, Busy, Answered, Last, taken, local, Render
  <2>3. Buffer'
    BY <1>2, <2>1 DEF Buffer, Empty, FirstPart, local, Last, Render
  <2>4. Reading'
    BY <1>2, <2>1 DEF Reading, local, Last, IsGet, WellFormed
  <2>5. QED
    BY <1>1, <2>2, <2>3, <2>4 DEF CInv
<1>4. CASE ReadEnds \/ ServeKilled \/ LoopKilled
  <2>1. /\ pc' = "exited" /\ UNCHANGED <<client, stream, local, responses>>
        /\ pc \in {"read", "serve", "looping"}
    BY <1>4 DEF ReadEnds, ServeKilled, LoopKilled, Exit
  <2>2. Turns'
    BY <1>2, <2>1, SameTurns DEF taken, local
  <2>3. Busy' /\ Reading'
    BY <2>1 DEF Busy, Reading
  <2>4. Buffer'
    BY <1>2, <2>1 DEF Buffer, local
  <2>5. QED
    BY <1>1, <2>2, <2>3, <2>4 DEF CInv
<1>5. QED
  BY <1>1, <1>3, <1>4, SendStep, ReadStep, ScanStep, ServeStep, DirectoryStep, ResetStep
     DEF Next, Child

LEMMA InvariantHolds == Orderly /\ Spec => []CInv
<1>1. Orderly => Orderly'
  BY DEF Orderly
<1>2. QED
  BY <1>1, InitCInv, NextCInv, PTL DEF Spec

\* For a client that waits for its answers and whose requests arrive whole:
\* between two requests it and the child agree on where they are.  The request
\* that has no answer is in the stream from its first byte, and nothing an
\* answered one left in the buffer can complete it (static.c:110-133).
THEOREM ClientInStep == Orderly /\ Spec => []InStep
<1>1. CInv => InStep
  <2> SUFFICES ASSUME CInv, pc = "read", bytes_read = 0
               PROVE  /\ stream = IF Answered THEN <<>> ELSE Render(asked[Len(asked)])
                      /\ responses # <<>> => end_of_headers(data) = -1
    BY DEF InStep
  <2>1. TypeOK /\ Turns /\ Buffer
    BY DEF CInv
  <2>2. ASSUME ~Answered PROVE stream = Render(asked[Len(asked)])
    <3> DEFINE R == Render(Last)
    <3>1. Last \in Requests /\ Len(stream) \in Nat
      BY <2>1, <2>2, LastIsRequest
    <3>2. R \in Seq(Cells) /\ stream \in Seq(Cells) /\ Len(R) \in Nat
      BY <2>1, <3>1, RenderFacts DEF TypeOK
    <3>3. 0 + Len(stream) = Len(R) /\ \A i \in 1..Len(stream) : stream[i] = R[0 + i]
      BY <2>1, <2>2 DEF Turns, taken
    <3> HIDE DEF R
    <3>4. Len(stream) = Len(R) /\ \A i \in 1..Len(stream) : stream[i] = R[i]
      BY <3>1, <3>3
    <3>5. stream = R
      BY <3>2, <3>4, SeqEqual
    <3>6. QED
      BY <3>5 DEF R, Last
  <2>3. ASSUME responses # <<>> PROVE end_of_headers(data) = -1
    <3>1. \A i \in 0..(BSIZE - 1) : data[i] # CR
      BY <2>1, <2>3 DEF Buffer, Empty, NUL, CR
    <3>2. \A i \in 0..(BSIZE - 5) : i \in 0..(BSIZE - 1)
      BY BsizeAssumption
    <3>3. QED
      BY <3>1, <3>2, BlankFound
  <2>4. Answered => stream = <<>>
    BY <2>1 DEF Turns
  <2>5. QED
    BY <2>2, <2>3, <2>4
<1>2. QED
  BY <1>1, InvariantHolds, PTL
-----------------------------------------------------------------------------
(* The answers. *)

\* Every answer was right when it was sent, and requests are only added.
LEMMA AnswersStay ==
  ASSUME TypeOK, AnswersMatch, UNCHANGED responses,
         UNCHANGED asked \/ \E r \in Requests : asked' = Append(asked, r)
  PROVE  AnswersMatch'
<1>1. CASE UNCHANGED asked
  BY <1>1 DEF AnswersMatch, RightAnswer, WellFormed, IsWord
<1>2. ASSUME NEW r \in Requests, asked' = Append(asked, r)
      PROVE  AnswersMatch'
  <2>1. asked \in Seq(Requests) /\ Len(asked) \in Nat
    BY LenProperties DEF TypeOK
  <2>2. Len(asked') = Len(asked) + 1 /\ \A n \in 1..Len(asked) : asked'[n] = asked[n]
    BY <1>2, <2>1, AppendProperties
  <2>3. \A n \in 1..Len(responses) :
          n <= Len(asked) /\ (WellFormed(asked[n]) => RightAnswer(asked[n], responses[n]))
    BY DEF AnswersMatch
  <2>4. \A n \in 1..Len(responses) :
          n <= Len(asked') /\ (WellFormed(asked'[n]) => RightAnswer(asked'[n], responses[n]))
    <3>1. TAKE n \in 1..Len(responses)
    <3>2. n \in 1..Len(asked)
      BY <2>1, <2>3
    <3>3. asked'[n] = asked[n] /\ n <= Len(asked')
      BY <2>1, <2>2, <3>2
    <3>4. QED
      BY <2>3, <3>3
  <2>5. QED
    BY <2>4 DEF AnswersMatch
<1>3. QED
  BY <1>1, <1>2

\* The answer is the right one for the request just read, since a descriptor is
\* left for its file.
LEMMA AnswerStep ==
  ASSUME MaxRequests <= FdLimit, AInv, Serve
  PROVE  open_files' <= Len(responses') /\ AnswersMatch'
<1> DEFINE found == Openable(req.path, Files)
           answer == [path |-> req.path, status |-> IF found THEN 200 ELSE 404]
<1>1. /\ pc = "serve" /\ pc' = "reset" /\ ~Openable(req.path, Directories)
      /\ responses' = Append(responses, answer)
      /\ open_files' = IF found THEN open_files + 1 ELSE open_files
      /\ UNCHANGED <<client, stream, data, buffer_ok, bytes_read, reading_headers, req>>
  BY DEF Serve
<1>2. TypeOK /\ Turns /\ Busy /\ Buffer /\ Reading /\ open_files <= Len(responses) /\ AnswersMatch
  BY <1>1 DEF AInv, CInv
<1>3. ~Answered /\ bytes_read > 0 /\ stream = <<>> /\ bytes_read \in 0..BSIZE
  BY <1>1, <1>2 DEF Busy, Reading, TypeOK
<1>4. /\ Len(asked) \in Nat /\ Len(responses) \in Nat
      /\ Len(asked) = Len(responses) + 1 /\ Last \in Requests
  BY <1>2, <1>3, LastIsRequest
<1>5. WellFormed(Last) => Last.method = GET /\ req.path = Last.path
  BY <1>1, <1>2 DEF Reading
<1>6. answer \in [path : Seq(Cells), status : {200, 404}]
  BY <1>2 DEF TypeOK
<1>7. open_files \in Nat /\ open_files < FdLimit
  <2>1. open_files \in Nat /\ Len(asked) <= MaxRequests /\ MaxRequests <= FdLimit
    BY <1>2, LimitsAssumption DEF TypeOK
  <2>2. QED
    BY <1>2, <1>4, <2>1, LimitsAssumption
<1>8. WellFormed(Last) => RightAnswer(Last, answer)
  <2>1. found <=> req.path \in Files
    BY <1>7 DEF Openable
  <2> HIDE DEF found
  <2>2. QED
    BY <1>5, <2>1 DEF RightAnswer
<1> HIDE DEF answer, found
<1>9. /\ Len(responses') = Len(responses) + 1
      /\ \A n \in 1..Len(responses) : responses'[n] = responses[n]
      /\ responses'[Len(responses) + 1] = answer
  <2>1. responses \in Seq([path : Seq(Cells), status : {200, 404}])
    BY <1>2 DEF TypeOK
  <2>2. QED
    BY <1>1, <1>6, <2>1, AppendProperties
<1>10. open_files' <= Len(responses')
  BY <1>1, <1>2, <1>4, <1>7, <1>9
<1>11. AnswersMatch'
  <2>1. \A n \in 1..Len(responses) :
          n <= Len(asked) /\ (WellFormed(asked[n]) => RightAnswer(asked[n], responses[n]))
    BY <1>2 DEF AnswersMatch
  <2>2. Last = asked[Len(responses) + 1]
    BY <1>4 DEF Last
  <2>3. \A n \in 1..Len(responses') :
          n <= Len(asked) /\ (WellFormed(asked[n]) => RightAnswer(asked[n], responses'[n]))
    <3>1. TAKE n \in 1..Len(responses')
    <3>2. CASE n = Len(responses) + 1
      BY <1>4, <1>8, <1>9, <2>2, <3>2
    <3>3. CASE n # Len(responses) + 1
      <4>1. n \in 1..Len(responses)
        BY <1>4, <1>9, <3>3
      <4>2. QED
        BY <1>9, <2>1, <4>1
    <3>4. QED
      BY <3>2, <3>3
  <2>4. asked' = asked
    BY <1>1 DEF client
  <2>5. QED
    BY <2>3, <2>4 DEF AnswersMatch, RightAnswer, WellFormed, IsWord
<1>12. QED
  BY <1>10, <1>11

LEMMA NextAInv == MaxRequests <= FdLimit /\ CInv' /\ AInv /\ [Next]_vars => AInv'
<1> SUFFICES ASSUME MaxRequests <= FdLimit, CInv', AInv, [Next]_vars PROVE AInv'
  OBVIOUS
<1>1. /\ CInv /\ TypeOK /\ AnswersMatch
      /\ pc \notin {"looping", "exited"} => open_files <= Len(responses)
  BY DEF AInv, CInv
<1>2. CASE Serve
  BY <1>2, AnswerStep DEF AInv
<1>3. CASE ~Serve
  <2>1. UNCHANGED responses
    BY <1>3 DEF Next, Child, Send, Close, Read, ReadEnds, Scan, ServeDirectory, ServeKilled,
                LoopKilled, Reset, Exit, vars, local
  <2>2. UNCHANGED asked \/ \E r \in Requests : asked' = Append(asked, r)
    BY <1>3 DEF Next, Child, Send, Close, Read, ReadEnds, Scan, ServeDirectory, ServeKilled,
                LoopKilled, Reset, Exit, vars, local, client
  <2>3. AnswersMatch'
    BY <1>1, <2>1, <2>2, AnswersStay
  <2>4. pc' \notin {"looping", "exited"} => open_files' <= Len(responses')
    <3>1. CASE ServeDirectory \/ LoopKilled
      BY <3>1 DEF ServeDirectory, LoopKilled, Exit
    <3>2. CASE ~ServeDirectory /\ ~LoopKilled
      <4>1. UNCHANGED open_files /\ (pc' \notin {"looping", "exited"} => pc \notin {"looping", "exited"})
        BY <1>3, <3>2 DEF Next, Child, Send, Close, Read, ReadEnds, Scan, ServeKilled, Reset,
                          Exit, vars, local
      <4>2. QED
        BY <1>1, <2>1, <4>1
    <3>3. QED
      BY <3>1, <3>2
  <2>5. QED
    BY <1>1, <2>3, <2>4 DEF AInv
<1>4. QED
  BY <1>2, <1>3

\* For a client that waits for its answers and whose requests arrive whole,
\* whatever the memory held at the start and whatever the clean-up hits, as long
\* as descriptors last: each answer is the right one for the request it stands
\* beside (handle_conn, static.c:103-142).
THEOREM AnswersAreRight == Orderly /\ MaxRequests <= FdLimit /\ Spec => []AnswersMatch
<1>1. Init => AInv
  BY InitCInv, EmptySeq DEF AInv, Init, AnswersMatch
<1>2. MaxRequests <= FdLimit /\ CInv' /\ AInv /\ [Next]_vars => AInv'
  BY NextAInv
<1>3. AInv => AnswersMatch
  BY DEF AInv
<1>4. (MaxRequests <= FdLimit) => (MaxRequests <= FdLimit)'
  OBVIOUS
<1>5. QED
  BY <1>1, <1>2, <1>3, <1>4, InvariantHolds, PTL DEF Spec
-----------------------------------------------------------------------------
(* Why the child leaves. *)

\* A request that is read to its end, and fits, is parsed if it is well formed.
LEMMA WellFormedParses ==
  ASSUME TypeOK, Turns, ~Answered, pc = "scan", FirstPart, end_of_headers(data) # -1,
         bytes_read = BSIZE \/ stream = <<>>, WellFormed(Last)
  PROVE  parse_headers(data)
<1> DEFINE R == Render(Last)
           N == Len(R)
<1>1. Last \in Requests
  BY LastIsRequest
<1>2. N \in Nat /\ N >= 5 /\ \A i \in 1..N : R[i] # NUL
  BY <1>1, RenderFacts
<1>3. bytes_read = N /\ N < BSIZE
  BY BlankIsEnd
<1>4. request_line(data)
  BY <1>3, BufferWords
<1>5. R[N - 3] = CR /\ R[N - 2] = LF /\ R[N - 1] = CR /\ R[N] = LF
  <2>1. N - 3 \in 1..(Len(R) - 3)
    BY <1>2
  <2>2. BlankLine(R, N - 3)
    BY <1>1, <2>1, RequestsAssumption
  <2>3. (N - 3) + 1 = N - 2 /\ (N - 3) + 2 = N - 1 /\ (N - 3) + 3 = N
    BY <1>2
  <2>4. QED
    BY <2>2, <2>3 DEF BlankLine
<1> HIDE DEF N
<1>6. \A i \in 0..(N - 1) : data[i] = R[i + 1] /\ data[i] # NUL
  <2>1. TAKE i \in 0..(N - 1)
  <2>2. i \in 0..BSIZE /\ i < bytes_read /\ i + 1 \in 1..N
    BY <1>2, <1>3, BsizeAssumption
  <2>3. QED
    BY <1>2, <2>2 DEF FirstPart
<1>7. parse_headers_only(data)
  <2> DEFINE i == N - 3
  <2>1. /\ i \in 0..(BSIZE - 2) /\ i \in 0..(N - 1) /\ i + 1 \in 0..(N - 1) /\ i + 2 \in 0..(N - 1)
        /\ i + 1 = N - 2 /\ (i + 1) + 1 = N - 1 /\ (i + 2) + 1 = N
    BY <1>2, <1>3, BsizeAssumption
  <2>2. data[i] = R[N - 2] /\ data[i + 1] = R[N - 1] /\ data[i + 2] = R[N]
    <3> HIDE DEF i
    <3>1. data[i] = R[i + 1] /\ data[i + 1] = R[(i + 1) + 1] /\ data[i + 2] = R[(i + 2) + 1]
      BY <1>6, <2>1
    <3>2. QED
      BY <2>1, <3>1
  <2>3. \A j \in 0..i : data[j] # NUL
    <3>1. \A j \in 0..i : j \in 0..(N - 1)
      BY <1>2
    <3>2. QED
      BY <1>6, <3>1
  <2> HIDE DEF i
  <2>4. QED
    BY <1>5, <2>1, <2>2, <2>3 DEF parse_headers_only
<1>8. QED
  BY <1>4, <1>7 DEF parse_headers

\* The clean-up leaves the buffer's pointer alone.
Undisturbed == ResetOutcomes \subseteq {"harmless"}

\* No request is exactly as large as the buffer: that one fits, and the scan for
\* the end of the headers does not see its last cell.
NoneFills == \A r \in Requests : Len(Render(r)) # BSIZE

GInv == CInv /\ buffer_ok /\ GivesUpOnlyOnOversize

LEMMA NextGInv == Orderly /\ Undisturbed /\ NoneFills /\ GInv /\ [Next]_vars => GInv'
<1> SUFFICES ASSUME Orderly, Undisturbed, NoneFills, GInv, [Next]_vars PROVE GInv'
  OBVIOUS
<1>1. CInv /\ CInv' /\ buffer_ok /\ GivesUpOnlyOnOversize
  BY NextCInv DEF GInv
<1>2. TypeOK /\ Turns /\ Busy /\ Buffer
  BY <1>1 DEF CInv
<1>3. buffer_ok'
  <2>1. CASE Reset
    <3>1. PICK outcome \in ResetOutcomes : buffer_ok' = (outcome # "pointer")
      BY <2>1 DEF Reset
    <3>2. QED
      BY <3>1 DEF Undisturbed
  <2>2. CASE ~Reset
    BY <1>1, <2>2 DEF Next, Child, Send, Close, Read, ReadEnds, Scan, Serve, ServeDirectory,
                      ServeKilled, LoopKilled, Exit, vars, local
  <2>3. QED
    BY <2>1, <2>2
<1>4. ASSUME ~Answered, ~WellFormed(Last) \/ ~Fits(Last), UNCHANGED asked
      PROVE  GivesUpOnlyOnOversize'
  <2>1. Len(asked) \in 1..Len(asked)
    <3>1. Len(asked) \in Nat /\ Len(responses) \in Nat /\ Len(asked) = Len(responses) + 1
      BY <1>2, <1>4, LastIsRequest
    <3>2. QED
      BY <3>1
  <2>2. \E n \in 1..Len(asked) : ~WellFormed(asked[n]) \/ ~Fits(asked[n])
    BY <1>4, <2>1 DEF Last
  <2>3. QED
    BY <1>4, <2>2 DEF GivesUpOnlyOnOversize
<1>5. GivesUpOnlyOnOversize'
  <2>1. CASE pc' # "exited"
    BY <2>1 DEF GivesUpOnlyOnOversize
  <2>2. CASE ReadEnds /\ ~closed
    <3>1. room = 0 /\ pc = "read" /\ UNCHANGED asked
      BY <1>1, <2>2 DEF ReadEnds, Exit, client
    <3>2. bytes_read = BSIZE /\ bytes_read > 0
      BY <1>2, <3>1, BsizeAssumption DEF room, TypeOK
    <3>3. ~Answered
      BY <1>2, <3>1, <3>2 DEF Busy
    <3>4. bytes_read + Len(stream) = Len(Render(Last)) /\ Len(stream) \in Nat
      BY <1>2, <3>1, <3>3, LastIsRequest DEF Turns, taken
    <3>5. ~Fits(Last)
      <4>1. Last \in Requests /\ Len(Render(Last)) # BSIZE
        BY <1>2, <3>3, LastIsRequest DEF NoneFills
      <4>2. QED
        BY <3>2, <3>4, <4>1, BsizeAssumption DEF Fits
    <3>6. QED
      BY <1>4, <3>1, <3>3, <3>5
  <2>3. CASE Scan /\ pc' = "exited"
    <3>1. /\ pc = "scan" /\ UNCHANGED asked
          /\ end_of_headers(data) # -1 /\ ~parse_headers(data)
      BY <2>3 DEF Scan, client
    <3>2. ~Answered /\ FirstPart /\ (bytes_read = BSIZE \/ stream = <<>>)
      BY <1>2, <3>1 DEF Busy, Buffer
    <3>3. ~WellFormed(Last)
      BY <1>2, <3>1, <3>2, WellFormedParses
    <3>4. QED
      BY <1>4, <3>1, <3>2, <3>3
  <2>4. CASE Close \/ ServeKilled \/ LoopKilled \/ (ReadEnds /\ closed)
    BY <2>4 DEF Close, ServeKilled, LoopKilled, ReadEnds, Exit, client, GivesUpOnlyOnOversize
  <2>5. CASE Reset
    <3>1. PICK outcome \in ResetOutcomes :
            pc' = IF outcome = "killed" THEN "exited" ELSE "read"
      BY <2>5 DEF Reset
    <3>2. pc' = "read"
      BY <3>1 DEF Undisturbed
    <3>3. QED
      BY <2>1, <3>2
  <2>6. CASE Send \/ Read \/ Serve \/ ServeDirectory
    <3>1. pc' # "exited"
      BY <2>6 DEF Send, Read, Serve, ServeDirectory
    <3>2. QED
      BY <2>1, <3>1
  <2>7. CASE UNCHANGED vars
    BY <1>1, <2>7 DEF vars, client, GivesUpOnlyOnOversize
  <2>8. QED
    BY <2>1, <2>2, <2>3, <2>4, <2>5, <2>6, <2>7 DEF Next, Child
<1>6. QED
  BY <1>1, <1>3, <1>5 DEF GInv

\* For a client that waits for its answers and whose requests arrive whole, in a
\* build whose clean-up is harmless: the child leaves a client that is still there
\* only over a request that is not well formed or does not fit its buffer
\* (static.c:101, 113-114, 118-121).  A request that fills the buffer to its last
\* cell is left out: it fits, and the child leaves over it.
THEOREM LeavesOnlyOnOversize ==
  Orderly /\ Undisturbed /\ NoneFills /\ Spec => []GivesUpOnlyOnOversize
<1>1. Init => GInv
  BY InitCInv DEF GInv, Init, GivesUpOnlyOnOversize
<1>2. Orderly /\ Undisturbed /\ NoneFills => Orderly' /\ Undisturbed' /\ NoneFills'
  BY DEF Orderly, Undisturbed, NoneFills
<1>3. GInv => GivesUpOnlyOnOversize
  BY DEF GInv
<1>4. QED
  BY <1>1, <1>2, <1>3, NextGInv, PTL DEF Spec
=============================================================================
