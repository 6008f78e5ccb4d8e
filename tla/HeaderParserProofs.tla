------------------------- MODULE HeaderParserProofs -------------------------
(***************************************************************************)
(* The loop of parse_headers_only accepts exactly the texts that HttpBytes *)
(* says it does, leaves its memory only in texts too large for it, reads   *)
(* every header of a rendered text back, and get_header finds the first    *)
(* header of a name, as far as the memory under it allows: for every text, *)
(* buffer, block size and content of the memory.  The first is what allows *)
(* Connection to use the one-line definition in place of the loop.  What   *)
(* resptostr writes is a rendered text, for every response.                *)
(***************************************************************************)
EXTENDS HeaderParser, ResponseHead, SequenceTheorems, FiniteSetTheorems,
        WellFoundedInduction, TLAPS

BlankAt(j) == request[j] = LF /\ request[j + 1] = CR /\ request[j + 2] = LF

\* What is behind the cursor: no end of the text, and no blank line unless the
\* loop has just stopped at it.
Behind ==
  /\ source \in Sources /\ pc \in {"scan", "done", "failed", "overrun"}
  /\ i \in 0..BSIZE /\ currline \in Nat /\ lastOffset \in Nat
  /\ \A j \in 0..(i - 1) : request[j] # NUL
  /\ pc # "done" => \A j \in 0..(i - 1) : ~BlankAt(j)
  /\ pc = "done" => i >= 1 /\ BlankAt(i - 1)
  /\ pc = "failed" => request[i] = NUL

\* The offset a cell is written at counts from inside the same line.
InLine ==
  pc = "scan" /\ currline > 0 =>
    lastOffset <= i /\ \A j \in lastOffset..(i - 1) : request[j] # LF

\* The lines counted are the line ends passed.
Seen(n) == {k \in 1..n : source.text[k] = LF}
Counted == pc = "scan" => Cardinality(Seen(i)) = currline

IInv == Behind /\ InLine /\ Counted /\ OverrunsOnlyOnSize

\* The request is a C string in a buffer of BSIZE + 1 cells.
LEMMA Terminated ==
  ASSUME source \in Sources
  PROVE  /\ request[BSIZE] = NUL
         /\ \A k \in 0..BSIZE : request[k] # NUL =>
              k + 1 \in 1..Len(source.text) /\ request[k] = source.text[k + 1]
<1>1. Len(source.text) \in 0..BSIZE /\ BSIZE \in Nat
  BY SourcesAssumption, BsizeAssumption
<1>2. request[BSIZE] = NUL
  BY <1>1 DEF request
<1>3. ASSUME NEW k \in 0..BSIZE, request[k] # NUL
      PROVE  k + 1 \in 1..Len(source.text) /\ request[k] = source.text[k + 1]
  <2>1. k < Len(source.text)
    BY <1>1, <1>3 DEF request
  <2>2. QED
    BY <1>1, <2>1 DEF request
<1>4. QED
  BY <1>2, <1>3

LEMMA TextCells ==
  ASSUME source \in Sources, NEW k \in 1..Len(source.text)
  PROVE  request[k - 1] = source.text[k]
<1>1. Len(source.text) \in 0..BSIZE /\ BSIZE \in Nat
  BY SourcesAssumption, BsizeAssumption
<1>2. k - 1 \in 0..BSIZE /\ k - 1 < Len(source.text) /\ (k - 1) + 1 = k
  BY <1>1
<1>3. QED
  BY <1>2 DEF request

\* The line ends up to a cell, and up to the next.
LEMMA SeenNext ==
  ASSUME source \in Sources, NEW j \in 0..BSIZE, request[j] # NUL
  PROVE  /\ Cardinality(Seen(j)) \in Nat
         /\ request[j] # LF => Seen(j + 1) = Seen(j)
         /\ request[j] = LF => /\ Cardinality(Seen(j + 1)) = Cardinality(Seen(j)) + 1
                              /\ Cardinality(LineEnds) >= Cardinality(Seen(j)) + 1
<1>1. /\ j \in Nat /\ j + 1 \in 1..Len(source.text) /\ request[j] = source.text[j + 1]
      /\ Len(source.text) \in Nat
  BY Terminated, SourcesAssumption, BsizeAssumption
<1>2. IsFiniteSet(Seen(j)) /\ Seen(j) \subseteq 1..j
  <2>1. IsFiniteSet(1..j) /\ Seen(j) \subseteq 1..j
    BY <1>1, FS_Interval DEF Seen
  <2>2. QED
    BY <2>1, FS_Subset
<1>3. Cardinality(Seen(j)) \in Nat
  BY <1>2, FS_CardinalityType
<1>4. Seen(j + 1) = IF request[j] = LF THEN Seen(j) \union {j + 1} ELSE Seen(j)
  <2>1. \A k \in Int : k \in 1..(j + 1) <=> k \in 1..j \/ k = j + 1
    BY <1>1
  <2>2. QED
    BY <1>1, <2>1 DEF Seen
<1>5. j + 1 \notin Seen(j)
  BY <1>1, <1>2
<1>6. ASSUME request[j] = LF
      PROVE  /\ Cardinality(Seen(j + 1)) = Cardinality(Seen(j)) + 1
             /\ Cardinality(LineEnds) >= Cardinality(Seen(j)) + 1
  <2>1. Seen(j + 1) = Seen(j) \union {j + 1}
    BY <1>4, <1>6
  <2>2. Cardinality(Seen(j + 1)) = Cardinality(Seen(j)) + 1
    BY <1>2, <1>5, <2>1, FS_AddElement
  <2>3. LineEnds \subseteq 1..Len(source.text) /\ IsFiniteSet(1..Len(source.text))
    BY <1>1, FS_Interval DEF LineEnds
  <2>4. IsFiniteSet(LineEnds)
    BY <2>3, FS_Subset
  <2>5. Seen(j + 1) \subseteq LineEnds
    BY <1>1 DEF Seen, LineEnds
  <2>6. Cardinality(Seen(j + 1)) <= Cardinality(LineEnds) /\ Cardinality(LineEnds) \in Nat
    BY <2>4, <2>5, FS_Subset, FS_CardinalityType
  <2>7. QED
    BY <1>3, <2>2, <2>6
<1>7. QED
  BY <1>3, <1>4, <1>6

LEMMA InitIInv == Init => IInv
<1> SUFFICES ASSUME Init PROVE IInv
  OBVIOUS
<1>1. Behind /\ InLine /\ OverrunsOnlyOnSize
  BY BsizeAssumption DEF Init, Behind, InLine, OverrunsOnlyOnSize
<1>2. Seen(0) = {}
  BY DEF Seen
<1>3. Cardinality(Seen(0)) = 0
  BY <1>2, FS_EmptySet
<1>4. QED
  BY <1>1, <1>3 DEF Init, IInv, Counted

LEMMA NextBehind == IInv /\ [Next]_vars => Behind' /\ InLine'
<1> SUFFICES ASSUME IInv, [Next]_vars PROVE Behind' /\ InLine'
  OBVIOUS
<1> USE BsizeAssumption DEF CR, LF, SP, NUL, COLON
<1>0. UNCHANGED request
  BY DEF Next, Blank, NewHeader, Skip, Colon, Put, Overrun, TextEnds, vars, request
<1>1. source \in Sources /\ source' = source
  BY DEF IInv, Behind, Next, Blank, NewHeader, Skip, Colon, Put, Overrun, TextEnds, vars
<1>2. request[BSIZE] = NUL
  BY <1>1, Terminated
<1>3. CASE Blank
  <2>1. i + 1 \in 0..BSIZE
    BY <1>2, <1>3 DEF Blank, At, IInv, Behind
  <2>2. BlankAt(i)
    BY <1>3 DEF Blank, At, BlankAt
  <2>3. QED
    BY <1>0, <1>1, <1>3, <2>1, <2>2 DEF Blank, At, IInv, Behind, InLine, BlankAt
<1>4. CASE NewHeader
  <2>1. i + 1 \in 0..BSIZE
    BY <1>2, <1>4 DEF NewHeader, HeaderStarts, At, IInv, Behind
  <2>2. ~BlankAt(i)
    BY <1>4 DEF NewHeader, HeaderStarts, At, BlankAt
  <2>3. Behind'
    BY <1>0, <1>1, <1>4, <2>1, <2>2 DEF NewHeader, HeaderStarts, At, IInv, Behind, BlankAt
  <2>4. InLine'
    BY <1>0, <1>4, <2>1 DEF NewHeader, HeaderStarts, At, IInv, Behind, InLine
  <2>5. QED
    BY <2>3, <2>4
<1>5. CASE Skip
  <2>1. i + 1 \in 0..BSIZE
    BY <1>2, <1>5 DEF Skip, IInv, Behind
  <2>2. Behind'
    BY <1>0, <1>1, <1>5, <2>1 DEF Skip, line, IInv, Behind, BlankAt
  <2>3. InLine'
    BY <1>0, <1>5, <2>1 DEF Skip, line, IInv, Behind, InLine
  <2>4. QED
    BY <2>2, <2>3
<1>6. CASE Colon
  <2>1. i' \in 0..BSIZE /\ i' > i
    BY <1>2, <1>6 DEF Colon, At, IInv, Behind
  <2>2. \A j \in 0..(i' - 1) : j \in 0..(i - 1) \/ request[j] \in {COLON, SP}
    BY <1>6 DEF Colon, At, IInv, Behind
  <2>3. Behind'
    BY <1>0, <1>1, <1>6, <2>1, <2>2 DEF Colon, At, IInv, Behind, BlankAt
  <2>4. InLine'
    BY <1>0, <1>6, <2>1 DEF Colon, At, IInv, Behind, InLine
  <2>5. QED
    BY <2>3, <2>4
<1>7. CASE Put
  <2>1. i + 1 \in 0..BSIZE
    BY <1>2, <1>7 DEF Put, Writing, IInv, Behind
  <2>2. Behind'
    BY <1>0, <1>1, <1>7, <2>1 DEF Put, Writing, line, IInv, Behind, BlankAt
  <2>3. InLine'
    BY <1>0, <1>7, <2>1 DEF Put, Writing, line, IInv, Behind, InLine
  <2>4. QED
    BY <2>2, <2>3
<1>8. CASE TextEnds
  BY <1>0, <1>1, <1>8 DEF TextEnds, At, line, IInv, Behind, InLine, BlankAt
<1>9. CASE Overrun
  BY <1>0, <1>1, <1>9 DEF Overrun, Writing, HeaderStarts, At, line, IInv, Behind, InLine, BlankAt
<1>10. CASE UNCHANGED vars
  BY <1>0, <1>10 DEF vars, line, IInv, Behind, InLine, BlankAt
<1>11. QED
  BY <1>3, <1>4, <1>5, <1>6, <1>7, <1>8, <1>9, <1>10 DEF Next

\* Every line end passed is counted, and no other cell.
LEMMA NextCounted == IInv /\ [Next]_vars => Counted'
<1> SUFFICES ASSUME IInv, [Next]_vars PROVE Counted'
  OBVIOUS
<1> USE DEF CR, LF, SP, NUL, COLON
<1>0. UNCHANGED <<source, request>> /\ \A n : Seen(n)' = Seen(n)
  BY DEF Next, Blank, NewHeader, Skip, Colon, Put, Overrun, TextEnds, vars, request, Seen
<1>1. source \in Sources /\ i \in 0..BSIZE /\ i \in Nat /\ BSIZE \in Nat
  BY BsizeAssumption DEF IInv, Behind
<1>2. pc = "scan" => Cardinality(Seen(i)) = currline
  BY DEF IInv, Counted
<1>3. SUFFICES ASSUME pc' = "scan" PROVE Cardinality(Seen(i')) = currline'
  BY <1>0 DEF Counted
<1>4. CASE NewHeader
  <2>1. pc = "scan" /\ request[i] = LF /\ i' = i + 1 /\ currline' = currline + 1
    BY <1>4 DEF NewHeader, HeaderStarts, At
  <2>2. Cardinality(Seen(i + 1)) = Cardinality(Seen(i)) + 1
    BY <1>1, <2>1, SeenNext
  <2>3. QED
    BY <1>2, <2>1, <2>2
<1>5. CASE Skip \/ Put
  <2>1. pc = "scan" /\ request[i] \notin {NUL, LF} /\ i' = i + 1 /\ currline' = currline
    BY <1>5 DEF Skip, Put, Writing, line
  <2>2. Seen(i + 1) = Seen(i)
    BY <1>1, <2>1, SeenNext
  <2>3. QED
    BY <1>2, <2>1, <2>2
<1>6. CASE Colon
  <2>1. /\ pc = "scan" /\ request[i] = COLON /\ currline' = currline
        /\ i' = IF request[i + 1] = SP THEN i + 2 ELSE i + 1
    BY <1>6 DEF Colon, At
  <2>2. Seen(i + 1) = Seen(i)
    BY <1>1, <2>1, SeenNext
  <2>3. ASSUME request[i + 1] = SP PROVE Seen(i + 2) = Seen(i + 1)
    <3>1. i + 1 \in 0..BSIZE
      BY <1>1, <2>1, Terminated
    <3>2. (i + 1) + 1 = i + 2
      BY <1>1
    <3>3. Seen((i + 1) + 1) = Seen(i + 1)
      BY <1>1, <2>3, <3>1, SeenNext
    <3>4. QED
      BY <3>2, <3>3
  <2>4. QED
    BY <1>2, <2>1, <2>2, <2>3
<1>7. CASE Blank \/ TextEnds \/ Overrun
  BY <1>3, <1>7 DEF Blank, TextEnds, Overrun
<1>8. CASE UNCHANGED vars
  BY <1>2, <1>3, <1>8 DEF vars, line
<1>9. QED
  BY <1>4, <1>5, <1>6, <1>7, <1>8 DEF Next

\* A write outside its block is in a line longer than a block, and a header
\* outside the array comes after too many line ends.
LEMMA NextOverrun == IInv /\ [Next]_vars => OverrunsOnlyOnSize'
<1> SUFFICES ASSUME IInv, [Next]_vars, pc' = "overrun"
             PROVE  LongLine' \/ Cardinality(LineEnds') > HEADERS
  BY DEF OverrunsOnlyOnSize
<1> USE DEF CR, LF, SP, NUL, COLON
<1>0. LongLine' = LongLine /\ LineEnds' = LineEnds
  <2>1. UNCHANGED source
    BY DEF Next, Blank, NewHeader, Skip, Colon, Put, Overrun, TextEnds, vars
  <2>2. QED
    BY <2>1 DEF LongLine, LineEnds
<1>1. source \in Sources /\ i \in 0..BSIZE /\ i \in Nat /\ lastOffset \in Nat /\ currline \in Nat
      /\ BSIZE \in Nat /\ CAP \in Nat /\ HEADERS \in Nat
  BY BsizeAssumption, CapAssumption DEF IInv, Behind
<1>2. CASE pc = "overrun"
  BY <1>0, <1>2 DEF IInv, OverrunsOnlyOnSize
<1>3. CASE Overrun
  <2>1. CASE Writing /\ i - lastOffset \notin 0..(CAP - 1)
    <3> DEFINE b == (i - CAP) + 1
    <3>1. lastOffset <= i /\ \A j \in lastOffset..i : request[j] # LF
      BY <1>1, <2>1 DEF Writing, IInv, InLine
    <3>2. i - CAP >= lastOffset
      BY <1>1, <2>1, <3>1
    <3>3. i + 1 \in 1..Len(source.text) /\ Len(source.text) \in Nat
      <4>1. request[i] # NUL
        BY <2>1 DEF Writing
      <4>2. QED
        BY <1>1, <4>1, Terminated, SourcesAssumption
    <3>4. b \in 1..Len(source.text) /\ b + CAP = i + 1 /\ b + CAP <= Len(source.text)
      BY <1>1, <3>2, <3>3
    <3>5. ASSUME NEW k \in b..(b + CAP) PROVE source.text[k] # LF
      <4>1. k \in 1..Len(source.text) /\ k - 1 \in lastOffset..i
        BY <1>1, <3>2, <3>3, <3>4
      <4>2. request[k - 1] = source.text[k]
        BY <1>1, <4>1, TextCells
      <4>3. QED
        BY <3>1, <4>1, <4>2
    <3> HIDE DEF b
    <3>6. LongLine
      BY <3>4, <3>5 DEF LongLine
    <3>7. QED
      BY <1>0, <3>6
  <2>2. CASE HeaderStarts /\ currline >= HEADERS
    <3>1. pc = "scan" /\ request[i] = LF
      BY <2>2 DEF HeaderStarts, At
    <3>2. Cardinality(Seen(i)) = currline
      BY <3>1 DEF IInv, Counted
    <3>3. Cardinality(LineEnds) >= Cardinality(Seen(i)) + 1
      BY <1>1, <3>1, SeenNext
    <3>4. Cardinality(LineEnds) >= currline + 1
      BY <3>2, <3>3
    <3>5. IsFiniteSet(LineEnds)
      <4>1. LineEnds \subseteq 1..Len(source.text) /\ IsFiniteSet(1..Len(source.text))
        BY <1>1, SourcesAssumption, FS_Interval DEF LineEnds
      <4>2. QED
        BY <4>1, FS_Subset
    <3>6. Cardinality(LineEnds) \in Nat
      BY <3>5, FS_CardinalityType
    <3> DEFINE ends == Cardinality(LineEnds)
    <3>7. ends \in Nat /\ ends >= currline + 1
      BY <3>4, <3>6
    <3> HIDE DEF ends
    <3>8. ends > HEADERS
      BY <1>1, <2>2, <3>7
    <3>9. QED
      BY <1>0, <3>8 DEF ends
  <2>3. QED
    BY <1>3, <2>1, <2>2 DEF Overrun
<1>4. CASE ~Overrun /\ pc # "overrun"
  BY <1>4 DEF Next, Blank, NewHeader, HeaderStarts, Skip, Colon, Put, Writing, TextEnds, At, vars
<1>5. QED
  BY <1>2, <1>3, <1>4

LEMMA NextIInv == IInv /\ [Next]_vars => IInv'
BY NextBehind, NextCounted, NextOverrun DEF IInv

LEMMA Inductive == Spec => []IInv
BY InitIInv, NextIInv, PTL DEF Spec

-----------------------------------------------------------------------------

\* The loop accepts exactly the texts in which some line end is followed by a
\* blank line (http.c:36-74), for every text and every size of the buffer.
THEOREM LoopAccepts == Spec => []AcceptsHeaderBlocks
<1>1. IInv => AcceptsHeaderBlocks
  <2> SUFFICES ASSUME IInv, pc \in {"done", "failed"}
               PROVE  pc = "done" <=> parse_headers_only(request)
    BY DEF AcceptsHeaderBlocks
  <2> USE BsizeAssumption DEF CR, LF, NUL
  <2>0. request[BSIZE] = NUL
    BY Terminated DEF IInv, Behind
  <2>1. CASE pc = "done"
    <3>1. i - 1 \in 0..(BSIZE - 2) /\ (i - 1) + 1 = i /\ (i - 1) + 2 = i + 1
      BY <2>0, <2>1 DEF IInv, Behind, BlankAt
    <3>2. QED
      BY <2>1, <3>1 DEF IInv, Behind, BlankAt, parse_headers_only
  <2>2. CASE pc = "failed"
    <3>1. ASSUME NEW k \in 0..(BSIZE - 2), BlankAt(k), \A j \in 0..k : request[j] # NUL
          PROVE  FALSE
      BY <2>2, <3>1 DEF IInv, Behind
    <3>2. QED
      BY <2>2, <3>1 DEF parse_headers_only, BlankAt
  <2>3. QED
    BY <2>1, <2>2
<1>2. QED
  BY <1>1, Inductive, PTL

\* The loop writes outside its memory only when a line is longer than a block
\* or there are more line ends than the array has headers: for every text, with
\* nothing assumed of its lines (http.c:45-71).
THEOREM OverrunsExplained == Spec => []OverrunsOnlyOnSize
<1>1. IInv => OverrunsOnlyOnSize
  BY DEF IInv
<1>2. QED
  BY <1>1, Inductive, PTL

-----------------------------------------------------------------------------
(* The blocks keep their size. *)

Cells == {request[k] : k \in 0..BSIZE} \union STRING
Blocks == [0..(CAP - 1) -> Cells]
Headers == [key : Blocks, value : Blocks]

\* The blocks exist, and a header for every line begun.
Shape ==
  /\ lastOffset <= i /\ currline <= i
  /\ firstColon \in BOOLEAN /\ currPointer \in {"key", "value"}
  /\ header_count \in 0..BSIZE
  /\ ar \in Seq(Headers) /\ malloced \in Seq(Memory) /\ Len(malloced) = Len(ar)
  /\ pc = "scan" => Len(ar) = currline

LEMMA InputKept == [Next]_vars => UNCHANGED <<source, request>>
BY DEF Next, Blank, NewHeader, Skip, Colon, Put, Overrun, TextEnds, vars, request

\* A write changes one cell of one block.
LEMMA PutCell ==
  ASSUME IInv, Shape, Put
  PROVE  /\ currline \in 1..Len(ar)
         /\ ar' \in Seq(Headers) /\ Len(ar') = Len(ar)
         /\ \A n \in 1..Len(ar) : n # currline => ar'[n] = ar[n]
         /\ currPointer = "key" =>
              /\ ar'[currline].key = [ar[currline].key EXCEPT ![i - lastOffset] = request[i]]
              /\ ar'[currline].value = ar[currline].value
         /\ currPointer = "value" =>
              /\ ar'[currline].value = [ar[currline].value EXCEPT ![i - lastOffset] = request[i]]
              /\ ar'[currline].key = ar[currline].key
<1>1. currline \in 1..Len(ar) /\ ar \in Seq(Headers) /\ currPointer \in {"key", "value"}
  BY DEF Put, Writing, Shape, IInv, Behind
<1>2. request[i] \in Cells
  BY DEF IInv, Behind, Cells
<1>3. ar[currline] \in Headers
  BY <1>1
<1>4. ar' = [ar EXCEPT ![currline] =
               [ar[currline] EXCEPT ![currPointer] =
                 [ar[currline][currPointer] EXCEPT ![i - lastOffset] = request[i]]]]
  BY <1>1 DEF Put
<1>5. CASE currPointer = "key"
  <2> DEFINE block == [ar[currline].key EXCEPT ![i - lastOffset] = request[i]]
             header == [ar[currline] EXCEPT !.key = block]
  <2>1. block \in Blocks
    BY <1>2, <1>3 DEF Headers, Blocks
  <2>2. header \in Headers /\ header.key = block /\ header.value = ar[currline].value
    <3> HIDE DEF block
    <3>1. QED
      BY <1>3, <2>1 DEF Headers
  <2>3. ar' = [ar EXCEPT ![currline] = header]
    BY <1>4, <1>5
  <2> HIDE DEF header, block
  <2>4. /\ ar' \in Seq(Headers) /\ Len(ar') = Len(ar) /\ ar'[currline] = header
        /\ \A n \in 1..Len(ar) : n # currline => ar'[n] = ar[n]
    BY <1>1, <2>2, <2>3
  <2>5. QED
    BY <1>1, <1>5, <2>2, <2>4 DEF block
<1>6. CASE currPointer = "value"
  <2> DEFINE block == [ar[currline].value EXCEPT ![i - lastOffset] = request[i]]
             header == [ar[currline] EXCEPT !.value = block]
  <2>1. block \in Blocks
    BY <1>2, <1>3 DEF Headers, Blocks
  <2>2. header \in Headers /\ header.value = block /\ header.key = ar[currline].key
    <3> HIDE DEF block
    <3>1. QED
      BY <1>3, <2>1 DEF Headers
  <2>3. ar' = [ar EXCEPT ![currline] = header]
    BY <1>4, <1>6
  <2> HIDE DEF header, block
  <2>4. /\ ar' \in Seq(Headers) /\ Len(ar') = Len(ar) /\ ar'[currline] = header
        /\ \A n \in 1..Len(ar) : n # currline => ar'[n] = ar[n]
    BY <1>1, <2>2, <2>3
  <2>5. QED
    BY <1>1, <1>6, <2>2, <2>4 DEF block
<1>7. QED
  BY <1>1, <1>5, <1>6

\* The blocks of a new header hold what lay there.
LEMMA NewCell ==
  ASSUME IInv, Shape, NewHeader
  PROVE  /\ ar' \in Seq(Headers) /\ Len(ar') = Len(ar) + 1
         /\ malloced' \in Seq(Memory) /\ Len(malloced') = Len(ar) + 1
         /\ \A n \in 1..Len(ar) : ar'[n] = ar[n] /\ malloced'[n] = malloced[n]
         /\ ar'[Len(ar) + 1] = malloced'[Len(ar) + 1]
<1>1. PICK old \in Memory : ar' = Append(ar, old) /\ malloced' = Append(malloced, old)
  BY DEF NewHeader
<1>2. old \in Headers
  <2>1. [0..(CAP - 1) -> STRING] \subseteq Blocks
    BY DEF Blocks, Cells
  <2>2. old \in [key : [0..(CAP - 1) -> STRING], value : [0..(CAP - 1) -> STRING]]
    BY MemoryAssumption
  <2> HIDE DEF Blocks
  <2>3. QED
    BY <2>1, <2>2 DEF Headers
<1>3. ar \in Seq(Headers) /\ malloced \in Seq(Memory) /\ Len(malloced) = Len(ar)
  BY DEF Shape
<1> HIDE DEF Headers
<1>4. QED
  BY <1>1, <1>2, <1>3, AppendProperties

LEMMA InitShape == Init => Shape
<1> SUFFICES ASSUME Init PROVE Shape
  OBVIOUS
<1>1. <<>> \in Seq(Headers) /\ <<>> \in Seq(Memory) /\ Len(<<>>) = 0
  BY EmptySeq
<1>2. ar = <<>> /\ malloced = <<>> /\ currline = 0
  BY DEF Init
<1>3. /\ ar \in Seq(Headers) /\ Len(ar) = currline
      /\ malloced \in Seq(Memory) /\ Len(malloced) = Len(ar)
  BY <1>1, <1>2
<1>4. lastOffset = 0 /\ i = 0 /\ currPointer = "key" /\ header_count = 0
  BY DEF Init
<1>5. firstColon \in BOOLEAN
  BY Zenon DEF Init
<1>6. QED
  BY <1>2, <1>3, <1>4, <1>5, BsizeAssumption DEF Shape

LEMMA NextShape == IInv /\ Shape /\ [Next]_vars => Shape'
<1> SUFFICES ASSUME IInv, Shape, [Next]_vars PROVE Shape'
  OBVIOUS
<1>0. UNCHANGED <<source, request>> /\ UNCHANGED Headers
  BY InputKept DEF Headers, Blocks, Cells
<1>1. i \in 0..BSIZE /\ currline \in Nat /\ lastOffset \in Nat /\ BSIZE \in Nat
  BY BsizeAssumption DEF IInv, Behind
<1>2. CASE Blank
  BY <1>0, <1>1, <1>2 DEF Blank, At, headers, Shape
<1>3. CASE NewHeader
  <2>1. /\ ar' \in Seq(Headers) /\ Len(ar') = Len(ar) + 1
        /\ malloced' \in Seq(Memory) /\ Len(malloced') = Len(ar) + 1
    BY <1>3, NewCell
  <2>2. /\ pc = "scan" /\ Len(ar) = currline /\ currline' = currline + 1 /\ i' = i + 1
        /\ lastOffset' = i' /\ currPointer' = "key"
        /\ UNCHANGED <<pc, header_count>>
    BY <1>3 DEF NewHeader, HeaderStarts, At, Shape
  <2>3. firstColon' \in BOOLEAN
    BY <1>3, Zenon DEF NewHeader
  <2>4. QED
    <3>1. /\ ar' \in Seq(Headers)' /\ malloced' \in Seq(Memory)
          /\ Len(malloced') = Len(ar')
      BY <1>0, <2>1
    <3>2. /\ lastOffset' <= i' /\ currline' <= i'
          /\ firstColon' \in BOOLEAN /\ currPointer' \in {"key", "value"}
          /\ header_count' \in 0..BSIZE /\ Len(ar') = currline'
      BY <1>1, <2>1, <2>2, <2>3 DEF Shape
    <3>3. QED
      BY <3>1, <3>2 DEF Shape
<1>4. CASE Skip
  BY <1>0, <1>1, <1>4 DEF Skip, line, headers, Shape
<1>5. CASE Colon
  BY <1>0, <1>1, <1>5 DEF Colon, At, headers, Shape
<1>6. CASE Put
  <2>1. ar' \in Seq(Headers) /\ Len(ar') = Len(ar)
    BY <1>6, PutCell
  <2>2. QED
    BY <1>0, <1>1, <1>6, <2>1 DEF Put, Writing, line, Shape
<1>7. CASE TextEnds
  BY <1>0, <1>1, <1>7 DEF TextEnds, At, line, headers, Shape
<1>8. CASE Overrun
  BY <1>0, <1>1, <1>8 DEF Overrun, line, headers, Shape
<1>9. CASE UNCHANGED vars
  BY <1>0, <1>1, <1>9 DEF vars, line, headers, Shape
<1>10. QED
  BY <1>2, <1>3, <1>4, <1>5, <1>6, <1>7, <1>8, <1>9 DEF Next

LEMMA AlwaysShape == Spec => [](IInv /\ Shape)
BY InitIInv, NextIInv, InitShape, NextShape, PTL DEF Spec

\* The loop keeps within the buffer, and never changes a block's size
\* (http.c:36-74).
THEOREM ParserTypes == Spec => []TypeOK
<1>1. IInv /\ Shape => TypeOK
  <2> SUFFICES ASSUME IInv, Shape PROVE TypeOK
    OBVIOUS
  <2>1. ASSUME NEW n \in DOMAIN ar
        PROVE  DOMAIN ar[n].key = 0..(CAP - 1) /\ DOMAIN ar[n].value = 0..(CAP - 1)
    <3>1. ar[n] \in Headers
      BY <2>1 DEF Shape
    <3>2. QED
      BY <3>1 DEF Headers, Blocks
  <2>2. QED
    BY <2>1, BsizeAssumption DEF IInv, Behind, Shape, TypeOK
<1>2. QED
  BY <1>1, AlwaysShape, PTL

-----------------------------------------------------------------------------
(* A text rendered from fields, as the cursor meets it. *)

KeyAt(n) == source.starts[n] - 1
ColonAt(n) == KeyAt(n) + Len(source.fields[n].key)
ValueAt(n) == ValueStart(source, n) - 1
EndAt(n) == ValueAt(n) + Len(source.fields[n].value)

LEMMA Shift ==
  ASSUME NEW b \in Nat, NEW size \in Nat, NEW k \in 0..(size - 1)
  PROVE  k + 1 \in 1..size /\ b + (k + 1) - 1 = b + k /\ (b + k) - 1 = (b - 1) + k
OBVIOUS

\* Where the parts of a line stand.
LEMMA Places ==
  ASSUME NEW b \in Nat, NEW size \in Nat, NEW keysize \in Nat, NEW valuesize \in Nat,
         NEW v \in {(b + keysize) + 1, (b + keysize) + 2},
         b >= 2, (v + valuesize) + 2 \in 2..size
  PROVE  /\ b + keysize \in 1..size /\ (b + keysize) + 1 \in 1..size
         /\ v \in Nat /\ v + valuesize \in 1..size /\ (v + valuesize) + 1 \in 1..size
         /\ \A k \in 0..(keysize - 1) : b + k \in 1..size
         /\ \A k \in 0..(valuesize - 1) : v + k \in 1..size
         /\ (b - 1) + keysize = (b + keysize) - 1
         /\ ((b + keysize) + 1) - 1 = ((b + keysize) - 1) + 1
         /\ (v - 1) + valuesize = (v + valuesize) - 1
         /\ ((v + valuesize) + 1) - 1 = ((v + valuesize) - 1) + 1
         /\ ((v + valuesize) + 2) - 1 = ((v + valuesize) - 1) + 2
OBVIOUS

\* The line of a field.
LEMMA LineFacts ==
  ASSUME source \in Sources, source.rendered, NEW n \in 1..Len(source.fields)
  PROVE  LET key == source.fields[n].key
             value == source.fields[n].value
         IN  /\ Len(key) \in Nat /\ Len(value) \in Nat
             /\ KeyAt(n) \in Nat /\ KeyAt(n + 1) = EndAt(n) + 2
             /\ KeyAt(n + 1) < Len(source.text)
             /\ \A k \in 0..(Len(key) - 1) :
                  request[KeyAt(n) + k] = key[k + 1] /\ key[k + 1] \notin {NUL, CR, LF, COLON}
             /\ request[ColonAt(n)] = COLON
             /\ ValueAt(n) = IF request[ColonAt(n) + 1] = SP THEN ColonAt(n) + 2 ELSE ColonAt(n) + 1
             /\ \A k \in 0..(Len(value) - 1) :
                  request[ValueAt(n) + k] = value[k + 1] /\ value[k + 1] \notin {NUL, CR, LF}
             /\ request[EndAt(n)] = CR /\ request[EndAt(n) + 1] = LF
<1> DEFINE text == source.text
           b == source.starts[n]
           key == source.fields[n].key
           value == source.fields[n].value
           v == ValueStart(source, n)
<1>1. /\ b \in 2..Len(text) /\ source.starts[n + 1] \in 2..Len(text)
      /\ key \in Seq(Range(text)) /\ value \in Seq(Range(text))
      /\ FieldLine(source, n)
  <2>1. /\ \A m \in 1..(Len(source.fields) + 1) : source.starts[m] \in 2..Len(text)
        /\ \A m \in 1..Len(source.fields) : FieldLine(source, m)
        /\ source.fields \in Seq([key : Seq(Range(text)), value : Seq(Range(text))])
    BY RenderedAssumption DEF Rendered
  <2>2. Len(source.fields) \in Nat
    BY <2>1, LenProperties
  <2>3. n \in 1..(Len(source.fields) + 1) /\ n + 1 \in 1..(Len(source.fields) + 1)
    BY <2>2
  <2>4. source.fields[n] \in [key : Seq(Range(text)), value : Seq(Range(text))]
    <3> DEFINE Field == [key : Seq(Range(text)), value : Seq(Range(text))]
    <3>1. source.fields \in Seq(Field)
      BY <2>1
    <3> HIDE DEF Field
    <3>2. source.fields[n] \in Field
      BY <3>1, ElementOfSeq
    <3>3. QED
      BY <3>2 DEF Field
  <2>5. key \in Seq(Range(text)) /\ value \in Seq(Range(text))
    BY <2>4
  <2> HIDE DEF text, b, key, value
  <2>6. b \in 2..Len(text) /\ source.starts[n + 1] \in 2..Len(text) /\ FieldLine(source, n)
    BY <2>1, <2>3 DEF b
  <2>7. QED
    BY <2>5, <2>6
<1>2. Len(key) \in Nat /\ Len(value) \in Nat /\ Len(text) \in Nat /\ b \in Nat /\ b >= 2
  BY <1>1, SourcesAssumption, LenProperties
<1>3. v = IF text[(b + Len(key)) + 1] = SP THEN (b + Len(key)) + 2 ELSE (b + Len(key)) + 1
  BY DEF ValueStart
<1>4. /\ \A k \in 1..Len(key) : text[b + k - 1] = key[k] /\ key[k] \notin {NUL, CR, LF, COLON}
      /\ text[b + Len(key)] = COLON
      /\ \A k \in 1..Len(value) : text[v + k - 1] = value[k] /\ value[k] \notin {NUL, CR, LF}
      /\ text[v + Len(value)] = CR /\ text[(v + Len(value)) + 1] = LF
      /\ source.starts[n + 1] = (v + Len(value)) + 2
  BY <1>1 DEF FieldLine
<1>5. \A k \in 1..Len(text) : request[k - 1] = text[k]
  BY TextCells
<1>6. /\ KeyAt(n) = b - 1 /\ KeyAt(n + 1) = source.starts[n + 1] - 1 /\ ValueAt(n) = v - 1
      /\ ColonAt(n) = (b - 1) + Len(key) /\ EndAt(n) = (v - 1) + Len(value)
  BY DEF KeyAt, ColonAt, ValueAt, EndAt
<1>7. v \in {(b + Len(key)) + 1, (b + Len(key)) + 2} /\ (v + Len(value)) + 2 \in 2..Len(text)
  BY <1>1, <1>3, <1>4
<1> DEFINE keysize == Len(key)  valuesize == Len(value)  size == Len(text)
<1>8. /\ b + keysize \in 1..size /\ (b + keysize) + 1 \in 1..size
      /\ v \in Nat /\ v + valuesize \in 1..size /\ (v + valuesize) + 1 \in 1..size
      /\ \A k \in 0..(keysize - 1) : b + k \in 1..size
      /\ \A k \in 0..(valuesize - 1) : v + k \in 1..size
      /\ (b - 1) + keysize = (b + keysize) - 1
      /\ ((b + keysize) + 1) - 1 = ((b + keysize) - 1) + 1
      /\ (v - 1) + valuesize = (v + valuesize) - 1
      /\ ((v + valuesize) + 1) - 1 = ((v + valuesize) - 1) + 1
      /\ ((v + valuesize) + 2) - 1 = ((v + valuesize) - 1) + 2
  <2> HIDE DEF b, v, keysize, valuesize, size
  <2>1. b \in Nat /\ size \in Nat /\ keysize \in Nat /\ valuesize \in Nat /\ b >= 2
    BY <1>2 DEF keysize, valuesize, size
  <2>2. v \in {(b + keysize) + 1, (b + keysize) + 2} /\ (v + valuesize) + 2 \in 2..size
    BY <1>7 DEF keysize, valuesize, size
  <2>3. QED
    BY <2>1, <2>2, Places
<1> HIDE DEF text, b, key, value, v, keysize, valuesize, size
<1>9. ASSUME NEW k \in 0..(keysize - 1)
      PROVE  request[KeyAt(n) + k] = key[k + 1] /\ key[k + 1] \notin {NUL, CR, LF, COLON}
  <2>1. k + 1 \in 1..keysize /\ b + (k + 1) - 1 = b + k /\ (b + k) - 1 = (b - 1) + k
    BY <1>2, Shift DEF keysize
  <2>2. text[b + k] = key[k + 1] /\ key[k + 1] \notin {NUL, CR, LF, COLON}
    BY <1>4, <2>1 DEF keysize
  <2>3. request[(b + k) - 1] = text[b + k]
    BY <1>5, <1>8 DEF size
  <2>4. QED
    BY <1>6, <2>1, <2>2, <2>3
<1>10. ASSUME NEW k \in 0..(valuesize - 1)
       PROVE  request[ValueAt(n) + k] = value[k + 1] /\ value[k + 1] \notin {NUL, CR, LF}
  <2>1. k + 1 \in 1..valuesize /\ v + (k + 1) - 1 = v + k /\ (v + k) - 1 = (v - 1) + k
    BY <1>2, <1>8, Shift DEF valuesize
  <2>2. text[v + k] = value[k + 1] /\ value[k + 1] \notin {NUL, CR, LF}
    BY <1>4, <2>1 DEF valuesize
  <2>3. request[(v + k) - 1] = text[v + k]
    BY <1>5, <1>8 DEF size
  <2>4. QED
    BY <1>6, <2>1, <2>2, <2>3
<1>11. ColonAt(n) = (b + keysize) - 1 /\ EndAt(n) = (v + valuesize) - 1
  BY <1>6, <1>8 DEF keysize, valuesize
<1>12. request[ColonAt(n)] = COLON /\ request[EndAt(n)] = CR
  <2>1. request[(b + keysize) - 1] = text[b + keysize] /\ request[(v + valuesize) - 1] = text[v + valuesize]
    BY <1>5, <1>8 DEF size
  <2>2. QED
    BY <1>4, <1>11, <2>1 DEF keysize, valuesize
<1>13. request[EndAt(n) + 1] = LF /\ request[ColonAt(n) + 1] = text[(b + keysize) + 1]
  <2>1. /\ request[((b + keysize) + 1) - 1] = text[(b + keysize) + 1]
        /\ request[((v + valuesize) + 1) - 1] = text[(v + valuesize) + 1]
    BY <1>5, <1>8 DEF size
  <2>2. EndAt(n) + 1 = ((v + valuesize) + 1) - 1 /\ ColonAt(n) + 1 = ((b + keysize) + 1) - 1
    BY <1>8, <1>11
  <2>3. QED
    BY <1>4, <2>1, <2>2 DEF valuesize
<1>14. ValueAt(n) = IF request[ColonAt(n) + 1] = SP THEN ColonAt(n) + 2 ELSE ColonAt(n) + 1
  <2>1. v = IF text[(b + keysize) + 1] = SP THEN (b + keysize) + 2 ELSE (b + keysize) + 1
    BY <1>3 DEF keysize
  <2>2. ((b + keysize) + 2) - 1 = ((b + keysize) - 1) + 2 /\ ((b + keysize) + 1) - 1 = ((b + keysize) - 1) + 1
    BY <1>2 DEF keysize
  <2>3. QED
    BY <1>6, <1>11, <1>13, <2>1, <2>2
<1>15. KeyAt(n) \in Nat /\ KeyAt(n + 1) = EndAt(n) + 2 /\ KeyAt(n + 1) < size
  <2>1. source.starts[n + 1] = (v + valuesize) + 2 /\ (v + valuesize) + 2 \in 2..size
    BY <1>4, <1>7 DEF valuesize, size
  <2>2. KeyAt(n) = b - 1 /\ KeyAt(n + 1) = source.starts[n + 1] - 1 /\ b \in Nat /\ b >= 2
        /\ v + valuesize \in Nat /\ size \in Nat
    BY <1>2, <1>6, <1>8 DEF size
  <2>3. QED
    BY <1>8, <1>11, <2>1, <2>2
<1>16. QED
  BY <1>2, <1>9, <1>10, <1>12, <1>13, <1>14, <1>15 DEF text, key, value, keysize, valuesize, size

\* The first line and the blank line.
LEMMA EdgeFacts ==
  ASSUME source \in Sources, source.rendered
  PROVE  LET last == Len(source.fields) + 1
         IN  /\ Len(source.fields) \in Nat
             /\ KeyAt(1) \in Nat \ {0} /\ KeyAt(last) \in Nat
             /\ \A j \in 0..(KeyAt(1) - 1) : request[j] # NUL
             /\ \A j \in 0..(KeyAt(1) - 2) : request[j] # LF
             /\ request[KeyAt(1) - 1] = LF
             /\ request[KeyAt(last)] = CR /\ request[KeyAt(last) + 1] = LF
<1> DEFINE text == source.text
           first == source.starts[1]
           last == Len(source.fields) + 1
           blank == source.starts[last]
<1>1. /\ \A m \in 1..last : source.starts[m] \in 2..Len(text)
      /\ \A k \in 1..(first - 1) : text[k] # NUL
      /\ \A k \in 1..(first - 2) : text[k] # LF
      /\ text[first - 1] = LF
      /\ text[blank] = CR /\ text[blank + 1] = LF /\ blank + 1 = Len(text)
  BY RenderedAssumption DEF Rendered
<1>2. Len(source.fields) \in Nat /\ Len(text) \in Nat
  <2>1. source.fields \in Seq([key : Seq(Range(text)), value : Seq(Range(text))])
    BY RenderedAssumption DEF Rendered
  <2>2. QED
    BY <2>1, SourcesAssumption, LenProperties
<1>3. first \in 2..Len(text) /\ blank \in 2..Len(text)
  <2>1. 1 \in 1..last /\ last \in 1..last
    BY <1>2
  <2> HIDE DEF text, last
  <2>2. QED
    BY <1>1, <2>1
<1>4. KeyAt(1) = first - 1 /\ KeyAt(last) = blank - 1
  BY DEF KeyAt
<1>5. \A k \in 1..Len(text) : request[k - 1] = text[k]
  BY TextCells
<1> HIDE DEF text, first, last, blank
<1>6. ASSUME NEW j \in 0..(KeyAt(1) - 1)
      PROVE  request[j] = text[j + 1] /\ j + 1 \in 1..(first - 1)
  <2>1. j + 1 \in 1..Len(text) /\ (j + 1) - 1 = j /\ j + 1 \in 1..(first - 1)
    BY <1>2, <1>3, <1>4
  <2>2. QED
    BY <1>5, <2>1
<1>7. KeyAt(1) \in Nat \ {0} /\ KeyAt(last) \in Nat
  BY <1>2, <1>3, <1>4
<1>8. KeyAt(1) - 1 \in 0..(KeyAt(1) - 1) /\ (KeyAt(1) - 1) + 1 = first - 1
  BY <1>2, <1>3, <1>4
<1>9. ASSUME NEW j \in 0..(KeyAt(1) - 2) PROVE request[j] # LF
  <2>1. j \in 0..(KeyAt(1) - 1) /\ j + 1 \in 1..(first - 2)
    BY <1>2, <1>3, <1>4
  <2>2. QED
    BY <1>1, <1>6, <2>1
<1>10. request[KeyAt(last)] = CR /\ request[KeyAt(last) + 1] = LF
  <2>1. blank \in 1..Len(text) /\ blank + 1 \in 1..Len(text)
    BY <1>1, <1>2, <1>3
  <2>2. request[blank - 1] = text[blank] /\ request[(blank + 1) - 1] = text[blank + 1]
    BY <1>5, <2>1
  <2>3. (blank + 1) - 1 = KeyAt(last) + 1
    BY <1>2, <1>3, <1>4
  <2>4. QED
    BY <1>1, <1>4, <2>2, <2>3
<1>11. \A j \in 0..(KeyAt(1) - 1) : request[j] # NUL
  BY <1>1, <1>6
<1>12. request[KeyAt(1) - 1] = LF
  BY <1>1, <1>6, <1>8
<1>13. QED
  BY <1>2, <1>7, <1>9, <1>10, <1>11, <1>12 DEF last

-----------------------------------------------------------------------------
(* How far a rendered text has been read. *)

\* The first n cells of the string are in the block, which has room for them,
\* and nothing else has been written over what lay there.
Written(block, string, n, old) ==
  /\ \A k \in Nat : k < n /\ k < Len(string) => k < CAP
  /\ \A k \in 0..(CAP - 1) :
       block[k] = IF k < n /\ k < Len(string) THEN string[k + 1] ELSE old[k]

Complete(n) ==
  /\ Written(ar[n].key, source.fields[n].key, Len(source.fields[n].key), malloced[n].key)
  /\ Written(ar[n].value, source.fields[n].value, Len(source.fields[n].value), malloced[n].value)

InKey(n) ==
  /\ currPointer = "key" /\ lastOffset = KeyAt(n) /\ i <= ColonAt(n)
  /\ Written(ar[n].key, source.fields[n].key, i - KeyAt(n), malloced[n].key)
  /\ Written(ar[n].value, source.fields[n].value, 0, malloced[n].value)

InValue(n) ==
  /\ currPointer = "value" /\ lastOffset = ValueAt(n) /\ i <= EndAt(n) + 1
  /\ Written(ar[n].key, source.fields[n].key, Len(source.fields[n].key), malloced[n].key)
  /\ Written(ar[n].value, source.fields[n].value, i - ValueAt(n), malloced[n].value)

Cursor ==
  /\ currline <= Len(source.fields)
  /\ \A n \in 1..(currline - 1) : Complete(n)
  /\ currline = 0 => i < KeyAt(1)
  /\ currline > 0 /\ ~firstColon => InKey(currline)
  /\ currline > 0 /\ firstColon => InValue(currline)

ReadSoFar ==
  source.rendered =>
    /\ pc = "scan" => Cursor
    /\ pc = "done" => header_count = Len(source.fields) /\ \A n \in 1..header_count : Complete(n)
    /\ pc # "failed"

LEMMA WriteNext ==
  ASSUME NEW block \in Blocks, NEW string, NEW old, Len(string) \in Nat,
         NEW n \in 0..(CAP - 1), n < Len(string), Written(block, string, n, old)
  PROVE  Written([block EXCEPT ![n] = string[n + 1]], string, n + 1, old)
<1> DEFINE next == [block EXCEPT ![n] = string[n + 1]]
<1>1. CAP \in Nat /\ n \in Nat /\ n < CAP
  BY CapAssumption
<1>2. \A k \in Nat : (k < n + 1) <=> (k < n \/ k = n)
  BY <1>1
<1>3. \A k \in Nat : k < n + 1 /\ k < Len(string) => k < CAP
  BY <1>1, <1>2 DEF Written
<1>4. ASSUME NEW k \in 0..(CAP - 1)
      PROVE  next[k] = IF k < n + 1 /\ k < Len(string) THEN string[k + 1] ELSE old[k]
  <2>1. next[k] = IF k = n THEN string[n + 1] ELSE block[k]
    BY DEF Blocks
  <2>2. block[k] = IF k < n /\ k < Len(string) THEN string[k + 1] ELSE old[k]
    BY DEF Written
  <2>3. (k < n + 1) <=> (k < n \/ k = n)
    BY <1>2
  <2> HIDE DEF next
  <2>4. QED
    BY <2>1, <2>2, <2>3
<1> HIDE DEF next
<1>5. QED
  BY <1>3, <1>4 DEF Written, next

\* A cell behind the string's end changes nothing.
LEMMA WrittenPast ==
  ASSUME NEW block, NEW string, NEW old, Len(string) \in Nat
  PROVE  Written(block, string, Len(string), old) <=> Written(block, string, Len(string) + 1, old)
<1> DEFINE size == Len(string)
<1>1. \A k \in Nat : (k < size + 1 /\ k < size) <=> (k < size /\ k < size)
  OBVIOUS
<1>2. \A k \in 0..(CAP - 1) : k \in Nat
  OBVIOUS
<1> HIDE DEF size
<1>3. QED
  BY <1>1, <1>2 DEF Written, size

\* The cell under the cursor, in the line of a field.
LEMMA CursorCell ==
  ASSUME IInv, Shape, Cursor, source.rendered, pc = "scan", currline > 0
  PROVE  LET n == currline
             key == source.fields[n].key
             value == source.fields[n].value
         IN  /\ n \in 1..Len(source.fields) /\ Len(source.fields) \in Nat
             /\ ~firstColon =>
                  /\ i \in KeyAt(n)..ColonAt(n)
                  /\ i = ColonAt(n) => request[i] = COLON
                  /\ i # ColonAt(n) =>
                       /\ i - KeyAt(n) \in Nat /\ i - KeyAt(n) < Len(key)
                       /\ request[i] = key[(i - KeyAt(n)) + 1]
                       /\ request[i] \notin {NUL, CR, LF, COLON}
             /\ firstColon =>
                  /\ i \in ValueAt(n)..(EndAt(n) + 1)
                  /\ i = EndAt(n) => request[i] = CR
                  /\ i = EndAt(n) + 1 => request[i] = LF
                  /\ i \notin {EndAt(n), EndAt(n) + 1} =>
                       /\ i - ValueAt(n) \in Nat /\ i - ValueAt(n) < Len(value)
                       /\ request[i] = value[(i - ValueAt(n)) + 1]
                       /\ request[i] \notin {NUL, CR, LF}
<1> DEFINE n == currline
           key == source.fields[n].key
           value == source.fields[n].value
<1>1. source \in Sources /\ i \in Nat /\ lastOffset <= i /\ currline \in Nat
  BY BsizeAssumption DEF IInv, Behind, Shape
<1>2. Len(source.fields) \in Nat
  BY <1>1, EdgeFacts
<1>3. n \in 1..Len(source.fields)
  BY <1>1, <1>2 DEF Cursor
<1>4. /\ Len(key) \in Nat /\ Len(value) \in Nat
      /\ KeyAt(n) \in Nat
      /\ \A k \in 0..(Len(key) - 1) :
           request[KeyAt(n) + k] = key[k + 1] /\ key[k + 1] \notin {NUL, CR, LF, COLON}
      /\ request[ColonAt(n)] = COLON
      /\ ValueAt(n) = IF request[ColonAt(n) + 1] = SP THEN ColonAt(n) + 2 ELSE ColonAt(n) + 1
      /\ \A k \in 0..(Len(value) - 1) :
           request[ValueAt(n) + k] = value[k + 1] /\ value[k + 1] \notin {NUL, CR, LF}
      /\ request[EndAt(n)] = CR /\ request[EndAt(n) + 1] = LF
  BY <1>1, <1>3, LineFacts
<1>5. Len(key) \in Nat /\ Len(value) \in Nat
  BY <1>4
<1>6. ColonAt(n) = KeyAt(n) + Len(key) /\ EndAt(n) = ValueAt(n) + Len(value)
  BY DEF ColonAt, EndAt
<1>7. ColonAt(n) \in Nat /\ ValueAt(n) \in Nat /\ EndAt(n) \in Nat
  <2>1. ValueAt(n) = ColonAt(n) + 1 \/ ValueAt(n) = ColonAt(n) + 2
    <3>1. ValueAt(n) = IF request[ColonAt(n) + 1] = SP THEN ColonAt(n) + 2 ELSE ColonAt(n) + 1
      BY <1>4
    <3>2. QED
      BY <3>1
  <2>2. KeyAt(n) \in Nat /\ Len(key) \in Nat /\ Len(value) \in Nat
    BY <1>4
  <2> HIDE DEF n, key, value
  <2>3. QED
    BY <1>6, <2>1, <2>2
<1>8. ASSUME ~firstColon
      PROVE  /\ i \in KeyAt(n)..ColonAt(n)
             /\ i = ColonAt(n) => request[i] = COLON
             /\ i # ColonAt(n) =>
                  /\ i - KeyAt(n) \in Nat /\ i - KeyAt(n) < Len(key)
                  /\ request[i] = key[(i - KeyAt(n)) + 1]
                  /\ request[i] \notin {NUL, CR, LF, COLON}
  <2>1. lastOffset = KeyAt(n) /\ i <= ColonAt(n)
    BY <1>8 DEF Cursor, InKey
  <2>2. i \in KeyAt(n)..ColonAt(n)
    BY <1>1, <1>4, <1>7, <2>1
  <2>3. ASSUME i # ColonAt(n)
        PROVE  /\ i - KeyAt(n) \in Nat /\ i - KeyAt(n) < Len(key)
               /\ i - KeyAt(n) \in 0..(Len(key) - 1) /\ KeyAt(n) + (i - KeyAt(n)) = i
    <3>1. KeyAt(n) \in Nat /\ Len(key) \in Nat
      BY <1>4, <1>5
    <3> HIDE DEF n, key
    <3>2. QED
      BY <1>1, <1>6, <1>7, <2>2, <2>3, <3>1
  <2>4. ASSUME i # ColonAt(n)
        PROVE  request[i] = key[(i - KeyAt(n)) + 1] /\ request[i] \notin {NUL, CR, LF, COLON}
    <3>1. /\ request[KeyAt(n) + (i - KeyAt(n))] = key[(i - KeyAt(n)) + 1]
          /\ key[(i - KeyAt(n)) + 1] \notin {NUL, CR, LF, COLON}
      BY <1>4, <2>3, <2>4
    <3>2. QED
      BY <2>3, <2>4, <3>1
  <2>5. QED
    BY <1>4, <2>2, <2>3, <2>4
<1>9. ASSUME firstColon
      PROVE  /\ i \in ValueAt(n)..(EndAt(n) + 1)
             /\ i = EndAt(n) => request[i] = CR
             /\ i = EndAt(n) + 1 => request[i] = LF
             /\ i \notin {EndAt(n), EndAt(n) + 1} =>
                  /\ i - ValueAt(n) \in Nat /\ i - ValueAt(n) < Len(value)
                  /\ request[i] = value[(i - ValueAt(n)) + 1]
                  /\ request[i] \notin {NUL, CR, LF}
  <2>1. lastOffset = ValueAt(n) /\ i <= EndAt(n) + 1
    BY <1>9 DEF Cursor, InValue
  <2>2. i \in ValueAt(n)..(EndAt(n) + 1)
    BY <1>1, <1>7, <2>1
  <2>3. ASSUME i \notin {EndAt(n), EndAt(n) + 1}
        PROVE  /\ i - ValueAt(n) \in Nat /\ i - ValueAt(n) < Len(value)
               /\ i - ValueAt(n) \in 0..(Len(value) - 1) /\ ValueAt(n) + (i - ValueAt(n)) = i
    <3>1. Len(value) \in Nat
      BY <1>5
    <3> HIDE DEF n, value
    <3>2. QED
      BY <1>1, <1>6, <1>7, <2>2, <2>3, <3>1
  <2>4. ASSUME i \notin {EndAt(n), EndAt(n) + 1}
        PROVE  request[i] = value[(i - ValueAt(n)) + 1] /\ request[i] \notin {NUL, CR, LF}
    <3>1. /\ request[ValueAt(n) + (i - ValueAt(n))] = value[(i - ValueAt(n)) + 1]
          /\ value[(i - ValueAt(n)) + 1] \notin {NUL, CR, LF}
      BY <1>4, <2>3, <2>4
    <3>2. QED
      BY <2>3, <2>4, <3>1
  <2>5. QED
    BY <1>4, <2>2, <2>3, <2>4
<1>10. QED
  BY <1>2, <1>3, <1>8, <1>9

\* What a step must leave for the cursor to stand right.
LEMMA CursorNext ==
  ASSUME UNCHANGED source,
         currline' <= Len(source.fields),
         \A m \in 1..(currline' - 1) :
           /\ Written(ar'[m].key, source.fields[m].key, Len(source.fields[m].key), malloced'[m].key)
           /\ Written(ar'[m].value, source.fields[m].value, Len(source.fields[m].value), malloced'[m].value),
         currline' = 0 => i' < KeyAt(1),
         currline' > 0 /\ ~firstColon' =>
           /\ currPointer' = "key" /\ lastOffset' = KeyAt(currline') /\ i' <= ColonAt(currline')
           /\ Written(ar'[currline'].key, source.fields[currline'].key, i' - KeyAt(currline'), malloced'[currline'].key)
           /\ Written(ar'[currline'].value, source.fields[currline'].value, 0, malloced'[currline'].value),
         currline' > 0 /\ firstColon' =>
           /\ currPointer' = "value" /\ lastOffset' = ValueAt(currline') /\ i' <= EndAt(currline') + 1
           /\ Written(ar'[currline'].key, source.fields[currline'].key,
                      Len(source.fields[currline'].key), malloced'[currline'].key)
           /\ Written(ar'[currline'].value, source.fields[currline'].value, i' - ValueAt(currline'), malloced'[currline'].value)
  PROVE  Cursor'
BY DEF Cursor, InKey, InValue, Complete, Written, KeyAt, ColonAt, ValueAt, EndAt, ValueStart

\* At a line end every line begun is complete.
LEMMA AtLineEnd ==
  ASSUME IInv, Shape, Cursor, source.rendered, pc = "scan", request[i] = LF
  PROVE  /\ i + 1 = KeyAt(currline + 1)
         /\ \A m \in 1..currline : Complete(m)
<1>1. source \in Sources /\ i \in Nat /\ currline \in Nat
  BY BsizeAssumption DEF IInv, Behind
<1>2. CASE currline = 0
  <2>1. i < KeyAt(1) /\ KeyAt(1) \in Nat /\ \A j \in 0..(KeyAt(1) - 2) : request[j] # LF
    BY <1>1, <1>2, EdgeFacts DEF Cursor
  <2>2. ~(i \in 0..(KeyAt(1) - 2))
    BY <2>1
  <2>3. i + 1 = KeyAt(1)
    BY <1>1, <2>1, <2>2
  <2>4. QED
    BY <1>2, <2>3
<1>3. CASE currline > 0
  <2> DEFINE n == currline
             key == source.fields[n].key
             value == source.fields[n].value
  <2>1. /\ n \in 1..Len(source.fields) /\ Len(source.fields) \in Nat
        /\ ~firstColon =>
             /\ i = ColonAt(n) => request[i] = COLON
             /\ i # ColonAt(n) => request[i] \notin {NUL, CR, LF, COLON}
        /\ firstColon =>
             /\ i = EndAt(n) => request[i] = CR
             /\ i \notin {EndAt(n), EndAt(n) + 1} => request[i] \notin {NUL, CR, LF}
    BY <1>3, CursorCell
  <2>2. firstColon /\ i = EndAt(n) + 1
    BY <2>1 DEF COLON, CR, LF
  <2>3. /\ Written(ar[n].key, key, Len(key), malloced[n].key)
        /\ Written(ar[n].value, value, i - ValueAt(n), malloced[n].value)
    BY <1>3, <2>2 DEF Cursor, InValue
  <2>4. /\ KeyAt(n + 1) = EndAt(n) + 2 /\ KeyAt(n + 1) < Len(source.text) /\ Len(value) \in Nat
        /\ KeyAt(n) \in Nat /\ Len(key) \in Nat
        /\ ValueAt(n) = IF request[ColonAt(n) + 1] = SP THEN ColonAt(n) + 2 ELSE ColonAt(n) + 1
    BY <1>1, <2>1, LineFacts
  <2>5. EndAt(n) = ValueAt(n) + Len(value) /\ ColonAt(n) = KeyAt(n) + Len(key)
    BY DEF EndAt, ColonAt
  <2>6. ValueAt(n) \in Nat
    <3>1. ValueAt(n) = ColonAt(n) + 1 \/ ValueAt(n) = ColonAt(n) + 2
      <4>1. ValueAt(n) = IF request[ColonAt(n) + 1] = SP THEN ColonAt(n) + 2 ELSE ColonAt(n) + 1
        BY <2>4
      <4>2. QED
        BY <4>1
    <3>2. KeyAt(n) \in Nat /\ Len(key) \in Nat
      BY <2>4
    <3> HIDE DEF n, key
    <3>3. QED
      BY <2>5, <3>1, <3>2
  <2>7. i - ValueAt(n) = Len(value) + 1 /\ i + 1 = KeyAt(n + 1)
    <3>1. Len(value) \in Nat /\ KeyAt(n + 1) = EndAt(n) + 2
      BY <2>4
    <3> HIDE DEF n, value
    <3>2. QED
      BY <2>2, <2>5, <2>6, <3>1
  <2>8. Written(ar[n].value, value, Len(value), malloced[n].value)
    <3>1. Written(ar[n].value, value, Len(value) + 1, malloced[n].value) /\ Len(value) \in Nat
      BY <2>3, <2>4, <2>7
    <3> HIDE DEF value
    <3>2. QED
      BY <3>1, WrittenPast
  <2>9. Complete(n)
    BY <2>3, <2>8 DEF Complete
  <2>10. \A m \in 1..(n - 1) : Complete(m)
    BY DEF Cursor
  <2>11. \A m \in 1..n : m = n \/ m \in 1..(n - 1)
    BY <1>1
  <2>12. QED
    BY <2>7, <2>9, <2>10, <2>11
<1>4. QED
  BY <1>1, <1>2, <1>3

LEMMA ReadSkip ==
  ASSUME IInv, Shape, Cursor, source.rendered, pc = "scan", Skip
  PROVE  Cursor'
<1>0. /\ UNCHANGED <<source, malloced, currline, lastOffset, firstColon, currPointer, ar>>
      /\ i' = i + 1 /\ request[i] # LF
  BY DEF Skip, line, headers
<1>1. source \in Sources /\ i \in Nat /\ currline \in Nat
  BY BsizeAssumption DEF IInv, Behind
<1>2. /\ currline <= Len(source.fields)
      /\ \A m \in 1..(currline - 1) :
           /\ Written(ar[m].key, source.fields[m].key, Len(source.fields[m].key), malloced[m].key)
           /\ Written(ar[m].value, source.fields[m].value, Len(source.fields[m].value), malloced[m].value)
  BY DEF Cursor, Complete
<1>3. CASE currline = 0
  <2>1. i < KeyAt(1) /\ KeyAt(1) \in Nat /\ request[KeyAt(1) - 1] = LF
    BY <1>1, <1>3, EdgeFacts DEF Cursor
  <2>2. i # KeyAt(1) - 1
    BY <1>0, <2>1
  <2>3. i + 1 < KeyAt(1)
    BY <1>1, <2>1, <2>2
  <2>4. QED
    BY <1>0, <1>2, <1>3, <2>3, CursorNext
<1>4. CASE currline > 0
  <2> DEFINE n == currline
             value == source.fields[n].value
  <2>1. /\ n \in 1..Len(source.fields)
        /\ ~firstColon =>
             /\ i = ColonAt(n) => request[i] = COLON
             /\ i # ColonAt(n) => request[i] \notin {NUL, CR, LF, COLON}
        /\ firstColon =>
             /\ i = EndAt(n) + 1 => request[i] = LF
             /\ i \notin {EndAt(n), EndAt(n) + 1} => request[i] \notin {NUL, CR, LF}
    BY <1>4, CursorCell
  <2>2. request[i] = CR
    BY <1>4 DEF Skip
  <2>3. firstColon /\ i = EndAt(n)
    BY <2>1, <2>2 DEF COLON, CR, LF
  <2>4. /\ currPointer = "value" /\ lastOffset = ValueAt(n)
        /\ Written(ar[n].key, source.fields[n].key, Len(source.fields[n].key), malloced[n].key)
        /\ Written(ar[n].value, value, i - ValueAt(n), malloced[n].value) /\ i >= ValueAt(n)
    <3>1. lastOffset <= i
      BY DEF Shape
    <3>2. QED
      BY <1>4, <2>3, <3>1 DEF Cursor, InValue
  <2>5. Len(value) \in Nat /\ EndAt(n) = ValueAt(n) + Len(value) /\ ValueAt(n) \in Nat
    <3>1. Len(value) \in Nat
      BY <1>1, <2>1, LineFacts
    <3>2. lastOffset \in Nat
      BY DEF IInv, Behind
    <3>3. QED
      BY <2>4, <3>1, <3>2 DEF EndAt
  <2>6. i - ValueAt(n) = Len(value) /\ (i + 1) - ValueAt(n) = Len(value) + 1
    <3> HIDE DEF value
    <3>1. QED
      BY <2>3, <2>5
  <2>7. Written(ar[n].value, value, (i + 1) - ValueAt(n), malloced[n].value)
    <3>1. Written(ar[n].value, value, Len(value), malloced[n].value) /\ Len(value) \in Nat
      BY <2>4, <2>5, <2>6
    <3> HIDE DEF value
    <3>2. Written(ar[n].value, value, Len(value) + 1, malloced[n].value)
      BY <3>1, WrittenPast
    <3>3. QED
      BY <2>6, <3>2
  <2>8. i' = EndAt(n) + 1
    BY <1>0, <2>3
  <2>9. i' <= EndAt(n) + 1
    BY <1>1, <2>3, <2>8
  <2>10. currline' = n /\ currline' > 0 /\ firstColon'
    BY <1>0, <1>4, <2>3
  <2>11. QED
    BY <1>0, <1>2, <2>4, <2>7, <2>9, <2>10, CursorNext
<1>5. QED
  BY <1>1, <1>3, <1>4

LEMMA ReadColon ==
  ASSUME IInv, Shape, Cursor, source.rendered, pc = "scan", Colon
  PROVE  Cursor'
<1> DEFINE n == currline
           key == source.fields[n].key
           value == source.fields[n].value
<1>0. /\ UNCHANGED <<source, malloced, currline, ar>>
      /\ firstColon' = TRUE /\ currPointer' = "value" /\ lastOffset' = i'
      /\ request[i] = COLON /\ currline > 0 /\ ~firstColon
      /\ i' = IF request[i + 1] = SP THEN i + 2 ELSE i + 1
  BY DEF Colon, At, headers
<1>1. source \in Sources /\ i \in Nat /\ currline \in Nat
  BY BsizeAssumption DEF IInv, Behind
<1>2. /\ currline <= Len(source.fields)
      /\ \A m \in 1..(currline - 1) :
           /\ Written(ar[m].key, source.fields[m].key, Len(source.fields[m].key), malloced[m].key)
           /\ Written(ar[m].value, source.fields[m].value, Len(source.fields[m].value), malloced[m].value)
  BY DEF Cursor, Complete
<1>3. n \in 1..Len(source.fields) /\ i = ColonAt(n)
  <2>1. /\ n \in 1..Len(source.fields)
        /\ i # ColonAt(n) => request[i] \notin {NUL, CR, LF, COLON}
    BY <1>0, CursorCell
  <2>2. QED
    BY <1>0, <2>1
<1>4. /\ Written(ar[n].key, key, i - KeyAt(n), malloced[n].key) /\ Written(ar[n].value, value, 0, malloced[n].value)
  BY <1>0 DEF Cursor, InKey
<1>5. /\ Len(key) \in Nat /\ Len(value) \in Nat /\ KeyAt(n) \in Nat
      /\ ValueAt(n) = IF request[ColonAt(n) + 1] = SP THEN ColonAt(n) + 2 ELSE ColonAt(n) + 1
  BY <1>1, <1>3, LineFacts
<1>6. ColonAt(n) = KeyAt(n) + Len(key) /\ EndAt(n) = ValueAt(n) + Len(value)
  BY DEF ColonAt, EndAt
<1>7. i' = ValueAt(n) /\ i' \in Nat
  <2>1. ValueAt(n) = IF request[ColonAt(n) + 1] = SP THEN ColonAt(n) + 2 ELSE ColonAt(n) + 1
    BY <1>5
  <2>2. QED
    BY <1>0, <1>1, <1>3, <2>1
<1>8. i - KeyAt(n) = Len(key) /\ i' - ValueAt(n) = 0 /\ i' <= EndAt(n) + 1
  <2>1. Len(key) \in Nat /\ Len(value) \in Nat /\ KeyAt(n) \in Nat
    BY <1>5
  <2> HIDE DEF n, key, value
  <2>2. QED
    BY <1>1, <1>3, <1>6, <1>7, <2>1
<1>9. /\ Written(ar[n].key, key, Len(key), malloced[n].key) /\ Written(ar[n].value, value, i' - ValueAt(n), malloced[n].value)
  BY <1>4, <1>8
<1>10. currline' = n /\ currline' > 0
  BY <1>0
<1>11. QED
  BY <1>0, <1>2, <1>7, <1>8, <1>9, <1>10, CursorNext

LEMMA ReadNewHeader ==
  ASSUME IInv, Shape, Cursor, source.rendered, pc = "scan", NewHeader
  PROVE  Cursor'
<1> DEFINE n == currline + 1
<1>0. /\ UNCHANGED source
      /\ currline' = n /\ i' = i + 1 /\ lastOffset' = i' /\ firstColon' = FALSE
      /\ currPointer' = "key" /\ request[i] = LF
      /\ ~(request[i + 1] = CR /\ request[i + 2] = LF)
  BY DEF NewHeader, HeaderStarts, At
<1>1. source \in Sources /\ i \in Nat /\ currline \in Nat /\ currline = Len(ar)
  BY BsizeAssumption DEF IInv, Behind, Shape
<1>2. i + 1 = KeyAt(n) /\ \A m \in 1..currline : Complete(m)
  BY <1>0, AtLineEnd
<1>3. Len(source.fields) \in Nat /\ currline <= Len(source.fields)
  BY <1>1, EdgeFacts DEF Cursor
<1>4. currline # Len(source.fields)
  <2> SUFFICES ASSUME currline = Len(source.fields) PROVE FALSE
    OBVIOUS
  <2>1. request[KeyAt(n)] = CR /\ request[KeyAt(n) + 1] = LF
    BY <1>1, EdgeFacts
  <2>2. (i + 1) + 1 = i + 2
    BY <1>1
  <2>3. QED
    BY <1>0, <1>2, <2>1, <2>2
<1>5. n \in 1..Len(source.fields) /\ n - 1 = currline /\ n > 0
  BY <1>1, <1>3, <1>4
<1>6. /\ \A m \in 1..currline : ar'[m] = ar[m] /\ malloced'[m] = malloced[m]
      /\ ar'[n] = malloced'[n]
  BY <1>1, NewCell
<1>7. \A m \in 1..currline :
        /\ Written(ar'[m].key, source.fields[m].key, Len(source.fields[m].key), malloced'[m].key)
        /\ Written(ar'[m].value, source.fields[m].value, Len(source.fields[m].value), malloced'[m].value)
  BY <1>2, <1>6 DEF Complete
<1>8. \A string, old : Written(old, string, 0, old)
  <2>1. \A k \in Nat : ~(k < 0)
    OBVIOUS
  <2>2. \A k \in 0..(CAP - 1) : ~(k < 0)
    OBVIOUS
  <2>3. QED
    BY <2>1, <2>2 DEF Written
<1>9. KeyAt(n) \in Nat /\ KeyAt(n) <= ColonAt(n)
  <2>1. KeyAt(n) \in Nat /\ Len(source.fields[n].key) \in Nat
    BY <1>1, <1>5, LineFacts
  <2>2. ColonAt(n) = KeyAt(n) + Len(source.fields[n].key)
    BY DEF ColonAt
  <2>3. QED
    BY <2>1, <2>2
<1>10. i' = KeyAt(n) /\ i' - KeyAt(n) = 0 /\ i' <= ColonAt(n)
  BY <1>0, <1>2, <1>9
<1>11. /\ Written(ar'[n].key, source.fields[n].key, i' - KeyAt(n), malloced'[n].key)
       /\ Written(ar'[n].value, source.fields[n].value, 0, malloced'[n].value)
  BY <1>6, <1>8, <1>10
<1>12. n <= Len(source.fields) /\ \A m \in 1..(n - 1) : m \in 1..currline
  BY <1>1, <1>3, <1>5
<1> HIDE DEF n
<1>13. QED
  BY <1>0, <1>5, <1>7, <1>10, <1>11, <1>12, CursorNext

LEMMA ReadPut ==
  ASSUME IInv, Shape, Cursor, source.rendered, pc = "scan", Put
  PROVE  Cursor'
<1> DEFINE n == currline
           key == source.fields[n].key
           value == source.fields[n].value
<1>0. /\ UNCHANGED <<source, malloced, currline, lastOffset, firstColon, currPointer>>
      /\ i' = i + 1 /\ currline > 0 /\ i - lastOffset \in 0..(CAP - 1)
      /\ request[i] \notin {NUL, LF, CR} /\ (request[i] = COLON => firstColon)
  BY DEF Put, Writing, line
<1>1. source \in Sources /\ i \in Nat /\ currline \in Nat
  BY BsizeAssumption DEF IInv, Behind
<1>2. /\ currline <= Len(source.fields)
      /\ \A m \in 1..(currline - 1) :
           /\ Written(ar[m].key, source.fields[m].key, Len(source.fields[m].key), malloced[m].key)
           /\ Written(ar[m].value, source.fields[m].value, Len(source.fields[m].value), malloced[m].value)
  BY DEF Cursor, Complete
<1>3. /\ n \in 1..Len(ar) /\ \A m \in 1..Len(ar) : m # n => ar'[m] = ar[m]
      /\ currPointer = "key" =>
           /\ ar'[n].key = [ar[n].key EXCEPT ![i - lastOffset] = request[i]]
           /\ ar'[n].value = ar[n].value
      /\ currPointer = "value" =>
           /\ ar'[n].value = [ar[n].value EXCEPT ![i - lastOffset] = request[i]]
           /\ ar'[n].key = ar[n].key
  BY PutCell
<1>4. \A m \in 1..(n - 1) :
        /\ Written(ar'[m].key, source.fields[m].key, Len(source.fields[m].key), malloced'[m].key)
        /\ Written(ar'[m].value, source.fields[m].value, Len(source.fields[m].value), malloced'[m].value)
  <2>1. \A m \in 1..(n - 1) : m \in 1..Len(ar) /\ m # n
    BY <1>1, <1>3 DEF Shape
  <2>2. \A m \in 1..(n - 1) : ar'[m] = ar[m]
    BY <1>3, <2>1
  <2>3. QED
    BY <1>0, <1>2, <2>2
<1>5. ar[n].key \in Blocks /\ ar[n].value \in Blocks
  <2>1. ar[n] \in Headers
    BY <1>3, ElementOfSeq DEF Shape
  <2>2. QED
    BY <2>1 DEF Headers
<1>6. n \in 1..Len(source.fields)
  BY <1>0, CursorCell
<1>7. Len(key) \in Nat /\ Len(value) \in Nat /\ KeyAt(n) \in Nat
  BY <1>1, <1>6, LineFacts
<1>8. currline' = n /\ currline' > 0
  BY <1>0
<1>9. CASE ~firstColon
  <2>1. /\ i \in KeyAt(n)..ColonAt(n)
        /\ i = ColonAt(n) => request[i] = COLON
        /\ i # ColonAt(n) =>
             /\ i - KeyAt(n) \in Nat /\ i - KeyAt(n) < Len(key)
             /\ request[i] = key[(i - KeyAt(n)) + 1]
    BY <1>0, <1>9, CursorCell
  <2>2. i # ColonAt(n)
    BY <1>0, <1>9, <2>1
  <2>3. /\ currPointer = "key" /\ lastOffset = KeyAt(n)
        /\ Written(ar[n].key, key, i - KeyAt(n), malloced[n].key) /\ Written(ar[n].value, value, 0, malloced[n].value)
    BY <1>0, <1>9 DEF Cursor, InKey
  <2> DEFINE at == i - KeyAt(n)
  <2>4. ar'[n].key = [ar[n].key EXCEPT ![at] = key[at + 1]] /\ ar'[n].value = ar[n].value
    BY <1>3, <2>1, <2>2, <2>3
  <2>5. at \in 0..(CAP - 1) /\ at < Len(key) /\ Written(ar[n].key, key, at, malloced[n].key)
    BY <1>0, <2>1, <2>2, <2>3
  <2>6. at + 1 = i' - KeyAt(n) /\ i' <= ColonAt(n)
    <3>1. ColonAt(n) = KeyAt(n) + Len(key)
      BY DEF ColonAt
    <3>2. QED
      BY <1>0, <1>1, <1>7, <2>1, <2>2, <3>1
  <2> HIDE DEF at, key, value
  <2>7. Written([ar[n].key EXCEPT ![at] = key[at + 1]], key, at + 1, malloced[n].key)
    BY <1>5, <1>7, <2>5, WriteNext
  <2>8. Written(ar'[n].key, key, i' - KeyAt(n), malloced'[n].key) /\ Written(ar'[n].value, value, 0, malloced'[n].value)
    BY <1>0, <2>3, <2>4, <2>6, <2>7
  <2>9. QED
    BY <1>0, <1>2, <1>4, <1>8, <1>9, <2>3, <2>6, <2>8, CursorNext DEF key, value
<1>10. CASE firstColon
  <2>1. /\ i \in ValueAt(n)..(EndAt(n) + 1)
        /\ i = EndAt(n) => request[i] = CR
        /\ i = EndAt(n) + 1 => request[i] = LF
        /\ i \notin {EndAt(n), EndAt(n) + 1} =>
             /\ i - ValueAt(n) \in Nat /\ i - ValueAt(n) < Len(value)
             /\ request[i] = value[(i - ValueAt(n)) + 1]
    BY <1>0, <1>10, CursorCell
  <2>2. i \notin {EndAt(n), EndAt(n) + 1}
    BY <1>0, <2>1
  <2>3. /\ currPointer = "value" /\ lastOffset = ValueAt(n) /\ i <= EndAt(n) + 1
        /\ Written(ar[n].key, key, Len(key), malloced[n].key) /\ Written(ar[n].value, value, i - ValueAt(n), malloced[n].value)
    BY <1>0, <1>10 DEF Cursor, InValue
  <2> DEFINE at == i - ValueAt(n)
  <2>4. ar'[n].value = [ar[n].value EXCEPT ![at] = value[at + 1]] /\ ar'[n].key = ar[n].key
    BY <1>3, <2>1, <2>2, <2>3
  <2>5. at \in 0..(CAP - 1) /\ at < Len(value) /\ Written(ar[n].value, value, at, malloced[n].value)
    BY <1>0, <2>1, <2>2, <2>3
  <2>6. at + 1 = i' - ValueAt(n) /\ i' <= EndAt(n) + 1
    <3>1. ValueAt(n) \in Nat
      BY <2>3 DEF IInv, Behind
    <3>2. EndAt(n) = ValueAt(n) + Len(value)
      BY DEF EndAt
    <3>3. Len(value) \in Nat /\ i <= EndAt(n) + 1 /\ i # EndAt(n) /\ i # EndAt(n) + 1
      BY <1>7, <2>2, <2>3
    <3> HIDE DEF n, value
    <3>4. i' = i + 1
      BY <1>0
    <3>5. at + 1 = i' - ValueAt(n)
      BY <1>1, <3>1, <3>4
    <3>6. i' <= EndAt(n) + 1
      BY <1>1, <3>1, <3>2, <3>3, <3>4
    <3>7. QED
      BY <3>5, <3>6
  <2> HIDE DEF at, key, value
  <2>7. Written([ar[n].value EXCEPT ![at] = value[at + 1]], value, at + 1, malloced[n].value)
    BY <1>5, <1>7, <2>5, WriteNext
  <2>8. Written(ar'[n].value, value, i' - ValueAt(n), malloced'[n].value) /\ Written(ar'[n].key, key, Len(key), malloced'[n].key)
    BY <1>0, <2>3, <2>4, <2>6, <2>7
  <2>9. QED
    BY <1>0, <1>2, <1>4, <1>8, <1>10, <2>3, <2>6, <2>8, CursorNext DEF key, value
<1>11. QED
  BY <1>9, <1>10

\* The loop stops at the blank line behind the last field, and nowhere else.
LEMMA ReadBlank ==
  ASSUME IInv, Shape, Cursor, source.rendered, pc = "scan", Blank
  PROVE  currline = Len(source.fields) /\ \A m \in 1..currline : Complete(m)
<1>0. request[i] = LF /\ request[i + 1] = CR
  BY DEF Blank, At
<1>1. source \in Sources /\ i \in Nat /\ currline \in Nat
  BY BsizeAssumption DEF IInv, Behind
<1>2. i + 1 = KeyAt(currline + 1) /\ \A m \in 1..currline : Complete(m)
  BY <1>0, AtLineEnd
<1>3. Len(source.fields) \in Nat /\ currline <= Len(source.fields)
  BY <1>1, EdgeFacts DEF Cursor
<1>4. currline # currline + 1 /\ ~(currline < Len(source.fields))
  <2> SUFFICES ASSUME currline < Len(source.fields) PROVE FALSE
    BY <1>1
  <2> DEFINE n == currline + 1
             key == source.fields[n].key
  <2>1. n \in 1..Len(source.fields)
    BY <1>1, <1>3
  <2>2. /\ Len(key) \in Nat /\ KeyAt(n) \in Nat /\ request[ColonAt(n)] = COLON
        /\ \A k \in 0..(Len(key) - 1) :
             request[KeyAt(n) + k] = key[k + 1] /\ key[k + 1] \notin {NUL, CR, LF, COLON}
    BY <1>1, <2>1, LineFacts
  <2>3. ColonAt(n) = KeyAt(n) + Len(key) /\ KeyAt(n) = i + 1
    BY <1>2 DEF ColonAt
  <2> HIDE DEF n, key
  <2>4. CASE Len(key) = 0
    <3>1. ColonAt(n) = i + 1
      BY <1>1, <2>3, <2>4
    <3>2. QED
      BY <1>0, <2>2, <3>1 DEF COLON, CR
  <2>5. CASE Len(key) # 0
    <3>0. Len(key) \in Nat /\ KeyAt(n) \in Nat
      BY <2>2
    <3>1. 0 \in 0..(Len(key) - 1) /\ KeyAt(n) + 0 = i + 1
      BY <1>1, <2>3, <2>5, <3>0
    <3>2. request[KeyAt(n) + 0] # CR
      BY <2>2, <3>1
    <3>3. QED
      BY <1>0, <3>1, <3>2
  <2>6. QED
    BY <2>4, <2>5
<1>5. QED
  BY <1>1, <1>2, <1>3, <1>4

LEMMA ReadTextEnds ==
  ASSUME IInv, Shape, Cursor, source.rendered, pc = "scan", request[i] = NUL
  PROVE  FALSE
<1>1. source \in Sources /\ i \in Nat /\ currline \in Nat
  BY BsizeAssumption DEF IInv, Behind
<1>2. CASE currline = 0
  <2>1. i < KeyAt(1) /\ KeyAt(1) \in Nat /\ \A j \in 0..(KeyAt(1) - 1) : request[j] # NUL
    BY <1>1, <1>2, EdgeFacts DEF Cursor
  <2>2. i \in 0..(KeyAt(1) - 1)
    BY <1>1, <2>1
  <2>3. QED
    BY <2>1, <2>2
<1>3. CASE currline > 0
  <2> DEFINE n == currline
  <2>1. /\ ~firstColon =>
             /\ i = ColonAt(n) => request[i] = COLON
             /\ i # ColonAt(n) => request[i] \notin {NUL, CR, LF, COLON}
        /\ firstColon =>
             /\ i = EndAt(n) => request[i] = CR
             /\ i = EndAt(n) + 1 => request[i] = LF
             /\ i \notin {EndAt(n), EndAt(n) + 1} => request[i] \notin {NUL, CR, LF}
    BY <1>3, CursorCell
  <2>2. QED
    BY <2>1 DEF NUL, CR, LF, COLON
<1>4. QED
  BY <1>1, <1>2, <1>3

LEMMA InitRead == Init => ReadSoFar
<1> SUFFICES ASSUME Init, source.rendered PROVE Cursor /\ pc = "scan"
  BY DEF ReadSoFar
<1>1. source \in Sources /\ pc = "scan" /\ i = 0 /\ currline = 0
  BY DEF Init
<1>2. Len(source.fields) \in Nat /\ KeyAt(1) \in Nat \ {0}
  BY <1>1, EdgeFacts
<1>3. QED
  BY <1>1, <1>2 DEF Cursor

LEMMA NextRead == IInv /\ Shape /\ ReadSoFar /\ [Next]_vars => ReadSoFar'
<1> SUFFICES ASSUME IInv, Shape, ReadSoFar, [Next]_vars, source.rendered
             PROVE  ReadSoFar'
  BY InputKept DEF ReadSoFar
<1>0. UNCHANGED <<source, request>>
  BY InputKept
<1>1. CASE Blank
  <2>1. pc = "scan" /\ pc' = "done" /\ header_count' = currline /\ UNCHANGED <<ar, malloced>>
    BY <1>1 DEF Blank, At, headers
  <2>2. currline = Len(source.fields) /\ \A m \in 1..currline : Complete(m)
    BY <1>1, <2>1, ReadBlank DEF ReadSoFar
  <2>3. \A m \in 1..currline : Complete(m)'
    BY <1>0, <2>1, <2>2 DEF Complete, Written
  <2>4. QED
    BY <1>0, <2>1, <2>2, <2>3 DEF ReadSoFar
<1>2. CASE NewHeader
  <2>1. pc = "scan" /\ pc' = "scan"
    BY <1>2 DEF NewHeader, HeaderStarts, At
  <2>2. Cursor'
    BY <1>2, <2>1, ReadNewHeader DEF ReadSoFar
  <2>3. QED
    BY <2>1, <2>2 DEF ReadSoFar
<1>3. CASE Skip
  <2>1. pc = "scan" /\ pc' = "scan"
    BY <1>3 DEF Skip
  <2>2. Cursor'
    BY <1>3, <2>1, ReadSkip DEF ReadSoFar
  <2>3. QED
    BY <2>1, <2>2 DEF ReadSoFar
<1>4. CASE Colon
  <2>1. pc = "scan" /\ pc' = "scan"
    BY <1>4 DEF Colon, At
  <2>2. Cursor'
    BY <1>4, <2>1, ReadColon DEF ReadSoFar
  <2>3. QED
    BY <2>1, <2>2 DEF ReadSoFar
<1>5. CASE Put
  <2>1. pc = "scan" /\ pc' = "scan"
    BY <1>5 DEF Put, Writing
  <2>2. Cursor'
    BY <1>5, <2>1, ReadPut DEF ReadSoFar
  <2>3. QED
    BY <2>1, <2>2 DEF ReadSoFar
<1>6. CASE TextEnds
  <2>1. pc = "scan" /\ request[i] = NUL
    BY <1>6 DEF TextEnds, At
  <2>2. QED
    BY <2>1, ReadTextEnds DEF ReadSoFar
<1>7. CASE Overrun
  BY <1>0, <1>7 DEF Overrun, ReadSoFar
<1>8. CASE UNCHANGED vars
  BY <1>0, <1>8 DEF vars, line, headers, ReadSoFar, Cursor, InKey, InValue, Complete,
     KeyAt, ColonAt, ValueAt, EndAt, ValueStart
<1>9. QED
  BY <1>1, <1>2, <1>3, <1>4, <1>5, <1>6, <1>7, <1>8 DEF Next

LEMMA AlwaysRead == Spec => [](IInv /\ Shape /\ ReadSoFar)
BY InitIInv, NextIInv, InitShape, NextShape, InitRead, NextRead, PTL DEF Spec

-----------------------------------------------------------------------------

LEMMA HoldsField ==
  ASSUME NEW block, NEW string, NEW old, Len(string) \in Nat, Written(block, string, Len(string), old)
  PROVE  Holds(block, string, old)
<1> DEFINE size == Len(string)
<1>1. /\ size \in Nat /\ CAP \in Nat
      /\ \A k \in Nat : k < size => k < CAP
      /\ \A k \in 0..(CAP - 1) : block[k] = IF k < size THEN string[k + 1] ELSE old[k]
  BY CapAssumption DEF Written
<1> HIDE DEF size
<1>2. size <= CAP
  BY <1>1
<1>3. ASSUME NEW k \in 1..size PROVE block[k - 1] = string[k]
  <2>1. k - 1 \in 0..(CAP - 1) /\ k - 1 < size /\ (k - 1) + 1 = k
    BY <1>1, <1>2
  <2>2. QED
    BY <1>1, <2>1
<1>4. ASSUME NEW k \in size..(CAP - 1) PROVE block[k] = old[k]
  <2>1. k \in 0..(CAP - 1) /\ ~(k < size)
    BY <1>1
  <2>2. QED
    BY <1>1, <2>1
<1>5. QED
  BY <1>2, <1>3, <1>4 DEF Holds, size

LEMMA FieldsRead ==
  ASSUME IInv, ReadSoFar
  PROVE  HeadersReadBack
<1> SUFFICES ASSUME pc = "done", source.rendered
             PROVE  /\ header_count = Len(source.fields)
                    /\ \A n \in 1..header_count :
                         /\ Holds(ar[n].key, source.fields[n].key, malloced[n].key)
                         /\ Holds(ar[n].value, source.fields[n].value, malloced[n].value)
  BY DEF HeadersReadBack
<1>1. source \in Sources /\ header_count = Len(source.fields)
      /\ \A n \in 1..header_count : Complete(n)
  BY DEF IInv, Behind, ReadSoFar
<1>2. ASSUME NEW n \in 1..header_count
      PROVE  /\ Holds(ar[n].key, source.fields[n].key, malloced[n].key)
             /\ Holds(ar[n].value, source.fields[n].value, malloced[n].value)
  <2>1. Len(source.fields[n].key) \in Nat /\ Len(source.fields[n].value) \in Nat
    BY <1>1, LineFacts
  <2>2. QED
    BY <1>1, <2>1, HoldsField DEF Complete
<1>3. QED
  BY <1>1, <1>2

\* Every header of a text rendered from fields is read back: their number,
\* their order, their names and their values, whatever the colons and spaces
\* in the values and whatever malloc() left in the blocks (http.c:36-77).
THEOREM FieldsReadBack == Spec => []HeadersReadBack
BY AlwaysRead, FieldsRead, PTL

\* A text rendered from fields is never refused: what resptostr writes, and
\* what clients send, parses (http.c:39-43, 72).
THEOREM RenderedAccepted == Spec => [](source.rendered => pc # "failed")
<1>1. ReadSoFar => (source.rendered => pc # "failed")
  BY DEF ReadSoFar
<1>2. QED
  BY <1>1, AlwaysRead, PTL

LEMMA KeyCells ==
  ASSUME NEW s \in Sources, NEW n \in 1..Len(s.fields)
  PROVE  /\ s.rendered
         /\ s.fields[n].key \in Seq(Range(s.text)) /\ Len(s.fields[n].key) \in Nat
         /\ \A k \in 1..Len(s.fields[n].key) : s.fields[n].key[k] # NUL
<1> DEFINE Field == [key : Seq(Range(s.text)), value : Seq(Range(s.text))]
<1>1. s.rendered
  <2> SUFFICES ASSUME ~s.rendered PROVE FALSE
    OBVIOUS
  <2>1. s.fields = <<>>
    BY RenderedAssumption DEF Rendered
  <2>2. Len(s.fields) = 0
    BY <2>1
  <2>3. QED
    BY <2>2
<1>2. s.fields \in Seq(Field) /\ FieldLine(s, n)
  BY <1>1, RenderedAssumption DEF Rendered
<1>3. s.fields[n] \in Field
  <2> HIDE DEF Field
  <2>1. QED
    BY <1>2, ElementOfSeq
<1>4. s.fields[n].key \in Seq(Range(s.text))
  BY <1>3
<1>5. Len(s.fields[n].key) \in Nat
  BY <1>4, LenProperties
<1>6. \A k \in 1..Len(s.fields[n].key) : s.fields[n].key[k] # NUL
  BY <1>2 DEF FieldLine
<1>7. QED
  BY <1>1, <1>4, <1>5, <1>6

\* What strcmp() finds in a block that a name was written to: a key that goes
\* on from the name, and, when a NUL lay behind the name, the name alone.
LEMMA EqualsName ==
  ASSUME NEW block, NEW string, NEW key, NEW old, NEW S, NEW T, string \in Seq(S), key \in Seq(T),
         Len(key) < CAP, Holds(block, string, old),
         \A k \in 1..Len(string) : string[k] # NUL,
         \A k \in 1..Len(key) : key[k] # NUL
  PROVE  /\ Equals(block, key) => Begins(string, key)
         /\ Len(string) < CAP /\ old[Len(string)] = NUL => (Equals(block, key) <=> string = key)
<1>1. Len(key) \in Nat /\ Len(string) \in Nat /\ CAP \in Nat
  BY CapAssumption, LenProperties
<1>2. /\ \A k \in 1..Len(string) : block[k - 1] = string[k]
      /\ \A k \in Len(string)..(CAP - 1) : block[k] = old[k]
  BY DEF Holds
<1>3. ASSUME Equals(block, key) PROVE Begins(string, key)
  <2>1. /\ \A k \in 1..Len(key) : block[k - 1] = key[k]
        /\ block[Len(key)] = NUL
    BY <1>3 DEF Equals
  <2>2. ~(Len(key) < Len(string))
    <3> SUFFICES ASSUME Len(key) < Len(string) PROVE FALSE
      OBVIOUS
    <3>1. Len(key) + 1 \in 1..Len(string) /\ (Len(key) + 1) - 1 = Len(key)
      BY <1>1
    <3>2. QED
      BY <1>2, <2>1, <3>1
  <2>3. Len(string) <= Len(key) /\ \A k \in 1..Len(string) : k \in 1..Len(key)
    BY <1>1, <2>2
  <2>4. QED
    BY <1>2, <2>1, <2>3 DEF Begins
<1>4. ASSUME Len(string) < CAP, old[Len(string)] = NUL, Equals(block, key) PROVE string = key
  <2>1. Len(string) <= Len(key) /\ \A k \in 1..Len(string) : key[k] = string[k]
    BY <1>3, <1>4 DEF Begins
  <2>2. block[Len(string)] = NUL
    BY <1>1, <1>2, <1>4
  <2>3. ~(Len(string) < Len(key))
    <3> SUFFICES ASSUME Len(string) < Len(key) PROVE FALSE
      OBVIOUS
    <3>1. Len(string) + 1 \in 1..Len(key) /\ (Len(string) + 1) - 1 = Len(string)
      BY <1>1
    <3>2. block[Len(string)] = key[Len(string) + 1]
      BY <1>4, <3>1 DEF Equals
    <3>3. QED
      BY <2>2, <3>1, <3>2
  <2>4. Len(key) = Len(string)
    BY <1>1, <2>1, <2>3
  <2>5. QED
    BY <2>1, <2>4, SeqEqual
<1>5. ASSUME Len(string) < CAP, old[Len(string)] = NUL, string = key PROVE Equals(block, key)
  <2>1. block[Len(key)] = NUL
    BY <1>1, <1>2, <1>5
  <2>2. QED
    BY <1>2, <1>5, <2>1 DEF Equals
<1>6. QED
  BY <1>3, <1>4, <1>5

\* A non-empty set of numbers has a least one.
LEMMA LeastNumber ==
  ASSUME NEW T, T \subseteq Nat, T # {}
  PROVE  \E m \in T : \A k \in T : m <= k
<1> DEFINE R == {ss \in Nat \X Nat : ss[1] < ss[2]}
<1>1. IsWellFoundedOn(R, Nat)
  BY NatLessThanWellFounded DEF OpToRel
<1>2. PICK m \in T : \A k \in T : ~(<<k, m>> \in R)
  <2> HIDE DEF R
  <2>1. QED
    BY <1>1, WFMin
<1>3. \A k \in T : ~(k < m)
  BY <1>2
<1>4. QED
  BY <1>2, <1>3

LEMMA LookupRead ==
  ASSUME IInv, ReadSoFar
  PROVE  LookupRight
<1> SUFFICES ASSUME pc = "done", source.rendered, NEW key \in Keys, Len(key) < CAP
             PROVE  LET found == get_header(key)
                        name(n) == source.fields[n].key
                    IN  /\ found # NULL => Begins(name(found), key)
                        /\ found # NULL /\ Clean(found) => name(found) = key
                        /\ \A n \in 1..header_count :
                             (n < found \/ found = NULL) /\ Clean(n) => name(n) # key
  BY DEF LookupRight
<1>1. source \in Sources /\ header_count = Len(source.fields) /\ header_count \in Nat
  BY EdgeFacts DEF IInv, Behind, ReadSoFar
<1>2. PICK s \in Sources : \E m \in 1..Len(s.fields) : key = s.fields[m].key
  BY DEF Keys
<1>3. key \in Seq(Range(s.text)) /\ \A k \in 1..Len(key) : key[k] # NUL
  BY <1>2, KeyCells
<1>4. ASSUME NEW n \in 1..header_count
      PROVE  /\ Equals(ar[n].key, key) => Begins(source.fields[n].key, key)
             /\ Clean(n) => (Equals(ar[n].key, key) <=> source.fields[n].key = key)
  <2> DEFINE name == source.fields[n].key
  <2>1. name \in Seq(Range(source.text)) /\ \A k \in 1..Len(name) : name[k] # NUL
    BY <1>1, KeyCells
  <2>2. Holds(ar[n].key, name, malloced[n].key)
    BY <1>1, FieldsRead DEF HeadersReadBack
  <2>3. Clean(n) <=> Len(name) < CAP /\ malloced[n].key[Len(name)] = NUL
    BY DEF Clean
  <2> HIDE DEF name
  <2>4. /\ Equals(ar[n].key, key) => Begins(name, key)
        /\ Len(name) < CAP /\ malloced[n].key[Len(name)] = NUL
             => (Equals(ar[n].key, key) <=> name = key)
    BY <1>3, <2>1, <2>2, EqualsName
  <2>5. QED
    BY <2>3, <2>4 DEF name
<1> DEFINE matches == {n \in 1..header_count : Equals(ar[n].key, key)}
<1>5. get_header(key) = IF matches = {} THEN NULL ELSE Min(matches)
  BY DEF get_header
<1>6. CASE matches = {}
  <2>1. get_header(key) = NULL
    BY <1>5, <1>6
  <2>2. \A n \in 1..header_count : Clean(n) => source.fields[n].key # key
    BY <1>4, <1>6
  <2>3. QED
    BY <2>1, <2>2
<1>7. CASE matches # {}
  <2> DEFINE found == get_header(key)
  <2>1. matches \subseteq Nat /\ matches \subseteq 1..header_count
    BY <1>1
  <2> HIDE DEF matches
  <2>2. \E n \in matches : \A m \in matches : n <= m
    BY <1>7, <2>1, LeastNumber
  <2>3. found = Min(matches)
    BY <1>5, <1>7
  <2>4. found \in matches /\ \A m \in matches : found <= m
    BY <2>2, <2>3 DEF Min
  <2> HIDE DEF found
  <2>5. found \in 1..header_count /\ found \in Nat /\ found # NULL
    BY <1>1, <2>1, <2>4 DEF NULL
  <2>6. Begins(source.fields[found].key, key) /\ (Clean(found) => source.fields[found].key = key)
    BY <1>4, <2>4, <2>5 DEF matches
  <2>7. ASSUME NEW n \in 1..header_count, n < found, Clean(n), source.fields[n].key = key
        PROVE  FALSE
    <3>1. n \in matches
      BY <1>4, <2>7 DEF matches
    <3>2. QED
      BY <1>1, <2>4, <2>5, <2>7, <3>1
  <2>8. QED
    BY <2>5, <2>6, <2>7 DEF found
<1>8. QED
  BY <1>6, <1>7

\* get_header passes over no header of the name with a clean block, and returns
\* a header of that name, or one whose name, at the start of the key, the old
\* bytes of its block went on from: whatever malloc() left (http.c:99-108).
THEOREM LookupAsMemoryAllows == Spec => []LookupRight
BY AlwaysRead, LookupRead, PTL

-----------------------------------------------------------------------------
(* The texts resptostr writes are rendered ones: their lines, one behind    *)
(* the other, are found where the parser looks for them.                    *)

\* f[k] is the first k of n sequences, one behind the other.
Appended(f, c, n) == \A k \in 1..n : f[k] = IF k = 1 THEN c[k] ELSE f[k - 1] \o c[k]

\* Sequences in a row can be put one behind the other.
LEMMA Concatenations ==
  ASSUME NEW S, NEW n \in Nat, NEW c \in [1..n -> Seq(S)]
  PROVE  \E f \in [1..n -> Seq(S)] : Appended(f, c, n)
<1> DEFINE P(m) == \E f \in [1..m -> Seq(S)] :
                     \A k \in 1..m : f[k] = IF k = 1 THEN c[k] ELSE f[k - 1] \o c[k]
           T == {m \in 0..n : ~P(m)}
<1>1. ASSUME T # {} PROVE FALSE
  <2>1. PICK m \in T : \A k \in T : m <= k
    <3>1. T \subseteq Nat
      OBVIOUS
    <3> HIDE DEF T
    <3>2. QED
      BY <1>1, <3>1, LeastNumber
  <2>2. P(0)
    <3>1. [k \in 1..0 |-> <<>>] \in [1..0 -> Seq(S)]
      OBVIOUS
    <3>2. \A k \in 1..0 : FALSE
      OBVIOUS
    <3>3. QED
      BY <3>1, <3>2
  <2>3. m \in 1..n /\ ~P(m)
    <3> HIDE DEF P
    <3>1. m # 0
      BY <2>1, <2>2
    <3>2. QED
      BY <2>1, <3>1
  <2>4. P(m - 1)
    <3>1. m - 1 \in 0..n /\ ~(m <= m - 1)
      BY <2>3
    <3> HIDE DEF P
    <3>2. QED
      BY <2>1, <3>1
  <2>5. PICK f \in [1..(m - 1) -> Seq(S)] :
          \A k \in 1..(m - 1) : f[k] = IF k = 1 THEN c[k] ELSE f[k - 1] \o c[k]
    BY <2>4
  <2> DEFINE last == IF m = 1 THEN c[m] ELSE f[m - 1] \o c[m]
             g == [k \in 1..m |-> IF k = m THEN last ELSE f[k]]
  <2>6. last \in Seq(S)
    <3>1. c[m] \in Seq(S)
      BY <2>3
    <3>2. m # 1 => f[m - 1] \in Seq(S)
      BY <2>3, <2>5
    <3>3. QED
      BY <3>1, <3>2
  <2>7. \A k \in 1..m : k # m => k \in 1..(m - 1)
    BY <2>3
  <2>8. ASSUME NEW k \in 1..m PROVE g[k] = IF k = 1 THEN c[k] ELSE g[k - 1] \o c[k]
    <3>1. k # 1 => k - 1 \in 1..m /\ k - 1 # m
      BY <2>3
    <3>2. k # 1 => g[k - 1] = f[k - 1]
      BY <3>1
    <3>3. g[k] = IF k = m THEN last ELSE f[k]
      OBVIOUS
    <3> HIDE DEF g
    <3>4. QED
      BY <2>5, <2>7, <3>2, <3>3
  <2>9. g \in [1..m -> Seq(S)]
    <3> HIDE DEF last
    <3>1. \A k \in 1..m : (IF k = m THEN last ELSE f[k]) \in Seq(S)
      BY <2>5, <2>6, <2>7
    <3>2. QED
      BY <3>1
  <2> HIDE DEF g
  <2>10. P(m)
    BY <2>8, <2>9
  <2>11. QED
    BY <2>3, <2>10
<1>2. n \in 0..n
  OBVIOUS
<1>3. P(n)
  BY <1>1, <1>2
<1>4. QED
  BY <1>3 DEF Appended

\* What FlattenSeq makes of sequences.
LEMMA FlattenIs ==
  ASSUME NEW S, NEW c \in Seq(Seq(S)), Len(c) # 0, NEW f \in [1..Len(c) -> Seq(S)],
         Appended(f, c, Len(c))
  PROVE  FlattenSeq(c) = f[Len(c)]
<1> DEFINE n == Len(c)
           Is(g) == g = [h \in 1..n |-> IF h = 1 THEN c[h] ELSE g[h - 1] \o c[h]]
           v == CHOOSE g : Is(g)
<1>1. FlattenSeq(c) = v[n]
  BY DEF FlattenSeq
<1>2. n \in Nat \ {0}
  OBVIOUS
<1>3. Is(f)
  <2>1. f = [k \in 1..n |-> f[k]]
    OBVIOUS
  <2>2. QED
    BY <2>1 DEF Appended
<1>4. Is(v)
  <2> HIDE DEF Is
  <2>1. QED
    BY <1>3
<1> HIDE DEF v, n
<1>5. \A h \in 1..n : v[h] = IF h = 1 THEN c[h] ELSE v[h - 1] \o c[h]
  BY <1>4
<1>6. \A h \in 1..n : f[h] = IF h = 1 THEN c[h] ELSE f[h - 1] \o c[h]
  BY DEF n, Appended
<1> DEFINE T == {k \in 1..n : v[k] # f[k]}
<1>7. ASSUME T # {} PROVE FALSE
  <2>1. PICK k \in T : \A j \in T : k <= j
    <3>1. T \subseteq Nat
      OBVIOUS
    <3> HIDE DEF T
    <3>2. QED
      BY <1>7, <3>1, LeastNumber
  <2>2. k \in 1..n /\ v[k] # f[k] /\ k # 1
    BY <1>5, <1>6, <2>1
  <2>3. k - 1 \in 1..n /\ ~(k <= k - 1)
    BY <1>2, <2>2
  <2>4. v[k - 1] = f[k - 1]
    BY <2>1, <2>3
  <2>5. QED
    BY <1>5, <1>6, <2>2, <2>4
<1>8. n \in 1..n /\ T = {}
  BY <1>2, <1>7
<1>9. QED
  BY <1>1, <1>8 DEF n

\* What a row of two sequences has where.
LEMMA RowCells ==
  ASSUME NEW S, NEW x \in Seq(S), NEW y \in Seq(S)
  PROVE  /\ x \o y \in Seq(S) /\ Len(x \o y) = Len(x) + Len(y)
         /\ Len(x) \in Nat /\ Len(y) \in Nat
         /\ \A j \in 1..Len(x) : (x \o y)[j] = x[j]
         /\ \A j \in 1..Len(y) : (x \o y)[Len(x) + j] = y[j]
OBVIOUS

\* Sequences put one behind the other begin each of the longer rows.
LEMMA RowsBegin ==
  ASSUME NEW S, NEW n \in Nat, NEW c \in [1..n -> Seq(S)], NEW f \in [1..n -> Seq(S)],
         Appended(f, c, n), NEW m \in 1..n, NEW k \in 1..m
  PROVE  Begins(f[k], f[m])
<1> DEFINE Bad == {l \in k..n : ~Begins(f[k], f[l])}
<1>1. ASSUME Bad # {} PROVE FALSE
  <2>1. PICK l \in Bad : \A h \in Bad : l <= h
    <3>1. Bad \subseteq Nat
      OBVIOUS
    <3> HIDE DEF Bad
    <3>2. QED
      BY <1>1, <3>1, LeastNumber
  <2>2. Begins(f[k], f[k])
    <3>1. f[k] \in Seq(S)
      OBVIOUS
    <3>2. QED
      BY <3>1 DEF Begins
  <2>3. l \in k..n /\ ~Begins(f[k], f[l])
    BY <2>1
  <2>4. l # k
    <3>1. QED
      BY <2>2, <2>3
  <2>5. l - 1 \in k..n /\ l - 1 \in 1..n /\ l \in 1..n /\ l # 1 /\ ~(l <= l - 1)
    BY <2>3, <2>4
  <2>6. Begins(f[k], f[l - 1])
    <3>1. QED
      BY <2>1, <2>5
  <2> DEFINE x == f[l - 1]
             y == c[l]
  <2>7. f[l] = x \o y /\ x \in Seq(S) /\ y \in Seq(S)
    BY <2>5 DEF Appended
  <2>8. Len(f[k]) <= Len(x) /\ (\A j \in 1..Len(f[k]) : x[j] = f[k][j]) /\ Len(f[k]) \in Nat
    <3>1. f[k] \in Seq(S)
      OBVIOUS
    <3>2. QED
      BY <2>6, <3>1 DEF Begins
  <2> HIDE DEF x, y
  <2>9. /\ Len(f[l]) = Len(x) + Len(y) /\ Len(x) \in Nat /\ Len(y) \in Nat
        /\ \A j \in 1..Len(x) : f[l][j] = x[j]
    BY <2>7, RowCells
  <2>10. Begins(f[k], f[l])
    <3>1. Len(f[k]) <= Len(f[l])
      BY <2>8, <2>9
    <3>2. ASSUME NEW j \in 1..Len(f[k]) PROVE f[l][j] = f[k][j]
      <4>1. j \in 1..Len(x)
        BY <2>8, <2>9
      <4>2. QED
        BY <2>8, <2>9, <4>1
    <3>3. QED
      BY <3>1, <3>2 DEF Begins
  <2>11. QED
    BY <2>3, <2>10
<1>2. m \in k..n /\ Bad = {}
  BY <1>1
<1>3. QED
  BY <1>2

\* Behind the first m cells of a text are the pieces, then the rest; starts
\* says where each begins.
Laid(text, m, c, back, starts) ==
  LET N == Len(c)
  IN  /\ starts[1] = m + 1
      /\ starts[N + 1] + Len(back) = Len(text) + 1
      /\ \A k \in 1..Len(back) : text[starts[N + 1] + k - 1] = back[k]
      /\ \A n \in 1..N :
           /\ starts[n + 1] = starts[n] + Len(c[n])
           /\ starts[1] <= starts[n] /\ starts[n + 1] <= starts[N + 1]
           /\ \A k \in 1..Len(c[n]) : text[starts[n] + k - 1] = c[n][k]

Whole(front, c, back) == front \o FlattenSeq(c) \o back

\* Pieces with something in front of them and something behind them: where
\* they are in the whole text.
LEMMA PiecesLie ==
  ASSUME NEW S, NEW front \in Seq(S), NEW back \in Seq(S), NEW c \in Seq(Seq(S))
  PROVE  /\ Whole(front, c, back) \in Seq(S)
         /\ Begins(front, Whole(front, c, back))
         /\ \E starts \in [1..(Len(c) + 1) -> Nat] :
              Laid(Whole(front, c, back), Len(front), c, back, starts)
<1> DEFINE text == Whole(front, c, back)
           N == Len(c)
           flat == FlattenSeq(c)
<1>0. N \in Nat /\ c \in [1..N -> Seq(S)]
  OBVIOUS
<1>1. PICK f \in [1..N -> Seq(S)] : Appended(f, c, N)
  <2> HIDE DEF N
  <2>1. QED
    BY <1>0, Concatenations
<1>2. flat \in Seq(S) /\ (N = 0 => Len(flat) = 0) /\ (N # 0 => flat = f[N])
  <2>1. CASE N = 0
    <3>1. flat = c /\ Len(c) = 0
      BY <2>1 DEF FlattenSeq
    <3>2. c \in Seq(S)
      <4>1. c = <<>>
        BY <3>1, EmptySeq
      <4>2. QED
        BY <4>1
    <3> HIDE DEF flat
    <3>3. QED
      BY <2>1, <3>1, <3>2
  <2>2. CASE N # 0
    <3>1. flat = f[N]
      BY <1>1, <2>2, FlattenIs
    <3>2. f[N] \in Seq(S)
      <4> HIDE DEF N
      <4>1. N \in 1..N
        BY <1>0, <2>2
      <4>2. QED
        BY <1>1, <4>1
    <3> HIDE DEF flat, N
    <3>3. QED
      BY <2>2, <3>1, <3>2
  <2>3. QED
    BY <2>1, <2>2
<1> HIDE DEF flat
<1> DEFINE head == front \o flat
           F == Len(front)
<1>3. /\ head \in Seq(S) /\ Len(head) = F + Len(flat) /\ F \in Nat /\ Len(flat) \in Nat
      /\ \A k \in 1..F : head[k] = front[k]
      /\ \A k \in 1..Len(flat) : head[F + k] = flat[k]
  BY <1>2, RowCells
<1>4. text = head \o back
  BY DEF flat, Whole
<1> HIDE DEF head, text
<1>5. /\ text \in Seq(S) /\ Len(text) = Len(head) + Len(back) /\ Len(back) \in Nat
      /\ \A k \in 1..Len(head) : text[k] = head[k]
      /\ \A k \in 1..Len(back) : text[Len(head) + k] = back[k]
  <2> DEFINE whole == head \o back
  <2>1. /\ whole \in Seq(S) /\ Len(whole) = Len(head) + Len(back) /\ Len(back) \in Nat
        /\ \A k \in 1..Len(head) : whole[k] = head[k]
        /\ \A k \in 1..Len(back) : whole[Len(head) + k] = back[k]
    <3>1. head \in Seq(S) /\ back \in Seq(S)
      BY <1>3
    <3> HIDE DEF F
    <3>2. QED
      BY <3>1, RowCells
  <2>2. text = whole
    BY <1>4
  <2> HIDE DEF whole
  <2>3. QED
    BY <2>1, <2>2
<1>6. \A k \in 1..F : text[k] = front[k]
  <2> HIDE DEF F
  <2>1. \A k \in 1..F : k \in 1..Len(head)
    BY <1>3
  <2>2. QED
    BY <1>3, <1>5, <2>1
<1>7. \A k \in 1..Len(flat) : text[F + k] = flat[k]
  <2> HIDE DEF F
  <2>1. \A k \in 1..Len(flat) : F + k \in 1..Len(head)
    BY <1>3
  <2>2. QED
    BY <1>3, <1>5, <2>1
<1> DEFINE starts == [n \in 1..(N + 1) |-> F + 1 + (IF n = 1 THEN 0 ELSE Len(f[n - 1]))]
<1>8. \A n \in 1..N : Len(f[n]) \in Nat /\ f[n] \in Seq(S) /\ c[n] \in Seq(S) /\ Len(c[n]) \in Nat
  <2> HIDE DEF N
  <2> TAKE n \in 1..N
  <2>1. f[n] \in Seq(S) /\ c[n] \in Seq(S)
    BY <1>0, <1>1
  <2>2. QED
    BY <2>1
<1> HIDE DEF N, F
<1>9. starts \in [1..(N + 1) -> Nat] /\ N + 1 \in 1..(N + 1) /\ 1 \in 1..(N + 1)
  <2>1. \A n \in 1..(N + 1) : n # 1 => n - 1 \in 1..N
    BY <1>0
  <2>2. \A n \in 1..(N + 1) : F + 1 + (IF n = 1 THEN 0 ELSE Len(f[n - 1])) \in Nat
    <3> TAKE n \in 1..(N + 1)
    <3>1. CASE n = 1
      BY <1>3, <3>1
    <3>2. CASE n # 1
      <4>1. Len(f[n - 1]) \in Nat
        BY <1>8, <2>1, <3>2
      <4>2. F + 1 + Len(f[n - 1]) \in Nat
        <5> DEFINE l == Len(f[n - 1])
        <5> HIDE DEF l
        <5>1. F \in Nat /\ l \in Nat
          BY <1>3, <4>1 DEF l
        <5>2. F + 1 + l \in Nat
          BY <5>1
        <5>3. QED
          BY <5>2 DEF l
      <4>3. QED
        BY <3>2, <4>2
    <3>3. QED
      BY <3>1, <3>2
  <2>3. QED
    BY <1>0, <2>2
<1>10. starts[1] = F + 1
  BY <1>3, <1>9
<1>11. starts[N + 1] = Len(head) + 1
  <2>1. CASE N = 0
    BY <1>2, <1>3, <1>10, <2>1
  <2>2. CASE N # 0
    <3>1. starts[N + 1] = F + 1 + Len(f[N])
      BY <1>0, <1>9, <2>2
    <3> HIDE DEF starts
    <3>2. Len(flat) = Len(f[N])
      BY <1>2, <2>2
    <3>3. Len(head) = F + Len(flat) /\ F \in Nat /\ Len(flat) \in Nat
      BY <1>3
    <3> DEFINE l == Len(f[N])
               g == Len(flat)
               h == Len(head)
               b == starts[N + 1]
    <3> HIDE DEF l, g, h, b
    <3>4. b = F + 1 + l /\ g = l /\ h = F + g /\ F \in Nat /\ g \in Nat
      BY <3>1, <3>2, <3>3 DEF l, g, h, b
    <3>5. b = h + 1
      BY <3>4
    <3>6. QED
      BY <3>5 DEF h, b
  <2>3. QED
    BY <2>1, <2>2
<1>12. ASSUME NEW n \in 1..N
       PROVE  /\ starts[n + 1] = F + 1 + Len(f[n])
              /\ starts[n] = F + 1 + Len(f[n]) - Len(c[n])
              /\ starts[1] <= starts[n]
              /\ Len(f[n]) <= Len(flat) /\ \A k \in 1..Len(f[n]) : flat[k] = f[n][k]
              /\ Len(f[n]) - Len(c[n]) \in Nat
              /\ \A k \in 1..Len(c[n]) : f[n][Len(f[n]) - Len(c[n]) + k] = c[n][k]
  <2>1. n + 1 \in 1..(N + 1) /\ n \in 1..(N + 1) /\ n + 1 # 1 /\ (n + 1) - 1 = n
    BY <1>0
  <2>2. starts[n + 1] = F + 1 + Len(f[n])
    BY <2>1
  <2>3. starts[n] = F + 1 + (IF n = 1 THEN 0 ELSE Len(f[n - 1]))
    BY <2>1
  <2> HIDE DEF starts
  <2>4. f[n] = IF n = 1 THEN c[n] ELSE f[n - 1] \o c[n]
    BY <1>1 DEF Appended
  <2>5. N # 0 /\ N \in 1..N
    BY <1>0
  <2>6. Len(f[n]) <= Len(flat) /\ \A k \in 1..Len(f[n]) : flat[k] = f[n][k]
    <3>1. n \in 1..N /\ flat = f[N]
      BY <1>2, <2>5
    <3>2. Len(f[n]) <= Len(f[N]) /\ \A k \in 1..Len(f[n]) : f[N][k] = f[n][k]
      <4> DEFINE m == N
      <4>1. N \in Nat /\ c \in [1..N -> Seq(S)] /\ f \in [1..N -> Seq(S)] /\ Appended(f, c, N)
        BY <1>0, <1>1
      <4>2. m \in 1..N /\ n \in 1..m
        BY <2>5
      <4>3. m = N
        OBVIOUS
      <4> HIDE DEF m
      <4>4. Begins(f[n], f[m])
        BY <4>1, <4>2, RowsBegin
      <4>5. QED
        BY <4>3, <4>4 DEF Begins
    <3>3. QED
      BY <3>1, <3>2
  <2>7. /\ starts[n] = F + 1 + Len(f[n]) - Len(c[n])
        /\ Len(f[n]) - Len(c[n]) \in Nat
        /\ \A k \in 1..Len(c[n]) : f[n][Len(f[n]) - Len(c[n]) + k] = c[n][k]
    <3>1. CASE n = 1
      BY <1>3, <1>8, <2>3, <2>4, <3>1
    <3>2. CASE n # 1
      <4> DEFINE x == f[n - 1]
                 y == c[n]
      <4>1. n - 1 \in 1..N
        BY <1>0, <3>2
      <4>2. x \in Seq(S) /\ y \in Seq(S) /\ f[n] = x \o y /\ starts[n] = F + 1 + Len(x)
        BY <1>8, <2>3, <2>4, <3>2, <4>1
      <4> HIDE DEF x
      <4>3. /\ Len(f[n]) = Len(x) + Len(y) /\ Len(x) \in Nat /\ Len(y) \in Nat
            /\ \A j \in 1..Len(y) : f[n][Len(x) + j] = y[j]
        <5> HIDE DEF y
        <5>1. QED
          BY <4>2, RowCells
      <4>4. Len(f[n]) - Len(y) = Len(x)
        <5> HIDE DEF y
        <5>1. QED
          BY <4>3
      <4>5. QED
        BY <1>3, <4>2, <4>3, <4>4
    <3>3. QED
      BY <3>1, <3>2
  <2>8. QED
    <3>1. starts[1] <= starts[n]
      <4>1. Len(f[n]) \in Nat /\ Len(c[n]) \in Nat
        BY <1>8
      <4>2. QED
        BY <1>3, <1>10, <2>7, <4>1
    <3>2. QED
      BY <2>2, <2>6, <2>7, <3>1
<1> HIDE DEF starts
<1>13. ASSUME NEW n \in 1..N
       PROVE  /\ starts[n + 1] = starts[n] + Len(c[n])
              /\ starts[1] <= starts[n] /\ starts[n + 1] <= starts[N + 1]
              /\ \A k \in 1..Len(c[n]) : text[starts[n] + k - 1] = c[n][k]
  <2> DEFINE d == Len(f[n]) - Len(c[n])
  <2>0. /\ Len(f[n]) \in Nat /\ Len(c[n]) \in Nat
        /\ starts[n + 1] = F + 1 + Len(f[n])
        /\ starts[n] = F + 1 + Len(f[n]) - Len(c[n])
        /\ starts[1] <= starts[n]
        /\ Len(f[n]) <= Len(flat)
    BY <1>8, <1>12
  <2>1. starts[n + 1] = starts[n] + Len(c[n])
    BY <1>3, <2>0
  <2>2. starts[n + 1] <= starts[N + 1]
    BY <1>3, <1>11, <2>0
  <2>3. ASSUME NEW k \in 1..Len(c[n]) PROVE text[starts[n] + k - 1] = c[n][k]
    <3>1. d \in Nat /\ f[n][d + k] = c[n][k]
      BY <1>12
    <3>2. d + k \in 1..Len(f[n]) /\ d + k \in 1..Len(flat) /\ starts[n] + k - 1 = F + (d + k)
      <4> DEFINE l == Len(f[n])
                 m == Len(c[n])
                 b == starts[n]
      <4>1. l \in Nat /\ m \in Nat /\ b = F + 1 + l - m /\ d = l - m /\ l <= Len(flat)
        BY <2>0
      <4>2. k \in 1..m
        OBVIOUS
      <4> HIDE DEF l, m, b, d
      <4>3. d + k \in 1..l /\ d + k \in 1..Len(flat) /\ b + k - 1 = F + (d + k)
        BY <1>3, <3>1, <4>1, <4>2
      <4>4. QED
        BY <4>3 DEF l, m, b
    <3>3. flat[d + k] = f[n][d + k]
      <4> HIDE DEF d
      <4>1. QED
        BY <1>12, <3>2
    <3>4. text[F + (d + k)] = flat[d + k]
      <4> HIDE DEF d
      <4>1. QED
        BY <1>7, <3>2
    <3>5. QED
      BY <3>1, <3>2, <3>3, <3>4
  <2>4. QED
    BY <2>0, <2>1, <2>2, <2>3
<1>14. starts[N + 1] + Len(back) = Len(text) + 1
  BY <1>3, <1>5, <1>11
<1>15. ASSUME NEW k \in 1..Len(back) PROVE text[starts[N + 1] + k - 1] = back[k]
  <2>1. starts[N + 1] + k - 1 = Len(head) + k
    BY <1>3, <1>5, <1>11
  <2>2. QED
    BY <1>5, <2>1
<1>16. QED
  <2>1. Begins(front, text)
    <3>1. Len(front) <= Len(text)
      BY <1>3, <1>5 DEF F
    <3>2. QED
      BY <1>6, <3>1 DEF F, Begins
  <2>2. starts[1] = Len(front) + 1
    BY <1>10 DEF F
  <2>3. Laid(text, Len(front), c, back, starts)
    BY <1>13, <1>14, <1>15, <2>2 DEF N, Laid
  <2>4. starts \in [1..(Len(c) + 1) -> Nat]
    BY <1>9 DEF N
  <2>5. QED
    BY <1>5, <2>1, <2>3, <2>4 DEF text
\* w is a header line, of the name x and the value v.
IsLine(w, x, v) ==
  LET l == Len(x)
      m == Len(v)
  IN  /\ Len(w) = l + m + 4
      /\ \A k \in 1..l : w[k] = x[k]
      /\ w[l + 1] = COLON /\ w[l + 2] = SP
      /\ \A k \in 1..m : w[l + 2 + k] = v[k]
      /\ w[l + m + 3] = CR /\ w[l + m + 4] = LF

\* Where the parts of a header line are.
LEMMA LineIs ==
  ASSUME NEW S, {CR, LF, SP, COLON} \subseteq S,
         NEW hdr, hdr.key \in Seq(S), hdr.value \in Seq(S)
  PROVE  HeaderLine(hdr) \in Seq(S) /\ IsLine(HeaderLine(hdr), hdr.key, hdr.value)
<1> DEFINE x == hdr.key
           v == hdr.value
           colon == <<COLON, SP>>
           end == <<CR, LF>>
           a == x \o colon
           b == a \o v
<1>1. x \in Seq(S) /\ v \in Seq(S) /\ HeaderLine(hdr) = b \o end
  BY DEF HeaderLine
<1>2. /\ colon \in Seq(S) /\ Len(colon) = 2 /\ colon[1] = COLON /\ colon[2] = SP
      /\ end \in Seq(S) /\ Len(end) = 2 /\ end[1] = CR /\ end[2] = LF
  <2>1. COLON \in S /\ SP \in S /\ CR \in S /\ LF \in S
    OBVIOUS
  <2>2. QED
    BY <2>1
<1> HIDE DEF x, v, colon, end
<1> DEFINE l == Len(x)
           m == Len(v)
<1>3. /\ a \in Seq(S) /\ Len(a) = l + 2 /\ l \in Nat
      /\ \A k \in 1..l : a[k] = x[k]
      /\ a[l + 1] = COLON /\ a[l + 2] = SP
  <2>1. /\ a \in Seq(S) /\ Len(a) = l + Len(colon) /\ l \in Nat
        /\ \A k \in 1..l : a[k] = x[k]
        /\ \A k \in 1..Len(colon) : a[l + k] = colon[k]
    <3>1. x \in Seq(S) /\ colon \in Seq(S)
      BY <1>1, <1>2
    <3>2. QED
      BY <3>1, RowCells
  <2> HIDE DEF a, l
  <2>2. 1 \in 1..Len(colon) /\ 2 \in 1..Len(colon)
    BY <1>2
  <2>3. QED
    BY <1>2, <2>1, <2>2
<1> HIDE DEF a
<1>4. /\ b \in Seq(S) /\ Len(b) = l + m + 2 /\ m \in Nat
      /\ \A k \in 1..(l + 2) : b[k] = a[k]
      /\ \A k \in 1..m : b[l + 2 + k] = v[k]
  <2>1. /\ b \in Seq(S) /\ Len(b) = Len(a) + m /\ m \in Nat
        /\ \A k \in 1..Len(a) : b[k] = a[k]
        /\ \A k \in 1..m : b[Len(a) + k] = v[k]
    <3>1. a \in Seq(S) /\ v \in Seq(S)
      BY <1>1, <1>3
    <3>2. QED
      BY <3>1, RowCells
  <2> HIDE DEF b, l, m
  <2>2. QED
    BY <1>3, <2>1
<1> HIDE DEF b
<1> DEFINE w == b \o end
<1>5. /\ w \in Seq(S) /\ Len(w) = l + m + 4
      /\ \A k \in 1..(l + m + 2) : w[k] = b[k]
      /\ w[l + m + 3] = CR /\ w[l + m + 4] = LF
  <2>1. /\ w \in Seq(S) /\ Len(w) = Len(b) + Len(end)
        /\ \A k \in 1..Len(b) : w[k] = b[k]
        /\ \A k \in 1..Len(end) : w[Len(b) + k] = end[k]
    <3>1. b \in Seq(S) /\ end \in Seq(S)
      BY <1>2, <1>4
    <3>2. QED
      BY <3>1, RowCells
  <2> HIDE DEF w, l, m
  <2>2. 1 \in 1..Len(end) /\ 2 \in 1..Len(end)
    BY <1>2
  <2>3. w[Len(b) + 1] = CR /\ w[Len(b) + 2] = LF
    BY <1>2, <2>1, <2>2
  <2>4. Len(b) + 1 = l + m + 3 /\ Len(b) + 2 = l + m + 4 /\ Len(b) + Len(end) = l + m + 4
    BY <1>2, <1>3, <1>4
  <2>5. QED
    BY <1>4, <2>1, <2>3, <2>4
<1> HIDE DEF w, l, m
<1>6. \A k \in 1..l : w[k] = x[k]
  <2> TAKE k \in 1..l
  <2>1. k \in 1..(l + 2) /\ k \in 1..(l + m + 2)
    BY <1>3, <1>4
  <2>2. QED
    BY <1>3, <1>4, <1>5, <2>1
<1>7. w[l + 1] = COLON /\ w[l + 2] = SP
  <2>1. /\ l + 1 \in 1..(l + 2) /\ l + 2 \in 1..(l + 2)
        /\ l + 1 \in 1..(l + m + 2) /\ l + 2 \in 1..(l + m + 2)
    BY <1>3, <1>4
  <2>2. QED
    BY <1>3, <1>4, <1>5, <2>1
<1>8. \A k \in 1..m : w[l + 2 + k] = v[k]
  <2> TAKE k \in 1..m
  <2>1. l + 2 + k \in 1..(l + m + 2)
    BY <1>3, <1>4
  <2>2. QED
    BY <1>4, <1>5, <2>1
<1>9. HeaderLine(hdr) = w
  BY <1>1 DEF w
<1>10. QED
  <2>1. IsLine(w, x, v)
    BY <1>3, <1>4, <1>5, <1>6, <1>7, <1>8 DEF l, m, IsLine
  <2>2. QED
    BY <1>5, <1>9, <2>1 DEF x, v

\* The responses a head can be made of: no word of the first line and no value
\* ends a line or the text, and no name of a header has a colon.
Response(Word) ==
  [version : Word \ {NUL, LF}, status_code : Word \ {NUL, LF}, status_desc : Word \ {NUL, LF},
   headers : Seq([key : Seq(Word \ {NUL, CR, LF, COLON}), value : Seq(Word \ {NUL, CR, LF})])]

\* The text of every response is rendered from its headers (http.c:112-127):
\* what FieldsReadBack says of the parser is true of what resptostr writes.
THEOREM ResponsesRendered ==
  ASSUME NEW Word, NEW resp \in Response(Word)
  PROVE  \E starts \in Seq(Nat) :
           Rendered([text |-> resptostr(resp), fields |-> resp.headers, rendered |-> TRUE,
                     starts |-> starts])
<1> DEFINE S == Word \union {CR, LF, SP, COLON}
           Field == [key : Seq(Word \ {NUL, CR, LF, COLON}), value : Seq(Word \ {NUL, CR, LF})]
           hs == resp.headers
           N == Len(hs)
           front == <<resp.version, SP, resp.status_code, SP, resp.status_desc, CR, LF>>
           back == <<CR, LF>>
           c == [n \in DOMAIN hs |-> HeaderLine(hs[n])]
           text == resptostr(resp)
<1>1. hs \in Seq(Field) /\ resp.version \in Word \ {NUL, LF}
      /\ resp.status_code \in Word \ {NUL, LF} /\ resp.status_desc \in Word \ {NUL, LF}
  BY DEF Response
<1>2. text = Whole(front, c, back)
  BY DEF resptostr, Whole
<1>3. CR \in S /\ LF \in S /\ SP \in S /\ COLON \in S /\ Word \subseteq S
  OBVIOUS
<1>4. front \in Seq(S) /\ Len(front) = 7
  <2> HIDE DEF S
  <2>1. resp.version \in S /\ resp.status_code \in S /\ resp.status_desc \in S
    BY <1>1, <1>3
  <2>2. QED
    BY <1>3, <2>1
<1>5. (\A k \in 1..7 : front[k] # NUL) /\ (\A k \in 1..6 : front[k] # LF) /\ front[7] = LF
  <2>1. /\ front[1] = resp.version /\ front[2] = SP /\ front[3] = resp.status_code
        /\ front[4] = SP /\ front[5] = resp.status_desc /\ front[6] = CR /\ front[7] = LF
    OBVIOUS
  <2> HIDE DEF front
  <2>2. SP \notin {NUL, LF} /\ CR \notin {NUL, LF} /\ LF # NUL
    BY DEF SP, CR, LF, NUL
  <2>3. \A k \in 1..7 : k = 1 \/ k = 2 \/ k = 3 \/ k = 4 \/ k = 5 \/ k = 6 \/ k = 7
    OBVIOUS
  <2>4. QED
    BY <1>1, <2>1, <2>2, <2>3
<1>6. back \in Seq(S) /\ Len(back) = 2 /\ back[1] = CR /\ back[2] = LF
  <2> HIDE DEF S
  <2>1. QED
    BY <1>3
<1>7. N \in Nat /\ DOMAIN hs = 1..N /\ \A n \in 1..N : hs[n] \in Field
  <2> HIDE DEF Field
  <2>1. QED
    BY <1>1
<1>8. ASSUME NEW n \in 1..N
      PROVE  /\ hs[n].key \in Seq(S) /\ hs[n].value \in Seq(S)
             /\ \A k \in 1..Len(hs[n].key) : hs[n].key[k] \notin {NUL, CR, LF, COLON}
             /\ \A k \in 1..Len(hs[n].value) : hs[n].value[k] \notin {NUL, CR, LF}
  <2>1. hs[n] \in Field
    BY <1>7
  <2>2. hs[n].key \in Seq(Word \ {NUL, CR, LF, COLON}) /\ hs[n].value \in Seq(Word \ {NUL, CR, LF})
    BY <2>1
  <2> DEFINE x == hs[n].key
             v == hs[n].value
             K == Word \ {NUL, CR, LF, COLON}
             V == Word \ {NUL, CR, LF}
  <2>3. K \subseteq S /\ V \subseteq S /\ x \in Seq(K) /\ v \in Seq(V)
    BY <2>2
  <2> HIDE DEF K, V, S, x, v
  <2>4. x \in Seq(S) /\ v \in Seq(S)
    BY <2>3
  <2>5. (\A k \in 1..Len(x) : x[k] \in K) /\ \A k \in 1..Len(v) : v[k] \in V
    BY <2>3
  <2>6. QED
    BY <2>4, <2>5 DEF K, V, x, v
<1>9. c \in Seq(Seq(S)) /\ Len(c) = N /\ \A n \in 1..N : c[n] = HeaderLine(hs[n])
  <2> HIDE DEF N, S, hs
  <2>1. \A n \in 1..N : HeaderLine(hs[n]) \in Seq(S)
    <3> TAKE n \in 1..N
    <3>1. hs[n].key \in Seq(S) /\ hs[n].value \in Seq(S)
      BY <1>8
    <3>2. {CR, LF, SP, COLON} \subseteq S
      BY <1>3
    <3>3. QED
      BY <3>1, <3>2, LineIs
  <2>2. c = [n \in 1..N |-> HeaderLine(hs[n])]
    BY <1>7
  <2>3. QED
    BY <1>7, <2>1, <2>2
<1> HIDE DEF c, front, back, S, text, hs
<1>10. front \in Seq(S) /\ back \in Seq(S) /\ c \in Seq(Seq(S))
  BY <1>4, <1>6, <1>9
<1>11. /\ text \in Seq(S) /\ Begins(front, text)
       /\ \E starts \in [1..(Len(c) + 1) -> Nat] : Laid(text, Len(front), c, back, starts)
  BY <1>2, <1>10, PiecesLie
<1>12. Len(text) \in Nat /\ \A k \in 1..7 : text[k] = front[k]
  BY <1>4, <1>11 DEF Begins
<1>13. PICK starts \in [1..(N + 1) -> Nat] : Laid(text, 7, c, back, starts)
  <2> HIDE DEF N
  <2>1. QED
    BY <1>4, <1>9, <1>11
<1>14. /\ starts[1] = 8
       /\ starts[N + 1] + 2 = Len(text) + 1
       /\ text[starts[N + 1]] = CR /\ text[starts[N + 1] + 1] = LF
  <2> HIDE DEF N
  <2>1. N + 1 \in 1..(N + 1) /\ starts[N + 1] \in Nat
    BY <1>7, <1>13
  <2>2. /\ starts[1] = 7 + 1 /\ starts[N + 1] + 2 = Len(text) + 1
        /\ \A k \in 1..2 : text[starts[N + 1] + k - 1] = back[k]
    BY <1>6, <1>9, <1>13 DEF Laid
  <2>3. 1 \in 1..2 /\ 2 \in 1..2
    OBVIOUS
  <2> DEFINE e == starts[N + 1]
  <2>4. text[e + 1 - 1] = CR /\ text[e + 2 - 1] = LF /\ e \in Nat
    BY <1>6, <2>1, <2>2, <2>3
  <2> HIDE DEF e
  <2>5. e + 1 - 1 = e /\ e + 2 - 1 = e + 1
    BY <2>4
  <2>6. text[e] = CR /\ text[e + 1] = LF
    BY <2>4, <2>5
  <2>7. QED
    BY <2>2, <2>6 DEF e
<1> HIDE DEF N
<1> DEFINE s == [text |-> text, fields |-> hs, rendered |-> TRUE, starts |-> starts]
<1>15. s.text = text /\ s.fields = hs /\ s.starts = starts
  OBVIOUS
<1> HIDE DEF s
<1>16. ASSUME NEW n \in 1..N
       PROVE  /\ starts[n + 1] = starts[n] + Len(c[n])
              /\ 8 <= starts[n] /\ starts[n + 1] <= Len(text) - 1
              /\ starts[n] \in Nat /\ starts[n + 1] \in Nat /\ Len(c[n]) \in Nat
              /\ \A k \in 1..Len(c[n]) : text[starts[n] + k - 1] = c[n][k]
  <2>1. /\ starts[n + 1] = starts[n] + Len(c[n])
        /\ starts[1] <= starts[n] /\ starts[n + 1] <= starts[N + 1]
        /\ \A k \in 1..Len(c[n]) : text[starts[n] + k - 1] = c[n][k]
    BY <1>9, <1>13 DEF Laid
  <2>2. n \in 1..(N + 1) /\ n + 1 \in 1..(N + 1) /\ N + 1 \in 1..(N + 1)
    BY <1>7
  <2>3. starts[n] \in Nat /\ starts[n + 1] \in Nat /\ starts[N + 1] \in Nat
    BY <1>13, <2>2
  <2>4. Len(c[n]) \in Nat
    <3>1. c[n] \in Seq(S)
      BY <1>9
    <3>2. QED
      BY <3>1
  <2>5. starts[n + 1] <= Len(text) - 1
    <3> DEFINE e == starts[N + 1]
               h == starts[n + 1]
    <3>1. e \in Nat /\ h \in Nat /\ h <= e /\ e + 2 = Len(text) + 1
      BY <1>14, <2>1, <2>3
    <3> HIDE DEF e, h
    <3>2. h <= Len(text) - 1
      BY <1>12, <3>1
    <3>3. QED
      BY <3>2 DEF h
  <2>6. 8 <= starts[n]
    BY <1>14, <2>1
  <2>7. QED
    BY <2>1, <2>3, <2>4, <2>5, <2>6
<1>17. \A n \in 1..(N + 1) : starts[n] \in 2..Len(text)
  <2> TAKE n \in 1..(N + 1)
  <2> DEFINE g == starts[n]
  <2>1. CASE n \in 1..N
    <3> DEFINE h == starts[n + 1]
               l == Len(c[n])
    <3>1. g \in Nat /\ h \in Nat /\ l \in Nat /\ h = g + l /\ 8 <= g /\ h <= Len(text) - 1
      BY <1>16, <2>1
    <3> HIDE DEF g, h, l
    <3>2. g \in 2..Len(text)
      BY <1>12, <3>1
    <3>3. QED
      BY <3>2 DEF g
  <2>2. CASE n \notin 1..N
    <3>1. n = N + 1
      BY <1>7, <2>2
    <3>2. g \in Nat /\ g + 2 = Len(text) + 1
      BY <1>13, <1>14, <3>1
    <3>3. g >= 8
      <4>1. CASE N = 0
        BY <1>14, <3>1, <4>1
      <4>2. CASE N # 0
        <5>1. N \in 1..N
          BY <1>7, <4>2
        <5> DEFINE o == starts[N]
                   l == Len(c[N])
        <5>2. o \in Nat /\ l \in Nat /\ g = o + l /\ 8 <= o
          BY <1>16, <3>1, <5>1
        <5> HIDE DEF g, o, l
        <5>3. QED
          BY <5>2
      <4>3. QED
        BY <4>1, <4>2
    <3> HIDE DEF g
    <3>4. g \in 2..Len(text)
      BY <1>12, <3>2, <3>3
    <3>5. QED
      BY <3>4 DEF g
  <2>3. QED
    BY <2>1, <2>2
<1>18. ASSUME NEW n \in 1..N PROVE FieldLine(s, n)
  <2> DEFINE x == hs[n].key
             v == hs[n].value
             b == starts[n]
             l == Len(x)
             m == Len(v)
             w == HeaderLine(hs[n])
  <2>1. /\ w \in Seq(S) /\ l \in Nat /\ m \in Nat /\ Len(w) = l + m + 4
        /\ \A k \in 1..l : w[k] = x[k]
        /\ w[l + 1] = COLON /\ w[l + 2] = SP
        /\ \A k \in 1..m : w[l + 2 + k] = v[k]
        /\ w[l + m + 3] = CR /\ w[l + m + 4] = LF
    <3>1. {CR, LF, SP, COLON} \subseteq S /\ x \in Seq(S) /\ v \in Seq(S)
      BY <1>3, <1>8
    <3>2. w \in Seq(S) /\ IsLine(w, x, v)
      BY <3>1, LineIs
    <3>3. l \in Nat /\ m \in Nat
      BY <3>1
    <3> HIDE DEF w, x, v
    <3>4. QED
      BY <3>2, <3>3 DEF IsLine
  <2>2. /\ starts[n + 1] = b + Len(w) /\ b \in Nat
        /\ \A k \in 1..Len(w) : text[b + k - 1] = w[k]
    BY <1>9, <1>16
  <2>3. /\ \A k \in 1..l : x[k] \notin {NUL, CR, LF, COLON}
        /\ \A k \in 1..m : v[k] \notin {NUL, CR, LF}
    BY <1>8
  <2> DEFINE last == starts[n + 1]
  <2>4. last = b + Len(w)
    BY <2>2
  <2> HIDE DEF x, v, b, l, m, w, last
  <2>5. \A k \in 1..l : text[b + k - 1] = x[k]
    <3> TAKE k \in 1..l
    <3>1. k \in 1..Len(w)
      BY <2>1
    <3>2. QED
      BY <2>1, <2>2, <3>1
  <2>6. text[b + l] = COLON /\ text[b + l + 1] = SP
    <3>1. /\ l + 1 \in 1..Len(w) /\ l + 2 \in 1..Len(w)
          /\ b + (l + 1) - 1 = b + l /\ b + (l + 2) - 1 = b + l + 1
      BY <2>1, <2>2
    <3>2. text[b + (l + 1) - 1] = COLON /\ text[b + (l + 2) - 1] = SP
      BY <2>1, <2>2, <3>1
    <3>3. QED
      BY <3>1, <3>2
  <2>7. \A k \in 1..m : text[b + l + 2 + k - 1] = v[k]
    <3> TAKE k \in 1..m
    <3>1. l + 2 + k \in 1..Len(w) /\ b + (l + 2 + k) - 1 = b + l + 2 + k - 1
      <4>1. l \in Nat /\ m \in Nat /\ b \in Nat /\ Len(w) = l + m + 4
        BY <2>1, <2>2
      <4>2. QED
        BY <4>1
    <3>2. text[b + (l + 2 + k) - 1] = v[k]
      BY <2>1, <2>2, <3>1
    <3>3. QED
      BY <3>1, <3>2
  <2>8. text[b + l + 2 + m] = CR /\ text[b + l + 2 + m + 1] = LF
    <3>1. /\ l + m + 3 \in 1..Len(w) /\ l + m + 4 \in 1..Len(w)
          /\ b + (l + m + 3) - 1 = b + l + 2 + m /\ b + (l + m + 4) - 1 = b + l + 2 + m + 1
      BY <2>1, <2>2
    <3>2. text[b + (l + m + 3) - 1] = CR /\ text[b + (l + m + 4) - 1] = LF
      BY <2>1, <2>2, <3>1
    <3>3. QED
      BY <3>1, <3>2
  <2>9. last = b + l + 2 + m + 2
    BY <2>1, <2>2, <2>4
  <2>10. s.fields[n].key = x /\ s.fields[n].value = v /\ s.starts[n] = b /\ s.starts[n + 1] = last
    BY <1>15 DEF x, v, b, last
  <2>11. Len(s.fields[n].key) = l /\ Len(s.fields[n].value) = m
    BY <2>10 DEF l, m
  <2>12. ValueStart(s, n) = b + l + 2
    BY <1>15, <2>6, <2>10, <2>11 DEF ValueStart
  <2>13. QED
    BY <1>15, <2>3, <2>5, <2>6, <2>7, <2>8, <2>9, <2>10, <2>11, <2>12 DEF FieldLine
<1>19. hs \in Seq([key : Seq(Range(text)), value : Seq(Range(text))])
  <2> DEFINE R == Range(text)
             RF == [key : Seq(R), value : Seq(R)]
  <2>1. ASSUME NEW n \in 1..N PROVE hs[n] \in RF
    <3> DEFINE x == hs[n].key
               v == hs[n].value
               w == c[n]
    <3>1. /\ x \in Seq(S) /\ v \in Seq(S) /\ w \in Seq(S)
          /\ \A k \in 1..Len(x) : w[k] = x[k]
          /\ \A k \in 1..Len(v) : w[Len(x) + 2 + k] = v[k]
          /\ Len(w) = Len(x) + Len(v) + 4 /\ Len(x) \in Nat /\ Len(v) \in Nat
      <4>1. {CR, LF, SP, COLON} \subseteq S /\ x \in Seq(S) /\ v \in Seq(S)
        BY <1>3, <1>8
      <4>2. w = HeaderLine(hs[n])
        BY <1>9
      <4>3. w \in Seq(S) /\ IsLine(w, x, v)
        BY <4>1, <4>2, LineIs
      <4>4. Len(x) \in Nat /\ Len(v) \in Nat
        BY <4>1
      <4> HIDE DEF w, x, v
      <4>5. QED
        BY <4>1, <4>3, <4>4 DEF IsLine
    <3>2. ASSUME NEW k \in 1..Len(w) PROVE w[k] \in R
      <4> DEFINE b == starts[n]
                 h == starts[n + 1]
                 l == Len(w)
      <4>1. /\ h = b + l /\ b \in Nat /\ h \in Nat /\ l \in Nat /\ 8 <= b /\ h <= Len(text) - 1
            /\ text[b + k - 1] = w[k]
        BY <1>16
      <4>2. k \in 1..l
        OBVIOUS
      <4> HIDE DEF b, h, l
      <4>3. b + k - 1 \in 1..Len(text)
        BY <1>12, <4>1, <4>2
      <4>4. DOMAIN text = 1..Len(text)
        BY <1>11
      <4> HIDE DEF w
      <4>5. QED
        BY <4>1, <4>3, <4>4 DEF Range
    <3>3. x \in Seq(R) /\ v \in Seq(R)
      <4> HIDE DEF x, v, w, R
      <4>1. \A k \in 1..Len(x) : x[k] \in R
        <5> TAKE k \in 1..Len(x)
        <5>1. k \in 1..Len(w)
          BY <3>1
        <5>2. QED
          BY <3>1, <3>2, <5>1
      <4>2. \A k \in 1..Len(v) : v[k] \in R
        <5> TAKE k \in 1..Len(v)
        <5>1. Len(x) + 2 + k \in 1..Len(w)
          BY <3>1
        <5>2. QED
          BY <3>1, <3>2, <5>1
      <4>3. x = [k \in 1..Len(x) |-> x[k]] /\ v = [k \in 1..Len(v) |-> v[k]]
        BY <3>1
      <4> DEFINE d == Len(x)
                 e == Len(v)
      <4> HIDE DEF d, e
      <4>4. x \in [1..d -> R] /\ v \in [1..e -> R] /\ d \in Nat /\ e \in Nat
        BY <3>1, <4>1, <4>2, <4>3 DEF d, e
      <4>5. QED
        BY <4>4
    <3>4. hs[n] = [key |-> x, value |-> v]
      <4>1. hs[n] \in Field
        BY <1>7
      <4>2. QED
        BY <4>1
    <3> HIDE DEF x, v, R
    <3>5. QED
      BY <3>3, <3>4
  <2> HIDE DEF RF
  <2>2. hs = [n \in 1..N |-> hs[n]]
    BY <1>1, <1>7
  <2>3. hs \in [1..N -> RF]
    BY <2>1, <2>2
  <2>4. hs \in Seq(RF)
    BY <1>7, <2>3
  <2>5. QED
    BY <2>4 DEF RF, R
<1>20. /\ \A k \in 1..(8 - 1) : text[k] # NUL
       /\ \A k \in 1..(8 - 2) : text[k] # LF
       /\ text[8 - 1] = LF
  <2>1. \A k \in 1..6 : k \in 1..7
    OBVIOUS
  <2>2. 7 \in 1..7 /\ 8 - 1 = 7 /\ 8 - 2 = 6
    OBVIOUS
  <2>3. (\A k \in 1..7 : text[k] # NUL) /\ (\A k \in 1..6 : text[k] # LF) /\ text[7] = LF
    BY <1>5, <1>12, <2>1, <2>2
  <2>4. QED
    BY <2>2, <2>3
<1>21. Rendered(s)
  <2> DEFINE e == starts[N + 1]
  <2>1. Len(s.fields) = N
    BY <1>15 DEF N
  <2>2. text[e] = CR /\ text[e + 1] = LF /\ e + 1 = Len(text)
    <3>1. e \in Nat /\ e + 2 = Len(text) + 1 /\ text[e] = CR /\ text[e + 1] = LF
      <4>1. N + 1 \in 1..(N + 1)
        BY <1>7
      <4>2. QED
        BY <1>13, <1>14, <4>1
    <3> HIDE DEF e
    <3>2. e + 1 = Len(text)
      BY <1>12, <3>1
    <3>3. QED
      BY <3>1, <3>2
  <2>3. QED
    BY <1>14, <1>15, <1>17, <1>18, <1>19, <1>20, <2>1, <2>2 DEF Rendered
<1>22. starts \in Seq(Nat)
  <2>1. N + 1 \in Nat
    BY <1>7
  <2>2. QED
    BY <1>13, <2>1
<1>23. QED
  BY <1>21, <1>22 DEF s, text, hs

\* add_header keeps a response one that can be rendered.
LEMMA AddHeader ==
  ASSUME NEW Word, NEW resp \in Response(Word),
         NEW key \in Seq(Word \ {NUL, CR, LF, COLON}), NEW value \in Seq(Word \ {NUL, CR, LF})
  PROVE  add_header(resp, key, value) \in Response(Word)
<1> DEFINE Field == [key : Seq(Word \ {NUL, CR, LF, COLON}), value : Seq(Word \ {NUL, CR, LF})]
           hdr == [key |-> key, value |-> value]
           First == Word \ {NUL, LF}
           hs == Append(resp.headers, hdr)
<1>1. resp \in [version : First, status_code : First, status_desc : First, headers : Seq(Field)]
  BY DEF Response
<1>2. hdr \in Field
  OBVIOUS
<1>3. add_header(resp, key, value) = [resp EXCEPT !.headers = hs]
  BY DEF add_header
<1> HIDE DEF Field, hdr, First
<1>4. hs \in Seq(Field)
  BY <1>1, <1>2
<1> HIDE DEF hs
<1>5. [resp EXCEPT !.headers = hs]
        \in [version : First, status_code : First, status_desc : First, headers : Seq(Field)]
  BY <1>1, <1>4
<1>6. QED
  BY <1>3, <1>5 DEF Response, First, Field

\* The words serve_file puts in a head.
HeadWords ==
  {"HTTP/1.1", "200", "OK", "404", "Not Found", "Content-Length", "0", "Content-Type",
   "image/png", "Content-Disposition", "attachment"}

\* Every head serve_file sends is such a text, whatever file was asked for and
\* however its size is written (static.c:41-75).
THEOREM HeadsRendered ==
  ASSUME NEW Word, NEW fname, NEW found \in BOOLEAN, NEW clength \in Seq(Word \ {NUL, CR, LF})
  PROVE  LET head == HeadOf(fname, found, clength)
         IN  \E starts \in Seq(Nat) :
               Rendered([text |-> resptostr(head), fields |-> head.headers, rendered |-> TRUE,
                         starts |-> starts])
<1> DEFINE W == Word \union HeadWords
           K == W \ {NUL, CR, LF, COLON}
           V == W \ {NUL, CR, LF}
           head == HeadOf(fname, found, clength)
<1>1. \A w \in HeadWords : w \in K /\ w \in V /\ w \in W \ {NUL, LF}
  BY DEF HeadWords, NUL, CR, LF, COLON
<1>2. clength \in Seq(V)
  <2> DEFINE U == Word \ {NUL, CR, LF}
  <2>1. U \subseteq V /\ clength \in Seq(U)
    OBVIOUS
  <2> HIDE DEF U, V
  <2>2. QED
    BY <2>1
<1> HIDE DEF W
<1>3. ASSUME NEW w \in HeadWords PROVE <<w>> \in Seq(K) /\ <<w>> \in Seq(V)
  <2>1. w \in K /\ w \in V
    BY <1>1
  <2> HIDE DEF K, V
  <2>2. QED
    BY <2>1
<1>4. ASSUME NEW status \in HeadWords, NEW statusdesc \in HeadWords
      PROVE  create_response(status, statusdesc) \in Response(W)
  <2>1. "HTTP/1.1" \in HeadWords
    BY DEF HeadWords
  <2>2. <<>> \in Seq([key : K, value : V]) /\ <<>> \in Seq([key : Seq(K), value : Seq(V)])
    OBVIOUS
  <2>3. QED
    BY <1>1, <2>1, <2>2 DEF create_response, Response
<1>5. ASSUME NEW resp \in Response(W), NEW w \in HeadWords, NEW value \in Seq(V)
      PROVE  add_header(resp, <<w>>, value) \in Response(W)
  <2>1. <<w>> \in Seq(K)
    BY <1>3
  <2>2. QED
    BY <2>1, AddHeader
<1>6. head \in Response(W)
  <2> DEFINE length == add_header(create_response("200", "OK"), <<"Content-Length">>, clength)
             typed == IF fname = Image
                      THEN add_header(length, <<"Content-Type">>, <<"image/png">>)
                      ELSE length
  <2>1. /\ {"200", "OK", "404", "Not Found", "Content-Length", "0"} \subseteq HeadWords
        /\ {"Content-Type", "image/png", "Content-Disposition", "attachment"} \subseteq HeadWords
    BY DEF HeadWords
  <2>2. /\ <<"0">> \in Seq(V) /\ <<"image/png">> \in Seq(V) /\ <<"attachment">> \in Seq(V)
    BY <1>3, <2>1
  <2> HIDE DEF V, K
  <2>3. /\ create_response("200", "OK") \in Response(W)
        /\ create_response("404", "Not Found") \in Response(W)
    BY <1>4, <2>1
  <2>4. length \in Response(W)
    BY <1>2, <1>5, <2>1, <2>3
  <2> HIDE DEF length
  <2>5. typed \in Response(W)
    <3>1. add_header(length, <<"Content-Type">>, <<"image/png">>) \in Response(W)
      BY <1>5, <2>1, <2>2, <2>4
    <3>2. QED
      BY <2>4, <3>1
  <2>6. add_header(typed, <<"Content-Disposition">>, <<"attachment">>) \in Response(W)
    <3> HIDE DEF typed
    <3>1. QED
      BY <1>5, <2>1, <2>2, <2>5
  <2>7. add_header(create_response("404", "Not Found"), <<"Content-Length">>, <<"0">>) \in Response(W)
    BY <1>5, <2>1, <2>2, <2>3
  <2>8. head = IF ~found
               THEN add_header(create_response("404", "Not Found"), <<"Content-Length">>, <<"0">>)
               ELSE IF IsPrefix(FILES_FOLDER, fname)
                    THEN add_header(typed, <<"Content-Disposition">>, <<"attachment">>)
                    ELSE typed
    BY DEF HeadOf, length
  <2> HIDE DEF typed, head
  <2>9. QED
    BY <2>5, <2>6, <2>7, <2>8
<1> HIDE DEF head
<1>7. \E starts \in Seq(Nat) :
        Rendered([text |-> resptostr(head), fields |-> head.headers, rendered |-> TRUE,
                  starts |-> starts])
  BY <1>6, ResponsesRendered
<1>8. QED
  BY <1>7 DEF head
=============================================================================
