---------------------------- MODULE UnityMeaning ----------------------------
(***************************************************************************)
(* What the names of the TEST_ASSERT_ macros promise (unity.h), against    *)
(* which UnityAsserts is checked: a relation between the arguments, read   *)
(* as values of the type in the name, with no casts, loops or buffers.     *)
(***************************************************************************)
EXTENDS UnityAsserts

SignedTypes == {"INT8", "INT16", "INT32", "INT", "INT64", "CHAR"}
SizeOf(type) ==
  CASE type \in {"INT8", "UINT8", "HEX8", "CHAR"} -> 1
    [] type \in {"INT16", "UINT16", "HEX16"} -> 2
    [] type \in {"INT32", "UINT32", "HEX32", "HEX", "INT", "UINT"} -> 4
    [] type \in {"INT64", "UINT64", "HEX64", "size_t", "PTR"} -> 8

\* The value n has as an argument of a macro for one value: INT and UINT are
\* as wide as any argument.
ValueOf(n, type) ==
  LET bytes == IF type \in {"INT", "UINT"} THEN LONG ELSE SizeOf(type)
  IN  IF type \in SignedTypes THEN Signed(n, bytes) ELSE Unsigned(n, bytes)

\* Element i of an array of that type.
Element(p, i, type) ==
  LET n == Load(p, i, SizeOf(type))
  IN  IF type \in SignedTypes THEN n ELSE Unsigned(n, SizeOf(type))

Ordered(compare, threshold, actual) ==
  CASE compare = "NOT_EQUAL" -> actual # threshold
    [] compare = "GREATER_THAN" -> actual > threshold
    [] compare = "GREATER_OR_EQUAL" -> actual >= threshold
    [] compare = "SMALLER_THAN" -> actual < threshold
    [] compare = "SMALLER_OR_EQUAL" -> actual <= threshold

Near(delta, m, n) == m - n \in (-delta)..delta

\* Arrays are compared if there is something to compare; an array is like
\* itself, and NULL like nothing else.
Compared(expected, actual, num, alike) ==
  /\ num > 0
  /\ \/ expected.id = actual.id
     \/ "NULL" \notin {expected.id, actual.id} /\ alike

Alike(f, g) ==
  \/ f = g
  \/ /\ f.class = "finite" /\ g.class = "finite"
     /\ (f.n - g.n) * FloatPrecision \in (IF f.n < 0 THEN f.n..(-f.n) ELSE (-f.n)..f.n)
     /\ f.n - g.n \in (-FloatMax)..FloatMax

\* a: an assertion of a test, its macro and its arguments.
Means(a) ==
  LET each(P(_)) == \A i \in 0..(a.num - 1) : P(i)
  IN
  CASE a.macro = "EQUAL" -> ValueOf(a.expected, a.type) = ValueOf(a.actual, a.type)
    [] a.macro = "COMPARE" ->
         Ordered(a.compare, ValueOf(a.expected, a.type), ValueOf(a.actual, a.type))
    [] a.macro = "WITHIN" ->
         Near(a.delta, ValueOf(a.expected, a.type), ValueOf(a.actual, a.type))
    [] a.macro = "BITS" ->
         \A b \in 0..(LONG * ByteBits - 1) :
           Bit(a.mask, b) = 0 \/ Bit(a.expected, b) = Bit(a.actual, b)
    [] a.macro = "EQUAL_ARRAY" ->
         Compared(a.expected, a.actual, a.num,
           each(LAMBDA i : Element(a.expected, i, a.type) = Element(a.actual, i, a.type)))
    [] a.macro = "EACH_EQUAL" ->
         a.num > 0 /\ a.actual # NULL /\ each(LAMBDA i :
           Element(a.actual, i, a.type)
             = IF a.type \in SignedTypes THEN Signed(a.expected, SizeOf(a.type))
                                         ELSE Unsigned(a.expected, SizeOf(a.type)))
    [] a.macro = "ARRAY_WITHIN" ->
         Compared(a.expected, a.actual, a.num,
           each(LAMBDA i : Near(a.delta, Element(a.expected, i, a.type),
                                         Element(a.actual, i, a.type))))
    [] a.macro = "EQUAL_STRING" -> a.expected = a.actual
    [] a.macro = "EQUAL_STRING_LEN" ->
         LET start(s) == IF a.length < Len(s) THEN SubSeq(s, 1, a.length) ELSE s
         IN  IF NullString \in {a.expected, a.actual} THEN a.expected = a.actual
             ELSE start(a.expected) = start(a.actual)
    [] a.macro = "EQUAL_STRING_ARRAY" ->
         Compared(a.expected, a.actual, a.num,
           each(LAMBDA i : a.expected.cells[i + 1] = a.actual.cells[i + 1]))
    [] a.macro = "EACH_EQUAL_STRING" ->
         Compared(a.expected, a.actual, a.num,
           each(LAMBDA i : a.expected.cells = a.actual.cells[i + 1]))
    [] a.macro = "EQUAL_MEMORY" ->
         Compared(a.expected, a.actual, a.num * a.length,
           SubSeq(a.expected.cells, 1, a.num * a.length)
             = SubSeq(a.actual.cells, 1, a.num * a.length))
    [] a.macro = "EACH_EQUAL_MEMORY" ->
         Compared(a.expected, a.actual, a.num * a.length,
           each(LAMBDA i : SubSeq(a.expected.cells, 1, a.length)
                             = SubSeq(a.actual.cells, i * a.length + 1, (i + 1) * a.length)))
    [] a.macro = "FLOAT_WITHIN" ->
         \/ a.expected = a.actual
         \/ /\ {a.expected.class, a.actual.class} = {"finite"}
            /\ a.actual.n - a.expected.n \in (-FloatMax)..FloatMax
            /\ \/ isinf(a.delta)
               \/ Near(IF a.delta.n < 0 THEN -a.delta.n ELSE a.delta.n,
                       a.expected.n, a.actual.n)
    [] a.macro = "EQUAL_FLOAT" -> Alike(a.expected, a.actual)
    [] a.macro = "EQUAL_FLOAT_ARRAY" ->
         Compared(a.expected, a.actual, a.num,
           each(LAMBDA i : Alike(a.expected.cells[i + 1], a.actual.cells[i + 1])))
    [] a.macro = "EACH_EQUAL_FLOAT" ->
         a.num > 0 /\ a.actual # NULL
           /\ each(LAMBDA i : Alike(a.expected, a.actual.cells[i + 1]))
    [] a.macro = "FLOAT_IS" ->
         a.should_be =
           CASE a.trait = "INF"     -> a.actual = Inf(1)
             [] a.trait = "NEG_INF" -> a.actual = Inf(-1)
             [] a.trait = "NAN"     -> a.actual = NaN
             [] a.trait = "DET"     -> a.actual.class = "finite"
=============================================================================
