---------------------------- MODULE UnityAsserts ----------------------------
(***************************************************************************)
(* The assertions of the test framework test.c is written with             *)
(* (unity/unity.c, unity_internals.h), as built on a 64-bit host:          *)
(* UNITY_SUPPORT_64, floats but no doubles.  Each assertion function is    *)
(* an operator from its arguments to an outcome: it holds, or fails with a *)
(* report.                                                                 *)
(*                                                                         *)
(* Integers are integers with the casts the code makes, in bytes of        *)
(* ByteBits bits.  A pointer is the identity of an array with what is      *)
(* stored there: bytes, strings or floats.  Floats are exact: rounding is  *)
(* left out, infinities and NaN are not.                                   *)
(***************************************************************************)
EXTENDS Integers, Sequences, FiniteSets, SequencesExt

CONSTANTS
  ByteBits,        \* bits per byte: 8
  FloatMax,        \* the largest finite float
  FloatPrecision   \* 1 / UNITY_FLOAT_PRECISION: 100000
ASSUME ByteBitsAssumption == ByteBits \in {2, 4, 6, 8}
ASSUME FloatAssumption == FloatMax \in Nat /\ FloatPrecision \in Nat \ {0}

-----------------------------------------------------------------------------
(* Integers and pointers. *)

LONG == 8   \* bytes of UNITY_INT, UNITY_UINT
INT == 4    \* UNITY_INT_WIDTH / 8

Modulus(bytes) == 2^(ByteBits * bytes)

\* The casts to UNITY_UINT8 .. UNITY_UINT64 and UNITY_INT8 .. UNITY_INT64.
Unsigned(n, bytes) == n % Modulus(bytes)
Signed(n, bytes) ==
  LET u == Unsigned(n, bytes) IN IF 2 * u >= Modulus(bytes) THEN u - Modulus(bytes) ELSE u

\* The bytes of n in memory, and element i of the array at p, read as a signed
\* integer of so many bytes.
BytesOf(n, bytes) == [k \in 1..bytes |-> (Unsigned(n, bytes) \div Modulus(k - 1)) % Modulus(1)]
Load(p, i, bytes) ==
  LET value[k \in 0..bytes] ==
        IF k = 0 THEN 0 ELSE value[k - 1] + (p.cells[i * bytes + k] * Modulus(k - 1))
  IN  Signed(value[bytes], bytes)

NULL == [id |-> "NULL", cells |-> <<>>]

\* The one buffer a single value is stored in, to be compared as an array.
UnityNumToPtr(num, size) == [id |-> "UnityQuickCompare", cells |-> BytesOf(num, size)]
UnityFloatToPtr(num) == [id |-> "UnityQuickCompare", cells |-> <<num>>]

\* What the low nibble and the range bits of a display style say.
UNITY_DISPLAY_STYLE_T ==
  LET Style(range, bytes) == [range |-> range, bytes |-> bytes]
  IN  [INT |-> Style("INT", INT), INT8 |-> Style("INT", 1), INT16 |-> Style("INT", 2),
       INT32 |-> Style("INT", 4), INT64 |-> Style("INT", 8),
       UINT |-> Style("UINT", INT), UINT8 |-> Style("UINT", 1), UINT16 |-> Style("UINT", 2),
       UINT32 |-> Style("UINT", 4), UINT64 |-> Style("UINT", 8),
       HEX8 |-> Style("HEX", 1), HEX16 |-> Style("HEX", 2), HEX32 |-> Style("HEX", 4),
       HEX64 |-> Style("HEX", 8), CHAR |-> Style("CHAR", 1)]
IsInt(style) == style.range \in {"INT", "CHAR"}

-----------------------------------------------------------------------------
(* What is printed of a value: a sequence of characters. *)

Digit(d) == <<"0", "1", "2", "3", "4", "5", "6", "7",
              "8", "9", "A", "B", "C", "D", "E", "F">>[1 + d]

\* The divisor grows until one digit is left, and is divided down to 1 again.
UnityPrintNumberUnsigned(n) ==
  LET divisor[k \in 0..19] == IF k = 0 THEN 1 ELSE 10 * divisor[k - 1]
      width == CHOOSE w \in 1..20 : /\ n \div divisor[w - 1] <= 9
                                    /\ \A v \in 1..(w - 1) : n \div divisor[v - 1] > 9
  IN  [k \in 1..width |-> Digit((n \div divisor[width - k]) % 10)]
UnityPrintNumber(n) ==
  IF n < 0 THEN <<"-">> \o UnityPrintNumberUnsigned(Unsigned(-n, LONG))
           ELSE UnityPrintNumberUnsigned(n)
\* Half a byte after the other, the most significant first.
UnityPrintNumberHex(n, nibbles) ==
  LET half == ByteBits \div 2
  IN  [k \in 1..nibbles |-> Digit((n \div 2^(half * (nibbles - k))) % 2^half)]

\* A character is shown by its code.
UnityPrintNumberByStyle(n, style) ==
  CASE style.range = "CHAR" -> <<"'">> \o UnityPrintNumberHex(Unsigned(n, LONG), 2) \o <<"'">>
    [] style.range = "INT"  -> UnityPrintNumber(n)
    [] style.range = "UINT" -> UnityPrintNumberUnsigned(Unsigned(n, LONG))
    [] style.range = "HEX"  -> <<"0", "x">> \o UnityPrintNumberHex(Unsigned(n, LONG), 2 * style.bytes)

\* Bit b of a UNITY_INT.
Bit(n, b) == (Unsigned(n, LONG) \div 2^b) % 2
\* Only the UNITY_INT_WIDTH low bits are shown.
UnityPrintMask(mask, n) ==
  LET width == INT * ByteBits
  IN  [k \in 1..width |-> IF Bit(mask, width - k) = 0 THEN "X"
                          ELSE IF Bit(n, width - k) = 1 THEN "1" ELSE "0"]

UnityPrintChar(c) ==
  CASE c = "CR" -> <<"\\", "r">>
    [] c = "LF" -> <<"\\", "n">>
    [] c = "ESC" -> <<"\\", "x", "1", "B">>
    [] OTHER -> <<c>>

NullString == <<"NULL">>
\* UnityPrint or UnityPrintLen of a string, in quotes, or NULL.
PrintString(s, length) ==
  LET shown == SubSeq(s, 1, IF length < Len(s) THEN length ELSE Len(s))
  IN  IF s = NullString THEN s
      ELSE <<"'">> \o FlattenSeq([k \in DOMAIN shown |-> UnityPrintChar(shown[k])]) \o <<"'">>

-----------------------------------------------------------------------------
(* Outcomes.  A report says what was compared, the element (and byte) it is *)
(* about, and what is printed of the two sides.                             *)

Holds == [holds |-> TRUE]
Fails(what, element, expected, actual) ==
  [holds |-> FALSE,
   report |-> [what |-> what, element |-> element, expected |-> expected, actual |-> actual]]

\* A loop over elements that bails out at the first bad one, with its report.
FirstBad(bad, reports) == IF bad = {} THEN Holds ELSE reports[Min(bad)]

\* What every array assertion asks before it looks at an element.
UnityIsOneArrayNull(expected, actual) == expected.id # actual.id /\ "NULL" \in {expected.id, actual.id}
Arrays(expected, actual, num, outcome) ==
  IF num = 0 THEN Fails("pointless", <<>>, <<>>, <<>>)
  ELSE IF expected.id = actual.id THEN Holds
  ELSE IF UnityIsOneArrayNull(expected, actual) THEN Fails("null", <<>>, <<>>, <<>>)
  ELSE outcome

\* The index of the expected side: with UNITY_ARRAY_TO_VAL it stays on one.
ExpectedAt(i, flags) == IF flags = "ARRAY_TO_ARRAY" THEN i ELSE 0

-----------------------------------------------------------------------------
(* Integers. *)

UnityAssertEqualNumber(expected, actual, style) ==
  IF expected = actual THEN Holds
  ELSE Fails("number", <<>>, UnityPrintNumberByStyle(expected, style),
                             UnityPrintNumberByStyle(actual, style))

UnityAssertBits(mask, expected, actual) ==
  IF \A b \in 0..(LONG * ByteBits - 1) : Bit(mask, b) = 1 => Bit(expected, b) = Bit(actual, b)
  THEN Holds
  ELSE Fails("bits", <<>>, UnityPrintMask(mask, expected), UnityPrintMask(mask, actual))

\* compare: the set of the bits of UNITY_COMPARISON_T that are set.
UNITY_COMPARISON_T ==
  [NOT_EQUAL |-> {}, GREATER_THAN |-> {"GREATER"}, GREATER_OR_EQUAL |-> {"GREATER", "EQUAL"},
   SMALLER_THAN |-> {"SMALLER"}, SMALLER_OR_EQUAL |-> {"SMALLER", "EQUAL"}]

UnityAssertGreaterOrLessOrEqualNumber(threshold, actual, compare, style) ==
  LET key(n) == IF IsInt(style) THEN n ELSE Unsigned(n, LONG)
      failed == \/ threshold = actual
                \/ key(actual) > key(threshold) /\ "SMALLER" \in compare
                \/ key(actual) < key(threshold) /\ "GREATER" \in compare
  IN  IF (threshold = actual /\ "EQUAL" \in compare) \/ ~failed THEN Holds
      ELSE Fails("order", <<>>, UnityPrintNumberByStyle(actual, style),
                                UnityPrintNumberByStyle(threshold, style))

\* Mutant: the larger is asked for in the order of UNITY_INT.
TooFar_SignedOrder(delta, expected, actual, style) ==
  LET difference == IF actual > expected
                    THEN Unsigned(actual, LONG) - Unsigned(expected, LONG)
                    ELSE Unsigned(expected, LONG) - Unsigned(actual, LONG)
  IN  Unsigned(difference, LONG) > delta
\* More than delta apart: the difference is taken in UNITY_UINT, from the
\* larger by the style's order.
TooFar(delta, expected, actual, style) ==
  LET key(n) == IF IsInt(style) THEN n ELSE Unsigned(n, LONG)
      difference == IF key(actual) > key(expected)
                    THEN Unsigned(actual, LONG) - Unsigned(expected, LONG)
                    ELSE Unsigned(expected, LONG) - Unsigned(actual, LONG)
  IN  Unsigned(difference, LONG) > delta

UnityAssertNumbersWithin(delta, expected, actual, style) ==
  IF ~TooFar(delta, expected, actual, style) THEN Holds
  ELSE Fails("number", <<>>, UnityPrintNumberByStyle(expected, style),
                             UnityPrintNumberByStyle(actual, style))

\* Mutant: the mask is a byte too short.
Unextended_Short(n, style) ==
  IF style.range = "UINT" /\ style.bytes < INT THEN Unsigned(n, style.bytes - 1) ELSE n
\* An element in a report: the sign extension of short unsigned ones is taken
\* back.
Unextended(n, style) ==
  IF style.range = "UINT" /\ style.bytes < INT THEN Unsigned(n, style.bytes) ELSE n

\* What the loops of both integer array assertions read: signed integers of the
\* style's size, as pairs of an expected and an actual one.
Elements(expected, actual, num, style, flags) ==
  [i \in 0..(num - 1) |-> <<Load(expected, ExpectedAt(i, flags), style.bytes),
                           Load(actual, i, style.bytes)>>]
\* How they end, if bad are the indices of the elements that do not match.
IntArrays(elements, bad, style) ==
  LET shown(n) == UnityPrintNumberByStyle(Unextended(n, style), style)
  IN  FirstBad(bad, [i \in bad |-> Fails("number", <<i>>, shown(elements[i][1]),
                                                         shown(elements[i][2]))])

UnityAssertEqualIntArray(expected, actual, num, style, flags) ==
  LET pairs == Elements(expected, actual, num, style, flags)
  IN  Arrays(expected, actual, num,
        IntArrays(pairs, {i \in DOMAIN pairs : pairs[i][1] # pairs[i][2]}, style))

UnityAssertNumbersArrayWithin(delta, expected, actual, num, style, flags) ==
  LET pairs == Elements(expected, actual, num, style, flags)
  IN  Arrays(expected, actual, num,
        IntArrays(pairs, {i \in DOMAIN pairs : TooFar(delta, pairs[i][1], pairs[i][2], style)},
                  style))

-----------------------------------------------------------------------------
(* Strings and memory. *)

\* The character at index i of a string that ends with NUL.
CharAt(s, i) == IF i < Len(s) THEN s[i + 1] ELSE "NUL"
\* The loops over two strings, up to length characters: both ends are reached,
\* or a difference.
StringsDiffer(expected, actual, length) ==
  IF NullString \in {expected, actual} THEN expected # actual
  ELSE \E i \in 0..(length - 1) :
         /\ CharAt(expected, i) # CharAt(actual, i)
         /\ \A j \in 0..(i - 1) : CharAt(expected, j) # "NUL" \/ CharAt(actual, j) # "NUL"

UnityAssertEqualStringLen(expected, actual, length) ==
  IF ~StringsDiffer(expected, actual, length) THEN Holds
  ELSE Fails("string", <<>>, PrintString(expected, length), PrintString(actual, length))

\* Past the longer string's NUL nothing is compared.
Whole(s, t) == 1 + IF Len(s) < Len(t) THEN Len(t) ELSE Len(s)
UnityAssertEqualString(expected, actual) ==
  UnityAssertEqualStringLen(expected, actual, Whole(expected, actual))

\* expected is an array of strings, or with UNITY_ARRAY_TO_VAL one string.
UnityAssertEqualStringArray(expected, actual, num, flags) ==
  LET expd(j) == IF flags = "ARRAY_TO_ARRAY" THEN expected.cells[j + 1] ELSE expected.cells
      act(j) == actual.cells[j + 1]
      element(j) == IF num > 1 THEN <<j>> ELSE <<>>
      differ(j) == StringsDiffer(expd(j), act(j), Whole(expd(j), act(j)))
  IN  Arrays(expected, actual, num,
        FirstBad({j \in 0..(num - 1) : differ(j)},
                 [j \in 0..(num - 1) |-> Fails("string", element(j),
                                              PrintString(expd(j), Len(expd(j))),
                                              PrintString(act(j), Len(act(j))))]))

\* num elements of length bytes: byte b of element i is cell i * length + b.
UnityAssertEqualMemory(expected, actual, length, num, flags) ==
  LET e(k) == expected.cells[(ExpectedAt(k \div length, flags) * length) + (k % length) + 1]
      a(k) == actual.cells[k + 1]
      element(k) == IF num > 1 THEN <<k \div length, k % length>> ELSE <<k % length>>
      shown(byte) == UnityPrintNumberByStyle(byte, UNITY_DISPLAY_STYLE_T.HEX8)
  IN  Arrays(expected, actual, num * length,
        FirstBad({k \in 0..(num * length - 1) : e(k) # a(k)},
                 [k \in 0..(num * length - 1) |->
                    Fails("memory", element(k), shown(e(k)), shown(a(k)))]))

-----------------------------------------------------------------------------
(* Floats: [class |-> "finite", n |-> n], infinities of sign 1 and -1, NaN. *)

Finite(n) == [class |-> "finite", n |-> n]
Inf(sign) == [class |-> "inf", n |-> sign]
NaN == [class |-> "nan", n |-> 0]
isinf(f) == f.class = "inf"
isnan(f) == f.class = "nan"

\* f - g, which may overflow.
Minus(f, g) ==
  IF isnan(f) \/ isnan(g) \/ (isinf(f) /\ f = g) THEN NaN
  ELSE IF isinf(f) THEN f
  ELSE IF isinf(g) THEN Inf(-g.n)
  ELSE IF f.n - g.n > FloatMax THEN Inf(1)
  ELSE IF f.n - g.n < -FloatMax THEN Inf(-1)
  ELSE Finite(f.n - g.n)

\* UNITY_FLOAT_OR_DOUBLE_WITHIN with delta = margin / per: diff > delta is false
\* when either is NaN.
UnityFloatsWithin(margin, per, expected, actual) ==
  LET diff == Minus(actual, expected)
      abs(n) == IF n < 0 THEN -n ELSE n
  IN  \/ isinf(expected) /\ isinf(actual) /\ (expected.n < 0) = (actual.n < 0)
      \/ isnan(expected) /\ isnan(actual)
      \/ /\ diff.class = "finite"
         /\ margin.class = "finite" => abs(diff.n) * per <= abs(margin.n)

UnityAssertFloatsWithin(margin, per, expected, actual) ==
  IF UnityFloatsWithin(margin, per, expected, actual) THEN Holds
  ELSE Fails("float", <<>>, <<expected>>, <<actual>>)

UnityAssertEqualFloatArray(expected, actual, num, flags) ==
  LET e(i) == expected.cells[ExpectedAt(i, flags) + 1]
      a(i) == actual.cells[i + 1]
  IN  Arrays(expected, actual, num,
        FirstBad({i \in 0..(num - 1) : ~UnityFloatsWithin(e(i), FloatPrecision, e(i), a(i))},
                 [i \in 0..(num - 1) |-> Fails("float", <<i>>, <<e(i)>>, <<a(i)>>)]))

UnityAssertFloatSpecial(actual, trait, should_be_trait) ==
  LET is_trait == CASE trait = "INF"     -> isinf(actual) /\ actual.n > 0
                    [] trait = "NEG_INF" -> isinf(actual) /\ actual.n < 0
                    [] trait = "NAN"     -> isnan(actual)
                    [] trait = "DET"     -> ~isinf(actual) /\ ~isnan(actual)
  IN  IF is_trait = should_be_trait THEN Holds
      ELSE Fails("trait", <<>>, <<trait>>, <<actual>>)

-----------------------------------------------------------------------------
(* The TEST_ASSERT_ macros: the casts on their arguments and the style.     *)

\* TEST_ASSERT_*_size_t, _HEX and _PTR are the macros of another type.
MacroType(type) ==
  CASE type = "size_t" -> "UINT"
    [] type = "HEX"    -> "HEX32"
    [] type = "PTR"    -> "HEX64"
    [] OTHER           -> type
StyleOf(type) == UNITY_DISPLAY_STYLE_T[MacroType(type)]

\* The arguments of these types are only widened to UNITY_INT.
Wide(type) == MacroType(type) \in {"INT", "UINT", "INT64", "UINT64", "HEX64"}
Cast(n, type, unsigned) ==
  LET style == StyleOf(type)
  IN  IF Wide(type) THEN Signed(n, LONG)
      ELSE IF style.range \in unsigned THEN Unsigned(n, style.bytes)
      ELSE Signed(n, style.bytes)

TEST_ASSERT_EQUAL(type, expected, actual) ==
  LET cast(n) == Cast(n, type, {"UINT"})
  IN  UnityAssertEqualNumber(cast(expected), cast(actual), StyleOf(type))

TEST_ASSERT_COMPARE(compare, type, threshold, actual) ==
  LET cast(n) == Cast(n, type, {"UINT", "HEX"})
  IN  UnityAssertGreaterOrLessOrEqualNumber(cast(threshold), cast(actual),
                                            UNITY_COMPARISON_T[compare], StyleOf(type))

CastDelta(delta, type, bytes) == Unsigned(delta, IF Wide(type) THEN LONG ELSE bytes)

TEST_ASSERT_WITHIN(type, delta, expected, actual) ==
  LET cast(n) == Cast(n, type, {"UINT", "HEX"})
  IN  UnityAssertNumbersWithin(CastDelta(delta, type, StyleOf(type).bytes),
                               cast(expected), cast(actual), StyleOf(type))

\* The delta of UINT8 arrays is cast to UNITY_UINT16.
TEST_ASSERT_ARRAY_WITHIN(type, delta, expected, actual, num) ==
  LET bytes == IF type = "UINT8" THEN 2 ELSE StyleOf(type).bytes
  IN  UnityAssertNumbersArrayWithin(CastDelta(delta, type, bytes), expected, actual, num,
                                    StyleOf(type), "ARRAY_TO_ARRAY")

TEST_ASSERT_EQUAL_ARRAY(type, expected, actual, num) ==
  UnityAssertEqualIntArray(expected, actual, num, StyleOf(type), "ARRAY_TO_ARRAY")

TEST_ASSERT_EACH_EQUAL(type, expected, actual, num) ==
  LET style == StyleOf(type)
      value == UnityNumToPtr(Cast(expected, type, {"UINT"}), style.bytes)
  IN  UnityAssertEqualIntArray(value, actual, num, style, "ARRAY_TO_VAL")

TEST_ASSERT_EQUAL_FLOAT(expected, actual) ==
  UnityAssertFloatsWithin(expected, FloatPrecision, expected, actual)

TEST_ASSERT_EACH_EQUAL_FLOAT(expected, actual, num) ==
  UnityAssertEqualFloatArray(UnityFloatToPtr(expected), actual, num, "ARRAY_TO_VAL")
=============================================================================
