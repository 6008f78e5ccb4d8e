-------------------------- MODULE UnityAssertsProofs --------------------------
(***************************************************************************)
(* The assertions hold exactly if what their names promise does, for      *)
(* every value of their arguments and bytes of 2, 4, 6 or 8 bits: on       *)
(* single integers, strings, memory, floats and arrays of all of these.    *)
(* Casts, sign extensions, masks and differences modulo a power of two do  *)
(* not mislead them; where they do (UnityArrays.cfg), the lemma says less. *)
(* And what is printed of two numbers, bytes or strings that differ        *)
(* differs.                                                                *)
(***************************************************************************)
EXTENDS UnityMeaning, FiniteSetTheorems, FunctionTheorems, SequenceTheorems, TLAPS

-----------------------------------------------------------------------------
(* Distances.                                                               *)

\* Division leaves a remainder of less than the divisor.
LEMMA Remainder ==
  ASSUME NEW M \in Nat \ {0}, NEW x \in Int
  PROVE  x % M \in 0..(M - 1) /\ x \div M \in Int /\ x = M * (x \div M) + (x % M)
BY SMTT(30)

\* Two numbers of 0..M-1 that differ by a multiple of M are one.
LEMMA Multiple ==
  ASSUME NEW M \in Nat \ {0}, NEW r \in 0..(M - 1), NEW d \in 0..(M - 1),
         NEW k \in Int, d - r = M * k
  PROVE  d = r
<1>1. CASE k >= 1
  <2>1. M * k >= M
    BY <1>1, SMTT(30)
  <2>2. QED
    BY <2>1
<1>2. CASE k <= -1
  <2>1. M * k <= -M
    BY <1>2, SMTT(30)
  <2>2. QED
    BY <2>1
<1>3. CASE k = 0
  BY <1>3
<1>4. QED
  BY <1>1, <1>2, <1>3

\* A number of 0..M-1 is its own remainder.
LEMMA OwnRemainder ==
  ASSUME NEW M \in Nat \ {0}, NEW d \in 0..(M - 1)
  PROVE  d % M = d
<1>1. d % M \in 0..(M - 1) /\ d \div M \in Int /\ d = M * (d \div M) + (d % M)
  BY Remainder
<1>2. d - (d % M) = M * (d \div M)
  BY <1>1
<1>3. QED
  BY <1>1, <1>2, Multiple

\* The difference of two integers less than M apart is what unsigned subtraction
\* modulo M makes of them, whether their bits are read as signed or as unsigned.
LEMMA Subtraction ==
  ASSUME NEW M \in Nat \ {0}, NEW x \in Int, NEW y \in Int, x >= y, x - y < M
  PROVE  ((x % M) - (y % M)) % M = x - y
<1> DEFINE z == (x % M) - (y % M)
           p == x \div M
           q == y \div M
           t == z \div M
<1>1. x % M \in 0..(M - 1) /\ p \in Int /\ x = M * p + (x % M)
  BY Remainder
<1>2. y % M \in 0..(M - 1) /\ q \in Int /\ y = M * q + (y % M)
  BY Remainder
<1>3. z % M \in 0..(M - 1) /\ t \in Int /\ z = M * t + (z % M)
  <2>1. z \in Int
    BY <1>1, <1>2
  <2>2. QED
    BY <2>1, Remainder
<1>4. (x - y) - (z % M) = M * p - M * q + M * t
  BY <1>1, <1>2, <1>3
<1>5. M * p - M * q + M * t = M * (p - q + t)
  BY <1>1, <1>2, <1>3
<1>6. p - q + t \in Int /\ x - y \in 0..(M - 1)
  BY <1>1, <1>2, <1>3
<1>7. (x - y) - (z % M) = M * (p - q + t)
  BY <1>4, <1>5
<1> HIDE DEF z, p, q, t
<1>8. QED
  BY <1>3, <1>6, <1>7, Multiple DEF z

\* A power of two is the number of subsets of a set.
LEMMA PowerPositive == ASSUME NEW n \in Nat PROVE 2^n \in Nat \ {0}
<1> DEFINE S == 1..n
<1>1. IsFiniteSet(S) /\ Cardinality(S) = n
  BY FS_Interval
<1>2. IsFiniteSet(SUBSET S) /\ Cardinality(SUBSET S) = 2^n
  BY <1>1, FS_SUBSET
<1>3. Cardinality(SUBSET S) \in Nat /\ (Cardinality(SUBSET S) = 0 => SUBSET S = {})
  BY <1>2, FS_CardinalityType, FS_EmptySet
<1>4. QED
  BY <1>2, <1>3

\* The modulus of unsigned arithmetic is a positive number.
LEMMA ModulusPositive == Modulus(LONG) \in Nat \ {0}
<1>1. ByteBits * LONG \in Nat
  BY ByteBitsAssumption DEF LONG
<1>2. QED
  BY <1>1, PowerPositive DEF Modulus

\* Two values of UNITY_INT, in its own order or in that of UNITY_UINT, are judged
\* within delta exactly when their distance is at most delta, with no overflow at
\* the ends of the range and for every number of bits (unity.c
\* UnityAssertNumbersWithin).
THEOREM WithinIsNear ==
  ASSUME NEW delta \in Nat, NEW style,
         NEW expected \in Int, NEW actual \in Int,
         actual - expected < Modulus(LONG), expected - actual < Modulus(LONG)
  PROVE  UnityAssertNumbersWithin(delta, expected, actual, style).holds
           = IF IsInt(style) THEN Near(delta, expected, actual)
             ELSE Near(delta, Unsigned(expected, LONG), Unsigned(actual, LONG))
<1> DEFINE M == Modulus(LONG)
           e == expected % M
           a == actual % M
<1>1. M \in Nat \ {0} /\ e \in 0..(M - 1) /\ a \in 0..(M - 1)
  BY ModulusPositive, Remainder
<1>2. CASE IsInt(style)
  <2>1. CASE actual > expected
    <3>1. (a - e) % M = actual - expected
      BY <1>1, <2>1, Subtraction
    <3>2. TooFar(delta, expected, actual, style) = (actual - expected > delta)
      BY <1>2, <2>1, <3>1 DEF TooFar, Unsigned
    <3>3. Near(delta, expected, actual) = ~(actual - expected > delta)
      BY <2>1 DEF Near
    <3>4. QED
      BY <1>2, <3>2, <3>3 DEF UnityAssertNumbersWithin, Holds, Fails
  <2>2. CASE ~(actual > expected)
    <3>1. (e - a) % M = expected - actual
      BY <1>1, <2>2, Subtraction
    <3>2. TooFar(delta, expected, actual, style) = (expected - actual > delta)
      BY <1>2, <2>2, <3>1 DEF TooFar, Unsigned
    <3>3. Near(delta, expected, actual) = ~(expected - actual > delta)
      BY <2>2 DEF Near
    <3>4. QED
      BY <1>2, <3>2, <3>3 DEF UnityAssertNumbersWithin, Holds, Fails
  <2>3. QED
    BY <2>1, <2>2
<1>3. CASE ~IsInt(style)
  <2>1. CASE a > e
    <3>1. (a - e) % M = a - e
      <4>1. a - e \in 0..(M - 1)
        BY <1>1, <2>1
      <4>2. QED
        BY <1>1, <4>1, OwnRemainder
    <3>2. TooFar(delta, expected, actual, style) = (a - e > delta)
      BY <1>3, <2>1, <3>1 DEF TooFar, Unsigned
    <3>3. Near(delta, e, a) = ~(a - e > delta)
      BY <1>1, <2>1 DEF Near
    <3>4. QED
      BY <1>3, <3>2, <3>3 DEF UnityAssertNumbersWithin, Holds, Fails, Unsigned
  <2>2. CASE ~(a > e)
    <3>1. (e - a) % M = e - a
      <4>1. e - a \in 0..(M - 1)
        BY <1>1, <2>2
      <4>2. QED
        BY <1>1, <4>1, OwnRemainder
    <3>2. TooFar(delta, expected, actual, style) = (e - a > delta)
      BY <1>3, <2>2, <3>1 DEF TooFar, Unsigned
    <3>3. Near(delta, e, a) = ~(e - a > delta)
      BY <1>1, <2>2 DEF Near
    <3>4. QED
      BY <1>3, <3>2, <3>3 DEF UnityAssertNumbersWithin, Holds, Fails, Unsigned
  <2>3. QED
    BY <2>1, <2>2
<1>4. QED
  BY <1>2, <1>3

-----------------------------------------------------------------------------
(* Casts.                                                                   *)

\* A larger exponent makes a larger power.
LEMMA PowerMonotone == ASSUME NEW m \in Nat, NEW n \in Nat, m <= n PROVE 2^m <= 2^n
<1> DEFINE S == 1..m
           T == 1..n
<1>1. IsFiniteSet(S) /\ Cardinality(S) = m /\ IsFiniteSet(T) /\ Cardinality(T) = n
  BY FS_Interval
<1>2. /\ Cardinality(SUBSET S) = 2^m
      /\ IsFiniteSet(SUBSET T) /\ Cardinality(SUBSET T) = 2^n
  BY <1>1, FS_SUBSET
<1>3. SUBSET S \subseteq SUBSET T
  OBVIOUS
<1>4. Cardinality(SUBSET S) <= Cardinality(SUBSET T)
  BY <1>2, <1>3, FS_Subset
<1>5. QED
  BY <1>2, <1>4

\* The moduli of the unsigned types.
LEMMA Moduli ==
  ASSUME NEW b \in {1, 2, 4, 8}, NEW c \in {1, 2, 4, 8}, b <= c
  PROVE  /\ Modulus(b) \in Nat \ {0} /\ Modulus(c) \in Nat \ {0}
         /\ Modulus(b) <= Modulus(c)
<1>1. ByteBits * b \in Nat /\ ByteBits * c \in Nat /\ ByteBits * b <= ByteBits * c
  BY ByteBitsAssumption
<1>2. QED
  BY <1>1, PowerPositive, PowerMonotone DEF Modulus

\* A cast to an unsigned type, and one to the signed type of that size: the
\* signed value is the unsigned one or that less the modulus, and nothing is
\* lost by it.
LEMMA Casts ==
  ASSUME NEW n \in Int, NEW b \in {1, 2, 4, 8}
  PROVE  /\ Unsigned(n, b) \in 0..(Modulus(b) - 1)
         /\ Signed(n, b) \in Int
         /\ -Modulus(b) <= 2 * Signed(n, b) /\ 2 * Signed(n, b) < Modulus(b)
         /\ Unsigned(Signed(n, b), b) = Unsigned(n, b)
<1> DEFINE M == Modulus(b)
           u == n % M
           s == IF 2 * u >= M THEN u - M ELSE u
<1>1. M \in Nat \ {0}
  BY Moduli
<1>2. Unsigned(n, b) = u /\ Signed(n, b) = s /\ Unsigned(s, b) = s % M
  BY DEF Unsigned, Signed
<1> HIDE DEF M
<1>3. u \in 0..(M - 1)
  BY <1>1, Remainder
<1> HIDE DEF u
<1>4. s \in Int /\ -M <= 2 * s /\ 2 * s < M /\ (s = u \/ s = u - M)
  BY <1>1, <1>3
<1>5. s % M = u
  <2>1. CASE s = u
    BY <1>1, <1>3, <2>1, OwnRemainder
  <2>2. CASE s = u - M
    <3> DEFINE r == s % M
               q == s \div M
    <3>1. r \in 0..(M - 1) /\ q \in Int /\ s = M * q + r
      BY <1>1, <1>4, Remainder
    <3> HIDE DEF r, q
    <3>2. u - r = M * q + M
      BY <1>1, <1>3, <2>2, <3>1
    <3>3. M * q + M = M * (q + 1) /\ q + 1 \in Int
      BY <1>1, <3>1
    <3>4. u - r = M * (q + 1)
      BY <3>2, <3>3
    <3>5. u = r
      BY <1>1, <1>3, <3>1, <3>3, <3>4, Multiple
    <3>6. QED
      BY <3>5 DEF r
  <2>3. QED
    BY <1>4, <2>1, <2>2
<1>6. QED
  BY <1>2, <1>3, <1>4, <1>5 DEF M, u

\* The signed type and the unsigned type tell the same numbers apart.
LEMMA SameApart ==
  ASSUME NEW m \in Int, NEW n \in Int, NEW b \in {1, 2, 4, 8}
  PROVE  Signed(m, b) = Signed(n, b) <=> Unsigned(m, b) = Unsigned(n, b)
<1>1. Unsigned(Signed(m, b), b) = Unsigned(m, b) /\ Unsigned(Signed(n, b), b) = Unsigned(n, b)
  BY Casts
<1>2. Unsigned(m, b) = Unsigned(n, b) => Signed(m, b) = Signed(n, b)
  BY DEF Signed
<1>3. QED
  BY <1>1, <1>2

\* A wider unsigned type holds a narrower one.
LEMMA Widened ==
  ASSUME NEW b \in {1, 2, 4, 8}, NEW c \in {1, 2, 4, 8}, b <= c, NEW n \in 0..(Modulus(b) - 1)
  PROVE  Unsigned(n, c) = n
<1> DEFINE M == Modulus(b)
           L == Modulus(c)
<1>1. M \in Nat \ {0} /\ L \in Nat \ {0} /\ M <= L
  BY Moduli
<1>2. n \in 0..(L - 1)
  BY <1>1
<1>3. n % L = n
  BY <1>1, <1>2, OwnRemainder
<1>4. QED
  BY <1>3 DEF Unsigned

-----------------------------------------------------------------------------
(* Assertions on one integer.                                               *)

IntegerTypes ==
  {"INT8", "INT16", "INT32", "INT64", "INT", "UINT8", "UINT16", "UINT32", "UINT64", "UINT",
   "HEX8", "HEX16", "HEX32", "HEX64", "HEX", "PTR", "size_t", "CHAR"}

\* The bytes an argument of that type has.
Width(type) == IF type \in {"INT", "UINT"} THEN LONG ELSE SizeOf(type)

LEMMA TypeFacts ==
  ASSUME NEW type \in IntegerTypes
  PROVE  /\ Width(type) \in {1, 2, 4, 8} /\ Width(type) <= LONG
         /\ Wide(type) => Width(type) = LONG
         /\ ~Wide(type) => StyleOf(type).bytes = Width(type)
         /\ IsInt(StyleOf(type)) <=> type \in SignedTypes
         /\ StyleOf(type).range \in {"INT", "CHAR", "UINT", "HEX"}
BY DEF IntegerTypes, Width, SizeOf, SignedTypes, Wide, StyleOf, MacroType, IsInt,
       UNITY_DISPLAY_STYLE_T, LONG, INT

\* What a macro makes of its arguments: the style says how they are read.
LEMMA CastIs ==
  ASSUME NEW type \in IntegerTypes, NEW unsigned
  PROVE  LET w == Width(type)
         IN  /\ \/ \A n : Cast(n, type, unsigned) = Signed(n, w)
                \/ \A n : Cast(n, type, unsigned) = Unsigned(n, w)
             /\ unsigned = {"UINT", "HEX"} =>
                  IF type \in SignedTypes THEN \A n : Cast(n, type, unsigned) = Signed(n, w)
                  ELSE \/ w = LONG /\ \A n : Cast(n, type, unsigned) = Signed(n, w)
                       \/ \A n : Cast(n, type, unsigned) = Unsigned(n, w)
             /\ \A n : ValueOf(n, type) = IF type \in SignedTypes THEN Signed(n, w)
                                          ELSE Unsigned(n, w)
<1> DEFINE w == Width(type)
<1>1. \A n : ValueOf(n, type) = IF type \in SignedTypes THEN Signed(n, w) ELSE Unsigned(n, w)
  BY DEF ValueOf, Width
<1>2. CASE Wide(type)
  <2>1. w = LONG /\ \A n : Cast(n, type, unsigned) = Signed(n, w)
    BY <1>2, TypeFacts DEF Cast
  <2>2. QED
    BY <1>1, <2>1
<1>3. CASE ~Wide(type)
  <2> DEFINE range == StyleOf(type).range
  <2>1. \A n : Cast(n, type, unsigned) = IF range \in unsigned THEN Unsigned(n, w) ELSE Signed(n, w)
    BY <1>3, TypeFacts DEF Cast
  <2>2. /\ range \in {"INT", "CHAR", "UINT", "HEX"}
        /\ type \in SignedTypes <=> range \in {"INT", "CHAR"}
    BY TypeFacts DEF IsInt
  <2> HIDE DEF range, w
  <2>3. unsigned = {"UINT", "HEX"} => (range \in unsigned <=> type \notin SignedTypes)
    BY <2>2
  <2>4. QED
    BY <1>1, <2>1, <2>3 DEF w
<1>4. QED
  BY <1>2, <1>3

\* Two arguments are cast to one number exactly if they have one value.
LEMMA CastApart ==
  ASSUME NEW type \in IntegerTypes, NEW unsigned, NEW m \in Int, NEW n \in Int
  PROVE  Cast(m, type, unsigned) = Cast(n, type, unsigned) <=> ValueOf(m, type) = ValueOf(n, type)
<1> DEFINE w == Width(type)
<1>1. Signed(m, w) = Signed(n, w) <=> Unsigned(m, w) = Unsigned(n, w)
  BY TypeFacts, SameApart
<1>2. \/ \A k : Cast(k, type, unsigned) = Signed(k, w)
      \/ \A k : Cast(k, type, unsigned) = Unsigned(k, w)
  BY CastIs
<1>3. \/ \A k : ValueOf(k, type) = Signed(k, w)
      \/ \A k : ValueOf(k, type) = Unsigned(k, w)
  BY CastIs
<1> HIDE DEF w
<1>4. QED
  BY <1>1, <1>2, <1>3

\* In the order of its style a cast argument has its value, and two of them are
\* less than 2^64 apart.
LEMMA CastOrder ==
  ASSUME NEW type \in IntegerTypes, NEW m \in Int, NEW n \in Int
  PROVE  LET c(k) == Cast(k, type, {"UINT", "HEX"})
             key(k) == IF IsInt(StyleOf(type)) THEN c(k) ELSE Unsigned(c(k), LONG)
         IN  /\ c(m) \in Int /\ c(n) \in Int
             /\ c(m) - c(n) < Modulus(LONG)
             /\ key(m) = ValueOf(m, type) /\ key(n) = ValueOf(n, type)
<1> DEFINE w == Width(type)
           L == Modulus(LONG)
           c(k) == Cast(k, type, {"UINT", "HEX"})
<1>1. w \in {1, 2, 4, 8} /\ LONG \in {1, 2, 4, 8} /\ w <= LONG
  BY TypeFacts DEF LONG
<1>2. L \in Nat \ {0} /\ Modulus(w) \in Nat \ {0} /\ Modulus(w) <= L
  BY <1>1, Moduli
<1>3. ASSUME NEW k \in Int
      PROVE  /\ Signed(k, w) \in Int /\ -L <= 2 * Signed(k, w) /\ 2 * Signed(k, w) < L
             /\ Unsigned(k, w) \in 0..(L - 1)
             /\ Unsigned(Unsigned(k, w), LONG) = Unsigned(k, w)
             /\ w = LONG => Unsigned(Signed(k, w), LONG) = Unsigned(k, w)
  <2>1. /\ Unsigned(k, w) \in 0..(Modulus(w) - 1) /\ Signed(k, w) \in Int
        /\ -Modulus(w) <= 2 * Signed(k, w) /\ 2 * Signed(k, w) < Modulus(w)
        /\ Unsigned(Signed(k, w), w) = Unsigned(k, w)
    BY <1>1, Casts
  <2>2. Unsigned(Unsigned(k, w), LONG) = Unsigned(k, w)
    BY <1>1, <2>1, Widened
  <2> HIDE DEF w, L
  <2>3. QED
    BY <1>2, <2>1, <2>2
<1>4. type \in SignedTypes <=> IsInt(StyleOf(type))
  BY TypeFacts
<1>5. /\ IF type \in SignedTypes THEN \A k : c(k) = Signed(k, w)
         ELSE \/ w = LONG /\ \A k : c(k) = Signed(k, w)
              \/ \A k : c(k) = Unsigned(k, w)
      /\ \A k : ValueOf(k, type) = IF type \in SignedTypes THEN Signed(k, w) ELSE Unsigned(k, w)
  BY CastIs
<1> HIDE DEF w, L, c
<1>6. CASE type \in SignedTypes
  <2>1. c(m) = Signed(m, w) /\ c(n) = Signed(n, w)
    BY <1>5, <1>6
  <2>2. ValueOf(m, type) = c(m) /\ ValueOf(n, type) = c(n)
    BY <1>5, <1>6
  <2>3. c(m) \in Int /\ c(n) \in Int /\ c(m) - c(n) < L
    BY <1>2, <1>3, <2>1
  <2>4. QED
    BY <1>4, <1>6, <2>2, <2>3 DEF c, L
<1>7. CASE type \notin SignedTypes
  <2>1. ValueOf(m, type) = Unsigned(m, w) /\ ValueOf(n, type) = Unsigned(n, w)
    BY <1>5, <1>7
  <2>2. CASE w = LONG /\ \A k : c(k) = Signed(k, w)
    <3>1. c(m) \in Int /\ c(n) \in Int /\ c(m) - c(n) < L
      BY <1>2, <1>3, <2>2
    <3>2. Unsigned(c(m), LONG) = Unsigned(m, w) /\ Unsigned(c(n), LONG) = Unsigned(n, w)
      BY <1>3, <2>2
    <3>3. QED
      BY <1>4, <1>7, <2>1, <3>1, <3>2 DEF c, L
  <2>3. CASE \A k : c(k) = Unsigned(k, w)
    <3>1. c(m) \in Int /\ c(n) \in Int /\ c(m) - c(n) < L
      BY <1>2, <1>3, <2>3
    <3>2. Unsigned(c(m), LONG) = Unsigned(m, w) /\ Unsigned(c(n), LONG) = Unsigned(n, w)
      BY <1>3, <2>3
    <3>3. QED
      BY <1>4, <1>7, <2>1, <3>1, <3>2 DEF c, L
  <2>4. QED
    BY <1>5, <1>7, <2>2, <2>3
<1>8. QED
  BY <1>6, <1>7

\* TEST_ASSERT_EQUAL_<type> (unity.c UnityAssertEqualNumber).
LEMMA EqualJudged ==
  ASSUME NEW type \in IntegerTypes, NEW expected \in Int, NEW actual \in Int
  PROVE  TEST_ASSERT_EQUAL(type, expected, actual).holds
           <=> ValueOf(expected, type) = ValueOf(actual, type)
<1> DEFINE c(n) == Cast(n, type, {"UINT"})
<1>1. c(expected) = c(actual) <=> ValueOf(expected, type) = ValueOf(actual, type)
  BY CastApart
<1>2. TEST_ASSERT_EQUAL(type, expected, actual).holds <=> c(expected) = c(actual)
  BY DEF TEST_ASSERT_EQUAL, UnityAssertEqualNumber, Holds, Fails
<1>3. QED
  BY <1>1, <1>2

\* TEST_ASSERT_NOT_EQUAL and its kin, TEST_ASSERT_GREATER_THAN_<type> and its kin
\* (unity.c UnityAssertGreaterOrLessOrEqualNumber).
LEMMA CompareJudged ==
  ASSUME NEW compare \in DOMAIN UNITY_COMPARISON_T, NEW type \in IntegerTypes,
         NEW threshold \in Int, NEW actual \in Int
  PROVE  TEST_ASSERT_COMPARE(compare, type, threshold, actual).holds
           <=> Ordered(compare, ValueOf(threshold, type), ValueOf(actual, type))
<1> DEFINE c(n) == Cast(n, type, {"UINT", "HEX"})
           key(n) == IF IsInt(StyleOf(type)) THEN c(n) ELSE Unsigned(c(n), LONG)
           set == UNITY_COMPARISON_T[compare]
           failed == \/ c(threshold) = c(actual)
                     \/ key(actual) > key(threshold) /\ "SMALLER" \in set
                     \/ key(actual) < key(threshold) /\ "GREATER" \in set
           t == ValueOf(threshold, type)
           a == ValueOf(actual, type)
<1>1. TEST_ASSERT_COMPARE(compare, type, threshold, actual).holds
        <=> (c(threshold) = c(actual) /\ "EQUAL" \in set) \/ ~failed
  BY DEF TEST_ASSERT_COMPARE, UnityAssertGreaterOrLessOrEqualNumber, Holds, Fails
<1>2. key(threshold) = t /\ key(actual) = a /\ c(threshold) \in Int /\ c(actual) \in Int
  BY CastOrder
<1>3. c(threshold) = c(actual) <=> t = a
  BY CastApart
<1>4. t \in Int /\ a \in Int
  <2>1. \A n \in Int : Unsigned(n, LONG) \in Int
    BY Casts DEF LONG
  <2> HIDE DEF c
  <2>2. QED
    BY <1>2, <2>1
<1>5. TEST_ASSERT_COMPARE(compare, type, threshold, actual).holds
        <=> (t = a /\ "EQUAL" \in set)
            \/ ~(t = a \/ (a > t /\ "SMALLER" \in set) \/ (a < t /\ "GREATER" \in set))
  BY <1>1, <1>2, <1>3
<1>6. \/ compare = "NOT_EQUAL" /\ set = {}
      \/ compare = "GREATER_THAN" /\ set = {"GREATER"}
      \/ compare = "GREATER_OR_EQUAL" /\ set = {"GREATER", "EQUAL"}
      \/ compare = "SMALLER_THAN" /\ set = {"SMALLER"}
      \/ compare = "SMALLER_OR_EQUAL" /\ set = {"SMALLER", "EQUAL"}
  BY DEF UNITY_COMPARISON_T
<1> HIDE DEF t, a, set
<1> DEFINE equal == "EQUAL" \in set
           smaller == "SMALLER" \in set
           greater == "GREATER" \in set
           ordered == Ordered(compare, t, a)
<1>7. \/ ~equal /\ ~smaller /\ ~greater /\ (ordered <=> a # t)
      \/ ~equal /\ ~smaller /\ greater /\ (ordered <=> a > t)
      \/ equal /\ ~smaller /\ greater /\ (ordered <=> a >= t)
      \/ ~equal /\ smaller /\ ~greater /\ (ordered <=> a < t)
      \/ equal /\ smaller /\ ~greater /\ (ordered <=> a <= t)
  <2>1. CASE compare = "NOT_EQUAL" /\ set = {}
    BY <2>1 DEF Ordered
  <2>2. CASE compare = "GREATER_THAN" /\ set = {"GREATER"}
    BY <2>2 DEF Ordered
  <2>3. CASE compare = "GREATER_OR_EQUAL" /\ set = {"GREATER", "EQUAL"}
    BY <2>3 DEF Ordered
  <2>4. CASE compare = "SMALLER_THAN" /\ set = {"SMALLER"}
    BY <2>4 DEF Ordered
  <2>5. CASE compare = "SMALLER_OR_EQUAL" /\ set = {"SMALLER", "EQUAL"}
    BY <2>5 DEF Ordered
  <2>6. QED
    BY <1>6, <2>1, <2>2, <2>3, <2>4, <2>5
<1>8. TEST_ASSERT_COMPARE(compare, type, threshold, actual).holds
        <=> (t = a /\ equal) \/ ~(t = a \/ (a > t /\ smaller) \/ (a < t /\ greater))
  BY <1>5
<1> HIDE DEF equal, smaller, greater, ordered
<1>9. TEST_ASSERT_COMPARE(compare, type, threshold, actual).holds <=> ordered
  BY <1>4, <1>7, <1>8
<1>10. QED
  BY <1>9 DEF t, a, ordered

\* TEST_ASSERT_<type>_WITHIN, with a delta of that type (unity.c
\* UnityAssertNumbersWithin).
LEMMA WithinJudged ==
  ASSUME NEW type \in IntegerTypes, NEW delta \in 0..(Modulus(SizeOf(type)) - 1),
         NEW expected \in Int, NEW actual \in Int
  PROVE  TEST_ASSERT_WITHIN(type, delta, expected, actual).holds
           <=> Near(delta, ValueOf(expected, type), ValueOf(actual, type))
<1> DEFINE c(n) == Cast(n, type, {"UINT", "HEX"})
           style == StyleOf(type)
           d == CastDelta(delta, type, style.bytes)
<1>1. d = delta
  <2>1. SizeOf(type) \in {1, 2, 4, 8} /\ SizeOf(type) <= Width(type) /\ LONG \in {1, 2, 4, 8}
        /\ Width(type) \in {1, 2, 4, 8} /\ (Wide(type) => SizeOf(type) <= LONG)
        /\ (~Wide(type) => style.bytes = SizeOf(type))
    BY DEF IntegerTypes, Width, SizeOf, Wide, StyleOf, MacroType, UNITY_DISPLAY_STYLE_T, LONG, INT
  <2>2. CASE Wide(type)
    BY <2>1, <2>2, Widened DEF CastDelta
  <2>3. CASE ~Wide(type)
    BY <2>1, <2>3, Widened DEF CastDelta
  <2>4. QED
    BY <2>2, <2>3
<1>2. TEST_ASSERT_WITHIN(type, delta, expected, actual)
        = UnityAssertNumbersWithin(d, c(expected), c(actual), style)
  BY DEF TEST_ASSERT_WITHIN
<1>3. /\ c(expected) \in Int /\ c(actual) \in Int
      /\ c(actual) - c(expected) < Modulus(LONG) /\ c(expected) - c(actual) < Modulus(LONG)
      /\ ValueOf(expected, type) = IF IsInt(style) THEN c(expected) ELSE Unsigned(c(expected), LONG)
      /\ ValueOf(actual, type) = IF IsInt(style) THEN c(actual) ELSE Unsigned(c(actual), LONG)
  BY CastOrder
<1>4. delta \in Nat
  OBVIOUS
<1> HIDE DEF c, style, d
<1>5. UnityAssertNumbersWithin(delta, c(expected), c(actual), style).holds
        = IF IsInt(style) THEN Near(delta, c(expected), c(actual))
          ELSE Near(delta, Unsigned(c(expected), LONG), Unsigned(c(actual), LONG))
  BY <1>3, <1>4, WithinIsNear
<1>6. QED
  BY <1>1, <1>2, <1>3, <1>5

\* TEST_ASSERT_BITS and its kin (unity.c UnityAssertBits).
LEMMA BitsJudged ==
  ASSUME NEW mask \in Int, NEW expected, NEW actual
  PROVE  UnityAssertBits(mask, expected, actual).holds
           <=> \A b \in 0..(LONG * ByteBits - 1) :
                 Bit(mask, b) = 0 \/ Bit(expected, b) = Bit(actual, b)
<1>1. ASSUME NEW b \in 0..(LONG * ByteBits - 1) PROVE Bit(mask, b) \in {0, 1}
  <2> DEFINE u == Unsigned(mask, LONG)
             p == 2^b
  <2>1. u \in Int
    BY Casts DEF LONG
  <2>2. b \in Nat
    BY ByteBitsAssumption DEF LONG
  <2>3. p \in Nat \ {0}
    BY <2>2, PowerPositive
  <2> HIDE DEF u, p
  <2>4. u \div p \in Int
    BY <2>1, <2>3, Remainder
  <2>5. (u \div p) % 2 \in 0..(2 - 1)
    BY <2>4, Remainder
  <2>6. QED
    BY <2>5 DEF Bit, u, p
<1>2. UnityAssertBits(mask, expected, actual).holds
        <=> \A b \in 0..(LONG * ByteBits - 1) :
              Bit(mask, b) = 1 => Bit(expected, b) = Bit(actual, b)
  BY DEF UnityAssertBits, Holds, Fails
<1>3. QED
  BY <1>1, <1>2

-----------------------------------------------------------------------------
(* Assertions on strings.                                                   *)

\* A string that ends with NUL has none before; a null pointer is one of them.
IsString(s) == \E S : s \in Seq(S) /\ "NUL" \notin S

\* What TEST_ASSERT_EQUAL_STRING_LEN looks at.
Start(s, length) == IF length < Len(s) THEN SubSeq(s, 1, length) ELSE s

LEMMA StartIs ==
  ASSUME NEW S, NEW s \in Seq(S), NEW length \in Nat
  PROVE  LET n == IF length < Len(s) THEN length ELSE Len(s)
         IN  /\ Start(s, length) \in Seq(S) /\ Len(Start(s, length)) = n /\ n \in Nat
             /\ \A k \in 1..n : Start(s, length)[k] = s[k]
<1>1. Len(s) \in Nat
  OBVIOUS
<1>2. CASE length < Len(s)
  <2>1. SubSeq(s, 1, length) = [k \in 1..length |-> s[k]]
    BY <1>2
  <2>2. \A k \in 1..length : s[k] \in S
    BY <1>1, <1>2
  <2>3. [k \in 1..length |-> s[k]] \in Seq(S) /\ Len([k \in 1..length |-> s[k]]) = length
    BY <2>2
  <2>4. QED
    BY <1>2, <2>1, <2>3 DEF Start
<1>3. CASE ~(length < Len(s))
  BY <1>1, <1>3 DEF Start
<1>4. QED
  BY <1>2, <1>3

\* The loops over two strings find a difference exactly if their starts differ:
\* they end at the first NUL, and never before a difference.
LEMMA StringsDifferIs ==
  ASSUME NEW s, NEW t, IsString(s), IsString(t), NEW length \in Nat,
         NullString \notin {s, t}
  PROVE  StringsDiffer(s, t, length) <=> Start(s, length) # Start(t, length)
<1>1. PICK S : s \in Seq(S) /\ "NUL" \notin S
  BY DEF IsString
<1>2. PICK T : t \in Seq(T) /\ "NUL" \notin T
  BY DEF IsString
<1> DEFINE ss == Start(s, length)
           tt == Start(t, length)
           m == IF length < Len(s) THEN length ELSE Len(s)
           n == IF length < Len(t) THEN length ELSE Len(t)
<1>3. /\ ss \in Seq(S) /\ Len(ss) = m /\ m \in Nat /\ \A k \in 1..m : ss[k] = s[k]
      /\ tt \in Seq(T) /\ Len(tt) = n /\ n \in Nat /\ \A k \in 1..n : tt[k] = t[k]
  BY <1>1, <1>2, StartIs
<1>4. /\ Len(s) \in Nat /\ \A i \in 0..(Len(s) - 1) : CharAt(s, i) = s[i + 1] /\ CharAt(s, i) # "NUL"
      /\ Len(t) \in Nat /\ \A i \in 0..(Len(t) - 1) : CharAt(t, i) = t[i + 1] /\ CharAt(t, i) # "NUL"
      /\ \A i \in Nat : i >= Len(s) => CharAt(s, i) = "NUL"
      /\ \A i \in Nat : i >= Len(t) => CharAt(t, i) = "NUL"
  <2>1. Len(s) \in Nat /\ \A k \in 1..Len(s) : s[k] \in S
    BY <1>1
  <2>2. Len(t) \in Nat /\ \A k \in 1..Len(t) : t[k] \in T
    BY <1>2
  <2>3. ASSUME NEW i \in 0..(Len(s) - 1) PROVE CharAt(s, i) = s[i + 1] /\ CharAt(s, i) # "NUL"
    <3>1. i < Len(s) /\ i + 1 \in 1..Len(s)
      BY <2>1
    <3>2. QED
      BY <1>1, <2>1, <3>1 DEF CharAt
  <2>4. ASSUME NEW i \in 0..(Len(t) - 1) PROVE CharAt(t, i) = t[i + 1] /\ CharAt(t, i) # "NUL"
    <3>1. i < Len(t) /\ i + 1 \in 1..Len(t)
      BY <2>2
    <3>2. QED
      BY <1>2, <2>2, <3>1 DEF CharAt
  <2>5. QED
    BY <2>1, <2>2, <2>3, <2>4 DEF CharAt
<1> DEFINE Bad(i) == /\ CharAt(s, i) # CharAt(t, i)
                     /\ \A j \in 0..(i - 1) : CharAt(s, j) # "NUL" \/ CharAt(t, j) # "NUL"
<1>5. StringsDiffer(s, t, length) <=> \E i \in 0..(length - 1) : Bad(i)
  BY DEF StringsDiffer
<1>6. m <= length /\ m <= Len(s) /\ (m < length => m = Len(s))
      /\ n <= length /\ n <= Len(t) /\ (n < length => n = Len(t))
  BY <1>4
<1> HIDE DEF ss, tt, m, n
<1>7. ASSUME NEW i \in 0..(length - 1), Bad(i) PROVE ss # tt
  <2> SUFFICES ASSUME ss = tt PROVE FALSE
    OBVIOUS
  <2>1. m = n
    BY <1>3
  <2>2. CASE i < m
    <3>1. i + 1 \in 1..m /\ i \in 0..(Len(s) - 1) /\ i \in 0..(Len(t) - 1) /\ i + 1 \in 1..n
      BY <1>3, <1>4, <1>6, <2>1, <2>2
    <3>2. CharAt(s, i) = ss[i + 1] /\ CharAt(t, i) = tt[i + 1]
      BY <1>3, <1>4, <3>1
    <3>3. QED
      BY <1>7, <3>2
  <2>3. CASE ~(i < m)
    <3>1. i \in Nat /\ i >= Len(s) /\ i >= Len(t)
      BY <1>3, <1>6, <2>1, <2>3
    <3>2. QED
      BY <1>4, <1>7, <3>1
  <2>4. QED
    BY <2>2, <2>3
<1>8. ASSUME ss # tt PROVE \E i \in 0..(length - 1) : Bad(i)
  <2>1. CASE m < n
    <3>1. m \in 0..(length - 1) /\ m \in Nat /\ m >= Len(s) /\ m \in 0..(Len(t) - 1)
      BY <1>3, <1>4, <1>6, <2>1
    <3>2. \A j \in 0..(m - 1) : j \in 0..(Len(s) - 1)
      BY <1>3, <1>4, <1>6
    <3>3. Bad(m)
      BY <1>4, <3>1, <3>2
    <3>4. QED
      BY <3>1, <3>3
  <2>2. CASE n < m
    <3>1. n \in 0..(length - 1) /\ n \in Nat /\ n >= Len(t) /\ n \in 0..(Len(s) - 1)
      BY <1>3, <1>4, <1>6, <2>2
    <3>2. \A j \in 0..(n - 1) : j \in 0..(Len(t) - 1)
      BY <1>3, <1>4, <1>6
    <3>3. Bad(n)
      BY <1>4, <3>1, <3>2
    <3>4. QED
      BY <3>1, <3>3
  <2>3. CASE m = n
    <3>1. PICK k \in 1..m : ss[k] # tt[k]
      BY <1>3, <1>8, <2>3
    <3>2. k - 1 \in 0..(length - 1) /\ k - 1 \in 0..(Len(s) - 1) /\ k - 1 \in 0..(Len(t) - 1)
          /\ (k - 1) + 1 = k /\ k \in 1..n
      BY <1>3, <1>4, <1>6, <2>3, <3>1
    <3>3. CharAt(s, k - 1) # CharAt(t, k - 1)
      BY <1>3, <1>4, <3>1, <3>2
    <3>4. \A j \in 0..((k - 1) - 1) : j \in 0..(Len(s) - 1)
      BY <1>4, <3>2
    <3>5. Bad(k - 1)
      BY <1>4, <3>3, <3>4
    <3>6. QED
      BY <3>2, <3>5
  <2>4. QED
    BY <1>3, <2>1, <2>2, <2>3
<1> HIDE DEF Bad
<1>9. QED
  BY <1>5, <1>7, <1>8 DEF ss, tt

\* Past the NUL of the longer string nothing is left.
LEMMA WholeStringsDiffer ==
  ASSUME NEW s, NEW t, IsString(s), IsString(t)
  PROVE  StringsDiffer(s, t, Whole(s, t)) <=> s # t
<1>1. Len(s) \in Nat /\ Len(t) \in Nat
  BY DEF IsString
<1>2. /\ Whole(s, t) \in Nat /\ ~(Whole(s, t) < Len(s)) /\ ~(Whole(s, t) < Len(t))
  BY <1>1 DEF Whole
<1>3. Start(s, Whole(s, t)) = s /\ Start(t, Whole(s, t)) = t
  BY <1>2 DEF Start
<1>4. CASE NullString \in {s, t}
  BY <1>4 DEF StringsDiffer
<1>5. CASE NullString \notin {s, t}
  BY <1>2, <1>3, <1>5, StringsDifferIs
<1>6. QED
  BY <1>4, <1>5

\* TEST_ASSERT_EQUAL_STRING (unity.c UnityAssertEqualString).
LEMMA StringJudged ==
  ASSUME NEW expected, NEW actual, IsString(expected), IsString(actual)
  PROVE  UnityAssertEqualString(expected, actual).holds <=> expected = actual
<1>1. UnityAssertEqualString(expected, actual).holds
        <=> ~StringsDiffer(expected, actual, Whole(expected, actual))
  BY DEF UnityAssertEqualString, UnityAssertEqualStringLen, Holds, Fails
<1>2. QED
  BY <1>1, WholeStringsDiffer

\* TEST_ASSERT_EQUAL_STRING_LEN (unity.c UnityAssertEqualStringLen).
LEMMA StringLenJudged ==
  ASSUME NEW expected, NEW actual, IsString(expected), IsString(actual), NEW length \in Nat
  PROVE  UnityAssertEqualStringLen(expected, actual, length).holds
           <=> IF NullString \in {expected, actual} THEN expected = actual
               ELSE Start(expected, length) = Start(actual, length)
<1>1. UnityAssertEqualStringLen(expected, actual, length).holds
        <=> ~StringsDiffer(expected, actual, length)
  BY DEF UnityAssertEqualStringLen, Holds, Fails
<1>2. CASE NullString \in {expected, actual}
  BY <1>1, <1>2 DEF StringsDiffer
<1>3. CASE NullString \notin {expected, actual}
  BY <1>1, <1>3, StringsDifferIs
<1>4. QED
  BY <1>2, <1>3

-----------------------------------------------------------------------------
(* Assertions on arrays of strings.                                         *)

\* A non-empty set of numbers has a least one.
LEMMA LeastNumber ==
  ASSUME NEW T, T \subseteq Nat, T # {}
  PROVE  \E m \in T : \A k \in T : m <= k
<1> DEFINE R == {ss \in Nat \X Nat : ss[1] < ss[2]}
<1>1. IsWellFoundedOn(R, Nat)
  BY NatLessThanWellFounded DEF OpToRel
<1>2. PICK m \in T : \A k \in T : ~(<<k, m>> \in R)
  <2> HIDE DEF R
  <2>1. QED
    BY <1>1, WFMin
<1>3. \A k \in T : ~(k < m)
  BY <1>2
<1>4. QED
  BY <1>2, <1>3

\* A loop over elements holds exactly if none is bad.
LEMMA FirstBadHolds ==
  ASSUME NEW bad, bad \subseteq Nat, NEW reports, \A i \in bad : ~reports[i].holds
  PROVE  FirstBad(bad, reports).holds <=> bad = {}
<1>1. CASE bad = {}
  BY <1>1 DEF FirstBad, Holds
<1>2. CASE bad # {}
  <2>1. \E i \in bad : \A k \in bad : i <= k
    BY <1>2, LeastNumber
  <2>2. Min(bad) \in bad
    BY <2>1 DEF Min
  <2>3. QED
    BY <1>2, <2>2 DEF FirstBad
<1>3. QED
  BY <1>1, <1>2

\* What every array assertion asks first is what its name promises first.
LEMMA ArraysJudged ==
  ASSUME NEW expected, NEW actual, NEW num \in Nat, NEW outcome, NEW alike,
         num > 0 /\ expected.id # actual.id /\ "NULL" \notin {expected.id, actual.id}
           => (outcome.holds <=> alike)
  PROVE  Arrays(expected, actual, num, outcome).holds <=> Compared(expected, actual, num, alike)
<1>1. CASE num = 0
  BY <1>1 DEF Arrays, Compared, Fails
<1>2. CASE num > 0 /\ expected.id = actual.id
  BY <1>2 DEF Arrays, Compared, Holds
<1>3. CASE num > 0 /\ expected.id # actual.id /\ "NULL" \in {expected.id, actual.id}
  BY <1>3 DEF Arrays, Compared, UnityIsOneArrayNull, Fails
<1>4. CASE num > 0 /\ expected.id # actual.id /\ "NULL" \notin {expected.id, actual.id}
  BY <1>4 DEF Arrays, Compared, UnityIsOneArrayNull
<1>5. QED
  BY <1>1, <1>2, <1>3, <1>4

\* The strings of an array that are compared, or the one that each is compared
\* with, and what is asked of them.
ExpectedString(p, i, flags) == IF flags = "ARRAY_TO_ARRAY" THEN p.cells[i + 1] ELSE p.cells
AreStrings(expected, actual, num, flags) ==
  \A i \in 0..(num - 1) : IsString(actual.cells[i + 1]) /\ IsString(ExpectedString(expected, i, flags))
SameStrings(expected, actual, num, flags) ==
  \A i \in 0..(num - 1) : ExpectedString(expected, i, flags) = actual.cells[i + 1]

\* TEST_ASSERT_EQUAL_STRING_ARRAY and TEST_ASSERT_EACH_EQUAL_STRING (unity.c
\* UnityAssertEqualStringArray).
LEMMA StringArrayJudged ==
  ASSUME NEW expected, NEW actual, NEW num \in Nat,
         NEW flags \in {"ARRAY_TO_ARRAY", "ARRAY_TO_VAL"},
         "NULL" \notin {expected.id, actual.id} => AreStrings(expected, actual, num, flags)
  PROVE  UnityAssertEqualStringArray(expected, actual, num, flags).holds
           <=> Compared(expected, actual, num, SameStrings(expected, actual, num, flags))
<1> DEFINE e(i) == IF flags = "ARRAY_TO_ARRAY" THEN expected.cells[i + 1] ELSE expected.cells
           a(i) == actual.cells[i + 1]
           element(j) == IF num > 1 THEN <<j>> ELSE <<>>
           bad == {j \in 0..(num - 1) : StringsDiffer(e(j), a(j), Whole(e(j), a(j)))}
           reports == [j \in 0..(num - 1) |-> Fails("string", element(j), PrintString(e(j), Len(e(j))),
                                                                         PrintString(a(j), Len(a(j))))]
<1>1. UnityAssertEqualStringArray(expected, actual, num, flags)
        = Arrays(expected, actual, num, FirstBad(bad, reports))
  BY DEF UnityAssertEqualStringArray
<1>2. bad \subseteq Nat /\ \A j \in bad : ~reports[j].holds
  BY DEF Fails
<1> HIDE DEF reports
<1>3. FirstBad(bad, reports).holds <=> bad = {}
  <2> HIDE DEF bad
  <2>1. QED
    BY <1>2, FirstBadHolds
<1>4. ASSUME "NULL" \notin {expected.id, actual.id}
      PROVE  bad = {} <=> \A i \in 0..(num - 1) : e(i) = a(i)
  <2>1. \A i \in 0..(num - 1) : IsString(a(i)) /\ IsString(e(i))
    BY <1>4 DEF AreStrings, ExpectedString
  <2> HIDE DEF e, a
  <2>2. \A i \in 0..(num - 1) : StringsDiffer(e(i), a(i), Whole(e(i), a(i))) <=> e(i) # a(i)
    BY <2>1, WholeStringsDiffer
  <2>3. QED
    BY <2>2
<1> DEFINE alike == \A i \in 0..(num - 1) : e(i) = a(i)
<1> HIDE DEF bad
<1>5. "NULL" \notin {expected.id, actual.id} => (FirstBad(bad, reports).holds <=> alike)
  BY <1>3, <1>4
<1>6. Arrays(expected, actual, num, FirstBad(bad, reports)).holds
        <=> Compared(expected, actual, num, alike)
  <2> DEFINE outcome == FirstBad(bad, reports)
  <2>1. "NULL" \notin {expected.id, actual.id} => (outcome.holds <=> alike)
    BY <1>5
  <2> HIDE DEF outcome, alike
  <2>2. Arrays(expected, actual, num, outcome).holds <=> Compared(expected, actual, num, alike)
    BY <2>1, ArraysJudged
  <2>3. QED
    BY <2>2 DEF outcome, alike
<1>7. alike <=> SameStrings(expected, actual, num, flags)
  BY DEF SameStrings, ExpectedString
<1> HIDE DEF alike
<1>8. QED
  BY <1>1, <1>6, <1>7 DEF Compared

-----------------------------------------------------------------------------
(* Assertions on floats.                                                    *)

Floats == {Finite(n) : n \in (-FloatMax)..FloatMax} \union {Inf(1), Inf(-1), NaN}

LEMMA FloatIs ==
  ASSUME NEW f \in Floats
  PROVE  \/ f.class = "finite" /\ f.n \in (-FloatMax)..FloatMax /\ f = Finite(f.n)
         \/ f.class = "inf" /\ f.n = 1 /\ f = Inf(1)
         \/ f.class = "inf" /\ f.n = -1 /\ f = Inf(-1)
         \/ f.class = "nan" /\ f = NaN
BY DEF Floats, Finite, Inf, NaN

\* A difference of floats is finite exactly if both are and it is in range.
LEMMA MinusIs ==
  ASSUME NEW f \in Floats, NEW g \in Floats
  PROVE  /\ Minus(f, g).class = "finite"
              <=> /\ f.class = "finite" /\ g.class = "finite"
                  /\ f.n - g.n \in (-FloatMax)..FloatMax
         /\ Minus(f, g).class = "finite" => Minus(f, g).n = f.n - g.n
<1>1. CASE f.class = "finite" /\ g.class = "finite"
  <2>1. f.n \in Int /\ g.n \in Int /\ FloatMax \in Nat
    BY <1>1, FloatIs, FloatAssumption
  <2>2. Minus(f, g) = IF f.n - g.n > FloatMax THEN Inf(1)
                      ELSE IF f.n - g.n < -FloatMax THEN Inf(-1) ELSE Finite(f.n - g.n)
    BY <1>1 DEF Minus, isinf, isnan
  <2>3. QED
    BY <1>1, <2>1, <2>2 DEF Inf, Finite
<1>2. CASE f.class # "finite" \/ g.class # "finite"
  <2>1. Minus(f, g).class # "finite"
    BY <1>2, FloatIs DEF Minus, isinf, isnan, NaN, Inf
  <2>2. QED
    BY <1>2, <2>1
<1>3. QED
  BY <1>1, <1>2

\* UNITY_FLOAT_OR_DOUBLE_WITHIN: equal floats, infinities and NaN included, or
\* finite ones that are near.
LEMMA FloatsWithinIs ==
  ASSUME NEW margin \in Floats, NEW per \in Nat, NEW e \in Floats, NEW a \in Floats
  PROVE  UnityFloatsWithin(margin, per, e, a)
           <=> \/ e = a /\ e.class # "finite"
               \/ /\ e.class = "finite" /\ a.class = "finite"
                  /\ a.n - e.n \in (-FloatMax)..FloatMax
                  /\ margin.class = "finite" =>
                       (IF a.n - e.n < 0 THEN -(a.n - e.n) ELSE a.n - e.n) * per
                         <= IF margin.n < 0 THEN -margin.n ELSE margin.n
<1> DEFINE diff == Minus(a, e)
           abs(n) == IF n < 0 THEN -n ELSE n
<1>1. diff.class = "finite"
        <=> a.class = "finite" /\ e.class = "finite" /\ a.n - e.n \in (-FloatMax)..FloatMax
  BY MinusIs
<1>2. diff.class = "finite" => diff.n = a.n - e.n
  BY MinusIs
<1>3. UnityFloatsWithin(margin, per, e, a)
        <=> \/ isinf(e) /\ isinf(a) /\ (e.n < 0) = (a.n < 0)
            \/ isnan(e) /\ isnan(a)
            \/ /\ diff.class = "finite"
               /\ margin.class = "finite" => abs(diff.n) * per <= abs(margin.n)
  BY DEF UnityFloatsWithin
<1>4. (isinf(e) /\ isinf(a) /\ (e.n < 0) = (a.n < 0)) \/ (isnan(e) /\ isnan(a))
        <=> e = a /\ e.class # "finite"
  <2>1. CASE e.class = "inf" /\ a.class = "inf"
    BY <2>1, FloatIs DEF isinf, isnan, Inf
  <2>2. CASE ~(e.class = "inf" /\ a.class = "inf")
    BY <2>2, FloatIs DEF isinf, isnan
  <2>3. QED
    BY <2>1, <2>2
<1> HIDE DEF diff
<1>5. QED
  BY <1>1, <1>2, <1>3, <1>4

\* What TEST_ASSERT_FLOAT_WITHIN promises.
NearFloats(delta, expected, actual) ==
  \/ expected = actual
  \/ /\ {expected.class, actual.class} = {"finite"}
     /\ actual.n - expected.n \in (-FloatMax)..FloatMax
     /\ isinf(delta) \/ Near(IF delta.n < 0 THEN -delta.n ELSE delta.n, expected.n, actual.n)

\* TEST_ASSERT_FLOAT_WITHIN (unity.c UnityAssertFloatsWithin).
LEMMA FloatWithinJudged ==
  ASSUME NEW delta \in Floats, delta.class # "nan", NEW expected \in Floats, NEW actual \in Floats
  PROVE  UnityAssertFloatsWithin(delta, 1, expected, actual).holds
           <=> NearFloats(delta, expected, actual)
<1> DEFINE d == IF delta.n < 0 THEN -delta.n ELSE delta.n
           x == actual.n - expected.n
           finite == expected.class = "finite" /\ actual.class = "finite"
<1>1. UnityAssertFloatsWithin(delta, 1, expected, actual).holds
        <=> UnityFloatsWithin(delta, 1, expected, actual)
  BY DEF UnityAssertFloatsWithin, Holds, Fails
<1>2. UnityFloatsWithin(delta, 1, expected, actual)
        <=> \/ expected = actual /\ expected.class # "finite"
            \/ /\ finite /\ x \in (-FloatMax)..FloatMax
               /\ delta.class = "finite" => (IF x < 0 THEN -x ELSE x) * 1 <= d
  BY FloatsWithinIs
<1>3. isinf(delta) <=> ~(delta.class = "finite")
  BY FloatIs DEF isinf
<1>4. delta.class = "finite" => d \in Nat
  <2>1. delta.class = "finite" => delta.n \in Int
    BY FloatIs, FloatAssumption
  <2>2. QED
    BY <2>1
<1>5. finite => x \in Int /\ expected.n \in Int /\ actual.n \in Int
  BY FloatIs, FloatAssumption
<1>6. finite /\ delta.class = "finite"
        => ((IF x < 0 THEN -x ELSE x) * 1 <= d <=> Near(d, expected.n, actual.n))
  BY <1>4, <1>5 DEF Near
<1>7. finite /\ expected = actual
        => x = 0 /\ x \in (-FloatMax)..FloatMax
           /\ (delta.class = "finite" => (IF x < 0 THEN -x ELSE x) * 1 <= d)
  BY <1>4, <1>5, FloatAssumption
<1>8. finite <=> {expected.class, actual.class} = {"finite"}
  OBVIOUS
<1>9. expected = actual => (finite <=> expected.class = "finite")
  OBVIOUS
<1> DEFINE close == (IF x < 0 THEN -x ELSE x) * 1 <= d
<1> HIDE DEF d, x, finite, close
<1>10. UnityFloatsWithin(delta, 1, expected, actual)
         <=> \/ expected = actual
             \/ finite /\ x \in (-FloatMax)..FloatMax /\ (isinf(delta) \/ Near(d, expected.n, actual.n))
  BY <1>2, <1>3, <1>6, <1>7, <1>9 DEF close
<1>11. QED
  BY <1>1, <1>8, <1>10 DEF x, d, NearFloats

\* With a margin of the expected float over UNITY_FLOAT_PRECISION.
LEMMA AlikeIs ==
  ASSUME NEW e \in Floats, NEW a \in Floats
  PROVE  UnityFloatsWithin(e, FloatPrecision, e, a) <=> Alike(e, a)
<1> DEFINE P == FloatPrecision
           x == a.n - e.n
           y == e.n - a.n
           finite == e.class = "finite" /\ a.class = "finite"
           d == IF e.n < 0 THEN -e.n ELSE e.n
           ax == IF x < 0 THEN -x ELSE x
           bounds == IF e.n < 0 THEN e.n..(-e.n) ELSE (-e.n)..e.n
<1>1. P \in Nat /\ FloatMax \in Nat
  BY FloatAssumption
<1>2. UnityFloatsWithin(e, P, e, a)
        <=> \/ e = a /\ e.class # "finite"
            \/ /\ e.class = "finite" /\ a.class = "finite"
               /\ x \in (-FloatMax)..FloatMax
               /\ e.class = "finite" => ax * P <= d
  BY <1>1, FloatsWithinIs
<1>3. Alike(e, a) <=> \/ e = a
                      \/ /\ e.class = "finite" /\ a.class = "finite" /\ y * P \in bounds
                         /\ y \in (-FloatMax)..FloatMax
  BY DEF Alike
<1>4. ASSUME finite
      PROVE  /\ x \in (-FloatMax)..FloatMax <=> y \in (-FloatMax)..FloatMax
             /\ ax * P <= d <=> y * P \in bounds
             /\ e = a => x \in (-FloatMax)..FloatMax /\ ax * P <= d
  <2>1. e.n \in Int /\ a.n \in Int /\ x \in Int /\ y \in Int /\ x = -y /\ d \in Nat /\ bounds = (-d)..d
    BY <1>1, <1>4, FloatIs
  <2>2. ax \in Nat /\ (ax = y \/ ax = -y) /\ (ax = y <=> y >= 0)
    BY <2>1
  <2> HIDE DEF x, d, bounds, ax, y
  <2>3. y * P \in Int /\ (-y) * P = -(y * P)
    BY <1>1, <2>1
  <2>4. (y >= 0 => y * P >= 0) /\ (y < 0 => -(y * P) >= 0)
    <3>1. y >= 0 => y * P >= 0
      BY <1>1, <2>1
    <3>2. y < 0 => (-y) * P >= 0
      BY <1>1, <2>1
    <3>3. QED
      BY <2>3, <3>1, <3>2
  <2>5. ax * P = IF y >= 0 THEN y * P ELSE -(y * P)
    BY <2>1, <2>2, <2>3
  <2> DEFINE z == y * P
             w == ax * P
  <2>6. z \in Int /\ (y >= 0 => z >= 0) /\ (y < 0 => -z >= 0) /\ w = IF y >= 0 THEN z ELSE -z
    BY <2>3, <2>4, <2>5
  <2> HIDE DEF z, w
  <2>7. w <= d <=> z \in (-d)..d
    BY <2>1, <2>6
  <2>8. x \in (-FloatMax)..FloatMax <=> y \in (-FloatMax)..FloatMax
    BY <1>1, <2>1
  <2>9. ASSUME e = a PROVE x \in (-FloatMax)..FloatMax /\ w <= d
    <3>1. x = 0 /\ y = 0
      BY <2>1, <2>9 DEF x, y
    <3>2. z = 0
      BY <1>1, <3>1 DEF z
    <3>3. QED
      BY <1>1, <2>1, <2>6, <3>1, <3>2
  <2>10. QED
    BY <2>1, <2>7, <2>8, <2>9 DEF z, w
<1>5. finite <=> e.class = "finite" /\ a.class = "finite"
  OBVIOUS
<1> DEFINE close == ax * P <= d
           near == y * P \in bounds
           inx == x \in (-FloatMax)..FloatMax
           iny == y \in (-FloatMax)..FloatMax
<1>6. finite => (inx <=> iny) /\ (close <=> near) /\ (e = a => inx /\ close)
  BY <1>4
<1>7. UnityFloatsWithin(e, P, e, a) <=> (e = a /\ e.class # "finite") \/ (finite /\ inx /\ close)
  BY <1>2, <1>5
<1>8. Alike(e, a) <=> e = a \/ (finite /\ near /\ iny)
  BY <1>3, <1>5
<1>9. e = a => (finite <=> e.class = "finite")
  OBVIOUS
<1> HIDE DEF finite, close, near, inx, iny
<1>10. QED
  BY <1>6, <1>7, <1>8, <1>9

\* TEST_ASSERT_EQUAL_FLOAT (unity_internals.h UNITY_TEST_ASSERT_EQUAL_FLOAT).
LEMMA EqualFloatJudged ==
  ASSUME NEW expected \in Floats, NEW actual \in Floats
  PROVE  TEST_ASSERT_EQUAL_FLOAT(expected, actual).holds <=> Alike(expected, actual)
<1>1. TEST_ASSERT_EQUAL_FLOAT(expected, actual).holds
        <=> UnityFloatsWithin(expected, FloatPrecision, expected, actual)
  BY DEF TEST_ASSERT_EQUAL_FLOAT, UnityAssertFloatsWithin, Holds, Fails
<1>2. QED
  BY <1>1, AlikeIs

\* TEST_ASSERT_EQUAL_FLOAT_ARRAY (unity.c UnityAssertEqualFloatArray).
LEMMA FloatArrayJudged ==
  ASSUME NEW expected, NEW actual, NEW num \in Nat,
         NEW flags \in {"ARRAY_TO_ARRAY", "ARRAY_TO_VAL"},
         "NULL" \notin {expected.id, actual.id} =>
           \A i \in 0..(num - 1) : /\ expected.cells[ExpectedAt(i, flags) + 1] \in Floats
                                   /\ actual.cells[i + 1] \in Floats
  PROVE  UnityAssertEqualFloatArray(expected, actual, num, flags).holds
           <=> Compared(expected, actual, num,
                 \A i \in 0..(num - 1) :
                   Alike(expected.cells[ExpectedAt(i, flags) + 1], actual.cells[i + 1]))
<1> DEFINE e(i) == expected.cells[ExpectedAt(i, flags) + 1]
           a(i) == actual.cells[i + 1]
           bad == {i \in 0..(num - 1) : ~UnityFloatsWithin(e(i), FloatPrecision, e(i), a(i))}
           reports == [i \in 0..(num - 1) |-> Fails("float", <<i>>, <<e(i)>>, <<a(i)>>)]
           outcome == FirstBad(bad, reports)
           alike == \A i \in 0..(num - 1) : Alike(e(i), a(i))
<1>1. UnityAssertEqualFloatArray(expected, actual, num, flags)
        = Arrays(expected, actual, num, outcome)
  BY DEF UnityAssertEqualFloatArray
<1>2. bad \subseteq Nat /\ \A j \in bad : ~reports[j].holds
  BY DEF Fails
<1>3. outcome.holds <=> bad = {}
  <2> HIDE DEF bad, reports
  <2>1. QED
    BY <1>2, FirstBadHolds
<1>4. ASSUME "NULL" \notin {expected.id, actual.id} PROVE bad = {} <=> alike
  <2>1. \A i \in 0..(num - 1) : e(i) \in Floats /\ a(i) \in Floats
    BY <1>4
  <2> HIDE DEF e, a
  <2>2. \A i \in 0..(num - 1) :
          UnityFloatsWithin(e(i), FloatPrecision, e(i), a(i)) <=> Alike(e(i), a(i))
    BY <2>1, AlikeIs
  <2>3. QED
    BY <2>2
<1> HIDE DEF bad, outcome, alike
<1>5. "NULL" \notin {expected.id, actual.id} => (outcome.holds <=> alike)
  BY <1>3, <1>4
<1>6. Arrays(expected, actual, num, outcome).holds <=> Compared(expected, actual, num, alike)
  BY <1>5, ArraysJudged
<1>7. QED
  BY <1>1, <1>6 DEF alike

\* TEST_ASSERT_EACH_EQUAL_FLOAT: the one value is in the framework's own buffer,
\* which no test can name.
LEMMA EachFloatJudged ==
  ASSUME NEW expected \in Floats, NEW actual, NEW num \in Nat,
         actual.id # "UnityQuickCompare", actual.id = "NULL" <=> actual = NULL,
         actual # NULL => \A i \in 0..(num - 1) : actual.cells[i + 1] \in Floats
  PROVE  TEST_ASSERT_EACH_EQUAL_FLOAT(expected, actual, num).holds
           <=> /\ num > 0 /\ actual # NULL
               /\ \A i \in 0..(num - 1) : Alike(expected, actual.cells[i + 1])
<1> DEFINE p == UnityFloatToPtr(expected)
           v(i) == p.cells[ExpectedAt(i, "ARRAY_TO_VAL") + 1]
           alike == \A i \in 0..(num - 1) : Alike(v(i), actual.cells[i + 1])
<1>1. p.id = "UnityQuickCompare" /\ \A i \in 0..(num - 1) : v(i) = expected
  BY DEF UnityFloatToPtr, ExpectedAt
<1>2. TEST_ASSERT_EACH_EQUAL_FLOAT(expected, actual, num)
        = UnityAssertEqualFloatArray(p, actual, num, "ARRAY_TO_VAL")
  BY DEF TEST_ASSERT_EACH_EQUAL_FLOAT
<1>3. "NULL" \notin {p.id, actual.id} =>
        \A i \in 0..(num - 1) : v(i) \in Floats /\ actual.cells[i + 1] \in Floats
  BY <1>1
<1> HIDE DEF p
<1>4. UnityAssertEqualFloatArray(p, actual, num, "ARRAY_TO_VAL").holds
        <=> Compared(p, actual, num, alike)
  BY <1>3, FloatArrayJudged
<1>5. alike <=> \A i \in 0..(num - 1) : Alike(expected, actual.cells[i + 1])
  BY <1>1
<1> HIDE DEF alike
<1>6. Compared(p, actual, num, alike) <=> num > 0 /\ actual # NULL /\ alike
  BY <1>1 DEF Compared
<1>7. QED
  BY <1>2, <1>4, <1>5, <1>6

\* TEST_ASSERT_FLOAT_IS_INF and its kin (unity.c UnityAssertFloatSpecial).
LEMMA FloatSpecialJudged ==
  ASSUME NEW actual \in Floats, NEW trait \in {"INF", "NEG_INF", "NAN", "DET"},
         NEW should_be \in BOOLEAN
  PROVE  UnityAssertFloatSpecial(actual, trait, should_be).holds
           <=> should_be = CASE trait = "INF"     -> actual = Inf(1)
                             [] trait = "NEG_INF" -> actual = Inf(-1)
                             [] trait = "NAN"     -> actual = NaN
                             [] trait = "DET"     -> actual.class = "finite"
<1>1. /\ isinf(actual) /\ actual.n > 0 <=> actual = Inf(1)
      /\ isinf(actual) /\ actual.n < 0 <=> actual = Inf(-1)
      /\ isnan(actual) <=> actual = NaN
      /\ ~isinf(actual) /\ ~isnan(actual) <=> actual.class = "finite"
  BY FloatIs DEF isinf, isnan, Inf, NaN
<1> DEFINE is == CASE trait = "INF"     -> isinf(actual) /\ actual.n > 0
                   [] trait = "NEG_INF" -> isinf(actual) /\ actual.n < 0
                   [] trait = "NAN"     -> isnan(actual)
                   [] trait = "DET"     -> ~isinf(actual) /\ ~isnan(actual)
<1>2. UnityAssertFloatSpecial(actual, trait, should_be).holds <=> is = should_be
  BY DEF UnityAssertFloatSpecial, Holds, Fails
<1>3. CASE trait = "INF"
  <2>1. is = (isinf(actual) /\ actual.n > 0)
    BY <1>3
  <2> HIDE DEF is
  <2>2. QED
    BY <1>1, <1>2, <1>3, <2>1
<1>4. CASE trait = "NEG_INF"
  <2>1. is = (isinf(actual) /\ actual.n < 0)
    BY <1>4
  <2> HIDE DEF is
  <2>2. QED
    BY <1>1, <1>2, <1>4, <2>1
<1>5. CASE trait = "NAN"
  <2>1. is = (actual.class = "nan")
    BY <1>5 DEF isnan
  <2> HIDE DEF is
  <2>2. QED
    BY <1>1, <1>2, <1>5, <2>1 DEF isnan
<1>6. CASE trait = "DET"
  <2>1. is = (~isinf(actual) /\ ~isnan(actual))
    BY <1>6
  <2> HIDE DEF is
  <2>2. QED
    BY <1>1, <1>2, <1>6, <2>1
<1>7. QED
  BY <1>3, <1>4, <1>5, <1>6

-----------------------------------------------------------------------------
(* Assertions on memory.                                                    *)

\* The first n cells of one block are those of another from the i-th on.
Agree(s, t, i, n) == \A j \in 0..(n - 1) : s[j + 1] = t[i + j + 1]

LEMMA SameParts ==
  ASSUME NEW S, NEW s \in Seq(S), NEW T, NEW t \in Seq(T), NEW i \in Nat, NEW n \in Nat,
         n <= Len(s), i + n <= Len(t)
  PROVE  SubSeq(s, 1, n) = SubSeq(t, i + 1, i + n) <=> Agree(s, t, i, n)
<1> DEFINE u == SubSeq(s, 1, n)
           v == SubSeq(t, i + 1, i + n)
<1>0. Len(s) \in Nat /\ Len(t) \in Nat
  BY LenProperties
<1>1. /\ u \in Seq(S) /\ Len(u) = n
      /\ \A k \in 1..n : u[k] = s[k]
  <2>1. /\ 1 \in 1..(Len(s) + 1) /\ n \in 0..Len(s)
    BY <1>0
  <2>2. /\ u \in Seq(S) /\ Len(u) = (IF 1 <= n THEN n - 1 + 1 ELSE 0)
        /\ \A k \in 1..(n - 1 + 1) : u[k] = s[1 + k - 1]
    BY <2>1, SubSeqProperties
  <2>3. QED
    BY <2>2
<1>2. /\ v \in Seq(T) /\ Len(v) = n
      /\ \A k \in 1..n : v[k] = t[i + k]
  <2>1. i + 1 \in 1..(Len(t) + 1) /\ i + n \in i..Len(t)
    BY <1>0
  <2>2. /\ v \in Seq(T) /\ Len(v) = (IF i + 1 <= i + n THEN (i + n) - (i + 1) + 1 ELSE 0)
        /\ \A k \in 1..((i + n) - (i + 1) + 1) : v[k] = t[(i + 1) + k - 1]
    BY <2>1, SubSeqProperties
  <2>3. (i + n) - (i + 1) + 1 = n /\ \A k \in 1..n : (i + 1) + k - 1 = i + k
    OBVIOUS
  <2>4. QED
    BY <2>2, <2>3
<1> HIDE DEF u, v
<1>3. u \in Seq(S \union T) /\ v \in Seq(S \union T)
  BY <1>1, <1>2
<1>4. u = v <=> \A k \in 1..n : u[k] = v[k]
  BY <1>1, <1>2, <1>3, SeqEqual
<1>5. (\A k \in 1..n : s[k] = t[i + k]) <=> \A j \in 0..(n - 1) : s[j + 1] = t[i + j + 1]
  <2>1. ASSUME \A k \in 1..n : s[k] = t[i + k], NEW j \in 0..(n - 1)
        PROVE  s[j + 1] = t[i + j + 1]
    <3>1. j + 1 \in 1..n /\ i + (j + 1) = i + j + 1
      OBVIOUS
    <3>2. QED
      BY <2>1, <3>1
  <2>2. ASSUME \A j \in 0..(n - 1) : s[j + 1] = t[i + j + 1], NEW k \in 1..n
        PROVE  s[k] = t[i + k]
    <3>1. k - 1 \in 0..(n - 1) /\ (k - 1) + 1 = k /\ i + (k - 1) + 1 = i + k
      OBVIOUS
    <3>2. QED
      BY <2>2, <3>1
  <2>3. QED
    BY <2>1, <2>2
<1>6. QED
  BY <1>1, <1>2, <1>4, <1>5 DEF u, v, Agree

\* Byte j of element i, and the element and the byte of a place in memory.
LEMMA Places ==
  ASSUME NEW l \in Nat \ {0}, NEW num \in Nat
  PROVE  /\ \A i \in 0..(num - 1), j \in 0..(l - 1) :
              LET k == i * l + j
              IN  k \in 0..(num * l - 1) /\ k \div l = i /\ k % l = j
         /\ \A k \in 0..(num * l - 1) :
              /\ k \div l \in 0..(num - 1) /\ k % l \in 0..(l - 1)
              /\ k = (k \div l) * l + (k % l)
<1>0. num * l \in Nat
  OBVIOUS
<1>1. ASSUME NEW i \in 0..(num - 1), NEW j \in 0..(l - 1)
      PROVE  i * l + j \in 0..(num * l - 1) /\ (i * l + j) \div l = i /\ (i * l + j) % l = j
  <2> DEFINE k == i * l + j
             q == k \div l
             r == k % l
  <2>1. i * l \in Nat /\ (i + 1) * l <= num * l /\ (i + 1) * l = i * l + l
    <3>1. (num - (i + 1)) \in Nat /\ (num - (i + 1)) * l \in Nat
      OBVIOUS
    <3>2. (num - (i + 1)) * l = num * l - (i + 1) * l /\ (i + 1) * l = i * l + l
      OBVIOUS
    <3>3. i * l \in Nat /\ (i + 1) * l \in Nat
      OBVIOUS
    <3>4. QED
      BY <1>0, <3>1, <3>2, <3>3
  <2>2. k \in 0..(num * l - 1)
    BY <1>0, <2>1
  <2>3. k \in Int
    BY <2>2
  <2> HIDE DEF k
  <2>4. r \in 0..(l - 1) /\ q \in Int /\ k = l * q + r
    BY <2>3, Remainder
  <2> HIDE DEF q, r
  <2>5. j - r = l * (q - i) /\ q - i \in Int
    <3>1. l * (q - i) = l * q - l * i /\ l * i = i * l
      BY <2>4
    <3>2. l * q \in Int /\ l * i \in Int
      BY <2>4
    <3>3. k = i * l + j
      BY DEF k
    <3>4. QED
      BY <2>4, <3>1, <3>2, <3>3
  <2>6. j = r
    BY <2>4, <2>5, Multiple
  <2>7. q = i
    <3>1. l * (q - i) = 0
      BY <2>4, <2>5, <2>6
    <3>2. q - i >= 1 => l * (q - i) >= 1
      BY <2>5, SMTT(30)
    <3>3. q - i <= -1 => l * (q - i) <= -1
      BY <2>5, SMTT(30)
    <3>4. QED
      BY <2>4, <3>1, <3>2, <3>3
  <2>8. QED
    BY <2>2, <2>6, <2>7 DEF q, r, k
<1>2. ASSUME NEW k \in 0..(num * l - 1)
      PROVE  /\ k \div l \in 0..(num - 1) /\ k % l \in 0..(l - 1)
             /\ k = (k \div l) * l + (k % l)
  <2> DEFINE q == k \div l
             r == k % l
  <2>1. r \in 0..(l - 1) /\ q \in Int /\ k = l * q + r
    BY <1>0, Remainder
  <2> HIDE DEF q, r
  <2>2. q >= 0
    <3>1. q <= -1 => l * q <= -l
      BY <2>1, SMTT(30)
    <3>2. QED
      BY <1>0, <2>1, <3>1
  <2>3. q < num
    <3>1. q >= num => l * q >= l * num
      BY <2>1, SMTT(30)
    <3>2. l * num = num * l
      OBVIOUS
    <3>3. QED
      BY <1>0, <2>1, <3>1, <3>2
  <2>4. QED
    BY <2>1, <2>2, <2>3 DEF q, r
<1>3. QED
  BY <1>1, <1>2

\* So many cells of a block of memory.
IsBlock(p, size) == \E S : p.cells \in Seq(S) /\ size <= Len(p.cells)

\* So much memory is the same, or each so much of it is the same.
SameMemory(expected, actual, size) ==
  SubSeq(expected.cells, 1, size) = SubSeq(actual.cells, 1, size)
EachSame(expected, actual, length, num) ==
  \A i \in 0..(num - 1) :
    SubSeq(expected.cells, 1, length) = SubSeq(actual.cells, i * length + 1, (i + 1) * length)

\* TEST_ASSERT_EQUAL_MEMORY and TEST_ASSERT_EQUAL_MEMORY_ARRAY (unity.c
\* UnityAssertEqualMemory).
LEMMA MemoryJudged ==
  ASSUME NEW expected, NEW actual, NEW length \in Nat, NEW num \in Nat,
         "NULL" \notin {expected.id, actual.id} =>
           IsBlock(expected, num * length) /\ IsBlock(actual, num * length)
  PROVE  UnityAssertEqualMemory(expected, actual, length, num, "ARRAY_TO_ARRAY").holds
           <=> Compared(expected, actual, num * length, SameMemory(expected, actual, num * length))
<1> DEFINE n == num * length
           e(k) == expected.cells[(ExpectedAt(k \div length, "ARRAY_TO_ARRAY") * length)
                                    + (k % length) + 1]
           a(k) == actual.cells[k + 1]
           element(k) == IF num > 1 THEN <<k \div length, k % length>> ELSE <<k % length>>
           shown(byte) == UnityPrintNumberByStyle(byte, UNITY_DISPLAY_STYLE_T.HEX8)
           bad == {k \in 0..(n - 1) : e(k) # a(k)}
           reports == [k \in 0..(n - 1) |-> Fails("memory", element(k), shown(e(k)), shown(a(k)))]
           outcome == FirstBad(bad, reports)
           alike == SubSeq(expected.cells, 1, n) = SubSeq(actual.cells, 1, n)
<1>1. UnityAssertEqualMemory(expected, actual, length, num, "ARRAY_TO_ARRAY")
        = Arrays(expected, actual, n, outcome)
  BY DEF UnityAssertEqualMemory
<1>2. n \in Nat /\ (n > 0 => length \in Nat \ {0})
  <2>1. length = 0 => n = 0
    OBVIOUS
  <2>2. QED
    BY <2>1
<1>3. outcome.holds <=> bad = {}
  <2>1. bad \subseteq Nat /\ \A j \in bad : ~reports[j].holds
    BY <1>2 DEF Fails
  <2> HIDE DEF bad, reports
  <2>2. QED
    BY <2>1, FirstBadHolds
<1>4. ASSUME n > 0, "NULL" \notin {expected.id, actual.id} PROVE bad = {} <=> alike
  <2>1. \A k \in 0..(n - 1) : e(k) = expected.cells[k + 1]
    <3>1. \A k \in 0..(n - 1) : /\ k \div length \in 0..(num - 1) /\ k % length \in 0..(length - 1)
                                /\ (k \div length) * length + (k % length) = k
      BY <1>2, <1>4, Places
    <3>2. QED
      BY <3>1 DEF ExpectedAt
  <2>2. bad = {} <=> \A k \in 0..(n - 1) : expected.cells[k + 1] = actual.cells[k + 1]
    <3> HIDE DEF e, n
    <3>1. QED
      BY <2>1
  <2>3. PICK S : expected.cells \in Seq(S) /\ n <= Len(expected.cells)
    BY <1>4 DEF IsBlock
  <2>4. PICK T : actual.cells \in Seq(T) /\ n <= Len(actual.cells)
    BY <1>4 DEF IsBlock
  <2> HIDE DEF n, bad
  <2> DEFINE z == 0
  <2>5. /\ z \in Nat /\ z + 1 = 1 /\ z + n = n
        /\ \A j \in 0..(n - 1) : z + j + 1 = j + 1
    BY <1>2
  <2> HIDE DEF z
  <2>6. SubSeq(expected.cells, 1, n) = SubSeq(actual.cells, z + 1, z + n)
          <=> Agree(expected.cells, actual.cells, z, n)
    <3>1. z + n <= Len(actual.cells)
      BY <2>4, <2>5
    <3>2. QED
      BY <1>2, <2>3, <2>4, <2>5, <3>1, SameParts
  <2>7. Agree(expected.cells, actual.cells, z, n)
          <=> \A k \in 0..(n - 1) : expected.cells[k + 1] = actual.cells[k + 1]
    BY <2>5 DEF Agree
  <2>8. QED
    BY <2>2, <2>5, <2>6, <2>7
<1> HIDE DEF outcome, alike, n, bad
<1>5. Arrays(expected, actual, n, outcome).holds <=> Compared(expected, actual, n, alike)
  BY <1>2, <1>3, <1>4, ArraysJudged
<1>6. QED
  BY <1>1, <1>5 DEF n, alike, SameMemory

\* TEST_ASSERT_EACH_EQUAL_MEMORY (unity.c UnityAssertEqualMemory).
LEMMA EachMemoryJudged ==
  ASSUME NEW expected, NEW actual, NEW length \in Nat, NEW num \in Nat,
         "NULL" \notin {expected.id, actual.id} =>
           IsBlock(expected, length) /\ IsBlock(actual, num * length)
  PROVE  UnityAssertEqualMemory(expected, actual, length, num, "ARRAY_TO_VAL").holds
           <=> Compared(expected, actual, num * length, EachSame(expected, actual, length, num))
<1> DEFINE n == num * length
           e(k) == expected.cells[(ExpectedAt(k \div length, "ARRAY_TO_VAL") * length)
                                    + (k % length) + 1]
           a(k) == actual.cells[k + 1]
           element(k) == IF num > 1 THEN <<k \div length, k % length>> ELSE <<k % length>>
           shown(byte) == UnityPrintNumberByStyle(byte, UNITY_DISPLAY_STYLE_T.HEX8)
           bad == {k \in 0..(n - 1) : e(k) # a(k)}
           reports == [k \in 0..(n - 1) |-> Fails("memory", element(k), shown(e(k)), shown(a(k)))]
           outcome == FirstBad(bad, reports)
           same(i) == SubSeq(expected.cells, 1, length)
                        = SubSeq(actual.cells, i * length + 1, (i + 1) * length)
           alike == \A i \in 0..(num - 1) : same(i)
<1>1. UnityAssertEqualMemory(expected, actual, length, num, "ARRAY_TO_VAL")
        = Arrays(expected, actual, n, outcome)
  BY DEF UnityAssertEqualMemory
<1>2. n \in Nat /\ (n > 0 => length \in Nat \ {0})
  <2>1. length = 0 => n = 0
    OBVIOUS
  <2>2. QED
    BY <2>1
<1>3. outcome.holds <=> bad = {}
  <2>1. bad \subseteq Nat /\ \A j \in bad : ~reports[j].holds
    BY <1>2 DEF Fails
  <2> HIDE DEF bad, reports
  <2>2. QED
    BY <2>1, FirstBadHolds
<1>4. ASSUME n > 0, "NULL" \notin {expected.id, actual.id} PROVE bad = {} <=> alike
  <2>1. /\ \A i \in 0..(num - 1), j \in 0..(length - 1) :
             /\ i * length + j \in 0..(n - 1) /\ (i * length + j) \div length = i
             /\ (i * length + j) % length = j
        /\ \A k \in 0..(n - 1) :
             /\ k \div length \in 0..(num - 1) /\ k % length \in 0..(length - 1)
             /\ k = (k \div length) * length + (k % length)
    BY <1>2, <1>4, Places
  <2>2. \A k \in 0..(n - 1) : e(k) = expected.cells[(k % length) + 1]
    <3>1. 0 * length = 0 /\ \A k \in 0..(n - 1) : 0 + (k % length) + 1 = (k % length) + 1
      BY <2>1
    <3>2. QED
      BY <3>1 DEF ExpectedAt
  <2>3. bad = {} <=> \A k \in 0..(n - 1) : expected.cells[(k % length) + 1] = actual.cells[k + 1]
    <3> HIDE DEF e, n
    <3>1. QED
      BY <2>2
  <2>4. PICK S : expected.cells \in Seq(S) /\ length <= Len(expected.cells)
    BY <1>4 DEF IsBlock
  <2>5. PICK T : actual.cells \in Seq(T) /\ n <= Len(actual.cells)
    BY <1>4 DEF IsBlock
  <2>6. \A i \in 0..(num - 1) :
          i * length \in Nat /\ (i + 1) * length = i * length + length /\ i * length + length <= n
    <3> SUFFICES ASSUME NEW i \in 0..(num - 1)
                 PROVE  /\ i * length \in Nat /\ (i + 1) * length = i * length + length
                        /\ i * length + length <= n
      OBVIOUS
    <3>1. length - 1 \in 0..(length - 1)
      BY <1>2, <1>4
    <3>2. i * length + (length - 1) \in 0..(n - 1)
      BY <2>1, <3>1
    <3>3. i * length \in Nat /\ (i + 1) * length = i * length + length
      OBVIOUS
    <3> HIDE DEF n
    <3>4. QED
      BY <1>2, <3>2, <3>3
  <2> HIDE DEF n, bad
  <2>7. \A i \in 0..(num - 1) :
          same(i) <=> \A j \in 0..(length - 1) :
                        expected.cells[j + 1] = actual.cells[i * length + j + 1]
    <3> SUFFICES ASSUME NEW i \in 0..(num - 1)
                 PROVE  same(i) <=> \A j \in 0..(length - 1) :
                                      expected.cells[j + 1] = actual.cells[i * length + j + 1]
      OBVIOUS
    <3> DEFINE at == i * length
    <3>1. at \in Nat /\ (i + 1) * length = at + length /\ at + length <= n
      BY <2>6
    <3> HIDE DEF at
    <3>2. Len(actual.cells) \in Nat
      BY <2>5, LenProperties
    <3>3. at + length <= Len(actual.cells)
      BY <1>2, <2>5, <3>1, <3>2
    <3>4. SubSeq(expected.cells, 1, length) = SubSeq(actual.cells, at + 1, at + length)
            <=> Agree(expected.cells, actual.cells, at, length)
      BY <2>4, <2>5, <3>1, <3>3, SameParts
    <3>5. QED
      BY <3>1, <3>4 DEF at, Agree
  <2> HIDE DEF same
  <2>8. ASSUME bad = {}, NEW i \in 0..(num - 1), NEW j \in 0..(length - 1)
        PROVE  expected.cells[j + 1] = actual.cells[i * length + j + 1]
    <3> DEFINE k == i * length + j
    <3>1. k \in 0..(n - 1) /\ k % length = j
      BY <2>1
    <3> HIDE DEF k
    <3>2. expected.cells[(k % length) + 1] = actual.cells[k + 1]
      BY <2>3, <2>8, <3>1
    <3>3. QED
      BY <3>1, <3>2 DEF k
  <2>9. ASSUME alike, NEW k \in 0..(n - 1)
        PROVE  expected.cells[(k % length) + 1] = actual.cells[k + 1]
    <3> DEFINE q == k \div length
               r == k % length
    <3>1. q \in 0..(num - 1) /\ r \in 0..(length - 1) /\ k = q * length + r
      BY <2>1
    <3> HIDE DEF q, r
    <3>2. expected.cells[r + 1] = actual.cells[q * length + r + 1]
      BY <2>7, <2>9, <3>1
    <3>3. QED
      BY <3>1, <3>2 DEF r
  <2>10. QED
    BY <2>3, <2>7, <2>8, <2>9
<1> HIDE DEF outcome, alike, n, bad
<1>5. Arrays(expected, actual, n, outcome).holds <=> Compared(expected, actual, n, alike)
  BY <1>2, <1>3, <1>4, ArraysJudged
<1>6. QED
  BY <1>1, <1>5 DEF n, alike, EachSame

-----------------------------------------------------------------------------
(* Elements of an array of integers.                                        *)

\* Any finite sequence of integers has its sums.
LEMMA Sums ==
  ASSUME NEW n \in Nat, NEW c \in [1..n -> Int]
  PROVE  \E f \in [0..n -> Int] : f[0] = 0 /\ \A k \in 1..n : f[k] = f[k - 1] + c[k]
<1> DEFINE P(m) == \E f \in [0..m -> Int] : f[0] = 0 /\ \A k \in 1..m : f[k] = f[k - 1] + c[k]
           T == {m \in 0..n : ~P(m)}
<1>1. ASSUME T # {} PROVE FALSE
  <2>1. PICK m \in T : \A k \in T : m <= k
    <3>1. T \subseteq Nat
      OBVIOUS
    <3> HIDE DEF T
    <3>2. QED
      BY <1>1, <3>1, LeastNumber
  <2>2. P(0)
    <3> DEFINE f == [k \in 0..0 |-> 0]
    <3>1. f \in [0..0 -> Int] /\ f[0] = 0 /\ \A k \in 1..0 : f[k] = f[k - 1] + c[k]
      OBVIOUS
    <3> HIDE DEF f
    <3>2. QED
      BY <3>1
  <2>3. m \in 1..n
    <3> HIDE DEF P
    <3>1. m # 0
      BY <2>1, <2>2
    <3>2. QED
      BY <2>1, <3>1
  <2>4. P(m - 1)
    <3>1. m - 1 \in 0..n /\ m - 1 < m
      BY <2>3
    <3>2. m - 1 \notin T
      <4> HIDE DEF T
      <4>1. ~(m <= m - 1)
        BY <2>3
      <4>2. QED
        BY <2>1, <4>1
    <3> HIDE DEF P
    <3>3. QED
      BY <3>1, <3>2
  <2>5. PICK f \in [0..(m - 1) -> Int] :
          f[0] = 0 /\ \A k \in 1..(m - 1) : f[k] = f[k - 1] + c[k]
    BY <2>4
  <2> DEFINE g == [k \in 0..m |-> IF k = m THEN f[m - 1] + c[m] ELSE f[k]]
  <2>6. g \in [0..m -> Int]
    <3>1. f[m - 1] + c[m] \in Int
      BY <2>3, <2>5
    <3>2. \A k \in 0..m : k # m => k \in 0..(m - 1)
      BY <2>3
    <3>3. QED
      BY <2>5, <3>1, <3>2
  <2>7. g[0] = 0 /\ \A k \in 1..m : g[k] = g[k - 1] + c[k]
    <3>1. g[0] = 0
      BY <2>3, <2>5
    <3>2. ASSUME NEW k \in 1..m PROVE g[k] = g[k - 1] + c[k]
      <4>1. k - 1 \in 0..m /\ k - 1 # m /\ k \in 0..m
        BY <2>3
      <4>2. g[k - 1] = f[k - 1]
        BY <4>1
      <4>3. CASE k = m
        BY <4>1, <4>2, <4>3
      <4>4. CASE k # m
        <5>1. k \in 1..(m - 1)
          BY <2>3, <4>4
        <5>2. QED
          BY <2>5, <4>1, <4>2, <4>4, <5>1
      <4>5. QED
        BY <4>3, <4>4
    <3>3. QED
      BY <3>1, <3>2
  <2> HIDE DEF g
  <2>8. P(m)
    BY <2>6, <2>7
  <2>9. QED
    BY <2>1, <2>8
<1>2. n \in 0..n
  OBVIOUS
<1>3. P(n)
  BY <1>1, <1>2
<1>4. QED
  BY <1>3

\* Byte k of element i of an array, shifted to its place in the number.
Shifted(p, i, bytes, k) == p.cells[i * bytes + k] * Modulus(k - 1)

\* An element is the sum of its bytes, each in its place.
LEMMA LoadIs ==
  ASSUME NEW p, NEW i, NEW bytes \in Nat, NEW f \in [0..bytes -> Int], f[0] = 0,
         \A k \in 1..bytes : f[k] = f[k - 1] + Shifted(p, i, bytes, k)
  PROVE  Load(p, i, bytes) = Signed(f[bytes], bytes)
<1> DEFINE byte(k) == Shifted(p, i, bytes, k)
           Is(g) == g = [k \in 0..bytes |-> IF k = 0 THEN 0 ELSE g[k - 1] + byte(k)]
           v == CHOOSE g : Is(g)
<1>1. Load(p, i, bytes) = Signed(v[bytes], bytes)
  BY DEF Load, Shifted
<1> HIDE DEF byte
<1>2. \A k \in 1..bytes : f[k] = f[k - 1] + byte(k)
  BY DEF byte
<1>3. Is(f)
  <2>1. \A k \in 0..bytes : f[k] = IF k = 0 THEN 0 ELSE f[k - 1] + byte(k)
    BY <1>2
  <2>2. f = [k \in 0..bytes |-> f[k]]
    OBVIOUS
  <2>3. QED
    BY <2>1, <2>2
<1>4. Is(v)
  BY <1>3
<1> HIDE DEF v
<1>5. \A k \in 0..bytes : v[k] = IF k = 0 THEN 0 ELSE v[k - 1] + byte(k)
  BY <1>4
<1> DEFINE T == {k \in 0..bytes : v[k] # f[k]}
<1>6. ASSUME T # {} PROVE FALSE
  <2>1. PICK k \in T : \A j \in T : k <= j
    <3>1. T \subseteq Nat
      OBVIOUS
    <3> HIDE DEF T
    <3>2. QED
      BY <1>6, <3>1, LeastNumber
  <2>2. k # 0
    BY <1>5, <2>1
  <2>3. k \in 1..bytes /\ k - 1 \in 0..bytes /\ k - 1 < k
    BY <2>1, <2>2
  <2>4. k - 1 \notin T
    BY <2>1, <2>3
  <2>5. v[k - 1] = f[k - 1]
    BY <2>3, <2>4
  <2>6. v[k] = f[k]
    BY <1>2, <1>5, <2>3, <2>5
  <2>7. QED
    BY <2>1, <2>6
<1>7. v[bytes] = f[bytes]
  BY <1>6
<1>8. QED
  BY <1>1, <1>7

\* Casts to the signed type of a size say nothing new of a signed number of that
\* size.
LEMMA SignedAgain ==
  ASSUME NEW n \in Int, NEW b \in {1, 2, 4, 8}
  PROVE  Signed(Signed(n, b), b) = Signed(n, b)
<1>1. Unsigned(Signed(n, b), b) = Unsigned(n, b)
  BY Casts
<1>2. QED
  BY <1>1 DEF Signed

\* The bytes of an array that its first num elements are made of.
IsArray(p, num, bytes) ==
  \A i \in 0..(num - 1) : \A k \in 1..bytes : p.cells[i * bytes + k] \in Int

\* What a loop reads of them: a signed number of the size.
LEMMA LoadTypes ==
  ASSUME NEW bytes \in {1, 2, 4, 8}, NEW p, NEW i \in Int,
         \A k \in 1..bytes : p.cells[i * bytes + k] \in Int
  PROVE  /\ Load(p, i, bytes) \in Int /\ Signed(Load(p, i, bytes), bytes) = Load(p, i, bytes)
         /\ -Modulus(bytes) <= 2 * Load(p, i, bytes) /\ 2 * Load(p, i, bytes) < Modulus(bytes)
<1> DEFINE cell(k) == p.cells[i * bytes + k]
           c == [k \in 1..bytes |-> Shifted(p, i, bytes, k)]
<1>1. \A k \in 1..bytes : Modulus(k - 1) \in Nat
  <2> SUFFICES ASSUME NEW k \in 1..bytes PROVE Modulus(k - 1) \in Nat
    OBVIOUS
  <2>1. k - 1 \in Nat
    OBVIOUS
  <2>2. ByteBits * (k - 1) \in Nat
    BY <2>1, ByteBitsAssumption
  <2>3. QED
    BY <2>2, PowerPositive DEF Modulus
<1>2. c \in [1..bytes -> Int]
  <2>1. \A k \in 1..bytes : Shifted(p, i, bytes, k) = cell(k) * Modulus(k - 1) /\ cell(k) \in Int
    BY DEF Shifted
  <2> HIDE DEF cell
  <2>2. \A k \in 1..bytes : Shifted(p, i, bytes, k) \in Int
    BY <1>1, <2>1
  <2>3. QED
    BY <2>2
<1>3. \A k \in 1..bytes : c[k] = Shifted(p, i, bytes, k)
  OBVIOUS
<1> HIDE DEF c
<1>4. bytes \in Nat
  OBVIOUS
<1>5. PICK f \in [0..bytes -> Int] : f[0] = 0 /\ \A k \in 1..bytes : f[k] = f[k - 1] + c[k]
  BY <1>2, <1>4, Sums
<1>6. \A k \in 1..bytes : f[k] = f[k - 1] + Shifted(p, i, bytes, k)
  BY <1>3, <1>5
<1>7. Load(p, i, bytes) = Signed(f[bytes], bytes)
  BY <1>4, <1>5, <1>6, LoadIs
<1>8. f[bytes] \in Int
  BY <1>4, <1>5
<1>9. QED
  BY <1>7, <1>8, SignedAgain, Casts

\* The types of an array: size_t is not one, its elements are read as UINT's.
ArrayTypes == IntegerTypes \ {"size_t"}

LEMMA ArrayTypeFacts ==
  ASSUME NEW type \in ArrayTypes
  PROVE  /\ StyleOf(type).bytes = SizeOf(type) /\ SizeOf(type) \in {1, 2, 4, 8}
         /\ IsInt(StyleOf(type)) <=> type \in SignedTypes
         /\ type \in IntegerTypes
BY DEF ArrayTypes, IntegerTypes, SizeOf, SignedTypes, Wide, StyleOf, MacroType, IsInt,
       UNITY_DISPLAY_STYLE_T, INT

\* Two elements have one value exactly if they are read as one number.
LEMMA ElementsApart ==
  ASSUME NEW type \in ArrayTypes, NEW p, NEW i, NEW q, NEW j,
         LET b == SizeOf(type)
         IN  /\ Load(p, i, b) \in Int /\ Signed(Load(p, i, b), b) = Load(p, i, b)
             /\ Load(q, j, b) \in Int /\ Signed(Load(q, j, b), b) = Load(q, j, b)
  PROVE  Element(p, i, type) = Element(q, j, type)
           <=> Load(p, i, SizeOf(type)) = Load(q, j, SizeOf(type))
<1> DEFINE b == SizeOf(type)
           m == Load(p, i, b)
           n == Load(q, j, b)
<1>1. b \in {1, 2, 4, 8}
  BY ArrayTypeFacts
<1>2. Unsigned(m, b) = Unsigned(n, b) <=> m = n
  <2>1. Signed(m, b) = Signed(n, b) <=> Unsigned(m, b) = Unsigned(n, b)
    BY <1>1, SameApart
  <2>2. QED
    BY <2>1
<1>3. /\ Element(p, i, type) = IF type \in SignedTypes THEN m ELSE Unsigned(m, b)
      /\ Element(q, j, type) = IF type \in SignedTypes THEN n ELSE Unsigned(n, b)
  BY DEF Element
<1> HIDE DEF m, n, b
<1>4. QED
  BY <1>2, <1>3 DEF m, n, b

\* The loops over integers hold exactly if no element is bad.
LEMMA IntArraysHold ==
  ASSUME NEW elements, NEW style, NEW bad, bad \subseteq Nat
  PROVE  IntArrays(elements, bad, style).holds <=> bad = {}
<1> DEFINE shown(n) == UnityPrintNumberByStyle(Unextended(n, style), style)
           reports == [i \in bad |-> Fails("number", <<i>>, shown(elements[i][1]),
                                                            shown(elements[i][2]))]
<1>1. IntArrays(elements, bad, style) = FirstBad(bad, reports)
  BY DEF IntArrays
<1>2. \A i \in bad : ~reports[i].holds
  BY DEF Fails
<1> HIDE DEF reports
<1>3. QED
  BY <1>1, <1>2, FirstBadHolds

\* TEST_ASSERT_EQUAL_INT_ARRAY and its kin (unity.c UnityAssertEqualIntArray).
LEMMA IntArrayJudged ==
  ASSUME NEW type \in ArrayTypes, NEW expected, NEW actual, NEW num \in Nat,
         "NULL" \notin {expected.id, actual.id} =>
           IsArray(expected, num, SizeOf(type)) /\ IsArray(actual, num, SizeOf(type))
  PROVE  TEST_ASSERT_EQUAL_ARRAY(type, expected, actual, num).holds
           <=> Compared(expected, actual, num,
                 \A i \in 0..(num - 1) : Element(expected, i, type) = Element(actual, i, type))
<1> DEFINE style == StyleOf(type)
           b == SizeOf(type)
           pairs == Elements(expected, actual, num, style, "ARRAY_TO_ARRAY")
           bad == {i \in DOMAIN pairs : pairs[i][1] # pairs[i][2]}
           outcome == IntArrays(pairs, bad, style)
           alike == \A i \in 0..(num - 1) : Element(expected, i, type) = Element(actual, i, type)
<1>1. TEST_ASSERT_EQUAL_ARRAY(type, expected, actual, num) = Arrays(expected, actual, num, outcome)
  BY DEF TEST_ASSERT_EQUAL_ARRAY, UnityAssertEqualIntArray
<1>2. /\ DOMAIN pairs = 0..(num - 1)
      /\ \A i \in 0..(num - 1) : pairs[i][1] = Load(expected, i, b) /\ pairs[i][2] = Load(actual, i, b)
  BY ArrayTypeFacts DEF Elements, ExpectedAt
<1>3. b \in {1, 2, 4, 8}
  BY ArrayTypeFacts
<1> HIDE DEF pairs, style
<1>4. bad = {} <=> \A i \in 0..(num - 1) : Load(expected, i, b) = Load(actual, i, b)
  BY <1>2
<1>5. outcome.holds <=> bad = {}
  <2>1. bad \subseteq Nat
    BY <1>2
  <2> HIDE DEF bad
  <2>2. QED
    BY <2>1, IntArraysHold
<1> HIDE DEF bad, outcome
<1>6. ASSUME "NULL" \notin {expected.id, actual.id} PROVE outcome.holds <=> alike
  <2>1. \A i \in 0..(num - 1) :
          Element(expected, i, type) = Element(actual, i, type)
            <=> Load(expected, i, b) = Load(actual, i, b)
    <3> SUFFICES ASSUME NEW i \in 0..(num - 1)
                 PROVE  Element(expected, i, type) = Element(actual, i, type)
                          <=> Load(expected, i, b) = Load(actual, i, b)
      OBVIOUS
    <3>1. /\ \A k \in 1..b : expected.cells[i * b + k] \in Int
          /\ \A k \in 1..b : actual.cells[i * b + k] \in Int
      BY <1>6 DEF IsArray
    <3>2. /\ Load(expected, i, b) \in Int /\ Signed(Load(expected, i, b), b) = Load(expected, i, b)
          /\ Load(actual, i, b) \in Int /\ Signed(Load(actual, i, b), b) = Load(actual, i, b)
      <4>1. i \in Int
        OBVIOUS
      <4> HIDE DEF b
      <4>2. Load(expected, i, b) \in Int /\ Signed(Load(expected, i, b), b) = Load(expected, i, b)
        BY <1>3, <3>1, <4>1, LoadTypes
      <4>3. Load(actual, i, b) \in Int /\ Signed(Load(actual, i, b), b) = Load(actual, i, b)
        BY <1>3, <3>1, <4>1, LoadTypes
      <4>4. QED
        BY <4>2, <4>3
    <3>3. QED
      BY <3>2, ElementsApart
  <2> HIDE DEF b
  <2>2. QED
    BY <1>4, <1>5, <2>1
<1> HIDE DEF alike
<1>7. Arrays(expected, actual, num, outcome).holds <=> Compared(expected, actual, num, alike)
  BY <1>6, ArraysJudged
<1>8. QED
  BY <1>1, <1>7 DEF alike

\* The types whose arrays are compared by distance as what they are: an element
\* of a shorter unsigned one is extended by its sign.
DistanceTypes == SignedTypes \union {"UINT64", "HEX64"}

\* TEST_ASSERT_INT_ARRAY_WITHIN and its kin (unity.c UnityAssertNumbersArrayWithin).
LEMMA ArrayWithinJudged ==
  ASSUME NEW type \in DistanceTypes, NEW delta \in 0..(Modulus(SizeOf(type)) - 1),
         NEW expected, NEW actual, NEW num \in Nat,
         "NULL" \notin {expected.id, actual.id} =>
           IsArray(expected, num, SizeOf(type)) /\ IsArray(actual, num, SizeOf(type))
  PROVE  TEST_ASSERT_ARRAY_WITHIN(type, delta, expected, actual, num).holds
           <=> Compared(expected, actual, num,
                 \A i \in 0..(num - 1) :
                   Near(delta, Element(expected, i, type), Element(actual, i, type)))
<1> DEFINE style == StyleOf(type)
           b == SizeOf(type)
           d == CastDelta(delta, type, style.bytes)
           pairs == Elements(expected, actual, num, style, "ARRAY_TO_ARRAY")
           bad == {i \in DOMAIN pairs : TooFar(delta, pairs[i][1], pairs[i][2], style)}
           outcome == IntArrays(pairs, bad, style)
           near(i) == Near(delta, Element(expected, i, type), Element(actual, i, type))
           alike == \A i \in 0..(num - 1) : near(i)
<1>1. /\ type \in ArrayTypes /\ type # "UINT8"
      /\ b \in {1, 2, 4, 8} /\ style.bytes = b /\ b <= LONG /\ LONG \in {1, 2, 4, 8}
      /\ IsInt(style) <=> type \in SignedTypes
      /\ ~IsInt(style) => b = LONG
  BY DEF DistanceTypes, SignedTypes, ArrayTypes, IntegerTypes, SizeOf, StyleOf, MacroType, IsInt,
         UNITY_DISPLAY_STYLE_T, INT, LONG
<1>2. d = delta
  <2>1. Unsigned(delta, LONG) = delta /\ Unsigned(delta, b) = delta
    BY <1>1, Widened
  <2>2. QED
    BY <1>1, <2>1 DEF CastDelta
<1>3. TEST_ASSERT_ARRAY_WITHIN(type, delta, expected, actual, num)
        = Arrays(expected, actual, num, outcome)
  <2>1. TEST_ASSERT_ARRAY_WITHIN(type, delta, expected, actual, num)
          = UnityAssertNumbersArrayWithin(d, expected, actual, num, style, "ARRAY_TO_ARRAY")
    BY <1>1 DEF TEST_ASSERT_ARRAY_WITHIN
  <2> HIDE DEF d
  <2>2. QED
    BY <1>2, <2>1 DEF UnityAssertNumbersArrayWithin
<1>4. /\ DOMAIN pairs = 0..(num - 1)
      /\ \A i \in 0..(num - 1) : pairs[i][1] = Load(expected, i, b) /\ pairs[i][2] = Load(actual, i, b)
  BY <1>1 DEF Elements, ExpectedAt
<1> HIDE DEF pairs, style, d
<1>5. bad = {} <=> \A i \in 0..(num - 1) :
                     ~TooFar(delta, Load(expected, i, b), Load(actual, i, b), style)
  BY <1>4
<1>6. outcome.holds <=> bad = {}
  <2>1. bad \subseteq Nat
    BY <1>4
  <2> HIDE DEF bad
  <2>2. QED
    BY <2>1, IntArraysHold
<1> HIDE DEF bad, outcome
<1>7. ASSUME "NULL" \notin {expected.id, actual.id}, NEW i \in 0..(num - 1)
      PROVE  ~TooFar(delta, Load(expected, i, b), Load(actual, i, b), style) <=> near(i)
  <2> DEFINE e == Load(expected, i, b)
             a == Load(actual, i, b)
  <2>1. /\ \A k \in 1..b : expected.cells[i * b + k] \in Int
        /\ \A k \in 1..b : actual.cells[i * b + k] \in Int
    BY <1>7 DEF IsArray
  <2>2. /\ e \in Int /\ -Modulus(b) <= 2 * e /\ 2 * e < Modulus(b)
        /\ a \in Int /\ -Modulus(b) <= 2 * a /\ 2 * a < Modulus(b)
    <3>1. i \in Int
      OBVIOUS
    <3> HIDE DEF b
    <3>2. e \in Int /\ -Modulus(b) <= 2 * e /\ 2 * e < Modulus(b)
      BY <1>1, <2>1, <3>1, LoadTypes
    <3>3. a \in Int /\ -Modulus(b) <= 2 * a /\ 2 * a < Modulus(b)
      BY <1>1, <2>1, <3>1, LoadTypes
    <3>4. QED
      BY <3>2, <3>3
  <2>3. Modulus(b) \in Nat /\ Modulus(LONG) \in Nat /\ Modulus(b) <= Modulus(LONG)
    BY <1>1, Moduli
  <2>4. near(i) <=> IF IsInt(style) THEN Near(delta, e, a)
                    ELSE Near(delta, Unsigned(e, LONG), Unsigned(a, LONG))
    BY <1>1 DEF Element
  <2> HIDE DEF e, a, near
  <2>5. a - e < Modulus(LONG) /\ e - a < Modulus(LONG)
    BY <2>2, <2>3
  <2>6. UnityAssertNumbersWithin(delta, e, a, style).holds
          = IF IsInt(style) THEN Near(delta, e, a)
            ELSE Near(delta, Unsigned(e, LONG), Unsigned(a, LONG))
    BY <2>2, <2>5, WithinIsNear
  <2>7. UnityAssertNumbersWithin(delta, e, a, style).holds <=> ~TooFar(delta, e, a, style)
    BY DEF UnityAssertNumbersWithin, Holds, Fails
  <2>8. QED
    BY <2>4, <2>6, <2>7 DEF e, a
<1> HIDE DEF near
<1>8. "NULL" \notin {expected.id, actual.id} => (outcome.holds <=> alike)
  BY <1>5, <1>6, <1>7
<1> HIDE DEF alike
<1>9. Arrays(expected, actual, num, outcome).holds <=> Compared(expected, actual, num, alike)
  BY <1>8, ArraysJudged
<1>10. QED
  BY <1>3, <1>9 DEF alike, near

-----------------------------------------------------------------------------
(* One value, put in a buffer and read again.                               *)

\* The subsets of a set are the pairs of subsets of its two halves.
LEMMA PowerSum == ASSUME NEW m \in Nat, NEW n \in Nat PROVE 2^(m + n) = 2^m * 2^n
<1> DEFINE S == 1..m
           T == (m + 1)..(m + n)
           U == 1..(m + n)
           f == [A \in SUBSET U |-> <<A \cap S, A \cap T>>]
<1>1. IsFiniteSet(S) /\ Cardinality(S) = m
  BY FS_Interval
<1>2. IsFiniteSet(T) /\ Cardinality(T) = n
  <2>1. m + 1 \in Int /\ m + n \in Int
        /\ (IF m + 1 > m + n THEN 0 ELSE (m + n) - (m + 1) + 1) = n
    OBVIOUS
  <2>2. QED
    BY <2>1, FS_Interval
<1>3. IsFiniteSet(U) /\ Cardinality(U) = m + n
  <2>1. 1 \in Int /\ m + n \in Int /\ (IF 1 > m + n THEN 0 ELSE (m + n) - 1 + 1) = m + n
    OBVIOUS
  <2>2. QED
    BY <2>1, FS_Interval
<1>4. S \union T = U /\ S \cap T = {}
  OBVIOUS
<1> HIDE DEF S, T, U
<1>5. f \in Bijection(SUBSET U, (SUBSET S) \X (SUBSET T))
  <2>1. f \in [SUBSET U -> (SUBSET S) \X (SUBSET T)]
    OBVIOUS
  <2>2. \A A, B \in SUBSET U : f[A] = f[B] => A = B
    <3> SUFFICES ASSUME NEW A \in SUBSET U, NEW B \in SUBSET U, f[A] = f[B] PROVE A = B
      OBVIOUS
    <3>1. A \cap S = B \cap S /\ A \cap T = B \cap T
      OBVIOUS
    <3>2. A = (A \cap S) \union (A \cap T) /\ B = (B \cap S) \union (B \cap T)
      BY <1>4
    <3>3. QED
      BY <3>1, <3>2
  <2>3. \A y \in (SUBSET S) \X (SUBSET T) : \E A \in SUBSET U : f[A] = y
    <3>1. ASSUME NEW C \in SUBSET S, NEW D \in SUBSET T
          PROVE  \E A \in SUBSET U : f[A] = <<C, D>>
      <4>1. C \union D \in SUBSET U
        BY <1>4
      <4>2. (C \union D) \cap S = C /\ (C \union D) \cap T = D
        BY <1>4
      <4>3. QED
        BY <4>1, <4>2
    <3> HIDE DEF f
    <3>2. ASSUME NEW y \in (SUBSET S) \X (SUBSET T) PROVE \E A \in SUBSET U : f[A] = y
      <4>1. y[1] \in SUBSET S /\ y[2] \in SUBSET T /\ y = <<y[1], y[2]>>
        OBVIOUS
      <4>2. QED
        BY <3>1, <4>1
    <3>3. QED
      BY <3>2
  <2> HIDE DEF f
  <2>4. QED
    BY <2>1, <2>2, <2>3, Fun_IsBij
<1>6. IsFiniteSet(SUBSET U) /\ Cardinality(SUBSET U) = 2^(m + n)
  BY <1>3, FS_SUBSET
<1>7. /\ IsFiniteSet(SUBSET S) /\ Cardinality(SUBSET S) = 2^m
      /\ IsFiniteSet(SUBSET T) /\ Cardinality(SUBSET T) = 2^n
  BY <1>1, <1>2, FS_SUBSET
<1>8. Cardinality((SUBSET S) \X (SUBSET T)) = 2^m * 2^n
  BY <1>7, FS_Product
<1>9. Cardinality((SUBSET S) \X (SUBSET T)) = Cardinality(SUBSET U)
  BY <1>5, <1>6, FS_Bijection DEF ExistsBijection
<1>10. QED
  BY <1>6, <1>8, <1>9

\* The moduli of sizes multiply.
LEMMA ModuliMultiply ==
  ASSUME NEW j \in Nat, NEW k \in Nat
  PROVE  /\ Modulus(j) \in Nat \ {0} /\ Modulus(k) \in Nat \ {0}
         /\ Modulus(j + k) = Modulus(j) * Modulus(k)
<1>1. ByteBits * j \in Nat /\ ByteBits * k \in Nat /\ ByteBits * (j + k) = ByteBits * j + ByteBits * k
  BY ByteBitsAssumption
<1>2. QED
  BY <1>1, PowerSum, PowerPositive DEF Modulus

LEMMA ModulusOfNothing == Modulus(0) = 1
<1>1. IsFiniteSet({}) /\ Cardinality({}) = 0
  BY FS_EmptySet
<1>2. SUBSET {} = {{}} /\ Cardinality({{}}) = 1
  BY FS_Singleton
<1>3. Cardinality(SUBSET {}) = 2^Cardinality({})
  BY <1>1, FS_SUBSET
<1>4. ByteBits * 0 = 0
  BY ByteBitsAssumption
<1>5. QED
  BY <1>1, <1>2, <1>3, <1>4 DEF Modulus

\* Numbers that differ by a multiple of M leave one remainder.
LEMMA SameRemainder ==
  ASSUME NEW M \in Nat \ {0}, NEW x \in Int, NEW y \in Int, NEW k \in Int, x - y = M * k
  PROVE  x % M = y % M
<1> DEFINE r == x % M
           s == y % M
           p == x \div M
           q == y \div M
<1>1. r \in 0..(M - 1) /\ p \in Int /\ x = M * p + r
  BY Remainder
<1>2. s \in 0..(M - 1) /\ q \in Int /\ y = M * q + s
  BY Remainder
<1> HIDE DEF r, s, p, q
<1>3. M * (k + q - p) = M * k + M * q - M * p /\ k + q - p \in Int
  BY <1>1, <1>2
<1>4. M * k \in Int /\ M * q \in Int /\ M * p \in Int
  BY <1>1, <1>2
<1>5. r - s = M * (k + q - p)
  BY <1>1, <1>2, <1>3, <1>4
<1>6. r = s
  BY <1>1, <1>2, <1>3, <1>5, Multiple
<1>7. QED
  BY <1>6 DEF r, s

\* The remainder by a product: that by one factor, and as many times the factor
\* as the other leaves of the rest.
LEMMA ByProduct ==
  ASSUME NEW A \in Nat \ {0}, NEW B \in Nat \ {0}, NEW u \in Int
  PROVE  u % (A * B) = (u % A) + (((u \div A) % B) * A)
<1> DEFINE r == u % A
           q == u \div A
           s == q % B
           t == q \div B
           w == r + (s * A)
<1>1. r \in 0..(A - 1) /\ q \in Int /\ u = A * q + r
  BY Remainder
<1> HIDE DEF q, r
<1>2. s \in 0..(B - 1) /\ t \in Int /\ q = B * t + s
  BY <1>1, Remainder
<1> HIDE DEF s, t
<1>3. A * B \in Nat \ {0}
  BY SMTT(30)
<1>4. u - w = (A * B) * t
  <2>1. A * q = A * (B * t) + A * s
    BY <1>2
  <2>2. A * (B * t) = (A * B) * t /\ A * s = s * A
    BY <1>2
  <2>3. A * q \in Int /\ (A * B) * t \in Int /\ s * A \in Int
    BY <1>1, <1>2
  <2>4. QED
    BY <1>1, <2>1, <2>2, <2>3
<1>5. w \in 0..((A * B) - 1)
  <2>1. (B - 1 - s) * A \in Nat /\ s * A \in Nat
    BY <1>2
  <2>2. (B - 1 - s) * A = A * B - A - s * A
    BY <1>2
  <2>3. QED
    BY <1>1, <1>3, <2>1, <2>2
<1> HIDE DEF w
<1>6. u % (A * B) = w % (A * B)
  <2> DEFINE M == A * B
  <2>1. M \in Nat \ {0} /\ w \in Int /\ u - w = M * t
    BY <1>3, <1>4, <1>5
  <2> HIDE DEF M
  <2>2. u % M = w % M
    BY <1>2, <2>1, SameRemainder
  <2>3. QED
    BY <2>2 DEF M
<1>7. w % (A * B) = w
  BY <1>3, <1>5, OwnRemainder
<1>8. QED
  BY <1>6, <1>7 DEF w, r, q, s

\* A cast to a size loses nothing that a later cast to a smaller size keeps.
LEMMA Narrowed ==
  ASSUME NEW b \in {1, 2, 4, 8}, NEW c \in {1, 2, 4, 8}, b <= c, NEW n \in Int
  PROVE  /\ Unsigned(Signed(n, c), b) = Unsigned(n, b)
         /\ Unsigned(Unsigned(n, c), b) = Unsigned(n, b)
<1> DEFINE B == Modulus(b)
           K == Modulus(c - b)
           C == Modulus(c)
           q == n \div C
           u == n % C
<1>1. B \in Nat \ {0} /\ K \in Nat \ {0} /\ C = B * K
  <2>1. b \in Nat /\ c - b \in Nat /\ b + (c - b) = c
    OBVIOUS
  <2>2. QED
    BY <2>1, ModuliMultiply
<1>2. C \in Nat \ {0}
  BY Moduli
<1>3. Unsigned(n, c) = u /\ Signed(n, c) = (IF 2 * u >= C THEN u - C ELSE u)
  BY DEF Unsigned, Signed
<1> HIDE DEF B, K, C
<1>4. u \in 0..(C - 1) /\ q \in Int /\ n = C * q + u
  BY <1>2, Remainder
<1> HIDE DEF u, q
<1>5. ASSUME NEW t \in Int, NEW s \in Int, s = n + C * t PROVE s % B = n % B
  <2>1. C * t = B * (K * t) /\ K * t \in Int
    BY <1>1
  <2>2. s - n = B * (K * t)
    BY <1>2, <1>5, <2>1
  <2> DEFINE k == K * t
  <2> HIDE DEF k
  <2>3. k \in Int /\ s - n = B * k
    BY <2>1, <2>2 DEF k
  <2>4. QED
    BY <1>1, <2>3, SameRemainder
<1>6. u % B = n % B /\ (u - C) % B = n % B
  <2>1. -q \in Int /\ -q - 1 \in Int /\ u \in Int /\ u - C \in Int
    BY <1>2, <1>4
  <2>2. u = n + C * (-q)
    <3>1. C * (-q) = -(C * q) /\ C * q \in Int
      BY <1>2, <1>4
    <3>2. QED
      BY <1>4, <3>1
  <2>3. u - C = n + C * (-q - 1)
    <3>1. C * (-q - 1) = C * (-q) - C /\ C * (-q) \in Int
      BY <1>2, <1>4
    <3>2. QED
      BY <1>2, <2>1, <2>2, <3>1
  <2>4. QED
    BY <1>5, <2>1, <2>2, <2>3
<1>7. QED
  BY <1>3, <1>6 DEF Unsigned, B

\* The bytes of a number, read again, are the number (unity.c UnityNumToPtr).
LEMMA RoundTrip ==
  ASSUME NEW bytes \in {1, 2, 4, 8}, NEW n \in Int
  PROVE  Load(UnityNumToPtr(n, bytes), 0, bytes) = Signed(n, bytes)
<1> DEFINE u == Unsigned(n, bytes)
           p == UnityNumToPtr(n, bytes)
           f == [k \in 0..bytes |-> u % Modulus(k)]
<1>1. bytes \in Nat /\ bytes \in 1..bytes /\ u \in 0..(Modulus(bytes) - 1) /\ u \in Int
  BY Casts
<1>2. \A k \in 1..bytes : p.cells[k] = (u \div Modulus(k - 1)) % Modulus(1)
  BY DEF UnityNumToPtr, BytesOf
<1> HIDE DEF u, p
<1>3. ASSUME NEW k \in 0..bytes PROVE u % Modulus(k) \in Int
  <2> DEFINE M == Modulus(k)
  <2>1. M \in Nat \ {0}
    BY ModuliMultiply
  <2> HIDE DEF M
  <2>2. u % M \in 0..(M - 1)
    BY <1>1, <2>1, Remainder
  <2>3. QED
    BY <2>1, <2>2 DEF M
<1>4. f \in [0..bytes -> Int] /\ f[bytes] = u % Modulus(bytes)
  BY <1>1, <1>3
<1>5. f[0] = 0
  <2>1. u % 1 \in 0..0
    BY <1>1, Remainder
  <2>2. f[0] = u % Modulus(0)
    BY <1>1
  <2>3. QED
    BY <2>1, <2>2, ModulusOfNothing
<1>6. ASSUME NEW k \in 1..bytes
      PROVE  f[k] = f[k - 1] + Shifted(p, 0, bytes, k)
  <2> DEFINE A == Modulus(k - 1)
             B == Modulus(1)
  <2>1. k - 1 \in Nat /\ (k - 1) + 1 = k /\ k \in 0..bytes /\ k - 1 \in 0..bytes
    OBVIOUS
  <2>2. A \in Nat \ {0} /\ B \in Nat \ {0} /\ Modulus(k) = A * B
    BY <2>1, ModuliMultiply
  <2>3. f[k] = u % Modulus(k) /\ f[k - 1] = u % A
    BY <2>1
  <2>4. Shifted(p, 0, bytes, k) = ((u \div A) % B) * A
    <3>1. 0 * bytes + k = k
      OBVIOUS
    <3>2. QED
      BY <1>2, <3>1 DEF Shifted
  <2> HIDE DEF A, B, f
  <2>5. u % (A * B) = (u % A) + (((u \div A) % B) * A)
    BY <1>1, <2>2, ByProduct
  <2>6. QED
    BY <2>2, <2>3, <2>4, <2>5
<1> HIDE DEF f
<1>7. Load(p, 0, bytes) = Signed(f[bytes], bytes)
  BY <1>1, <1>4, <1>5, <1>6, LoadIs
<1>8. f[bytes] = u
  <2>1. Modulus(bytes) \in Nat \ {0}
    BY Moduli
  <2>2. QED
    BY <1>1, <1>4, <2>1, OwnRemainder
<1>9. Signed(u, bytes) = Signed(n, bytes)
  BY Narrowed DEF Signed, u
<1>10. QED
  BY <1>7, <1>8, <1>9 DEF p

\* TEST_ASSERT_EACH_EQUAL_INT and its kin: the one value is in the framework's
\* own buffer, which no test can name (unity.c UnityAssertEqualIntArray).
LEMMA EachIntJudged ==
  ASSUME NEW type \in ArrayTypes, NEW expected \in Int, NEW actual, NEW num \in Nat,
         actual.id # "UnityQuickCompare", actual.id = "NULL" <=> actual = NULL,
         actual # NULL => IsArray(actual, num, SizeOf(type))
  PROVE  TEST_ASSERT_EACH_EQUAL(type, expected, actual, num).holds
           <=> /\ num > 0 /\ actual # NULL
               /\ \A i \in 0..(num - 1) :
                    Element(actual, i, type)
                      = IF type \in SignedTypes THEN Signed(expected, SizeOf(type))
                                                ELSE Unsigned(expected, SizeOf(type))
<1> DEFINE style == StyleOf(type)
           b == SizeOf(type)
           v == Cast(expected, type, {"UINT"})
           p == UnityNumToPtr(v, b)
           pairs == Elements(p, actual, num, style, "ARRAY_TO_VAL")
           bad == {i \in DOMAIN pairs : pairs[i][1] # pairs[i][2]}
           outcome == IntArrays(pairs, bad, style)
           value == IF type \in SignedTypes THEN Signed(expected, b) ELSE Unsigned(expected, b)
           alike == \A i \in 0..(num - 1) : Element(actual, i, type) = value
<1>1. /\ b \in {1, 2, 4, 8} /\ style.bytes = b /\ type \in IntegerTypes
      /\ Width(type) \in {1, 2, 4, 8} /\ b <= Width(type)
  BY ArrayTypeFacts, TypeFacts DEF Width, LONG
<1>2. TEST_ASSERT_EACH_EQUAL(type, expected, actual, num) = Arrays(p, actual, num, outcome)
  BY <1>1 DEF TEST_ASSERT_EACH_EQUAL, UnityAssertEqualIntArray
<1>3. p.id = "UnityQuickCompare"
  BY DEF UnityNumToPtr
<1>4. /\ DOMAIN pairs = 0..(num - 1)
      /\ \A i \in 0..(num - 1) : pairs[i][1] = Load(p, 0, b) /\ pairs[i][2] = Load(actual, i, b)
  BY <1>1 DEF Elements, ExpectedAt
<1>5. v \in Int /\ Signed(v, b) = Signed(expected, b)
  <2>1. v = Signed(expected, Width(type)) \/ v = Unsigned(expected, Width(type))
    BY <1>1, CastIs
  <2>2. Unsigned(v, b) = Unsigned(expected, b)
    <3> HIDE DEF b, v
    <3>1. /\ Unsigned(Signed(expected, Width(type)), b) = Unsigned(expected, b)
          /\ Unsigned(Unsigned(expected, Width(type)), b) = Unsigned(expected, b)
      BY <1>1, Narrowed
    <3>2. QED
      BY <2>1, <3>1
  <2>3. Signed(expected, Width(type)) \in Int /\ Unsigned(expected, Width(type)) \in Int
    <3> DEFINE w == Width(type)
    <3>1. w \in {1, 2, 4, 8}
      BY <1>1
    <3> HIDE DEF w
    <3>2. Unsigned(expected, w) \in 0..(Modulus(w) - 1) /\ Signed(expected, w) \in Int
      BY <3>1, Casts
    <3>3. QED
      BY <3>2 DEF w
  <2>4. v \in Int
    BY <2>1, <2>3
  <2> HIDE DEF v
  <2>5. Signed(v, b) = Signed(expected, b)
    BY <1>1, <2>2, <2>4, SameApart
  <2>6. QED
    BY <2>4, <2>5
<1> HIDE DEF v, pairs, style
<1>6. Load(p, 0, b) = Signed(expected, b)
  BY <1>1, <1>5, RoundTrip
<1> HIDE DEF p
<1>7. bad = {} <=> \A i \in 0..(num - 1) : Signed(expected, b) = Load(actual, i, b)
  BY <1>4, <1>6
<1>8. outcome.holds <=> bad = {}
  <2>1. bad \subseteq Nat
    BY <1>4
  <2> HIDE DEF bad
  <2>2. QED
    BY <2>1, IntArraysHold
<1> HIDE DEF bad, outcome
<1>9. ASSUME actual # NULL PROVE outcome.holds <=> alike
  <2>1. \A i \in 0..(num - 1) :
          Element(actual, i, type) = value <=> Signed(expected, b) = Load(actual, i, b)
    <3> SUFFICES ASSUME NEW i \in 0..(num - 1)
                 PROVE  Element(actual, i, type) = value
                          <=> Signed(expected, b) = Load(actual, i, b)
      OBVIOUS
    <3> DEFINE m == Load(actual, i, b)
    <3>1. i \in Int /\ \A k \in 1..b : actual.cells[i * b + k] \in Int
      BY <1>9 DEF IsArray
    <3>2. m \in Int /\ Signed(m, b) = m
      <4> HIDE DEF b
      <4>1. QED
        BY <1>1, <3>1, LoadTypes
    <3>3. Element(actual, i, type) = IF type \in SignedTypes THEN m ELSE Unsigned(m, b)
      BY DEF Element
    <3> HIDE DEF m, b
    <3>4. Signed(m, b) = Signed(expected, b) <=> Unsigned(m, b) = Unsigned(expected, b)
      BY <1>1, <3>2, SameApart
    <3>5. QED
      BY <3>2, <3>3, <3>4 DEF m
  <2> HIDE DEF b, value
  <2>2. QED
    BY <1>7, <1>8, <2>1
<1> HIDE DEF alike
<1>10. Arrays(p, actual, num, outcome).holds <=> Compared(p, actual, num, alike)
  BY <1>9, ArraysJudged
<1>11. Compared(p, actual, num, alike) <=> num > 0 /\ actual # NULL /\ alike
  BY <1>3 DEF Compared
<1>12. QED
  BY <1>2, <1>10, <1>11 DEF alike, value

-----------------------------------------------------------------------------
(* What is printed of a number.                                             *)

\* The weights of the digits to a base, and those UnityPrintNumberUnsigned
\* divides by, and one more.
Weights(t, base, n) ==
  /\ t \in [0..n -> Nat \ {0}] /\ t[0] = 1
  /\ \A k \in 1..n : t[k] = base * t[k - 1]
Tens == CHOOSE t : Weights(t, 10, 20)

\* There are as many as are needed.
LEMMA PowersExist == ASSUME NEW n \in Nat PROVE \E t : Weights(t, 10, n)
<1> DEFINE P(m) == \E t : Weights(t, 10, m)
           T == {m \in 0..n : ~P(m)}
<1>1. ASSUME T # {} PROVE FALSE
  <2>1. PICK m \in T : \A k \in T : m <= k
    <3>1. T \subseteq Nat
      OBVIOUS
    <3> HIDE DEF T
    <3>2. QED
      BY <1>1, <3>1, LeastNumber
  <2>2. P(0)
    <3> DEFINE t == [k \in 0..0 |-> 1]
    <3>1. t \in [0..0 -> Nat \ {0}] /\ t[0] = 1
      OBVIOUS
    <3>2. \A k \in 1..0 : t[k] = 10 * t[k - 1]
      OBVIOUS
    <3> HIDE DEF t
    <3>3. QED
      BY <3>1, <3>2 DEF Weights
  <2>3. m \in 1..n /\ ~P(m)
    <3> HIDE DEF P
    <3>1. m # 0
      BY <2>1, <2>2
    <3>2. QED
      BY <2>1, <3>1
  <2>4. P(m - 1)
    <3>1. m - 1 \in 0..n /\ ~(m <= m - 1)
      BY <2>3
    <3> HIDE DEF P
    <3>2. QED
      BY <2>1, <3>1
  <2>5. PICK t : Weights(t, 10, m - 1)
    BY <2>4
  <2> DEFINE u == [k \in 0..m |-> IF k = m THEN 10 * t[m - 1] ELSE t[k]]
  <2>6. \A k \in 0..m : k # m => k \in 0..(m - 1) /\ t[k] \in Nat \ {0}
    BY <2>3, <2>5 DEF Weights
  <2>7. m - 1 \in 0..m /\ m - 1 # m /\ 10 * t[m - 1] \in Nat \ {0}
    BY <2>3, <2>6
  <2>8. \A k \in 0..m : u[k] = IF k = m THEN 10 * t[m - 1] ELSE t[k]
    OBVIOUS
  <2>9. u \in [0..m -> Nat \ {0}]
    BY <2>6, <2>7
  <2> HIDE DEF u
  <2>10. u[0] = 1
    BY <2>3, <2>5, <2>8 DEF Weights
  <2>11. ASSUME NEW k \in 1..m PROVE u[k] = 10 * u[k - 1]
    <3>1. k - 1 \in 0..m /\ k - 1 # m /\ k \in 0..m /\ (k # m => k \in 1..(m - 1))
      BY <2>3
    <3>2. u[k - 1] = t[k - 1] /\ u[k] = IF k = m THEN 10 * t[m - 1] ELSE t[k]
      BY <2>8, <3>1
    <3>3. QED
      BY <2>5, <3>1, <3>2 DEF Weights
  <2>12. P(m)
    BY <2>9, <2>10, <2>11 DEF Weights
  <2>13. QED
    BY <2>3, <2>12
<1>2. n \in 0..n
  OBVIOUS
<1>3. QED
  BY <1>1, <1>2

\* Each is ten times the one before.
LEMMA TensGrow ==
  /\ Tens \in [0..20 -> Nat \ {0}] /\ Tens[0] = 1
  /\ \A k \in 1..20 : Tens[k] = 10 * Tens[k - 1]
<1>1. \E t : Weights(t, 10, 20)
  BY PowersExist
<1>2. Weights(Tens, 10, 20)
  BY <1>1 DEF Tens
<1>3. QED
  BY <1>2 DEF Weights

\* Four digits more are room for thirteen bits more.
RoomFor(n, k) == 2^n <= Tens[k]
LEMMA TensAndBits ==
  ASSUME NEW k \in 0..16, NEW j, j = k + 4, NEW n \in Nat, NEW m, m = n + 13, RoomFor(n, k)
  PROVE  RoomFor(m, j)
<1> DEFINE p == 2^n
           t == Tens[k]
           q == 2^13
<1>1. q = 8192
  BY SMT
<1>2. 2^(n + 13) = p * q
  <2>1. 13 \in Nat
    OBVIOUS
  <2> DEFINE b == 13
  <2> HIDE DEF b
  <2>2. b \in Nat
    BY <2>1 DEF b
  <2>3. 2^(n + b) = 2^n * 2^b
    BY <2>2, PowerSum
  <2>4. QED
    BY <2>3 DEF b
<1>3. Tens[k + 4] = 10000 * t
  <2>1. /\ k + 1 \in 1..20 /\ k + 2 \in 1..20 /\ k + 3 \in 1..20 /\ k + 4 \in 1..20
        /\ (k + 1) - 1 = k /\ (k + 2) - 1 = k + 1 /\ (k + 3) - 1 = k + 2 /\ (k + 4) - 1 = k + 3
    OBVIOUS
  <2>2. /\ Tens[k + 1] = 10 * Tens[k] /\ Tens[k + 2] = 10 * Tens[k + 1]
        /\ Tens[k + 3] = 10 * Tens[k + 2] /\ Tens[k + 4] = 10 * Tens[k + 3]
    BY <2>1, TensGrow
  <2>3. t \in Nat
    BY TensGrow
  <2> HIDE DEF t
  <2>4. QED
    BY <2>2, <2>3 DEF t
<1>4. p \in Nat /\ t \in Nat /\ p <= t
  BY PowerPositive, TensGrow DEF RoomFor
<1> HIDE DEF p, q, t
<1>5. p * q <= 10000 * t
  BY <1>1, <1>4
<1>6. QED
  BY <1>2, <1>3, <1>5 DEF RoomFor

\* A UNITY_UINT has at most twenty digits.
LEMMA LongHasDigits == Modulus(LONG) < Tens[20]
<1>1. \A b \in {2, 4, 6, 8} : b * 8 \in Nat /\ b * 8 <= 64
  OBVIOUS
<1>2. ByteBits * LONG \in Nat /\ ByteBits * LONG <= 64
  BY <1>1, ByteBitsAssumption DEF LONG
<1>3. RoomFor(0, 0)
  <2>1. 2^0 = 1
    BY SMT
  <2>2. QED
    BY <2>1, TensGrow DEF RoomFor
<1>4. RoomFor(13, 4)
  BY <1>3, TensAndBits
<1>5. RoomFor(26, 8)
  BY <1>4, TensAndBits
<1>6. RoomFor(39, 12)
  BY <1>5, TensAndBits
<1>7. RoomFor(52, 16)
  BY <1>6, TensAndBits
<1>8. RoomFor(65, 20)
  BY <1>7, TensAndBits
<1> DEFINE m == ByteBits * LONG
           n == m + 1
           z == 65
<1>9. m \in Nat /\ n \in Nat /\ z \in Nat /\ n <= z
  BY <1>2
<1>10. 2^n <= 2^z
  <2> HIDE DEF n, z
  <2>1. QED
    BY <1>9, PowerMonotone
<1>11. 2^n = 2^m * 2^1 /\ 2^1 = 2 /\ 2^m \in Nat \ {0}
  <2>1. 1 \in Nat
    OBVIOUS
  <2> HIDE DEF m
  <2>2. 2^(m + 1) = 2^m * 2^1
    BY <1>9, <2>1, PowerSum
  <2>3. 2^m \in Nat \ {0}
    BY <1>9, PowerPositive
  <2>4. 2^1 = 2
    BY SMT
  <2>5. QED
    BY <2>2, <2>3, <2>4
<1> DEFINE pm == 2^m
           pn == 2^n
           pz == 2^z
<1>12. Modulus(LONG) = pm /\ pz <= Tens[20]
  BY <1>8 DEF Modulus, RoomFor
<1>13. pn = pm * 2 /\ pm \in Nat \ {0} /\ pn <= pz /\ pz \in Nat
  <2>1. pz \in Nat
    <3> HIDE DEF z
    <3>1. QED
      BY <1>9, PowerPositive
  <2> HIDE DEF m, n, z
  <2>2. QED
    BY <1>10, <1>11, <2>1
<1> HIDE DEF pm, pn, pz, m, n, z
<1>14. Tens[20] \in Nat
  BY TensGrow
<1>15. QED
  BY <1>12, <1>13, <1>14

\* What it prints: as many digits as leave at most one in front of them.
LEMMA UnsignedIs ==
  ASSUME NEW n \in 0..(Modulus(LONG) - 1)
  PROVE  \E w \in 1..20 :
           /\ n \div Tens[w - 1] <= 9
           /\ UnityPrintNumberUnsigned(n)
                = [k \in 1..w |-> Digit((n \div Tens[w - k]) % 10)]
<1> DEFINE Is(g) == g = [k \in 0..19 |-> IF k = 0 THEN 1 ELSE 10 * g[k - 1]]
           v == CHOOSE g : Is(g)
           width == CHOOSE w \in 1..20 : /\ n \div v[w - 1] <= 9
                                         /\ \A u \in 1..(w - 1) : n \div v[u - 1] > 9
           f == [k \in 0..19 |-> Tens[k]]
<1>1. UnityPrintNumberUnsigned(n) = [k \in 1..width |-> Digit((n \div v[width - k]) % 10)]
  BY DEF UnityPrintNumberUnsigned
<1>2. Is(f)
  <2>1. \A k \in 0..19 : k # 0 => k \in 1..20 /\ k - 1 \in 0..19
    OBVIOUS
  <2>2. \A k \in 0..19 : f[k] = IF k = 0 THEN 1 ELSE 10 * f[k - 1]
    BY <2>1, TensGrow
  <2>3. QED
    BY <2>2
<1>3. Is(v)
  <2> HIDE DEF f, Is
  <2>1. QED
    BY <1>2
<1> HIDE DEF v
<1>4. \A k \in 0..19 : v[k] = IF k = 0 THEN 1 ELSE 10 * v[k - 1]
  BY <1>3
<1> DEFINE T == {k \in 0..19 : v[k] # Tens[k]}
<1>5. ASSUME T # {} PROVE FALSE
  <2>1. PICK k \in T : \A j \in T : k <= j
    <3>1. T \subseteq Nat
      OBVIOUS
    <3> HIDE DEF T
    <3>2. QED
      BY <1>5, <3>1, LeastNumber
  <2>2. k # 0
    BY <1>4, <2>1, TensGrow
  <2>3. k \in 1..20 /\ k \in 0..19 /\ k - 1 \in 0..19 /\ k - 1 < k
    BY <2>1, <2>2
  <2>4. k - 1 \notin T
    BY <2>1, <2>3
  <2>5. v[k - 1] = Tens[k - 1]
    BY <2>3, <2>4
  <2>6. v[k] = 10 * Tens[k - 1] /\ Tens[k] = 10 * Tens[k - 1]
    BY <1>4, <2>2, <2>3, <2>5, TensGrow
  <2>7. QED
    BY <2>1, <2>6
<1>6. \A k \in 0..19 : v[k] = Tens[k]
  BY <1>5
<1> DEFINE W == {w \in 1..20 : n \div Tens[w - 1] <= 9}
<1>7. 20 \in W
  <2> DEFINE t == Tens[19]
             q == n \div t
  <2>1. t \in Nat \ {0} /\ Tens[20] = 10 * t /\ n \in Int /\ n < 10 * t
    BY TensGrow, LongHasDigits, ModulusPositive
  <2> HIDE DEF t
  <2>2. n % t \in 0..(t - 1) /\ q \in Int /\ n = t * q + (n % t)
    BY <2>1, Remainder
  <2> HIDE DEF q
  <2>3. ASSUME q >= 10 PROVE FALSE
    <3>1. t * q >= t * 10
      BY <2>1, <2>2, <2>3, SMTT(30)
    <3>2. QED
      BY <2>1, <2>2, <3>1
  <2>4. q <= 9
    BY <2>2, <2>3
  <2>5. QED
    BY <2>4 DEF q, t
<1>8. PICK w \in W : \A u \in W : w <= u
  <2>1. W \subseteq Nat
    OBVIOUS
  <2> HIDE DEF W
  <2>2. QED
    BY <1>7, <2>1, LeastNumber
<1>9. w \in 1..20 /\ n \div v[w - 1] <= 9 /\ \A u \in 1..(w - 1) : n \div v[u - 1] > 9
  <2>1. w \in 1..20 /\ w - 1 \in 0..19 /\ n \div Tens[w - 1] <= 9
    BY <1>8
  <2>2. ASSUME NEW u \in 1..(w - 1) PROVE n \div v[u - 1] > 9
    <3>1. u \in 1..20 /\ u - 1 \in 0..19 /\ ~(w <= u)
      BY <2>1
    <3>2. u \notin W
      BY <1>8, <3>1
    <3>3. ~(n \div Tens[u - 1] <= 9)
      BY <3>1, <3>2
    <3>4. n \div Tens[u - 1] \in Int
      <4> DEFINE t == Tens[u - 1]
      <4>1. t \in Nat \ {0} /\ n \in Int
        BY <3>1, TensGrow
      <4> HIDE DEF t
      <4>2. n \div t \in Int
        BY <4>1, Remainder
      <4>3. QED
        BY <4>2 DEF t
    <3>5. QED
      BY <1>6, <3>1, <3>3, <3>4
  <2>3. QED
    BY <1>6, <2>1, <2>2
<1>10. width \in 1..20 /\ n \div v[width - 1] <= 9
  <2>1. QED
    BY <1>9
<1> HIDE DEF width
<1>11. width - 1 \in 0..19 /\ \A k \in 1..width : width - k \in 0..19
  BY <1>10
<1>12. [k \in 1..width |-> Digit((n \div v[width - k]) % 10)]
         = [k \in 1..width |-> Digit((n \div Tens[width - k]) % 10)]
  BY <1>6, <1>11
<1>13. QED
  BY <1>1, <1>6, <1>10, <1>11, <1>12

\* Two numbers with the same digits below a weight leave the same remainder by
\* it.
DigitsAgree(f, B, w, m, n) == \A j \in 0..(w - 1) : (m \div f[j]) % B = (n \div f[j]) % B
LEMMA SameDigits ==
  ASSUME NEW B \in Nat \ {0}, NEW w \in Nat, NEW f, Weights(f, B, w),
         NEW m \in Int, NEW n \in Int, DigitsAgree(f, B, w, m, n)
  PROVE  m % f[w] = n % f[w]
<1> USE DEF Weights, DigitsAgree
<1> DEFINE T == {k \in 0..w : m % f[k] # n % f[k]}
<1>1. ASSUME T # {} PROVE FALSE
  <2>1. PICK k \in T : \A j \in T : k <= j
    <3>1. T \subseteq Nat
      OBVIOUS
    <3> HIDE DEF T
    <3>2. QED
      BY <1>1, <3>1, LeastNumber
  <2>2. k # 0
    <3>1. m % 1 \in 0..0 /\ n % 1 \in 0..0
      BY Remainder
    <3>2. m % 1 = n % 1
      BY <3>1
    <3>3. QED
      BY <2>1, <3>2
  <2>3. k \in 1..w /\ k - 1 \in 0..w /\ k - 1 \in 0..(w - 1) /\ k - 1 < k
    BY <2>1, <2>2
  <2>4. k - 1 \notin T
    BY <2>1, <2>3
  <2> DEFINE A == f[k - 1]
  <2>5. A \in Nat \ {0} /\ f[k] = B * A
    BY <2>3
  <2>6. m % A = n % A /\ (m \div A) % B = (n \div A) % B
    BY <2>3, <2>4
  <2> HIDE DEF A
  <2>7. A * B = B * A
    BY <2>5
  <2>8. /\ m % (A * B) = (m % A) + (((m \div A) % B) * A)
        /\ n % (A * B) = (n % A) + (((n \div A) % B) * A)
    BY <2>5, ByProduct
  <2>9. m % f[k] = n % f[k]
    BY <2>5, <2>6, <2>7, <2>8
  <2>10. QED
    BY <2>1, <2>9
<1>2. w \in 0..w
  OBVIOUS
<1>3. T = {}
  BY <1>1
<1>4. m % f[w] = n % f[w]
  BY <1>2, <1>3
<1>5. QED
  BY <1>4

\* Each digit has a character of its own, and none is "-".
LEMMA DigitsApart ==
  /\ \A d, e \in 0..15 : Digit(d) = Digit(e) => d = e
  /\ \A d \in 0..15 : Digit(d) \notin {"-", "\\"}
<1>1. \A d \in 0..15 : d \in {0, 1, 2, 3, 4, 5, 6, 7, 8, 9, 10, 11, 12, 13, 14, 15}
  OBVIOUS
<1>2. /\ Digit(0) = "0" /\ Digit(1) = "1" /\ Digit(2) = "2" /\ Digit(3) = "3"
      /\ Digit(4) = "4" /\ Digit(5) = "5" /\ Digit(6) = "6" /\ Digit(7) = "7"
      /\ Digit(8) = "8" /\ Digit(9) = "9" /\ Digit(10) = "A" /\ Digit(11) = "B"
      /\ Digit(12) = "C" /\ Digit(13) = "D" /\ Digit(14) = "E" /\ Digit(15) = "F"
  BY DEF Digit
<1>3. QED
  BY <1>1, <1>2

\* Two numbers of UNITY_UINT are printed alike only if they are one, and the
\* text begins with a digit.
LEMMA UnsignedShown ==
  ASSUME NEW m \in 0..(Modulus(LONG) - 1), NEW n \in 0..(Modulus(LONG) - 1)
  PROVE  /\ UnityPrintNumberUnsigned(m) = UnityPrintNumberUnsigned(n) => m = n
         /\ UnityPrintNumberUnsigned(m)[1] # "-"
<1>1. PICK w \in 1..20 : /\ m \div Tens[w - 1] <= 9
                         /\ UnityPrintNumberUnsigned(m)
                              = [k \in 1..w |-> Digit((m \div Tens[w - k]) % 10)]
  BY UnsignedIs
<1>2. PICK v \in 1..20 : /\ n \div Tens[v - 1] <= 9
                         /\ UnityPrintNumberUnsigned(n)
                              = [k \in 1..v |-> Digit((n \div Tens[v - k]) % 10)]
  BY UnsignedIs
<1> DEFINE s == [k \in 1..w |-> Digit((m \div Tens[w - k]) % 10)]
           t == [k \in 1..v |-> Digit((n \div Tens[v - k]) % 10)]
<1>3. m \in Nat /\ n \in Nat
  BY ModulusPositive
<1>4. ASSUME NEW j \in 0..20, NEW x \in Nat
      PROVE  x \div Tens[j] \in Int /\ (x \div Tens[j]) % 10 \in 0..9
  <2> DEFINE d == Tens[j]
             q == x \div d
  <2>1. d \in Nat \ {0}
    BY TensGrow
  <2> HIDE DEF d
  <2>2. q \in Int
    BY <2>1, Remainder
  <2> HIDE DEF q
  <2>3. q % 10 \in 0..9
    BY <2>2
  <2>4. QED
    BY <2>2, <2>3 DEF q, d
<1>5. s[1] # "-"
  <2>1. 1 \in 1..w /\ w - 1 \in 0..20
    OBVIOUS
  <2>2. (m \div Tens[w - 1]) % 10 \in 0..15
    BY <1>3, <1>4, <2>1
  <2>3. s[1] = Digit((m \div Tens[w - 1]) % 10)
    BY <2>1
  <2> HIDE DEF s
  <2>4. QED
    BY <2>2, <2>3, DigitsApart
<1>6. ASSUME s = t PROVE m = n
  <2>1. w = v
    <3>1. DOMAIN s = 1..w /\ DOMAIN t = 1..v
      OBVIOUS
    <3> HIDE DEF s, t
    <3>2. 1..w = 1..v
      BY <1>6, <3>1
    <3>3. w \in 1..v /\ v \in 1..w
      BY <3>2
    <3>4. QED
      BY <3>3
  <2>2. ASSUME NEW j \in 0..(w - 1) PROVE (m \div Tens[j]) % 10 = (n \div Tens[j]) % 10
    <3> DEFINE d == (m \div Tens[j]) % 10
               e == (n \div Tens[j]) % 10
    <3>1. j \in 0..20 /\ w - j \in 1..w /\ w - (w - j) = j
      OBVIOUS
    <3>2. s[w - j] = Digit(d) /\ t[w - j] = Digit(e)
      BY <2>1, <3>1
    <3>3. d \in 0..15 /\ e \in 0..15
      BY <1>3, <1>4, <3>1
    <3> HIDE DEF d, e, s, t
    <3>4. d = e
      BY <1>6, <3>2, <3>3, DigitsApart
    <3>5. QED
      BY <3>4 DEF d, e
  <2> DEFINE f == [k \in 0..w |-> Tens[k]]
  <2>3. Weights(f, 10, w)
    <3>1. \A k \in 0..w : k \in 0..20 /\ Tens[k] \in Nat \ {0}
      BY TensGrow
    <3>2. f \in [0..w -> Nat \ {0}]
      BY <3>1
    <3>3. f[0] = 1
      BY TensGrow
    <3>4. ASSUME NEW k \in 1..w PROVE f[k] = 10 * f[k - 1]
      <4>1. k \in 0..w /\ k - 1 \in 0..w /\ k \in 1..20
        OBVIOUS
      <4>2. f[k] = Tens[k] /\ f[k - 1] = Tens[k - 1]
        BY <4>1
      <4>3. QED
        BY <4>1, <4>2, TensGrow
    <3> HIDE DEF f
    <3>5. QED
      BY <3>2, <3>3, <3>4 DEF Weights
  <2>4. f[w] = Tens[w] /\ \A j \in 0..(w - 1) : f[j] = Tens[j]
    OBVIOUS
  <2> HIDE DEF f
  <2>5. DigitsAgree(f, 10, w, m, n)
    BY <2>2, <2>4 DEF DigitsAgree
  <2>6. m % f[w] = n % f[w]
    <3>1. w \in Nat /\ 10 \in Nat \ {0} /\ m \in Int /\ n \in Int
      BY <1>3
    <3>2. QED
      BY <2>3, <2>5, <3>1, SameDigits
  <2>7. ASSUME NEW x \in Nat, x \div Tens[w - 1] <= 9 PROVE x % Tens[w] = x
    <3> DEFINE d == Tens[w - 1]
               q == x \div d
    <3>1. d \in Nat \ {0} /\ Tens[w] = 10 * d /\ x \in Int
      BY TensGrow
    <3> HIDE DEF d
    <3>2. x % d \in 0..(d - 1) /\ q \in Int /\ x = d * q + (x % d)
      BY <3>1, Remainder
    <3>3. q <= 9
      BY <2>7 DEF d
    <3> HIDE DEF q
    <3>4. d * q <= d * 9
      BY <3>1, <3>2, <3>3, SMTT(30)
    <3>5. x \in 0..(10 * d - 1) /\ 10 * d \in Nat \ {0}
      BY <3>1, <3>2, <3>4
    <3>6. QED
      BY <3>1, <3>5, OwnRemainder
  <2>8. m % Tens[w] = m /\ n % Tens[w] = n
    BY <1>1, <1>2, <1>3, <2>1, <2>7
  <2>9. QED
    BY <2>4, <2>6, <2>8
<1>7. QED
  BY <1>1, <1>2, <1>5, <1>6

\* With two nibbles a byte, numbers are printed alike only if their bytes are
\* the same.
LEMMA HexShown ==
  ASSUME NEW b \in {1, 2, 4, 8}, NEW m \in Nat, NEW n \in Nat,
         UnityPrintNumberHex(m, 2 * b) = UnityPrintNumberHex(n, 2 * b)
  PROVE  m % Modulus(b) = n % Modulus(b)
<1> DEFINE h == ByteBits \div 2
           w == 2 * b
           B == 2^h
           f == [j \in 0..w |-> 2^(h * j)]
<1>1. h \in 1..4 /\ ByteBits = 2 * h /\ w \in Nat
  BY ByteBitsAssumption
<1>2. UnityPrintNumberHex(m, w) = [k \in 1..w |-> Digit((m \div 2^(h * (w - k))) % B)]
  BY DEF UnityPrintNumberHex
<1>3. UnityPrintNumberHex(n, w) = [k \in 1..w |-> Digit((n \div 2^(h * (w - k))) % B)]
  BY DEF UnityPrintNumberHex
<1>4. 2^(h * w) = Modulus(b)
  <2>1. h * w = ByteBits * b
    BY <1>1
  <2>2. QED
    BY <2>1 DEF Modulus
<1> HIDE DEF h, w
<1>5. B \in Nat \ {0} /\ B <= 16
  <2>1. 2^h <= 2^4 /\ 2^h \in Nat \ {0}
    <3>1. h \in Nat /\ h <= 4 /\ 4 \in Nat
      BY <1>1
    <3>2. QED
      BY <3>1, PowerMonotone, PowerPositive
  <2>2. 2^4 = 16
    BY SMT
  <2>3. QED
    BY <2>1, <2>2
<1>6. f[0] = 1
  <2>1. h * 0 = ByteBits * 0
    BY <1>1, ByteBitsAssumption
  <2>2. f[0] = 2^(h * 0)
    BY <1>1
  <2>3. QED
    BY <2>1, <2>2, ModulusOfNothing DEF Modulus
<1>7. ASSUME NEW j \in 0..w PROVE h * j \in Nat /\ 2^(h * j) \in Nat \ {0}
  <2>1. h * j \in Nat
    BY <1>1
  <2>2. QED
    BY <2>1, PowerPositive
<1>8. f \in [0..w -> Nat \ {0}]
  BY <1>7
<1>9. ASSUME NEW k \in 1..w PROVE f[k] = B * f[k - 1]
  <2>1. k \in 0..w /\ k - 1 \in 0..w /\ h \in Nat /\ h * k = h + h * (k - 1)
    BY <1>1
  <2>2. 2^(h + h * (k - 1)) = 2^h * 2^(h * (k - 1))
    BY <1>7, <2>1, PowerSum
  <2>3. QED
    BY <2>1, <2>2
<1>10. ASSUME NEW j \in 0..(w - 1) PROVE (m \div f[j]) % B = (n \div f[j]) % B
  <2> DEFINE g == 2^(h * j)
             p == m \div g
             q == n \div g
             d == p % B
             e == q % B
  <2>1. j \in 0..w /\ w - j \in 1..w /\ w - (w - j) = j
    BY <1>1
  <2>2. f[j] = g /\ g \in Nat \ {0}
    BY <1>7, <2>1
  <2>3. Digit(d) = Digit(e)
    <3>1. UnityPrintNumberHex(m, w)[w - j] = Digit(d)
      BY <1>2, <2>1
    <3>2. UnityPrintNumberHex(n, w)[w - j] = Digit(e)
      BY <1>3, <2>1
    <3>3. QED
      BY <3>1, <3>2 DEF w
  <2> HIDE DEF g, B, f
  <2>4. p \in Int /\ q \in Int
    BY <2>2, Remainder
  <2> HIDE DEF p, q
  <2>5. d \in 0..(B - 1) /\ e \in 0..(B - 1)
    BY <1>5, <2>4, Remainder
  <2> HIDE DEF d, e
  <2>6. d \in 0..15 /\ e \in 0..15
    BY <1>5, <2>5
  <2>7. d = e
    BY <2>3, <2>6, DigitsApart
  <2>8. QED
    BY <2>2, <2>7 DEF d, e, p, q
<1>11. m % f[w] = n % f[w]
  <2> HIDE DEF B, f
  <2>1. m \in Int /\ n \in Int
    OBVIOUS
  <2>2. Weights(f, B, w)
    BY <1>6, <1>8, <1>9 DEF Weights
  <2>3. DigitsAgree(f, B, w, m, n)
    BY <1>10 DEF DigitsAgree
  <2>4. w \in Nat /\ B \in Nat \ {0}
    BY <1>1, <1>5
  <2>5. QED
    BY <2>1, <2>2, <2>3, <2>4, SameDigits
<1>12. f[w] = Modulus(b)
  BY <1>1, <1>4
<1>13. QED
  BY <1>11, <1>12

\* What is put in front of and behind two texts does not make them one.
LEMMA Framed ==
  ASSUME NEW S, NEW p \in Seq(S), NEW q \in Seq(S), NEW s \in Seq(S), NEW t \in Seq(S),
         p \o s \o q = p \o t \o q
  PROVE  s = t
<1>1. /\ p \o s \in Seq(S) /\ Len(p \o s) = Len(p) + Len(s)
      /\ \A k \in 1..Len(s) : (p \o s)[Len(p) + k] = s[k]
  OBVIOUS
<1>2. /\ p \o t \in Seq(S) /\ Len(p \o t) = Len(p) + Len(t)
      /\ \A k \in 1..Len(t) : (p \o t)[Len(p) + k] = t[k]
  OBVIOUS
<1> DEFINE ps == p \o s
           pt == p \o t
<1> HIDE DEF ps, pt
<1>3. /\ ps \in Seq(S) /\ Len(ps) = Len(p) + Len(s) /\ \A k \in 1..Len(s) : ps[Len(p) + k] = s[k]
      /\ pt \in Seq(S) /\ Len(pt) = Len(p) + Len(t) /\ \A k \in 1..Len(t) : pt[Len(p) + k] = t[k]
      /\ ps \o q = pt \o q
  BY <1>1, <1>2 DEF ps, pt
<1>4. Len(ps \o q) = Len(ps) + Len(q) /\ Len(pt \o q) = Len(pt) + Len(q)
  BY <1>3
<1>5. Len(s) \in Nat /\ Len(t) \in Nat /\ Len(p) \in Nat /\ Len(q) \in Nat
      /\ Len(ps) \in Nat /\ Len(pt) \in Nat
  BY <1>3
<1>6. Len(s) = Len(t)
  BY <1>3, <1>4, <1>5
<1>7. \A k \in 1..Len(ps) : (ps \o q)[k] = ps[k]
  BY <1>3
<1>8. \A k \in 1..Len(pt) : (pt \o q)[k] = pt[k]
  BY <1>3
<1>9. ASSUME NEW k \in 1..Len(s) PROVE s[k] = t[k]
  <2>1. Len(p) + k \in 1..Len(ps) /\ Len(p) + k \in 1..Len(pt) /\ k \in 1..Len(t)
    BY <1>3, <1>5, <1>6
  <2>2. (ps \o q)[Len(p) + k] = s[k]
    BY <1>3, <1>7, <2>1
  <2>3. (pt \o q)[Len(p) + k] = t[k]
    BY <1>3, <1>8, <2>1
  <2>4. QED
    BY <1>3, <2>2, <2>3
<1>10. QED
  BY <1>6, <1>9, SeqEqual

\* A sequence over a set is one over a larger set.
LEMMA SeqWider == ASSUME NEW S, NEW T, S \subseteq T, NEW p \in Seq(S) PROVE p \in Seq(T)
<1>1. p = [k \in 1..Len(p) |-> p[k]] /\ Len(p) \in Nat /\ \A k \in 1..Len(p) : p[k] \in T
  OBVIOUS
<1>2. p \in [1..Len(p) -> T]
  BY <1>1
<1>3. QED
  BY <1>1, <1>2

\* What is printed of a number by nibbles, between two pieces of text.
LEMMA HexFramed ==
  ASSUME NEW w \in Nat, NEW m, NEW n,
         NEW T, NEW p \in Seq(T), NEW q \in Seq(T),
         p \o UnityPrintNumberHex(m, w) \o q = p \o UnityPrintNumberHex(n, w) \o q
  PROVE  UnityPrintNumberHex(m, w) = UnityPrintNumberHex(n, w)
<1> DEFINE s == UnityPrintNumberHex(m, w)
           t == UnityPrintNumberHex(n, w)
           S == T \union {s[k] : k \in 1..w} \union {t[k] : k \in 1..w}
<1>1. s \in Seq(S) /\ t \in Seq(S)
  <2>1. s = [k \in 1..w |-> s[k]] /\ t = [k \in 1..w |-> t[k]]
    BY DEF UnityPrintNumberHex
  <2> HIDE DEF s, t
  <2>2. s \in [1..w -> S] /\ t \in [1..w -> S]
    BY <2>1
  <2> HIDE DEF S
  <2>3. QED
    BY <2>2
<1>2. p \in Seq(S) /\ q \in Seq(S)
  <2>1. T \subseteq S
    OBVIOUS
  <2> HIDE DEF S
  <2>2. QED
    BY <2>1, SeqWider
<1>3. s = t
  <2> HIDE DEF S
  <2>1. QED
    BY <1>1, <1>2, Framed
<1>4. QED
  BY <1>3

\* Two integers less than 2^64 from 0 are printed alike only if they are one.
LEMMA IntShown ==
  ASSUME NEW m \in Int, NEW n \in Int, -Modulus(LONG) < m, m < Modulus(LONG),
         -Modulus(LONG) < n, n < Modulus(LONG),
         UnityPrintNumber(m) = UnityPrintNumber(n)
  PROVE  m = n
<1> DEFINE L == Modulus(LONG)
           text(x) == UnityPrintNumberUnsigned(x)
           minus(x) == <<"-">> \o text(Unsigned(-x, LONG))
<1>1. L \in Nat \ {0}
  BY ModulusPositive
<1>2. /\ UnityPrintNumber(m) = IF m < 0 THEN minus(m) ELSE text(m)
      /\ UnityPrintNumber(n) = IF n < 0 THEN minus(n) ELSE text(n)
  BY DEF UnityPrintNumber
<1>3. ASSUME NEW x \in Int, -L < x, x < L
      PROVE  /\ x < 0 => Unsigned(-x, LONG) = -x /\ -x \in 0..(L - 1)
             /\ x >= 0 => x \in 0..(L - 1)
  <2> HIDE DEF L
  <2>1. x < 0 => -x \in 0..(L - 1)
    BY <1>1, <1>3
  <2>2. x < 0 => (-x) % L = -x
    BY <1>1, <2>1, OwnRemainder
  <2>3. x >= 0 => x \in 0..(L - 1)
    BY <1>1, <1>3
  <2>4. QED
    BY <2>1, <2>2, <2>3 DEF Unsigned, L
<1>4. ASSUME NEW x \in 0..(L - 1)
      PROVE  \E S : text(x) \in Seq(S) /\ "-" \in S
  <2>1. PICK w \in 1..20 : text(x) = [k \in 1..w |-> Digit((x \div Tens[w - k]) % 10)]
    BY UnsignedIs
  <2> DEFINE S == {"-"} \union {text(x)[k] : k \in 1..w}
  <2>2. text(x) \in [1..w -> S]
    <3>1. text(x) = [k \in 1..w |-> text(x)[k]]
      BY <2>1
    <3> HIDE DEF text
    <3>2. QED
      BY <3>1
  <2> HIDE DEF S, text
  <2>3. text(x) \in Seq(S)
    BY <2>2
  <2>4. "-" \in S
    BY DEF S
  <2>5. QED
    BY <2>3, <2>4
<1>5. ASSUME NEW x \in Int, NEW y \in Int, x < 0, -L < x, y >= 0, y < L
      PROVE  minus(x) # text(y)
  <2>1. y \in 0..(L - 1) /\ -x \in 0..(L - 1) /\ minus(x) = <<"-">> \o text(-x)
    BY <1>1, <1>3, <1>5
  <2>2. text(y)[1] # "-"
    BY <2>1, UnsignedShown
  <2>3. PICK S : text(-x) \in Seq(S) /\ "-" \in S
    BY <1>4, <2>1
  <2> HIDE DEF text, L
  <2>4. (<<"-">> \o text(-x))[1] = "-"
    BY <2>3
  <2> HIDE DEF minus
  <2>5. QED
    BY <2>1, <2>2, <2>4
<1>6. CASE m < 0 /\ n < 0
  <2>1. /\ -m \in 0..(L - 1) /\ -n \in 0..(L - 1)
        /\ minus(m) = <<"-">> \o text(-m) /\ minus(n) = <<"-">> \o text(-n)
    BY <1>3, <1>6
  <2>2. PICK S : text(-m) \in Seq(S) /\ "-" \in S
    BY <1>4, <2>1
  <2>3. PICK R : text(-n) \in Seq(R) /\ "-" \in R
    BY <1>4, <2>1
  <2> DEFINE s == text(-m)
             t == text(-n)
             U == S \union R
  <2>4. <<"-">> \o s = <<"-">> \o t
    BY <1>2, <1>6, <2>1
  <2> HIDE DEF s, t, minus, text, L
  <2>5. s \in Seq(S) /\ t \in Seq(R) /\ S \subseteq U /\ R \subseteq U /\ "-" \in U
    BY <2>2, <2>3 DEF s, t
  <2> HIDE DEF U
  <2>6. s \in Seq(U) /\ t \in Seq(U) /\ <<"-">> \in Seq(U)
    BY <2>5
  <2>7. Len(s) = Len(t)
    <3>1. Len(<<"-">> \o s) = 1 + Len(s) /\ Len(<<"-">> \o t) = 1 + Len(t)
      BY <2>6
    <3>2. QED
      BY <2>4, <2>6, <3>1
  <2>8. ASSUME NEW k \in 1..Len(s) PROVE s[k] = t[k]
    <3>1. (<<"-">> \o s)[k + 1] = s[k]
      BY <2>6
    <3>2. (<<"-">> \o t)[k + 1] = t[k]
      BY <2>6, <2>7
    <3>3. QED
      BY <2>4, <3>1, <3>2
  <2>9. s = t
    BY <2>6, <2>7, <2>8, SeqEqual
  <2>10. -m = -n
    BY <2>1, <2>9, UnsignedShown DEF s, t, text, L
  <2>11. QED
    BY <2>10
<1>7. CASE m >= 0 /\ n >= 0
  <2>1. m \in 0..(L - 1) /\ n \in 0..(L - 1)
    BY <1>3, <1>7
  <2>2. text(m) = text(n)
    <3> HIDE DEF text, minus
    <3>1. ~(m < 0) /\ ~(n < 0)
      BY <1>7
    <3>2. QED
      BY <1>2, <3>1
  <2>3. QED
    BY <2>1, <2>2, UnsignedShown
<1>8. CASE m < 0 /\ n >= 0
  <2>1. minus(m) # text(n)
    BY <1>5, <1>8
  <2> HIDE DEF text, minus
  <2>2. m < 0 /\ ~(n < 0)
    BY <1>8
  <2>3. QED
    BY <1>2, <2>1, <2>2
<1>9. CASE m >= 0 /\ n < 0
  <2>1. minus(n) # text(m)
    BY <1>5, <1>9
  <2> HIDE DEF text, minus
  <2>2. ~(m < 0) /\ n < 0
    BY <1>9
  <2>3. QED
    BY <1>2, <2>1, <2>2
<1>10. QED
  BY <1>6, <1>7, <1>8, <1>9

-----------------------------------------------------------------------------
(* What an assertion on integers prints of two that differ.                 *)

\* Two numbers of one size in the same reading.
OfOneSize(m, n, w) ==
  \E x, y \in Int : \/ m = Signed(x, w) /\ n = Signed(y, w)
                    \/ m = Unsigned(x, w) /\ n = Unsigned(y, w)

\* They are less than a UNITY_UINT apart from 0, and their bytes of that size tell
\* them apart.
LEMMA OneSizeFacts ==
  ASSUME NEW w \in {1, 2, 4, 8}, NEW m, NEW n, OfOneSize(m, n, w)
  PROVE  /\ m \in Int /\ n \in Int
         /\ -Modulus(LONG) < m /\ m < Modulus(LONG) /\ -Modulus(LONG) < n /\ n < Modulus(LONG)
         /\ m # n => Unsigned(m, w) # Unsigned(n, w)
<1> DEFINE M == Modulus(w)
           L == Modulus(LONG)
<1>1. M \in Nat \ {0} /\ L \in Nat \ {0} /\ M <= L
  BY Moduli DEF LONG
<1>2. ASSUME NEW x \in Int
      PROVE  /\ Unsigned(x, w) \in 0..(M - 1) /\ Unsigned(Unsigned(x, w), w) = Unsigned(x, w)
             /\ Signed(x, w) \in Int /\ -M <= 2 * Signed(x, w) /\ 2 * Signed(x, w) < M
             /\ Unsigned(Signed(x, w), w) = Unsigned(x, w)
  <2>1. Unsigned(x, w) \in 0..(M - 1)
    BY Casts
  <2>2. Unsigned(Unsigned(x, w), w) = Unsigned(x, w)
    BY <2>1, Widened
  <2>3. QED
    BY <2>1, <2>2, Casts
<1>3. PICK x \in Int, y \in Int : \/ m = Signed(x, w) /\ n = Signed(y, w)
                                  \/ m = Unsigned(x, w) /\ n = Unsigned(y, w)
  BY DEF OfOneSize
<1>4. m # n => Unsigned(m, w) # Unsigned(n, w)
  <2>1. Signed(x, w) = Signed(y, w) <=> Unsigned(x, w) = Unsigned(y, w)
    BY SameApart
  <2>2. /\ Unsigned(Unsigned(x, w), w) = Unsigned(x, w) /\ Unsigned(Signed(x, w), w) = Unsigned(x, w)
        /\ Unsigned(Unsigned(y, w), w) = Unsigned(y, w) /\ Unsigned(Signed(y, w), w) = Unsigned(y, w)
    BY <1>2
  <2>3. QED
    BY <1>3, <2>1, <2>2
<1> DEFINE sx == Signed(x, w)
           sy == Signed(y, w)
           ux == Unsigned(x, w)
           uy == Unsigned(y, w)
<1>5. /\ ux \in 0..(M - 1) /\ sx \in Int /\ -M <= 2 * sx /\ 2 * sx < M
      /\ uy \in 0..(M - 1) /\ sy \in Int /\ -M <= 2 * sy /\ 2 * sy < M
  BY <1>2
<1>6. (m = sx /\ n = sy) \/ (m = ux /\ n = uy)
  BY <1>3
<1> HIDE DEF sx, sy, ux, uy, M, L
<1>7. m \in Int /\ n \in Int /\ -L < m /\ m < L /\ -L < n /\ n < L
  BY <1>1, <1>5, <1>6
<1>8. QED
  BY <1>4, <1>7 DEF L

\* Two different numbers of one size are printed differently, in whatever style
\* shows all their bytes (unity.c UnityPrintNumberByStyle).
LEMMA NumberShown ==
  ASSUME NEW style, style.range \in {"INT", "CHAR", "UINT", "HEX"},
         NEW w \in {1, 2, 4, 8}, style.range = "CHAR" => w = 1,
         style.range = "HEX" => style.bytes = w,
         NEW m, NEW n, OfOneSize(m, n, w), m # n
  PROVE  UnityPrintNumberByStyle(m, style) # UnityPrintNumberByStyle(n, style)
<1> DEFINE u == Unsigned(m, LONG)
           v == Unsigned(n, LONG)
           M == Modulus(w)
<1>1. /\ m \in Int /\ n \in Int
      /\ -Modulus(LONG) < m /\ m < Modulus(LONG) /\ -Modulus(LONG) < n /\ n < Modulus(LONG)
      /\ Unsigned(m, w) # Unsigned(n, w)
  BY OneSizeFacts
<1>2. u \in 0..(Modulus(LONG) - 1) /\ v \in 0..(Modulus(LONG) - 1)
  BY <1>1, Casts DEF LONG
<1>3. u \in Nat /\ v \in Nat
  BY <1>2, ModulusPositive
<1>4. u % M # v % M
  <2>1. Unsigned(u, w) = Unsigned(m, w) /\ Unsigned(v, w) = Unsigned(n, w)
    BY <1>1, Narrowed DEF LONG
  <2>2. QED
    BY <1>1, <2>1 DEF Unsigned
<1> HIDE DEF u, v, M
<1>5. CASE style.range = "CHAR"
  <2>1. w = 1 /\ 2 * w = 2
    BY <1>5
  <2>2. /\ UnityPrintNumberByStyle(m, style) = <<"'">> \o UnityPrintNumberHex(u, 2 * w) \o <<"'">>
        /\ UnityPrintNumberByStyle(n, style) = <<"'">> \o UnityPrintNumberHex(v, 2 * w) \o <<"'">>
    BY <1>5, <2>1 DEF UnityPrintNumberByStyle, u, v
  <2>3. <<"'">> \in Seq({"'"})
    OBVIOUS
  <2> DEFINE p == <<"'">>
  <2> HIDE DEF p
  <2>4. ASSUME p \o UnityPrintNumberHex(u, 2 * w) \o p = p \o UnityPrintNumberHex(v, 2 * w) \o p
        PROVE  FALSE
    <3>1. p \in Seq({"'"})
      BY <2>3 DEF p
    <3> DEFINE k == 2 * w
    <3>2. k \in Nat
      OBVIOUS
    <3> HIDE DEF k
    <3>3. UnityPrintNumberHex(u, k) = UnityPrintNumberHex(v, k)
      BY <2>4, <3>1, <3>2, HexFramed DEF k
    <3>4. QED
      BY <1>3, <1>4, <3>3, HexShown DEF M, k
  <2>5. QED
    BY <2>2, <2>4 DEF p
<1>6. CASE style.range = "HEX"
  <2> DEFINE p == <<"0", "x">>
             s == UnityPrintNumberHex(u, 2 * w)
             t == UnityPrintNumberHex(v, 2 * w)
  <2>1. /\ UnityPrintNumberByStyle(m, style) = p \o s
        /\ UnityPrintNumberByStyle(n, style) = p \o t
    BY <1>6 DEF UnityPrintNumberByStyle, u, v
  <2>2. p \in Seq({"0", "x"}) /\ <<>> \in Seq({"0", "x"})
    OBVIOUS
  <2> DEFINE q == <<>>
  <2> HIDE DEF p, q
  <2>3. ASSUME p \o UnityPrintNumberHex(u, 2 * w) \o q = p \o UnityPrintNumberHex(v, 2 * w) \o q
        PROVE  FALSE
    <3>1. q \in Seq({"0", "x"})
      BY <2>2 DEF q
    <3> DEFINE k == 2 * w
    <3>2. k \in Nat
      OBVIOUS
    <3> HIDE DEF k
    <3>3. UnityPrintNumberHex(u, k) = UnityPrintNumberHex(v, k)
      BY <2>2, <2>3, <3>1, <3>2, HexFramed DEF k
    <3>4. QED
      BY <1>3, <1>4, <3>3, HexShown DEF M, k
  <2>4. QED
    BY <2>1, <2>3
<1>7. CASE style.range = "UINT"
  <2>1. /\ UnityPrintNumberByStyle(m, style) = UnityPrintNumberUnsigned(u)
        /\ UnityPrintNumberByStyle(n, style) = UnityPrintNumberUnsigned(v)
    BY <1>7 DEF UnityPrintNumberByStyle, u, v
  <2>2. QED
    BY <1>2, <1>4, <2>1, UnsignedShown
<1>8. CASE style.range = "INT"
  <2>1. /\ UnityPrintNumberByStyle(m, style) = UnityPrintNumber(m)
        /\ UnityPrintNumberByStyle(n, style) = UnityPrintNumber(n)
    BY <1>8 DEF UnityPrintNumberByStyle
  <2>2. QED
    BY <1>1, <2>1, IntShown
<1>9. QED
  BY <1>5, <1>6, <1>7, <1>8

\* A report that shows a mismatch where there is one to show.
ShowsMismatch(outcome) ==
  ~outcome.holds =>
    \/ outcome.report.what \notin {"number", "memory", "string"}
    \/ outcome.report.expected # outcome.report.actual
    \/ Contains(outcome.report.expected, "\\")

\* TEST_ASSERT_EQUAL_ and TEST_ASSERT_WITHIN of all integer types.
LEMMA CastsShown ==
  ASSUME NEW type \in IntegerTypes, NEW unsigned, NEW x \in Int, NEW y \in Int,
         Cast(x, type, unsigned) # Cast(y, type, unsigned)
  PROVE  UnityPrintNumberByStyle(Cast(x, type, unsigned), StyleOf(type))
           # UnityPrintNumberByStyle(Cast(y, type, unsigned), StyleOf(type))
<1> DEFINE w == Width(type)
           style == StyleOf(type)
           m == Cast(x, type, unsigned)
           n == Cast(y, type, unsigned)
<1>1. /\ w \in {1, 2, 4, 8} /\ style.range \in {"INT", "CHAR", "UINT", "HEX"}
      /\ style.range = "CHAR" => w = 1
      /\ style.range = "HEX" => style.bytes = w
  <2>1. w \in {1, 2, 4, 8} /\ style.range \in {"INT", "CHAR", "UINT", "HEX"}
    BY TypeFacts
  <2>2. /\ style.range = "CHAR" => w = 1
        /\ style.range = "HEX" => style.bytes = w
    BY DEF IntegerTypes, Width, SizeOf, StyleOf, MacroType, UNITY_DISPLAY_STYLE_T, LONG, INT
  <2>3. QED
    BY <2>1, <2>2
<1>2. OfOneSize(m, n, w)
  <2>1. (m = Signed(x, w) /\ n = Signed(y, w)) \/ (m = Unsigned(x, w) /\ n = Unsigned(y, w))
    BY CastIs
  <2>2. QED
    BY <2>1 DEF OfOneSize
<1>3. m # n
  OBVIOUS
<1> HIDE DEF w, style, m, n
<1>4. UnityPrintNumberByStyle(m, style) # UnityPrintNumberByStyle(n, style)
  BY <1>1, <1>2, <1>3, NumberShown
<1>5. QED
  BY <1>4 DEF m, n, style

\* TEST_ASSERT_EQUAL_ of all integer types (unity.c UnityAssertEqualNumber).
LEMMA EqualShown ==
  ASSUME NEW type \in IntegerTypes, NEW x \in Int, NEW y \in Int
  PROVE  ShowsMismatch(TEST_ASSERT_EQUAL(type, x, y))
<1> DEFINE m == Cast(x, type, {"UINT"})
           n == Cast(y, type, {"UINT"})
           s == UnityPrintNumberByStyle(m, StyleOf(type))
           t == UnityPrintNumberByStyle(n, StyleOf(type))
<1>1. TEST_ASSERT_EQUAL(type, x, y) = IF m = n THEN Holds ELSE Fails("number", <<>>, s, t)
  BY DEF TEST_ASSERT_EQUAL, UnityAssertEqualNumber
<1>2. m # n => s # t
  BY CastsShown
<1> HIDE DEF m, n, s, t
<1>3. QED
  BY <1>1, <1>2 DEF ShowsMismatch, Holds, Fails

\* The bound a macro makes of a delta is none below 0, and equal numbers are 0
\* apart.
LEMMA TooFarApart ==
  ASSUME NEW delta \in Int, delta >= 0, NEW n \in Int, NEW style
  PROVE  ~TooFar(delta, n, n, style)
<1> DEFINE d == Unsigned(n, LONG)
<1>1. d \in Int
  BY Casts, ModulusPositive DEF LONG
<1>2. Unsigned(d - d, LONG) = 0
  <2>1. d - d = 0
    BY <1>1
  <2>2. 0 % Modulus(LONG) = 0
    BY ModulusPositive, OwnRemainder
  <2>3. QED
    BY <2>1, <2>2 DEF Unsigned
<1> DEFINE apart == Unsigned(d - d, LONG)
<1>3. TooFar(delta, n, n, style) <=> apart > delta
  BY DEF TooFar
<1>4. apart = 0
  BY <1>2
<1> HIDE DEF apart
<1>5. QED
  BY <1>3, <1>4

\* The bound of a distance is cast to an unsigned type.
LEMMA DeltaPositive ==
  ASSUME NEW delta \in Int, NEW type, NEW bytes \in {1, 2, 4, 8}
  PROVE  CastDelta(delta, type, bytes) \in Int /\ CastDelta(delta, type, bytes) >= 0
<1>1. ASSUME NEW b \in {1, 2, 4, 8} PROVE Unsigned(delta, b) \in Int /\ Unsigned(delta, b) >= 0
  <2>1. Unsigned(delta, b) \in 0..(Modulus(b) - 1)
    BY Casts
  <2>2. Modulus(b) \in Nat
    BY Moduli
  <2>3. QED
    BY <2>1, <2>2
<1>2. Unsigned(delta, LONG) \in Int /\ Unsigned(delta, LONG) >= 0
  BY <1>1 DEF LONG
<1>3. QED
  BY <1>1, <1>2 DEF CastDelta

\* TEST_ASSERT_WITHIN_ of all integer types (unity.c UnityAssertNumbersWithin).
LEMMA WithinShown ==
  ASSUME NEW type \in IntegerTypes, NEW delta \in Int, NEW x \in Int, NEW y \in Int
  PROVE  ShowsMismatch(TEST_ASSERT_WITHIN(type, delta, x, y))
<1> DEFINE m == Cast(x, type, {"UINT", "HEX"})
           n == Cast(y, type, {"UINT", "HEX"})
           s == UnityPrintNumberByStyle(m, StyleOf(type))
           t == UnityPrintNumberByStyle(n, StyleOf(type))
           d == CastDelta(delta, type, StyleOf(type).bytes)
           far == TooFar(d, m, n, StyleOf(type))
<1>1. TEST_ASSERT_WITHIN(type, delta, x, y) = IF ~far THEN Holds ELSE Fails("number", <<>>, s, t)
  BY DEF TEST_ASSERT_WITHIN, UnityAssertNumbersWithin
<1>2. d \in Int /\ d >= 0
  <2>1. StyleOf(type).bytes \in {1, 2, 4, 8}
    BY DEF IntegerTypes, StyleOf, MacroType, UNITY_DISPLAY_STYLE_T, INT
  <2>2. QED
    BY <2>1, DeltaPositive
<1>3. m \in Int
  BY CastOrder
<1>4. m # n => s # t
  BY CastsShown
<1> HIDE DEF m, n, s, t, d
<1>5. far => m # n
  BY <1>2, <1>3, TooFarApart
<1>6. QED
  BY <1>1, <1>4, <1>5 DEF ShowsMismatch, Holds, Fails

\* The loops report what they find: the report shows a mismatch if that of every
\* bad element does.
LEMMA FirstBadShown ==
  ASSUME NEW bad, bad \subseteq Nat, NEW reports, \A i \in bad : ShowsMismatch(reports[i])
  PROVE  ShowsMismatch(FirstBad(bad, reports))
<1>1. CASE bad = {}
  BY <1>1 DEF FirstBad, Holds, ShowsMismatch
<1>2. CASE bad # {}
  <2>1. \E i \in bad : \A k \in bad : i <= k
    BY <1>2, LeastNumber
  <2>2. Min(bad) \in bad
    BY <2>1 DEF Min
  <2>3. QED
    BY <1>2, <2>2 DEF FirstBad
<1>3. QED
  BY <1>1, <1>2

\* Nothing is shown of arrays that are not there (unity.c UnityIsOneArrayNull).
LEMMA ArraysShown ==
  ASSUME NEW expected, NEW actual, NEW num, NEW outcome,
         num # 0 /\ "NULL" \notin {expected.id, actual.id} => ShowsMismatch(outcome)
  PROVE  ShowsMismatch(Arrays(expected, actual, num, outcome))
<1>1. /\ ShowsMismatch(Fails("pointless", <<>>, <<>>, <<>>))
      /\ ShowsMismatch(Fails("null", <<>>, <<>>, <<>>)) /\ ShowsMismatch(Holds)
  BY DEF ShowsMismatch, Fails, Holds
<1>2. CASE num = 0
  BY <1>1, <1>2 DEF Arrays
<1>3. CASE num # 0 /\ "NULL" \in {expected.id, actual.id}
  BY <1>1, <1>3 DEF Arrays, UnityIsOneArrayNull
<1>4. CASE num # 0 /\ "NULL" \notin {expected.id, actual.id}
  BY <1>1, <1>4 DEF Arrays
<1>5. QED
  BY <1>2, <1>3, <1>4

\* The size that arrays of a type are read in, and the style it is printed in.
LEMMA ArrayStyles ==
  ASSUME NEW type \in IntegerTypes
  PROVE  /\ StyleOf(type).bytes \in {1, 2, 4, 8}
         /\ StyleOf(type).range \in {"INT", "CHAR", "UINT", "HEX"}
         /\ StyleOf(type).range = "CHAR" => StyleOf(type).bytes = 1
BY DEF IntegerTypes, StyleOf, MacroType, UNITY_DISPLAY_STYLE_T, INT

\* Two elements that are read as different numbers are printed differently: what
\* Unextended takes away is only the sign.
LEMMA ElementsShown ==
  ASSUME NEW type \in IntegerTypes, NEW m \in Int, NEW n \in Int, m # n,
         Signed(m, StyleOf(type).bytes) = m, Signed(n, StyleOf(type).bytes) = n
  PROVE  LET style == StyleOf(type)
         IN  UnityPrintNumberByStyle(Unextended(m, style), style)
               # UnityPrintNumberByStyle(Unextended(n, style), style)
<1> DEFINE style == StyleOf(type)
           b == style.bytes
           x == Unextended(m, style)
           y == Unextended(n, style)
<1>1. /\ b \in {1, 2, 4, 8} /\ style.range \in {"INT", "CHAR", "UINT", "HEX"}
      /\ style.range = "CHAR" => b = 1
  BY ArrayStyles
<1> HIDE DEF style
<1>2. OfOneSize(x, y, b) /\ x # y
  <2>1. CASE style.range = "UINT" /\ b < INT
    <3>1. x = Unsigned(m, b) /\ y = Unsigned(n, b)
      BY <2>1 DEF Unextended
    <3>2. Unsigned(m, b) # Unsigned(n, b)
      <4>1. Signed(m, b) # Signed(n, b)
        BY DEF style
      <4> HIDE DEF b
      <4>2. QED
        BY <1>1, <4>1, SameApart
    <3>3. QED
      BY <3>1, <3>2 DEF OfOneSize
  <2>2. CASE ~(style.range = "UINT" /\ b < INT)
    <3>1. x = m /\ y = n
      BY <2>2 DEF Unextended
    <3>2. Signed(m, b) = m /\ Signed(n, b) = n
      BY DEF style
    <3>3. QED
      BY <3>1, <3>2 DEF OfOneSize
  <2>3. QED
    BY <2>1, <2>2
<1> HIDE DEF x, y
<1>3. UnityPrintNumberByStyle(x, style) # UnityPrintNumberByStyle(y, style)
  <2> DEFINE w == b
  <2>1. style.bytes = w
    OBVIOUS
  <2> HIDE DEF w
  <2>2. /\ w \in {1, 2, 4, 8} /\ style.range \in {"INT", "CHAR", "UINT", "HEX"}
        /\ style.range = "CHAR" => w = 1
        /\ OfOneSize(x, y, w) /\ x # y
    BY <1>1, <1>2, <2>1
  <2>3. QED
    BY <2>1, <2>2, NumberShown
<1>4. QED
  BY <1>3 DEF x, y, style

\* The loops over integers, of elements that are signed numbers of the style's
\* size and differ where they are bad.
LEMMA IntArraysShown ==
  ASSUME NEW type \in IntegerTypes, NEW elements, NEW bad, bad \subseteq Nat,
         \A i \in bad :
           LET m == elements[i][1]
               n == elements[i][2]
           IN  /\ m \in Int /\ n \in Int /\ m # n
               /\ Signed(m, StyleOf(type).bytes) = m /\ Signed(n, StyleOf(type).bytes) = n
  PROVE  ShowsMismatch(IntArrays(elements, bad, StyleOf(type)))
<1> DEFINE style == StyleOf(type)
           shown(n) == UnityPrintNumberByStyle(Unextended(n, style), style)
           reports == [i \in bad |-> Fails("number", <<i>>, shown(elements[i][1]),
                                                            shown(elements[i][2]))]
<1>1. IntArrays(elements, bad, style) = FirstBad(bad, reports)
  BY DEF IntArrays
<1>2. ASSUME NEW i \in bad PROVE ShowsMismatch(reports[i])
  <2> DEFINE m == elements[i][1]
             n == elements[i][2]
  <2>1. /\ m \in Int /\ n \in Int /\ m # n
        /\ Signed(m, StyleOf(type).bytes) = m /\ Signed(n, StyleOf(type).bytes) = n
    OBVIOUS
  <2>2. reports[i] = Fails("number", <<i>>, shown(m), shown(n))
    OBVIOUS
  <2> HIDE DEF m, n
  <2>3. shown(m) # shown(n)
    BY <2>1, ElementsShown
  <2> HIDE DEF reports, shown
  <2>4. QED
    BY <2>2, <2>3 DEF ShowsMismatch, Fails
<1> HIDE DEF reports
<1>3. QED
  BY <1>1, <1>2, FirstBadShown

\* What the loops read is signed and of the style's size.
LEMMA ElementsRead ==
  ASSUME NEW type \in IntegerTypes, NEW p, NEW num \in Nat, NEW i \in Int,
         IsArray(p, num, StyleOf(type).bytes), i \in 0..(num - 1)
  PROVE  LET n == Load(p, i, StyleOf(type).bytes)
         IN  n \in Int /\ Signed(n, StyleOf(type).bytes) = n
<1> DEFINE b == StyleOf(type).bytes
<1>1. b \in {1, 2, 4, 8}
  BY ArrayStyles
<1>2. \A k \in 1..b : p.cells[i * b + k] \in Int
  BY DEF IsArray
<1> HIDE DEF b
<1>3. Load(p, i, b) \in Int /\ Signed(Load(p, i, b), b) = Load(p, i, b)
  BY <1>1, <1>2, LoadTypes
<1>4. QED
  BY <1>3 DEF b

\* TEST_ASSERT_EQUAL_ARRAY of all integer types, size_t included (unity.c
\* UnityAssertEqualIntArray).
LEMMA EqualArrayShown ==
  ASSUME NEW type \in IntegerTypes, NEW expected, NEW actual, NEW num \in Nat,
         NEW flags \in {"ARRAY_TO_ARRAY", "ARRAY_TO_VAL"},
         "NULL" \notin {expected.id, actual.id} =>
           /\ IsArray(expected, IF flags = "ARRAY_TO_ARRAY" THEN num ELSE 1, StyleOf(type).bytes)
           /\ IsArray(actual, num, StyleOf(type).bytes)
  PROVE  ShowsMismatch(UnityAssertEqualIntArray(expected, actual, num, StyleOf(type), flags))
<1> DEFINE style == StyleOf(type)
           pairs == Elements(expected, actual, num, style, flags)
           bad == {i \in DOMAIN pairs : pairs[i][1] # pairs[i][2]}
           outcome == IntArrays(pairs, bad, style)
<1>1. UnityAssertEqualIntArray(expected, actual, num, style, flags)
        = Arrays(expected, actual, num, outcome)
  BY DEF UnityAssertEqualIntArray
<1>2. ASSUME "NULL" \notin {expected.id, actual.id} PROVE ShowsMismatch(outcome)
  <2>1. /\ DOMAIN pairs = 0..(num - 1)
        /\ \A i \in 0..(num - 1) :
             /\ pairs[i][1] = Load(expected, ExpectedAt(i, flags), style.bytes)
             /\ pairs[i][2] = Load(actual, i, style.bytes)
    BY DEF Elements
  <2>2. ASSUME NEW i \in 0..(num - 1)
        PROVE  LET m == pairs[i][1]
                   n == pairs[i][2]
               IN  /\ m \in Int /\ Signed(m, style.bytes) = m
                   /\ n \in Int /\ Signed(n, style.bytes) = n
    <3> DEFINE j == ExpectedAt(i, flags)
               size == IF flags = "ARRAY_TO_ARRAY" THEN num ELSE 1
    <3>1. j \in Int /\ j \in 0..(size - 1) /\ size \in Nat /\ i \in Int
      BY DEF ExpectedAt
    <3>2. IsArray(expected, size, style.bytes) /\ IsArray(actual, num, style.bytes)
      BY <1>2
    <3>3. pairs[i][1] = Load(expected, j, style.bytes) /\ pairs[i][2] = Load(actual, i, style.bytes)
      BY <2>1
    <3> HIDE DEF j, size, pairs
    <3>4. LET n == Load(expected, j, style.bytes) IN n \in Int /\ Signed(n, style.bytes) = n
      BY <3>1, <3>2, ElementsRead
    <3>5. LET n == Load(actual, i, style.bytes) IN n \in Int /\ Signed(n, style.bytes) = n
      BY <3>1, <3>2, ElementsRead
    <3>6. QED
      BY <3>3, <3>4, <3>5
  <2> HIDE DEF pairs, style
  <2>3. bad \subseteq Nat
    BY <2>1
  <2>4. \A i \in bad : i \in 0..(num - 1) /\ pairs[i][1] # pairs[i][2]
    BY <2>1
  <2> HIDE DEF bad
  <2>5. QED
    BY <2>2, <2>3, <2>4, IntArraysShown DEF style
<1> HIDE DEF outcome
<1>3. QED
  BY <1>1, <1>2, ArraysShown

\* TEST_ASSERT_ARRAY_WITHIN of all integer types (unity.c
\* UnityAssertNumbersArrayWithin).
LEMMA ArrayWithinShown ==
  ASSUME NEW type \in IntegerTypes, NEW delta \in Int, NEW expected, NEW actual, NEW num \in Nat,
         "NULL" \notin {expected.id, actual.id} =>
           IsArray(expected, num, StyleOf(type).bytes) /\ IsArray(actual, num, StyleOf(type).bytes)
  PROVE  ShowsMismatch(TEST_ASSERT_ARRAY_WITHIN(type, delta, expected, actual, num))
<1> DEFINE style == StyleOf(type)
           bytes == IF type = "UINT8" THEN 2 ELSE style.bytes
           d == CastDelta(delta, type, bytes)
           pairs == Elements(expected, actual, num, style, "ARRAY_TO_ARRAY")
           bad == {i \in DOMAIN pairs : TooFar(d, pairs[i][1], pairs[i][2], style)}
           outcome == IntArrays(pairs, bad, style)
<1>1. TEST_ASSERT_ARRAY_WITHIN(type, delta, expected, actual, num)
        = Arrays(expected, actual, num, outcome)
  BY DEF TEST_ASSERT_ARRAY_WITHIN, UnityAssertNumbersArrayWithin
<1>2. d \in Int /\ d >= 0
  <2>1. bytes \in {1, 2, 4, 8}
    BY ArrayStyles
  <2> HIDE DEF bytes
  <2>2. QED
    BY <2>1, DeltaPositive
<1> HIDE DEF d
<1>3. ASSUME "NULL" \notin {expected.id, actual.id} PROVE ShowsMismatch(outcome)
  <2>1. /\ DOMAIN pairs = 0..(num - 1)
        /\ \A i \in 0..(num - 1) :
             /\ pairs[i][1] = Load(expected, i, style.bytes)
             /\ pairs[i][2] = Load(actual, i, style.bytes)
    BY DEF Elements, ExpectedAt
  <2>2. ASSUME NEW i \in 0..(num - 1)
        PROVE  LET m == pairs[i][1]
                   n == pairs[i][2]
               IN  /\ m \in Int /\ Signed(m, style.bytes) = m
                   /\ n \in Int /\ Signed(n, style.bytes) = n
    <3>1. IsArray(expected, num, style.bytes) /\ IsArray(actual, num, style.bytes) /\ i \in Int
      BY <1>3
    <3> HIDE DEF pairs
    <3>2. LET n == Load(expected, i, style.bytes) IN n \in Int /\ Signed(n, style.bytes) = n
      BY <3>1, ElementsRead
    <3>3. LET n == Load(actual, i, style.bytes) IN n \in Int /\ Signed(n, style.bytes) = n
      BY <3>1, ElementsRead
    <3>4. QED
      BY <2>1, <3>2, <3>3
  <2> HIDE DEF pairs, style
  <2>3. bad \subseteq Nat
    BY <2>1
  <2>4. \A i \in bad : i \in 0..(num - 1) /\ TooFar(d, pairs[i][1], pairs[i][2], style)
    BY <2>1
  <2> HIDE DEF bad
  <2>5. ASSUME NEW i \in bad PROVE pairs[i][1] # pairs[i][2]
    BY <1>2, <2>2, <2>4, TooFarApart
  <2>6. QED
    BY <2>2, <2>3, <2>4, <2>5, IntArraysShown DEF style
<1> HIDE DEF outcome
<1>4. QED
  BY <1>1, <1>3, ArraysShown

\* TEST_ASSERT_EACH_EQUAL of all integer types: the value is stored in the size
\* its style is read in (unity.c UnityNumToPtr).
LEMMA EachEqualShown ==
  ASSUME NEW type \in IntegerTypes, NEW expected \in Int, NEW actual, NEW num \in Nat,
         actual.id # "NULL" => IsArray(actual, num, StyleOf(type).bytes)
  PROVE  ShowsMismatch(TEST_ASSERT_EACH_EQUAL(type, expected, actual, num))
<1> DEFINE b == StyleOf(type).bytes
           v == Cast(expected, type, {"UINT"})
           u == Unsigned(v, b)
           p == UnityNumToPtr(v, b)
<1>1. TEST_ASSERT_EACH_EQUAL(type, expected, actual, num)
        = UnityAssertEqualIntArray(p, actual, num, StyleOf(type), "ARRAY_TO_VAL")
  BY DEF TEST_ASSERT_EACH_EQUAL
<1>2. b \in {1, 2, 4, 8}
  BY ArrayStyles
<1>3. v \in Int
  <2>1. v = Signed(expected, Width(type)) \/ v = Unsigned(expected, Width(type))
    BY CastIs
  <2>2. Width(type) \in {1, 2, 4, 8}
    BY TypeFacts
  <2> DEFINE w == Width(type)
  <2> HIDE DEF w
  <2>3. w \in {1, 2, 4, 8}
    BY <2>2 DEF w
  <2>4. Unsigned(expected, w) \in 0..(Modulus(w) - 1) /\ Signed(expected, w) \in Int
    BY <2>3, Casts
  <2> HIDE DEF v
  <2>5. QED
    BY <2>1, <2>4 DEF w
<1> HIDE DEF v
<1>4. u \in Int
  <2> HIDE DEF b
  <2>1. u \in 0..(Modulus(b) - 1)
    BY <1>2, <1>3, Casts
  <2>2. QED
    BY <2>1
<1>5. \A k \in 1..b : p.cells[k] = (u \div Modulus(k - 1)) % Modulus(1)
  BY DEF UnityNumToPtr, BytesOf
<1> HIDE DEF p, u
<1>6. ASSUME NEW k \in 1..b PROVE p.cells[k] \in Int
  <2> DEFINE A == Modulus(k - 1)
             B == Modulus(1)
  <2>1. k - 1 \in Nat
    BY <1>2
  <2>2. A \in Nat \ {0} /\ B \in Nat \ {0}
    BY <2>1, ModuliMultiply
  <2>3. p.cells[k] = (u \div A) % B
    BY <1>5
  <2> HIDE DEF A, B
  <2>4. u \div A \in Int
    BY <1>4, <2>2, Remainder
  <2>5. (u \div A) % B \in 0..(B - 1)
    BY <2>2, <2>4, Remainder
  <2>6. QED
    BY <2>2, <2>3, <2>5
<1>7. IsArray(p, 1, b)
  <2>1. ASSUME NEW i \in 0..(1 - 1), NEW k \in 1..b PROVE p.cells[i * b + k] \in Int
    <3>1. i * b + k = k
      <4>1. i = 0
        OBVIOUS
      <4>2. QED
        BY <1>2, <4>1
    <3>2. QED
      BY <1>6, <3>1
  <2>2. QED
    BY <2>1 DEF IsArray
<1>8. "NULL" \notin {p.id, actual.id} =>
        IsArray(p, 1, StyleOf(type).bytes) /\ IsArray(actual, num, StyleOf(type).bytes)
  BY <1>7
<1> HIDE DEF b
<1>9. QED
  BY <1>1, <1>8, EqualArrayShown

-----------------------------------------------------------------------------
(* What is printed of memory and of strings.                                *)

\* So many bytes of memory.
IsMemory(p, size) == p.cells \in Seq(0..(Modulus(1) - 1)) /\ size <= Len(p.cells)

\* Bytes are shown as they are.
LEMMA BytesShown ==
  ASSUME NEW x \in 0..(Modulus(1) - 1), NEW y \in 0..(Modulus(1) - 1), x # y
  PROVE  UnityPrintNumberByStyle(x, UNITY_DISPLAY_STYLE_T.HEX8)
           # UnityPrintNumberByStyle(y, UNITY_DISPLAY_STYLE_T.HEX8)
<1> DEFINE style == UNITY_DISPLAY_STYLE_T.HEX8
           w == 1
<1>1. style.range = "HEX" /\ style.bytes = w /\ w \in {1, 2, 4, 8}
  BY DEF UNITY_DISPLAY_STYLE_T
<1>2. OfOneSize(x, y, w)
  <2>1. Unsigned(x, w) = x /\ Unsigned(y, w) = y
    BY Widened
  <2>2. x \in Int /\ y \in Int
    OBVIOUS
  <2>3. QED
    BY <2>1, <2>2 DEF OfOneSize
<1> HIDE DEF style, w
<1>3. QED
  BY <1>1, <1>2, NumberShown DEF style

\* TEST_ASSERT_EQUAL_MEMORY and TEST_ASSERT_EACH_EQUAL_MEMORY (unity.c
\* UnityAssertEqualMemory).
LEMMA MemoryShown ==
  ASSUME NEW expected, NEW actual, NEW length \in Nat, NEW num \in Nat,
         NEW flags \in {"ARRAY_TO_ARRAY", "ARRAY_TO_VAL"},
         "NULL" \notin {expected.id, actual.id} =>
           /\ IsMemory(expected, IF flags = "ARRAY_TO_ARRAY" THEN num * length ELSE length)
           /\ IsMemory(actual, num * length)
  PROVE  ShowsMismatch(UnityAssertEqualMemory(expected, actual, length, num, flags))
<1> DEFINE n == num * length
           e(k) == expected.cells[(ExpectedAt(k \div length, flags) * length) + (k % length) + 1]
           a(k) == actual.cells[k + 1]
           element(k) == IF num > 1 THEN <<k \div length, k % length>> ELSE <<k % length>>
           shown(byte) == UnityPrintNumberByStyle(byte, UNITY_DISPLAY_STYLE_T.HEX8)
           bad == {k \in 0..(n - 1) : e(k) # a(k)}
           reports == [k \in 0..(n - 1) |-> Fails("memory", element(k), shown(e(k)), shown(a(k)))]
           outcome == FirstBad(bad, reports)
           size == IF flags = "ARRAY_TO_ARRAY" THEN n ELSE length
           Byte == 0..(Modulus(1) - 1)
<1>1. UnityAssertEqualMemory(expected, actual, length, num, flags)
        = Arrays(expected, actual, n, outcome)
  BY DEF UnityAssertEqualMemory
<1>2. n \in Nat /\ (n # 0 => length \in Nat \ {0})
  <2>1. length = 0 => n = 0
    OBVIOUS
  <2>2. QED
    BY <2>1
<1>3. ASSUME n # 0, "NULL" \notin {expected.id, actual.id} PROVE ShowsMismatch(outcome)
  <2>1. IsMemory(expected, size) /\ IsMemory(actual, n)
    BY <1>3
  <2>2. ASSUME NEW k \in 0..(n - 1) PROVE e(k) \in Byte /\ a(k) \in Byte
    <3> DEFINE at == (ExpectedAt(k \div length, flags) * length) + (k % length)
    <3>1. /\ k \div length \in 0..(num - 1) /\ k % length \in 0..(length - 1)
          /\ (k \div length) * length + (k % length) = k
      BY <1>2, <1>3, Places
    <3>2. at \in 0..(size - 1)
      <4>1. CASE flags = "ARRAY_TO_ARRAY"
        BY <3>1, <4>1 DEF ExpectedAt
      <4>2. CASE flags = "ARRAY_TO_VAL"
        <5>1. at = 0 * length + (k % length) /\ size = length
          BY <4>2 DEF ExpectedAt
        <5>2. 0 * length = 0
          OBVIOUS
        <5> HIDE DEF at, size
        <5>3. QED
          BY <3>1, <5>1, <5>2
      <4>3. QED
        BY <4>1, <4>2
    <3>3. e(k) = expected.cells[at + 1]
      OBVIOUS
    <3>4. size \in Nat
      BY <1>2
    <3> HIDE DEF at, e, n, size
    <3>5. at + 1 \in 1..Len(expected.cells)
      BY <2>1, <3>2, <3>4 DEF IsMemory
    <3>6. k + 1 \in 1..Len(actual.cells)
      BY <1>2, <2>1 DEF IsMemory
    <3>7. expected.cells \in Seq(Byte) /\ actual.cells \in Seq(Byte)
      BY <2>1 DEF IsMemory
    <3> HIDE DEF Byte
    <3>8. QED
      BY <3>3, <3>5, <3>6, <3>7
  <2> HIDE DEF e, a
  <2>3. bad \subseteq Nat /\ \A k \in bad : k \in 0..(n - 1) /\ e(k) # a(k)
    BY <1>2
  <2>4. ASSUME NEW k \in bad PROVE ShowsMismatch(reports[k])
    <3>1. k \in 0..(n - 1) /\ e(k) # a(k)
      BY <2>3
    <3>2. shown(e(k)) # shown(a(k))
      BY <2>2, <3>1, BytesShown
    <3>3. reports[k] = Fails("memory", element(k), shown(e(k)), shown(a(k)))
      BY <3>1
    <3> HIDE DEF reports, shown, element
    <3>4. QED
      BY <3>2, <3>3 DEF ShowsMismatch, Fails
  <2> HIDE DEF bad, reports
  <2>5. QED
    BY <2>3, <2>4, FirstBadShown
<1> HIDE DEF outcome, n
<1>4. QED
  BY <1>1, <1>3, ArraysShown

\* f[k] is the first k of n sequences, one behind the other.
Appended(f, c, n) == \A k \in 1..n : f[k] = IF k = 1 THEN c[k] ELSE f[k - 1] \o c[k]

\* Sequences in a row can be put one behind the other.
LEMMA Concatenations ==
  ASSUME NEW S, NEW n \in Nat, NEW c \in [1..n -> Seq(S)]
  PROVE  \E f \in [1..n -> Seq(S)] : Appended(f, c, n)
<1> DEFINE P(m) == \E f \in [1..m -> Seq(S)] :
                     \A k \in 1..m : f[k] = IF k = 1 THEN c[k] ELSE f[k - 1] \o c[k]
           T == {m \in 0..n : ~P(m)}
<1>1. ASSUME T # {} PROVE FALSE
  <2>1. PICK m \in T : \A k \in T : m <= k
    <3>1. T \subseteq Nat
      OBVIOUS
    <3> HIDE DEF T
    <3>2. QED
      BY <1>1, <3>1, LeastNumber
  <2>2. P(0)
    <3>1. [k \in 1..0 |-> <<>>] \in [1..0 -> Seq(S)]
      OBVIOUS
    <3>2. \A k \in 1..0 : FALSE
      OBVIOUS
    <3>3. QED
      BY <3>1, <3>2
  <2>3. m \in 1..n /\ ~P(m)
    <3> HIDE DEF P
    <3>1. m # 0
      BY <2>1, <2>2
    <3>2. QED
      BY <2>1, <3>1
  <2>4. P(m - 1)
    <3>1. m - 1 \in 0..n /\ ~(m <= m - 1)
      BY <2>3
    <3> HIDE DEF P
    <3>2. QED
      BY <2>1, <3>1
  <2>5. PICK f \in [1..(m - 1) -> Seq(S)] :
          \A k \in 1..(m - 1) : f[k] = IF k = 1 THEN c[k] ELSE f[k - 1] \o c[k]
    BY <2>4
  <2> DEFINE last == IF m = 1 THEN c[m] ELSE f[m - 1] \o c[m]
             g == [k \in 1..m |-> IF k = m THEN last ELSE f[k]]
  <2>6. last \in Seq(S)
    <3>1. c[m] \in Seq(S)
      BY <2>3
    <3>2. m # 1 => f[m - 1] \in Seq(S)
      BY <2>3, <2>5
    <3>3. QED
      BY <3>1, <3>2
  <2>7. \A k \in 1..m : k # m => k \in 1..(m - 1)
    BY <2>3
  <2>8. ASSUME NEW k \in 1..m PROVE g[k] = IF k = 1 THEN c[k] ELSE g[k - 1] \o c[k]
    <3>1. k # 1 => k - 1 \in 1..m /\ k - 1 # m
      BY <2>3
    <3>2. k # 1 => g[k - 1] = f[k - 1]
      BY <3>1
    <3>3. g[k] = IF k = m THEN last ELSE f[k]
      OBVIOUS
    <3> HIDE DEF g
    <3>4. QED
      BY <2>5, <2>7, <3>2, <3>3
  <2>9. g \in [1..m -> Seq(S)]
    <3> HIDE DEF last
    <3>1. \A k \in 1..m : (IF k = m THEN last ELSE f[k]) \in Seq(S)
      BY <2>5, <2>6, <2>7
    <3>2. QED
      BY <3>1
  <2> HIDE DEF g
  <2>10. P(m)
    BY <2>8, <2>9
  <2>11. QED
    BY <2>3, <2>10
<1>2. n \in 0..n
  OBVIOUS
<1>3. P(n)
  BY <1>1, <1>2
<1>4. QED
  BY <1>3 DEF Appended

\* What FlattenSeq makes of sequences.
LEMMA FlattenIs ==
  ASSUME NEW S, NEW c \in Seq(Seq(S)), Len(c) # 0, NEW f \in [1..Len(c) -> Seq(S)],
         Appended(f, c, Len(c))
  PROVE  FlattenSeq(c) = f[Len(c)]
<1> DEFINE n == Len(c)
           Is(g) == g = [i \in 1..n |-> IF i = 1 THEN c[i] ELSE g[i - 1] \o c[i]]
           v == CHOOSE g : Is(g)
<1>1. FlattenSeq(c) = v[n]
  BY DEF FlattenSeq
<1>2. n \in Nat \ {0}
  OBVIOUS
<1>3. Is(f)
  <2>1. f = [k \in 1..n |-> f[k]]
    OBVIOUS
  <2>2. QED
    BY <2>1 DEF Appended
<1>4. Is(v)
  <2> HIDE DEF Is
  <2>1. QED
    BY <1>3
<1> HIDE DEF v, n
<1>5. \A i \in 1..n : v[i] = IF i = 1 THEN c[i] ELSE v[i - 1] \o c[i]
  BY <1>4
<1>6. \A i \in 1..n : f[i] = IF i = 1 THEN c[i] ELSE f[i - 1] \o c[i]
  BY DEF n, Appended
<1> DEFINE T == {k \in 1..n : v[k] # f[k]}
<1>7. ASSUME T # {} PROVE FALSE
  <2>1. PICK k \in T : \A j \in T : k <= j
    <3>1. T \subseteq Nat
      OBVIOUS
    <3> HIDE DEF T
    <3>2. QED
      BY <1>7, <3>1, LeastNumber
  <2>2. k \in 1..n /\ v[k] # f[k] /\ k # 1
    BY <1>5, <1>6, <2>1
  <2>3. k - 1 \in 1..n /\ ~(k <= k - 1)
    BY <1>2, <2>2
  <2>4. v[k - 1] = f[k - 1]
    BY <2>1, <2>3
  <2>5. QED
    BY <1>5, <1>6, <2>2, <2>4
<1>8. n \in 1..n /\ T = {}
  BY <1>2, <1>7
<1>9. QED
  BY <1>1, <1>8 DEF n

\* Sequences with the same elements are one, whatever sets they are over.
LEMMA SameSequence ==
  ASSUME NEW S, NEW s \in Seq(S), NEW T, NEW t \in Seq(T), Len(s) = Len(t),
         \A k \in 1..Len(s) : s[k] = t[k]
  PROVE  s = t
<1>1. s = [k \in 1..Len(s) |-> s[k]] /\ t = [k \in 1..Len(t) |-> t[k]]
  OBVIOUS
<1>2. QED
  BY <1>1

\* What is in one of two sequences is in both of them together.
LEMMA ContainsEither ==
  ASSUME NEW T, NEW x \in Seq(T), NEW y \in Seq(T), NEW e,
         Contains(x, e) \/ Contains(y, e)
  PROVE  Contains(x \o y, e)
<1>1. /\ Len(x \o y) = Len(x) + Len(y) /\ Len(x) \in Nat /\ Len(y) \in Nat
      /\ \A j \in 1..Len(x) : (x \o y)[j] = x[j]
      /\ \A j \in 1..Len(y) : (x \o y)[Len(x) + j] = y[j]
  OBVIOUS
<1>2. CASE Contains(x, e)
  <2>1. PICK j \in 1..Len(x) : x[j] = e
    BY <1>2 DEF Contains
  <2>2. j \in 1..Len(x \o y) /\ (x \o y)[j] = e
    BY <1>1, <2>1
  <2>3. QED
    BY <2>2 DEF Contains
<1>3. CASE Contains(y, e)
  <2>1. PICK j \in 1..Len(y) : y[j] = e
    BY <1>3 DEF Contains
  <2>2. Len(x) + j \in 1..Len(x \o y) /\ (x \o y)[Len(x) + j] = e
    BY <1>1, <2>1
  <2>3. QED
    BY <2>2 DEF Contains
<1>4. QED
  BY <1>2, <1>3

\* Pieces of text for the characters of a string, one behind the other: the
\* string itself, unless one of the pieces has a backslash.
LEMMA Flattened ==
  ASSUME NEW S, NEW s \in Seq(S), NEW T, NEW c \in Seq(Seq(T)), Len(c) = Len(s),
         \A k \in 1..Len(s) : c[k] = <<s[k]>> \/ Contains(c[k], "\\")
  PROVE  /\ FlattenSeq(c) \in Seq(T)
         /\ FlattenSeq(c) = s \/ Contains(FlattenSeq(c), "\\")
<1> DEFINE n == Len(c)
           Begins(x, k) == Len(x) = k /\ \A j \in 1..k : x[j] = s[j]
<1>1. CASE n = 0
  <2>1. <<>> \in Seq(T) /\ Len(<<>>) = 0
    OBVIOUS
  <2>2. c = <<>> /\ s = <<>>
    <3> DEFINE e == <<>>
    <3>1. e \in Seq(T) /\ Len(e) = 0 /\ Len(c) = 0 /\ Len(s) = 0
      BY <1>1, <2>1
    <3> HIDE DEF e, n
    <3>2. (\A k \in 1..Len(c) : c[k] = e[k]) /\ \A k \in 1..Len(s) : s[k] = e[k]
      BY <3>1
    <3>3. c = e
      BY <3>1, <3>2, SameSequence
    <3>4. s = e
      BY <3>1, <3>2, SameSequence
    <3>5. QED
      BY <3>3, <3>4 DEF e
  <2>3. FlattenSeq(c) = c
    BY <1>1 DEF FlattenSeq
  <2> DEFINE e == <<>>
  <2> HIDE DEF e
  <2>4. FlattenSeq(c) = e /\ s = e /\ e \in Seq(T)
    BY <2>1, <2>2, <2>3 DEF e
  <2>5. QED
    BY <2>4
<1>2. CASE n # 0
  <2>1. n \in Nat \ {0} /\ c \in [1..n -> Seq(T)]
    BY <1>2
  <2>2. PICK f \in [1..n -> Seq(T)] : Appended(f, c, n)
    <3> HIDE DEF n
    <3>1. n \in Nat /\ c \in [1..n -> Seq(T)]
      BY <2>1
    <3>2. QED
      BY <3>1, Concatenations
  <2>3. FlattenSeq(c) = f[n]
    BY <1>2, <2>2, FlattenIs
  <2>4. \A k \in 1..n : f[k] = IF k = 1 THEN c[k] ELSE f[k - 1] \o c[k]
    BY <2>2 DEF Appended
  <2> HIDE DEF n
  <2> DEFINE Q(k) == Contains(f[k], "\\") \/ Begins(f[k], k)
             Bad == {k \in 1..n : ~Q(k)}
  <2>5. ASSUME Bad # {} PROVE FALSE
    <3>1. PICK k \in Bad : \A j \in Bad : k <= j
      <4>1. Bad \subseteq Nat
        OBVIOUS
      <4> HIDE DEF Bad
      <4>2. QED
        BY <2>5, <4>1, LeastNumber
    <3>2. k \in 1..n /\ ~Q(k)
      BY <3>1
    <3>3. c[k] \in Seq(T) /\ f[k] \in Seq(T) /\ (c[k] = <<s[k]>> \/ Contains(c[k], "\\"))
      BY <2>1, <2>2, <3>2 DEF n
    <3>4. CASE k = 1
      <4>1. f[k] = c[k]
        BY <2>4, <3>2, <3>4
      <4>2. c[k] = <<s[k]>> => Begins(f[k], k)
        BY <3>4, <4>1
      <4>3. QED
        BY <3>2, <3>3, <4>1, <4>2
    <3>5. CASE k # 1
      <4> DEFINE x == f[k - 1]
                 y == c[k]
      <4>1. k - 1 \in 1..n /\ ~(k <= k - 1)
        BY <2>1, <3>2, <3>5
      <4>2. Q(k - 1)
        <5> HIDE DEF Q
        <5>1. QED
          BY <3>1, <4>1
      <4>3. f[k] = x \o y /\ x \in Seq(T) /\ y \in Seq(T)
        BY <2>4, <2>2, <3>2, <3>3, <3>5, <4>1
      <4>4. Contains(x, "\\") \/ Begins(x, k - 1)
        BY <4>2
      <4> HIDE DEF x, y
      <4>5. /\ Len(x \o y) = Len(x) + Len(y) /\ Len(x) \in Nat /\ Len(y) \in Nat
            /\ \A j \in 1..Len(x) : (x \o y)[j] = x[j]
            /\ \A j \in 1..Len(y) : (x \o y)[Len(x) + j] = y[j]
        BY <4>3
      <4>6. ASSUME Contains(x, "\\") \/ Contains(y, "\\") PROVE Contains(x \o y, "\\")
        BY <4>3, <4>6, ContainsEither
      <4>7. ASSUME Begins(x, k - 1), y = <<s[k]>> PROVE Begins(x \o y, k)
        <5>1. Len(y) = 1 /\ y[1] = s[k] /\ Len(x) = k - 1
          BY <4>7
        <5>2. Len(x \o y) = k /\ (x \o y)[k] = s[k]
          <6>1. 1 \in 1..Len(y) /\ Len(x) + 1 = k
            BY <3>2, <5>1
          <6>2. (x \o y)[Len(x) + 1] = y[1]
            BY <4>5, <6>1
          <6>3. QED
            BY <4>5, <5>1, <6>1, <6>2
        <5>3. ASSUME NEW j \in 1..k, j # k PROVE (x \o y)[j] = s[j]
          <6>1. j \in 1..(k - 1) /\ j \in 1..Len(x)
            BY <3>2, <5>1, <5>3
          <6>2. QED
            BY <4>5, <4>7, <6>1
        <5>4. QED
          BY <5>2, <5>3
      <4>8. Contains(x \o y, "\\") \/ Begins(x \o y, k)
        <5> HIDE DEF Begins
        <5>1. y = <<s[k]>> \/ Contains(y, "\\")
          BY <3>3 DEF y
        <5>2. QED
          BY <4>4, <4>6, <4>7, <5>1
      <4>9. QED
        BY <3>2, <4>3, <4>8
    <3>6. QED
      BY <3>4, <3>5
  <2>6. n \in 1..n /\ Bad = {}
    BY <2>1, <2>5
  <2>7. Q(n) /\ f[n] \in Seq(T)
    <3> HIDE DEF Q
    <3>1. QED
      BY <2>2, <2>6
  <2>8. ASSUME Begins(f[n], n) PROVE f[n] = s
    <3>1. Len(f[n]) = Len(s) /\ \A j \in 1..Len(s) : f[n][j] = s[j]
      BY <2>8 DEF n
    <3>2. QED
      BY <2>7, <3>1, SameSequence
  <2>9. QED
    BY <2>3, <2>7, <2>8
<1>3. QED
  BY <1>1, <1>2

\* What is printed of a character: the character, or a backslash and more.
LEMMA PrintCharIs ==
  ASSUME NEW c
  PROVE  /\ UnityPrintChar(c) \in Seq({c, "\\", "r", "n", "x", "1", "B"})
         /\ UnityPrintChar(c) = <<c>> \/ Contains(UnityPrintChar(c), "\\")
<1> DEFINE T == {c, "\\", "r", "n", "x", "1", "B"}
<1>1. /\ <<c>> \in Seq(T) /\ <<"\\", "r">> \in Seq(T) /\ <<"\\", "n">> \in Seq(T)
      /\ <<"\\", "x", "1", "B">> \in Seq(T)
  OBVIOUS
<1>2. /\ Contains(<<"\\", "r">>, "\\") /\ Contains(<<"\\", "n">>, "\\")
      /\ Contains(<<"\\", "x", "1", "B">>, "\\")
  BY DEF Contains
<1> HIDE DEF T
<1>3. \/ UnityPrintChar(c) = <<c>> \/ UnityPrintChar(c) = <<"\\", "r">>
      \/ UnityPrintChar(c) = <<"\\", "n">> \/ UnityPrintChar(c) = <<"\\", "x", "1", "B">>
  BY DEF UnityPrintChar
<1>4. QED
  BY <1>1, <1>2, <1>3 DEF T

\* A string is shown between quotes as far as it is looked at, or with a
\* backslash.
LEMMA PrintedIs ==
  ASSUME NEW s, IsString(s), s # NullString, NEW i \in Nat
  PROVE  \E T, x : /\ x \in Seq(T) /\ "'" \in T
                   /\ PrintString(s, i) = <<"'">> \o x \o <<"'">>
                   /\ x = Start(s, i) \/ Contains(x, "\\")
<1>1. PICK S : s \in Seq(S)
  BY DEF IsString
<1> DEFINE n == IF i < Len(s) THEN i ELSE Len(s)
           shown == SubSeq(s, 1, n)
           st == Start(s, i)
           c == [k \in DOMAIN shown |-> UnityPrintChar(shown[k])]
           x == FlattenSeq(c)
           T == S \union {"'", "\\", "r", "n", "x", "1", "B"}
<1>2. PrintString(s, i) = <<"'">> \o x \o <<"'">>
  BY DEF PrintString
<1>3. /\ st \in Seq(S) /\ Len(st) = n /\ n \in Nat
  BY <1>1, StartIs
<1>4. shown = st
  <2>1. CASE i < Len(s)
    BY <2>1 DEF Start
  <2>2. CASE ~(i < Len(s))
    <3>1. SubSeq(s, 1, Len(s)) = [k \in 1..Len(s) |-> s[k]]
      BY <1>1
    <3>2. s = [k \in 1..Len(s) |-> s[k]]
      BY <1>1
    <3>3. QED
      BY <2>2, <3>1, <3>2 DEF Start
  <2>3. QED
    BY <2>1, <2>2
<1> HIDE DEF n, shown, st
<1>5. DOMAIN shown = 1..n /\ \A k \in 1..n : shown[k] \in S
  BY <1>3, <1>4
<1>6. ASSUME NEW k \in 1..n PROVE UnityPrintChar(shown[k]) \in Seq(T)
  <2> DEFINE char == shown[k]
             C == {char, "\\", "r", "n", "x", "1", "B"}
  <2>1. C \subseteq T
    BY <1>5
  <2>2. UnityPrintChar(char) \in Seq(C)
    BY PrintCharIs
  <2> HIDE DEF C, T
  <2>3. QED
    BY <2>1, <2>2, SeqWider
<1>7. c \in Seq(Seq(T)) /\ Len(c) = n /\ \A k \in 1..n : c[k] = UnityPrintChar(shown[k])
  <2> DEFINE U == Seq(T)
  <2>1. \A k \in 1..n : UnityPrintChar(shown[k]) \in U
    BY <1>6
  <2> HIDE DEF U
  <2>2. c = [k \in 1..n |-> UnityPrintChar(shown[k])]
    BY <1>5
  <2> HIDE DEF c
  <2>3. c \in [1..n -> U]
    BY <2>1, <2>2
  <2>4. c \in Seq(U) /\ Len(c) = n
    BY <1>3, <2>3
  <2>5. QED
    BY <2>2, <2>4 DEF U
<1> HIDE DEF c
<1>8. \A k \in 1..Len(st) : c[k] = <<st[k]>> \/ Contains(c[k], "\\")
  BY <1>3, <1>4, <1>7, PrintCharIs
<1>9. "'" \in T
  OBVIOUS
<1> HIDE DEF T, x
<1>10. x \in Seq(T) /\ (x = st \/ Contains(x, "\\"))
  <2>1. Len(c) = Len(st)
    BY <1>3, <1>7
  <2>2. QED
    BY <1>3, <1>7, <1>8, <2>1, Flattened DEF x
<1>11. QED
  BY <1>2, <1>9, <1>10 DEF st

\* Two strings that differ as far as they are looked at are printed differently,
\* or with a backslash in the first (unity.c UnityPrint, UnityPrintLen).
LEMMA StringsShown ==
  ASSUME NEW s, NEW t, IsString(s), IsString(t), NEW i \in Nat, NEW j \in Nat,
         IF NullString \in {s, t} THEN s # t ELSE Start(s, i) # Start(t, j)
  PROVE  PrintString(s, i) # PrintString(t, j) \/ Contains(PrintString(s, i), "\\")
<1>1. ASSUME NEW z, IsString(z), z # NullString, NEW k \in Nat PROVE PrintString(z, k) # NullString
  <2>1. PICK T, x : x \in Seq(T) /\ "'" \in T /\ PrintString(z, k) = <<"'">> \o x \o <<"'">>
    BY <1>1, PrintedIs
  <2>2. (<<"'">> \o x)[1] = "'" /\ <<"'">> \o x \in Seq(T) /\ Len(<<"'">> \o x) = 1 + Len(x)
        /\ Len(x) \in Nat
    BY <2>1
  <2> DEFINE y == <<"'">> \o x
  <2> HIDE DEF y
  <2>3. (y \o <<"'">>)[1] = y[1]
    BY <2>1, <2>2 DEF y
  <2>4. NullString[1] = "NULL"
    BY DEF NullString
  <2>5. QED
    BY <2>1, <2>2, <2>3, <2>4 DEF y
<1>2. PrintString(NullString, i) = NullString /\ PrintString(NullString, j) = NullString
  BY DEF PrintString
<1>3. CASE s = NullString
  BY <1>1, <1>2, <1>3
<1>4. CASE s # NullString /\ t = NullString
  BY <1>1, <1>2, <1>4
<1>5. CASE s # NullString /\ t # NullString
  <2>1. Start(s, i) # Start(t, j)
    BY <1>5
  <2>2. PICK T, x : /\ x \in Seq(T) /\ "'" \in T
                    /\ PrintString(s, i) = <<"'">> \o x \o <<"'">>
                    /\ x = Start(s, i) \/ Contains(x, "\\")
    BY <1>5, PrintedIs
  <2>3. PICK U, y : /\ y \in Seq(U) /\ "'" \in U
                    /\ PrintString(t, j) = <<"'">> \o y \o <<"'">>
                    /\ y = Start(t, j) \/ Contains(y, "\\")
    BY <1>5, PrintedIs
  <2> SUFFICES ASSUME PrintString(s, i) = PrintString(t, j)
               PROVE  Contains(PrintString(s, i), "\\")
    OBVIOUS
  <2>4. x = y
    <3> DEFINE V == T \union U
               q == <<"'">>
    <3>1. T \subseteq V /\ U \subseteq V /\ "'" \in V
      BY <2>2
    <3> HIDE DEF V
    <3>2. q \in Seq(V)
      BY <3>1
    <3>3. x \in Seq(V) /\ y \in Seq(V)
      BY <2>2, <2>3, <3>1, SeqWider
    <3>4. q \o x \o q = q \o y \o q
      BY <2>2, <2>3
    <3> HIDE DEF q
    <3>5. QED
      BY <3>2, <3>3, <3>4, Framed
  <2>5. Contains(x, "\\")
    BY <2>1, <2>2, <2>3, <2>4
  <2>6. Contains(<<"'">> \o x \o <<"'">>, "\\")
    <3> DEFINE q == <<"'">>
    <3>1. q \in Seq(T)
      BY <2>2
    <3> HIDE DEF q
    <3>2. q \o x \in Seq(T) /\ x \in Seq(T)
      BY <2>2, <3>1
    <3>3. Contains(q \o x, "\\")
      BY <2>5, <3>1, <3>2, ContainsEither
    <3>4. Contains(q \o x \o q, "\\")
      BY <3>1, <3>2, <3>3, ContainsEither
    <3>5. QED
      BY <3>4 DEF q
  <2>7. QED
    BY <2>2, <2>6
<1>6. QED
  BY <1>3, <1>4, <1>5

\* TEST_ASSERT_EQUAL_STRING_LEN shows what it compared (unity.c
\* UnityPrintExpectedAndActualStringsLen).
LEMMA StringLenShown ==
  ASSUME NEW s, NEW t, IsString(s), IsString(t), NEW length \in Nat
  PROVE  ShowsMismatch(UnityAssertEqualStringLen(s, t, length))
<1> DEFINE x == PrintString(s, length)
           y == PrintString(t, length)
<1>1. UnityAssertEqualStringLen(s, t, length)
        = IF ~StringsDiffer(s, t, length) THEN Holds ELSE Fails("string", <<>>, x, y)
  BY DEF UnityAssertEqualStringLen
<1>2. StringsDiffer(s, t, length) =>
        IF NullString \in {s, t} THEN s # t ELSE Start(s, length) # Start(t, length)
  <2>1. CASE NullString \in {s, t}
    BY <2>1 DEF StringsDiffer
  <2>2. CASE NullString \notin {s, t}
    BY <2>2, StringsDifferIs
  <2>3. QED
    BY <2>1, <2>2
<1>3. StringsDiffer(s, t, length) => x # y \/ Contains(x, "\\")
  BY <1>2, StringsShown
<1> HIDE DEF x, y
<1>4. QED
  BY <1>1, <1>3 DEF ShowsMismatch, Holds, Fails

\* TEST_ASSERT_EQUAL_STRING (unity.c UnityAssertEqualString).
LEMMA StringShown ==
  ASSUME NEW s, NEW t, IsString(s), IsString(t)
  PROVE  ShowsMismatch(UnityAssertEqualString(s, t))
<1>1. Len(s) \in Nat /\ Len(t) \in Nat
  BY DEF IsString
<1>2. Whole(s, t) \in Nat
  BY <1>1 DEF Whole
<1>3. QED
  BY <1>2, StringLenShown DEF UnityAssertEqualString

\* TEST_ASSERT_EQUAL_STRING_ARRAY and TEST_ASSERT_EACH_EQUAL_STRING (unity.c
\* UnityAssertEqualStringArray).
LEMMA StringArrayShown ==
  ASSUME NEW expected, NEW actual, NEW num \in Nat,
         NEW flags \in {"ARRAY_TO_ARRAY", "ARRAY_TO_VAL"},
         "NULL" \notin {expected.id, actual.id} => AreStrings(expected, actual, num, flags)
  PROVE  ShowsMismatch(UnityAssertEqualStringArray(expected, actual, num, flags))
<1> DEFINE e(i) == IF flags = "ARRAY_TO_ARRAY" THEN expected.cells[i + 1] ELSE expected.cells
           a(i) == actual.cells[i + 1]
           element(j) == IF num > 1 THEN <<j>> ELSE <<>>
           shown(z) == PrintString(z, Len(z))
           bad == {j \in 0..(num - 1) : StringsDiffer(e(j), a(j), Whole(e(j), a(j)))}
           reports == [j \in 0..(num - 1) |-> Fails("string", element(j), shown(e(j)), shown(a(j)))]
           outcome == FirstBad(bad, reports)
<1>1. UnityAssertEqualStringArray(expected, actual, num, flags)
        = Arrays(expected, actual, num, outcome)
  BY DEF UnityAssertEqualStringArray
<1>2. ASSUME NEW s, NEW t, IsString(s), IsString(t), s # t
      PROVE  shown(s) # shown(t) \/ Contains(shown(s), "\\")
  <2>1. Len(s) \in Nat /\ Len(t) \in Nat
    BY <1>2 DEF IsString
  <2>2. Start(s, Len(s)) = s /\ Start(t, Len(t)) = t
    BY <2>1 DEF Start
  <2>3. IF NullString \in {s, t} THEN s # t ELSE Start(s, Len(s)) # Start(t, Len(t))
    BY <1>2, <2>2
  <2>4. QED
    BY <1>2, <2>1, <2>3, StringsShown
<1>3. ASSUME "NULL" \notin {expected.id, actual.id} PROVE ShowsMismatch(outcome)
  <2>1. \A i \in 0..(num - 1) : IsString(a(i)) /\ IsString(e(i))
    BY <1>3 DEF AreStrings, ExpectedString
  <2> HIDE DEF e, a
  <2>2. bad \subseteq Nat
    OBVIOUS
  <2>3. ASSUME NEW i \in bad PROVE ShowsMismatch(reports[i])
    <3>1. IsString(e(i)) /\ IsString(a(i)) /\ e(i) # a(i)
      BY <2>1, WholeStringsDiffer
    <3>2. shown(e(i)) # shown(a(i)) \/ Contains(shown(e(i)), "\\")
      BY <1>2, <3>1
    <3>3. reports[i] = Fails("string", element(i), shown(e(i)), shown(a(i)))
      OBVIOUS
    <3> HIDE DEF reports, shown, element
    <3>4. QED
      BY <3>2, <3>3 DEF ShowsMismatch, Fails
  <2> HIDE DEF bad, reports
  <2>4. QED
    BY <2>2, <2>3, FirstBadShown
<1> HIDE DEF outcome
<1>4. QED
  BY <1>1, <1>3, ArraysShown
=============================================================================
