------------------------------ MODULE MCUnity ------------------------------
(***************************************************************************)
(* Test programs for UnityRun: one family of programs with a single        *)
(* assertion per group of macros, and one whose functions are made of      *)
(* every statement.  Bytes have ByteBits = 2 bits, so the boundaries of an *)
(* 8-, 16-, 32- and 64-bit integer are those of 2, 4, 8 and 16 bits.       *)
(***************************************************************************)
EXTENDS UnityRun

Programs(assertions) ==
  {[setUp |-> <<>>, tearDown |-> <<>>,
    tests |-> <<<<[do |-> "assert", assertion |-> a]>>>>] : a \in assertions}

\* Arguments of a macro for one value: around 0 and the bounds of each width.
Ints == {-32768, -129, -128, -3, -2, -1, 0, 1, 2, 3, 7, 8, 127, 128, 32767}
Few == {-32768, -128, -2, -1, 0, 1, 2, 128, 32767}
Deltas == {0, 1, 3, 15, 129, 32768, 65535}
Types == {"INT8", "INT16", "INT32", "INT64", "INT", "UINT8", "UINT16", "UINT32", "UINT64",
          "UINT", "HEX8", "HEX16", "HEX32", "HEX64", "HEX", "PTR", "size_t", "CHAR"}
Ordering == Types \ {"PTR", "HEX"}

Scalars ==
  Programs([macro : {"EQUAL"}, type : Types, expected : Ints, actual : Ints]
    \cup [macro : {"COMPARE"}, compare : DOMAIN UNITY_COMPARISON_T, type : Ordering,
          expected : Few, actual : Few]
    \cup {a \in [macro : {"WITHIN"}, type : Types \ {"PTR"}, delta : Deltas,
                 expected : Few, actual : Few] : a.delta < Modulus(SizeOf(a.type))}
    \cup [macro : {"BITS"}, mask : {-1, 0, 3, 128, -32768}, expected : Few, actual : Few])

\* Arrays of two elements, at two places in memory.
Array(id, elements, type) ==
  [id |-> id, cells |-> FlattenSeq([i \in DOMAIN elements |-> BytesOf(elements[i], SizeOf(type))])]
Cells == {<<0, n>> : n \in {-128, -2, -1, 0, 1}} \cup {<<1, 0>>}
Pairs(type) ==
  {<<Array("expected", s, type), Array("actual", t, type)>> : s, t \in Cells}
  \cup {<<Array("actual", s, type), Array("actual", s, type)>> : s \in Cells}
  \cup {<<NULL, Array("actual", <<0, 0>>, type)>>, <<Array("expected", <<0, 0>>, type), NULL>>,
        <<NULL, NULL>>}

ArrayAssertions(types, withinTypes, deltas) ==
  UNION {{[macro |-> "EQUAL_ARRAY", type |-> t, expected |-> p[1], actual |-> p[2], num |-> n] :
            p \in Pairs(t), n \in 0..2} : t \in types}
  \cup UNION {{[macro |-> "ARRAY_WITHIN", type |-> t, delta |-> d,
                expected |-> p[1], actual |-> p[2], num |-> n] :
                 p \in Pairs(t), n \in 0..2, d \in deltas} : t \in withinTypes}
\* The types whose arrays are read as what they are (see UnityArrays.cfg).
IntArrayPrograms ==
  Programs(ArrayAssertions(Types \ {"size_t"},
                           (SignedTypes \cup {"UINT64", "HEX64"}), {0, 1, 3}))
EachEqual ==
  Programs(UNION {{[macro |-> "EACH_EQUAL", type |-> t, expected |-> e,
                    actual |-> Array("actual", s, t), num |-> n] :
                     e \in Few, s \in Cells, n \in 0..2} : t \in Types \ {"size_t"}})

Chars == {"a", "b", "CR", "LF"}
Strings == UNION {[1..n -> Chars] : n \in 0..2} \cup {NullString}
ShortStrings == UNION {[1..n -> {"a", "LF"}] : n \in 0..1} \cup {NullString}
StringPointers(id) == {[id |-> id, cells |-> <<s, t>>] : s, t \in ShortStrings} \cup {NULL}

StringPrograms ==
  Programs([macro : {"EQUAL_STRING"}, expected : Strings, actual : Strings]
    \cup [macro : {"EQUAL_STRING_LEN"}, expected : Strings, actual : Strings, length : 0..2])
StringArrays ==
  Programs([macro : {"EQUAL_STRING_ARRAY"}, num : 0..2, expected : StringPointers("expected"),
            actual : StringPointers("actual") \cup StringPointers("expected")]
    \cup [macro : {"EACH_EQUAL_STRING"}, num : 0..2,
          expected : {[id |-> "expected", cells |-> s] : s \in ShortStrings \ {NullString}},
          actual : StringPointers("actual")])

Bytes(id) ==
  {[id |-> id, cells |-> s] : s \in {<<0, 3, 0, 3>>, <<0, 3, 0, 0>>, <<0, 0, 0, 0>>, <<0, 3, 3, 3>>}}
  \cup {NULL}
Memory ==
  Programs([macro : {"EQUAL_MEMORY", "EACH_EQUAL_MEMORY"}, length : 0..2, num : 0..2,
            expected : Bytes("expected"), actual : Bytes("actual") \cup Bytes("expected")])

Floats == {Finite(n) : n \in {-8, -4, 0, 1, 3, 4, 5, 8}} \cup {Inf(1), Inf(-1), NaN}
FloatPointers(id) ==
  {[id |-> id, cells |-> <<f, g>>] : f, g \in {Finite(4), Finite(5), NaN}}
  \cup {NULL}
FloatPrograms ==
  Programs([macro : {"EQUAL_FLOAT"}, expected : Floats, actual : Floats]
    \cup [macro : {"FLOAT_WITHIN"}, delta : Floats \ {NaN}, expected : Floats, actual : Floats]
    \cup [macro : {"FLOAT_IS"}, actual : Floats, trait : {"INF", "NEG_INF", "NAN", "DET"},
          should_be : BOOLEAN])
FloatArrays ==
  Programs([macro : {"EQUAL_FLOAT_ARRAY"}, num : 0..2, expected : FloatPointers("expected"),
            actual : FloatPointers("actual") \cup FloatPointers("expected")]
    \cup [macro : {"EACH_EQUAL_FLOAT"}, num : 0..2, expected : Floats,
          actual : FloatPointers("actual")])

\* Programs of two tests, with what can decide a test in each of its functions.
Deciding == {[do |-> "fail"], [do |-> "ignore"], [do |-> "pass"],
             [do |-> "condition", true |-> TRUE], [do |-> "condition", true |-> FALSE]}
               \cup {[do |-> "assert",
                      assertion |-> [macro |-> "EQUAL", type |-> "INT", expected |-> 1, actual |-> n]] :
                       n \in 1..2}
Says(text) == [do |-> "message", text |-> text]
Bodies == {<<>>, <<[do |-> "ignore"], [do |-> "fail"]>>, <<[do |-> "condition", true |-> TRUE], [do |-> "fail"]>>}
            \cup {<<s, Says("test")>> : s \in Deciding}
Control ==
  [setUp : {<<>>} \cup {<<s>> : s \in Deciding},
   tests : {<<b, c>> : b \in Bodies, c \in {<<>>, <<[do |-> "fail"]>>}},
   tearDown : {<<>>} \cup {<<Says("tearDown"), s>> : s \in Deciding}]

MCFamilies == <<Scalars, IntArrayPrograms, EachEqual, StringPrograms, StringArrays, Memory,
                FloatPrograms, FloatArrays, Control>>

\* The arrays whose elements are read as something else: unsigned ones shorter
\* than 64 bits, compared by distance, and those of size_t.
MCNarrowUnsigned ==
  <<Programs(ArrayAssertions({"size_t"}, {"UINT8", "UINT16", "UINT32", "HEX8"}, {1}))>>
=============================================================================
