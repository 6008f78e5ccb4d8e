------------------------------ MODULE UnityRun ------------------------------
(***************************************************************************)
(* The run of a test program like test.c: UnityBegin, a RUN_TEST per test, *)
(* UnityEnd (unity.c).  setUp, a test and tearDown are called under        *)
(* setjmp, and whatever decides a test leaves them with longjmp; flags     *)
(* carry the decision to UnityConcludeTest.  One step of the program is    *)
(* one step here: a statement of a test calls one function of the          *)
(* framework.                                                              *)
(***************************************************************************)
EXTENDS UnityMeaning

CONSTANT Families   \* a sequence of sets of suites; the program is one of them

IsCode(c) == c \in Seq(Range(c))
ASSUME FamiliesAssumption ==
  \A f \in DOMAIN Families : \A s \in Families[f] :
    /\ IsCode(s.setUp) /\ IsCode(s.tearDown)
    /\ Len(s.tests) \in Nat /\ \A n \in 1..Len(s.tests) : IsCode(s.tests[n])

VARIABLES
  suite,        \* the program: [setUp, tests, tearDown]
  Unity,        \* the framework's counters and flags
  AbortFrame,   \* which TEST_PROTECT filled Unity.AbortFrame last
  pc, ip,       \* the function that runs, and its next statement
  out,          \* the lines printed
  result        \* what UnityEnd returned, -1 before

vars == <<suite, Unity, AbortFrame, pc, ip, out, result>>

Zero == [NumberOfTests |-> 0, TestFailures |-> 0, TestIgnores |-> 0,
         CurrentTestFailed |-> 0, CurrentTestIgnored |-> 0]

Init ==
  /\ \E f \in DOMAIN Families : suite \in Families[f]
  /\ Unity = Zero
  /\ AbortFrame = "none" /\ pc = "begin" /\ ip = 1
  /\ out = <<>> /\ result = -1

UnityBegin ==
  /\ pc = "begin" /\ pc' = "main"
  /\ Unity' = Zero
  /\ UNCHANGED <<suite, AbortFrame, ip, out, result>>

\* A line about the test that runs.
Line(line, fields) ==
  out' = Append(out, [line |-> line, test |-> Unity.NumberOfTests, fields |-> fields])
NoFields == <<>>

-----------------------------------------------------------------------------
(* UnityDefaultTestRun. *)

Enter(function, protect) == pc' = function /\ ip' = 1 /\ AbortFrame' = protect

\* Mutant: one test too many is run.
RunTest_OneMore ==
  /\ pc = "main" /\ Unity.NumberOfTests <= Len(suite.tests)
  /\ Unity' = [Unity EXCEPT !.NumberOfTests = @ + 1]
  /\ Enter("setUp", "first")
  /\ UNCHANGED <<suite, out, result>>
\* The test is counted, the first setjmp returns 0, setUp is called.
RunTest ==
  /\ pc = "main" /\ Unity.NumberOfTests < Len(suite.tests)
  /\ Unity' = [Unity EXCEPT !.NumberOfTests = @ + 1]
  /\ Enter("setUp", "first")
  /\ UNCHANGED <<suite, out, result>>

\* Mutant: setUp, the test and tearDown are under one setjmp.
TEST_ABORT_OneProtect == pc' = "conclude" /\ UNCHANGED <<AbortFrame, ip>>
\* longjmp to the last setjmp, which returns 1: what it guards is skipped.
TEST_ABORT ==
  \/ AbortFrame = "first" /\ Enter("tearDown", "second")
  \/ AbortFrame = "second" /\ pc' = "conclude" /\ UNCHANGED <<AbortFrame, ip>>

Code == IF pc = "test" THEN suite.tests[Unity.NumberOfTests] ELSE suite[pc]

\* The function that runs returns.
Return ==
  /\ pc \in {"setUp", "test", "tearDown"} /\ ip > Len(Code)
  /\ \/ pc = "setUp" /\ Enter("test", AbortFrame)
     \/ pc = "test" /\ Enter("tearDown", "second")
     \/ pc = "tearDown" /\ pc' = "conclude" /\ UNCHANGED <<AbortFrame, ip>>
  /\ UNCHANGED <<suite, Unity, out, result>>

\* Mutant: the flags of one test are there for the next.
UnityConcludeTest_FlagsKept ==
  /\ pc = "conclude" /\ pc' = "main"
  /\ Unity' = [Unity EXCEPT !.TestIgnores = @ + Unity.CurrentTestIgnored,
                            !.TestFailures = IF Unity.CurrentTestIgnored = 1 THEN @
                                             ELSE @ + Unity.CurrentTestFailed]
  /\ IF 1 \in {Unity.CurrentTestIgnored, Unity.CurrentTestFailed}
     THEN UNCHANGED out ELSE Line("PASS", NoFields)
  /\ UNCHANGED <<suite, AbortFrame, ip, result>>
UnityConcludeTest ==
  /\ pc = "conclude" /\ pc' = "main"
  /\ Unity' = [Unity EXCEPT !.TestIgnores = @ + Unity.CurrentTestIgnored,
                            !.TestFailures = IF Unity.CurrentTestIgnored = 1 THEN @
                                             ELSE @ + Unity.CurrentTestFailed,
                            !.CurrentTestFailed = 0, !.CurrentTestIgnored = 0]
  /\ IF 1 \in {Unity.CurrentTestIgnored, Unity.CurrentTestFailed}
     THEN UNCHANGED out ELSE Line("PASS", NoFields)
  /\ UNCHANGED <<suite, AbortFrame, ip, result>>

UnityEnd ==
  /\ pc = "main" /\ Unity.NumberOfTests = Len(suite.tests)
  /\ pc' = "end" /\ result' = Unity.TestFailures
  /\ UNCHANGED <<suite, Unity, AbortFrame, ip, out>>

-----------------------------------------------------------------------------
(* The statements of a test. *)

\* RETURN_IF_FAIL_OR_IGNORE jumps out when this holds.
Decided == 1 \in {Unity.CurrentTestFailed, Unity.CurrentTestIgnored}

Proceed == ip' = ip + 1 /\ UNCHANGED <<AbortFrame, pc>>

UNITY_FAIL_AND_BAIL ==
  /\ Unity' = [Unity EXCEPT !.CurrentTestFailed = 1]
  /\ TEST_ABORT

\* Mutant: UnityFail does not ask whether the test is decided.
UnityFail_Unasked == Line("FAIL", NoFields) /\ UNITY_FAIL_AND_BAIL
UnityFail ==
  \/ Decided /\ TEST_ABORT /\ UNCHANGED <<Unity, out>>
  \/ ~Decided /\ Line("FAIL", NoFields) /\ UNITY_FAIL_AND_BAIL

UnityIgnore ==
  \/ Decided /\ TEST_ABORT /\ UNCHANGED <<Unity, out>>
  \/ /\ ~Decided /\ Line("IGNORE", NoFields)
     /\ Unity' = [Unity EXCEPT !.CurrentTestIgnored = 1]
     /\ TEST_ABORT

UnityMessage(text) == Line("INFO", [text |-> text]) /\ Proceed /\ UNCHANGED Unity

\* The macro of an assertion calls the function that judges its arguments.
Judgement(a) ==
  CASE a.macro = "EQUAL"        -> TEST_ASSERT_EQUAL(a.type, a.expected, a.actual)
    [] a.macro = "COMPARE"      -> TEST_ASSERT_COMPARE(a.compare, a.type, a.expected, a.actual)
    [] a.macro = "WITHIN"       -> TEST_ASSERT_WITHIN(a.type, a.delta, a.expected, a.actual)
    [] a.macro = "BITS"         -> UnityAssertBits(a.mask, a.expected, a.actual)
    [] a.macro = "EQUAL_ARRAY"  -> TEST_ASSERT_EQUAL_ARRAY(a.type, a.expected, a.actual, a.num)
    [] a.macro = "EACH_EQUAL"   -> TEST_ASSERT_EACH_EQUAL(a.type, a.expected, a.actual, a.num)
    [] a.macro = "ARRAY_WITHIN" ->
         TEST_ASSERT_ARRAY_WITHIN(a.type, a.delta, a.expected, a.actual, a.num)
    [] a.macro = "EQUAL_STRING" -> UnityAssertEqualString(a.expected, a.actual)
    [] a.macro = "EQUAL_STRING_LEN" -> UnityAssertEqualStringLen(a.expected, a.actual, a.length)
    [] a.macro = "EQUAL_STRING_ARRAY" ->
         UnityAssertEqualStringArray(a.expected, a.actual, a.num, "ARRAY_TO_ARRAY")
    [] a.macro = "EACH_EQUAL_STRING" ->
         UnityAssertEqualStringArray(a.expected, a.actual, a.num, "ARRAY_TO_VAL")
    [] a.macro = "EQUAL_MEMORY" ->
         UnityAssertEqualMemory(a.expected, a.actual, a.length, a.num, "ARRAY_TO_ARRAY")
    [] a.macro = "EACH_EQUAL_MEMORY" ->
         UnityAssertEqualMemory(a.expected, a.actual, a.length, a.num, "ARRAY_TO_VAL")
    [] a.macro = "FLOAT_WITHIN" -> UnityAssertFloatsWithin(a.delta, 1, a.expected, a.actual)
    [] a.macro = "EQUAL_FLOAT"  -> TEST_ASSERT_EQUAL_FLOAT(a.expected, a.actual)
    [] a.macro = "EQUAL_FLOAT_ARRAY" ->
         UnityAssertEqualFloatArray(a.expected, a.actual, a.num, "ARRAY_TO_ARRAY")
    [] a.macro = "EACH_EQUAL_FLOAT" -> TEST_ASSERT_EACH_EQUAL_FLOAT(a.expected, a.actual, a.num)
    [] a.macro = "FLOAT_IS"     -> UnityAssertFloatSpecial(a.actual, a.trait, a.should_be)

UnityAssert(a) ==
  \/ Decided /\ TEST_ABORT /\ UNCHANGED <<Unity, out>>
  \/ ~Decided /\ Judgement(a).holds /\ Proceed /\ UNCHANGED <<Unity, out>>
  \/ /\ ~Decided /\ ~Judgement(a).holds
     /\ Line("FAIL", [report |-> Judgement(a).report])
     /\ UNITY_FAIL_AND_BAIL

\* TEST_ASSERT and its kin ask nothing of the framework when they hold.
UNITY_TEST_ASSERT(condition) ==
  \/ condition /\ Proceed /\ UNCHANGED <<Unity, out>>
  \/ ~condition /\ UnityFail

\* TEST_PASS() is TEST_ABORT().
TEST_PASS == TEST_ABORT /\ UNCHANGED <<Unity, out>>

Statement ==
  /\ pc \in {"setUp", "test", "tearDown"} /\ ip <= Len(Code)
  /\ LET stmt == Code[ip]
     IN  \/ stmt.do = "assert" /\ UnityAssert(stmt.assertion)
         \/ stmt.do = "condition" /\ UNITY_TEST_ASSERT(stmt.true)
         \/ stmt.do = "fail" /\ UnityFail
         \/ stmt.do = "ignore" /\ UnityIgnore
         \/ stmt.do = "pass" /\ TEST_PASS
         \/ stmt.do = "message" /\ UnityMessage(stmt.text)
  /\ UNCHANGED <<suite, result>>

\* main has returned: the one state the program may stop in.
Terminated == pc = "end" /\ UNCHANGED vars

Next ==
  UnityBegin \/ RunTest \/ Statement \/ Return \/ UnityConcludeTest \/ UnityEnd \/ Terminated

Spec == Init /\ [][Next]_vars
-----------------------------------------------------------------------------
(* Properties. *)

\* The lines that give a verdict, by their place in the output.
LinesOf(words) == {m \in DOMAIN out : out[m].line \in words}
Verdicts == LinesOf({"PASS", "FAIL", "IGNORE"})
Judged == {out[m].test : m \in Verdicts}

\* The counters never run past the tests of the program, a flag is 0 or 1, and
\* the setjmp to return to is always one of the two of UnityDefaultTestRun when
\* code of a test runs (unity.c UnityDefaultTestRun, UNITY_STORAGE_T).
TypeOK ==
  /\ Unity.NumberOfTests \in 0..Len(suite.tests)
  /\ Unity.TestFailures + Unity.TestIgnores \in 0..Unity.NumberOfTests
  /\ {Unity.CurrentTestFailed, Unity.CurrentTestIgnored} \subseteq {0, 1}
  /\ pc \in {"begin", "main", "setUp", "test", "tearDown", "conclude", "end"}
  /\ pc \in {"setUp", "test"} => AbortFrame = "first"
  /\ pc \in {"tearDown", "conclude"} => AbortFrame = "second"

\* Between tests, the counters UnityEnd prints agree with the lines a reader of
\* the output counts: each test has its line, each failure and each ignored test
\* one of its kind (unity.c UnityConcludeTest, UnityEnd).
CountsMatchReport ==
  pc \in {"main", "end"} =>
    /\ Unity.NumberOfTests = Cardinality(Verdicts)
    /\ Unity.TestFailures = Cardinality(LinesOf({"FAIL"}))
    /\ Unity.TestIgnores = Cardinality(LinesOf({"IGNORE"}))

\* No test is reported twice and none is passed over, whatever its setUp and
\* tearDown assert after something has decided it (unity.c
\* RETURN_IF_FAIL_OR_IGNORE, UnityConcludeTest).
OneVerdict ==
  /\ \A m, k \in Verdicts : m < k => out[m].test < out[k].test
  /\ Judged \in {1..(Unity.NumberOfTests - 1), 1..Unity.NumberOfTests}

\* However a test ends, by return or by a longjmp out of setUp or of its body,
\* it is concluded only out of its tearDown, which is entered once per test
\* (unity.c UnityDefaultTestRun, the second TEST_PROTECT).
TearDownRuns ==
  [][/\ pc' = "conclude" => pc = "tearDown"
     /\ pc' = "tearDown" /\ pc # "tearDown" => pc \in {"setUp", "test"}]_vars

\* A report of two numbers, bytes or strings that differ prints two texts that
\* differ: no cast or mask on the way to the printer hides the difference
\* (unity.c UnityAssertEqualIntArray, UnityPrintNumberByStyle).  Strings with a
\* backslash are left out: an escaped character prints as two.
ReportShowsMismatch ==
  \A n \in DOMAIN out :
    "report" \in DOMAIN out[n].fields =>
      LET r == out[n].fields.report
      IN  \/ r.what \notin {"number", "memory", "string"}
          \/ r.expected # r.actual
          \/ Contains(r.expected, "\\")

\* The abstract suite: each test is judged once, in order, by the first thing
\* in it that decides, an assertion by what its name says of its arguments; the
\* result counts the failures.
verdicts == [n \in Judged |-> out[CHOOSE m \in Verdicts : out[m].test = n].line]
TS == INSTANCE TestSuite WITH
        judged <- verdicts, failures <- result
ImplementsTestSuite == TS!Spec

\* Every verdict is the one the names of the assertions promise.
VerdictsMean == \A m \in Verdicts : out[m].line = TS!Verdict(out[m].test)
=============================================================================
