--------------------------- MODULE UnityRunProofs ---------------------------
(***************************************************************************)
(* The framework judges every test once, by the first statement in it     *)
(* that decides, whatever flags and jumps that takes, and its counters     *)
(* agree with the lines it prints.  A program of well-typed assertions     *)
(* does what TestSuite says, and its reports show what they are about.     *)
(***************************************************************************)
EXTENDS UnityRun, UnityAssertsProofs, FiniteSetTheorems, FunctionTheorems, SequenceTheorems, TLAPS

Running == {"setUp", "test", "tearDown", "conclude"}

Counters ==
  [NumberOfTests : Nat, TestFailures : Nat, TestIgnores : Nat,
   CurrentTestFailed : {0, 1}, CurrentTestIgnored : {0, 1}]

\* TypeOK, with what it leaves open while a test runs: that test is counted, but
\* not yet among the failed or the ignored, and its flags are down in between.
IInv ==
  /\ Len(suite.tests) \in Nat
  /\ Unity \in Counters
  /\ pc \in {"begin", "main", "end"} \cup Running
  /\ Unity.NumberOfTests <= Len(suite.tests)
  /\ pc \notin Running => Unity.TestFailures + Unity.TestIgnores <= Unity.NumberOfTests
  /\ pc \in Running => Unity.TestFailures + Unity.TestIgnores < Unity.NumberOfTests
  /\ pc \in {"setUp", "test"} => AbortFrame = "first"
  /\ pc \in {"tearDown", "conclude"} => AbortFrame = "second"

\* Before UnityBegin nothing is counted (static storage).
LEMMA InitIInv == Init => IInv
BY FamiliesAssumption DEF Init, IInv, Zero, Counters, Running

\* longjmp goes to tearDown from setUp and the body, to the end from tearDown.
LEMMA AbortGoes ==
  ASSUME IInv, pc \in {"setUp", "test", "tearDown"}, TEST_ABORT
  PROVE  \/ pc \in {"setUp", "test"} /\ pc' = "tearDown" /\ AbortFrame' = "second"
         \/ pc = "tearDown" /\ pc' = "conclude" /\ AbortFrame' = "second"
BY DEF IInv, TEST_ABORT, Enter

\* What a statement does to the flags and the place in the program: it proceeds
\* with no change, or decides the test, or finds it decided, and jumps.
LEMMA StatementCases ==
  ASSUME Statement
  PROVE  /\ pc \in {"setUp", "test", "tearDown"} /\ UNCHANGED suite
         /\ \/ Proceed /\ UNCHANGED Unity
            \/ TEST_ABORT /\ UNCHANGED Unity
            \/ TEST_ABORT /\ Unity' = [Unity EXCEPT !.CurrentTestFailed = 1]
            \/ TEST_ABORT /\ Unity' = [Unity EXCEPT !.CurrentTestIgnored = 1]
<1> DEFINE Goal == \/ Proceed /\ UNCHANGED Unity
                   \/ TEST_ABORT /\ UNCHANGED Unity
                   \/ TEST_ABORT /\ Unity' = [Unity EXCEPT !.CurrentTestFailed = 1]
                   \/ TEST_ABORT /\ Unity' = [Unity EXCEPT !.CurrentTestIgnored = 1]
<1>1. UnityFail => Goal
  BY DEF UnityFail, UNITY_FAIL_AND_BAIL
<1>2. UnityIgnore => Goal
  BY DEF UnityIgnore
<1>3. ASSUME NEW a, UnityAssert(a) PROVE Goal
  BY <1>3 DEF UnityAssert, UNITY_FAIL_AND_BAIL
<1>4. ASSUME NEW c, UNITY_TEST_ASSERT(c) PROVE Goal
  BY <1>1, <1>4 DEF UNITY_TEST_ASSERT
<1>5. TEST_PASS => Goal
  BY DEF TEST_PASS
<1>6. ASSUME NEW t, UnityMessage(t) PROVE Goal
  BY <1>6 DEF UnityMessage
<1>7. QED
  BY <1>1, <1>2, <1>3, <1>4, <1>5, <1>6 DEF Statement

\* A statement keeps the counters, and the frame goes with the function.
LEMMA StatementIInv == IInv /\ Statement => IInv'
<1> SUFFICES ASSUME IInv, Statement PROVE IInv'
  OBVIOUS
<1> USE DEF IInv, Counters, Running
<1>1. CASE Proceed /\ UNCHANGED Unity
  BY <1>1, StatementCases DEF Proceed
<1>2. CASE TEST_ABORT /\ UNCHANGED Unity
  BY <1>2, StatementCases, AbortGoes
<1>3. CASE TEST_ABORT /\ Unity' = [Unity EXCEPT !.CurrentTestFailed = 1]
  BY <1>3, StatementCases, AbortGoes
<1>4. CASE TEST_ABORT /\ Unity' = [Unity EXCEPT !.CurrentTestIgnored = 1]
  BY <1>4, StatementCases, AbortGoes
<1>5. QED
  BY <1>1, <1>2, <1>3, <1>4, StatementCases

\* So does every other step of the program.
LEMMA NextIInv == IInv /\ [Next]_vars => IInv'
<1> SUFFICES ASSUME IInv, [Next]_vars PROVE IInv'
  OBVIOUS
<1> USE DEF IInv, Counters, Running, Enter
<1>1. CASE UnityBegin
  BY <1>1 DEF UnityBegin, Zero
<1>2. CASE RunTest
  BY <1>2 DEF RunTest
<1>3. CASE Statement
  BY <1>3, StatementIInv
<1>4. CASE Return
  BY <1>4 DEF Return
<1>5. CASE UnityConcludeTest
  <2>1. /\ pc = "conclude" /\ pc' = "main" /\ UNCHANGED <<suite, AbortFrame>>
        /\ Unity' = [Unity EXCEPT !.TestIgnores = @ + Unity.CurrentTestIgnored,
                                  !.TestFailures = IF Unity.CurrentTestIgnored = 1 THEN @
                                                   ELSE @ + Unity.CurrentTestFailed,
                                  !.CurrentTestFailed = 0, !.CurrentTestIgnored = 0]
    BY <1>5 DEF UnityConcludeTest
  <2>2. Unity' \in Counters
    <3>1. /\ Unity.TestIgnores + Unity.CurrentTestIgnored \in Nat
          /\ Unity.TestFailures + Unity.CurrentTestFailed \in Nat
      OBVIOUS
    <3>2. QED
      BY <2>1, <3>1, Zenon
  <2>3. /\ Unity'.NumberOfTests = Unity.NumberOfTests
        /\ Unity'.TestFailures + Unity'.TestIgnores
             <= Unity.TestFailures + Unity.TestIgnores + 1
    BY <2>1
  <2>4. QED
    BY <2>1, <2>2, <2>3
<1>6. CASE UnityEnd
  BY <1>6 DEF UnityEnd
<1>7. CASE UNCHANGED vars
  BY <1>7 DEF vars
<1>8. QED
  BY <1>1, <1>2, <1>3, <1>4, <1>5, <1>6, <1>7 DEF Next, Terminated

\* It holds in every reachable state.
LEMMA Inductive == Spec => []IInv
BY InitIInv, NextIInv, PTL DEF Spec

\* For every test program, the counters never run past its tests and longjmp
\* never leaves for another setjmp than that of the function that runs (unity.c
\* UnityDefaultTestRun, UnityConcludeTest).
THEOREM CountersCorrect == Spec => []TypeOK
<1>1. IInv => TypeOK
  BY DEF IInv, Counters, Running, TypeOK
<1>2. QED
  BY <1>1, Inductive, PTL

\* For every test program, no test is concluded before its tearDown was entered,
\* and none enters it twice (unity.c UnityDefaultTestRun).
THEOREM TearDownAlwaysRuns == Spec => TearDownRuns
<1> DEFINE Right == /\ pc' = "conclude" => pc = "tearDown"
                    /\ pc' = "tearDown" /\ pc # "tearDown" => pc \in {"setUp", "test"}
<1>1. ASSUME IInv, [Next]_vars PROVE [Right]_vars
  <2> SUFFICES ASSUME Next, ~UNCHANGED vars PROVE Right
    BY <1>1
  <2>1. CASE UnityBegin
    BY <2>1 DEF UnityBegin
  <2>2. CASE RunTest
    BY <2>2 DEF RunTest, Enter
  <2>3. CASE Statement
    BY <1>1, <2>3, StatementCases, AbortGoes DEF Proceed
  <2>4. CASE Return
    BY <2>4 DEF Return, Enter
  <2>5. CASE UnityConcludeTest
    BY <2>5 DEF UnityConcludeTest
  <2>6. CASE UnityEnd
    BY <2>6 DEF UnityEnd
  <2>7. QED
    BY <2>1, <2>2, <2>3, <2>4, <2>5, <2>6 DEF Next, Terminated
<1>2. QED
  BY <1>1, Inductive, PTL DEF Spec, TearDownRuns

-----------------------------------------------------------------------------
(* The report. *)

\* The tests whose verdict is printed: not the one that runs while it is open.
Closed == IF pc \in Running /\ ~Decided THEN Unity.NumberOfTests - 1 ELSE Unity.NumberOfTests

\* The report keeps up with the counters and the flags.
Report ==
  /\ \E S : out \in Seq(S)
  /\ ~(Unity.CurrentTestFailed = 1 /\ Unity.CurrentTestIgnored = 1)
  /\ pc \notin Running => ~Decided
  /\ pc \in {"setUp", "test"} => ~Decided
  /\ pc = "begin" => Unity = Zero
  /\ Judged = 1..Closed
  /\ \A m, k \in Verdicts : m < k => out[m].test < out[k].test
  /\ IsFiniteSet(Verdicts) /\ Cardinality(Verdicts) = Closed
  /\ Cardinality(LinesOf({"FAIL"})) = Unity.TestFailures + Unity.CurrentTestFailed
  /\ Cardinality(LinesOf({"IGNORE"})) = Unity.TestIgnores + Unity.CurrentTestIgnored

LEMMA AppendLine ==
  ASSUME NEW S, out \in Seq(S), NEW line, NEW fields, Line(line, fields)
  PROVE  /\ \E T : out' \in Seq(T)
         /\ Len(out) \in Nat /\ DOMAIN out = 1..Len(out) /\ DOMAIN out' = 1..(Len(out) + 1)
         /\ \A m \in 1..Len(out) : out'[m] = out[m]
         /\ out'[Len(out) + 1].line = line /\ out'[Len(out) + 1].test = Unity.NumberOfTests
         /\ out'[Len(out) + 1].fields = fields
<1> DEFINE r == [line |-> line, test |-> Unity.NumberOfTests, fields |-> fields]
           T == S \union {r}
<1>1. out' = Append(out, r)
  BY DEF Line
<1>2. r.line = line /\ r.test = Unity.NumberOfTests /\ r.fields = fields
  OBVIOUS
<1> HIDE DEF r
<1>3. out \in Seq(T) /\ r \in T
  BY SeqMonotonic
<1> HIDE DEF T
<1>4. /\ Append(out, r) \in Seq(T) /\ Len(Append(out, r)) = Len(out) + 1
      /\ \A m \in 1..Len(out) : Append(out, r)[m] = out[m]
      /\ Append(out, r)[Len(out) + 1] = r
  BY <1>3, AppendProperties
<1>5. Len(out) \in Nat /\ DOMAIN out = 1..Len(out)
  BY <1>3, LenProperties
<1>6. DOMAIN out' = 1..(Len(out) + 1)
  BY <1>1, <1>4, LenProperties
<1>7. QED
  BY <1>1, <1>2, <1>4, <1>5, <1>6

\* A line adds to those of its kind, and to no other.
LEMMA LinesAfter ==
  ASSUME NEW S, out \in Seq(S), NEW line, NEW fields, Line(line, fields), NEW words
  PROVE  /\ LinesOf(words)' = IF line \in words THEN LinesOf(words) \union {Len(out) + 1}
                              ELSE LinesOf(words)
         /\ Len(out) + 1 \notin LinesOf(words)
         /\ \A m \in LinesOf(words) : m \in 1..Len(out) /\ out'[m] = out[m]
<1>1. /\ Len(out) \in Nat /\ DOMAIN out = 1..Len(out) /\ DOMAIN out' = 1..(Len(out) + 1)
      /\ \A m \in 1..Len(out) : out'[m] = out[m]
      /\ out'[Len(out) + 1].line = line
  BY AppendLine
<1>2. LinesOf(words)' = {m \in DOMAIN out' : out'[m].line \in words}
  BY DEF LinesOf
<1>3. \A m : m \in 1..(Len(out) + 1) <=> m \in 1..Len(out) \/ m = Len(out) + 1
  BY <1>1
<1>4. LinesOf(words) = {m \in DOMAIN out : out[m].line \in words}
  BY DEF LinesOf
<1>5. \A m : m \in LinesOf(words)' <=> m \in LinesOf(words) \/ (m = Len(out) + 1 /\ line \in words)
  BY <1>1, <1>2, <1>3, <1>4
<1>6. Len(out) + 1 \notin 1..Len(out)
  BY <1>1
<1>7. QED
  BY <1>1, <1>4, <1>5, <1>6

\* A verdict line about the test that runs.
LEMMA VerdictLine ==
  ASSUME IInv, Report, NEW line \in {"PASS", "FAIL", "IGNORE"}, NEW fields, Line(line, fields),
         pc \in Running, ~Decided
  PROVE  LET new == Len(out) + 1
         IN  /\ \E T : out' \in Seq(T)
             /\ Verdicts' = Verdicts \union {new} /\ new \notin Verdicts
             /\ out'[new].line = line /\ out'[new].test = Unity.NumberOfTests
             /\ \A m \in Verdicts : m < new /\ out'[m] = out[m]
             /\ Judged' = 1..Unity.NumberOfTests
             /\ \A m, k \in Verdicts' : m < k => out'[m].test < out'[k].test
             /\ IsFiniteSet(Verdicts') /\ Cardinality(Verdicts') = Unity.NumberOfTests
             /\ Cardinality(LinesOf({"FAIL"}))'
                  = Unity.TestFailures + (IF line = "FAIL" THEN 1 ELSE 0)
             /\ Cardinality(LinesOf({"IGNORE"}))'
                  = Unity.TestIgnores + (IF line = "IGNORE" THEN 1 ELSE 0)
<1> DEFINE new == Len(out) + 1
           N == Unity.NumberOfTests
           words == {"PASS", "FAIL", "IGNORE"}
<1>1. PICK S : out \in Seq(S)
  BY DEF Report
<1>2. /\ \E T : out' \in Seq(T) /\ Len(out) \in Nat
      /\ out'[new].line = line /\ out'[new].test = N
  BY <1>1, AppendLine
<1>3. Verdicts = LinesOf(words) /\ Verdicts' = LinesOf(words)'
  BY DEF Verdicts
<1>4. /\ LinesOf(words)' = IF line \in words THEN LinesOf(words) \union {new} ELSE LinesOf(words)
      /\ new \notin LinesOf(words)
      /\ \A m \in LinesOf(words) : m \in 1..Len(out) /\ out'[m] = out[m]
  <2> HIDE DEF words
  <2>1. QED
    BY <1>1, LinesAfter
<1>5. Verdicts' = Verdicts \union {new} /\ new \notin Verdicts
  BY <1>3, <1>4
<1>6. \A m \in Verdicts : m < new /\ out'[m] = out[m]
  BY <1>2, <1>3, <1>4
<1>7. N \in Nat \ {0} /\ Closed = N - 1 /\ Unity.TestFailures \in Nat /\ Unity.TestIgnores \in Nat
  BY DEF IInv, Counters, Running, Closed
<1>8. /\ Judged = 1..(N - 1) /\ IsFiniteSet(Verdicts) /\ Cardinality(Verdicts) = N - 1
      /\ \A m, k \in Verdicts : m < k => out[m].test < out[k].test
  BY <1>7 DEF Report
<1>9. Judged' = {out'[m].test : m \in Verdicts'} /\ Judged = {out[m].test : m \in Verdicts}
  BY DEF Judged
<1> HIDE DEF new, N, words
<1>10. Judged' = Judged \union {N}
  BY <1>2, <1>5, <1>6, <1>9
<1>11. Judged' = 1..N
  BY <1>7, <1>8, <1>10
<1>12. \A m \in Verdicts : out[m].test \in 1..(N - 1)
  BY <1>8, <1>9
<1>13. \A m, k \in Verdicts' : m < k => out'[m].test < out'[k].test
  <2> SUFFICES ASSUME NEW m \in Verdicts', NEW k \in Verdicts', m < k
               PROVE  out'[m].test < out'[k].test
    OBVIOUS
  <2>1. CASE m \in Verdicts /\ k \in Verdicts
    BY <1>6, <1>8, <2>1
  <2>2. CASE m \in Verdicts /\ k = new
    BY <1>2, <1>6, <1>7, <1>12, <2>2
  <2>3. CASE m = new /\ k \in Verdicts
    <3>1. k < new /\ new < k
      BY <1>6, <2>3
    <3>2. k \in Nat /\ new \in Nat
      BY <1>2, <1>3, <1>4, <2>3 DEF new
    <3>3. QED
      BY <3>1, <3>2
  <2>4. CASE m = new /\ k = new
    BY <1>2, <2>4 DEF new
  <2>5. QED
    BY <1>5, <2>1, <2>2, <2>3, <2>4
<1>14. IsFiniteSet(Verdicts') /\ Cardinality(Verdicts') = N
  <2>1. IsFiniteSet(Verdicts \union {new}) /\ Cardinality(Verdicts \union {new}) = Cardinality(Verdicts) + 1
    BY <1>5, <1>8, FS_AddElement
  <2>2. QED
    BY <1>5, <1>7, <1>8, <2>1
<1>15. ASSUME NEW word \in words
       PROVE  Cardinality(LinesOf({word}))'
                = Cardinality(LinesOf({word})) + (IF line = word THEN 1 ELSE 0)
  <2>1. /\ LinesOf({word})' = IF line \in {word} THEN LinesOf({word}) \union {new}
                              ELSE LinesOf({word})
        /\ new \notin LinesOf({word})
    BY <1>1, LinesAfter DEF new
  <2>2. IsFiniteSet(LinesOf({word}))
    <3>1. LinesOf({word}) \subseteq Verdicts
      BY DEF Verdicts, LinesOf, words
    <3>2. QED
      BY <1>8, <3>1, FS_Subset
  <2>3. Cardinality(LinesOf({word})) \in Nat
    BY <2>2, FS_CardinalityType
  <2>4. Cardinality(LinesOf({word}) \union {new}) = Cardinality(LinesOf({word})) + 1
    BY <2>1, <2>2, FS_AddElement
  <2>5. CASE line = word
    BY <2>1, <2>4, <2>5
  <2>6. CASE line # word
    BY <2>1, <2>3, <2>6
  <2>7. QED
    BY <2>5, <2>6
<1>16. ~(Unity.CurrentTestFailed = 1) /\ ~(Unity.CurrentTestIgnored = 1)
  BY DEF Decided
<1>17. /\ Cardinality(LinesOf({"FAIL"})) = Unity.TestFailures
       /\ Cardinality(LinesOf({"IGNORE"})) = Unity.TestIgnores
  <2>1. Unity.CurrentTestFailed = 0 /\ Unity.CurrentTestIgnored = 0
    BY <1>16 DEF IInv, Counters
  <2>2. QED
    BY <1>7, <2>1 DEF Report
<1>18. /\ Cardinality(LinesOf({"FAIL"}))' = Unity.TestFailures + (IF line = "FAIL" THEN 1 ELSE 0)
       /\ Cardinality(LinesOf({"IGNORE"}))' = Unity.TestIgnores + (IF line = "IGNORE" THEN 1 ELSE 0)
  BY <1>15, <1>17 DEF words
<1>19. QED
  BY <1>2, <1>5, <1>6, <1>11, <1>13, <1>14, <1>18 DEF new, N

\* The judgement of an assertion is what its name says.
Right(stmt) ==
  stmt.do = "assert" => (Judgement(stmt.assertion).holds <=> Means(stmt.assertion))

Goes(decides, right) ==
  \/ /\ Proceed /\ UNCHANGED <<Unity, out>>
     /\ ~Decided /\ right => decides = ""
  \/ /\ Proceed /\ UNCHANGED Unity /\ \E fields : Line("INFO", fields)
     /\ right => decides = ""
  \/ /\ TEST_ABORT /\ UNCHANGED <<Unity, out>>
     /\ ~Decided /\ right => decides = "PASS"
  \/ /\ ~Decided /\ TEST_ABORT /\ Unity' = [Unity EXCEPT !.CurrentTestFailed = 1]
     /\ \E fields : Line("FAIL", fields)
     /\ right => decides = "FAIL"
  \/ /\ ~Decided /\ TEST_ABORT /\ Unity' = [Unity EXCEPT !.CurrentTestIgnored = 1]
     /\ \E fields : Line("IGNORE", fields)
     /\ right => decides = "IGNORE"

\* A statement goes on, says something, jumps, or decides the test, as the
\* abstract suite says it does.
LEMMA StatementGoes ==
  ASSUME Statement
  PROVE  /\ pc \in {"setUp", "test", "tearDown"} /\ ip <= Len(Code)
         /\ UNCHANGED <<suite, result>>
         /\ Goes(TS!Decides(Code[ip]), Right(Code[ip]))
<1> DEFINE stmt == Code[ip]
           D == TS!Decides(stmt)
<1>1. /\ pc \in {"setUp", "test", "tearDown"} /\ ip <= Len(Code) /\ UNCHANGED <<suite, result>>
      /\ \/ stmt.do = "assert" /\ UnityAssert(stmt.assertion)
         \/ stmt.do = "condition" /\ UNITY_TEST_ASSERT(stmt.true)
         \/ stmt.do = "fail" /\ UnityFail
         \/ stmt.do = "ignore" /\ UnityIgnore
         \/ stmt.do = "pass" /\ TEST_PASS
         \/ stmt.do = "message" /\ UnityMessage(stmt.text)
  BY DEF Statement
<1> HIDE DEF stmt
<1>2. ASSUME stmt.do = "assert", UnityAssert(stmt.assertion) PROVE Goes(D, Right(stmt))
  <2>1. D = IF Means(stmt.assertion) THEN "" ELSE "FAIL"
    BY <1>2 DEF TS!Decides
  <2>2. Right(stmt) <=> (Judgement(stmt.assertion).holds <=> Means(stmt.assertion))
    BY <1>2 DEF Right
  <2> HIDE DEF D
  <2>3. QED
    BY <1>2, <2>1, <2>2 DEF UnityAssert, UNITY_FAIL_AND_BAIL, Goes
<1>3. ASSUME stmt.do = "condition", UNITY_TEST_ASSERT(stmt.true) PROVE Goes(D, Right(stmt))
  <2>1. D = IF stmt.true THEN "" ELSE "FAIL"
    BY <1>3 DEF TS!Decides
  <2> HIDE DEF D
  <2>2. QED
    BY <1>3, <2>1 DEF UNITY_TEST_ASSERT, UnityFail, UNITY_FAIL_AND_BAIL, Goes
<1>4. ASSUME stmt.do = "fail", UnityFail PROVE Goes(D, Right(stmt))
  <2>1. D = "FAIL"
    BY <1>4 DEF TS!Decides
  <2> HIDE DEF D
  <2>2. QED
    BY <1>4, <2>1 DEF UnityFail, UNITY_FAIL_AND_BAIL, Goes
<1>5. ASSUME stmt.do = "ignore", UnityIgnore PROVE Goes(D, Right(stmt))
  <2>1. D = "IGNORE"
    BY <1>5 DEF TS!Decides
  <2> HIDE DEF D
  <2>2. QED
    BY <1>5, <2>1 DEF UnityIgnore, Goes
<1>6. ASSUME stmt.do = "pass", TEST_PASS PROVE Goes(D, Right(stmt))
  <2>1. D = "PASS"
    BY <1>6 DEF TS!Decides
  <2> HIDE DEF D
  <2>2. QED
    BY <1>6, <2>1 DEF TEST_PASS, Goes
<1>7. ASSUME stmt.do = "message", UnityMessage(stmt.text) PROVE Goes(D, Right(stmt))
  <2>1. D = ""
    BY <1>7 DEF TS!Decides
  <2> HIDE DEF D
  <2>2. QED
    BY <1>7, <2>1 DEF UnityMessage, Goes
<1>8. QED
  BY <1>1, <1>2, <1>3, <1>4, <1>5, <1>6, <1>7 DEF stmt

\* A line that gives no verdict.
LEMMA InfoLine ==
  ASSUME Report, NEW fields, Line("INFO", fields)
  PROVE  /\ \E T : out' \in Seq(T)
         /\ Verdicts' = Verdicts /\ Judged' = Judged
         /\ \A m \in Verdicts : out'[m] = out[m]
         /\ LinesOf({"FAIL"})' = LinesOf({"FAIL"}) /\ LinesOf({"IGNORE"})' = LinesOf({"IGNORE"})
<1>1. PICK S : out \in Seq(S)
  BY DEF Report
<1>2. \E T : out' \in Seq(T)
  BY <1>1, AppendLine
<1>3. /\ LinesOf({"PASS", "FAIL", "IGNORE"})' = LinesOf({"PASS", "FAIL", "IGNORE"})
      /\ \A m \in LinesOf({"PASS", "FAIL", "IGNORE"}) : out'[m] = out[m]
  <2> DEFINE words == {"PASS", "FAIL", "IGNORE"}
  <2>1. "INFO" \notin words
    OBVIOUS
  <2> HIDE DEF words
  <2>2. /\ LinesOf(words)' = IF "INFO" \in words THEN LinesOf(words) \union {Len(out) + 1}
                             ELSE LinesOf(words)
        /\ \A m \in LinesOf(words) : out'[m] = out[m]
    BY <1>1, LinesAfter
  <2>3. QED
    BY <2>1, <2>2 DEF words
<1>4. LinesOf({"FAIL"})' = LinesOf({"FAIL"}) /\ LinesOf({"IGNORE"})' = LinesOf({"IGNORE"})
  BY <1>1, LinesAfter
<1>5. Verdicts' = Verdicts /\ \A m \in Verdicts : out'[m] = out[m]
  BY <1>3 DEF Verdicts
<1>6. Judged' = {out'[m].test : m \in Verdicts'} /\ Judged = {out[m].test : m \in Verdicts}
  BY DEF Judged
<1>7. Judged' = Judged
  BY <1>5, <1>6
<1>8. QED
  BY <1>2, <1>4, <1>5, <1>7

Flags ==
  /\ ~(Unity.CurrentTestFailed = 1 /\ Unity.CurrentTestIgnored = 1)
  /\ pc \notin Running => ~Decided
  /\ pc \in {"setUp", "test"} => ~Decided
  /\ pc = "begin" => Unity = Zero

\* Nothing is decided in this step.
LEMMA ReportKept ==
  ASSUME Report, UNCHANGED out \/ \E fields : Line("INFO", fields),
         Closed' = Closed,
         Unity'.TestFailures + Unity'.CurrentTestFailed = Unity.TestFailures + Unity.CurrentTestFailed,
         Unity'.TestIgnores + Unity'.CurrentTestIgnored = Unity.TestIgnores + Unity.CurrentTestIgnored,
         Flags'
  PROVE  Report'
<1>1. /\ \E T : out' \in Seq(T)
      /\ Verdicts' = Verdicts /\ Judged' = Judged
      /\ \A m \in Verdicts : out'[m] = out[m]
      /\ LinesOf({"FAIL"})' = LinesOf({"FAIL"}) /\ LinesOf({"IGNORE"})' = LinesOf({"IGNORE"})
  <2>1. CASE UNCHANGED out
    BY <2>1 DEF Report, Verdicts, Judged, LinesOf
  <2>2. CASE \E fields : Line("INFO", fields)
    BY <2>2, InfoLine
  <2>3. QED
    BY <2>1, <2>2
<1>2. /\ Judged = 1..Closed
      /\ \A m, k \in Verdicts : m < k => out[m].test < out[k].test
      /\ IsFiniteSet(Verdicts) /\ Cardinality(Verdicts) = Closed
      /\ Cardinality(LinesOf({"FAIL"})) = Unity.TestFailures + Unity.CurrentTestFailed
      /\ Cardinality(LinesOf({"IGNORE"})) = Unity.TestIgnores + Unity.CurrentTestIgnored
  BY DEF Report
<1>3. \A m, k \in Verdicts' : m < k => out'[m].test < out'[k].test
  BY <1>1, <1>2
<1>4. /\ Judged' = 1..Closed'
      /\ IsFiniteSet(Verdicts') /\ Cardinality(Verdicts') = Closed'
      /\ Cardinality(LinesOf({"FAIL"}))' = Unity'.TestFailures + Unity'.CurrentTestFailed
      /\ Cardinality(LinesOf({"IGNORE"}))' = Unity'.TestIgnores + Unity'.CurrentTestIgnored
  BY <1>1, <1>2
<1> HIDE DEF Closed
<1>5. QED
  BY <1>1, <1>3, <1>4 DEF Report, Flags

\* The test that runs is decided in this step.
LEMMA ReportGrows ==
  ASSUME IInv, Report, pc \in Running, ~Decided,
         NEW line \in {"PASS", "FAIL", "IGNORE"}, \E fields : Line(line, fields),
         Closed' = Unity.NumberOfTests,
         Unity'.TestFailures + Unity'.CurrentTestFailed
           = Unity.TestFailures + (IF line = "FAIL" THEN 1 ELSE 0),
         Unity'.TestIgnores + Unity'.CurrentTestIgnored
           = Unity.TestIgnores + (IF line = "IGNORE" THEN 1 ELSE 0),
         Flags'
  PROVE  Report'
<1>1. /\ \E T : out' \in Seq(T)
      /\ Judged' = 1..Unity.NumberOfTests
      /\ \A m, k \in Verdicts' : m < k => out'[m].test < out'[k].test
      /\ IsFiniteSet(Verdicts') /\ Cardinality(Verdicts') = Unity.NumberOfTests
      /\ Cardinality(LinesOf({"FAIL"}))'
           = Unity.TestFailures + (IF line = "FAIL" THEN 1 ELSE 0)
      /\ Cardinality(LinesOf({"IGNORE"}))'
           = Unity.TestIgnores + (IF line = "IGNORE" THEN 1 ELSE 0)
  BY VerdictLine
<1>2. QED
  BY <1>1 DEF Report, Flags

LEMMA InitReport == Init => Report
<1> SUFFICES ASSUME Init PROVE Report
  OBVIOUS
<1>1. out = <<>> /\ Unity = Zero /\ pc = "begin"
  BY DEF Init
<1>2. DOMAIN out = {} /\ \E S : out \in Seq(S)
  BY <1>1, EmptySeq
<1>3. \A words : LinesOf(words) = {}
  BY <1>2 DEF LinesOf
<1>4. Verdicts = {} /\ Judged = {}
  BY <1>3 DEF Verdicts, Judged
<1>5. IsFiniteSet({}) /\ Cardinality({}) = 0
  BY FS_EmptySet
<1>6. Closed = 0 /\ ~Decided
  BY <1>1 DEF Closed, Running, Zero, Decided
<1>7. /\ Judged = 1..Closed /\ IsFiniteSet(Verdicts) /\ Cardinality(Verdicts) = Closed
      /\ \A m, k \in Verdicts : m < k => out[m].test < out[k].test
  BY <1>4, <1>5, <1>6
<1>8. /\ Unity.TestFailures + Unity.CurrentTestFailed = 0
      /\ Unity.TestIgnores + Unity.CurrentTestIgnored = 0
  BY <1>1 DEF Zero
<1>9. /\ Cardinality(LinesOf({"FAIL"})) = Unity.TestFailures + Unity.CurrentTestFailed
      /\ Cardinality(LinesOf({"IGNORE"})) = Unity.TestIgnores + Unity.CurrentTestIgnored
  BY <1>3, <1>5, <1>8
<1>10. ~(Unity.CurrentTestFailed = 1 /\ Unity.CurrentTestIgnored = 1)
  BY <1>6 DEF Decided
<1> HIDE DEF Init
<1>11. QED
  BY <1>1, <1>2, <1>6, <1>7, <1>9, <1>10 DEF Report

LEMMA NextReport == IInv /\ Report /\ [Next]_vars => Report'
<1> SUFFICES ASSUME IInv, Report, [Next]_vars PROVE Report'
  OBVIOUS
<1>0. /\ Unity \in Counters /\ Unity.NumberOfTests \in Nat
      /\ Unity.TestFailures \in Nat /\ Unity.TestIgnores \in Nat
      /\ Unity.CurrentTestFailed \in {0, 1} /\ Unity.CurrentTestIgnored \in {0, 1}
      /\ pc \in {"begin", "main", "end"} \cup Running
  BY DEF IInv, Counters
<1>f. Flags
  BY DEF Report, Flags
<1>1. CASE UnityBegin
  <2>1. UNCHANGED <<Unity, out>> /\ pc = "begin" /\ pc' = "main" /\ Unity = Zero
    BY <1>1, <1>f DEF UnityBegin, Flags
  <2>2. Closed' = Closed /\ Flags'
    BY <1>f, <2>1 DEF Closed, Flags, Running, Decided
  <2>3. QED
    BY <2>1, <2>2, ReportKept
<1>2. CASE RunTest
  <2>1. /\ Unity' = [Unity EXCEPT !.NumberOfTests = @ + 1] /\ UNCHANGED out
        /\ pc = "main" /\ pc' = "setUp"
    BY <1>2 DEF RunTest, Enter
  <2>2. ~Decided /\ ~Decided'
    BY <1>0, <1>f, <2>1 DEF Flags, Decided, Running, Counters
  <2>3. Closed' = Closed
    BY <1>0, <2>1, <2>2 DEF Closed, Running, Counters
  <2>4. Flags'
    BY <1>0, <1>f, <2>1, <2>2 DEF Flags, Running, Counters
  <2>5. QED
    BY <1>0, <2>1, <2>3, <2>4, ReportKept DEF Counters
<1>3. CASE Statement
  <2> DEFINE N == Unity.NumberOfTests
  <2>1. pc \in {"setUp", "test", "tearDown"} /\ Goes(TS!Decides(Code[ip]), Right(Code[ip]))
    BY <1>3, StatementGoes
  <2>2. pc \in Running
    BY <2>1 DEF Running
  <2>3. ASSUME TEST_ABORT PROVE pc' \in {"tearDown", "conclude"}
    BY <2>1, <2>3, AbortGoes
  <2>4. ASSUME Proceed, UNCHANGED Unity, UNCHANGED out \/ \E fields : Line("INFO", fields)
        PROVE  Report'
    <3>1. UNCHANGED pc
      BY <2>4 DEF Proceed
    <3>2. Closed' = Closed /\ Flags'
      BY <1>f, <2>4, <3>1 DEF Closed, Flags, Decided
    <3>3. QED
      BY <2>4, <3>2, ReportKept
  <2>5. ASSUME TEST_ABORT, UNCHANGED <<Unity, out>>
        PROVE  Report'
    <3>1. Closed' = Closed /\ Flags'
      BY <1>f, <2>2, <2>3, <2>5 DEF Closed, Flags, Decided, Running
    <3>2. QED
      BY <2>5, <3>1, ReportKept
  <2>6. ASSUME ~Decided, TEST_ABORT, Unity' = [Unity EXCEPT !.CurrentTestFailed = 1],
               \E fields : Line("FAIL", fields)
        PROVE  Report'
    <3>1. /\ Unity'.CurrentTestFailed = 1 /\ Unity.CurrentTestFailed = 0
          /\ Unity'.CurrentTestIgnored = 0 /\ Unity.CurrentTestIgnored = 0
          /\ Unity'.NumberOfTests = N /\ Unity'.TestFailures = Unity.TestFailures
          /\ Unity'.TestIgnores = Unity.TestIgnores
      BY <1>0, <2>6 DEF Counters, Decided
    <3>2. Decided'
      BY <3>1 DEF Decided
    <3>3. Closed' = N /\ Flags'
      BY <2>3, <2>6, <3>1, <3>2 DEF Closed, Flags, Running
    <3>4. QED
      BY <1>0, <2>2, <2>6, <3>1, <3>3, ReportGrows
  <2>7. ASSUME ~Decided, TEST_ABORT, Unity' = [Unity EXCEPT !.CurrentTestIgnored = 1],
               \E fields : Line("IGNORE", fields)
        PROVE  Report'
    <3>1. /\ Unity'.CurrentTestFailed = 0 /\ Unity.CurrentTestFailed = 0
          /\ Unity'.CurrentTestIgnored = 1 /\ Unity.CurrentTestIgnored = 0
          /\ Unity'.NumberOfTests = N /\ Unity'.TestFailures = Unity.TestFailures
          /\ Unity'.TestIgnores = Unity.TestIgnores
      BY <1>0, <2>7 DEF Counters, Decided
    <3>2. Decided'
      BY <3>1 DEF Decided
    <3>3. Closed' = N /\ Flags'
      BY <2>3, <2>7, <3>1, <3>2 DEF Closed, Flags, Running
    <3>4. QED
      BY <1>0, <2>2, <2>7, <3>1, <3>3, ReportGrows
  <2>8. QED
    BY <2>1, <2>4, <2>5, <2>6, <2>7 DEF Goes
<1>4. CASE Return
  <2>1. /\ UNCHANGED <<Unity, out>> /\ pc \in Running /\ pc' \in Running
        /\ pc' \in {"setUp", "test"} => pc = "setUp"
    BY <1>4 DEF Return, Enter, Running
  <2>2. Closed' = Closed /\ Flags'
    BY <1>f, <2>1 DEF Closed, Flags, Decided, Running
  <2>3. QED
    BY <2>1, <2>2, ReportKept
<1>5. CASE UnityConcludeTest
  <2>1. /\ pc = "conclude" /\ pc' = "main"
        /\ Unity' = [Unity EXCEPT !.TestIgnores = @ + Unity.CurrentTestIgnored,
                                  !.TestFailures = IF Unity.CurrentTestIgnored = 1 THEN @
                                                   ELSE @ + Unity.CurrentTestFailed,
                                  !.CurrentTestFailed = 0, !.CurrentTestIgnored = 0]
        /\ IF Decided THEN UNCHANGED out ELSE Line("PASS", NoFields)
    BY <1>5 DEF UnityConcludeTest, Decided
  <2>2. /\ Unity'.NumberOfTests = Unity.NumberOfTests
        /\ Unity'.CurrentTestFailed = 0 /\ Unity'.CurrentTestIgnored = 0
        /\ Unity'.TestIgnores = Unity.TestIgnores + Unity.CurrentTestIgnored
        /\ Unity'.TestFailures = IF Unity.CurrentTestIgnored = 1 THEN Unity.TestFailures
                                 ELSE Unity.TestFailures + Unity.CurrentTestFailed
    BY <1>0, <2>1 DEF Counters
  <2>3. ~Decided' /\ Closed' = Unity.NumberOfTests /\ Flags'
    BY <2>1, <2>2 DEF Decided, Closed, Flags, Running
  <2>4. Unity'.TestFailures = Unity.TestFailures + Unity.CurrentTestFailed
    BY <1>0, <1>f, <2>2 DEF Flags
  <2>5. CASE Decided
    <3>1. Closed' = Closed
      BY <2>3, <2>5 DEF Closed
    <3>2. /\ Unity'.TestFailures + Unity'.CurrentTestFailed
               = Unity.TestFailures + Unity.CurrentTestFailed
          /\ Unity'.TestIgnores + Unity'.CurrentTestIgnored
               = Unity.TestIgnores + Unity.CurrentTestIgnored
      BY <1>0, <2>2, <2>4
    <3>3. QED
      BY <2>1, <2>3, <2>5, <3>1, <3>2, ReportKept
  <2>6. CASE ~Decided
    <3>1. Unity.CurrentTestFailed = 0 /\ Unity.CurrentTestIgnored = 0
      BY <1>0, <2>6 DEF Decided
    <3>2. pc \in Running /\ \E fields : Line("PASS", fields)
      BY <2>1, <2>6 DEF Running
    <3>3. /\ Unity'.TestFailures + Unity'.CurrentTestFailed = Unity.TestFailures + 0
          /\ Unity'.TestIgnores + Unity'.CurrentTestIgnored = Unity.TestIgnores + 0
      BY <1>0, <2>2, <2>4, <3>1
    <3>4. QED
      BY <2>3, <2>6, <3>2, <3>3, ReportGrows
  <2>7. QED
    BY <2>5, <2>6
<1>6. CASE UnityEnd
  <2>1. UNCHANGED <<Unity, out>> /\ pc = "main" /\ pc' = "end"
    BY <1>6 DEF UnityEnd
  <2>2. Closed' = Closed /\ Flags'
    BY <1>f, <2>1 DEF Closed, Flags, Running, Decided
  <2>3. QED
    BY <2>1, <2>2, ReportKept
<1>7. CASE UNCHANGED vars
  <2>1. UNCHANGED <<Unity, out, pc>>
    BY <1>7 DEF vars
  <2>2. Closed' = Closed /\ Flags'
    BY <1>f, <2>1 DEF Closed, Flags, Running, Decided
  <2>3. QED
    BY <2>1, <2>2, ReportKept
<1>8. QED
  BY <1>1, <1>2, <1>3, <1>4, <1>5, <1>6, <1>7 DEF Next, Terminated

LEMMA AlwaysReport == Spec => [](IInv /\ Report)
BY InitIInv, NextIInv, InitReport, NextReport, PTL DEF Spec

\* For every test program, the counters UnityEnd prints are the numbers of the
\* lines in the output (unity.c UnityConcludeTest, UnityEnd).
THEOREM CountsRight == Spec => []CountsMatchReport
<1>1. IInv /\ Report => CountsMatchReport
  <2> SUFFICES ASSUME IInv, Report, pc \in {"main", "end"}
               PROVE  /\ Unity.NumberOfTests = Cardinality(Verdicts)
                      /\ Unity.TestFailures = Cardinality(LinesOf({"FAIL"}))
                      /\ Unity.TestIgnores = Cardinality(LinesOf({"IGNORE"}))
    BY DEF CountsMatchReport
  <2>1. pc \notin Running
    BY DEF Running
  <2>2. Unity.CurrentTestFailed = 0 /\ Unity.CurrentTestIgnored = 0 /\ Closed = Unity.NumberOfTests
    BY <2>1 DEF Report, Decided, IInv, Counters, Closed
  <2>3. Unity.TestFailures \in Nat /\ Unity.TestIgnores \in Nat
    BY DEF IInv, Counters
  <2>4. QED
    BY <2>2, <2>3 DEF Report
<1>2. QED
  BY <1>1, AlwaysReport, PTL

\* For every test program, each test gets one verdict line, in the order of the
\* tests, whatever setUp, the test and tearDown do (unity.c
\* RETURN_IF_FAIL_OR_IGNORE, UnityConcludeTest).
THEOREM VerdictsOnce == Spec => []OneVerdict
<1>1. IInv /\ Report => OneVerdict
  BY DEF IInv, Report, Closed, OneVerdict
<1>2. QED
  BY <1>1, AlwaysReport, PTL

-----------------------------------------------------------------------------
(* The meaning of the verdicts.                                             *)

\* Of every assertion in the programs, the function the macro calls judges what
\* the macro's name says of its arguments.
AssertionsMean ==
  \A f \in DOMAIN Families : \A s \in Families[f] :
    LET codes == {s.setUp, s.tearDown} \union {s.tests[n] : n \in 1..Len(s.tests)}
    IN  \A code \in codes : \A k \in 1..Len(code) : Right(code[k])

\* No statement before the k-th decides.
Silent(code, k) == k \in 1..(Len(code) + 1) /\ \A j \in 1..(k - 1) : TS!Decides(code[j]) = ""

\* The verdict of test n of the program s, and of what runs before its tearDown.
Body(s, n) == TS!Outcome(s.setUp \o s.tests[n])
VerdictOf(s, n) == IF Body(s, n) = "PASS" THEN TS!Outcome(s.tearDown) ELSE Body(s, n)

\* What the place in the program says of the verdict to come.
Place ==
  LET N == Unity.NumberOfTests
  IN  /\ pc = "setUp" => Silent(suite.setUp, ip)
      /\ pc = "test" => Silent(suite.setUp, Len(suite.setUp) + 1) /\ Silent(suite.tests[N], ip)
      /\ pc = "tearDown" => ip \in 1..(Len(suite.tearDown) + 1)
      /\ pc = "tearDown" /\ ~Decided => Body(suite, N) = "PASS" /\ Silent(suite.tearDown, ip)
      /\ pc = "conclude" /\ ~Decided => VerdictOf(suite, N) = "PASS"

\* The lines that are printed, and the result.
Said == \A m \in Verdicts : out[m].line = VerdictOf(suite, out[m].test)
Returned ==
  /\ pc # "end" => result = -1
  /\ pc = "end" => result # -1

Meaning ==
  /\ \E f \in DOMAIN Families : suite \in Families[f]
  /\ Place /\ Said /\ Returned

LEMMA NeitherBefore ==
  ASSUME NEW n \in Nat, NEW j \in 1..n, NEW k \in 1..n, j \notin 1..(k - 1), k \notin 1..(j - 1)
  PROVE  j = k
OBVIOUS

LEMMA OutcomeDecided ==
  ASSUME NEW S, NEW code \in Seq(S), NEW k \in 1..Len(code), Silent(code, k),
         TS!Decides(code[k]) # ""
  PROVE  TS!Outcome(code) = TS!Decides(code[k])
<1> DEFINE First(j) == /\ TS!Decides(code[j]) # ""
                       /\ \A l \in 1..(j - 1) : TS!Decides(code[l]) = ""
           n == Len(code)
<1>1. n \in Nat /\ DOMAIN code = 1..n /\ k \in 1..n
  BY LenProperties
<1>2. First(k)
  BY DEF Silent
<1> HIDE DEF n
<1>3. ASSUME NEW j \in DOMAIN code, First(j) PROVE j = k
  <2>1. j \notin 1..(k - 1)
    BY <1>2, <1>3
  <2>2. k \notin 1..(j - 1)
    BY <1>2, <1>3
  <2>3. j \in 1..n
    BY <1>1
  <2> HIDE DEF First
  <2>4. QED
    BY <1>1, <2>1, <2>2, <2>3, NeitherBefore
<1>4. (CHOOSE j \in DOMAIN code : First(j)) = k
  <2>1. k \in DOMAIN code
    BY <1>1
  <2> HIDE DEF First
  <2>2. QED
    BY <1>2, <1>3, <2>1
<1>5. TS!Outcome(code) = IF \A j \in DOMAIN code : TS!Decides(code[j]) = "" THEN "PASS"
                         ELSE TS!Decides(code[CHOOSE j \in DOMAIN code : First(j)])
  BY DEF TS!Outcome
<1> HIDE DEF First
<1>6. QED
  BY <1>1, <1>4, <1>5

LEMMA OutcomeSilent ==
  ASSUME NEW S, NEW code \in Seq(S), Silent(code, Len(code) + 1)
  PROVE  TS!Outcome(code) = "PASS"
<1> DEFINE n == Len(code)
<1>1. n \in Nat /\ DOMAIN code = 1..n
  BY LenProperties
<1>2. \A j \in 1..((n + 1) - 1) : TS!Decides(code[j]) = ""
  BY DEF Silent
<1> HIDE DEF n
<1>3. 1..((n + 1) - 1) = 1..n
  BY <1>1
<1>4. \A j \in DOMAIN code : TS!Decides(code[j]) = ""
  BY <1>1, <1>2, <1>3
<1>5. QED
  BY <1>4 DEF TS!Outcome

\* setUp and the test, one behind the other.
LEMMA BodyOutcome ==
  ASSUME NEW S, NEW a \in Seq(S), NEW b \in Seq(S)
  PROVE  /\ \A k \in 1..Len(a) : Silent(a, k) /\ TS!Decides(a[k]) # ""
              => TS!Outcome(a \o b) = TS!Decides(a[k])
         /\ Silent(a, Len(a) + 1) =>
              /\ \A k \in 1..Len(b) : Silent(b, k) /\ TS!Decides(b[k]) # ""
                   => TS!Outcome(a \o b) = TS!Decides(b[k])
              /\ Silent(b, Len(b) + 1) => TS!Outcome(a \o b) = "PASS"
<1> DEFINE c == a \o b
<1>1. /\ c \in Seq(S) /\ Len(c) = Len(a) + Len(b)
      /\ \A j \in 1..(Len(a) + Len(b)) : c[j] = IF j <= Len(a) THEN a[j] ELSE b[j - Len(a)]
  BY ConcatProperties
<1>2. Len(a) \in Nat /\ Len(b) \in Nat
  BY LenProperties
<1> HIDE DEF c
<1>3. \A j \in 1..Len(a) : c[j] = a[j]
  BY <1>1, <1>2
<1>4. ASSUME NEW j \in 1..Len(b) PROVE c[Len(a) + j] = b[j]
  <2>1. Len(a) + j \in 1..(Len(a) + Len(b)) /\ ~(Len(a) + j <= Len(a)) /\ (Len(a) + j) - Len(a) = j
    BY <1>2
  <2>2. QED
    BY <1>1, <2>1
<1>5. ASSUME NEW k \in 1..Len(a), Silent(a, k), TS!Decides(a[k]) # ""
      PROVE  TS!Outcome(c) = TS!Decides(a[k])
  <2>1. k \in 1..Len(c) /\ k \in 1..(Len(c) + 1) /\ \A j \in 1..(k - 1) : j \in 1..Len(a)
    BY <1>1, <1>2
  <2>2. Silent(c, k)
    BY <1>3, <1>5, <2>1 DEF Silent
  <2>3. c[k] = a[k]
    BY <1>3
  <2>4. QED
    BY <1>1, <1>5, <2>1, <2>2, <2>3, OutcomeDecided
<1>6. ASSUME Silent(a, Len(a) + 1), NEW k \in 1..(Len(b) + 1), Silent(b, k)
      PROVE  Silent(c, Len(a) + k)
  <2>1. Len(a) + k \in 1..(Len(c) + 1)
    BY <1>1, <1>2
  <2>2. ASSUME NEW j \in 1..((Len(a) + k) - 1) PROVE TS!Decides(c[j]) = ""
    <3>1. CASE j \in 1..Len(a)
      <4>1. j \in 1..((Len(a) + 1) - 1)
        BY <1>2, <3>1
      <4>2. QED
        BY <1>3, <1>6, <3>1, <4>1 DEF Silent
    <3>2. CASE j \notin 1..Len(a)
      <4>1. j - Len(a) \in 1..(k - 1) /\ j - Len(a) \in 1..Len(b) /\ Len(a) + (j - Len(a)) = j
        BY <1>2, <3>2
      <4>2. c[Len(a) + (j - Len(a))] = b[j - Len(a)]
        BY <1>4, <4>1
      <4>3. QED
        BY <1>6, <4>1, <4>2 DEF Silent
    <3>3. QED
      BY <3>1, <3>2
  <2>3. QED
    BY <2>1, <2>2 DEF Silent
<1>7. ASSUME Silent(a, Len(a) + 1), NEW k \in 1..Len(b), Silent(b, k), TS!Decides(b[k]) # ""
      PROVE  TS!Outcome(c) = TS!Decides(b[k])
  <2>1. Len(a) + k \in 1..Len(c) /\ k \in 1..(Len(b) + 1)
    BY <1>1, <1>2
  <2>2. Silent(c, Len(a) + k) /\ c[Len(a) + k] = b[k]
    BY <1>4, <1>6, <1>7, <2>1
  <2>3. QED
    BY <1>1, <1>7, <2>1, <2>2, OutcomeDecided
<1>8. ASSUME Silent(a, Len(a) + 1), Silent(b, Len(b) + 1)
      PROVE  TS!Outcome(c) = "PASS"
  <2>1. Len(b) + 1 \in 1..(Len(b) + 1) /\ Len(a) + (Len(b) + 1) = Len(c) + 1
    BY <1>1, <1>2
  <2>2. Silent(c, Len(c) + 1)
    BY <1>6, <1>8, <2>1
  <2>3. QED
    BY <1>1, <2>2, OutcomeSilent
<1>9. QED
  BY <1>5, <1>7, <1>8 DEF c

LEMMA Codes ==
  ASSUME NEW f \in DOMAIN Families, NEW s \in Families[f]
  PROVE  /\ \E S : s.setUp \in Seq(S) /\ s.tearDown \in Seq(S)
         /\ Len(s.setUp) \in Nat /\ Len(s.tearDown) \in Nat /\ Len(s.tests) \in Nat
         /\ \A n \in 1..Len(s.tests) :
              /\ Len(s.tests[n]) \in Nat
              /\ \E S : s.setUp \in Seq(S) /\ s.tests[n] \in Seq(S)
<1>1. /\ IsCode(s.setUp) /\ IsCode(s.tearDown) /\ Len(s.tests) \in Nat
      /\ \A n \in 1..Len(s.tests) : IsCode(s.tests[n])
  BY FamiliesAssumption
<1>2. ASSUME NEW a, NEW b, IsCode(a), IsCode(b)
      PROVE  \E S : a \in Seq(S) /\ b \in Seq(S)
  <2> DEFINE A == Range(a)  B == Range(b)
  <2>1. a \in Seq(A) /\ b \in Seq(B)
    BY <1>2 DEF IsCode
  <2> HIDE DEF A, B
  <2>2. A \subseteq A \union B /\ B \subseteq A \union B
    OBVIOUS
  <2>3. a \in Seq(A \union B) /\ b \in Seq(A \union B)
    BY <2>1, <2>2, SeqMonotonic
  <2>4. QED
    BY <2>3
<1>3. ASSUME NEW a, IsCode(a) PROVE Len(a) \in Nat
  BY <1>3, LenProperties DEF IsCode
<1>4. QED
  BY <1>1, <1>2, <1>3

\* The code that runs is a piece of the program, and its assertions are right.
LEMMA CodeIs ==
  ASSUME IInv, Meaning, pc \in {"setUp", "test", "tearDown"}
  PROVE  /\ Unity.NumberOfTests \in 1..Len(suite.tests)
         /\ Len(Code) \in Nat
         /\ pc = "setUp" => Code = suite.setUp
         /\ pc = "test" => Code = suite.tests[Unity.NumberOfTests]
         /\ pc = "tearDown" => Code = suite.tearDown
         /\ AssertionsMean => \A k \in 1..Len(Code) : Right(Code[k])
<1> DEFINE N == Unity.NumberOfTests
<1>1. N \in 1..Len(suite.tests)
  BY DEF IInv, Counters, Running
<1>2. PICK f \in DOMAIN Families : suite \in Families[f]
  BY DEF Meaning
<1>3. /\ pc = "setUp" => Code = suite.setUp
      /\ pc = "test" => Code = suite.tests[N]
      /\ pc = "tearDown" => Code = suite.tearDown
  <2>1. pc # "test" => Code = suite[pc]
    BY DEF Code
  <2>2. pc = "test" => Code = suite.tests[N]
    BY DEF Code
  <2>3. QED
    BY <2>1, <2>2
<1>4. Code \in {suite.setUp, suite.tearDown} \union {suite.tests[n] : n \in 1..Len(suite.tests)}
  BY <1>1, <1>3
<1>5. Len(Code) \in Nat
  BY <1>1, <1>2, <1>3, Codes
<1>6. AssertionsMean => \A k \in 1..Len(Code) : Right(Code[k])
  BY <1>2, <1>4 DEF AssertionsMean
<1>7. QED
  BY <1>1, <1>3, <1>5, <1>6

\* The first statement that decides gives the test its verdict.
LEMMA Deciding ==
  ASSUME IInv, Report, Meaning, pc \in {"setUp", "test", "tearDown"}, ip <= Len(Code), ~Decided
  PROVE  LET d == TS!Decides(Code[ip])
             N == Unity.NumberOfTests
         IN  /\ ip \in 1..Len(Code)
             /\ d = "" => Silent(Code, ip + 1)
             /\ d # "" /\ pc \in {"setUp", "test"} => Body(suite, N) = d
             /\ d # "" /\ pc = "tearDown" => VerdictOf(suite, N) = d
<1> DEFINE d == TS!Decides(Code[ip])
           N == Unity.NumberOfTests
<1>1. N \in 1..Len(suite.tests) /\ Len(Code) \in Nat
  BY CodeIs
<1>2. Silent(Code, ip)
  BY CodeIs DEF Meaning, Place
<1>3. ip \in 1..Len(Code)
  <2>1. ip \in 1..(Len(Code) + 1)
    BY <1>2 DEF Silent
  <2>2. QED
    BY <1>1, <2>1
<1>4. ASSUME d = "" PROVE Silent(Code, ip + 1)
  <2>1. ip + 1 \in 1..(Len(Code) + 1) /\ \A j \in 1..((ip + 1) - 1) : j = ip \/ j \in 1..(ip - 1)
    BY <1>1, <1>3
  <2>2. \A j \in 1..(ip - 1) : TS!Decides(Code[j]) = ""
    BY <1>2 DEF Silent
  <2>3. \A j \in 1..((ip + 1) - 1) : TS!Decides(Code[j]) = ""
    BY <1>4, <2>1, <2>2
  <2>4. QED
    BY <2>1, <2>3 DEF Silent
<1>5. PICK f \in DOMAIN Families : suite \in Families[f]
  BY DEF Meaning
<1>6. PICK S : suite.setUp \in Seq(S) /\ suite.tests[N] \in Seq(S)
  BY <1>1, <1>5, Codes
<1>7. ASSUME d # "", pc = "setUp" PROVE Body(suite, N) = d
  <2>1. Code = suite.setUp
    BY <1>7, CodeIs
  <2>2. QED
    BY <1>2, <1>3, <1>6, <1>7, <2>1, BodyOutcome DEF Body
<1>8. ASSUME d # "", pc = "test" PROVE Body(suite, N) = d
  <2>1. Code = suite.tests[N] /\ Silent(suite.setUp, Len(suite.setUp) + 1)
    BY <1>8, CodeIs DEF Meaning, Place
  <2>2. QED
    BY <1>2, <1>3, <1>6, <1>8, <2>1, BodyOutcome DEF Body
<1>9. ASSUME d # "", pc = "tearDown" PROVE VerdictOf(suite, N) = d
  <2>1. Code = suite.tearDown /\ Body(suite, N) = "PASS"
    BY <1>9, CodeIs DEF Meaning, Place
  <2>2. PICK T : suite.tearDown \in Seq(T)
    BY <1>5, Codes
  <2>3. TS!Outcome(suite.tearDown) = d
    BY <1>2, <1>3, <1>9, <2>1, <2>2, OutcomeDecided
  <2>4. QED
    BY <2>1, <2>3 DEF VerdictOf
<1>10. QED
  BY <1>3, <1>4, <1>7, <1>8, <1>9

\* Code that is silent to its end passes.
LEMMA Passing ==
  ASSUME IInv, Meaning, pc \in {"setUp", "test", "tearDown"}, ip > Len(Code), ~Decided
  PROVE  LET N == Unity.NumberOfTests
         IN  /\ pc = "setUp" => Silent(suite.setUp, Len(suite.setUp) + 1)
             /\ pc = "test" => Body(suite, N) = "PASS"
             /\ pc = "tearDown" => VerdictOf(suite, N) = "PASS"
<1> DEFINE N == Unity.NumberOfTests
<1>1. N \in 1..Len(suite.tests) /\ Len(Code) \in Nat
  BY CodeIs
<1>2. Silent(Code, ip)
  BY CodeIs DEF Meaning, Place
<1>3. Silent(Code, Len(Code) + 1)
  <2>1. ip \in 1..(Len(Code) + 1)
    BY <1>2 DEF Silent
  <2>2. ip = Len(Code) + 1
    BY <1>1, <2>1
  <2>3. QED
    BY <1>2, <2>2
<1>5. PICK f \in DOMAIN Families : suite \in Families[f]
  BY DEF Meaning
<1>6. PICK S : suite.setUp \in Seq(S) /\ suite.tests[N] \in Seq(S)
  BY <1>1, <1>5, Codes
<1>7. CASE pc = "setUp"
  BY <1>3, <1>7, CodeIs
<1>8. CASE pc = "test"
  <2>1. Code = suite.tests[N] /\ Silent(suite.setUp, Len(suite.setUp) + 1)
    BY <1>8, CodeIs DEF Meaning, Place
  <2>2. Body(suite, N) = "PASS"
    BY <1>3, <1>6, <2>1, BodyOutcome DEF Body
  <2>3. QED
    BY <1>8, <2>2
<1>9. CASE pc = "tearDown"
  <2>1. Code = suite.tearDown /\ Body(suite, N) = "PASS"
    BY <1>9, CodeIs DEF Meaning, Place
  <2>2. PICK T : suite.tearDown \in Seq(T)
    BY <1>5, Codes
  <2>3. TS!Outcome(suite.tearDown) = "PASS"
    BY <1>3, <2>1, <2>2, OutcomeSilent
  <2>4. VerdictOf(suite, N) = "PASS"
    BY <2>1, <2>3 DEF VerdictOf
  <2>5. QED
    BY <1>9, <2>4
<1>10. QED
  BY <1>7, <1>8, <1>9

LEMMA SaidKept ==
  ASSUME Report, Said, UNCHANGED suite, UNCHANGED out \/ \E fields : Line("INFO", fields)
  PROVE  Said'
<1>1. Verdicts' = Verdicts /\ \A m \in Verdicts : out'[m] = out[m]
  <2>1. CASE UNCHANGED out
    BY <2>1 DEF Verdicts, LinesOf
  <2>2. CASE \E fields : Line("INFO", fields)
    BY <2>2, InfoLine
  <2>3. QED
    BY <2>1, <2>2
<1>2. QED
  BY <1>1 DEF Said

LEMMA SaidGrows ==
  ASSUME IInv, Report, Said, UNCHANGED suite, pc \in Running, ~Decided,
         NEW line \in {"PASS", "FAIL", "IGNORE"}, \E fields : Line(line, fields),
         VerdictOf(suite, Unity.NumberOfTests) = line
  PROVE  Said'
<1> DEFINE new == Len(out) + 1
<1>1. /\ Verdicts' = Verdicts \union {new} /\ out'[new].line = line
      /\ out'[new].test = Unity.NumberOfTests /\ \A m \in Verdicts : out'[m] = out[m]
  BY VerdictLine
<1> HIDE DEF new
<1>2. \A m \in Verdicts' : out'[m].line = VerdictOf(suite, out'[m].test)
  BY <1>1 DEF Said
<1>3. QED
  BY <1>2 DEF Said

\* Before its first statement, a function has said nothing.
LEMMA SilentStart == ASSUME NEW code, Len(code) \in Nat PROVE Silent(code, 1)
<1>1. 1 \in 1..(Len(code) + 1) /\ 1..(1 - 1) = {}
  OBVIOUS
<1>2. QED
  BY <1>1 DEF Silent

LEMMA InitMeaning == Init => Meaning
<1> SUFFICES ASSUME Init PROVE Meaning
  OBVIOUS
<1>1. out = <<>> /\ pc = "begin" /\ result = -1 /\ \E f \in DOMAIN Families : suite \in Families[f]
  BY DEF Init
<1>2. Verdicts = {}
  BY <1>1 DEF Verdicts, LinesOf
<1>3. QED
  BY <1>1, <1>2 DEF Meaning, Place, Said, Returned

\* A statement that decides sends the test to its tearDown or its end, with the
\* verdict of the abstract suite; another one leaves the code silent.
LEMMA StatementMeaning ==
  ASSUME AssertionsMean, IInv, Report, Meaning, Statement
  PROVE  Meaning'
<1> DEFINE N == Unity.NumberOfTests
           d == TS!Decides(Code[ip])
<1>1. /\ pc \in {"setUp", "test", "tearDown"} /\ ip <= Len(Code)
      /\ UNCHANGED <<suite, result>> /\ Goes(d, Right(Code[ip]))
  BY StatementGoes
<1>2. /\ N \in 1..Len(suite.tests) /\ Len(Code) \in Nat
      /\ pc = "setUp" => Code = suite.setUp
      /\ pc = "test" => Code = suite.tests[N]
      /\ pc = "tearDown" => Code = suite.tearDown
      /\ \A k \in 1..Len(Code) : Right(Code[k])
  BY <1>1, CodeIs
<1>3. ip \in 1..Len(Code)
  <2>1. ip \in 1..(Len(Code) + 1)
    BY <1>1, <1>2 DEF Meaning, Place, Silent
  <2>2. QED
    BY <1>1, <1>2, <2>1
<1>4. Right(Code[ip])
  BY <1>2, <1>3
<1>5. ~Decided => /\ d = "" => Silent(Code, ip + 1)
                  /\ d # "" /\ pc \in {"setUp", "test"} => Body(suite, N) = d
                  /\ d # "" /\ pc = "tearDown" => VerdictOf(suite, N) = d
  BY <1>1, Deciding
<1>6. pc \in Running /\ (Decided => pc = "tearDown")
  BY <1>1 DEF Report, Running
<1>7. Len(suite.tearDown) \in Nat /\ \E f \in DOMAIN Families : suite \in Families[f]
  BY Codes DEF Meaning
<1> HIDE DEF d
<1>8. pc' # "end" => Returned'
  BY <1>1 DEF Meaning, Returned
<1>9. ASSUME TEST_ABORT
      PROVE  \/ pc \in {"setUp", "test"} /\ pc' = "tearDown" /\ ip' = 1
             \/ pc = "tearDown" /\ pc' = "conclude"
  BY <1>1, <1>9, AbortGoes DEF TEST_ABORT, Enter
<1>10. ASSUME Proceed, UNCHANGED Unity, UNCHANGED out \/ \E fields : Line("INFO", fields),
              ~Decided => d = ""
       PROVE  Meaning'
  <2>1. UNCHANGED pc /\ ip' = ip + 1 /\ (Decided' <=> Decided) /\ Unity'.NumberOfTests = N
    BY <1>10 DEF Proceed, Decided
  <2>2. Said'
    BY <1>1, <1>10, SaidKept DEF Meaning
  <2>3. ~Decided => Silent(Code, ip')
    BY <1>5, <1>10, <2>1
  <2>4. ip' \in 1..(Len(Code) + 1)
    BY <1>2, <1>3, <2>1
  <2>5. Place
    BY DEF Meaning
  <2>6. Place'
    BY <1>1, <1>2, <1>6, <2>1, <2>3, <2>4, <2>5 DEF Place
  <2>7. QED
    BY <1>1, <1>7, <1>8, <2>1, <2>2, <2>6 DEF Meaning
<1>11. ASSUME TEST_ABORT, UNCHANGED Unity, UNCHANGED out, ~Decided => d = "PASS"
       PROVE  Meaning'
  <2>1. (Decided' <=> Decided) /\ Unity'.NumberOfTests = N
    BY <1>11 DEF Decided
  <2>2. Said'
    BY <1>1, <1>11, SaidKept DEF Meaning
  <2>3. CASE pc \in {"setUp", "test"} /\ pc' = "tearDown" /\ ip' = 1
    <3>1. ~Decided /\ Body(suite, N) = "PASS"
      BY <1>5, <1>6, <1>11, <2>3
    <3>2. Silent(suite.tearDown, 1) /\ 1 \in 1..(Len(suite.tearDown) + 1)
      BY <1>7, SilentStart
    <3>3. Place'
      BY <1>1, <2>1, <2>3, <3>1, <3>2 DEF Place
    <3>4. QED
      BY <1>1, <1>7, <1>8, <2>2, <2>3, <3>3 DEF Meaning
  <2>4. CASE pc = "tearDown" /\ pc' = "conclude"
    <3>1. ~Decided => VerdictOf(suite, N) = "PASS"
      BY <1>5, <1>11, <2>4
    <3>2. Place'
      BY <1>1, <2>1, <2>4, <3>1 DEF Place
    <3>3. QED
      BY <1>1, <1>7, <1>8, <2>2, <2>4, <3>2 DEF Meaning
  <2>5. QED
    BY <1>9, <1>11, <2>3, <2>4
<1>12. ASSUME ~Decided, TEST_ABORT, Decided', NEW line \in {"FAIL", "IGNORE"}, d = line,
              \E fields : Line(line, fields)
       PROVE  Meaning'
  <2>1. VerdictOf(suite, N) = line
    BY <1>1, <1>5, <1>12 DEF VerdictOf
  <2>2. Said'
    BY <1>1, <1>6, <1>12, <2>1, SaidGrows DEF Meaning
  <2>3. pc' \in {"tearDown", "conclude"} /\ (pc' = "tearDown" => ip' \in 1..(Len(suite.tearDown) + 1))
    BY <1>7, <1>9, <1>12
  <2>4. Place'
    BY <1>1, <1>12, <2>3 DEF Place
  <2>5. QED
    BY <1>1, <1>7, <1>8, <2>2, <2>3, <2>4 DEF Meaning
<1>13. ASSUME Unity' = [Unity EXCEPT !.CurrentTestFailed = 1]
              \/ Unity' = [Unity EXCEPT !.CurrentTestIgnored = 1]
       PROVE  Decided'
  <2>1. Unity \in Counters
    BY DEF IInv
  <2>2. Unity'.CurrentTestFailed = 1 \/ Unity'.CurrentTestIgnored = 1
    BY <1>13, <2>1 DEF Counters
  <2>3. QED
    BY <2>2 DEF Decided
<1>14. QED
  BY <1>1, <1>4, <1>10, <1>11, <1>12, <1>13 DEF Goes

LEMMA NextMeaning == AssertionsMean /\ IInv /\ Report /\ Meaning /\ [Next]_vars => Meaning'
<1> SUFFICES ASSUME AssertionsMean, IInv, Report, Meaning, [Next]_vars PROVE Meaning'
  OBVIOUS
<1> DEFINE N == Unity.NumberOfTests
<1>0. /\ \E f \in DOMAIN Families : suite \in Families[f]
      /\ Place /\ Said /\ Returned
      /\ Len(suite.setUp) \in Nat /\ Len(suite.tearDown) \in Nat
  BY Codes DEF Meaning
<1>1. CASE UnityBegin
  <2>1. UNCHANGED <<suite, out, result>> /\ pc = "begin" /\ pc' = "main"
    BY <1>1 DEF UnityBegin
  <2>2. Said' /\ Place' /\ Returned'
    BY <1>0, <2>1, SaidKept DEF Place, Returned
  <2>3. QED
    BY <1>0, <2>1, <2>2 DEF Meaning
<1>2. CASE RunTest
  <2>1. UNCHANGED <<suite, out, result>> /\ pc = "main" /\ pc' = "setUp" /\ ip' = 1
    BY <1>2 DEF RunTest, Enter
  <2>2. Silent(suite.setUp, 1)
    BY <1>0, SilentStart
  <2>3. Place'
    BY <2>1, <2>2 DEF Place
  <2>4. Said' /\ Returned'
    BY <1>0, <2>1, SaidKept DEF Returned
  <2>5. QED
    BY <1>0, <2>1, <2>3, <2>4 DEF Meaning
<1>3. CASE Statement
  BY <1>3, StatementMeaning
<1>4. CASE Return
  <2>1. /\ pc \in {"setUp", "test", "tearDown"} /\ ip > Len(Code)
        /\ UNCHANGED <<suite, Unity, out, result>>
        /\ \/ pc = "setUp" /\ pc' = "test" /\ ip' = 1
           \/ pc = "test" /\ pc' = "tearDown" /\ ip' = 1
           \/ pc = "tearDown" /\ pc' = "conclude"
    BY <1>4 DEF Return, Enter
  <2>2. (Decided' <=> Decided) /\ Unity'.NumberOfTests = N /\ (Decided => pc = "tearDown")
    BY <2>1 DEF Report, Decided
  <2>3. Said' /\ Returned'
    BY <1>0, <2>1, SaidKept DEF Returned
  <2>4. Place'
    <3>1. CASE pc = "setUp" /\ pc' = "test" /\ ip' = 1
      <4>1. Silent(suite.setUp, Len(suite.setUp) + 1)
        BY <2>1, <2>2, <3>1, Passing
      <4>2. Len(suite.tests[N]) \in Nat
        BY <1>0, <2>1, Codes, CodeIs
      <4>3. Silent(suite.tests[N], 1)
        BY <4>2, SilentStart
      <4>4. QED
        BY <2>1, <2>2, <3>1, <4>1, <4>3 DEF Place
    <3>2. CASE pc = "test" /\ pc' = "tearDown" /\ ip' = 1
      <4>1. Body(suite, N) = "PASS"
        BY <2>1, <2>2, <3>2, Passing
      <4>2. Silent(suite.tearDown, 1) /\ 1 \in 1..(Len(suite.tearDown) + 1)
        BY <1>0, SilentStart
      <4>3. QED
        BY <2>1, <2>2, <3>2, <4>1, <4>2 DEF Place
    <3>3. CASE pc = "tearDown" /\ pc' = "conclude"
      <4>1. ~Decided => VerdictOf(suite, N) = "PASS"
        BY <2>1, <2>2, <3>3, Passing
      <4>2. QED
        BY <2>1, <2>2, <3>3, <4>1 DEF Place
    <3>4. QED
      BY <2>1, <3>1, <3>2, <3>3
  <2>5. QED
    BY <1>0, <2>1, <2>3, <2>4 DEF Meaning
<1>5. CASE UnityConcludeTest
  <2>1. /\ pc = "conclude" /\ pc' = "main" /\ UNCHANGED <<suite, result>>
        /\ IF Decided THEN UNCHANGED out ELSE Line("PASS", NoFields)
    BY <1>5 DEF UnityConcludeTest, Decided
  <2>2. Said'
    <3>1. CASE Decided
      BY <1>0, <2>1, <3>1, SaidKept
    <3>2. CASE ~Decided
      <4>1. VerdictOf(suite, N) = "PASS" /\ pc \in Running
        BY <1>0, <2>1, <3>2 DEF Place, Running
      <4>2. QED
        BY <1>0, <2>1, <3>2, <4>1, SaidGrows
    <3>3. QED
      BY <3>1, <3>2
  <2>3. Place' /\ Returned'
    BY <1>0, <2>1 DEF Place, Returned
  <2>4. QED
    BY <1>0, <2>1, <2>2, <2>3 DEF Meaning
<1>6. CASE UnityEnd
  <2>1. UNCHANGED <<suite, out>> /\ pc = "main" /\ pc' = "end" /\ result' = Unity.TestFailures
    BY <1>6 DEF UnityEnd
  <2>2. result' # -1
    BY <2>1 DEF IInv, Counters
  <2>3. Said' /\ Place' /\ Returned'
    BY <1>0, <2>1, <2>2, SaidKept DEF Place, Returned
  <2>4. QED
    BY <1>0, <2>1, <2>3 DEF Meaning
<1>7. CASE UNCHANGED vars
  <2>1. UNCHANGED <<suite, Unity, out, pc, ip, result>>
    BY <1>7 DEF vars
  <2>2. Said' /\ Returned'
    BY <1>0, <2>1, SaidKept DEF Returned
  <2>3. Place'
    BY <1>0, <2>1 DEF Place, Decided
  <2>4. QED
    BY <1>0, <2>1, <2>2, <2>3 DEF Meaning
<1>8. QED
  BY <1>1, <1>2, <1>3, <1>4, <1>5, <1>6, <1>7 DEF Next, Terminated

LEMMA AlwaysMeaning == AssertionsMean /\ Spec => [](IInv /\ Report /\ Meaning)
<1> SUFFICES ASSUME AssertionsMean PROVE Spec => [](IInv /\ Report /\ Meaning)
  OBVIOUS
<1>1. Init => IInv /\ Report /\ Meaning
  BY InitIInv, InitReport, InitMeaning
<1>2. IInv /\ Report /\ Meaning /\ [Next]_vars => (IInv /\ Report /\ Meaning)'
  BY NextIInv, NextReport, NextMeaning
<1>3. QED
  BY <1>1, <1>2, PTL DEF Spec

\* If every assertion is judged as its name says, every line printed is the
\* verdict of the first thing that decides the test, for every test program
\* (unity.c UnityDefaultTestRun, RETURN_IF_FAIL_OR_IGNORE).
THEOREM VerdictsMeant == AssertionsMean /\ Spec => []VerdictsMean
<1> SUFFICES ASSUME AssertionsMean PROVE Spec => []VerdictsMean
  OBVIOUS
<1>1. \A n : VerdictOf(suite, n) = TS!Verdict(n)
  BY DEF VerdictOf, Body, TS!Verdict
<1>2. Meaning => VerdictsMean
  BY <1>1 DEF Meaning, Said, VerdictsMean
<1>3. QED
  BY <1>2, AlwaysMeaning, PTL

\* The verdicts so far, as the abstract suite has them.
LEMMA VerdictsAre == Report /\ Meaning => verdicts = [n \in 1..Closed |-> VerdictOf(suite, n)]
<1> SUFFICES ASSUME Report, Meaning PROVE verdicts = [n \in 1..Closed |-> VerdictOf(suite, n)]
  OBVIOUS
<1>1. ASSUME NEW n \in Judged
      PROVE  out[CHOOSE m \in Verdicts : out[m].test = n].line = VerdictOf(suite, n)
  <2> DEFINE m == CHOOSE m \in Verdicts : out[m].test = n
  <2>1. \E k \in Verdicts : out[k].test = n
    BY DEF Judged
  <2>2. m \in Verdicts /\ out[m].test = n
    BY <2>1
  <2> HIDE DEF m
  <2>3. out[m].line = VerdictOf(suite, n)
    BY <2>2 DEF Meaning, Said
  <2>4. QED
    BY <2>3 DEF m
<1>2. Judged = 1..Closed
  BY DEF Report
<1>3. verdicts = [n \in Judged |-> out[CHOOSE m \in Verdicts : out[m].test = n].line]
  BY DEF verdicts
<1>4. QED
  BY <1>1, <1>2, <1>3

\* A verdict more is one at the end of the sequence.
LEMMA OneMore ==
  ASSUME NEW s, NEW k \in Nat
  PROVE  LET v(j) == [n \in 1..j |-> VerdictOf(s, n)]
         IN  /\ Len(v(k)) = k
             /\ v(k + 1) = Append(v(k), VerdictOf(s, k + 1))
<1> DEFINE v(j) == [n \in 1..j |-> VerdictOf(s, n)]
           S == {VerdictOf(s, n) : n \in 1..(k + 1)}
           e == VerdictOf(s, k + 1)
<1>1. \A n \in 1..(k + 1) : VerdictOf(s, n) \in S
  OBVIOUS
<1>2. v(k) \in [1..k -> S] /\ v(k + 1) \in [1..(k + 1) -> S] /\ e \in S
  BY <1>1
<1> HIDE DEF S
<1>3. v(k) \in Seq(S) /\ v(k + 1) \in Seq(S)
  BY <1>2
<1>4. Len(v(k)) = k /\ Len(v(k + 1)) = k + 1
  BY <1>3, LenProperties
<1>5. /\ Append(v(k), e) \in Seq(S) /\ Len(Append(v(k), e)) = k + 1
      /\ \A i \in 1..k : Append(v(k), e)[i] = v(k)[i]
      /\ Append(v(k), e)[k + 1] = e
  BY <1>2, <1>3, <1>4, AppendProperties
<1>6. \A i \in 1..(k + 1) : v(k + 1)[i] = Append(v(k), e)[i]
  BY <1>5
<1>7. v(k + 1) = Append(v(k), e)
  BY <1>3, <1>4, <1>5, <1>6, SeqEqual
<1>8. QED
  BY <1>4, <1>7

\* A step closes at most the test that runs.
LEMMA Closing ==
  ASSUME IInv, Report, [Next]_vars, ~UnityEnd
  PROVE  /\ UNCHANGED <<suite, result>>
         /\ \/ Closed' = Closed
            \/ Closed' = Closed + 1 /\ Closed' <= Len(suite.tests) /\ pc \in Running
<1> DEFINE N == Unity.NumberOfTests
<1>0. /\ N \in Nat /\ N <= Len(suite.tests) /\ Unity \in Counters /\ Len(suite.tests) \in Nat
      /\ pc \notin Running => ~Decided /\ Closed = N
      /\ Closed = N \/ (Closed = N - 1 /\ ~Decided)
      /\ pc \in {"setUp", "test"} => ~Decided
      /\ pc = "begin" => Unity = Zero
  BY DEF IInv, Counters, Report, Closed
<1>1. CASE UnityBegin
  <2>1. UNCHANGED <<suite, Unity, result>> /\ pc = "begin" /\ pc' = "main"
    BY <1>0, <1>1 DEF UnityBegin
  <2>2. Closed' = Closed
    BY <2>1 DEF Closed, Running, Decided
  <2>3. QED
    BY <2>1, <2>2
<1>2. CASE RunTest
  <2>1. /\ Unity' = [Unity EXCEPT !.NumberOfTests = @ + 1] /\ UNCHANGED <<suite, result>>
        /\ pc = "main" /\ pc' = "setUp"
    BY <1>2 DEF RunTest, Enter
  <2>2. ~Decided /\ Closed = N
    BY <1>0, <2>1 DEF Running
  <2>3. ~Decided' /\ Unity'.NumberOfTests = N + 1
    BY <1>0, <2>1, <2>2 DEF Decided, Counters
  <2>4. Closed' = N
    BY <1>0, <2>1, <2>3 DEF Closed, Running
  <2>5. QED
    BY <2>1, <2>2, <2>4
<1>3. CASE Statement
  <2>1. /\ UNCHANGED <<suite, result>> /\ pc \in {"setUp", "test", "tearDown"}
        /\ Goes(TS!Decides(Code[ip]), Right(Code[ip]))
    BY <1>3, StatementGoes
  <2>2. pc \in Running /\ pc' \in Running
    BY <2>1, AbortGoes DEF Goes, Proceed, Running
  <2>3. \/ UNCHANGED Unity
        \/ ~Decided /\ Unity' = [Unity EXCEPT !.CurrentTestFailed = 1]
        \/ ~Decided /\ Unity' = [Unity EXCEPT !.CurrentTestIgnored = 1]
    BY <2>1 DEF Goes
  <2>4. Unity'.NumberOfTests = N
    BY <1>0, <2>3 DEF Counters
  <2>5. CASE UNCHANGED Unity
    BY <2>1, <2>2, <2>5 DEF Closed, Decided
  <2>6. CASE ~UNCHANGED Unity
    <3>1. Unity'.CurrentTestFailed = 1 \/ Unity'.CurrentTestIgnored = 1
      BY <1>0, <2>3, <2>6 DEF Counters
    <3>2. Decided' /\ ~Decided
      BY <2>3, <2>6, <3>1 DEF Decided
    <3>3. Closed' = N /\ Closed = N - 1
      BY <2>2, <2>4, <3>2 DEF Closed
    <3>4. QED
      BY <1>0, <2>1, <2>2, <3>3
  <2>7. QED
    BY <2>5, <2>6
<1>4. CASE Return
  <2>1. UNCHANGED <<suite, Unity, result>> /\ pc \in Running /\ pc' \in Running
    BY <1>4 DEF Return, Enter, Running
  <2>2. QED
    BY <2>1 DEF Closed, Decided
<1>5. CASE UnityConcludeTest
  <2>1. /\ pc = "conclude" /\ pc' = "main" /\ UNCHANGED <<suite, result>>
        /\ Unity'.NumberOfTests = N
    BY <1>0, <1>5 DEF UnityConcludeTest, Counters
  <2>2. Closed' = N
    BY <2>1 DEF Closed, Running
  <2>3. QED
    BY <1>0, <2>1, <2>2 DEF Running
<1>6. CASE UNCHANGED vars
  BY <1>6 DEF vars, Closed, Decided
<1>7. QED
  BY <1>1, <1>2, <1>3, <1>4, <1>5, <1>6 DEF Next, Terminated

\* Each failed test has its line: the lines and the tests go one to one.
LEMMA FailuresCounted ==
  ASSUME IInv, Report, Meaning
  PROVE  Cardinality({n \in DOMAIN verdicts : verdicts[n] = "FAIL"}) = Cardinality(LinesOf({"FAIL"}))
<1> DEFINE F == LinesOf({"FAIL"})
           G == {n \in DOMAIN verdicts : verdicts[n] = "FAIL"}
           b == [m \in F |-> out[m].test]
<1>1. /\ Judged = {out[m].test : m \in Verdicts} /\ Judged = 1..Closed /\ IsFiniteSet(Verdicts)
      /\ \A m, k \in Verdicts : m < k => out[m].test < out[k].test
  BY DEF Report, Judged
<1>2. DOMAIN verdicts = 1..Closed /\ \A n \in 1..Closed : verdicts[n] = VerdictOf(suite, n)
  BY VerdictsAre
<1>3. \A m \in Verdicts : out[m].line = VerdictOf(suite, out[m].test) /\ out[m].test \in 1..Closed
  BY <1>1 DEF Meaning, Said
<1>4. F = {m \in Verdicts : out[m].line = "FAIL"} /\ \A m \in Verdicts : m \in Int
  <2>1. PICK S : out \in Seq(S)
    BY DEF Report
  <2>2. DOMAIN out = 1..Len(out) /\ Len(out) \in Nat
    BY <2>1, LenProperties
  <2>3. Verdicts \subseteq DOMAIN out
    BY DEF Verdicts, LinesOf
  <2>4. F = {m \in Verdicts : out[m].line = "FAIL"}
    BY DEF Verdicts, LinesOf
  <2>5. QED
    BY <2>2, <2>3, <2>4
<1> HIDE DEF F
<1>5. b \in Bijection(F, G)
  <2>1. b \in [F -> G]
    <3>1. \A m \in F : out[m].test \in G
      BY <1>2, <1>3, <1>4
    <3>2. QED
      BY <3>1
  <2>2. \A m, k \in F : b[m] = b[k] => m = k
    <3>1. SUFFICES ASSUME NEW m \in F, NEW k \in F, out[m].test = out[k].test PROVE m = k
      OBVIOUS
    <3>2. m \in Verdicts /\ k \in Verdicts /\ m \in Int /\ k \in Int
      BY <1>4
    <3>3. out[m].test \in Int /\ out[k].test \in Int
      BY <1>3, <3>2
    <3>4. ~(m < k) /\ ~(k < m)
      BY <1>1, <3>1, <3>2, <3>3
    <3>5. QED
      BY <3>2, <3>4
  <2>3. \A n \in G : \E m \in F : b[m] = n
    <3>1. SUFFICES ASSUME NEW n \in G PROVE \E m \in F : out[m].test = n
      OBVIOUS
    <3>2. PICK m \in Verdicts : out[m].test = n
      BY <1>1, <1>2
    <3>3. m \in F
      BY <1>2, <1>3, <1>4, <3>2
    <3>4. QED
      BY <3>2, <3>3
  <2> HIDE DEF b, G
  <2>4. QED
    BY <2>1, <2>2, <2>3, Fun_IsBij
<1>6. IsFiniteSet(F)
  BY <1>1, <1>4, FS_Subset
<1>7. Cardinality(F) = Cardinality(G)
  BY <1>5, <1>6, FS_Bijection DEF ExistsBijection
<1>8. QED
  BY <1>7 DEF F

\* UnityRun implements TestSuite when every assertion is judged as its name says:
\* for every test program, its tests are judged once each, in order, by the first
\* thing in them that decides, and UnityEnd returns the number of those that
\* failed (unity.c UnityBegin to UnityEnd).
THEOREM SuiteImplemented == AssertionsMean /\ Spec => ImplementsTestSuite
<1> SUFFICES ASSUME AssertionsMean PROVE Spec => ImplementsTestSuite
  OBVIOUS
<1> DEFINE All == IInv /\ Report /\ Meaning
<1>1. Init => TS!Init
  <2> SUFFICES ASSUME Init PROVE TS!Init
    OBVIOUS
  <2>1. result = -1 /\ out = <<>>
    BY DEF Init
  <2>2. Judged = {}
    BY <2>1 DEF Judged, Verdicts, LinesOf
  <2>3. verdicts = <<>>
    BY <2>2 DEF verdicts
  <2>4. QED
    BY <2>1, <2>3 DEF TS!Init
<1>2. ASSUME All, All', [Next]_vars PROVE [TS!Judge \/ TS!End]_(TS!vars)
  <2> DEFINE v(j) == [n \in 1..j |-> VerdictOf(suite, n)]
  <2>1. verdicts = v(Closed)
    BY <1>2, VerdictsAre
  <2>2. UNCHANGED suite => verdicts' = v(Closed')
    <3>1. (verdicts = [n \in 1..Closed |-> VerdictOf(suite, n)])'
      BY <1>2, VerdictsAre, PTL
    <3>2. QED
      BY <3>1
  <2>3. Closed \in Nat
    BY <1>2 DEF Closed, IInv, Counters, Running
  <2>4. CASE UnityEnd
    <3>1. /\ UNCHANGED <<suite, Unity, out>> /\ pc = "main" /\ pc' = "end"
          /\ Unity.NumberOfTests = Len(suite.tests) /\ result' = Unity.TestFailures
      BY <2>4 DEF UnityEnd
    <3>2. Closed' = Closed /\ Closed = Len(suite.tests) /\ ~Decided
      BY <1>2, <3>1 DEF Closed, Running, Report, Decided
    <3>3. UNCHANGED verdicts
      BY <2>1, <2>2, <3>1, <3>2
    <3>4. Len(verdicts) = Len(suite.tests)
      BY <2>1, <2>3, <3>2, OneMore
    <3>5. result = -1
      BY <1>2, <3>1 DEF Meaning, Returned
    <3>6. Unity.CurrentTestFailed = 0 /\ Unity.TestFailures \in Nat
      BY <1>2, <3>2 DEF IInv, Counters, Decided
    <3>7. result' = Cardinality(LinesOf({"FAIL"}))
      BY <1>2, <3>1, <3>6 DEF Report
    <3>8. result' = Cardinality({n \in DOMAIN verdicts : verdicts[n] = "FAIL"})
      BY <1>2, <3>7, FailuresCounted
    <3>9. UNCHANGED <<suite, verdicts>>
      BY <3>1, <3>3
    <3>10. \A S : TS!Cardinality(S) = Cardinality(S)
      BY DEF TS!Cardinality, Cardinality
    <3>11. TS!End
      BY <3>4, <3>5, <3>8, <3>9, <3>10, Zenon DEF TS!End
    <3>12. QED
      BY <3>11
  <2>5. CASE ~UnityEnd
    <3>1. /\ UNCHANGED <<suite, result>>
          /\ \/ Closed' = Closed
             \/ Closed' = Closed + 1 /\ Closed' <= Len(suite.tests) /\ pc \in Running
      BY <1>2, <2>5, Closing
    <3>2. CASE Closed' = Closed
      BY <2>1, <2>2, <3>1, <3>2 DEF TS!vars
    <3>3. CASE Closed' = Closed + 1 /\ Closed' <= Len(suite.tests) /\ pc \in Running
      <4>1. Len(verdicts) = Closed /\ verdicts' = Append(verdicts, VerdictOf(suite, Closed + 1))
        BY <2>1, <2>2, <2>3, <3>1, <3>3, OneMore
      <4>2. result = -1
        BY <1>2, <3>3 DEF Meaning, Returned, Running
      <4>3. Len(verdicts) < Len(suite.tests)
        BY <1>2, <2>3, <3>3, <4>1 DEF IInv
      <4>4. VerdictOf(suite, Closed + 1) = TS!Verdict(Len(verdicts) + 1)
        BY <4>1 DEF VerdictOf, Body, TS!Verdict
      <4>5. TS!Judge
        BY <3>1, <4>1, <4>2, <4>3, <4>4 DEF TS!Judge
      <4>6. QED
        BY <4>5
    <3>4. QED
      BY <3>1, <3>2, <3>3
  <2>6. QED
    BY <2>4, <2>5
<1>3. Spec => []All
  BY AlwaysMeaning
<1>4. QED
  BY <1>1, <1>2, <1>3, PTL DEF Spec, ImplementsTestSuite, TS!Spec

-----------------------------------------------------------------------------
(* The assertions a program can make.                                       *)

\* A pointer of a test: to memory of its own, or NULL.
IsPointer(p) == p.id # "UnityQuickCompare" /\ (p.id = "NULL" <=> p = NULL)

\* What the arguments of a macro are: of the type in its name.  Left out are the
\* arrays of size_t, which are read as arrays of a shorter type, and distances in
\* arrays of the shorter unsigned types, which are read as signed numbers.
OfIntegers(a) ==
  /\ a.macro \in {"EQUAL", "COMPARE", "WITHIN"}
  /\ a.type \in IntegerTypes /\ a.expected \in Int /\ a.actual \in Int
  /\ \/ a.macro = "EQUAL"
     \/ a.macro = "COMPARE" /\ a.compare \in DOMAIN UNITY_COMPARISON_T
     \/ a.macro = "WITHIN" /\ a.delta \in 0..(Modulus(SizeOf(a.type)) - 1)

OfBits(a) == a.macro = "BITS" /\ a.mask \in Int

OfIntegerArrays(a) ==
  LET b == SizeOf(a.type)
  IN  /\ a.macro \in {"EQUAL_ARRAY", "ARRAY_WITHIN"}
      /\ a.type \in ArrayTypes /\ a.num \in Nat
      /\ a.macro = "ARRAY_WITHIN" => a.type \in DistanceTypes /\ a.delta \in 0..(Modulus(b) - 1)
      /\ "NULL" \notin {a.expected.id, a.actual.id} =>
           IsArray(a.expected, a.num, b) /\ IsArray(a.actual, a.num, b)

OfEachInteger(a) ==
  /\ a.macro = "EACH_EQUAL" /\ a.type \in ArrayTypes /\ a.num \in Nat
  /\ a.expected \in Int /\ IsPointer(a.actual)
  /\ a.actual # NULL => IsArray(a.actual, a.num, SizeOf(a.type))

OfStrings(a) ==
  /\ a.macro = "EQUAL_STRING" \/ (a.macro = "EQUAL_STRING_LEN" /\ a.length \in Nat)
  /\ IsString(a.expected) /\ IsString(a.actual)

OfStringArrays(a) ==
  /\ a.macro \in {"EQUAL_STRING_ARRAY", "EACH_EQUAL_STRING"} /\ a.num \in Nat
  /\ "NULL" \notin {a.expected.id, a.actual.id} =>
       \A i \in 0..(a.num - 1) :
         /\ IsString(a.actual.cells[i + 1])
         /\ IsString(IF a.macro = "EQUAL_STRING_ARRAY" THEN a.expected.cells[i + 1]
                                                       ELSE a.expected.cells)

OfMemory(a) ==
  /\ a.macro \in {"EQUAL_MEMORY", "EACH_EQUAL_MEMORY"} /\ a.length \in Nat /\ a.num \in Nat
  /\ "NULL" \notin {a.expected.id, a.actual.id} =>
       /\ IsBlock(a.actual, a.num * a.length)
       /\ IsBlock(a.expected, IF a.macro = "EQUAL_MEMORY" THEN a.num * a.length ELSE a.length)

OfFloats(a) ==
  /\ a.macro \in {"EQUAL_FLOAT", "FLOAT_WITHIN", "FLOAT_IS"} /\ a.actual \in Floats
  /\ \/ a.macro = "EQUAL_FLOAT" /\ a.expected \in Floats
     \/ /\ a.macro = "FLOAT_WITHIN" /\ a.expected \in Floats
        /\ a.delta \in Floats /\ a.delta.class # "nan"
     \/ /\ a.macro = "FLOAT_IS" /\ a.should_be \in BOOLEAN
        /\ a.trait \in {"INF", "NEG_INF", "NAN", "DET"}

OfFloatArrays(a) ==
  /\ a.macro = "EQUAL_FLOAT_ARRAY" /\ a.num \in Nat
  /\ "NULL" \notin {a.expected.id, a.actual.id} =>
       \A i \in 0..(a.num - 1) : a.expected.cells[i + 1] \in Floats /\ a.actual.cells[i + 1] \in Floats

OfEachFloat(a) ==
  /\ a.macro = "EACH_EQUAL_FLOAT" /\ a.num \in Nat
  /\ a.expected \in Floats /\ IsPointer(a.actual)
  /\ a.actual # NULL => \A i \in 0..(a.num - 1) : a.actual.cells[i + 1] \in Floats

WellTyped(a) ==
  \/ OfIntegers(a) \/ OfBits(a) \/ OfIntegerArrays(a) \/ OfEachInteger(a)
  \/ OfStrings(a) \/ OfStringArrays(a) \/ OfMemory(a)
  \/ OfFloats(a) \/ OfFloatArrays(a) \/ OfEachFloat(a)

JudgedRight(a) == Judgement(a).holds <=> Means(a)

LEMMA IntegersRight == ASSUME NEW a, OfIntegers(a) PROVE JudgedRight(a)
<1> USE DEF OfIntegers
<1>1. CASE a.macro = "EQUAL"
  <2>1. Judgement(a) = TEST_ASSERT_EQUAL(a.type, a.expected, a.actual)
    BY <1>1 DEF Judgement
  <2>2. Means(a) <=> ValueOf(a.expected, a.type) = ValueOf(a.actual, a.type)
    BY <1>1 DEF Means
  <2>3. QED
    BY <2>1, <2>2, EqualJudged DEF JudgedRight
<1>2. CASE a.macro = "COMPARE"
  <2>1. Judgement(a) = TEST_ASSERT_COMPARE(a.compare, a.type, a.expected, a.actual)
    BY <1>2 DEF Judgement
  <2>2. Means(a) <=> Ordered(a.compare, ValueOf(a.expected, a.type), ValueOf(a.actual, a.type))
    BY <1>2 DEF Means
  <2>3. QED
    BY <1>2, <2>1, <2>2, CompareJudged DEF JudgedRight
<1>3. CASE a.macro = "WITHIN"
  <2>1. Judgement(a) = TEST_ASSERT_WITHIN(a.type, a.delta, a.expected, a.actual)
    BY <1>3 DEF Judgement
  <2>2. Means(a) <=> Near(a.delta, ValueOf(a.expected, a.type), ValueOf(a.actual, a.type))
    BY <1>3 DEF Means
  <2>3. QED
    BY <1>3, <2>1, <2>2, WithinJudged DEF JudgedRight
<1>4. QED
  BY <1>1, <1>2, <1>3

LEMMA BitsRight == ASSUME NEW a, OfBits(a) PROVE JudgedRight(a)
<1> USE DEF OfBits
<1>1. Judgement(a) = UnityAssertBits(a.mask, a.expected, a.actual)
  BY DEF Judgement
<1>2. Means(a) <=> \A b \in 0..(LONG * ByteBits - 1) :
                     Bit(a.mask, b) = 0 \/ Bit(a.expected, b) = Bit(a.actual, b)
  BY DEF Means
<1>3. QED
  BY <1>1, <1>2, BitsJudged DEF JudgedRight

LEMMA IntegerArraysRight == ASSUME NEW a, OfIntegerArrays(a) PROVE JudgedRight(a)
<1> USE DEF OfIntegerArrays
<1>1. CASE a.macro = "EQUAL_ARRAY"
  <2>1. Judgement(a) = TEST_ASSERT_EQUAL_ARRAY(a.type, a.expected, a.actual, a.num)
    BY <1>1 DEF Judgement
  <2>2. Means(a) <=> Compared(a.expected, a.actual, a.num,
                       \A i \in 0..(a.num - 1) :
                         Element(a.expected, i, a.type) = Element(a.actual, i, a.type))
    BY <1>1 DEF Means
  <2>3. QED
    BY <2>1, <2>2, IntArrayJudged DEF JudgedRight, Compared
<1>2. CASE a.macro = "ARRAY_WITHIN"
  <2>1. Judgement(a) = TEST_ASSERT_ARRAY_WITHIN(a.type, a.delta, a.expected, a.actual, a.num)
    BY <1>2 DEF Judgement
  <2>2. Means(a) <=> Compared(a.expected, a.actual, a.num,
                       \A i \in 0..(a.num - 1) :
                         Near(a.delta, Element(a.expected, i, a.type), Element(a.actual, i, a.type)))
    BY <1>2 DEF Means
  <2>3. QED
    BY <1>2, <2>1, <2>2, ArrayWithinJudged DEF JudgedRight, Compared
<1>3. QED
  BY <1>1, <1>2

LEMMA EachIntegerRight == ASSUME NEW a, OfEachInteger(a) PROVE JudgedRight(a)
<1> USE DEF OfEachInteger, IsPointer
<1>1. Judgement(a) = TEST_ASSERT_EACH_EQUAL(a.type, a.expected, a.actual, a.num)
  BY DEF Judgement
<1>2. Means(a) <=> /\ a.num > 0 /\ a.actual # NULL
                   /\ \A i \in 0..(a.num - 1) :
                        Element(a.actual, i, a.type)
                          = IF a.type \in SignedTypes THEN Signed(a.expected, SizeOf(a.type))
                                                      ELSE Unsigned(a.expected, SizeOf(a.type))
  BY DEF Means
<1>3. QED
  BY <1>1, <1>2, EachIntJudged DEF JudgedRight

LEMMA StringsRight == ASSUME NEW a, OfStrings(a) PROVE JudgedRight(a)
<1> USE DEF OfStrings
<1>1. CASE a.macro = "EQUAL_STRING"
  <2>1. Judgement(a) = UnityAssertEqualString(a.expected, a.actual)
    BY <1>1 DEF Judgement
  <2>2. Means(a) <=> a.expected = a.actual
    BY <1>1 DEF Means
  <2>3. QED
    BY <2>1, <2>2, StringJudged DEF JudgedRight
<1>2. CASE a.macro = "EQUAL_STRING_LEN"
  <2>1. Judgement(a) = UnityAssertEqualStringLen(a.expected, a.actual, a.length)
    BY <1>2 DEF Judgement
  <2>2. Means(a) <=> IF NullString \in {a.expected, a.actual} THEN a.expected = a.actual
                     ELSE Start(a.expected, a.length) = Start(a.actual, a.length)
    BY <1>2 DEF Means, Start
  <2>3. QED
    BY <1>2, <2>1, <2>2, StringLenJudged DEF JudgedRight
<1>3. QED
  BY <1>1, <1>2

LEMMA StringArraysRight == ASSUME NEW a, OfStringArrays(a) PROVE JudgedRight(a)
<1> USE DEF OfStringArrays
<1>1. CASE a.macro = "EQUAL_STRING_ARRAY"
  <2>1. Judgement(a) = UnityAssertEqualStringArray(a.expected, a.actual, a.num, "ARRAY_TO_ARRAY")
    BY <1>1 DEF Judgement
  <2>2. Means(a) <=> Compared(a.expected, a.actual, a.num,
                       SameStrings(a.expected, a.actual, a.num, "ARRAY_TO_ARRAY"))
    BY <1>1 DEF Means, SameStrings, ExpectedString, Compared
  <2>3. "NULL" \notin {a.expected.id, a.actual.id} =>
          AreStrings(a.expected, a.actual, a.num, "ARRAY_TO_ARRAY")
    BY <1>1 DEF AreStrings, ExpectedString
  <2>4. QED
    BY <2>1, <2>2, <2>3, StringArrayJudged DEF JudgedRight
<1>2. CASE a.macro = "EACH_EQUAL_STRING"
  <2>1. Judgement(a) = UnityAssertEqualStringArray(a.expected, a.actual, a.num, "ARRAY_TO_VAL")
    BY <1>2 DEF Judgement
  <2>2. Means(a) <=> Compared(a.expected, a.actual, a.num,
                       SameStrings(a.expected, a.actual, a.num, "ARRAY_TO_VAL"))
    BY <1>2 DEF Means, SameStrings, ExpectedString, Compared
  <2>3. "NULL" \notin {a.expected.id, a.actual.id} =>
          AreStrings(a.expected, a.actual, a.num, "ARRAY_TO_VAL")
    BY <1>2 DEF AreStrings, ExpectedString
  <2>4. QED
    BY <2>1, <2>2, <2>3, StringArrayJudged DEF JudgedRight
<1>3. QED
  BY <1>1, <1>2

LEMMA MemoryRight == ASSUME NEW a, OfMemory(a) PROVE JudgedRight(a)
<1> USE DEF OfMemory
<1> DEFINE size == a.num * a.length
<1>1. CASE a.macro = "EQUAL_MEMORY"
  <2>1. Judgement(a) = UnityAssertEqualMemory(a.expected, a.actual, a.length, a.num, "ARRAY_TO_ARRAY")
    BY <1>1 DEF Judgement
  <2>2. Means(a) <=> Compared(a.expected, a.actual, size, SameMemory(a.expected, a.actual, size))
    BY <1>1 DEF Means, SameMemory
  <2>3. "NULL" \notin {a.expected.id, a.actual.id} =>
          IsBlock(a.expected, size) /\ IsBlock(a.actual, size)
    BY <1>1
  <2>4. QED
    BY <2>1, <2>2, <2>3, MemoryJudged DEF JudgedRight
<1>2. CASE a.macro = "EACH_EQUAL_MEMORY"
  <2>1. Judgement(a) = UnityAssertEqualMemory(a.expected, a.actual, a.length, a.num, "ARRAY_TO_VAL")
    BY <1>2 DEF Judgement
  <2>2. Means(a) <=> Compared(a.expected, a.actual, size, EachSame(a.expected, a.actual, a.length, a.num))
    BY <1>2 DEF Means, EachSame, Compared
  <2>3. "NULL" \notin {a.expected.id, a.actual.id} =>
          IsBlock(a.expected, a.length) /\ IsBlock(a.actual, size)
    BY <1>2
  <2>4. QED
    BY <2>1, <2>2, <2>3, EachMemoryJudged DEF JudgedRight
<1>3. QED
  BY <1>1, <1>2

LEMMA FloatsRight == ASSUME NEW a, OfFloats(a) PROVE JudgedRight(a)
<1> USE DEF OfFloats
<1>1. CASE a.macro = "EQUAL_FLOAT"
  <2>1. Judgement(a) = TEST_ASSERT_EQUAL_FLOAT(a.expected, a.actual)
    BY <1>1 DEF Judgement
  <2>2. Means(a) <=> Alike(a.expected, a.actual)
    BY <1>1 DEF Means
  <2>3. QED
    BY <1>1, <2>1, <2>2, EqualFloatJudged DEF JudgedRight
<1>2. CASE a.macro = "FLOAT_WITHIN"
  <2>1. Judgement(a) = UnityAssertFloatsWithin(a.delta, 1, a.expected, a.actual)
    BY <1>2 DEF Judgement
  <2>2. Means(a) <=> NearFloats(a.delta, a.expected, a.actual)
    BY <1>2 DEF Means, NearFloats
  <2>3. QED
    BY <1>2, <2>1, <2>2, FloatWithinJudged DEF JudgedRight
<1>3. CASE a.macro = "FLOAT_IS"
  <2>1. Judgement(a) = UnityAssertFloatSpecial(a.actual, a.trait, a.should_be)
    BY <1>3 DEF Judgement
  <2>2. Means(a) <=> a.should_be = CASE a.trait = "INF"     -> a.actual = Inf(1)
                                     [] a.trait = "NEG_INF" -> a.actual = Inf(-1)
                                     [] a.trait = "NAN"     -> a.actual = NaN
                                     [] a.trait = "DET"     -> a.actual.class = "finite"
    BY <1>3 DEF Means
  <2>3. QED
    BY <1>3, <2>1, <2>2, FloatSpecialJudged DEF JudgedRight
<1>4. QED
  BY <1>1, <1>2, <1>3

LEMMA FloatArraysRight == ASSUME NEW a, OfFloatArrays(a) PROVE JudgedRight(a)
<1> USE DEF OfFloatArrays
<1> DEFINE at(i) == ExpectedAt(i, "ARRAY_TO_ARRAY")
<1>1. Judgement(a) = UnityAssertEqualFloatArray(a.expected, a.actual, a.num, "ARRAY_TO_ARRAY")
  BY DEF Judgement
<1>2. Means(a) <=> Compared(a.expected, a.actual, a.num,
                     \A i \in 0..(a.num - 1) :
                       Alike(a.expected.cells[at(i) + 1], a.actual.cells[i + 1]))
  BY DEF Means, ExpectedAt
<1>3. \A i : at(i) = i
  BY DEF ExpectedAt
<1> HIDE DEF at
<1>4. "NULL" \notin {a.expected.id, a.actual.id} =>
        \A i \in 0..(a.num - 1) : /\ a.expected.cells[at(i) + 1] \in Floats
                                  /\ a.actual.cells[i + 1] \in Floats
  BY <1>3
<1>5. QED
  BY <1>1, <1>2, <1>4, FloatArrayJudged DEF JudgedRight, Compared, at

LEMMA EachFloatRight == ASSUME NEW a, OfEachFloat(a) PROVE JudgedRight(a)
<1> USE DEF OfEachFloat, IsPointer
<1>1. Judgement(a) = TEST_ASSERT_EACH_EQUAL_FLOAT(a.expected, a.actual, a.num)
  BY DEF Judgement
<1>2. Means(a) <=> /\ a.num > 0 /\ a.actual # NULL
                   /\ \A i \in 0..(a.num - 1) : Alike(a.expected, a.actual.cells[i + 1])
  BY DEF Means
<1>3. QED
  BY <1>1, <1>2, EachFloatJudged DEF JudgedRight

\* An assertion whose arguments are of the type in its name holds exactly if what
\* the name promises of them does, for every argument and bytes of 2, 4, 6 or
\* 8 bits (unity.c UnityAssertEqualNumber to UnityAssertFloatSpecial).
THEOREM JudgedAsNamed == ASSUME NEW a, WellTyped(a) PROVE Judgement(a).holds <=> Means(a)
BY IntegersRight, BitsRight, IntegerArraysRight, EachIntegerRight, StringsRight,
   StringArraysRight, MemoryRight, FloatsRight, FloatArraysRight, EachFloatRight
   DEF WellTyped, JudgedRight

\* A program that makes only such assertions.
WellTypedPrograms ==
  \A f \in DOMAIN Families : \A s \in Families[f] :
    LET codes == {s.setUp, s.tearDown} \union {s.tests[n] : n \in 1..Len(s.tests)}
    IN  \A code \in codes : \A k \in 1..Len(code) :
          code[k].do = "assert" => WellTyped(code[k].assertion)

LEMMA WellTypedMean == WellTypedPrograms => AssertionsMean
<1>1. ASSUME NEW stmt, stmt.do = "assert" => WellTyped(stmt.assertion) PROVE Right(stmt)
  BY <1>1, JudgedAsNamed DEF Right
<1>2. QED
  BY <1>1 DEF WellTypedPrograms, AssertionsMean

\* The test suite is implemented by every program of well-typed assertions: each
\* test has the verdict its assertions' names say, and UnityEnd returns the number
\* of those that failed (unity.c, all of it that a run goes through).
THEOREM WellTypedSuites == WellTypedPrograms /\ Spec => ImplementsTestSuite /\ []VerdictsMean
BY WellTypedMean, SuiteImplemented, VerdictsMeant

-----------------------------------------------------------------------------
(* What the report of a failed assertion shows.                             *)

\* What the arguments of a macro are in C: numbers of any value, arrays as long
\* as they are read, strings that end, bytes.  Nothing is asked of what is
\* compared as neither number, byte nor string.
ReadsNumbers(a) ==
  /\ a.macro \in {"EQUAL", "WITHIN"} /\ a.type \in IntegerTypes
  /\ a.expected \in Int /\ a.actual \in Int
  /\ a.macro = "WITHIN" => a.delta \in Int

ReadsArrays(a) ==
  LET b == StyleOf(a.type).bytes
  IN  /\ a.macro \in {"EQUAL_ARRAY", "ARRAY_WITHIN"}
      /\ a.type \in IntegerTypes /\ a.num \in Nat
      /\ a.macro = "ARRAY_WITHIN" => a.delta \in Int
      /\ "NULL" \notin {a.expected.id, a.actual.id} =>
           IsArray(a.expected, a.num, b) /\ IsArray(a.actual, a.num, b)

ReadsEach(a) ==
  /\ a.macro = "EACH_EQUAL" /\ a.type \in IntegerTypes /\ a.num \in Nat /\ a.expected \in Int
  /\ a.actual.id # "NULL" => IsArray(a.actual, a.num, StyleOf(a.type).bytes)

ReadsMemory(a) ==
  /\ a.macro \in {"EQUAL_MEMORY", "EACH_EQUAL_MEMORY"} /\ a.length \in Nat /\ a.num \in Nat
  /\ "NULL" \notin {a.expected.id, a.actual.id} =>
       /\ IsMemory(a.actual, a.num * a.length)
       /\ IsMemory(a.expected, IF a.macro = "EQUAL_MEMORY" THEN a.num * a.length ELSE a.length)

ReadsOthers(a) ==
  \/ a.macro \in {"COMPARE", "BITS", "FLOAT_WITHIN", "EQUAL_FLOAT", "FLOAT_IS"}
  \/ a.macro \in {"EQUAL_FLOAT_ARRAY", "EACH_EQUAL_FLOAT"} /\ a.num \in Nat

Readable(a) ==
  \/ ReadsNumbers(a) \/ ReadsArrays(a) \/ ReadsEach(a) \/ ReadsMemory(a)
  \/ OfStrings(a) \/ OfStringArrays(a) \/ ReadsOthers(a)

Shown(a) == ShowsMismatch(Judgement(a))

LEMMA NumbersShown == ASSUME NEW a, ReadsNumbers(a) PROVE Shown(a)
<1> USE DEF ReadsNumbers
<1>1. CASE a.macro = "EQUAL"
  <2>1. Judgement(a) = TEST_ASSERT_EQUAL(a.type, a.expected, a.actual)
    BY <1>1 DEF Judgement
  <2>2. QED
    BY <2>1, EqualShown DEF Shown
<1>2. CASE a.macro = "WITHIN"
  <2>1. Judgement(a) = TEST_ASSERT_WITHIN(a.type, a.delta, a.expected, a.actual)
    BY <1>2 DEF Judgement
  <2>2. QED
    BY <1>2, <2>1, WithinShown DEF Shown
<1>3. QED
  BY <1>1, <1>2

LEMMA IntegerArraysShown == ASSUME NEW a, ReadsArrays(a) PROVE Shown(a)
<1> USE DEF ReadsArrays
<1>1. CASE a.macro = "EQUAL_ARRAY"
  <2>1. Judgement(a) = TEST_ASSERT_EQUAL_ARRAY(a.type, a.expected, a.actual, a.num)
    BY <1>1 DEF Judgement
  <2>2. QED
    BY <2>1, EqualArrayShown DEF Shown, TEST_ASSERT_EQUAL_ARRAY
<1>2. CASE a.macro = "ARRAY_WITHIN"
  <2>1. Judgement(a) = TEST_ASSERT_ARRAY_WITHIN(a.type, a.delta, a.expected, a.actual, a.num)
    BY <1>2 DEF Judgement
  <2>2. QED
    BY <1>2, <2>1, ArrayWithinShown DEF Shown
<1>3. QED
  BY <1>1, <1>2

LEMMA EachShown == ASSUME NEW a, ReadsEach(a) PROVE Shown(a)
<1> USE DEF ReadsEach
<1>1. Judgement(a) = TEST_ASSERT_EACH_EQUAL(a.type, a.expected, a.actual, a.num)
  BY DEF Judgement
<1>2. QED
  BY <1>1, EachEqualShown DEF Shown

LEMMA BlocksShown == ASSUME NEW a, ReadsMemory(a) PROVE Shown(a)
<1> USE DEF ReadsMemory
<1>1. CASE a.macro = "EQUAL_MEMORY"
  <2>1. Judgement(a) = UnityAssertEqualMemory(a.expected, a.actual, a.length, a.num, "ARRAY_TO_ARRAY")
    BY <1>1 DEF Judgement
  <2>2. QED
    BY <1>1, <2>1, MemoryShown DEF Shown
<1>2. CASE a.macro = "EACH_EQUAL_MEMORY"
  <2>1. Judgement(a) = UnityAssertEqualMemory(a.expected, a.actual, a.length, a.num, "ARRAY_TO_VAL")
    BY <1>2 DEF Judgement
  <2>2. QED
    BY <1>2, <2>1, MemoryShown DEF Shown
<1>3. QED
  BY <1>1, <1>2

LEMMA TextShown == ASSUME NEW a, OfStrings(a) PROVE Shown(a)
<1> USE DEF OfStrings
<1>1. CASE a.macro = "EQUAL_STRING"
  <2>1. Judgement(a) = UnityAssertEqualString(a.expected, a.actual)
    BY <1>1 DEF Judgement
  <2>2. QED
    BY <2>1, StringShown DEF Shown
<1>2. CASE a.macro = "EQUAL_STRING_LEN"
  <2>1. Judgement(a) = UnityAssertEqualStringLen(a.expected, a.actual, a.length)
    BY <1>2 DEF Judgement
  <2>2. QED
    BY <1>2, <2>1, StringLenShown DEF Shown
<1>3. QED
  BY <1>1, <1>2

LEMMA TextArraysShown == ASSUME NEW a, OfStringArrays(a) PROVE Shown(a)
<1> USE DEF OfStringArrays
<1>1. CASE a.macro = "EQUAL_STRING_ARRAY"
  <2>1. Judgement(a) = UnityAssertEqualStringArray(a.expected, a.actual, a.num, "ARRAY_TO_ARRAY")
    BY <1>1 DEF Judgement
  <2>2. "NULL" \notin {a.expected.id, a.actual.id} =>
          AreStrings(a.expected, a.actual, a.num, "ARRAY_TO_ARRAY")
    BY <1>1 DEF AreStrings, ExpectedString
  <2>3. QED
    BY <2>1, <2>2, StringArrayShown DEF Shown
<1>2. CASE a.macro = "EACH_EQUAL_STRING"
  <2>1. Judgement(a) = UnityAssertEqualStringArray(a.expected, a.actual, a.num, "ARRAY_TO_VAL")
    BY <1>2 DEF Judgement
  <2>2. "NULL" \notin {a.expected.id, a.actual.id} =>
          AreStrings(a.expected, a.actual, a.num, "ARRAY_TO_VAL")
    BY <1>2 DEF AreStrings, ExpectedString
  <2>3. QED
    BY <2>1, <2>2, StringArrayShown DEF Shown
<1>3. QED
  BY <1>1, <1>2

LEMMA FloatArraysShown ==
  ASSUME NEW expected, NEW actual, NEW num \in Nat, NEW flags
  PROVE  ShowsMismatch(UnityAssertEqualFloatArray(expected, actual, num, flags))
<1> DEFINE e(i) == expected.cells[ExpectedAt(i, flags) + 1]
           a(i) == actual.cells[i + 1]
           bad == {i \in 0..(num - 1) : ~UnityFloatsWithin(e(i), FloatPrecision, e(i), a(i))}
           reports == [i \in 0..(num - 1) |-> Fails("float", <<i>>, <<e(i)>>, <<a(i)>>)]
           outcome == FirstBad(bad, reports)
<1>1. UnityAssertEqualFloatArray(expected, actual, num, flags) = Arrays(expected, actual, num, outcome)
  BY DEF UnityAssertEqualFloatArray
<1> HIDE DEF e, a
<1>2. bad \subseteq Nat
  OBVIOUS
<1>3. \A i \in bad : ShowsMismatch(reports[i])
  BY DEF ShowsMismatch, Fails
<1> HIDE DEF bad, reports
<1>4. ShowsMismatch(outcome)
  BY <1>2, <1>3, FirstBadShown
<1> HIDE DEF outcome
<1>5. QED
  BY <1>1, <1>4, ArraysShown

LEMMA OthersShown == ASSUME NEW a, ReadsOthers(a) PROVE Shown(a)
<1> USE DEF ReadsOthers
<1>1. CASE a.macro = "COMPARE"
  <2>1. Judgement(a) = TEST_ASSERT_COMPARE(a.compare, a.type, a.expected, a.actual)
    BY <1>1 DEF Judgement
  <2>2. QED
    BY <2>1 DEF Shown, ShowsMismatch, Holds, Fails, TEST_ASSERT_COMPARE,
                UnityAssertGreaterOrLessOrEqualNumber
<1>2. CASE a.macro = "BITS"
  <2>1. Judgement(a) = UnityAssertBits(a.mask, a.expected, a.actual)
    BY <1>2 DEF Judgement
  <2>2. QED
    BY <2>1 DEF Shown, ShowsMismatch, Holds, Fails, UnityAssertBits
<1>3. CASE a.macro = "FLOAT_WITHIN"
  <2>1. Judgement(a) = UnityAssertFloatsWithin(a.delta, 1, a.expected, a.actual)
    BY <1>3 DEF Judgement
  <2>2. QED
    BY <2>1 DEF Shown, ShowsMismatch, Holds, Fails, UnityAssertFloatsWithin
<1>4. CASE a.macro = "EQUAL_FLOAT"
  <2>1. Judgement(a) = TEST_ASSERT_EQUAL_FLOAT(a.expected, a.actual)
    BY <1>4 DEF Judgement
  <2>2. QED
    BY <2>1 DEF Shown, ShowsMismatch, Holds, Fails, UnityAssertFloatsWithin, TEST_ASSERT_EQUAL_FLOAT
<1>5. CASE a.macro = "FLOAT_IS"
  <2>1. Judgement(a) = UnityAssertFloatSpecial(a.actual, a.trait, a.should_be)
    BY <1>5 DEF Judgement
  <2> DEFINE report == Fails("trait", <<>>, <<a.trait>>, <<a.actual>>)
  <2>2. Judgement(a) = Holds \/ Judgement(a) = report
    BY <2>1 DEF UnityAssertFloatSpecial
  <2>3. ShowsMismatch(Holds) /\ ShowsMismatch(report)
    BY DEF ShowsMismatch, Holds, Fails
  <2>4. QED
    BY <2>2, <2>3 DEF Shown
<1>6. CASE a.macro = "EQUAL_FLOAT_ARRAY" /\ a.num \in Nat
  <2>1. Judgement(a) = UnityAssertEqualFloatArray(a.expected, a.actual, a.num, "ARRAY_TO_ARRAY")
    BY <1>6 DEF Judgement
  <2>2. QED
    BY <1>6, <2>1, FloatArraysShown DEF Shown
<1>7. CASE a.macro = "EACH_EQUAL_FLOAT" /\ a.num \in Nat
  <2>1. Judgement(a) = TEST_ASSERT_EACH_EQUAL_FLOAT(a.expected, a.actual, a.num)
    BY <1>7 DEF Judgement
  <2>2. QED
    BY <1>7, <2>1, FloatArraysShown DEF Shown, TEST_ASSERT_EACH_EQUAL_FLOAT
<1>8. QED
  BY <1>1, <1>2, <1>3, <1>4, <1>5, <1>6, <1>7

\* An assertion that fails on two numbers, bytes or strings prints two texts that
\* differ, for every argument and bytes of 2, 4, 6 or 8 bits: no cast or mask on
\* the way to the printer hides the difference (unity.c UnityPrintNumberByStyle,
\* UnityPrintExpectedAndActualStrings).
THEOREM FailureShown == ASSUME NEW a, Readable(a) PROVE ShowsMismatch(Judgement(a))
BY NumbersShown, IntegerArraysShown, EachShown, BlocksShown, TextShown, TextArraysShown,
   OthersShown DEF Readable, Shown

\* A program whose assertions are such.
ReadablePrograms ==
  \A f \in DOMAIN Families : \A s \in Families[f] :
    LET codes == {s.setUp, s.tearDown} \union {s.tests[n] : n \in 1..Len(s.tests)}
    IN  \A code \in codes : \A k \in 1..Len(code) :
          code[k].do = "assert" => Readable(code[k].assertion)

\* The program is one of the family, and its statements are counted from 1.
InProgram ==
  /\ \E f \in DOMAIN Families : suite \in Families[f]
  /\ ip \in Nat \ {0}

LEMMA NextInProgram == InProgram /\ [Next]_vars => InProgram'
<1> SUFFICES ASSUME InProgram, [Next]_vars PROVE InProgram'
  OBVIOUS
<1> USE DEF InProgram
<1>1. TEST_ABORT => ip' \in Nat \ {0}
  BY DEF TEST_ABORT, Enter
<1>2. Proceed => ip' \in Nat \ {0}
  BY DEF Proceed
<1>3. CASE UnityBegin \/ RunTest \/ Return \/ UnityConcludeTest \/ UnityEnd \/ UNCHANGED vars
  BY <1>3 DEF UnityBegin, RunTest, Return, UnityConcludeTest, UnityEnd, vars, Enter
<1>4. CASE Statement
  <2>1. suite' = suite
    BY <1>4 DEF Statement
  <2>2. TEST_ABORT \/ Proceed
    BY <1>4, StatementCases
  <2>3. QED
    BY <1>1, <1>2, <2>1, <2>2
<1>5. QED
  BY <1>3, <1>4 DEF Next, Terminated

\* What a line says of a mismatch, if it says anything.
Shows(fields) ==
  "report" \in DOMAIN fields =>
    LET r == fields.report
    IN  \/ r.what \notin {"number", "memory", "string"}
        \/ r.expected # r.actual
        \/ Contains(r.expected, "\\")

\* Lines other than that of a failed assertion say nothing of one.
LEMMA ShowsNothing == Shows(NoFields) /\ \A t : Shows([text |-> t])
BY DEF Shows, NoFields

\* The assertion that runs is one of the program.
LEMMA AssertionReadable ==
  ASSUME ReadablePrograms, IInv, InProgram, pc \in {"setUp", "test", "tearDown"},
         ip <= Len(Code), Code[ip].do = "assert"
  PROVE  Readable(Code[ip].assertion)
<1> DEFINE N == Unity.NumberOfTests
           codes == {suite.setUp, suite.tearDown} \union {suite.tests[n] : n \in 1..Len(suite.tests)}
<1>1. N \in 1..Len(suite.tests)
  BY DEF IInv, Counters, Running
<1>2. PICK f \in DOMAIN Families : suite \in Families[f]
  BY DEF InProgram
<1>3. /\ pc = "setUp" => Code = suite.setUp
      /\ pc = "test" => Code = suite.tests[N]
      /\ pc = "tearDown" => Code = suite.tearDown
  <2>1. pc # "test" => Code = suite[pc]
    BY DEF Code
  <2>2. pc = "test" => Code = suite.tests[N]
    BY DEF Code
  <2>3. QED
    BY <2>1, <2>2
<1>4. Code \in codes /\ Len(Code) \in Nat
  BY <1>1, <1>2, <1>3, Codes
<1>5. ip \in 1..Len(Code)
  BY <1>4 DEF InProgram
<1>6. \A code \in codes : \A k \in 1..Len(code) :
        code[k].do = "assert" => Readable(code[k].assertion)
  BY <1>2 DEF ReadablePrograms
<1> HIDE DEF codes
<1>7. QED
  BY <1>4, <1>5, <1>6

\* A statement prints nothing, or a line that shows the mismatch it is about.
LEMMA StatementPrints ==
  ASSUME ReadablePrograms, IInv, InProgram, Statement
  PROVE  UNCHANGED out \/ \E line, fields : Line(line, fields) /\ Shows(fields)
<1> DEFINE Prints == UNCHANGED out \/ \E line, fields : Line(line, fields) /\ Shows(fields)
<1>1. UnityFail => Prints
  BY ShowsNothing DEF UnityFail
<1>2. UnityIgnore => Prints
  BY ShowsNothing DEF UnityIgnore
<1>3. ASSUME NEW t, UnityMessage(t) PROVE Prints
  BY <1>3, ShowsNothing DEF UnityMessage
<1>4. ASSUME NEW c, UNITY_TEST_ASSERT(c) PROVE Prints
  BY <1>1, <1>4 DEF UNITY_TEST_ASSERT
<1>5. TEST_PASS => Prints
  BY DEF TEST_PASS
<1>6. ASSUME NEW a, Readable(a), UnityAssert(a) PROVE Prints
  <2>1. UNCHANGED out \/ (~Judgement(a).holds /\ Line("FAIL", [report |-> Judgement(a).report]))
    BY <1>6 DEF UnityAssert
  <2>2. ~Judgement(a).holds => Shows([report |-> Judgement(a).report])
    BY <1>6, FailureShown DEF ShowsMismatch, Shows
  <2>3. QED
    BY <2>1, <2>2
<1> HIDE DEF Prints
<1>7. pc \in {"setUp", "test", "tearDown"} /\ ip <= Len(Code)
  BY DEF Statement
<1>8. Code[ip].do = "assert" => Readable(Code[ip].assertion)
  BY <1>7, AssertionReadable
<1>9. Prints
  BY <1>1, <1>2, <1>3, <1>4, <1>5, <1>6, <1>8 DEF Statement
<1>10. QED
  BY <1>9 DEF Prints

LEMMA NextShows ==
  ReadablePrograms /\ IInv /\ Report /\ InProgram /\ ReportShowsMismatch /\ [Next]_vars
    => ReportShowsMismatch'
<1> SUFFICES ASSUME ReadablePrograms, IInv, Report, InProgram, ReportShowsMismatch, [Next]_vars
             PROVE  ReportShowsMismatch'
  OBVIOUS
<1>1. \A n \in DOMAIN out : Shows(out[n].fields)
  BY DEF ReportShowsMismatch, Shows
<1>2. UNCHANGED out \/ \E line, fields : Line(line, fields) /\ Shows(fields)
  <2>1. CASE Statement
    BY <2>1, StatementPrints
  <2>2. CASE UnityConcludeTest
    BY <2>2, ShowsNothing DEF UnityConcludeTest
  <2>3. CASE UnityBegin \/ RunTest \/ Return \/ UnityEnd \/ UNCHANGED vars
    BY <2>3 DEF UnityBegin, RunTest, Return, UnityEnd, vars
  <2>4. QED
    BY <2>1, <2>2, <2>3 DEF Next, Terminated
<1>3. \A n \in DOMAIN out' : Shows(out'[n].fields)
  <2>1. ASSUME NEW line, NEW fields, Line(line, fields), Shows(fields)
        PROVE  \A n \in DOMAIN out' : Shows(out'[n].fields)
    <3>1. PICK S : out \in Seq(S)
      BY DEF Report
    <3>2. /\ Len(out) \in Nat /\ DOMAIN out = 1..Len(out) /\ DOMAIN out' = 1..(Len(out) + 1)
          /\ \A m \in 1..Len(out) : out'[m] = out[m]
          /\ out'[Len(out) + 1].fields = fields
      BY <2>1, <3>1, AppendLine
    <3>3. \A n \in DOMAIN out' : n \in DOMAIN out \/ n = Len(out) + 1
      BY <3>2
    <3>4. QED
      BY <1>1, <2>1, <3>2, <3>3
  <2>2. QED
    BY <1>1, <1>2, <2>1
<1>4. QED
  BY <1>3 DEF ReportShowsMismatch, Shows

\* Every report of two numbers, bytes or strings that differ prints two texts that
\* differ, for every program whose assertions are given what they are meant for
\* (unity.c UnityAssertEqualNumber to UnityAssertEqualMemory and what they print).
THEOREM MismatchShown == ReadablePrograms /\ Spec => []ReportShowsMismatch
<1> SUFFICES ASSUME ReadablePrograms PROVE Spec => []ReportShowsMismatch
  OBVIOUS
<1>1. Init => InProgram /\ ReportShowsMismatch
  BY DEF Init, InProgram, ReportShowsMismatch
<1>2. IInv /\ Report /\ InProgram /\ ReportShowsMismatch /\ [Next]_vars
        => (InProgram /\ ReportShowsMismatch)'
  BY NextInProgram, NextShows
<1>3. QED
  BY <1>1, <1>2, AlwaysReport, PTL DEF Spec
=============================================================================
