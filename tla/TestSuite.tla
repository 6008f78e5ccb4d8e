----------------------------- MODULE TestSuite -----------------------------
(***************************************************************************)
(* What a test program promises: its tests are judged once each, in        *)
(* order, by the first thing in them that decides, and their failures are  *)
(* counted.  No flags, no jumps, no counters.                              *)
(*                                                                         *)
(* A suite is [setUp, tests, tearDown]; a function is a sequence of        *)
(* statements, each a record whose field "do" says what it does.           *)
(***************************************************************************)
EXTENDS Integers, Sequences, FiniteSets

CONSTANT Means(_)   \* what an assertion promises of its arguments

VARIABLES
  suite,     \* the program
  judged,    \* the verdicts so far
  failures   \* the result of the program, -1 before it has one

vars == <<suite, judged, failures>>

\* The verdict a statement gives the test it is in, or "".
Decides(stmt) ==
  CASE stmt.do = "fail" -> "FAIL"
    [] stmt.do = "ignore" -> "IGNORE"
    [] stmt.do = "pass" -> "PASS"
    [] stmt.do = "condition" -> IF stmt.true THEN "" ELSE "FAIL"
    [] stmt.do = "assert" -> IF Means(stmt.assertion) THEN "" ELSE "FAIL"
    [] stmt.do = "message" -> ""

\* The verdict of a piece of code is that of its first deciding statement.
Outcome(code) ==
  IF \A i \in DOMAIN code : Decides(code[i]) = "" THEN "PASS"
  ELSE Decides(code[CHOOSE i \in DOMAIN code :
                      /\ Decides(code[i]) # ""
                      /\ \A j \in 1..(i - 1) : Decides(code[j]) = ""])

\* tearDown can fail or ignore a test that has passed so far.
Verdict(n) ==
  LET body == Outcome(suite.setUp \o suite.tests[n])
  IN  IF body = "PASS" THEN Outcome(suite.tearDown) ELSE body

Init == judged = <<>> /\ failures = -1

Judge ==
  /\ failures = -1 /\ Len(judged) < Len(suite.tests)
  /\ judged' = Append(judged, Verdict(Len(judged) + 1))
  /\ UNCHANGED <<suite, failures>>

End ==
  /\ failures = -1 /\ Len(judged) = Len(suite.tests)
  /\ failures' = Cardinality({n \in DOMAIN judged : judged[n] = "FAIL"})
  /\ UNCHANGED <<suite, judged>>

Spec == Init /\ [][Judge \/ End]_vars
=============================================================================
