----------------------------- MODULE TestSuite -----------------------------
(***************************************************************************)
(* What the comment at the head of tests/main.cpp promises of the test     *)
(* runner, however the tests are spread over threads: every test is run    *)
(* once, and then the number of successful ones is printed. The suite may  *)
(* end before that, with a test that ends the process for instance.        *)
(***************************************************************************)
EXTENDS FiniteSets

CONSTANT Tests

VARIABLES
  outcome,   \* what each test comes to
  ran,       \* the tests that have been run
  status,    \* "running", "reported" or "exited"
  report     \* the number printed

vars == <<outcome, ran, status, report>>

Outcomes == {"success", "failure", "exit"}
Successful(tests) == {t \in tests : outcome[t] = "success"}

Init ==
  /\ outcome \in [Tests -> Outcomes]
  /\ ran = {}
  /\ status = "running"
  /\ report = 0

Run(t) ==
  /\ status = "running"
  /\ t \notin ran /\ outcome[t] # "exit"
  /\ ran' = ran \cup {t}
  /\ UNCHANGED <<outcome, status, report>>

Report ==
  /\ status = "running"
  /\ ran = Tests
  /\ status' = "reported"
  /\ report' = Cardinality(Successful(Tests))
  /\ UNCHANGED <<outcome, ran>>

Exit ==
  /\ status = "running"
  /\ status' = "exited"
  /\ UNCHANGED <<outcome, ran, report>>

Next == (\E t \in Tests : Run(t)) \/ Report \/ Exit

SafeSpec == Init /\ [][Next]_vars

\* The suite does not stop in between.
Spec == SafeSpec /\ WF_vars(Next)
=============================================================================
