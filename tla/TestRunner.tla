----------------------------- MODULE TestRunner -----------------------------
(***************************************************************************)
(* The test runner (tests/main.cpp): the tests are dealt to one queue per  *)
(* thread, the threads are created, each runs the tests of its queue and   *)
(* leaves its count in its argument, and the main thread joins them one by *)
(* one and adds the counts. A test returns an error code or ends the       *)
(* process, by exit(1) on a syntax error or by a crash, and all threads    *)
(* with it.                                                                *)
(***************************************************************************)
EXTENDS Integers, Sequences, FiniteSets

CONSTANTS
  Tests,        \* xtest::tests
  NumThreads,   \* NUM_THREADS
  Junk          \* what an int that is not initialized may hold

ASSUME ConstantsAssumption ==
  /\ NumThreads \in Nat \ {0}
  /\ Junk \subseteq Int
  /\ IsFiniteSet(Tests)

VARIABLES
  outcome,      \* what each test comes to
  status,       \* of the process: "running", "reported" or "exited"
  report,       \* the number of successes printed
  main,         \* where the main thread is: "deal", "create" or "join"
  i,            \* its loops' index
  todo,         \* tests its loop has not dealt yet
  total,        \* its count of successes
  queue,        \* of each thread
  successes,    \* in each thread's argument
  pc,           \* where each thread is: "none", "loop", "test" or "done"
  test,         \* the test each thread runs, if pc is "test"
  count         \* the local count of each

mainVars == <<main, i, todo, total, report>>
threadVars == <<queue, successes, pc, test, count>>
vars == <<outcome, status, mainVars, threadVars>>

Thread == 0..(NumThreads - 1)
Outcomes == {"success", "failure", "exit"}
NoTest == [none |-> TRUE]

-----------------------------------------------------------------------------
(* The main thread, run_tests.                                             *)

Init ==
  /\ outcome \in [Tests -> Outcomes]
  /\ status = "running" /\ report = 0
  /\ main = "deal" /\ i = 0 /\ todo = Tests /\ total = 0
  /\ queue = [t \in Thread |-> <<>>]
  /\ successes \in [Thread -> Junk]
  /\ pc = [t \in Thread |-> "none"]
  /\ test = [t \in Thread |-> NoTest]
  /\ count = [t \in Thread |-> 0]

\* The tests come in the order of an unordered_map.
Deal(x) ==
  /\ main = "deal" /\ x \in todo
  /\ queue' = [queue EXCEPT ![i] = Append(@, x)]
  /\ i' = (i + 1) % NumThreads
  /\ todo' = todo \ {x}
  /\ UNCHANGED <<outcome, status, report, main, total, successes, pc, test, count>>

Dealt ==
  /\ main = "deal" /\ todo = {}
  /\ main' = "create" /\ i' = 0
  /\ UNCHANGED <<outcome, status, report, todo, total, threadVars>>

Create ==
  /\ main = "create" /\ i < NumThreads
  /\ pc' = [pc EXCEPT ![i] = "loop"]
  /\ i' = i + 1
  /\ UNCHANGED <<outcome, status, report, main, todo, total, queue, successes, test, count>>

CreateFails ==
  /\ main = "create" /\ i < NumThreads
  /\ status' = "exited"
  /\ UNCHANGED <<outcome, mainVars, threadVars>>

Created ==
  /\ main = "create" /\ i = NumThreads
  /\ main' = "join" /\ i' = 0
  /\ UNCHANGED <<outcome, status, report, todo, total, threadVars>>

\* Mutant of Join: the count is read without waiting for the thread.
ReadCount ==
  /\ main = "join" /\ i < NumThreads
  /\ total' = total + successes[i]
  /\ i' = i + 1
  /\ UNCHANGED <<outcome, status, report, main, todo, threadVars>>

Join ==
  /\ main = "join" /\ i < NumThreads
  /\ pc[i] = "done"
  /\ total' = total + successes[i]
  /\ i' = i + 1
  /\ UNCHANGED <<outcome, status, report, main, todo, threadVars>>

Report ==
  /\ main = "join" /\ i = NumThreads
  /\ report' = total
  /\ status' = "reported"
  /\ UNCHANGED <<outcome, main, i, todo, total, threadVars>>

Main == status = "running" /\ ((\E x \in Tests : Deal(x)) \/ Dealt \/ Create \/ CreateFails \/ Created \/ Join \/ Report)

-----------------------------------------------------------------------------
(* A thread, thread_main.                                                  *)

\* Mutant of Fetch: the test stays in the queue.
FetchFront(t) ==
  /\ pc[t] = "loop" /\ queue[t] # <<>>
  /\ test' = [test EXCEPT ![t] = Head(queue[t])]
  /\ pc' = [pc EXCEPT ![t] = "test"]
  /\ UNCHANGED <<outcome, status, mainVars, queue, successes, count>>

Fetch(t) ==
  /\ pc[t] = "loop" /\ queue[t] # <<>>
  /\ test' = [test EXCEPT ![t] = Head(queue[t])]
  /\ queue' = [queue EXCEPT ![t] = Tail(@)]
  /\ pc' = [pc EXCEPT ![t] = "test"]
  /\ UNCHANGED <<outcome, status, mainVars, successes, count>>

\* Mutant of RunTest: what fails is tried again.
RunUntilSuccess(t) ==
  /\ pc[t] = "test" /\ outcome[test[t]] # "exit"
  /\ IF outcome[test[t]] = "success"
     THEN /\ count' = [count EXCEPT ![t] = @ + 1]
          /\ pc' = [pc EXCEPT ![t] = "loop"] /\ test' = [test EXCEPT ![t] = NoTest]
          /\ UNCHANGED queue
     ELSE /\ pc' = [pc EXCEPT ![t] = "loop"] /\ test' = [test EXCEPT ![t] = NoTest]
          /\ queue' = [queue EXCEPT ![t] = Append(@, test[t])]
          /\ UNCHANGED count
  /\ UNCHANGED <<outcome, status, mainVars, successes>>

RunTest(t) ==
  /\ pc[t] = "test" /\ outcome[test[t]] # "exit"
  /\ count' = [count EXCEPT ![t] = IF outcome[test[t]] = "success" THEN @ + 1 ELSE @]
  /\ pc' = [pc EXCEPT ![t] = "loop"]
  /\ test' = [test EXCEPT ![t] = NoTest]
  /\ UNCHANGED <<outcome, status, mainVars, queue, successes>>

TestExits(t) ==
  /\ pc[t] = "test" /\ outcome[test[t]] = "exit"
  /\ status' = "exited"
  /\ UNCHANGED <<outcome, mainVars, threadVars>>

Return(t) ==
  /\ pc[t] = "loop" /\ queue[t] = <<>>
  /\ successes' = [successes EXCEPT ![t] = count[t]]
  /\ pc' = [pc EXCEPT ![t] = "done"]
  /\ UNCHANGED <<outcome, status, mainVars, queue, test, count>>

ThreadMain(t) == status = "running" /\ (Fetch(t) \/ RunTest(t) \/ TestExits(t) \/ Return(t))

-----------------------------------------------------------------------------
Next == Main \/ \E t \in Thread : ThreadMain(t)

\* Every thread is scheduled again and again, and a test returns or ends the
\* process.
Fairness == WF_vars(Main) /\ \A t \in Thread : WF_vars(ThreadMain(t))

Spec == Init /\ [][Next]_vars /\ Fairness

-----------------------------------------------------------------------------
(* Properties.                                                             *)

\* The tests in a queue, and those that are still to be run.
Queued(t) == {queue[t][n] : n \in 1..Len(queue[t])}
Running(t) == IF pc[t] = "test" THEN {test[t]} ELSE {}
Waiting == todo \cup UNION {Queued(t) \cup Running(t) : t \in Thread}

\* No test is run by two threads, or twice by one: each is in one place, and
\* in a queue once.
EachTestOnce ==
  /\ \A t \in Thread :
       /\ \A m, n \in 1..Len(queue[t]) : queue[t][m] = queue[t][n] => m = n
       /\ Queued(t) \cap Running(t) = {}
       /\ todo \cap (Queued(t) \cup Running(t)) = {}
  /\ \A t, u \in Thread :
       t # u => (Queued(t) \cup Running(t)) \cap (Queued(u) \cup Running(u)) = {}

\* The runner does what the suite promises: every test is run, and the report
\* counts the successful ones.
Suite == INSTANCE TestSuite WITH ran <- Tests \ Waiting
Implements == Suite!Spec

\* It ends, by itself or because something ends the process.
Ends == <>(status # "running")
=============================================================================
