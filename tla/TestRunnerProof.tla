-------------------------- MODULE TestRunnerProof ---------------------------
(***************************************************************************)
(* Proofs about TestRunner, for any number of tests and threads: no test   *)
(* is taken twice, and the steps of the runner are steps of the abstract   *)
(* suite or change nothing it sees, so that what is printed is the number  *)
(* of successful tests. The count is the hard part: each thread keeps its  *)
(* own, and the invariant says that some assignment of the tests to the    *)
(* threads explains all of them.                                           *)
(***************************************************************************)
EXTENDS TestRunner, FiniteSetTheorems, TLAPS

\* The members of a queue, and that it has none twice.
Elems(s) == {s[n] : n \in 1..Len(s)}
Distinct(s) == \A m, n \in 1..Len(s) : s[m] = s[n] => m = n

\* What a thread still has to run.
Has(t) == Queued(t) \cup Running(t)

TypeOK ==
  /\ outcome \in [Tests -> Outcomes]
  /\ main \in {"deal", "create", "join"}
  /\ i \in 0..NumThreads
  /\ main = "deal" => i \in Thread
  /\ todo \subseteq Tests
  /\ total \in Int
  /\ queue \in [Thread -> Seq(Tests)]
  /\ successes \in [Thread -> Int]
  /\ pc \in [Thread -> {"none", "loop", "test", "done"}]
  /\ test \in [Thread -> Tests \cup {NoTest}]
  /\ \A t \in Thread : pc[t] = "test" => test[t] \in Tests
  /\ count \in [Thread -> Nat]

\* How far the main thread is, and what it knows of the others then.
Progress ==
  /\ main = "deal" => \A t \in Thread : pc[t] = "none"
  /\ main = "create" => \A t \in i..(NumThreads - 1) : pc[t] = "none"
  /\ main # "deal" => todo = {}
  /\ main # "join" => total = 0
  /\ main = "join" => \A t \in 0..(i - 1) : pc[t] = "done"
  /\ \A t \in Thread : pc[t] = "done" => queue[t] = <<>> /\ successes[t] = count[t]

\* The tests that have been run with success, and of these the ones that f
\* assigns to the threads in T.
Successes == {x \in Tests \ Waiting : outcome[x] = "success"}
Of(f, T) == {x \in Successes : f[x] \in T}

\* f says which thread ran which test.
Explains(f) ==
  /\ \A t \in Thread : count[t] = Cardinality(Of(f, {t}))
  /\ main = "join" => total = Cardinality(Of(f, 0..(i - 1)))

Counted == \E f \in [Tests -> Thread] : Explains(f)

Inv == TypeOK /\ EachTestOnce /\ Progress /\ Counted

-----------------------------------------------------------------------------
(* Queues.                                                                 *)

\* Appending a test to a queue adds it to the members.
LEMMA AppendElems ==
  ASSUME NEW s \in Seq(Tests), NEW x \in Tests
  PROVE  /\ Append(s, x) \in Seq(Tests)
         /\ Elems(Append(s, x)) = Elems(s) \cup {x}
         /\ Distinct(s) /\ x \notin Elems(s) => Distinct(Append(s, x))
<1>1. /\ Append(s, x) \in Seq(Tests) /\ Len(s) \in Nat /\ Len(Append(s, x)) = Len(s) + 1
      /\ \A n \in 1..Len(s) : Append(s, x)[n] = s[n]
      /\ Append(s, x)[Len(s) + 1] = x
  OBVIOUS
<1>2. 1..(Len(s) + 1) = (1..Len(s)) \cup {Len(s) + 1}
  BY <1>1
<1>3. Elems(Append(s, x)) = Elems(s) \cup {x}
  BY <1>1, <1>2 DEF Elems
<1>4. Distinct(s) /\ x \notin Elems(s) => Distinct(Append(s, x))
  BY <1>1, <1>2 DEF Elems, Distinct
<1> QED BY <1>1, <1>3, <1>4

\* Taking the first test off a queue without repetitions removes it.
LEMMA TailElems ==
  ASSUME NEW s \in Seq(Tests), s # <<>>
  PROVE  /\ Tail(s) \in Seq(Tests) /\ Head(s) \in Tests
         /\ Elems(s) = Elems(Tail(s)) \cup {Head(s)}
         /\ Distinct(s) => Distinct(Tail(s)) /\ Head(s) \notin Elems(Tail(s))
<1>1. /\ Tail(s) \in Seq(Tests) /\ Len(s) \in Nat \ {0} /\ Len(Tail(s)) = Len(s) - 1
      /\ Head(s) = s[1] /\ s[1] \in Tests
      /\ \A n \in 1..(Len(s) - 1) : Tail(s)[n] = s[n + 1]
  OBVIOUS
<1>2. \A n \in 1..Len(s) : n = 1 \/ (n - 1 \in 1..(Len(s) - 1) /\ s[n] = Tail(s)[n - 1])
  BY <1>1
<1>3. \A n \in 1..(Len(s) - 1) : n + 1 \in 1..Len(s) /\ n + 1 # 1 /\ Tail(s)[n] = s[n + 1]
  BY <1>1
<1>4. 1 \in 1..Len(s)
  BY <1>1
<1>5. Elems(s) = Elems(Tail(s)) \cup {Head(s)}
  <2>1. ASSUME NEW n \in 1..Len(s) PROVE s[n] \in Elems(Tail(s)) \cup {Head(s)}
    BY <1>1, <1>2 DEF Elems
  <2>2. ASSUME NEW n \in 1..Len(Tail(s)) PROVE Tail(s)[n] \in Elems(s)
    BY <1>1, <1>3 DEF Elems
  <2>3. Head(s) \in Elems(s)
    BY <1>1, <1>4 DEF Elems
  <2> QED BY <2>1, <2>2, <2>3 DEF Elems
<1>6. ASSUME Distinct(s) PROVE Distinct(Tail(s)) /\ Head(s) \notin Elems(Tail(s))
  <2>1. \A m, n \in 1..(Len(s) - 1) : Tail(s)[m] = Tail(s)[n] => m + 1 = n + 1
    BY <1>3, <1>6 DEF Distinct
  <2>2. Distinct(Tail(s))
    BY <1>1, <2>1 DEF Distinct
  <2>3. Head(s) \notin Elems(Tail(s))
    BY <1>1, <1>3, <1>4, <1>6 DEF Distinct, Elems
  <2> QED BY <2>2, <2>3
<1> QED BY <1>1, <1>5, <1>6

-----------------------------------------------------------------------------
(* Type correctness and the places of the tests.                           *)

\* EachTestOnce in terms of what each thread has.
LEMMA OnceMeans ==
  EachTestOnce <=>
    /\ \A t \in Thread : Distinct(queue[t]) /\ Queued(t) \cap Running(t) = {} /\ todo \cap Has(t) = {}
    /\ \A t, u \in Thread : t # u => Has(t) \cap Has(u) = {}
BY DEF EachTestOnce, Distinct, Has

\* The initial state satisfies the invariant; nothing has been run in it.
LEMMA InvInit == Init => Inv /\ Waiting = Tests
<1> SUFFICES ASSUME Init PROVE Inv /\ Waiting = Tests
  OBVIOUS
<1> USE ConstantsAssumption DEF Init
<1>1. TypeOK
  <2>1. successes \in [Thread -> Int] /\ 0 \in Thread /\ 0 \in 0..NumThreads
    <3>1. 0 \in 0..(NumThreads - 1) /\ 0 \in 0..NumThreads
      BY ONLY ConstantsAssumption
    <3>2. successes \in [Thread -> Int]
      BY ONLY Init, ConstantsAssumption DEF Init
    <3> QED BY <3>1, <3>2 DEF Thread
  <2>2. queue \in [Thread -> Seq(Tests)] /\ test \in [Thread -> Tests \cup {NoTest}]
    OBVIOUS
  <2>3. pc \in [Thread -> {"none", "loop", "test", "done"}] /\ \A t \in Thread : pc[t] # "test"
    OBVIOUS
  <2> QED BY <2>1, <2>2, <2>3 DEF TypeOK
<1>2. \A t \in Thread : queue[t] = <<>> /\ pc[t] = "none" /\ Queued(t) = {} /\ Running(t) = {}
  BY DEF Queued, Running
<1>3. EachTestOnce
  BY <1>2 DEF EachTestOnce
<1>4. Progress
  BY <1>2 DEF Progress
<1>5. Waiting = Tests
  BY <1>2 DEF Waiting
<1>6. Counted
  <2>1. Successes = {}
    BY <1>5 DEF Successes
  <2> DEFINE f == [x \in Tests |-> 0]
  <2>2. f \in [Tests -> Thread]
    BY DEF Thread
  <2>3. Explains(f)
    BY <2>1, FS_EmptySet DEF Explains, Of
  <2> QED BY <2>2, <2>3 DEF Counted
<1> QED BY <1>1, <1>3, <1>4, <1>5, <1>6 DEF Inv

-----------------------------------------------------------------------------
(* Steps.                                                                  *)

\* A test waits if it has not been dealt or some thread still has it.
LEMMA WaitingIs ==
  /\ \A x : x \in Waiting <=> x \in todo \/ \E t \in Thread : x \in Has(t)
  /\ \A x : x \in Waiting' <=> x \in todo' \/ \E t \in Thread : x \in Has(t)'
BY DEF Waiting, Has

\* A step in which one thread's tests change, by those that are dealt to it.
LEMMA OneThread ==
  ASSUME EachTestOnce, NEW t \in Thread, NEW new, new \subseteq todo, todo' = todo \ new,
         \A u \in Thread \ {t} : Distinct(queue'[u]) /\ Queued(u)' = Queued(u) /\ Running(u)' = Running(u),
         Distinct(queue'[t]), Queued(t)' \cap Running(t)' = {}, Has(t)' \subseteq Has(t) \cup new
  PROVE  /\ EachTestOnce'
         /\ Has(t) \cup new \subseteq Has(t)' => Waiting' = Waiting
         /\ \A x : Has(t) = Has(t)' \cup {x} /\ x \notin Has(t)' /\ new = {} => Waiting' = Waiting \ {x}
<1>1. \A u \in Thread : Distinct(queue'[u]) /\ Queued(u)' \cap Running(u)' = {}
  BY OnceMeans
<1>2. \A u \in Thread \ {t} : Has(u)' = Has(u)
  BY DEF Has
<1>3. \A u \in Thread : todo' \cap Has(u)' = {}
  BY <1>2, OnceMeans
<1>4. \A u \in Thread \ {t} : Has(t)' \cap Has(u)' = {}
  BY <1>2, OnceMeans
<1>5. \A u, w \in Thread : u # w => Has(u)' \cap Has(w)' = {}
  BY <1>2, <1>4, OnceMeans
<1>6. EachTestOnce'
  BY <1>1, <1>3, <1>5 DEF EachTestOnce, Distinct, Has
<1>7. Has(t) \cup new \subseteq Has(t)' => Waiting' = Waiting
  BY <1>2, WaitingIs
<1>8. ASSUME NEW x, Has(t) = Has(t)' \cup {x}, x \notin Has(t)', new = {} PROVE Waiting' = Waiting \ {x}
  <2>1. todo' = todo /\ x \notin todo /\ \A u \in Thread \ {t} : x \notin Has(u)
    BY <1>8, OnceMeans
  <2>2. \A y : y \in Waiting' <=> y \in Waiting /\ y # x
    BY <1>2, <1>8, <2>1, WaitingIs
  <2> QED BY <2>2
<1> QED BY <1>6, <1>7, <1>8

\* A step that moves no test.
LEMMA NoThread ==
  ASSUME EachTestOnce, UNCHANGED <<queue, test, todo>>,
         \A t \in Thread : (pc'[t] = "test") <=> (pc[t] = "test")
  PROVE  EachTestOnce' /\ Waiting' = Waiting
<1>1. \A t \in Thread : Queued(t)' = Queued(t) /\ Running(t)' = Running(t)
  BY DEF Queued, Running
<1>2. EachTestOnce'
  BY <1>1 DEF EachTestOnce
<1>3. Waiting' = Waiting
  BY <1>1 DEF Waiting
<1> QED BY <1>2, <1>3

\* A step that runs no test and changes no count keeps the counts explained.
LEMMA CountKept ==
  ASSUME Counted, Waiting' = Waiting, outcome' = outcome, count' = count,
         \A f \in [Tests -> Thread] :
           Explains(f) /\ main' = "join" => total' = Cardinality(Of(f, 0..(i' - 1)))
  PROVE  Counted'
<1>1. Successes' = Successes
  BY DEF Successes
<1>2. PICK f \in [Tests -> Thread] : Explains(f)
  BY DEF Counted
<1>3. \A T : Of(f, T)' = Of(f, T)
  BY <1>1 DEF Of
<1>4. Explains(f)'
  <2>1. \A t \in Thread : count'[t] = Cardinality(Of(f, {t})')
    BY <1>2, <1>3 DEF Explains
  <2>2. main' = "join" => total' = Cardinality(Of(f, 0..(i - 1))')
    <3>1. main' = "join" => total' = Cardinality(Of(f, 0..(i' - 1)))
      BY <1>2
    <3>2. Of(f, 0..(i - 1))' = Of(f, 0..(i' - 1))
      BY <1>1 DEF Of
    <3> QED BY <3>1, <3>2
  <2> QED BY <2>1, <2>2 DEF Explains
<1> QED BY <1>4 DEF Counted

\* Dealing a test keeps the invariant: it goes from those that are left to one queue.
LEMMA DealStep ==
  ASSUME Inv, NEW x \in Tests, Deal(x)
  PROVE  Inv' /\ Waiting' = Waiting
<1> USE DEF Deal
<1>0. PICK j \in Thread : j = i
  BY DEF Inv, TypeOK
<1>1. main = "deal" /\ x \in todo /\ NumThreads \in Nat \ {0}
  BY ConstantsAssumption
<1>2. /\ queue' \in [Thread -> Seq(Tests)] /\ queue'[j] = Append(queue[j], x) /\ queue[j] \in Seq(Tests)
      /\ \A u \in Thread \ {j} : queue'[u] = queue[u]
  BY <1>0, AppendElems DEF Inv, TypeOK
<1>3. /\ Elems(queue'[j]) = Elems(queue[j]) \cup {x}
      /\ Distinct(queue[j]) /\ x \notin Elems(queue[j]) => Distinct(queue'[j])
  BY <1>2, AppendElems
<1>4. /\ \A u \in Thread : Queued(u) = Elems(queue[u]) /\ Queued(u)' = Elems(queue'[u])
      /\ \A u \in Thread : Running(u)' = Running(u)
  BY DEF Queued, Elems, Running
<1>5. x \notin Has(j) /\ \A u \in Thread : Distinct(queue[u]) /\ Queued(u) \cap Running(u) = {}
  BY <1>1, OnceMeans DEF Inv
<1>6. Distinct(queue'[j]) /\ Queued(j)' \cap Running(j)' = {} /\ Has(j)' = Has(j) \cup {x}
  BY <1>3, <1>4, <1>5 DEF Has
<1>7. \A u \in Thread \ {j} : Distinct(queue'[u]) /\ Queued(u)' = Queued(u) /\ Running(u)' = Running(u)
  BY <1>2, <1>4, <1>5
<1>8. EachTestOnce' /\ Waiting' = Waiting
  <2>1. {x} \subseteq todo /\ todo' = todo \ {x} /\ EachTestOnce
    BY DEF Inv
  <2> QED BY <1>6, <1>7, <2>1, OneThread
<1>9. i' \in Thread /\ i' \in 0..NumThreads
  <2>1. i \in Int /\ (i + 1) % NumThreads \in 0..(NumThreads - 1)
    BY <1>0, <1>1 DEF Thread
  <2> QED BY <1>1, <2>1 DEF Thread
<1>10. TypeOK'
  BY <1>2, <1>9 DEF Inv, TypeOK
<1>11. Progress'
  BY <1>1 DEF Inv, Progress
<1>12. Counted'
  <2>1. main' # "join"
    BY <1>1
  <2> QED BY <1>8, <2>1, CountKept DEF Inv
<1> QED BY <1>8, <1>10, <1>11, <1>12 DEF Inv

\* The other steps of the main thread, and a thread's return, move no test.
LEMMA StillStep ==
  ASSUME Inv, Dealt \/ Create \/ CreateFails \/ Created \/ Join \/ Report \/ UNCHANGED vars
                \/ \E t \in Thread : TestExits(t) \/ Return(t)
  PROVE  Inv' /\ Waiting' = Waiting
<1> USE ConstantsAssumption DEF vars, mainVars, threadVars
<1>1. /\ TypeOK /\ Progress /\ Counted /\ EachTestOnce /\ i \in 0..NumThreads
      /\ i < NumThreads => i \in Thread
  BY DEF Inv, TypeOK, Thread
<1>2. CASE Dealt
  <2> USE DEF Dealt
  <2>1. EachTestOnce' /\ Waiting' = Waiting
    BY <1>1, <1>2, NoThread
  <2>2. TypeOK' /\ Progress'
    <3>1. 0..(NumThreads - 1) = Thread /\ 0 \in 0..NumThreads
      BY DEF Thread
    <3> QED BY <1>1, <1>2, <3>1 DEF TypeOK, Progress
  <2>3. Counted'
    <3>1. outcome' = outcome /\ count' = count /\ main' # "join"
      BY <1>2
    <3> QED BY <1>1, <2>1, <3>1, CountKept
  <2> QED BY <2>1, <2>2, <2>3 DEF Inv
<1>3. CASE Create
  <2> USE DEF Create
  <2>0. /\ pc' = [pc EXCEPT ![i] = "loop"] /\ main' = "create" /\ main = "create" /\ i' = i + 1
        /\ pc[i] = "none" /\ i \in Thread /\ i + 1 \in 0..NumThreads
    BY <1>1, <1>3 DEF Progress, Thread
  <2>1. EachTestOnce' /\ Waiting' = Waiting
    <3>1. \A t \in Thread : (pc'[t] = "test") <=> (pc[t] = "test")
      BY <1>1, <2>0 DEF TypeOK
    <3> QED BY <1>1, <1>3, <3>1, NoThread
  <2>2. TypeOK'
    BY <1>1, <1>3, <2>0 DEF TypeOK
  <2>3. Progress'
    <3>1. \A t \in (i + 1)..(NumThreads - 1) : t \in i..(NumThreads - 1) /\ t # i /\ t \in Thread
      BY <1>1 DEF Thread
    <3>2. \A t \in (i + 1)..(NumThreads - 1) : pc'[t] = "none"
      BY <1>1, <2>0, <3>1 DEF TypeOK, Progress
    <3>3. \A t \in Thread : pc'[t] = "done" => pc[t] = "done"
      BY <1>1, <2>0 DEF TypeOK
    <3> QED BY <1>1, <1>3, <2>0, <3>2, <3>3 DEF Progress
  <2>4. Counted'
    <3>1. outcome' = outcome /\ count' = count /\ main' # "join"
      BY <1>3
    <3> QED BY <1>1, <2>1, <3>1, CountKept
  <2> QED BY <2>1, <2>2, <2>3, <2>4 DEF Inv
<1>4. CASE CreateFails \/ Report \/ UNCHANGED vars \/ \E t \in Thread : TestExits(t)
  <2>1. UNCHANGED <<outcome, mainVars, threadVars>> \/ (UNCHANGED <<outcome, main, i, todo, total, threadVars>>)
    BY <1>4 DEF CreateFails, Report, TestExits
  <2>2. EachTestOnce' /\ Waiting' = Waiting
    BY <1>1, <2>1, NoThread
  <2>3. TypeOK' /\ Progress'
    BY <1>1, <2>1 DEF TypeOK, Progress
  <2>4. Counted'
    <3>1. \A f \in [Tests -> Thread] : Explains(f) /\ main' = "join" => total' = Cardinality(Of(f, 0..(i' - 1)))
      BY <2>1 DEF Explains
    <3> QED BY <1>1, <2>1, <2>2, <3>1, CountKept
  <2> QED BY <2>2, <2>3, <2>4 DEF Inv
<1>5. CASE Created
  <2> USE DEF Created
  <2>1. EachTestOnce' /\ Waiting' = Waiting
    BY <1>1, <1>5, NoThread
  <2>2. TypeOK' /\ Progress'
    <3>1. \A t \in 0..(0 - 1) : FALSE
      OBVIOUS
    <3> QED BY <1>1, <1>5, <3>1 DEF TypeOK, Progress
  <2>3. Counted'
    <3>1. total' = 0 /\ i' = 0
      BY <1>1, <1>5 DEF Progress
    <3>2. \A f : Of(f, 0..(0 - 1)) = {}
      BY DEF Of
    <3>3. \A f \in [Tests -> Thread] : total' = Cardinality(Of(f, 0..(i' - 1)))
      BY <3>1, <3>2, FS_EmptySet
    <3> QED BY <1>1, <1>5, <2>1, <3>3, CountKept
  <2> QED BY <2>1, <2>2, <2>3 DEF Inv
<1>6. CASE Join
  <2> USE DEF Join
  <2>0. /\ main = "join" /\ main' = "join" /\ i' = i + 1 /\ total' = total + successes[i] /\ pc[i] = "done"
        /\ i \in Thread /\ i + 1 \in 0..NumThreads /\ successes[i] = count[i]
    BY <1>1, <1>6 DEF Progress, Thread
  <2>1. EachTestOnce' /\ Waiting' = Waiting
    BY <1>1, <1>6, NoThread
  <2>2. TypeOK' /\ Progress'
    <3>1. \A t \in 0..((i + 1) - 1) : t = i \/ t \in 0..(i - 1)
      BY <1>1
    <3>2. total' \in Int
      BY <1>1, <2>0 DEF TypeOK
    <3>3. TypeOK'
      BY <1>1, <1>6, <2>0, <3>2 DEF TypeOK
    <3> QED BY <1>1, <1>6, <2>0, <3>1, <3>3 DEF Progress
  <2>3. ASSUME NEW f \in [Tests -> Thread], Explains(f) PROVE total' = Cardinality(Of(f, 0..((i + 1) - 1)))
    <3> DEFINE A == Of(f, 0..(i - 1))
               B == Of(f, {i})
    <3>1. /\ total = Cardinality(A) /\ count[i] = Cardinality(B)
      BY <2>0, <2>3 DEF Explains
    <3>2. IsFiniteSet(A) /\ IsFiniteSet(B)
      <4>1. A \subseteq Tests /\ B \subseteq Tests
        BY DEF Of, Successes
      <4> QED BY <4>1, FS_Subset
    <3>3. A \cap B = {} /\ Of(f, 0..((i + 1) - 1)) = A \cup B
      <4>1. i \notin 0..(i - 1) /\ 0..((i + 1) - 1) = (0..(i - 1)) \cup {i}
        BY <1>1
      <4> QED BY <4>1 DEF Of
    <3>4. Cardinality(A \cup B) = Cardinality(A) + Cardinality(B) - Cardinality(A \cap B)
      BY <3>2, FS_Union
    <3>5. Cardinality(A \cap B) = 0 /\ Cardinality(A) \in Nat /\ Cardinality(B) \in Nat
      BY <3>2, <3>3, FS_EmptySet, FS_CardinalityType
    <3> HIDE DEF A, B
    <3>6. total' = Cardinality(A) + Cardinality(B)
      BY ONLY <2>0, <3>1
    <3>7. Cardinality(A \cup B) = Cardinality(A) + Cardinality(B)
      BY ONLY <3>4, <3>5
    <3> QED BY ONLY <3>3, <3>6, <3>7
  <2>4. Counted'
    BY <1>1, <1>6, <2>0, <2>1, <2>3, CountKept
  <2> QED BY <2>1, <2>2, <2>4 DEF Inv
<1>7. ASSUME NEW t \in Thread, Return(t) PROVE Inv' /\ Waiting' = Waiting
  <2> USE DEF Return
  <2>0. /\ pc[t] = "loop" /\ queue[t] = <<>> /\ count[t] \in Nat
        /\ pc' = [pc EXCEPT ![t] = "done"] /\ successes' = [successes EXCEPT ![t] = count[t]]
        /\ UNCHANGED <<main, i, total, todo, queue, test, count, outcome>>
    BY <1>1, <1>7 DEF TypeOK
  <2>1. EachTestOnce' /\ Waiting' = Waiting
    <3>1. \A u \in Thread : (pc'[u] = "test") <=> (pc[u] = "test")
      BY <1>1, <2>0 DEF TypeOK
    <3> QED BY <1>1, <2>0, <3>1, NoThread
  <2>2. TypeOK'
    BY <1>1, <2>0 DEF TypeOK
  <2>3. Progress'
    <3>1. \A u \in Thread : (pc'[u] = pc[u] /\ successes'[u] = successes[u]) \/ (u = t /\ pc'[t] = "done" /\ successes'[t] = count[t])
      BY <1>1, <2>0 DEF TypeOK
    <3>2. main = "deal" => FALSE
      BY <1>1, <2>0 DEF Progress
    <3>3. main = "create" => t \notin i..(NumThreads - 1)
      BY <1>1, <2>0 DEF Progress
    <3>4. \A u \in 0..(i - 1) : u \in Thread
      BY <1>1 DEF Thread
    <3>5. \A u \in i..(NumThreads - 1) : u \in Thread
      BY <1>1 DEF Thread
    <3> QED BY <1>1, <2>0, <3>1, <3>2, <3>3, <3>4, <3>5 DEF Progress
  <2>4. Counted'
    <3>1. \A f \in [Tests -> Thread] : Explains(f) /\ main' = "join" => total' = Cardinality(Of(f, 0..(i' - 1)))
      BY <2>0 DEF Explains
    <3> QED BY <1>1, <2>0, <2>1, <3>1, CountKept
  <2> QED BY <2>1, <2>2, <2>3, <2>4 DEF Inv
<1> QED BY <1>2, <1>3, <1>4, <1>5, <1>6, <1>7

\* Taking a test from the queue keeps the invariant: the thread has it still.
LEMMA FetchStep ==
  ASSUME Inv, NEW t \in Thread, Fetch(t)
  PROVE  Inv' /\ Waiting' = Waiting
<1> DEFINE x == Head(queue[t])
<1> USE DEF Fetch
<1>1. TypeOK /\ Progress /\ Counted /\ EachTestOnce /\ queue[t] \in Seq(Tests) /\ queue[t] # <<>> /\ pc[t] = "loop"
  BY DEF Inv, TypeOK
<1>2. /\ queue' = [queue EXCEPT ![t] = Tail(queue[t])] /\ pc' = [pc EXCEPT ![t] = "test"]
      /\ test' = [test EXCEPT ![t] = x]
      /\ UNCHANGED <<outcome, main, i, todo, total, successes, count>>
  BY DEF mainVars
<1>3. /\ queue'[t] = Tail(queue[t]) /\ queue'[t] \in Seq(Tests) /\ x \in Tests /\ pc'[t] = "test" /\ test'[t] = x
      /\ Elems(queue[t]) = Elems(queue'[t]) \cup {x}
      /\ Distinct(queue[t]) => Distinct(queue'[t]) /\ x \notin Elems(queue'[t])
  <2>1. queue'[t] = Tail(queue[t]) /\ pc'[t] = "test" /\ test'[t] = x
    BY <1>1, <1>2 DEF TypeOK
  <2> QED BY <1>1, <2>1, TailElems
<1>4. \A u \in Thread \ {t} : queue'[u] = queue[u] /\ pc'[u] = pc[u] /\ test'[u] = test[u]
  BY <1>1, <1>2 DEF TypeOK
<1> HIDE DEF x, Fetch
<1>5. Distinct(queue'[t]) /\ Queued(t)' \cap Running(t)' = {} /\ Has(t)' = Has(t)
  <2>1. Queued(t) = Elems(queue[t]) /\ Queued(t)' = Elems(queue'[t])
    BY DEF Queued, Elems
  <2>2. Running(t) = {} /\ Running(t)' = {x}
    BY <1>1, <1>3 DEF Running
  <2>3. Distinct(queue[t])
    BY <1>1, OnceMeans
  <2> QED BY <1>3, <2>1, <2>2, <2>3 DEF Has
<1>6. \A u \in Thread \ {t} : Distinct(queue'[u]) /\ Queued(u)' = Queued(u) /\ Running(u)' = Running(u)
  BY <1>1, <1>4, OnceMeans DEF Queued, Running
<1>7. EachTestOnce' /\ Waiting' = Waiting
  <2>1. /\ {} \subseteq todo /\ todo' = todo \ {}
        /\ Has(t)' \subseteq Has(t) \cup {} /\ Has(t) \cup {} \subseteq Has(t)'
    BY <1>2, <1>5
  <2> QED BY <1>1, <1>5, <1>6, <2>1, OneThread
<1>8. TypeOK'
  BY <1>1, <1>2, <1>3, <1>4 DEF TypeOK
<1>9. Progress'
  <2>1. main = "deal" => FALSE
    BY <1>1 DEF Progress
  <2>2. main = "create" => t \notin i..(NumThreads - 1)
    BY <1>1 DEF Progress
  <2>3. main = "join" => t \notin 0..(i - 1)
    BY <1>1 DEF Progress
  <2>4. \A u : u \in 0..(i - 1) \/ u \in i..(NumThreads - 1) => u \in Thread
    BY <1>1, ConstantsAssumption DEF TypeOK, Thread
  <2> QED BY <1>1, <1>2, <1>3, <1>4, <2>1, <2>2, <2>3, <2>4 DEF Progress
<1>10. Counted'
  <2>1. \A f \in [Tests -> Thread] : Explains(f) /\ main' = "join" => total' = Cardinality(Of(f, 0..(i' - 1)))
    BY <1>2 DEF Explains
  <2> QED BY <1>1, <1>2, <1>7, <2>1, CountKept
<1> QED BY <1>7, <1>8, <1>9, <1>10 DEF Inv

\* Running a test keeps the invariant: it leaves the tests that wait, and the
\* thread that ran it is the one it is counted for.
LEMMA RunTestStep ==
  ASSUME Inv, NEW t \in Thread, RunTest(t)
  PROVE  Inv' /\ test[t] \in Waiting /\ test[t] \in Tests /\ Waiting' = Waiting \ {test[t]}
<1> DEFINE x == test[t]
<1>1. TypeOK /\ Progress /\ Counted /\ EachTestOnce /\ pc[t] = "test" /\ x \in Tests
  BY DEF Inv, TypeOK, RunTest
<1>2. /\ pc' = [pc EXCEPT ![t] = "loop"] /\ test' = [test EXCEPT ![t] = NoTest]
      /\ count' = [count EXCEPT ![t] = IF outcome[x] = "success" THEN @ + 1 ELSE @]
      /\ UNCHANGED <<outcome, main, i, todo, total, successes, queue>>
  BY DEF RunTest, mainVars
<1>3. /\ pc'[t] = "loop" /\ test'[t] = NoTest /\ count'[t] \in Nat
      /\ count'[t] = IF outcome[x] = "success" THEN count[t] + 1 ELSE count[t]
      /\ \A u \in Thread \ {t} : pc'[u] = pc[u] /\ test'[u] = test[u] /\ count'[u] = count[u]
  BY <1>1, <1>2 DEF TypeOK
<1>4. Running(t) = {x} /\ Running(t)' = {} /\ Queued(t)' = Queued(t)
  BY <1>1, <1>2, <1>3 DEF Running, Queued
<1> HIDE DEF x
<1>5. Has(t) = Has(t)' \cup {x} /\ x \notin Has(t)' /\ Distinct(queue'[t])
  <2>1. Queued(t) \cap Running(t) = {} /\ Distinct(queue[t])
    BY <1>1, OnceMeans
  <2> QED BY <1>2, <1>4, <2>1 DEF Has
<1>6. \A u \in Thread \ {t} : Distinct(queue'[u]) /\ Queued(u)' = Queued(u) /\ Running(u)' = Running(u)
  BY <1>1, <1>2, <1>3, OnceMeans DEF Queued, Running
<1>7. EachTestOnce' /\ Waiting' = Waiting \ {x}
  <2>1. {} \subseteq todo /\ todo' = todo \ {} /\ Queued(t)' \cap Running(t)' = {} /\ Has(t)' \subseteq Has(t) \cup {}
    BY <1>2, <1>4, <1>5
  <2> QED BY <1>1, <1>5, <1>6, <2>1, OneThread
<1>8. x \in Waiting
  BY <1>5, WaitingIs
<1>9. TypeOK'
  BY <1>1, <1>2, <1>3 DEF TypeOK
<1>10. t \notin 0..(i - 1) \/ main # "join"
  BY <1>1 DEF Progress
<1>11. Progress'
  <2>1. main = "deal" => FALSE
    BY <1>1 DEF Progress
  <2>2. main = "create" => t \notin i..(NumThreads - 1)
    BY <1>1 DEF Progress
  <2>3. \A u : u \in 0..(i - 1) \/ u \in i..(NumThreads - 1) => u \in Thread
    BY <1>1, ConstantsAssumption DEF TypeOK, Thread
  <2> QED BY <1>1, <1>2, <1>3, <1>10, <2>1, <2>2, <2>3 DEF Progress
<1>12. Counted'
  <2>1. PICK f \in [Tests -> Thread] : Explains(f)
    BY <1>1 DEF Counted
  <2>2. PICK g \in [Tests -> Thread] : g[x] = t /\ \A y \in Tests \ {x} : g[y] = f[y]
    <3>1. [f EXCEPT ![x] = t] \in [Tests -> Thread]
      OBVIOUS
    <3>2. [f EXCEPT ![x] = t][x] = t /\ \A y \in Tests \ {x} : [f EXCEPT ![x] = t][y] = f[y]
      BY <1>1
    <3> QED BY <3>1, <3>2
  <2>3. /\ x \notin Successes
        /\ Successes' = IF outcome[x] = "success" THEN Successes \cup {x} ELSE Successes
        /\ Successes \subseteq Tests
    BY <1>1, <1>2, <1>7, <1>8 DEF Successes
  <2>4. \A T : t \notin T => Of(g, T)' = Of(f, T)
    BY <2>2, <2>3 DEF Of
  <2>5. Of(g, {t})' = IF outcome[x] = "success" THEN Of(f, {t}) \cup {x} ELSE Of(f, {t})
    BY <2>2, <2>3 DEF Of
  <2>6. count'[t] = Cardinality(Of(g, {t})')
    <3>1. count[t] = Cardinality(Of(f, {t})) /\ count[t] \in Nat
      BY <1>1, <2>1 DEF Explains, TypeOK
    <3>2. IsFiniteSet(Of(f, {t})) /\ x \notin Of(f, {t})
      <4>1. Of(f, {t}) \subseteq Tests
        BY <2>3 DEF Of
      <4> QED BY <2>3, <4>1, FS_Subset, ConstantsAssumption DEF Of
    <3>3. Cardinality(Of(f, {t}) \cup {x}) = Cardinality(Of(f, {t})) + 1
      BY <3>2, FS_AddElement
    <3> QED BY <1>3, <2>5, <3>1, <3>3
  <2>7. \A u \in Thread : count'[u] = Cardinality(Of(g, {u})')
    <3>1. \A u \in Thread \ {t} : count'[u] = count[u] /\ Of(g, {u})' = Of(f, {u})
      BY <1>3, <2>4
    <3>2. \A u \in Thread : count[u] = Cardinality(Of(f, {u}))
      BY <2>1 DEF Explains
    <3> QED BY <2>6, <3>1, <3>2
  <2>8. main' = "join" => total' = Cardinality(Of(g, 0..(i - 1))')
    <3>1. main = "join" => total = Cardinality(Of(f, 0..(i - 1))) /\ t \notin 0..(i - 1)
      BY <1>10, <2>1 DEF Explains
    <3>2. t \notin 0..(i - 1) => Of(g, 0..(i - 1))' = Of(f, 0..(i - 1))
      <4>1. i' = i
        BY <1>2
      <4> QED BY <2>2, <2>3, <4>1 DEF Of
    <3> QED BY <1>2, <3>1, <3>2
  <2> QED BY <2>2, <2>7, <2>8 DEF Counted, Explains
<1> QED BY <1>1, <1>7, <1>8, <1>9, <1>11, <1>12 DEF Inv, x

-----------------------------------------------------------------------------
(* The theorems.                                                           *)

\* Every step keeps the invariant, and runs one test that waited or none.
LEMMA InvNext ==
  ASSUME Inv, [Next]_vars
  PROVE  Inv' /\ (Waiting' = Waiting \/ \E t \in Thread : RunTest(t))
<1>1. \/ \E x \in Tests : Deal(x)
      \/ Dealt \/ Create \/ CreateFails \/ Created \/ Join \/ Report \/ UNCHANGED vars
      \/ \E t \in Thread : Fetch(t) \/ RunTest(t) \/ TestExits(t) \/ Return(t)
  BY DEF Next, Main, ThreadMain
<1> QED BY <1>1, DealStep, StillStep, FetchStep, RunTestStep

\* The invariant of the runner: no test is in two places, and each thread has
\* counted exactly the successful tests that it ran.
THEOREM InvariantHolds == Spec => []Inv
<1>1. Init => Inv
  BY InvInit
<1>2. Inv /\ [Next]_vars => Inv'
  BY InvNext
<1> QED BY <1>1, <1>2, PTL DEF Spec

\* No test is run by two threads, or twice by one (thread_main pops its own
\* queue, which run_tests has filled before).
THEOREM EachTestOnceHolds == Spec => []EachTestOnce
<1>1. Inv => EachTestOnce
  BY DEF Inv
<1> QED BY <1>1, InvariantHolds, PTL

\* At the end of the joins all tests have been run, and the total is the
\* number of the successful ones.
LEMMA AllCounted ==
  ASSUME Inv, main = "join", i = NumThreads
  PROVE  Waiting = {} /\ total = Cardinality({x \in Tests : outcome[x] = "success"})
<1>1. 0..(i - 1) = Thread
  BY DEF Thread
<1>2. todo = {} /\ \A t \in Thread : pc[t] = "done" /\ queue[t] = <<>>
  BY <1>1 DEF Inv, Progress
<1>3. Waiting = {}
  BY <1>2 DEF Waiting, Queued, Running
<1>4. PICK f \in [Tests -> Thread] : Explains(f)
  BY DEF Inv, Counted
<1>5. Of(f, Thread) = {x \in Tests : outcome[x] = "success"}
  BY <1>3, <1>4 DEF Of, Successes
<1> QED BY <1>1, <1>3, <1>4, <1>5 DEF Explains

\* Every step of the runner is a step of the suite, or one it does not see.
LEMMA SuiteStep == Inv /\ [Next]_vars => [Suite!Next]_(Suite!vars)
<1> SUFFICES ASSUME Inv, [Next]_vars PROVE [Suite!Next]_(Suite!vars)
  OBVIOUS
<1>1. \/ (\E x \in Tests : Deal(x)) \/ UNCHANGED vars
      \/ Dealt \/ Create \/ Created \/ Join
      \/ \E t \in Thread : Fetch(t) \/ Return(t)
      \/ status = "running" /\ (CreateFails \/ Report \/ \E t \in Thread : RunTest(t) \/ TestExits(t))
  BY DEF Next, Main, ThreadMain
<1>2. CASE \/ (\E x \in Tests : Deal(x)) \/ UNCHANGED vars
           \/ Dealt \/ Create \/ Created \/ Join
           \/ \E t \in Thread : Fetch(t) \/ Return(t)
  <2>1. Waiting' = Waiting
    BY <1>2, DealStep, StillStep, FetchStep
  <2>2. UNCHANGED <<outcome, status, report>>
    BY <1>2 DEF Deal, vars, Dealt, Create, Created, Join, Fetch, Return, mainVars
  <2>3. UNCHANGED Suite!vars
    BY <2>1, <2>2 DEF Suite!vars
  <2> QED BY <2>3
<1>3. CASE status = "running" /\ (CreateFails \/ \E t \in Thread : TestExits(t))
  <2>1. Waiting' = Waiting
    BY <1>3, StillStep
  <2>2. status' = "exited" /\ UNCHANGED <<outcome, report>>
    BY <1>3 DEF CreateFails, TestExits, mainVars
  <2> QED BY <1>3, <2>1, <2>2 DEF Suite!Next, Suite!Exit
<1>4. CASE status = "running" /\ Report
  <2>1. Waiting' = Waiting
    BY <1>4, StillStep
  <2>2. Waiting = {} /\ total = Cardinality({x \in Tests : outcome[x] = "success"})
    BY <1>4, AllCounted DEF Report
  <2>3. status' = "reported" /\ report' = total /\ outcome' = outcome
    BY <1>4 DEF Report
  <2>4. Suite!Cardinality({x \in Tests : outcome[x] = "success"}) = Cardinality({x \in Tests : outcome[x] = "success"})
    BY DEF Suite!Cardinality, Cardinality
  <2>5. Suite!Report
    BY <1>4, <2>1, <2>2, <2>3, <2>4 DEF Suite!Report, Suite!Successful
  <2> QED BY <2>5 DEF Suite!Next
<1>5. ASSUME status = "running", NEW t \in Thread, RunTest(t) PROVE Suite!Next
  <2>1. test[t] \in Tests /\ test[t] \in Waiting /\ Waiting' = Waiting \ {test[t]}
    BY <1>5, RunTestStep
  <2>2. outcome[test[t]] # "exit" /\ UNCHANGED <<outcome, status, report>>
    BY <1>5 DEF RunTest, mainVars
  <2>3. Suite!Run(test[t])
    BY <1>5, <2>1, <2>2 DEF Suite!Run
  <2> QED BY <2>1, <2>3 DEF Suite!Next
<1> QED BY <1>1, <1>2, <1>3, <1>4, <1>5

\* The runner implements the suite as far as safety goes: tests are run one by
\* one and each once, and if a number is printed then all have been run and it
\* is the number of those that succeeded. (That it goes on is model-checked.)
THEOREM RunnerImplementsSuite == Spec => Suite!SafeSpec
<1>1. Init => Suite!Init
  BY InvInit DEF Init, Suite!Init, Outcomes, Suite!Outcomes
<1>2. Inv /\ [Next]_vars => [Suite!Next]_(Suite!vars)
  BY SuiteStep
<1> QED BY <1>1, <1>2, InvariantHolds, PTL DEF Spec, Suite!SafeSpec
=============================================================================
