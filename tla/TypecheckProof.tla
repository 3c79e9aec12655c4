--------------------------- MODULE TypecheckProof ---------------------------
(***************************************************************************)
(* Proofs about Typecheck for every value of its constants: the report has *)
(* one error for everything the handlers should find wrong and one warning *)
(* for each symbol they should warn of, a program reported clean has been  *)
(* checked to its last block, and an error costs at most the statement it  *)
(* is in.                                                                  *)
(*                                                                         *)
(* Order: the searches through the frames; what their tables will be       *)
(* warned of; what the handlers ask of types; the invariant IInv and one   *)
(* lemma for each kind of step that keeps it; the theorems.                *)
(***************************************************************************)
EXTENDS Typecheck, Recursion, SequenceTheorems, TLAPS

-----------------------------------------------------------------------------
(* The searches through the frames.                                        *)

\* A non-empty set of positions has a greatest one, which Max picks.
LEMMA MaxExists ==
  ASSUME NEW N \in Nat, NEW S, S \subseteq 1..N, S # {}
  PROVE  Max(S) \in S /\ \A t \in S : t <= Max(S)
<1>1. PICK m \in S : \A t \in S : t <= m
  <2>1. S \subseteq 0..N
    OBVIOUS
  <2> QED BY <2>1, HasGreatest
<1>2. S \subseteq Int
  OBVIOUS
<1>3. Max(S) \in S /\ \A t \in S : Max(S) >= t
  BY <1>1, <1>2 DEF Max
<1> QED BY <1>2, <1>3

\* The innermost list is a frame, and there is one in a function.
LEMMA InnermostListFound ==
  ASSUME NEW fs, Len(fs) \in Nat
  PROVE  /\ InnermostList(fs) \in 0..Len(fs)
         /\ (Len(fs) > 0 /\ fs[1].phase = "list") => InnermostList(fs) > 0
<1> DEFINE I == {i \in 1..Len(fs) : fs[i].phase = "list"}
<1>1. InnermostList(fs) = IF I # {} THEN Max(I) ELSE 0
  BY DEF InnermostList, SelectLastInSeq
<1>2. I # {} => Max(I) \in I
  BY MaxExists
<1>3. (Len(fs) > 0 /\ fs[1].phase = "list") => 1 \in I
  OBVIOUS
<1>4. I \subseteq 1..Len(fs)
  OBVIOUS
<1> HIDE DEF I
<1>5. InnermostList(fs) \in 0..Len(fs)
  <2>1. CASE I = {}
    BY <1>1, <2>1
  <2>2. CASE I # {}
    <3>1. Max(I) \in 1..Len(fs)
      BY <1>2, <1>4, <2>2
    <3>2. InnermostList(fs) = Max(I)
      BY <1>1, <2>2
    <3> QED BY <3>1, <3>2
  <2> QED BY <2>1, <2>2
<1>6. ASSUME 1 \in I PROVE InnermostList(fs) > 0
  <2>1. I # {}
    BY <1>6
  <2>2. InnermostList(fs) \in 1..Len(fs)
    BY <1>1, <1>2, <1>4, <2>1
  <2> QED BY <2>2
<1> QED BY <1>3, <1>5, <1>6

-----------------------------------------------------------------------------
(* Nested frames, which is what TypeOK says of the variable.               *)

FrameSet ==
  [k : {"func", "if", "else", "while", "for"},
   phase : {"if", "init", "cond", "update", "list"},
   uninit : Nat, ret : Returns \cup {VoidT}, last : {"none", "return", "other"}]

Nested(fs) ==
  /\ fs \in Seq(FrameSet)
  /\ \A i \in DOMAIN fs : (fs[i].k = "func") <=> (i = 1)
  /\ fs # <<>> => fs[1].phase = "list" /\ fs[1].ret \in Returns

\* The tables of gs are those of fs, or new; the ends may differ.
Carries(fs, gs) ==
  \A i \in 1..Len(gs) : gs[i].uninit = IF i <= Len(fs) THEN fs[i].uninit ELSE 0

\* Steps that take no frame away can be put together with what follows.
LEMMA CarriesBoth ==
  ASSUME NEW fs, NEW gs, NEW hs, Len(fs) \in Nat, Len(gs) \in Nat, Len(hs) \in Nat,
         Carries(fs, gs), Carries(gs, hs), Len(fs) <= Len(gs)
  PROVE  Carries(fs, hs)
BY DEF Carries

\* A frame changes in what neither its kind nor the function's type is.
LEMMA ReplaceNested ==
  ASSUME NEW fs, Nested(fs), NEW n \in 1..Len(fs), NEW f \in FrameSet,
         f.k = fs[n].k, f.ret = fs[n].ret, n = 1 => f.phase = "list"
  PROVE  LET r == [fs EXCEPT ![n] = f]
         IN  Nested(r) /\ Len(r) = Len(fs) /\ r[n] = f
<1> DEFINE r == [fs EXCEPT ![n] = f]
<1>1. fs \in Seq(FrameSet)
  BY DEF Nested
<1>2. r \in Seq(FrameSet) /\ Len(r) = Len(fs) /\ \A i \in 1..Len(fs) : r[i] = IF i = n THEN f ELSE fs[i]
  BY <1>1
<1> HIDE DEF r
<1>3. \A i \in DOMAIN r : r[i].k = fs[i].k
  BY <1>1, <1>2
<1>4. \A i \in DOMAIN r : (r[i].k = "func") <=> (i = 1)
  BY <1>1, <1>2, <1>3 DEF Nested
<1>5. r[1].phase = "list" /\ r[1].ret \in Returns
  <2>1. fs # <<>> /\ 1 \in 1..Len(fs)
    BY <1>1
  <2> QED BY <1>2, <2>1 DEF Nested
<1>6. Nested(r)
  BY <1>2, <1>4, <1>5 DEF Nested
<1> QED BY <1>2, <1>6 DEF r

\* A statement is taken.
LEMMA RanNested ==
  ASSUME NEW fs, Nested(fs), NEW how \in {"none", "return", "other"}
  PROVE  /\ Nested(Ran(fs, how)) /\ Len(Ran(fs, how)) = Len(fs)
         /\ Carries(fs, Ran(fs, how))
         /\ InnermostList(Ran(fs, how)) = InnermostList(fs)
<1>1. CASE fs = <<>> \/ Last(fs).phase # "list"
  <2>1. Ran(fs, how) = fs
    BY <1>1 DEF Ran
  <2> QED BY <2>1 DEF Carries
<1>2. CASE fs # <<>> /\ Last(fs).phase = "list"
  <2> DEFINE f == [fs[Len(fs)] EXCEPT !.last = how]
             r == [fs EXCEPT ![Len(fs)] = f]
  <2>1. fs \in Seq(FrameSet) /\ Len(fs) \in 1..Len(fs)
    BY <1>2 DEF Nested
  <2>2. fs[Len(fs)] \in FrameSet
    BY <2>1
  <2>3. /\ f \in FrameSet /\ f.k = fs[Len(fs)].k /\ f.ret = fs[Len(fs)].ret
        /\ f.phase = fs[Len(fs)].phase /\ f.uninit = fs[Len(fs)].uninit
    BY <2>2 DEF FrameSet
  <2>4. Len(fs) = 1 => f.phase = "list"
    BY <1>2, <2>3 DEF Nested
  <2>5. Ran(fs, how) = r
    BY <1>2 DEF Ran
  <2> HIDE DEF f
  <2>6. Nested(r) /\ Len(r) = Len(fs)
    BY <2>1, <2>3, <2>4, ReplaceNested
  <2>7. \A i \in 1..Len(fs) : r[i].phase = fs[i].phase /\ r[i].uninit = fs[i].uninit
    BY <2>1, <2>3
  <2>8. InnermostList(r) = InnermostList(fs)
    <3>1. {i \in 1..Len(r) : r[i].phase = "list"} = {i \in 1..Len(fs) : fs[i].phase = "list"}
      BY <2>6, <2>7
    <3> HIDE DEF r
    <3> QED BY <3>1 DEF InnermostList, SelectLastInSeq
  <2> HIDE DEF r
  <2>9. Carries(fs, r)
    BY <2>1, <2>6, <2>7 DEF Carries
  <2> QED BY <2>5, <2>6, <2>8, <2>9
<1> QED BY <1>1, <1>2

\* What a statement waited for has returned.
LEMMA AdvanceNested ==
  ASSUME NEW fs, Nested(fs)
  PROVE  /\ Nested(Advance(fs)) /\ Len(Advance(fs)) = Len(fs)
         /\ Carries(fs, Advance(fs))
<1>1. CASE fs = <<>>
  BY <1>1 DEF Advance, Carries
<1>2. CASE fs # <<>>
  <2> DEFINE p == IF fs[Len(fs)].phase = "init" THEN "cond" ELSE "list"
             f == [fs[Len(fs)] EXCEPT !.phase = p]
  <2>1. fs \in Seq(FrameSet) /\ Len(fs) \in 1..Len(fs)
    BY <1>2 DEF Nested
  <2>2. fs[Len(fs)] \in FrameSet
    BY <2>1
  <2>3. /\ f \in FrameSet /\ f.k = fs[Len(fs)].k /\ f.ret = fs[Len(fs)].ret /\ f.phase = p
        /\ f.uninit = fs[Len(fs)].uninit
    BY <2>2 DEF FrameSet
  <2>4. Len(fs) = 1 => f.phase = "list"
    BY <2>3, <1>2 DEF Nested
  <2>5. Advance(fs) = [fs EXCEPT ![Len(fs)] = f]
    BY <1>2 DEF Advance
  <2> HIDE DEF f, p
  <2>6. Nested([fs EXCEPT ![Len(fs)] = f]) /\ Len([fs EXCEPT ![Len(fs)] = f]) = Len(fs)
    BY <2>1, <2>3, <2>4, ReplaceNested
  <2>7. Carries(fs, [fs EXCEPT ![Len(fs)] = f])
    <3> DEFINE r == [fs EXCEPT ![Len(fs)] = f]
    <3>1. \A i \in 1..Len(fs) : r[i].uninit = fs[i].uninit
      BY <2>1, <2>3
    <3>2. Len(r) = Len(fs)
      BY <2>6
    <3> HIDE DEF r
    <3>3. Carries(fs, r)
      BY <2>1, <3>1, <3>2 DEF Carries
    <3> QED BY <3>3 DEF r
  <2> QED BY <2>5, <2>6, <2>7
<1> QED BY <1>1, <1>2

\* The frames that a thrown error leaves: those up to the innermost list,
\* of which there is one.
LEMMA CaughtNested ==
  ASSUME NEW fs, Nested(fs)
  PROVE  /\ Nested(Caught(fs))
         /\ Len(Caught(fs)) = InnermostList(fs)
         /\ Len(Caught(fs)) <= Len(fs)
         /\ fs # <<>> => Caught(fs) # <<>>
         /\ Carries(fs, Caught(fs))
<1> DEFINE m == InnermostList(fs)
           c == Caught(fs)
<1>1. fs \in Seq(FrameSet) /\ Len(fs) \in Nat
  BY DEF Nested
<1>2. m \in 0..Len(fs) /\ ((Len(fs) > 0 /\ fs[1].phase = "list") => m > 0)
  BY <1>1, InnermostListFound
<1>3. fs # <<>> => m > 0
  BY <1>1, <1>2 DEF Nested
<1>4. c = SubSeq(fs, 1, m)
  BY DEF Caught
<1> HIDE DEF m, c
<1>5. c \in Seq(FrameSet) /\ Len(c) = m /\ \A i \in 1..m : c[i] = fs[i]
  BY <1>1, <1>2, <1>4
<1>6. \A i \in DOMAIN c : (c[i].k = "func") <=> (i = 1)
  BY <1>1, <1>2, <1>5 DEF Nested
<1>7. c # <<>> => c[1].phase = "list" /\ c[1].ret \in Returns
  <2>1. ASSUME c # <<>> PROVE 1 \in 1..m /\ fs # <<>>
    BY <1>1, <1>2, <1>5, <2>1
  <2> QED BY <1>5, <2>1 DEF Nested
<1>8. Nested(c)
  BY <1>5, <1>6, <1>7 DEF Nested
<1>9. fs # <<>> => c # <<>>
  BY <1>3, <1>5
<1>10. Carries(fs, c)
  BY <1>1, <1>2, <1>5 DEF Carries
<1> QED BY <1>2, <1>5, <1>8, <1>9, <1>10 DEF m, c

\* A block of a statement in a function.
LEMMA AppendNested ==
  ASSUME NEW fs, Nested(fs), fs # <<>>, NEW f \in FrameSet, f.k # "func", f.uninit = 0
  PROVE  /\ Nested(Append(fs, f)) /\ Len(Append(fs, f)) = Len(fs) + 1
         /\ Carries(fs, Append(fs, f))
<1> DEFINE r == Append(fs, f)
<1>1. fs \in Seq(FrameSet)
  BY DEF Nested
<1>2. /\ r \in Seq(FrameSet) /\ Len(r) = Len(fs) + 1
      /\ \A i \in 1..Len(fs) : r[i] = fs[i]
      /\ r[Len(fs) + 1] = f
  BY <1>1
<1>3. Len(fs) \in Nat /\ Len(fs) >= 1 /\ DOMAIN fs = 1..Len(fs)
  BY <1>1
<1> HIDE DEF r
<1>4. \A i \in DOMAIN r : (r[i].k = "func") <=> (i = 1)
  <2>1. SUFFICES ASSUME NEW i \in 1..(Len(fs) + 1) PROVE (r[i].k = "func") <=> (i = 1)
    BY <1>2
  <2>2. CASE i = Len(fs) + 1
    BY <1>2, <1>3, <2>2
  <2>3. CASE i # Len(fs) + 1
    <3>1. i \in 1..Len(fs)
      BY <1>3, <2>3
    <3> QED BY <1>2, <1>3, <3>1 DEF Nested
  <2> QED BY <2>2, <2>3
<1>5. r[1].phase = "list" /\ r[1].ret \in Returns
  <2>1. r[1] = fs[1]
    BY <1>2, <1>3
  <2> QED BY <2>1 DEF Nested
<1>6. Nested(r)
  BY <1>2, <1>4, <1>5 DEF Nested
<1>7. Carries(fs, r)
  BY <1>2, <1>3 DEF Carries
<1> QED BY <1>2, <1>6, <1>7 DEF r

\* A list that has ended, unless it is a function's.
LEMMA FrontNested ==
  ASSUME NEW fs, Nested(fs), fs # <<>>, Last(fs).k # "func"
  PROVE  Nested(Front(fs)) /\ Len(Front(fs)) = Len(fs) - 1
<1> DEFINE r == Front(fs)
<1>1. fs \in Seq(FrameSet)
  BY DEF Nested
<1>2. Len(fs) \in Nat /\ Len(fs) >= 1 /\ DOMAIN fs = 1..Len(fs)
  BY <1>1
<1>3. Len(fs) # 1
  <2>1. Last(fs) = fs[Len(fs)]
    BY DEF Last
  <2> QED BY <1>2, <2>1 DEF Nested
<1>4. r = SubSeq(fs, 1, Len(fs) - 1)
  BY DEF Front
<1> HIDE DEF r
<1>5. r \in Seq(FrameSet) /\ Len(r) = Len(fs) - 1 /\ \A i \in 1..(Len(fs) - 1) : r[i] = fs[i]
  BY <1>1, <1>2, <1>3, <1>4
<1>6. \A i \in DOMAIN r : (r[i].k = "func") <=> (i = 1)
  BY <1>2, <1>5 DEF Nested
<1>7. r[1].phase = "list" /\ r[1].ret \in Returns
  <2>1. r[1] = fs[1]
    BY <1>2, <1>3, <1>5
  <2> QED BY <2>1 DEF Nested
<1>8. Nested(r)
  BY <1>5, <1>6, <1>7 DEF Nested
<1> QED BY <1>5, <1>8 DEF r

-----------------------------------------------------------------------------
(* What the tables of the frames will be warned of.                        *)

\* acc[i] is the number of symbols in the tables of the first i frames that
\* are not initialized.
Sums(acc, fs) ==
  /\ acc \in [0..Len(fs) -> Nat]
  /\ acc[0] = 0
  /\ \A i \in 1..Len(fs) : acc[i] = acc[i - 1] + fs[i].uninit
  /\ \A i, j \in 0..Len(fs) : i <= j => acc[i] <= acc[j]

\* n warnings and those to come are for some of b symbols, and for all of
\* them if no block but those of fs is owed.
Warned(fs, n, b, o) ==
  \E acc \in [0..Len(fs) -> Nat] :
    /\ Sums(acc, fs)
    /\ n + acc[Len(fs)] <= b
    /\ o = Len(fs) => n + acc[Len(fs)] = b

\* Frames that are dropped can cost warnings, and new ones have none yet.
LEMMA WarnedCarries ==
  ASSUME NEW fs, NEW gs, Len(fs) \in Nat, Len(gs) \in Nat,
         NEW n \in Nat, NEW b \in Nat, NEW o \in Nat, NEW q \in Nat,
         Warned(fs, n, b, o), Carries(fs, gs),
         q = Len(gs) => o = Len(fs) /\ Len(gs) >= Len(fs)
  PROVE  Warned(gs, n, b, q)
<1>1. PICK acc \in [0..Len(fs) -> Nat] :
        /\ Sums(acc, fs)
        /\ n + acc[Len(fs)] <= b
        /\ o = Len(fs) => n + acc[Len(fs)] = b
  BY DEF Warned
<1> DEFINE next == [i \in 0..Len(gs) |-> IF i <= Len(fs) THEN acc[i] ELSE acc[Len(fs)]]
<1>2. next \in [0..Len(gs) -> Nat]
  OBVIOUS
<1>3. next[0] = 0
  BY <1>1 DEF Sums
<1>4. ASSUME NEW i \in 1..Len(gs) PROVE next[i] = next[i - 1] + gs[i].uninit
  <2>1. i - 1 \in 0..Len(gs) /\ i \in 0..Len(gs)
    OBVIOUS
  <2>2. CASE i <= Len(fs)
    <3>1. i \in 1..Len(fs) /\ gs[i].uninit = fs[i].uninit
      BY <2>2 DEF Carries
    <3> QED BY <1>1, <2>1, <2>2, <3>1 DEF Sums
  <2>3. CASE i > Len(fs)
    <3>1. gs[i].uninit = 0
      BY <2>3 DEF Carries
    <3>2. next[i] = acc[Len(fs)] /\ next[i - 1] = acc[Len(fs)] /\ acc[Len(fs)] \in Nat
      BY <2>1, <2>3
    <3> QED BY <3>1, <3>2
  <2> QED BY <2>2, <2>3
<1>5. ASSUME NEW i \in 0..Len(gs), NEW j \in 0..Len(gs), i <= j PROVE next[i] <= next[j]
  <2>1. \A k, l \in 0..Len(fs) : k <= l => acc[k] <= acc[l]
    BY <1>1 DEF Sums
  <2>2. CASE j <= Len(fs)
    <3>1. i \in 0..Len(fs) /\ j \in 0..Len(fs)
      BY <1>5, <2>2
    <3>2. next[i] = acc[i] /\ next[j] = acc[j]
      BY <3>1
    <3> QED BY <1>5, <2>1, <3>1, <3>2
  <2>3. CASE j > Len(fs) /\ i <= Len(fs)
    <3>1. i \in 0..Len(fs) /\ Len(fs) \in 0..Len(fs) /\ i <= Len(fs)
      BY <2>3
    <3>2. next[i] = acc[i] /\ next[j] = acc[Len(fs)]
      BY <2>3, <3>1
    <3> QED BY <2>1, <3>1, <3>2
  <2>4. CASE j > Len(fs) /\ i > Len(fs)
    <3>1. next[i] = acc[Len(fs)] /\ next[j] = acc[Len(fs)] /\ acc[Len(fs)] \in Nat
      BY <2>4
    <3> QED BY <3>1
  <2> QED BY <2>2, <2>3, <2>4
<1>6. Sums(next, gs)
  BY <1>2, <1>3, <1>4, <1>5 DEF Sums
<1>7. next[Len(gs)] <= acc[Len(fs)] /\ (Len(gs) >= Len(fs) => next[Len(gs)] = acc[Len(fs)])
  BY <1>1 DEF Sums
<1> HIDE DEF next
<1>8. next[Len(gs)] \in Nat /\ acc[Len(fs)] \in Nat
  BY <1>2
<1>9. n + next[Len(gs)] <= b /\ (q = Len(gs) => n + next[Len(gs)] = b)
  BY <1>1, <1>7, <1>8
<1> QED BY <1>2, <1>6, <1>9 DEF Warned

\* Some symbols put in the table of one of the frames.
LEMMA WarnedPut ==
  ASSUME NEW fs, NEW gs, Len(fs) \in Nat, Len(gs) = Len(fs),
         NEW n \in Nat, NEW b \in Nat, NEW o \in Nat, NEW c \in Nat,
         Warned(fs, n, b, o), NEW at \in 1..Len(fs),
         \A i \in 1..Len(fs) : fs[i].uninit \in Nat,
         \A i \in 1..Len(fs) : gs[i].uninit = fs[i].uninit + (IF i = at THEN c ELSE 0)
  PROVE  Warned(gs, n, b + c, o)
<1>1. PICK acc \in [0..Len(fs) -> Nat] :
        /\ Sums(acc, fs)
        /\ n + acc[Len(fs)] <= b
        /\ o = Len(fs) => n + acc[Len(fs)] = b
  BY DEF Warned
<1> DEFINE next == [i \in 0..Len(gs) |-> acc[i] + (IF i >= at THEN c ELSE 0)]
<1>2. next \in [0..Len(gs) -> Nat]
  OBVIOUS
<1>3. next[0] = 0
  BY <1>1 DEF Sums
<1>4. ASSUME NEW i \in 1..Len(gs) PROVE next[i] = next[i - 1] + gs[i].uninit
  <2>1. i - 1 \in 0..Len(gs) /\ i \in 0..Len(gs)
    OBVIOUS
  <2>2. acc[i] = acc[i - 1] + fs[i].uninit /\ acc[i] \in Nat /\ acc[i - 1] \in Nat
    <3>1. i - 1 \in 0..Len(fs) /\ i \in 0..Len(fs) /\ i \in 1..Len(fs)
      BY <2>1
    <3>2. acc[i] \in Nat /\ acc[i - 1] \in Nat
      BY <3>1
    <3> QED BY <1>1, <3>1, <3>2 DEF Sums
  <2>3. next[i] = acc[i] + (IF i >= at THEN c ELSE 0)
    BY <2>1
  <2>4. next[i - 1] = acc[i - 1] + (IF i - 1 >= at THEN c ELSE 0)
    BY <2>1
  <2>5. fs[i].uninit \in Nat /\ gs[i].uninit = fs[i].uninit + (IF i = at THEN c ELSE 0)
    OBVIOUS
  <2>6. (i >= at <=> i - 1 >= at \/ i = at) /\ (i = at => ~(i - 1 >= at))
    OBVIOUS
  <2> HIDE DEF next
  <2>7. CASE i = at
    BY <2>2, <2>3, <2>4, <2>5, <2>6, <2>7
  <2>8. CASE i # at
    <3>1. gs[i].uninit = fs[i].uninit /\ (i >= at <=> i - 1 >= at)
      BY <2>5, <2>6, <2>8
    <3> QED BY <2>2, <2>3, <2>4, <2>5, <3>1
  <2> QED BY <2>7, <2>8
<1>5. ASSUME NEW i \in 0..Len(gs), NEW j \in 0..Len(gs), i <= j PROVE next[i] <= next[j]
  <2>1. acc[i] <= acc[j] /\ acc[i] \in Nat /\ acc[j] \in Nat
    BY <1>1, <1>5 DEF Sums
  <2> QED BY <1>5, <2>1
<1>6. Sums(next, gs)
  BY <1>2, <1>3, <1>4, <1>5 DEF Sums
<1>7. next[Len(gs)] = acc[Len(fs)] + c
  OBVIOUS
<1> HIDE DEF next
<1>9. n + next[Len(gs)] <= b + c /\ (o = Len(gs) => n + next[Len(gs)] = b + c)
  <2> DEFINE t == acc[Len(fs)]
             u == next[Len(gs)]
  <2>1. t \in Nat /\ u = t + c
    BY <1>7
  <2>2. n + t <= b /\ (o = Len(gs) => n + t = b)
    BY <1>1
  <2> HIDE DEF t, u
  <2>3. n + u <= b + c /\ (o = Len(gs) => n + u = b + c)
    BY <2>1, <2>2
  <2> QED BY <2>3 DEF u
<1> DEFINE total == b + c
<1>10. n + next[Len(gs)] <= total /\ (o = Len(gs) => n + next[Len(gs)] = total)
  BY <1>9
<1> HIDE DEF total
<1>11. Warned(gs, n, total, o)
  BY <1>2, <1>6, <1>10 DEF Warned
<1> QED BY <1>11 DEF total

\* The symbols of the innermost table are warned of, and its frame ends.
LEMMA WarnedEnd ==
  ASSUME NEW fs, NEW gs, NEW k \in Nat, Len(fs) = k + 1, Len(gs) = k,
         NEW n \in Nat, NEW b \in Nat, NEW o \in Nat,
         Warned(fs, n, b, o), fs[k + 1].uninit \in Nat,
         \A i \in 1..k : gs[i].uninit = fs[i].uninit, o >= k + 1
  PROVE  /\ n + fs[k + 1].uninit <= b
         /\ Warned(gs, n + fs[k + 1].uninit, b, o - 1)
<1>1. PICK acc \in [0..Len(fs) -> Nat] :
        /\ Sums(acc, fs)
        /\ n + acc[Len(fs)] <= b
        /\ o = Len(fs) => n + acc[Len(fs)] = b
  BY DEF Warned
<1> DEFINE next == [i \in 0..k |-> acc[i]]
<1>2. next \in [0..k -> Nat]
  OBVIOUS
<1>3. Sums(next, gs)
  BY <1>1, <1>2 DEF Sums
<1>4. acc[k + 1] = acc[k] + fs[k + 1].uninit /\ acc[k] \in Nat /\ next[k] = acc[k]
  BY <1>1 DEF Sums
<1> HIDE DEF next
<1>5. /\ n + fs[k + 1].uninit + next[Len(gs)] <= b
      /\ o - 1 = Len(gs) => n + fs[k + 1].uninit + next[Len(gs)] = b
  BY <1>1, <1>4
<1>6. Warned(gs, n + fs[k + 1].uninit, b, o - 1)
  BY <1>2, <1>3, <1>5 DEF Warned
<1>7. n + fs[k + 1].uninit <= b
  BY <1>1, <1>4
<1> QED BY <1>6, <1>7

-----------------------------------------------------------------------------
(* What the handlers ask of types, and what they find by it.               *)

\* Types are compared with their meanings, however they are written.
LEMMA ComparesMeanings ==
  ASSUME NEW t \in Compared, NEW u \in Compared
  PROVE  TypeEquals(t, u) <=> MeaningOf(t) = MeaningOf(u)
BY TypesAssumption DEF ComparisonAssumption

\* A declaration finds that its identifier is of its type.
LEMMA OwnType ==
  ASSUME NEW t \in Types
  PROVE  TypeEquals(NameType(t), t)
<1>1. NameType(t) \in Compared /\ t \in Compared
  BY DEF Compared
<1>2. MeaningOf(NameType(t)) = MeaningOf(t)
  BY TypesAssumption DEF NameAssumption
<1> QED BY <1>1, <1>2, ComparesMeanings

\* An initializer is refused exactly if its value is of another type.
LEMMA InitRefused ==
  ASSUME NEW t \in Types, NEW e \in Exprs
  PROVE  (e = Error \/ ~TypeEquals(Base(e), Base(t))) <=> (e = Error \/ ValueOf(e) # ValueOf(t))
<1>1. SUFFICES ASSUME e # Error PROVE TypeEquals(Base(e), Base(t)) <=> ValueOf(e) = ValueOf(t)
  OBVIOUS
<1>2. e \in Types
  BY <1>1 DEF Exprs
<1>3. Base(e) \in Compared /\ Base(t) \in Compared
  BY <1>2 DEF Compared
<1>4. MeaningOf(Base(e)) = ValueOf(e) /\ MeaningOf(Base(t)) = ValueOf(t)
  BY <1>2, TypesAssumption DEF MutAssumption
<1> QED BY <1>3, <1>4, ComparesMeanings

\* An assignment is refused exactly if it is to no variable that can be
\* assigned to or the value is of another type.
LEMMA AssignmentRefused ==
  ASSUME NEW l \in Exprs, NEW r \in Exprs
  PROVE  (\/ Error \in {l, r} \/ l.k # "mut"
          \/ ~(IF r.k = "mut" THEN TypeEquals(l, r) ELSE TypeEquals(l.t, r)))
           <=> (Error \in {l, r} \/ MeaningOf(l).k # "mut" \/ ValueOf(r) # ValueOf(l))
<1>1. CASE Error \in {l, r}
  BY <1>1
<1>2. CASE Error \notin {l, r}
  <2>1. l \in Types /\ r \in Types
    BY <1>2 DEF Exprs
  <2>2. /\ MeaningOf(l).k = "mut" <=> l.k = "mut"
        /\ MeaningOf(r).k = "mut" <=> r.k = "mut"
    BY <2>1, TypesAssumption DEF MutAssumption
  <2>3. ASSUME NEW t \in Types, t.k = "mut"
        PROVE  MeaningOf(t) = Mut(MeaningOf(t.t)) /\ ValueOf(t) = MeaningOf(t.t) /\ t.t \in Compared
    <3>1. MeaningOf(t) = Mut(MeaningOf(t.t))
      BY <2>3, TypesAssumption DEF MutAssumption
    <3>2. t.t \in Compared
      BY <2>3 DEF Compared
    <3> QED BY <3>1, <3>2 DEF Mut, ValueOf
  <2>4. l \in Compared /\ r \in Compared
    BY <2>1 DEF Compared
  <2>5. CASE l.k # "mut"
    BY <2>2, <2>5
  <2>6. CASE l.k = "mut" /\ r.k = "mut"
    <3>1. /\ MeaningOf(l) = Mut(MeaningOf(l.t)) /\ ValueOf(l) = MeaningOf(l.t)
          /\ MeaningOf(r) = Mut(MeaningOf(r.t)) /\ ValueOf(r) = MeaningOf(r.t)
      BY <2>1, <2>3, <2>6
    <3>2. MeaningOf(l) = MeaningOf(r) <=> ValueOf(l) = ValueOf(r)
      BY <3>1 DEF Mut
    <3> QED BY <1>2, <2>2, <2>4, <2>6, <3>2, ComparesMeanings
  <2>7. CASE l.k = "mut" /\ r.k # "mut"
    <3>1. ValueOf(l) = MeaningOf(l.t) /\ l.t \in Compared
      BY <2>1, <2>3, <2>7
    <3>2. ValueOf(r) = MeaningOf(r)
      BY <2>2, <2>7 DEF ValueOf
    <3> QED BY <1>2, <2>2, <2>4, <2>7, <3>1, <3>2, ComparesMeanings
  <2> QED BY <2>5, <2>6, <2>7
<1> QED BY <1>1, <1>2

\* A call is refused exactly if it is of no function, or has arguments.
LEMMA CallRefused ==
  ASSUME NEW e \in Exprs, NEW n \in Nat
  PROVE  (e = Error \/ CallRule(e, n) = Error)
           <=> (e = Error \/ MeaningOf(e).k # "func" \/ n # 0)
<1>1. SUFFICES ASSUME e # Error
               PROVE  CallRule(e, n) = Error <=> (MeaningOf(e).k # "func" \/ n # 0)
  OBVIOUS
<1>2. e \in Types
  BY <1>1 DEF Exprs
<1>3. /\ MeaningOf(e).k = "func" <=> e.k = "func"
      /\ e.k = "func" => e.ts = <<>> /\ e.t # Error
  BY <1>2, TypesAssumption DEF FuncAssumption
<1>4. Len(<<>>) = 0
  OBVIOUS
<1> QED BY <1>3, <1>4 DEF CallRule

\* A value is refused exactly if it is not of the type wanted: what is
\* returned, or the bool that a condition is.
LEMMA ValueRefused ==
  ASSUME NEW e \in Exprs, NEW t \in Returns \cup {BoolT}
  PROVE  (e = Error \/ ~TypeEquals(e, t)) <=> (e = Error \/ MeaningOf(e) # MeaningOf(t))
<1>1. SUFFICES ASSUME e # Error PROVE TypeEquals(e, t) <=> MeaningOf(e) = MeaningOf(t)
  OBVIOUS
<1>2. e \in Compared /\ t \in Compared
  BY <1>1 DEF Exprs, Compared
<1> QED BY <1>2, ComparesMeanings

\* A function returns void, or Please, exactly if its type stands for that.
LEMMA ReturnsNothing ==
  ASSUME NEW t \in Returns
  PROVE  /\ TypeEquals(t, VoidT) <=> MeaningOf(t) = MeaningOf(VoidT)
         /\ TypeEquals(t, PleaseT) <=> MeaningOf(t) = MeaningOf(PleaseT)
<1>1. t \in Compared /\ VoidT \in Compared /\ PleaseT \in Compared
  BY DEF Compared
<1> QED BY <1>1, ComparesMeanings

-----------------------------------------------------------------------------
(* The invariant.                                                          *)

\* Every frame owes the blocks from its own on. More is owed only where an
\* error was thrown on the way to a block.
OwedInv == owed >= Len(frames) /\ (errors = 0 => owed = Len(frames))

\* The warnings so far and those still to come are for symbols that nothing
\* initializes, and for each of them once where no block is left out.
WarnedInv == Warned(frames, warnings, bare, owed)

IInv == TypeOK /\ ReportedOnce /\ OwedInv /\ WarnedInv

\* What a step keeps, and what an error in it costs at most.
Kept ==
  /\ IInv'
  /\ errors' > errors => Len(frames') >= InnermostList(frames)

\* The type invariant is that the frames are nested and the counters count.
LEMMA TypeOKNested ==
  TypeOK <=> /\ Nested(frames)
             /\ errors \in Nat /\ warnings \in Nat /\ flaws \in Nat
             /\ bare \in Nat /\ mismatches \in Nat
             /\ owed \in Nat /\ stmts \in Nat
BY DEF TypeOK, Nested, FrameSet

\* So it is in the next state.
LEMMA TypeOKNestedNext ==
  TypeOK' <=> /\ Nested(frames')
              /\ errors' \in Nat /\ warnings' \in Nat /\ flaws' \in Nat
              /\ bare' \in Nat /\ mismatches' \in Nat
              /\ owed' \in Nat /\ stmts' \in Nat
BY DEF TypeOK, Nested, FrameSet

\* IInv says what the lemmas about frames need.
LEMMA InvFrames ==
  ASSUME IInv
  PROVE  /\ Nested(frames) /\ Len(frames) \in Nat
         /\ errors \in Nat /\ warnings \in Nat /\ flaws \in Nat
         /\ bare \in Nat /\ mismatches \in Nat /\ owed \in Nat /\ stmts \in Nat
BY TypeOKNested DEF IInv, Nested

\* A step that reports n of n flaws, without ending a block, keeps IInv if
\* the frames it leaves are as many as they were, with the blocks it begins,
\* or if it reports something and the innermost list is among them.
LEMMA KeptByReport ==
  ASSUME IInv, NEW n \in Nat, NEW b \in Nat,
         errors' = errors + n, flaws' = flaws + n, warnings' = warnings,
         owed' = owed + b, stmts' \in Nat, bare' \in Nat, mismatches' \in Nat,
         Nested(frames'), WarnedInv',
         \/ Len(frames') = Len(frames) + b
         \/ /\ n > 0
            /\ Len(frames') >= InnermostList(frames)
            /\ Len(frames') <= Len(frames)
  PROVE  Kept
<1>1. TypeOK /\ Nested(frames) /\ errors \in Nat /\ warnings \in Nat /\ flaws \in Nat /\ owed \in Nat
  BY InvFrames DEF IInv
<1>2. Len(frames) \in Nat /\ Len(frames') \in Nat
  BY <1>1 DEF Nested
<1>3. InnermostList(frames) \in 0..Len(frames)
  BY <1>2, InnermostListFound
<1>4. TypeOK'
  BY <1>1, TypeOKNestedNext
<1>5. ReportedOnce'
  BY <1>1 DEF IInv, ReportedOnce
<1>6. OwedInv'
  BY <1>1, <1>2 DEF IInv, OwedInv
<1>7. Len(frames') >= InnermostList(frames)
  BY <1>2, <1>3
<1> QED BY <1>4, <1>5, <1>6, <1>7 DEF Kept, IInv

\* It does if it puts no symbol in a table.
LEMMA KeptByCarry ==
  ASSUME IInv, NEW n \in Nat, NEW b \in Nat,
         errors' = errors + n, flaws' = flaws + n, warnings' = warnings,
         owed' = owed + b, stmts' \in Nat, bare' = bare, mismatches' \in Nat,
         Nested(frames'), Carries(frames, frames'),
         \/ Len(frames') = Len(frames) + b
         \/ /\ n > 0
            /\ Len(frames') >= InnermostList(frames)
            /\ Len(frames') <= Len(frames)
  PROVE  Kept
<1>1. /\ Len(frames) \in Nat /\ warnings \in Nat /\ bare \in Nat /\ owed \in Nat
      /\ owed >= Len(frames)
  BY InvFrames DEF IInv, OwedInv
<1>2. Len(frames') \in Nat /\ owed' \in Nat
  BY <1>1 DEF Nested
<1>3. owed' = Len(frames') => owed = Len(frames) /\ Len(frames') >= Len(frames)
  BY <1>1, <1>2
<1>4. Warned(frames, warnings, bare, owed)
  BY DEF IInv, WarnedInv
<1>5. Warned(frames', warnings, bare, owed')
  BY <1>1, <1>2, <1>3, <1>4, WarnedCarries
<1>6. WarnedInv'
  BY <1>5 DEF WarnedInv
<1> QED BY <1>1, <1>6, KeptByReport

-----------------------------------------------------------------------------
(* One lemma for each kind of step.                                        *)

\* A statement without blocks whose handler finds exactly what is wrong.
LEMMA SimpleKept ==
  ASSUME IInv, NEW outcome \in {"ok", "throws", "reports"}, NEW flawed \in BOOLEAN,
         NEW how \in {"return", "other"},
         (outcome # "ok") <=> flawed,
         Simple(outcome, flawed, how)
  PROVE  Kept
<1> DEFINE r == Ran(frames, how)
           n == Count(flawed)
<1>1. Nested(frames) /\ Len(frames) \in Nat /\ stmts \in Nat /\ mismatches \in Nat
  BY InvFrames
<1>2. /\ Nested(r) /\ Len(r) = Len(frames) /\ Carries(frames, r)
      /\ InnermostList(r) = InnermostList(frames)
  BY <1>1, RanNested
<1>3. frames' = IF outcome = "throws" THEN Caught(r) ELSE Advance(r)
  BY DEF Simple
<1>4. errors' = errors + n /\ flaws' = flaws + n
  BY DEF Simple, Count
<1>5. UNCHANGED <<warnings, bare, mismatches, owed>> /\ stmts' = stmts + 1
  BY DEF Simple
<1>6. n \in Nat /\ (outcome = "throws" => n > 0)
  BY DEF Count
<1> HIDE DEF r, n
<1>7. /\ Nested(frames') /\ Carries(r, frames')
      /\ outcome = "throws" => Len(frames') = InnermostList(frames) /\ Len(frames') <= Len(frames)
      /\ outcome # "throws" => Len(frames') = Len(frames)
  BY <1>2, <1>3, CaughtNested, AdvanceNested
<1>8. Carries(frames, frames')
  <2>1. Len(frames') \in Nat
    BY <1>7 DEF Nested
  <2> QED BY <1>1, <1>2, <1>7, <2>1, CarriesBoth
<1>9. InnermostList(frames) \in 0..Len(frames)
  BY <1>1, InnermostListFound
<1>10. \/ Len(frames') = Len(frames) + 0
       \/ n > 0 /\ Len(frames') >= InnermostList(frames) /\ Len(frames') <= Len(frames)
  BY <1>1, <1>6, <1>7, <1>9
<1>11. owed' = owed + 0 /\ 0 \in Nat /\ stmts' \in Nat /\ mismatches' \in Nat
  BY <1>1, <1>5, InvFrames
<1> QED BY <1>4, <1>5, <1>6, <1>7, <1>8, <1>10, <1>11, KeptByCarry

\* The table that a declaration goes to is that of a frame.
LEMMA TableFound ==
  ASSUME NEW fs, Nested(fs), fs # <<>>
  PROVE  Table(fs) \in 1..Len(fs)
<1> DEFINE I == {i \in 1..Len(fs) : fs[i].phase \notin {"init", "if"}}
<1>1. Table(fs) = IF I # {} THEN Max(I) ELSE 0
  BY DEF Table, SelectLastInSeq
<1>2. Len(fs) \in Nat /\ Len(fs) > 0 /\ fs[1].phase = "list"
  BY DEF Nested
<1>3. 1 \in I
  BY <1>2
<1>4. I \subseteq 1..Len(fs)
  OBVIOUS
<1> HIDE DEF I
<1>5. Max(I) \in I
  BY <1>2, <1>3, <1>4, MaxExists
<1> QED BY <1>1, <1>3, <1>4, <1>5

\* A declaration that is accepted.
LEMMA DeclarationKept ==
  ASSUME IInv, NEW b \in BOOLEAN, Declaration(TRUE, b)
  PROVE  Kept
<1> DEFINE r == Running(frames)
           at == Table(frames)
           c == Count(~b)
           f == [r[at] EXCEPT !.uninit = @ + c]
           declared == [r EXCEPT ![at] = f]
<1>1. /\ Nested(frames) /\ Len(frames) \in Nat /\ stmts \in Nat /\ frames # <<>>
      /\ warnings \in Nat /\ bare \in Nat /\ owed \in Nat /\ mismatches \in Nat
  BY InvFrames DEF Declaration
<1>2. at \in 1..Len(frames) /\ c \in Nat
  BY <1>1, TableFound DEF Count
<1>3. Nested(r) /\ Len(r) = Len(frames) /\ Carries(frames, r)
  BY <1>1, RanNested DEF Running
<1>4. /\ frames' = Advance(declared)
      /\ errors' = errors + 0 /\ flaws' = flaws + 0
      /\ bare' = bare + c
      /\ UNCHANGED <<warnings, owed, mismatches>> /\ stmts' = stmts + 1
  BY InvFrames DEF Declaration, Count
<1> HIDE DEF r, at, c
<1>5. r \in Seq(FrameSet) /\ r[at] \in FrameSet
  BY <1>1, <1>2, <1>3 DEF Nested
<1>6. /\ f \in FrameSet /\ f.k = r[at].k /\ f.ret = r[at].ret /\ f.phase = r[at].phase
      /\ f.uninit = r[at].uninit + c
  <2> DEFINE g == r[at]
  <2>1. g \in FrameSet /\ c \in Nat
    BY <1>2, <1>5
  <2>2. f = [g EXCEPT !.uninit = @ + c]
    OBVIOUS
  <2> HIDE DEF f, g
  <2>3. /\ f \in FrameSet /\ f.k = g.k /\ f.ret = g.ret /\ f.phase = g.phase
        /\ f.uninit = g.uninit + c
    BY <2>1, <2>2 DEF FrameSet
  <2> QED BY <2>3 DEF g
<1>7. at = 1 => f.phase = "list"
  BY <1>1, <1>2, <1>3, <1>6 DEF Nested
<1> HIDE DEF f
<1>8. Nested(declared) /\ Len(declared) = Len(r)
  BY <1>1, <1>2, <1>3, <1>6, <1>7, ReplaceNested
<1>9. \A i \in 1..Len(r) : declared[i].uninit = r[i].uninit + (IF i = at THEN c ELSE 0)
  <2>1. \A i \in 1..Len(r) : r[i].uninit \in Nat
    <3>1. \A i \in 1..Len(r) : r[i] \in FrameSet
      BY <1>5
    <3> QED BY <3>1 DEF FrameSet
  <2> QED BY <1>1, <1>2, <1>3, <1>5, <1>6, <2>1
<1> HIDE DEF declared
<1>10. Warned(r, warnings, bare, owed)
  <2>1. Warned(frames, warnings, bare, owed)
    BY DEF IInv, WarnedInv
  <2>2. Len(r) \in Nat /\ (owed = Len(r) => owed = Len(frames) /\ Len(r) >= Len(frames))
    BY <1>1, <1>3
  <2> QED BY <1>1, <1>3, <2>1, <2>2, WarnedCarries
<1>11. Warned(declared, warnings, bare + c, owed)
  <2>1. \A i \in 1..Len(r) : r[i].uninit \in Nat
    <3>1. \A i \in 1..Len(r) : r[i] \in FrameSet
      BY <1>5
    <3> QED BY <3>1 DEF FrameSet
  <2>2. Len(r) \in Nat /\ at \in 1..Len(r)
    BY <1>1, <1>2, <1>3
  <2> QED BY <1>1, <1>2, <1>8, <1>9, <1>10, <2>1, <2>2, WarnedPut
<1>12. Nested(frames') /\ Len(frames') = Len(declared) /\ Carries(declared, frames')
  BY <1>4, <1>8, AdvanceNested
<1>13. Warned(frames', warnings, bare + c, owed)
  <2>1. /\ Len(declared) \in Nat /\ Len(frames') \in Nat /\ bare + c \in Nat
        /\ owed = Len(frames') => owed = Len(declared) /\ Len(frames') >= Len(declared)
    BY <1>1, <1>2, <1>3, <1>8, <1>12
  <2> QED BY <1>1, <1>11, <1>12, <2>1, WarnedCarries
<1>14. WarnedInv'
  BY <1>4, <1>13 DEF WarnedInv
<1>15. /\ 0 \in Nat /\ stmts' \in Nat /\ bare' \in Nat /\ mismatches' \in Nat
       /\ owed' = owed + 0 /\ Len(frames') = Len(frames) + 0
  BY <1>1, <1>2, <1>3, <1>4, <1>8, <1>12
<1> QED BY <1>4, <1>12, <1>14, <1>15, KeptByReport

\* A declaration of a variable is found to be of its own type.
LEMMA VarDeclKept ==
  ASSUME IInv, NEW t \in Types, NEW b \in BOOLEAN, VarDecl(t, b)
  PROVE  Kept
<1>1. TypeEquals(NameType(t), t) = TRUE
  BY OwnType
<1>2. Declaration(TRUE, b)
  BY <1>1 DEF VarDecl, Declaration
<1> QED BY <1>2, DeclarationKept

\* A declaration of a type.
LEMMA TypeDeclKept ==
  ASSUME IInv, TypeDecl
  PROVE  Kept
BY DeclarationKept DEF TypeDecl

\* An initialized declaration, in a function or at the top.
LEMMA VarDeclInitKept ==
  ASSUME IInv, NEW t \in Types, NEW e \in Exprs, VarDeclInit(t, e)
  PROVE  Kept
<1> DEFINE refused == e = Error \/ ~TypeEquals(Base(e), Base(t))
           flawed == e = Error \/ ValueOf(e) # ValueOf(t)
<1>1. refused <=> flawed
  BY InitRefused
<1>2. Simple(Throws(refused), flawed, "other")
  BY DEF VarDeclInit
<1>3. flawed \in BOOLEAN /\ refused \in BOOLEAN
  OBVIOUS
<1> HIDE DEF refused, flawed
<1>4. Throws(refused) \in {"ok", "throws", "reports"} /\ ((Throws(refused) # "ok") <=> flawed)
  BY <1>1 DEF Throws
<1> QED BY <1>2, <1>3, <1>4, SimpleKept

\* An assignment.
LEMMA AssignmentKept ==
  ASSUME IInv, NEW l \in Exprs, NEW r \in Exprs, Assignment(l, r)
  PROVE  Kept
<1> DEFINE refused == \/ Error \in {l, r} \/ l.k # "mut"
                      \/ ~(IF r.k = "mut" THEN TypeEquals(l, r) ELSE TypeEquals(l.t, r))
           flawed == Error \in {l, r} \/ MeaningOf(l).k # "mut" \/ ValueOf(r) # ValueOf(l)
<1>1. refused <=> flawed
  BY AssignmentRefused
<1>2. Simple(Throws(refused), flawed, "other")
  BY DEF Assignment
<1>3. flawed \in BOOLEAN /\ refused \in BOOLEAN
  OBVIOUS
<1> HIDE DEF refused, flawed
<1>4. Throws(refused) \in {"ok", "throws", "reports"} /\ ((Throws(refused) # "ok") <=> flawed)
  BY <1>1 DEF Throws
<1> QED BY <1>2, <1>3, <1>4, SimpleKept

\* A call.
LEMMA FunctionCallStmtKept ==
  ASSUME IInv, NEW e \in Exprs, NEW n \in Nat, FunctionCallStmt(e, n)
  PROVE  Kept
<1> DEFINE refused == e = Error \/ CallRule(e, n) = Error
           flawed == e = Error \/ MeaningOf(e).k # "func" \/ n # 0
<1>1. refused <=> flawed
  BY CallRefused
<1>2. Simple(Throws(refused), flawed, "other")
  BY DEF FunctionCallStmt
<1>3. flawed \in BOOLEAN /\ refused \in BOOLEAN
  OBVIOUS
<1> HIDE DEF refused, flawed
<1>4. Throws(refused) \in {"ok", "throws", "reports"} /\ ((Throws(refused) # "ok") <=> flawed)
  BY <1>1 DEF Throws
<1> QED BY <1>2, <1>3, <1>4, SimpleKept

\* In a function, the walk up the tables ends at it.
LEMMA EnclosingFuncFound ==
  ASSUME IInv, frames # <<>>
  PROVE  EnclosingFunc = frames[1] /\ EnclosingFunc.ret \in Returns
<1> DEFINE I == {i \in 1..Len(frames) : frames[i].k = "func"}
<1>1. Nested(frames) /\ Len(frames) \in Nat
  BY InvFrames
<1>2. DOMAIN frames = 1..Len(frames) /\ Len(frames) >= 1
  BY <1>1 DEF Nested
<1>3. I = {1}
  BY <1>1, <1>2 DEF Nested
<1>4. EnclosingFunc = frames[IF I # {} THEN Max(I) ELSE 0]
  BY DEF EnclosingFunc, SelectLastInSeq
<1>5. I \subseteq 1..Len(frames) /\ I # {}
  BY <1>3
<1> HIDE DEF I
<1>6. Max(I) \in I
  BY <1>1, <1>5, MaxExists
<1>7. EnclosingFunc = frames[1]
  BY <1>3, <1>4, <1>6
<1> QED BY <1>1, <1>7 DEF Nested

\* A return of a value.
LEMMA ReturnStatementKept ==
  ASSUME IInv, frames # <<>>, NEW e \in Exprs, ReturnStatement(e)
  PROVE  Kept
<1> DEFINE ret == EnclosingFunc.ret
           refused == e = Error \/ ~TypeEquals(e, ret)
           flawed == e = Error \/ MeaningOf(e) # MeaningOf(ret)
<1>1. Simple(Reports(refused), flawed, "return")
  BY DEF ReturnStatement
<1>2. ret \in Returns
  BY EnclosingFuncFound
<1> HIDE DEF ret
<1>3. refused <=> flawed
  BY <1>2, ValueRefused
<1>4. flawed \in BOOLEAN /\ refused \in BOOLEAN
  OBVIOUS
<1> HIDE DEF refused, flawed
<1>5. Reports(refused) \in {"ok", "throws", "reports"} /\ ((Reports(refused) # "ok") <=> flawed)
  BY <1>3 DEF Reports
<1> QED BY <1>1, <1>4, <1>5, SimpleKept

\* A return of nothing.
LEMMA VoidReturnKept ==
  ASSUME IInv, frames # <<>>, VoidReturn
  PROVE  Kept
<1> DEFINE ret == EnclosingFunc.ret
           refused == ~TypeEquals(ret, VoidT)
           flawed == MeaningOf(ret) # MeaningOf(VoidT)
<1>1. Simple(Reports(refused), flawed, "other")
  BY DEF VoidReturn
<1>2. ret \in Returns
  BY EnclosingFuncFound
<1> HIDE DEF ret
<1>3. refused <=> flawed
  BY <1>2, ReturnsNothing
<1>4. flawed \in BOOLEAN /\ refused \in BOOLEAN
  OBVIOUS
<1> HIDE DEF refused, flawed
<1>5. Reports(refused) \in {"ok", "throws", "reports"} /\ ((Reports(refused) # "ok") <=> flawed)
  BY <1>3 DEF Reports
<1> QED BY <1>1, <1>4, <1>5, SimpleKept

\* The walk up the tables finds a loop exactly if there is one around.
LEMMA LoopFound ==
  ASSUME IInv
  PROVE  ~InLoop <=> \A i \in DOMAIN frames : frames[i].k \notin {"for", "while"}
<1> DEFINE I == {i \in 1..Len(frames) : frames[i].k \in {"for", "while"}}
<1>1. Nested(frames) /\ Len(frames) \in Nat
  BY InvFrames
<1>2. DOMAIN frames = 1..Len(frames)
  BY <1>1 DEF Nested
<1>3. InLoop <=> (IF I # {} THEN Max(I) ELSE 0) # 0
  BY DEF InLoop, SelectLastInSeq
<1>4. (I = {}) <=> \A i \in DOMAIN frames : frames[i].k \notin {"for", "while"}
  BY <1>2
<1>5. I \subseteq 1..Len(frames)
  OBVIOUS
<1> HIDE DEF I
<1>6. I # {} => Max(I) \in I
  BY <1>1, <1>5, MaxExists
<1>7. I # {} => Max(I) # 0
  BY <1>5, <1>6
<1> QED BY <1>3, <1>4, <1>7

\* break and continue.
LEMMA JumpStmtKept ==
  ASSUME IInv, JumpStmt
  PROVE  Kept
<1> DEFINE refused == ~InLoop
           flawed == \A i \in DOMAIN frames : frames[i].k \notin {"for", "while"}
<1>1. Simple(Reports(refused), flawed, "other")
  BY DEF JumpStmt
<1>2. refused <=> flawed
  BY LoopFound
<1>3. flawed \in BOOLEAN /\ refused \in BOOLEAN
  OBVIOUS
<1> HIDE DEF refused, flawed
<1>4. Reports(refused) \in {"ok", "throws", "reports"} /\ ((Reports(refused) # "ok") <=> flawed)
  BY <1>2 DEF Reports
<1> QED BY <1>1, <1>3, <1>4, SimpleKept

\* The condition of a statement with b blocks to come, of which fs has the
\* frames.
LEMMA ConditionKept ==
  ASSUME IInv, frames # <<>>, NEW e \in Exprs, NEW b \in Nat,
         NEW fs, Nested(fs), Len(fs) = Len(frames) + b,
         Carries(frames, fs), Condition(e, fs), owed' = owed + b,
         UNCHANGED <<warnings, bare, mismatches>>, stmts' \in Nat
  PROVE  Kept
<1> DEFINE n == Count(e = Error \/ MeaningOf(e) # MeaningOf(BoolT))
<1>1. errors' = errors + n /\ flaws' = flaws + n /\ n \in Nat /\ (e = Error => n > 0)
  BY ValueRefused DEF Condition, Count
<1>2. CASE e = Error
  <2> DEFINE r == Running(frames)
  <2>1. frames' = Caught(r)
    BY <1>2 DEF Condition
  <2>2. /\ Nested(r) /\ Len(r) = Len(frames) /\ Carries(frames, r)
        /\ InnermostList(r) = InnermostList(frames)
    BY InvFrames, RanNested DEF Running
  <2> HIDE DEF r
  <2>3. /\ Nested(frames') /\ Len(frames') = InnermostList(frames)
        /\ Len(frames') <= Len(frames) /\ Carries(r, frames')
    BY <2>1, <2>2, CaughtNested
  <2>4. Len(frames') >= InnermostList(frames) /\ Len(frames') \in Nat
    BY <2>3, InvFrames, InnermostListFound
  <2>5. Carries(frames, frames')
    BY <2>2, <2>3, <2>4, InvFrames, CarriesBoth
  <2>6. mismatches' \in Nat
    BY InvFrames
  <2> HIDE DEF n
  <2> QED BY <1>1, <1>2, <2>3, <2>4, <2>5, <2>6, KeptByCarry
<1>3. CASE e # Error
  <2>1. frames' = fs
    BY <1>3 DEF Condition
  <2>2. mismatches' \in Nat
    BY InvFrames
  <2> HIDE DEF n
  <2> QED BY <1>1, <2>1, <2>2, KeptByCarry
<1> QED BY <1>2, <1>3

\* The frames of the statement that is running, before those of its blocks.
LEMMA RunningNested ==
  ASSUME IInv, frames # <<>>
  PROVE  /\ Nested(Running(frames)) /\ Len(Running(frames)) = Len(frames)
         /\ Carries(frames, Running(frames))
         /\ Running(frames) # <<>>
<1> DEFINE r == Running(frames)
<1>1. Nested(r) /\ Len(r) = Len(frames) /\ Carries(frames, r)
  BY InvFrames, RanNested DEF Running
<1> HIDE DEF r
<1>2. frames \in Seq(FrameSet) /\ r \in Seq(FrameSet)
  BY <1>1, InvFrames DEF Nested
<1>3. r # <<>>
  BY <1>1, <1>2
<1> QED BY <1>1, <1>3 DEF r

\* A block follows: the frames are those of the statement and a new one.
LEMMA BlockNested ==
  ASSUME IInv, frames # <<>>, NEW f \in FrameSet, f.k # "func", f.uninit = 0
  PROVE  LET fs == Append(Running(frames), f)
         IN  Nested(fs) /\ Len(fs) = Len(frames) + 1 /\ Carries(frames, fs)
<1> DEFINE r == Running(frames)
           fs == Append(r, f)
<1>1. Nested(r) /\ Len(r) = Len(frames) /\ Carries(frames, r) /\ r # <<>>
  BY RunningNested
<1> HIDE DEF r
<1>2. Nested(fs) /\ Len(fs) = Len(r) + 1 /\ Carries(r, fs)
  BY <1>1, AppendNested
<1> HIDE DEF fs
<1>3. Len(frames) \in Nat /\ Len(r) \in Nat /\ Len(fs) \in Nat
  BY <1>1, <1>2, InvFrames
<1>4. Carries(frames, fs)
  BY <1>1, <1>2, <1>3, CarriesBoth
<1> QED BY <1>1, <1>2, <1>4 DEF fs, r

\* The frame of a block.
LEMMA NewFrame ==
  ASSUME NEW k \in {"if", "else", "while", "for"},
         NEW phase \in {"if", "init", "cond", "update", "list"}
  PROVE  /\ Frame(k, phase) \in FrameSet /\ Frame(k, phase).k # "func"
         /\ Frame(k, phase).uninit = 0
BY DEF Frame, FrameSet

\* if and while.
LEMMA BlockKept ==
  ASSUME IInv, NEW e \in Exprs, NEW k \in {"if", "while"},
         Begin(1) /\ Condition(e, Append(Running(frames), Frame(k, "list")))
  PROVE  Kept
<1> DEFINE fs == Append(Running(frames), Frame(k, "list"))
<1>1. /\ frames # <<>> /\ owed' = owed + 1 /\ UNCHANGED <<warnings, bare, mismatches>>
      /\ stmts' = stmts + 1
  BY DEF Begin
<1>2. Nested(fs) /\ Len(fs) = Len(frames) + 1 /\ Carries(frames, fs)
  BY <1>1, NewFrame, BlockNested
<1>3. stmts' \in Nat
  BY <1>1, InvFrames
<1>4. Condition(e, fs)
  OBVIOUS
<1> HIDE DEF fs
<1> QED BY <1>1, <1>2, <1>3, <1>4, ConditionKept

\* if with an else.
LEMMA IfElseStmtKept ==
  ASSUME IInv, NEW e \in Exprs, IfElseStmt(e)
  PROVE  Kept
<1> DEFINE r == Running(frames)
           els == Frame("else", "if")
           then == Frame("if", "list")
           fs == Append(Append(r, els), then)
<1>1. /\ frames # <<>> /\ owed' = owed + 2 /\ UNCHANGED <<warnings, bare, mismatches>>
      /\ stmts' = stmts + 1
  BY DEF IfElseStmt, Begin
<1>2. Nested(r) /\ Len(r) = Len(frames) /\ r # <<>>
  BY <1>1, RunningNested
<1>3. /\ els \in FrameSet /\ els.k # "func" /\ els.uninit = 0
      /\ then \in FrameSet /\ then.k # "func" /\ then.uninit = 0
  BY NewFrame
<1>4. Condition(e, r \o <<els, then>>)
  BY DEF IfElseStmt
<1>5. /\ Nested(Append(r, els)) /\ Len(Append(r, els)) = Len(frames) + 1
      /\ Carries(frames, Append(r, els))
  <2> HIDE DEF els
  <2> QED BY <1>1, <1>3, BlockNested
<1> HIDE DEF r, els, then
<1>6. Append(r, els) # <<>>
  BY <1>2 DEF Nested
<1>7. Nested(fs) /\ Len(fs) = Len(frames) + 1 + 1 /\ Carries(Append(r, els), fs)
  BY <1>3, <1>5, <1>6, AppendNested
<1>8. r \o <<els, then>> = fs
  BY <1>2, <1>3 DEF Nested
<1>9. Len(fs) = Len(frames) + 2 /\ stmts' \in Nat
  BY <1>1, <1>7, InvFrames
<1> HIDE DEF fs
<1>10. Carries(frames, fs)
  <2>1. Len(frames) \in Nat /\ Len(fs) \in Nat /\ Len(Append(r, els)) \in Nat
        /\ Len(frames) <= Len(Append(r, els))
    BY <1>5, <1>9, InvFrames
  <2> QED BY <1>5, <1>7, <2>1, CarriesBoth
<1> QED BY <1>1, <1>4, <1>7, <1>8, <1>9, <1>10, ConditionKept

\* for, up to its initial statement.
LEMMA ForStmtKept ==
  ASSUME IInv, ForStmt
  PROVE  Kept
<1> DEFINE fs == Append(Running(frames), Frame("for", "init"))
<1>1. /\ frames # <<>> /\ owed' = owed + 1 /\ UNCHANGED <<warnings, bare, mismatches>>
      /\ stmts' = stmts + 1
      /\ frames' = fs /\ UNCHANGED <<errors, flaws>>
  BY DEF ForStmt, Begin
<1>2. Nested(fs) /\ Len(fs) = Len(frames) + 1 /\ Carries(frames, fs)
  BY <1>1, NewFrame, BlockNested
<1> HIDE DEF fs
<1>3. errors' = errors + 0 /\ flaws' = flaws + 0 /\ stmts' \in Nat /\ mismatches' \in Nat
  BY <1>1, InvFrames
<1> QED BY <1>1, <1>2, <1>3, KeptByCarry

\* The condition of a for.
LEMMA ForCondKept ==
  ASSUME IInv, NEW e \in Exprs, ForCond(e)
  PROVE  Kept
<1> DEFINE f == [frames[Len(frames)] EXCEPT !.phase = "update"]
           fs == [frames EXCEPT ![Len(frames)] = f]
<1>1. /\ frames # <<>> /\ Last(frames).phase = "cond"
      /\ Condition(e, fs) /\ UNCHANGED <<warnings, bare, mismatches, owed, stmts>>
  BY DEF ForCond
<1>2. Nested(frames) /\ Len(frames) \in 1..Len(frames)
  BY <1>1, InvFrames DEF Nested
<1>3. frames[Len(frames)] \in FrameSet
  BY <1>2 DEF Nested
<1>4. /\ f \in FrameSet /\ f.k = frames[Len(frames)].k /\ f.ret = frames[Len(frames)].ret
      /\ f.uninit = frames[Len(frames)].uninit
  BY <1>3 DEF FrameSet
<1>5. Len(frames) # 1
  <2>1. frames[Len(frames)].phase = "cond"
    BY <1>1 DEF Last
  <2> QED BY <1>1, <1>2, <2>1 DEF Nested
<1> HIDE DEF f
<1>6. Nested(fs) /\ Len(fs) = Len(frames)
  <2>1. Len(frames) = 1 => f.phase = "list"
    BY <1>5
  <2> QED BY <1>2, <1>4, <2>1, ReplaceNested
<1>8. Carries(frames, fs)
  <2>1. \A i \in 1..Len(frames) : fs[i].uninit = frames[i].uninit
    BY <1>2, <1>4 DEF Nested
  <2> HIDE DEF fs
  <2> QED BY <1>6, <2>1 DEF Carries
<1> HIDE DEF fs
<1>7. Len(fs) = Len(frames) + 0 /\ owed' = owed + 0 /\ stmts' \in Nat /\ 0 \in Nat
  BY <1>1, <1>6, InvFrames
<1> QED BY <1>1, <1>6, <1>7, <1>8, ConditionKept

\* The end of a list, which warns of the symbols of its own table.
LEMMA EndListKept ==
  ASSUME IInv, EndList
  PROVE  Kept
<1> DEFINE n == Unset(frames)
           front == Front(frames)
           fs == Advance(front)
           k == Len(frames) - 1
<1>1. /\ frames # <<>> /\ Last(frames).k # "func"
      /\ warnings' = warnings + n /\ owed' = owed - 1 /\ frames' = fs
      /\ UNCHANGED <<errors, flaws, bare, mismatches, stmts>>
  BY DEF EndList
<1>2. /\ Nested(frames) /\ Len(frames) \in Nat
      /\ errors \in Nat /\ warnings \in Nat /\ flaws \in Nat /\ owed \in Nat /\ stmts \in Nat
      /\ bare \in Nat /\ mismatches \in Nat
  BY InvFrames
<1>3. Len(frames) \in 1..Len(frames) /\ k \in Nat /\ Len(frames) = k + 1
  BY <1>1, <1>2 DEF Nested
<1>4. n \in Nat /\ n = frames[k + 1].uninit
  <2>1. frames[Len(frames)] \in FrameSet
    BY <1>2, <1>3 DEF Nested
  <2> QED BY <1>3, <2>1 DEF Unset, Last, FrameSet
<1>5. /\ Nested(front) /\ Len(front) = k
      /\ \A i \in 1..k : front[i].uninit = frames[i].uninit
  <2>1. Nested(front) /\ Len(front) = Len(frames) - 1
    BY <1>1, <1>2, FrontNested
  <2>2. \A i \in 1..k : front[i] = frames[i]
    BY <1>2, <1>3 DEF Front, Nested
  <2> QED BY <1>3, <2>1, <2>2
<1> HIDE DEF n, front
<1>6. Nested(fs) /\ Len(fs) = k /\ Carries(front, fs)
  BY <1>5, AdvanceNested
<1> HIDE DEF fs, k
<1>7. OwedInv'
  BY <1>1, <1>2, <1>3, <1>6 DEF IInv, OwedInv
<1>8. owed' \in Nat /\ owed >= k + 1
  BY <1>1, <1>2, <1>3 DEF IInv, OwedInv
<1>9. TypeOK'
  BY <1>1, <1>2, <1>4, <1>6, <1>8, TypeOKNestedNext
<1>10. ReportedOnce'
  BY <1>1, <1>2, <1>4 DEF IInv, ReportedOnce
<1>11. Warned(front, warnings + n, bare, owed - 1)
  <2>1. Warned(frames, warnings, bare, owed)
    BY DEF IInv, WarnedInv
  <2> QED BY <1>2, <1>3, <1>4, <1>5, <1>8, <2>1, WarnedEnd
<1>12. Warned(fs, warnings + n, bare, owed - 1)
  <2>1. warnings + n \in Nat /\ owed - 1 \in Nat /\ Len(front) \in Nat /\ Len(fs) \in Nat
    BY <1>1, <1>2, <1>3, <1>4, <1>5, <1>6, <1>8
  <2>2. owed - 1 = Len(fs) => owed - 1 = Len(front) /\ Len(fs) >= Len(front)
    BY <1>3, <1>5, <1>6
  <2> QED BY <1>2, <1>6, <1>11, <2>1, <2>2, WarnedCarries
<1>13. WarnedInv'
  BY <1>1, <1>12 DEF WarnedInv
<1> QED BY <1>1, <1>2, <1>7, <1>9, <1>10, <1>13 DEF Kept, IInv

\* The beginning of a function.
LEMMA FuncDeclKept ==
  ASSUME IInv, NEW t \in Returns, NEW d \in Returns, FuncDecl(t, d)
  PROVE  Kept
<1> DEFINE f == [Frame("func", "list") EXCEPT !.ret = t]
           c == Count(MeaningOf(d) # MeaningOf(t))
<1>1. /\ frames = <<>> /\ frames' = <<f>> /\ owed' = owed + 1 /\ stmts' = stmts + 1
      /\ mismatches' = mismatches + c
      /\ UNCHANGED <<errors, warnings, flaws, bare>>
  BY DEF FuncDecl
<1>2. f \in FrameSet /\ f.k = "func" /\ f.phase = "list" /\ f.ret = t /\ f.uninit = 0
  BY DEF Frame, FrameSet
<1>3. c \in Nat
  BY DEF Count
<1> HIDE DEF f, c
<1>4. <<f>> \in Seq(FrameSet) /\ Len(<<f>>) = 1 /\ <<f>>[1] = f /\ DOMAIN <<f>> = 1..1
  BY <1>2
<1>5. Nested(frames')
  BY <1>1, <1>2, <1>4 DEF Nested
<1>6. Len(frames) = 0
  BY <1>1
<1>7. Carries(frames, frames')
  BY <1>1, <1>2, <1>4, <1>6 DEF Carries
<1>8. /\ errors' = errors + 0 /\ flaws' = flaws + 0 /\ stmts' \in Nat
      /\ Len(frames') = Len(frames) + 1 /\ mismatches' \in Nat
  BY <1>1, <1>3, <1>4, <1>6, InvFrames
<1> QED BY <1>1, <1>5, <1>7, <1>8, KeptByCarry

\* The end of a function keeps the invariant; it leaves the program's list.
LEMMA EndFuncKept ==
  ASSUME IInv, EndFunc
  PROVE  IInv'
<1> DEFINE f == frames[1]
           u == Unset(frames)
           refused == (~TypeEquals(f.ret, PleaseT) /\ ~TypeEquals(f.ret, VoidT)) /\ f.last # "return"
           flawed == MeaningOf(f.ret) \notin {MeaningOf(PleaseT), MeaningOf(VoidT)} /\ f.last # "return"
<1>1. /\ Nested(frames) /\ Len(frames) = 1
      /\ errors \in Nat /\ warnings \in Nat /\ flaws \in Nat /\ owed \in Nat /\ stmts \in Nat
      /\ bare \in Nat /\ mismatches \in Nat
  BY InvFrames DEF EndFunc
<1>2. f \in FrameSet /\ f.ret \in Returns
  <2>1. 1 \in 1..Len(frames) /\ frames # <<>>
    BY <1>1
  <2> QED BY <1>1, <2>1 DEF Nested
<1>3. u \in Nat /\ u = frames[0 + 1].uninit
  BY <1>1, <1>2 DEF Unset, Last, FrameSet
<1>4. errors' = errors + Count(refused) /\ flaws' = flaws + Count(flawed)
  BY DEF EndFunc
<1>5. /\ warnings' = warnings + u /\ owed' = owed - 1 /\ frames' = <<>>
      /\ UNCHANGED <<bare, mismatches, stmts>>
  BY DEF EndFunc
<1>6. refused <=> flawed
  BY <1>2, ReturnsNothing
<1> HIDE DEF refused, flawed, u, f
<1>7. Count(refused) = Count(flawed) /\ Count(flawed) \in Nat
  BY <1>6 DEF Count
<1>8. Nested(frames') /\ Len(frames') = 0
  BY <1>5 DEF Nested
<1>9. owed >= 1 /\ (errors = 0 => owed = 1)
  BY <1>1 DEF IInv, OwedInv
<1>10. errors' \in Nat /\ flaws' \in Nat /\ warnings' \in Nat /\ errors' >= errors
  <2>1. warnings' \in Nat
    BY <1>1, <1>3, <1>5
  <2> DEFINE m == Count(flawed)
  <2>2. errors' = errors + m /\ flaws' = flaws + m /\ m \in Nat
    BY <1>4, <1>7
  <2> HIDE DEF m
  <2> QED BY <1>1, <2>1, <2>2
<1>11. TypeOK'
  BY <1>1, <1>5, <1>8, <1>9, <1>10, TypeOKNestedNext
<1>12. OwedInv'
  BY <1>1, <1>5, <1>8, <1>9, <1>10 DEF OwedInv
<1>13. ReportedOnce'
  BY <1>1, <1>4, <1>7 DEF IInv, ReportedOnce
<1>14. WarnedInv'
  <2>1. Warned(frames, warnings, bare, owed)
    BY DEF IInv, WarnedInv
  <2>2. Warned(frames', warnings + u, bare, owed - 1)
    <3>1. Len(frames) = 0 + 1 /\ owed >= 0 + 1
      BY <1>1, <1>9
    <3>2. \A i \in 1..0 : frames'[i].uninit = frames[i].uninit
      OBVIOUS
    <3>3. frames[0 + 1].uninit \in Nat /\ 0 \in Nat
      BY <1>3
    <3>4. Warned(frames', warnings + frames[0 + 1].uninit, bare, owed - 1)
      BY <1>1, <1>8, <2>1, <3>1, <3>2, <3>3, WarnedEnd
    <3> QED BY <1>3, <3>4
  <2> QED BY <1>5, <2>2 DEF WarnedInv
<1> QED BY <1>11, <1>12, <1>13, <1>14 DEF IInv

-----------------------------------------------------------------------------
(* The theorems.                                                           *)

\* Before the first node of the program, nothing is owed and reported.
LEMMA InitIInv == Init => IInv
<1> SUFFICES ASSUME Init PROVE IInv
  OBVIOUS
<1>1. Nested(frames) /\ Len(frames) = 0
  BY DEF Init, Nested
<1>2. WarnedInv
  <2> DEFINE acc == [i \in 0..0 |-> 0]
  <2>1. acc \in [0..Len(frames) -> Nat] /\ Sums(acc, frames)
    BY <1>1 DEF Sums
  <2>2. acc[Len(frames)] = 0
    BY <1>1
  <2> HIDE DEF acc
  <2> QED BY <1>1, <2>1, <2>2 DEF Init, WarnedInv, Warned
<1> QED BY <1>1, <1>2, TypeOKNested DEF Init, IInv, ReportedOnce, OwedInv

\* Every step keeps IInv, and only the end of a function leaves a list of
\* statements with an error.
LEMMA StepKept ==
  ASSUME IInv, [Next]_vars
  PROVE  IInv' /\ ((errors' > errors /\ ~EndFunc) => Len(frames') >= InnermostList(frames))
<1> DEFINE Goal == IInv' /\ ((errors' > errors /\ ~EndFunc) => Len(frames') >= InnermostList(frames))
<1>1. Kept => Goal
  BY DEF Kept
<1>2. CASE UNCHANGED vars
  <2>1. UNCHANGED <<frames, errors, warnings, flaws, bare, mismatches, owed, stmts>>
    BY <1>2 DEF vars
  <2>2. TypeOK' /\ ReportedOnce' /\ OwedInv'
    BY <2>1 DEF IInv, TypeOK, ReportedOnce, OwedInv
  <2>3. Warned(frames', warnings', bare', owed')
    BY <2>1 DEF IInv, WarnedInv
  <2>4. IInv'
    BY <2>2, <2>3 DEF IInv, WarnedInv
  <2> QED BY <2>1, <2>4, InvFrames
<1>3. CASE EndFunc
  BY <1>3, EndFuncKept
<1>4. CASE Next /\ ~EndFunc
  <2>1. ASSUME NEW t \in Types, NEW b \in BOOLEAN, VarDecl(t, b) PROVE Kept
    BY <2>1, VarDeclKept
  <2>2. ASSUME NEW t \in Types, NEW e \in Exprs, VarDeclInit(t, e) PROVE Kept
    BY <2>2, VarDeclInitKept
  <2>3. ASSUME NEW l \in Exprs, NEW r \in Exprs, InFunc, Assignment(l, r) PROVE Kept
    BY <2>3, AssignmentKept
  <2>4. ASSUME NEW e \in Exprs, NEW n \in 0..1, InFunc, FunctionCallStmt(e, n) PROVE Kept
    BY <2>4, FunctionCallStmtKept
  <2>5. ASSUME NEW e \in Exprs, InFunc, ReturnStatement(e) PROVE Kept
    BY <2>5, ReturnStatementKept DEF InFunc
  <2>6. ASSUME InFunc, VoidReturn PROVE Kept
    BY <2>6, VoidReturnKept DEF InFunc
  <2>7. ASSUME InFunc, JumpStmt PROVE Kept
    BY <2>7, JumpStmtKept
  <2>8. ASSUME NEW e \in Exprs, IfStmt(e) \/ WhileStmt(e) PROVE Kept
    BY <2>8, BlockKept DEF IfStmt, WhileStmt
  <2>9. ASSUME NEW e \in Exprs, IfElseStmt(e) PROVE Kept
    BY <2>9, IfElseStmtKept
  <2>10. ASSUME NEW e \in Exprs, ForCond(e) PROVE Kept
    BY <2>10, ForCondKept
  <2>11. ASSUME NEW t \in Returns, NEW d \in Returns, FuncDecl(t, d) PROVE Kept
    BY <2>11, FuncDeclKept
  <2>12. TypeDecl \/ ForStmt \/ EndList => Kept
    BY TypeDeclKept, ForStmtKept, EndListKept
  <2>13. Kept
    BY <1>4, <2>1, <2>2, <2>3, <2>4, <2>5, <2>6, <2>7, <2>8, <2>9, <2>10, <2>11, <2>12 DEF Next
  <2> QED BY <1>1, <2>13
<1> QED BY <1>2, <1>3, <1>4

\* The invariant holds in every state of the walk.
THEOREM Invariant == Spec => []IInv
<1>1. Init => IInv
  BY InitIInv
<1>2. IInv /\ [Next]_vars => IInv'
  BY StepKept
<1> QED BY <1>1, <1>2, PTL DEF Spec

\* The frames are always nested handlers of one function, and the counters
\* are counts: no block is walked that was not owed.
THEOREM TypeCorrect == Spec => []TypeOK
<1>1. IInv => TypeOK
  BY DEF IInv
<1> QED BY <1>1, Invariant, PTL

\* The report has exactly one error for everything that the handlers should
\* find wrong with what was checked, however deep they nest and whichever of
\* them throw. What they never look at, the forward declarations, is not
\* part of it.
THEOREM ReportIsExact == Spec => []ReportedOnce
<1>1. IInv => ReportedOnce
  BY DEF IInv
<1> QED BY <1>1, Invariant, PTL

\* No symbol is warned of twice or for another's sake, and where every block
\* was walked each symbol that nothing initializes has been warned of.
THEOREM WarningsAreExact == Spec => []WarnedOnce
<1>1. IInv => WarnedOnce
  <2> SUFFICES ASSUME IInv PROVE WarnedOnce
    OBVIOUS
  <2>1. Len(frames) \in Nat /\ warnings \in Nat /\ bare \in Nat
    BY InvFrames
  <2>2. PICK acc \in [0..Len(frames) -> Nat] :
          /\ Sums(acc, frames)
          /\ warnings + acc[Len(frames)] <= bare
          /\ owed = Len(frames) => warnings + acc[Len(frames)] = bare
    BY DEF IInv, WarnedInv, Warned
  <2>3. acc[Len(frames)] \in Nat
    BY <2>1
  <2>4. warnings <= bare
    BY <2>1, <2>2, <2>3
  <2>5. ASSUME frames = <<>>, owed = 0 PROVE warnings = bare
    <3>1. Len(frames) = 0
      BY <2>5
    <3>2. acc[0] = 0
      BY <2>2 DEF Sums
    <3>3. warnings + acc[Len(frames)] = bare
      BY <2>2, <2>5, <3>1
    <3> QED BY <2>1, <3>1, <3>2, <3>3
  <2> QED BY <2>4, <2>5 DEF WarnedOnce
<1> QED BY <1>1, Invariant, PTL

\* A program in whose report there is no error has been walked to its last
\* block.
THEOREM CleanIsChecked == Spec => []NothingUnchecked
<1>1. IInv => NothingUnchecked
  <2> SUFFICES ASSUME IInv, frames = <<>>, owed > 0 PROVE errors > 0
    BY DEF NothingUnchecked
  <2>1. Len(frames) = 0
    OBVIOUS
  <2> QED BY <2>1, InvFrames DEF IInv, OwedInv
<1> QED BY <1>1, Invariant, PTL

\* No error leaves a list of statements before its end: what is thrown is
\* caught by the innermost one.
THEOREM ErrorsAreContained == Spec => Contained
<1>1. IInv /\ [Next]_vars
        => [(errors' > errors /\ ~EndFunc) => Len(frames') >= InnermostList(frames)]_vars
  BY StepKept
<1> QED BY <1>1, Invariant, PTL DEF Spec, Contained

=============================================================================
