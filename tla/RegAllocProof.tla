---------------------------- MODULE RegAllocProof ----------------------------
(***************************************************************************)
(* Proofs about RegAlloc for any number of registers and names: no value   *)
(* is lost however often registers are spilled and reused, a name is in    *)
(* one register (and perhaps rax), the operands of an instruction are in   *)
(* registers together, and the recorded size of the frame is right.        *)
(*                                                                         *)
(* Each operation of AsmState is shown once to keep a state fine, to lose  *)
(* no name and to bring none but its own into a register; the handlers     *)
(* are compositions of them.                                               *)
(***************************************************************************)
EXTENDS RegAlloc, Recursion, TLAPS

-----------------------------------------------------------------------------
(* Least and greatest elements.                                            *)

\* A set of registers that is not empty has a least element.
LEMMA LeastIn ==
  ASSUME NEW S, S \subseteq Nat, S # {}
  PROVE  Least(S) \in S
BY HasLeast DEF Least

\* A set of registers that is not empty has a greatest element.
LEMMA GreatestIn ==
  ASSUME NEW S, S \subseteq Reg, S # {}
  PROVE  Greatest(S) \in S
<1>1. S \subseteq 0..NumRegs /\ NumRegs \in Nat
  BY SizesAssumption DEF Reg
<1>2. PICK r \in S : \A x \in S : x <= r
  BY <1>1, HasGreatest
<1> QED BY <1>2 DEF Greatest

-----------------------------------------------------------------------------
(* Operations of AsmState.                                                 *)

Sized(s) == s.stack_offset = Word * Len(s.stack)

\* Only rax shares a name with another register, and that one of `twice`.
Distinct(s, twice) ==
    \A i, j \in Reg :
        /\ s.used[i] /\ s.used[j] /\ i # j
        /\ s.var[i] = s.var[j] /\ s.var[i] # NoName
        => Rax \in {i, j} /\ s.var[i] \in twice

Fine(s, twice) == s \in AsmState /\ Sized(s) /\ Distinct(s, twice)

\* From s to n no name is lost, and no register but r has changed hands.
Keeps(s, n, r) ==
    /\ \A v \in Name : Found(s, v) => Found(n, v)
    /\ \A i \in Reg \ {r} : n.used[i] = s.used[i] /\ n.var[i] = s.var[i]

\* rax is a register and the index -1 is none.
LEMMA RegFacts == Rax \in Reg /\ NoReg \notin Reg /\ Reg \subseteq Nat
BY SizesAssumption DEF Rax, Reg, NoReg

\* What spilling a register changes.
LEMMA SpillFields ==
  ASSUME NEW s \in AsmState, NEW r \in Reg
  PROVE  /\ Spill(s, r) \in AsmState
         /\ Spill(s, r).used = [s.used EXCEPT ![r] = FALSE]
         /\ Spill(s, r).var = s.var
         /\ Spill(s, r).stack = Append(s.stack, s.var[r])
         /\ Spill(s, r).stack_offset = s.stack_offset + Word
         /\ Spill(s, r).reg_roulette = s.reg_roulette
<1>1. /\ s.used \in [Reg -> BOOLEAN] /\ s.var \in [Reg -> Name]
      /\ s.stack \in Seq(Name) /\ s.stack_offset \in Nat
      /\ s.reg_roulette \in Reg
  BY DEF AsmState
<1>2. s.var[r] \in Name /\ Append(s.stack, s.var[r]) \in Seq(Name)
  BY <1>1
<1>3. Spill(s, r).used = [s.used EXCEPT ![r] = FALSE]
  BY DEF Spill, AsmState
<1>4. Spill(s, r).var = s.var
  BY DEF Spill, AsmState
<1>5. Spill(s, r).stack = Append(s.stack, s.var[r])
  BY DEF Spill, AsmState
<1>6. Spill(s, r).stack_offset = s.stack_offset + Word
  BY DEF Spill, AsmState
<1>7. Spill(s, r).reg_roulette = s.reg_roulette
  BY DEF Spill, AsmState
<1>8. Spill(s, r) \in AsmState
  <2>1. [s.used EXCEPT ![r] = FALSE] \in [Reg -> BOOLEAN] /\ s.stack_offset + Word \in Nat
    BY <1>1 DEF Word
  <2> QED BY <1>1, <1>2, <2>1 DEF Spill, AsmState
<1> QED BY <1>3, <1>4, <1>5, <1>6, <1>7, <1>8

\* A spilled register is free and its name is on the stack.
LEMMA SpillFine ==
  ASSUME NEW twice, NEW s, Fine(s, twice), NEW r \in Reg
  PROVE  /\ Fine(Spill(s, r), twice) /\ Keeps(s, Spill(s, r), r)
         /\ ~Spill(s, r).used[r]
<1> DEFINE n == Spill(s, r)
<1> USE RegFacts DEF Fine
<1>1. /\ n \in AsmState
      /\ n.used = [s.used EXCEPT ![r] = FALSE]
      /\ n.var = s.var
      /\ n.stack = Append(s.stack, s.var[r])
      /\ n.stack_offset = s.stack_offset + Word
  BY SpillFields
<1>2. /\ s.used \in [Reg -> BOOLEAN] /\ s.var \in [Reg -> Name]
      /\ s.stack \in Seq(Name) /\ s.stack_offset \in Nat
  BY DEF AsmState
<1> HIDE DEF n
<1>3. Sized(n)
  BY <1>1, <1>2 DEF Sized, Word
<1>4. Distinct(n, twice)
  BY <1>1, <1>2 DEF Distinct
<1>5. ASSUME NEW v \in Name, Found(s, v) PROVE Found(n, v)
  <2>1. CASE OnStack(s, v) # {}
    <3>1. PICK i \in 1..Len(s.stack) : s.stack[i] = v
      BY <2>1 DEF OnStack
    <3>2. i \in 1..Len(n.stack) /\ n.stack[i] = v
      BY <1>1, <1>2, <3>1
    <3> QED BY <3>2 DEF Found, OnStack
  <2>2. ASSUME NEW i \in InReg(s, v), i # r PROVE Found(n, v)
    BY <1>1, <1>2, <2>2 DEF Found, InReg
  <2>3. CASE r \in InReg(s, v)
    <3>1. Len(n.stack) \in 1..Len(n.stack) /\ n.stack[Len(n.stack)] = v
      BY <1>1, <1>2, <2>3 DEF InReg
    <3> QED BY <3>1 DEF Found, OnStack
  <2> QED BY <1>5, <2>1, <2>2, <2>3 DEF Found
<1>6. \A i \in Reg \ {r} : n.used[i] = s.used[i] /\ n.var[i] = s.var[i]
  BY <1>1, <1>2
<1>7. ~n.used[r]
  BY <1>1, <1>2
<1>8. Keeps(s, n, r)
  BY <1>5, <1>6 DEF Keeps
<1> QED BY <1>1, <1>3, <1>4, <1>7, <1>8 DEF n

\* clear_reg: the register is free afterwards.
LEMMA ClearFine ==
  ASSUME NEW twice, NEW s, Fine(s, twice), NEW r \in Reg
  PROVE  /\ Fine(ClearReg(s, r), twice) /\ Keeps(s, ClearReg(s, r), r)
         /\ ~ClearReg(s, r).used[r]
BY SpillFine DEF ClearReg, Keeps

\* What giving a register a name changes.
LEMMA HoldFields ==
  ASSUME NEW s \in AsmState, NEW r \in Reg, NEW v \in Name
  PROVE  /\ Hold(s, r, v) \in AsmState
         /\ Hold(s, r, v).used = [s.used EXCEPT ![r] = TRUE]
         /\ Hold(s, r, v).var = [s.var EXCEPT ![r] = v]
         /\ Hold(s, r, v).stack = s.stack
         /\ Hold(s, r, v).stack_offset = s.stack_offset
         /\ Hold(s, r, v).reg_roulette = s.reg_roulette
<1>1. Hold(s, r, v).used = [s.used EXCEPT ![r] = TRUE]
  BY DEF Hold, AsmState
<1>2. Hold(s, r, v).var = [s.var EXCEPT ![r] = v]
  BY DEF Hold, AsmState
<1>3. /\ Hold(s, r, v).stack = s.stack
      /\ Hold(s, r, v).stack_offset = s.stack_offset
      /\ Hold(s, r, v).reg_roulette = s.reg_roulette
  BY DEF Hold, AsmState
<1>4. Hold(s, r, v) \in AsmState
  <2>1. /\ [s.used EXCEPT ![r] = TRUE] \in [Reg -> BOOLEAN]
        /\ [s.var EXCEPT ![r] = v] \in [Reg -> Name]
    BY DEF AsmState
  <2> QED BY <2>1 DEF Hold, AsmState
<1> QED BY <1>1, <1>2, <1>3, <1>4

\* Putting v into a register that is free, or has it already, loses nothing; and
\* unless v is in a register that is neither r nor rax, every name stays in one
\* place of those that count.
LEMMA HoldFine ==
  ASSUME NEW twice, NEW s, Fine(s, twice), NEW r \in Reg, NEW v \in Name,
         ~s.used[r] \/ s.var[r] = v,
         \/ v = NoName \/ InReg(s, v) \subseteq {r}
         \/ v \in twice /\ (r = Rax \/ InReg(s, v) \subseteq {r, Rax})
  PROVE  /\ Fine(Hold(s, r, v), twice) /\ Keeps(s, Hold(s, r, v), r)
         /\ Hold(s, r, v).used[r] /\ Hold(s, r, v).var[r] = v
<1> DEFINE n == Hold(s, r, v)
<1> USE RegFacts DEF Fine
<1>1. /\ n \in AsmState
      /\ n.used = [s.used EXCEPT ![r] = TRUE]
      /\ n.var = [s.var EXCEPT ![r] = v]
      /\ n.stack = s.stack
      /\ n.stack_offset = s.stack_offset
  BY HoldFields
<1>2. s.used \in [Reg -> BOOLEAN] /\ s.var \in [Reg -> Name]
  BY DEF AsmState
<1> HIDE DEF n
<1>3. /\ n.used[r] /\ n.var[r] = v
      /\ \A i \in Reg \ {r} : n.used[i] = s.used[i] /\ n.var[i] = s.var[i]
  BY <1>1, <1>2
<1>4. Sized(n)
  BY <1>1 DEF Sized
<1>5. Distinct(n, twice)
  <2>1. SUFFICES ASSUME NEW i \in Reg, NEW j \in Reg, n.used[i], n.used[j], i # j,
                        n.var[i] = n.var[j], n.var[i] # NoName
                 PROVE  Rax \in {i, j} /\ n.var[i] \in twice
    BY DEF Distinct
  <2>2. CASE i # r /\ j # r
    BY <1>3, <2>1, <2>2 DEF Distinct
  <2>3. CASE i = r
    BY <1>3, <2>1, <2>3 DEF InReg
  <2>4. CASE j = r
    BY <1>3, <2>1, <2>4 DEF InReg
  <2> QED BY <2>2, <2>3, <2>4
<1>6. ASSUME NEW w \in Name, Found(s, w) PROVE Found(n, w)
  <2>1. CASE OnStack(s, w) # {}
    BY <1>1, <2>1 DEF Found, OnStack
  <2>2. ASSUME NEW i \in InReg(s, w) PROVE Found(n, w)
    <3>1. i \in Reg /\ s.used[i] /\ s.var[i] = w
      BY <2>2 DEF InReg
    <3>2. n.used[i] /\ n.var[i] = w
      BY <1>3, <3>1
    <3> QED BY <3>1, <3>2 DEF Found, InReg
  <2> QED BY <1>6, <2>1, <2>2 DEF Found
<1>7. Keeps(s, n, r)
  BY <1>3, <1>6 DEF Keeps
<1> QED BY <1>1, <1>3, <1>4, <1>5, <1>7 DEF n

\* What free_reg returns, if it is a register, is free, and nothing is lost.
LEMMA FreeRegFine ==
  ASSUME NEW twice, NEW s, Fine(s, twice), FreedReg(s) # NoReg
  PROVE  /\ FreedReg(s) \in Reg
         /\ Fine(FreeReg(s), twice) /\ Keeps(s, FreeReg(s), FreedReg(s))
         /\ ~FreeReg(s).used[FreedReg(s)]
<1> USE RegFacts DEF Fine
<1>1. CASE Unused(s) # {}
  <2>1. Least(Unused(s)) \in Unused(s)
    BY <1>1, LeastIn DEF Unused
  <2> QED BY <1>1, <2>1 DEF FreedReg, FreeReg, Unused, Keeps
<1>2. CASE Unused(s) = {}
  <2> DEFINE r == s.reg_roulette
             m == Spill(s, r)
             n == [m EXCEPT !.reg_roulette = (@ + 1) % NumRegs]
  <2>1. r \in Reg
    BY DEF AsmState
  <2>2. (r + 1) % NumRegs \in Reg /\ FreedReg(s) = r
    <3>1. CASE r + 1 = NumRegs
      <4>1. (r + 1) % NumRegs = 0
        BY <3>1, SizesAssumption
      <4> QED BY <1>2, <4>1 DEF FreedReg, NoReg
    <3>2. CASE r + 1 # NumRegs
      <4>1. r + 1 \in 0..(NumRegs - 1)
        BY <2>1, <3>2, SizesAssumption DEF Reg
      <4>2. (r + 1) % NumRegs = r + 1
        BY <4>1, SizesAssumption
      <4> QED BY <1>2, <2>1, <4>1, <4>2 DEF FreedReg, Reg
    <3> QED BY <3>1, <3>2
  <2>3. Fine(m, twice) /\ Keeps(s, m, r) /\ ~m.used[r] /\ m.reg_roulette = r
    BY <2>1, SpillFine, SpillFields
  <2> HIDE DEF r, m
  <2>4. n.used = m.used /\ n.var = m.var /\ n.stack = m.stack /\ n.stack_offset = m.stack_offset
    BY <2>3 DEF AsmState
  <2>5. n \in AsmState
    BY <2>2, <2>3 DEF AsmState
  <2>6. Sized(n) /\ Distinct(n, twice)
    BY <2>3, <2>4 DEF Sized, Distinct
  <2>7. Keeps(s, n, r)
    BY <2>3, <2>4 DEF Keeps, Found, InReg, OnStack
  <2>8. FreeReg(s) = n
    BY <1>2 DEF FreeReg, n, m, r
  <2> QED BY <2>1, <2>2, <2>3, <2>4, <2>5, <2>6, <2>7, <2>8
<1> QED BY <1>1, <1>2

\* move_into_reg, if it gets a register, leaves v in it and disturbs no other.
LEMMA LoadFine ==
  ASSUME NEW twice, NEW s, Fine(s, twice), NEW v \in Name, NEW first \in Nat, CanLoad(s, v, first)
  PROVE  /\ LoadReg(s, v, first) \in Reg
         /\ LoadReg(s, v, first) \in InReg(s, v) \/ first <= LoadReg(s, v, first)
         /\ Fine(Load(s, v, first), twice)
         /\ Keeps(s, Load(s, v, first), LoadReg(s, v, first))
         /\ LoadReg(s, v, first) \in InReg(Load(s, v, first), v)
         /\ LoadReg(s, v, first) \in InReg(s, v) \/ ~s.used[LoadReg(s, v, first)]
<1> DEFINE r == LoadReg(s, v, first)
           free == {i \in Unused(s) : first <= i}
<1> USE RegFacts DEF Fine
<1>1. \/ r \in InReg(s, v)
      \/ r \in free /\ InReg(s, v) = {}
  <2>1. CASE InReg(s, v) # {}
    BY <2>1, LeastIn DEF LoadReg, InReg
  <2>2. CASE InReg(s, v) = {}
    <3>1. free # {} /\ r = Greatest(free)
      BY <2>2 DEF CanLoad, LoadReg
    <3>2. free \subseteq Reg
      BY DEF Unused
    <3> QED BY <2>2, <3>1, <3>2, GreatestIn
  <2> QED BY <2>1, <2>2
<1>2. r \in Reg /\ (r \in InReg(s, v) \/ first <= r) /\ (~s.used[r] \/ s.var[r] = v)
  BY <1>1 DEF InReg, Unused
<1>3. \/ v = NoName \/ InReg(s, v) \subseteq {r}
      \/ v \in twice /\ (r = Rax \/ InReg(s, v) \subseteq {r, Rax})
  <2>1. ASSUME v # NoName, NEW i \in InReg(s, v), i # r
        PROVE  Rax \in {i, r} /\ v \in twice
    <3>1. /\ s.used[i] /\ s.used[r] /\ s.var[i] = s.var[r] /\ s.var[i] # NoName /\ i \in Reg
          /\ s.var[i] = v
      BY <1>1, <2>1 DEF InReg
    <3> QED BY <1>2, <2>1, <3>1 DEF Distinct
  <2> QED BY <2>1
<1> HIDE DEF r
<1>4. /\ Fine(Hold(s, r, v), twice) /\ Keeps(s, Hold(s, r, v), r)
      /\ Hold(s, r, v).used[r] /\ Hold(s, r, v).var[r] = v
  BY <1>2, <1>3, HoldFine
<1>5. Load(s, v, first) = Hold(s, r, v)
  BY DEF Load, r
<1>6. r \in InReg(Hold(s, r, v), v)
  BY <1>2, <1>4 DEF InReg
<1>7. r \in InReg(s, v) \/ ~s.used[r]
  BY <1>1 DEF Unused
<1> QED BY <1>2, <1>4, <1>5, <1>6, <1>7 DEF r

-----------------------------------------------------------------------------
(* The inductive invariant.  A temporary is in no register before the       *)
(* instruction that defines it: were it in one, claiming a register for it  *)
(* would leave it in two.                                                   *)

\* The names that rax can have along with another register.
Twice == Temps \cup returned

\* The names that no register may have.
Gone == Fresh \cup (deleted \ returned)

Unheld == \A t \in Gone : InReg(asm, t) = {}

IInv == TypeOK /\ Fine(asm, Twice) /\ NothingLost /\ OperandsTogether /\ Unheld

\* Operands are names, and no temporary that is to come.
LEMMA OperandFacts ==
  ASSUME IInv
  PROVE  /\ Operand \subseteq Name
         /\ Operand \cap Gone = {}
         /\ Gone \subseteq Name /\ NoName \notin Gone
         /\ Fresh \subseteq Gone
BY NamesAssumption DEF IInv, TypeOK, Operand, Fresh, Gone, Name

\* The invariant holds of the allocator's first state.
LEMMA InitIInv == Init => IInv
<1> SUFFICES ASSUME Init PROVE IInv
  OBVIOUS
<1> USE RegFacts DEF Init
<1>1. /\ asm.used \in [Reg -> BOOLEAN] /\ asm.var \in [Reg -> {NoName}]
      /\ asm.stack = << >> /\ asm.stack_offset = 0 /\ asm.reg_roulette = 0
  OBVIOUS
<1>2. asm \in AsmState
  <2>1. asm.var \in [Reg -> Name] /\ asm.stack \in Seq(Name)
    BY <1>1 DEF Name
  <2> QED BY <1>1, <2>1 DEF AsmState, Rax
<1>3. TypeOK
  BY <1>2 DEF TypeOK, Status
<1>4. Fine(asm, Twice)
  BY <1>1, <1>2 DEF Fine, Sized, Distinct, Word
<1>5. Unheld
  BY <1>1, NamesAssumption DEF Unheld, InReg, Fresh, Gone
<1> QED BY <1>3, <1>4, <1>5 DEF IInv, NothingLost, OperandsTogether

\* What is to be shown of the state n that a handler leaves.
LEMMA BecomesIInv ==
  ASSUME IInv, NEW n, NEW names, Becomes(n, names), Fine(n, Twice'), names \subseteq Name,
         defined' \subseteq Temps \cup Locals, deleted' \subseteq Locals,
         returned' \subseteq Locals, returned \subseteq returned',
         \A v \in defined' \ deleted' : Found(n, v),
         \A v \in names : InReg(n, v) # {},
         \A t \in Gone' : InReg(n, t) = {}
  PROVE  IInv'
<1>1. asm' = n /\ operands' = names /\ status' = status
  BY DEF Becomes
<1>2. Fine(asm, Twice)'
  BY <1>1 DEF Fine, Sized, Distinct
<1>3. TypeOK'
  BY <1>1 DEF IInv, TypeOK, Fine
<1>4. NothingLost'
  BY <1>1 DEF NothingLost, Found, InReg, OnStack
<1>5. OperandsTogether'
  BY <1>1 DEF OperandsTogether, InReg
<1>6. Unheld'
  BY <1>1 DEF Unheld, InReg
<1> QED BY <1>2, <1>3, <1>4, <1>5, <1>6 DEF IInv

\* A handler that stops the program changes nothing else and keeps the invariant.
LEMMA StopsIInv ==
  ASSUME IInv, NEW outcome \in Status, Stops(outcome)
  PROVE  IInv'
BY DEF IInv, TypeOK, Stops, Fine, Sized, Distinct, NothingLost, Found, InReg,
       OnStack, OperandsTogether, Unheld, Fresh, Gone, Twice

\* A load that finds no register, or no value, keeps the invariant.
LEMMA StopsLoadingIInv ==
  ASSUME IInv, NEW s, NEW v, NEW first, StopsLoading(s, v, first)
  PROVE  IInv'
BY StopsIInv DEF StopsLoading, Status

\* An operand cannot be a temporary that is to come.
LEMMA UnheldKept ==
  ASSUME NEW s, NEW n, NEW r, NEW t \in Name, Keeps(s, n, r), InReg(s, t) = {},
         ~n.used[r] \/ n.var[r] # t
  PROVE  InReg(n, t) = {}
BY DEF Keeps, InReg

-----------------------------------------------------------------------------
(* Every handler keeps the invariant.                                       *)

\* The handler of a literal keeps the invariant.
LEMMA LiteralIInv ==
  ASSUME IInv, NEW t \in Fresh, Literal(t)
  PROVE  IInv'
<1> USE RegFacts, OperandFacts
<1>1. CASE Stops("wrap")
  BY <1>1, StopsIInv DEF Status
<1>2. CASE /\ FreedReg(asm) # NoReg
           /\ Becomes(Hold(FreeReg(asm), FreedReg(asm), t), {})
           /\ defined' = defined \cup {t}
           /\ UNCHANGED <<deleted, returned>>
  <2> DEFINE r == FreedReg(asm)
             m == FreeReg(asm)
             n == Hold(m, r, t)
  <2>1. r \in Reg /\ Fine(m, Twice) /\ Keeps(asm, m, r) /\ ~m.used[r]
    BY <1>2, FreeRegFine DEF IInv
  <2> HIDE DEF r, m
  <2>2. \A u \in Gone : InReg(m, u) = {}
    BY <2>1, UnheldKept DEF IInv, Unheld
  <2>3. Fine(n, Twice) /\ Keeps(m, n, r) /\ n.used[r] /\ n.var[r] = t
    BY <2>1, <2>2, HoldFine
  <2>4. Becomes(n, {})
    BY <1>2 DEF m, r
  <2> HIDE DEF n
  <2>5. \A v \in defined' \ deleted' : Found(n, v)
    BY <1>2, <2>1, <2>3 DEF IInv, TypeOK, NothingLost, Keeps, Found, InReg, Name
  <2>6. \A u \in Gone' : InReg(n, u) = {}
    <3>1. \A u \in Gone' : u \in Gone /\ u # t
      BY <1>2, NamesAssumption DEF Fresh, Gone, IInv, TypeOK
    <3> QED BY <2>2, <2>3, <3>1, UnheldKept
  <2> QED BY <1>2, <2>3, <2>4, <2>5, <2>6, BecomesIInv DEF IInv, TypeOK, Fresh, Twice
<1> QED BY <1>1, <1>2 DEF Literal

\* The handler of DeleteTAC keeps the invariant.
LEMMA DeleteIInv ==
  ASSUME IInv, NEW x \in Locals \ deleted, Delete(x)
  PROVE  IInv'
<1> USE RegFacts
<1> DEFINE r == Least(InReg(asm, x))
           n == IF InReg(asm, x) = {} THEN asm ELSE [asm EXCEPT !.used[r] = FALSE]
<1>1. Becomes(n, {}) /\ deleted' = deleted \cup {x} /\ UNCHANGED <<defined, returned>>
  BY DEF Delete
<1>2. /\ Fine(n, Twice)
      /\ \A v \in Name \ {x} : Found(asm, v) => Found(n, v)
      /\ \A t \in Name : InReg(asm, t) = {} => InReg(n, t) = {}
      /\ x \notin returned => InReg(n, x) = {}
  <2>1. CASE InReg(asm, x) = {}
    BY <2>1 DEF IInv
  <2>2. CASE InReg(asm, x) # {}
    <3>1. r \in InReg(asm, x)
      BY <2>2, LeastIn DEF InReg
    <3>2. asm \in AsmState /\ Fine(asm, Twice) /\ r \in Reg /\ asm.var[r] = x
      BY <3>1 DEF IInv, Fine, InReg
    <3> HIDE DEF r
    <3>3. n = [asm EXCEPT !.used[r] = FALSE]
      BY <2>2
    <3> HIDE DEF n
    <3>4. n.used = [asm.used EXCEPT ![r] = FALSE]
      BY <3>2, <3>3 DEF AsmState
    <3>5. n.var = asm.var
      BY <3>2, <3>3 DEF AsmState
    <3>6. n.stack = asm.stack /\ n.stack_offset = asm.stack_offset
      BY <3>2, <3>3 DEF AsmState
    <3>7. n \in AsmState
      <4>1. [asm.used EXCEPT ![r] = FALSE] \in [Reg -> BOOLEAN]
        BY <3>2 DEF AsmState
      <4> QED BY <3>2, <3>3, <4>1 DEF AsmState
    <3>8. \A i \in Reg : n.used[i] = IF i = r THEN FALSE ELSE asm.used[i]
      BY <3>2, <3>4 DEF AsmState
    <3>9. Fine(n, Twice)
      BY <3>2, <3>5, <3>6, <3>7, <3>8 DEF Fine, Sized, Distinct
    <3>10. ASSUME NEW v \in Name \ {x}, Found(asm, v) PROVE Found(n, v)
      <4>1. OnStack(n, v) = OnStack(asm, v)
        BY <3>6 DEF OnStack
      <4>2. InReg(asm, v) \subseteq InReg(n, v)
        BY <3>2, <3>5, <3>8 DEF InReg
      <4> QED BY <3>10, <4>1, <4>2 DEF Found
    <3>11. \A t \in Name : InReg(asm, t) = {} => InReg(n, t) = {}
      BY <3>5, <3>8 DEF InReg
    <3>12. ASSUME x \notin returned, NEW i \in InReg(n, x) PROVE FALSE
      <4>1. i # r /\ i \in Reg /\ asm.used[i] /\ asm.var[i] = x
        BY <3>5, <3>8, <3>12 DEF InReg
      <4>2. asm.used[r] /\ x # NoName /\ x \notin Temps
        BY <3>1, NamesAssumption DEF InReg
      <4> QED BY <3>2, <3>12, <4>1, <4>2 DEF Fine, Distinct, Twice
    <3> QED BY <3>9, <3>10, <3>11, <3>12
  <2> QED BY <2>1, <2>2
<1> HIDE DEF n
<1>3. \A v \in defined' \ deleted' : Found(n, v)
  BY <1>1, <1>2 DEF IInv, TypeOK, NothingLost, Name
<1>4. \A t \in Gone' : InReg(n, t) = {}
  BY <1>1, <1>2 DEF IInv, TypeOK, Unheld, Gone, Fresh, Name
<1> QED BY <1>1, <1>2, <1>3, <1>4, BecomesIInv DEF IInv, TypeOK, Twice

\* The handler of a comparison with a literal keeps the invariant.
LEMMA CmpLiteralIInv ==
  ASSUME IInv, NEW v \in Operand, CmpLiteral(v)
  PROVE  IInv'
<1> USE RegFacts, OperandFacts
<1>1. CASE StopsLoading(asm, v, 0)
  BY <1>1, StopsLoadingIInv
<1>2. CASE /\ CanLoad(asm, v, 0)
           /\ Becomes(Load(asm, v, 0), {})
           /\ UNCHANGED <<defined, deleted, returned>>
  <2> DEFINE r == LoadReg(asm, v, 0)
             n == Load(asm, v, 0)
  <2>1. r \in Reg /\ Fine(n, Twice) /\ Keeps(asm, n, r) /\ r \in InReg(n, v)
    BY <1>2, LoadFine DEF IInv
  <2> HIDE DEF r
  <2>2. Becomes(n, {})
    BY <1>2
  <2> HIDE DEF n
  <2>3. \A t \in Gone : InReg(n, t) = {}
    BY <2>1, UnheldKept DEF IInv, Unheld, InReg
  <2>4. \A w \in defined' \ deleted' : Found(n, w)
    BY <1>2, <2>1 DEF IInv, TypeOK, NothingLost, Keeps, Name
  <2> QED BY <1>2, <2>1, <2>2, <2>3, <2>4, BecomesIInv DEF IInv, TypeOK, Fresh, Gone, Twice
<1> QED BY <1>1, <1>2 DEF CmpLiteral

\* The handler of PushTAC keeps the invariant.
LEMMA PushArgIInv ==
  ASSUME IInv, NEW v \in Operand, PushArg(v)
  PROVE  IInv'
<1> USE RegFacts, OperandFacts
<1>1. CASE StopsLoading(asm, v, 0)
  BY <1>1, StopsLoadingIInv
<1>2. CASE /\ CanLoad(asm, v, 0)
           /\ Becomes(Spill(Load(asm, v, 0), LoadReg(asm, v, 0)), {})
           /\ UNCHANGED <<defined, deleted, returned>>
  <2> DEFINE r == LoadReg(asm, v, 0)
             m == Load(asm, v, 0)
             n == Spill(m, r)
  <2>1. r \in Reg /\ Fine(m, Twice) /\ Keeps(asm, m, r) /\ r \in InReg(m, v)
    BY <1>2, LoadFine DEF IInv
  <2>2. Becomes(n, {})
    BY <1>2
  <2> HIDE DEF r, m
  <2>3. Fine(n, Twice) /\ Keeps(m, n, r) /\ ~n.used[r]
    BY <2>1, SpillFine
  <2> HIDE DEF n
  <2>4. \A t \in Gone : InReg(n, t) = {}
    BY <2>1, <2>3, UnheldKept DEF IInv, Unheld, InReg
  <2>5. \A w \in defined' \ deleted' : Found(n, w)
    BY <1>2, <2>1, <2>3 DEF IInv, TypeOK, NothingLost, Keeps, Name
  <2> QED BY <1>2, <2>2, <2>3, <2>4, <2>5, BecomesIInv DEF IInv, TypeOK, Fresh, Gone, Twice
<1> QED BY <1>1, <1>2 DEF PushArg

\* The handler of ReturnTAC keeps the invariant.
LEMMA ReturnIInv ==
  ASSUME IInv, NEW v \in Operand, Return(v)
  PROVE  IInv'
<1> USE RegFacts, OperandFacts
<1> DEFINE s0 == ClearReg(asm, Rax)
           r == LoadReg(s0, v, Rax + 1)
           s1 == Load(s0, v, Rax + 1)
           n == Hold(s1, Rax, v)
<1>1. CASE StopsLoading(s0, v, Rax + 1)
  BY <1>1, StopsLoadingIInv
<1>2. CASE /\ CanLoad(s0, v, Rax + 1)
           /\ Becomes(n, {})
           /\ returned' = returned \cup ({v} \cap Locals)
           /\ UNCHANGED <<defined, deleted>>
  <2>1. Fine(s0, Twice) /\ Keeps(asm, s0, Rax) /\ ~s0.used[Rax]
    BY ClearFine DEF IInv
  <2> HIDE DEF s0
  <2>2. /\ r \in Reg /\ Fine(s1, Twice) /\ Keeps(s0, s1, r) /\ r \in InReg(s1, v)
        /\ r \in InReg(s0, v) \/ Rax + 1 <= r
    BY <1>2, <2>1, LoadFine DEF Rax
  <2> HIDE DEF r, s1
  <2>3. r # Rax
    BY <2>1, <2>2 DEF InReg, Rax
  <2>4. ~s1.used[Rax]
    BY <2>1, <2>2, <2>3 DEF Keeps
  <2>5. Fine(n, Twice') /\ Keeps(s1, n, Rax) /\ n.var[Rax] = v
    <3>1. Fine(s1, Twice')
      BY <1>2, <2>2 DEF Fine, Distinct, Twice
    <3>2. v \in Twice' \/ v = NoName
      BY <1>2 DEF Operand, IInv, TypeOK, Twice
    <3> HIDE DEF n
    <3>3. v \in Name
      OBVIOUS
    <3> QED BY <2>4, <3>1, <3>2, <3>3, HoldFine DEF n
  <2>6. Becomes(n, {})
    BY <1>2
  <2> HIDE DEF n
  <2>7. \A t \in Gone : InReg(s1, t) = {}
    BY <2>1, <2>2, UnheldKept DEF IInv, Unheld, InReg
  <2>8. \A t \in Gone : InReg(n, t) = {}
    BY <2>5, <2>7, UnheldKept
  <2>9. \A w \in defined' \ deleted' : Found(n, w)
    BY <1>2, <2>1, <2>2, <2>5 DEF IInv, TypeOK, NothingLost, Keeps, Name
  <2>10. Gone' \subseteq Gone
    BY <1>2 DEF Gone, Fresh
  <2> QED BY <1>2, <2>5, <2>6, <2>8, <2>9, <2>10, BecomesIInv DEF IInv, TypeOK
<1> QED BY <1>1, <1>2 DEF Return

\* The handler of AssignTAC keeps the invariant.
LEMMA AssignIInv ==
  ASSUME IInv, NEW x \in (Locals \ deleted) \cup {NoName}, NEW v \in Operand,
         Assign(x, v)
  PROVE  IInv'
<1> USE RegFacts, OperandFacts
<1> DEFINE r == LoadReg(asm, v, 0)
           s == Load(asm, v, 0)
<1>1. CASE StopsLoading(asm, v, 0)
  BY <1>1, StopsLoadingIInv
<1>2. CASE Stops("wrap")
  BY <1>2, StopsIInv DEF Status
<1>3. ASSUME CanLoad(asm, v, 0), NEW n, Becomes(n, {}), Fine(n, Twice), NEW q \in Reg,
             Keeps(s, n, q), n.used[q] => n.var[q] \notin Gone,
             Found(n, x), defined' = defined \cup ({x} \ {NoName}),
             UNCHANGED <<deleted, returned>>
      PROVE  IInv'
  <2>1. r \in Reg /\ Keeps(asm, s, r) /\ r \in InReg(s, v)
    BY <1>3, LoadFine DEF IInv
  <2> HIDE DEF r, s
  <2>2. \A t \in Gone : InReg(s, t) = {}
    BY <2>1, UnheldKept DEF IInv, Unheld, InReg
  <2>3. \A t \in Gone : InReg(n, t) = {}
    BY <1>3, <2>2, UnheldKept
  <2>4. \A w \in defined' \ deleted' : Found(n, w)
    BY <1>3, <2>1 DEF IInv, TypeOK, NothingLost, Keeps, Name
  <2>5. defined' \subseteq Temps \cup Locals /\ Gone' = Gone
    BY <1>3, NamesAssumption DEF IInv, TypeOK, Fresh, Gone
  <2> QED BY <1>3, <2>3, <2>4, <2>5, BecomesIInv DEF IInv, TypeOK, Twice
<1>4. ASSUME CanLoad(asm, v, 0)
      PROVE  /\ r \in Reg /\ Fine(s, Twice) /\ Keeps(asm, s, r) /\ r \in InReg(s, v)
             /\ r \in InReg(asm, v) \/ ~asm.used[r]
  BY <1>4, LoadFine DEF IInv
<1>5. x \in Name /\ x \notin Gone
  BY NamesAssumption DEF Name, Fresh, Gone
<1>6. CASE /\ CanLoad(asm, v, 0) /\ ~Found(asm, x) /\ FreedReg(s) # NoReg
           /\ Becomes(Hold(FreeReg(s), FreedReg(s), x), {})
           /\ defined' = defined \cup ({x} \ {NoName})
           /\ UNCHANGED <<deleted, returned>>
  <2> DEFINE q == FreedReg(s)
             m == FreeReg(s)
             n == Hold(m, q, x)
  <2>1. v # x
    BY <1>6 DEF CanLoad
  <2>2. InReg(s, x) = {}
    <3> HIDE DEF r, s
    <3> QED BY <1>4, <1>5, <1>6, <2>1, UnheldKept DEF Found, InReg
  <2>3. q \in Reg /\ Fine(m, Twice) /\ Keeps(s, m, q) /\ ~m.used[q]
    <3> HIDE DEF r, s
    <3> QED BY <1>4, <1>6, FreeRegFine
  <2>4. Becomes(n, {})
    BY <1>6
  <2> HIDE DEF q, m
  <2>5. InReg(m, x) = {}
    BY <1>5, <2>2, <2>3, UnheldKept
  <2>6. Fine(n, Twice) /\ Keeps(m, n, q) /\ n.used[q] /\ n.var[q] = x
    BY <1>5, <2>3, <2>5, HoldFine
  <2> HIDE DEF n
  <2>7. Keeps(s, n, q)
    BY <2>3, <2>6 DEF Keeps
  <2>8. Found(n, x)
    BY <2>3, <2>6 DEF Found, InReg
  <2> QED BY <1>3, <1>5, <1>6, <2>3, <2>4, <2>6, <2>7, <2>8
<1>7. CASE /\ CanLoad(asm, v, 0) /\ InReg(asm, x) # {}
           /\ Becomes(Hold(s, Least(InReg(asm, x)), x), {})
           /\ defined' = defined \cup ({x} \ {NoName})
           /\ UNCHANGED <<deleted, returned>>
  <2> DEFINE q == Least(InReg(asm, x))
             n == Hold(s, q, x)
  <2>1. q \in InReg(asm, x)
    BY <1>7, LeastIn DEF InReg
  <2>2. Becomes(n, {})
    BY <1>7
  <2> HIDE DEF q, r, s
  <2>3. q \in Reg /\ asm.used[q] /\ asm.var[q] = x
    BY <2>1 DEF InReg
  <2>4. q = r \/ (s.used[q] /\ s.var[q] = x)
    BY <1>4, <1>7, <2>3 DEF Keeps
  <2>5. s.used[q] /\ s.var[q] = x
    BY <1>4, <1>7, <2>3, <2>4 DEF InReg
  <2>6. \/ x = NoName \/ InReg(s, x) \subseteq {q}
        \/ x \in Twice /\ (q = Rax \/ InReg(s, x) \subseteq {q, Rax})
    <3>1. ASSUME x # NoName, NEW i \in InReg(s, x), i # q
          PROVE  Rax \in {i, q} /\ x \in Twice
      BY <1>4, <1>7, <2>3, <2>5, <3>1 DEF Fine, Distinct, InReg
    <3> QED BY <3>1
  <2>7. Fine(n, Twice) /\ Keeps(s, n, q) /\ n.used[q] /\ n.var[q] = x
    BY <1>4, <1>5, <1>7, <2>3, <2>5, <2>6, HoldFine
  <2> HIDE DEF n
  <2>8. Found(n, x)
    BY <2>3, <2>7 DEF Found, InReg
  <2> QED BY <1>3, <1>5, <1>7, <2>2, <2>3, <2>7, <2>8
<1>8. CASE /\ CanLoad(asm, v, 0) /\ OnStack(asm, x) # {}
           /\ Becomes(s, {})
           /\ defined' = defined \cup ({x} \ {NoName})
           /\ UNCHANGED <<deleted, returned>>
  <2>1. Keeps(s, s, r)
    BY DEF Keeps
  <2>2. Found(s, x)
    <3> HIDE DEF r, s
    <3> QED BY <1>4, <1>5, <1>8 DEF Found, Keeps
  <2>3. s.used[r] => s.var[r] \notin Gone
    <3> HIDE DEF r, s
    <3> QED BY <1>4, <1>8 DEF InReg
  <2> QED BY <1>3, <1>4, <1>8, <2>1, <2>2, <2>3
<1> QED BY <1>1, <1>2, <1>6, <1>7, <1>8 DEF Assign

\* The result, in rax, is no operand, so that neither operand is taken to be
\* there; and the first operand's register is in use when the second is loaded.
LEMMA ComputeIInv ==
  ASSUME IInv, NEW t \in Fresh, NEW left \in Operand, NEW right \in Operand,
         NEW supported \in BOOLEAN, Compute(t, left, right, supported)
  PROVE  IInv'
<1> USE RegFacts, OperandFacts
<1> DEFINE c == ClearReg(asm, Rax)
           s0 == Hold(c, Rax, t)
           r1 == LoadReg(s0, left, Rax + 1)
           s1 == Load(s0, left, Rax + 1)
           r2 == LoadReg(s1, right, Rax + 1)
           n == Load(s1, right, Rax + 1)
<1>1. CASE StopsLoading(s0, left, Rax + 1) \/ StopsLoading(s1, right, Rax + 1)
  BY <1>1, StopsLoadingIInv
<1>2. CASE Stops("exit")
  BY <1>2, StopsIInv DEF Status
<1>3. CASE /\ CanLoad(s0, left, Rax + 1) /\ CanLoad(s1, right, Rax + 1)
           /\ Becomes(n, {t, left, right})
           /\ defined' = defined \cup {t} /\ UNCHANGED <<deleted, returned>>
  <2>1. Fine(c, Twice) /\ Keeps(asm, c, Rax) /\ ~c.used[Rax]
    BY ClearFine DEF IInv
  <2>2. Becomes(n, {t, left, right})
    BY <1>3
  <2> HIDE DEF c
  <2>3. Fine(s0, Twice) /\ Keeps(c, s0, Rax) /\ s0.used[Rax] /\ s0.var[Rax] = t
    <3>1. InReg(c, t) = {}
      BY <2>1, UnheldKept DEF IInv, Unheld
    <3> QED BY <2>1, <3>1, HoldFine
  <2> HIDE DEF s0
  <2>4. /\ r1 \in Reg /\ Fine(s1, Twice) /\ Keeps(s0, s1, r1) /\ r1 \in InReg(s1, left)
        /\ r1 \in InReg(s0, left) \/ Rax + 1 <= r1
    BY <1>3, <2>3, LoadFine DEF Rax
  <2> HIDE DEF r1, s1
  <2>5. r1 # Rax /\ left # t /\ right # t
    BY <2>3, <2>4 DEF InReg, Rax
  <2>6. Rax \in InReg(s1, t)
    BY <2>3, <2>4, <2>5 DEF InReg, Keeps
  <2>7. /\ r2 \in Reg /\ Fine(n, Twice) /\ Keeps(s1, n, r2) /\ r2 \in InReg(n, right)
        /\ r2 \in InReg(s1, right) \/ Rax + 1 <= r2
        /\ r2 \in InReg(s1, right) \/ ~s1.used[r2]
    BY <1>3, <2>4, LoadFine DEF Rax
  <2> HIDE DEF r2, n
  <2>8. r2 # Rax
    BY <2>5, <2>6, <2>7 DEF InReg, Rax
  <2>9. Rax \in InReg(n, t)
    BY <2>6, <2>7, <2>8 DEF InReg, Keeps
  <2>10. InReg(n, left) # {}
    <3>1. CASE r2 = r1
      <4>1. left = right
        BY <2>4, <2>7, <3>1 DEF InReg
      <4> QED BY <2>7, <4>1
    <3>2. CASE r2 # r1
      <4>1. r1 \in InReg(n, left)
        BY <2>4, <2>7, <3>2 DEF InReg, Keeps
      <4> QED BY <4>1
    <3> QED BY <3>1, <3>2
  <2>11. \A v \in {t, left, right} : InReg(n, v) # {}
    BY <2>7, <2>9, <2>10
  <2>12. \A u \in Gone' : InReg(n, u) = {}
    <3>1. SUFFICES ASSUME NEW u \in Gone, u # t PROVE InReg(n, u) = {}
      BY <1>3, NamesAssumption DEF Fresh, Gone, IInv, TypeOK
    <3>2. InReg(c, u) = {}
      BY <2>1, UnheldKept DEF IInv, Unheld
    <3>3. InReg(s0, u) = {}
      BY <2>3, <3>1, <3>2, UnheldKept
    <3>4. InReg(s1, u) = {}
      BY <2>4, <3>3, UnheldKept DEF InReg
    <3> QED BY <2>7, <3>4, UnheldKept DEF InReg
  <2>13. \A w \in defined' \ deleted' : Found(n, w)
    <3>1. \A w \in Name : Found(asm, w) => Found(n, w)
      BY <2>1, <2>3, <2>4, <2>7 DEF Keeps
    <3> QED BY <1>3, <2>9, <3>1 DEF IInv, TypeOK, NothingLost, Found, Name
  <2>14. defined' \subseteq Temps \cup Locals /\ {t, left, right} \subseteq Name
    BY <1>3 DEF IInv, TypeOK, Fresh
  <2>15. Twice' = Twice
    BY <1>3 DEF Twice
  <2> QED BY <1>3, <2>2, <2>7, <2>11, <2>12, <2>13, <2>14, <2>15, BecomesIInv
          DEF IInv, TypeOK
<1> QED BY <1>1, <1>2, <1>3 DEF Compute

\* Every instruction keeps the invariant.
LEMMA NextIInv == IInv /\ [Next]_vars => IInv'
<1> SUFFICES ASSUME IInv, [Next]_vars PROVE IInv'
  OBVIOUS
<1>1. CASE UNCHANGED vars
  BY <1>1 DEF vars, IInv, TypeOK, Fine, Sized, Distinct, NothingLost, Found, InReg,
              OnStack, OperandsTogether, Unheld, Fresh, Gone, Twice
<1>2. ASSUME NEW t \in Fresh, Literal(t) PROVE IInv'
  BY <1>2, LiteralIInv
<1>3. ASSUME NEW x \in (Locals \ deleted) \cup {NoName}, NEW v \in Operand, Assign(x, v)
      PROVE  IInv'
  BY <1>3, AssignIInv
<1>4. ASSUME NEW x \in Locals \ deleted, Delete(x) PROVE IInv'
  BY <1>4, DeleteIInv
<1>5. ASSUME NEW v \in Operand, CmpLiteral(v) \/ PushArg(v) \/ Return(v) PROVE IInv'
  BY <1>5, CmpLiteralIInv, PushArgIInv, ReturnIInv
<1>6. ASSUME NEW t \in Fresh, NEW left \in Operand, NEW right \in Operand,
             NEW supported \in BOOLEAN, Compute(t, left, right, supported)
      PROVE  IInv'
  BY <1>6, ComputeIInv
<1>7. CASE Call
  BY <1>7, StopsIInv DEF Call, Status
<1> QED BY <1>1, <1>2, <1>3, <1>4, <1>5, <1>6, <1>7 DEF Next

-----------------------------------------------------------------------------
(* Theorems.                                                                *)

\* The invariant always holds.
LEMMA Invariant == Spec => []IInv
BY InitIInv, NextIInv, PTL DEF Spec

\* The state of the allocator always has its type: a handler that goes on has
\* not used the register index -1.
THEOREM TypeCorrect == Spec => []TypeOK
<1>1. IInv => TypeOK
  BY DEF IInv
<1> QED BY <1>1, Invariant, PTL

\* For any number of registers and variables: what has a value and is in scope
\* is in a register or on the stack after every handler.
THEOREM NothingIsLost == Spec => []NothingLost
<1>1. IInv => NothingLost
  BY DEF IInv
<1> QED BY <1>1, Invariant, PTL

\* A name is never in use in two registers of which neither is rax.
THEOREM InOneRegister == Spec => []OneRegister
<1>1. IInv => OneRegister
  BY DEF IInv, Fine, Distinct, OneRegister
<1> QED BY <1>1, Invariant, PTL

\* A deleted local that no return statement named is in no register.
THEOREM DeletedAreFreed == Spec => []DeletedIsFreed
<1>1. IInv => DeletedIsFreed
  BY DEF IInv, Unheld, Gone, InReg, DeletedIsFreed
<1> QED BY <1>1, Invariant, PTL

\* When the operation of an arithmetic or comparison instruction is emitted, its
\* operands and its result are all in registers.
THEOREM OperandsAreTogether == Spec => []OperandsTogether
<1>1. IInv => OperandsTogether
  BY DEF IInv
<1> QED BY <1>1, Invariant, PTL

\* The recorded size of the frame is always that of what was pushed.
THEOREM OffsetIsRight == Spec => []OffsetIsStackSize
<1>1. IInv => OffsetIsStackSize
  BY DEF IInv, Fine, Sized, OffsetIsStackSize
<1> QED BY <1>1, Invariant, PTL

=============================================================================
