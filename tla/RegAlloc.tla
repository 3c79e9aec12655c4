------------------------------ MODULE RegAlloc ------------------------------
(***************************************************************************)
(* The register allocator: AsmState and the handlers (to_asm) of the       *)
(* three-address instructions that change it.                              *)
(*                                                                         *)
(* A step is the handler of one instruction.  What the allocator is given  *)
(* is any list of instructions gen_tac can produce: a temporary is defined *)
(* once and before it is used, a local may be used without having been     *)
(* assigned, nothing is used after the end of its block deleted it, and an *)
(* expression gen_tac does not support is the empty name.  Control flow    *)
(* does not exist here: labels and jumps leave AsmState alone.             *)
(*                                                                         *)
(* Not in the model: ArgTAC, which takes a register from free_reg, and     *)
(* RetvalTAC, which follows a call: no run of the compiler gets so far.    *)
(***************************************************************************)
EXTENDS Integers, Sequences, FiniteSets

CONSTANTS
    NumRegs,    \* GeneralReg::Count
    Temps,      \* names made by next_t
    Locals,     \* names of variables, made by next_p
    NoName,     \* the empty name
    MaxStack    \* bound: entries of the stack

ASSUME SizesAssumption ==
    /\ NumRegs \in Nat \ {0}
    /\ MaxStack \in Nat

ASSUME NamesAssumption ==
    /\ Temps \cap Locals = {}
    /\ NoName \notin Temps \cup Locals

VARIABLES
    status,     \* running, or how code generation ended
    asm,        \* the AsmState
    defined,    \* history: names some instruction has given a value
    deleted,    \* history: locals whose block has ended
    returned,   \* history: locals that a return statement copied to rax
    operands    \* history: the names of the last arithmetic or comparison

vars == <<status, asm, defined, deleted, returned, operands>>

Name == Temps \cup Locals \cup {NoName}
Reg == 0..(NumRegs - 1)
Rax == 0
NoReg == -1
Word == 8

\* Running; exit(1); the register index -1 that free_reg returned, or that
\* move_into_reg was left with; the frame that pop_frame found missing.
Status == {"running", "exit", "wrap", "full", "no frame"}

AsmState == [used : [Reg -> BOOLEAN], var : [Reg -> Name], stack : Seq(Name),
             stack_offset : Nat, reg_roulette : Reg]

-----------------------------------------------------------------------------
(* Operations of AsmState.                                                 *)

Least(S) == CHOOSE x \in S : \A y \in S : x <= y
Greatest(S) == CHOOSE x \in S : \A y \in S : y <= x

InReg(s, v) == {r \in Reg : s.used[r] /\ s.var[r] = v}
OnStack(s, v) == {i \in 1..Len(s.stack) : s.stack[i] = v}
Unused(s) == {r \in Reg : ~s.used[r]}

\* find_var looks in the registers, then on the stack from the oldest entry.
Found(s, v) == InReg(s, v) # {} \/ OnStack(s, v) # {}
FoundSlot(s, v) == Least(OnStack(s, v))

Hold(s, r, v) == [s EXCEPT !.used[r] = TRUE, !.var[r] = v]

\* Mutant of Spill: the register is given up without an entry on the stack.
SpillNowhere(s, r) == [s EXCEPT !.used[r] = FALSE]

\* Mutant of Spill: the offset is counted down, like the stack pointer.
SpillDownwards(s, r) ==
    [s EXCEPT !.used[r] = FALSE, !.stack = Append(@, s.var[r]),
              !.stack_offset = @ - Word]

\* Mutant of Spill: the offset is not updated.
SpillSameOffset(s, r) ==
    [s EXCEPT !.used[r] = FALSE, !.stack = Append(@, s.var[r])]

Spill(s, r) ==
    [s EXCEPT !.used[r] = FALSE, !.stack = Append(@, s.var[r]),
              !.stack_offset = @ + Word]

ClearReg(s, r) == IF s.used[r] THEN Spill(s, r) ELSE s

\* free_reg: the state it leaves, and the register it returns.
FreeReg(s) ==
    IF Unused(s) # {} THEN s
    ELSE [Spill(s, s.reg_roulette) EXCEPT !.reg_roulette = (@ + 1) % NumRegs]

FreedReg(s) ==
    IF Unused(s) # {} THEN Least(Unused(s))
    ELSE ((s.reg_roulette + 1) % NumRegs) - 1

\* Mutant of LoadReg: any register may be loaded into.
LoadRegInUse(s, v, first) ==
    IF InReg(s, v) # {} THEN Least(InReg(s, v)) ELSE Greatest(first..(NumRegs - 1))

\* Mutant of LoadReg: v is loaded again although a register has it.
LoadRegAgain(s, v, first) ==
    LET free == {r \in Unused(s) : first <= r}
    IN  IF free # {} THEN Greatest(free) ELSE NoReg

\* move_into_reg: the register it returns, the last free one from `first` on
\* if v is not in one, and the state it leaves.
LoadReg(s, v, first) ==
    LET free == {r \in Unused(s) : first <= r}
    IN  IF InReg(s, v) # {} THEN Least(InReg(s, v))
        ELSE IF free # {} THEN Greatest(free) ELSE NoReg

Load(s, v, first) == Hold(s, LoadReg(s, v, first), v)

CanLoad(s, v, first) == Found(s, v) /\ LoadReg(s, v, first) # NoReg

-----------------------------------------------------------------------------
(* Outcomes of a handler.                                                  *)

Becomes(s, names) ==
    /\ Len(s.stack) <= MaxStack
    /\ asm' = s
    /\ operands' = names
    /\ UNCHANGED status

Stops(outcome) ==
    /\ status' = outcome
    /\ UNCHANGED <<asm, defined, deleted, returned, operands>>

\* move_into_reg exits if v is nowhere.  If no register is left it frees one,
\* does not look which, and goes on with index -1.
StopsLoading(s, v, first) ==
    /\ ~CanLoad(s, v, first)
    /\ Stops(IF Found(s, v) THEN "full" ELSE "exit")

Init ==
    /\ status = "running"
    /\ asm \in [used : [Reg -> BOOLEAN],    \* not initialized
                var : [Reg -> {NoName}], stack : {<< >>}, stack_offset : {0},
                reg_roulette : {0}]
    /\ defined = {}
    /\ deleted = {}
    /\ returned = {}
    /\ operands = {}

Fresh == Temps \ defined
Operand == ((defined \cup Locals) \ deleted) \cup {NoName}

-----------------------------------------------------------------------------
(* Handlers.                                                               *)

\* Value<int>: an integer literal.
Literal(t) ==
    \/ /\ FreedReg(asm) = NoReg
       /\ Stops("wrap")
    \/ /\ FreedReg(asm) # NoReg
       /\ Becomes(Hold(FreeReg(asm), FreedReg(asm), t), {})
       /\ defined' = defined \cup {t}
       /\ UNCHANGED <<deleted, returned>>

\* AssignTAC.  The place of x is looked up before v is loaded.
Assign(x, v) ==
    LET s == Load(asm, v, 0)
    IN  \/ StopsLoading(asm, v, 0)
        \/ /\ CanLoad(asm, v, 0)
           /\ ~Found(asm, x) /\ FreedReg(s) = NoReg
           /\ Stops("wrap")
        \/ /\ CanLoad(asm, v, 0)
           /\ \/ ~Found(asm, x) /\ FreedReg(s) # NoReg
                 /\ Becomes(Hold(FreeReg(s), FreedReg(s), x), {})
              \/ InReg(asm, x) # {}
                 /\ Becomes(Hold(s, Least(InReg(asm, x)), x), {})
              \/ InReg(asm, x) = {} /\ OnStack(asm, x) # {}
                 /\ Becomes(s, {})
           /\ defined' = defined \cup ({x} \ {NoName})
           /\ UNCHANGED <<deleted, returned>>

\* Mutant of Delete: a name that has an entry on the stack keeps its register.
DeleteOffStack(x) ==
    /\ Becomes(IF InReg(asm, x) = {} \/ OnStack(asm, x) # {} THEN asm
               ELSE [asm EXCEPT !.used[Least(InReg(asm, x))] = FALSE], {})
    /\ deleted' = deleted \cup {x}
    /\ UNCHANGED <<defined, returned>>

\* DeleteTAC: clear_var.
Delete(x) ==
    /\ Becomes(IF InReg(asm, x) = {} THEN asm
               ELSE [asm EXCEPT !.used[Least(InReg(asm, x))] = FALSE], {})
    /\ deleted' = deleted \cup {x}
    /\ UNCHANGED <<defined, returned>>

\* CmpLiteralTAC.
CmpLiteral(v) ==
    \/ StopsLoading(asm, v, 0)
    \/ /\ CanLoad(asm, v, 0)
       /\ Becomes(Load(asm, v, 0), {})
       /\ UNCHANGED <<defined, deleted, returned>>

\* MathTAC and LogicalTAC: the result's register is claimed first.  The
\* operators `in` and `not in` exit once their operands are loaded.
Compute(t, left, right, supported) ==
    LET s0 == Hold(ClearReg(asm, Rax), Rax, t)
        s1 == Load(s0, left, Rax + 1)
    IN  \/ StopsLoading(s0, left, Rax + 1)
        \/ CanLoad(s0, left, Rax + 1) /\ StopsLoading(s1, right, Rax + 1)
        \/ /\ CanLoad(s0, left, Rax + 1)
           /\ CanLoad(s1, right, Rax + 1)
           /\ \/ ~supported /\ Stops("exit")
              \/ /\ supported
                 /\ Becomes(Load(s1, right, Rax + 1), {t, left, right})
                 /\ defined' = defined \cup {t}
                 /\ UNCHANGED <<deleted, returned>>

\* PushTAC.
PushArg(v) ==
    \/ StopsLoading(asm, v, 0)
    \/ /\ CanLoad(asm, v, 0)
       /\ Becomes(Spill(Load(asm, v, 0), LoadReg(asm, v, 0)), {})
       /\ UNCHANGED <<defined, deleted, returned>>

\* CallTAC: pop_frame, and new_frame has no caller.
Call == Stops("no frame")

\* ReturnTAC.
Return(v) ==
    LET s0 == ClearReg(asm, Rax)
    IN  \/ StopsLoading(s0, v, Rax + 1)
        \/ /\ CanLoad(s0, v, Rax + 1)
           /\ Becomes(Hold(Load(s0, v, Rax + 1), Rax, v), {})
           /\ returned' = returned \cup ({v} \cap Locals)
           /\ UNCHANGED <<defined, deleted>>

Next ==
    /\ status = "running"
    /\ \/ \E t \in Fresh : Literal(t)
       \/ \E x \in (Locals \ deleted) \cup {NoName}, v \in Operand : Assign(x, v)
       \/ \E x \in Locals \ deleted : Delete(x)
       \/ \E v \in Operand : CmpLiteral(v) \/ PushArg(v) \/ Return(v)
       \/ \E t \in Fresh, left, right \in Operand, supported \in BOOLEAN :
             Compute(t, left, right, supported)
       \/ Call

Spec == Init /\ [][Next]_vars

-----------------------------------------------------------------------------
(* Properties.                                                             *)

\* Every variable stays within its type.
TypeOK ==
    /\ status \in Status
    /\ asm \in AsmState
    /\ defined \subseteq Temps \cup Locals
    /\ deleted \subseteq Locals
    /\ returned \subseteq Locals
    /\ operands \subseteq Name

\* What has been given a value and is still in scope is in a register or on the
\* stack, whatever was spilled, cleared, pushed or returned since: the exit of
\* move_into_reg ("variable not in register file or stack") is for names that
\* never had a value.
NothingLost == \A v \in defined \ deleted : Found(asm, v)

\* Of two registers in use for the same name one is rax, which ReturnTAC fills
\* with a copy: find_var, clear_var and an assignment see only one of them.
OneRegister ==
    \A i, j \in Reg :
        /\ asm.used[i] /\ asm.used[j] /\ i # j
        /\ asm.var[i] = asm.var[j] /\ asm.var[i] # NoName
        => Rax \in {i, j}

\* Loading the second operand of an arithmetic or comparison does not take the
\* register of the first, nor the one claimed for the result.
OperandsTogether == \A v \in operands : InReg(asm, v) # {}

\* The size recorded for the frame is the size of what was pushed.
OffsetIsStackSize == asm.stack_offset = Word * Len(asm.stack)

\* The register free_reg returns is a register.
FreeRegReturnsRegister == status # "wrap"

\* A local that was deleted holds no register any more, unless a return
\* statement named it: clear_var stops at the first register that has the
\* name, and only ReturnTAC puts it in a second one. What is left there can
\* only be had back by spilling it.
DeletedIsFreed ==
    \A x \in deleted \ returned, r \in Reg : ~(asm.used[r] /\ asm.var[r] = x)

\* A variable that free_reg moves to the stack is found where it was moved.
MovedIsFound ==
    [][\A v \in Temps \cup Locals :
          /\ asm'.reg_roulette # asm.reg_roulette
          /\ InReg(asm, v) # {} /\ InReg(asm', v) = {}
          => FoundSlot(asm', v) = Len(asm'.stack)]_vars

=============================================================================
