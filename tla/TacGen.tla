------------------------------- MODULE TacGen -------------------------------
(***************************************************************************)
(* The generation of three-address code: the gen_tac methods of ast.cpp,   *)
(* the maps from the program's names to generated ones (codegen.cpp) and   *)
(* the types recorded for those (asm_utils.cpp). The program is any        *)
(* program the parser accepts: each step takes the next expression,        *)
(* statement or end of a block, and appends what its gen_tac appends.      *)
(*                                                                         *)
(* A map holds every name of its table from the start, the ones declared   *)
(* further on too; which those are is chosen when the block begins, and    *)
(* the block must then declare them all. What a statement may mention is   *)
(* what the parser has seen declared (seen).                               *)
(*                                                                         *)
(* Left out: parameters (no function type that has one can be built), a    *)
(* local called main, and in the header of a for returns, blocks, and a    *)
(* declaration as its last part.                                           *)
(***************************************************************************)
EXTENDS Integers, Sequences

CONSTANTS
  Ids,         \* the names of variables
  Funcs,       \* the names of functions
  MaxStmts,    \* bound: statements and functions
  MaxExprs,    \* bound: expressions
  MaxBlocks,   \* bound: blocks within each other, the program included
  MaxVals      \* bound: values of unfinished expressions

ASSUME NamesDiffer == Ids \cap Funcs = {}

VARIABLES
  instrs,      \* the code
  blocks,      \* the program and the blocks begun, outermost first
  vals,        \* the names that the gen_tac of unfinished expressions returned
  nt, nl, np,  \* the counters of next_t, next_l and, per table, next_p
  types,       \* the names in the TypeTable
  replaced,    \* the names whose type was put there again, one by one
  size         \* statements and expressions so far

vars == <<instrs, blocks, vals, nt, nl, np, types, replaced, size>>

-----------------------------------------------------------------------------
(* Generated names: temporaries, labels, and for each name of a table one  *)
(* of its own. NoName is the empty string.                                 *)

Temp(n) == <<"t", n, "none">>
LabelName(n) == <<"l", n, "none">>
VarName(table, x) == <<"p", table, x>>
NoName == <<"none", 0, "none">>

\* An instruction with the name it gives a value to, the names it reads, and
\* the label that it places or jumps to.
Instr(op, def, uses, label) == [op |-> op, def |-> def, uses |-> uses, label |-> label]

Value(t)          == Instr("value", t, {}, NoName)
Compute(t, l, r)  == Instr("compute", t, {l, r}, NoName)   \* MathTAC, LogicalTAC
AssignTAC(x, v)   == Instr("assign", x, {v}, NoName)
DeleteTAC(x)      == Instr("delete", x, {}, NoName)
CmpLiteralTAC(v)  == Instr("cmp", NoName, {v}, NoName)
JneTAC(l)         == Instr("jne", NoName, {}, l)
LabelTAC(l)       == Instr("label", NoName, {}, l)
PushTAC(v)        == Instr("push", NoName, {v}, NoName)
CallTAC(f)        == Instr("call", NoName, {f}, NoName)
RetvalTAC(t)      == Instr("retval", t, {}, NoName)
ReturnTAC(v)      == Instr("return", NoName, {v}, NoName)
SetupStackTAC     == Instr("setup", NoName, {}, NoName)
VoidReturnTAC     == Instr("leave", NoName, {}, NoName)
FuncLabel(f)      == Instr("function", NoName, {}, f)      \* a LabelTAC

\* A block: phase "list" while its statements are generated; a for has the
\* phases init and cond before it and update after it.
Block(k, phase, exit, again, names) ==
  [k |-> k, phase |-> phase, exit |-> exit, again |-> again, table |-> np, names |-> names,
   seen |-> {}, locals |-> <<>>, last |-> "none"]

Depth == Len(blocks)
Top == blocks[Depth]

\* The parser puts a for's variable in the table around it, and reads the
\* last part of its header before the body.
Seen(i) == IF blocks[i].phase = "update" THEN {} ELSE blocks[i].seen
Visible == UNION {Seen(i) : i \in 1..Depth}

\* Mutant of MapOf: the outermost map that has the name.
OutermostMapOf(x) ==
  CHOOSE i \in 1..Depth : x \in blocks[i].names /\ \A j \in 1..Depth : x \in blocks[j].names => i <= j

\* NamesToNames::get: the map that has the name, from the innermost on.
MapOf(x) ==
  CHOOSE i \in 1..Depth : x \in blocks[i].names /\ \A j \in 1..Depth : x \in blocks[j].names => j <= i

GetName(x) == VarName(blocks[MapOf(x)].table, x)

Emit(code) == instrs' = instrs \o code

AnExpr == size.exprs < MaxExprs /\ size' = [size EXCEPT !.exprs = @ + 1]
AStmt  == size.stmts < MaxStmts /\ size' = [size EXCEPT !.stmts = @ + 1]

\* Mutant of PutFromSymbol: it does not look whether there is a type.
PutFromSymbolAgain(n) ==
  /\ types' = types \cup {n}
  /\ replaced' = IF n \in types THEN Append(replaced, n) ELSE replaced

\* put_from_symbol: a name that has a type keeps it.
PutFromSymbol(n) ==
  /\ types' = types \cup {n}
  /\ UNCHANGED replaced

\* put: an entry that is there is overwritten, and its type never deleted.
Put(n) ==
  /\ types' = types \cup {n}
  /\ replaced' = IF n \in types THEN Append(replaced, n) ELSE replaced

-----------------------------------------------------------------------------
(* Expressions, operands first. What gen_tac returned is the value of an   *)
(* expression, which may be a calling_expr, one that can be called and     *)
(* assigned to; or the function that is called, or the variable that is    *)
(* initialized.                                                            *)

Val(n, role) == [n |-> n, role |-> role]
Held == Len(vals)
Has(n) == Held >= n /\ \A i \in (Held - n + 1)..Held : vals[i].role \in {"value", "calling"}

InStatement == Top.phase \in {"list", "init", "cond", "update"} /\ Top.k # "prog"

\* The program has expressions in the initializers of its variables.
AtExpr == (InStatement \/ vals # <<>>) /\ Held < MaxVals

Push(n, role) == vals' = Append(vals, Val(n, role))
Pop(n) == SubSeq(vals, 1, Held - n)

IntLiteral ==
  /\ AnExpr
  /\ AtExpr
  /\ Emit(<<Value(Temp(nt))>>)
  /\ Push(Temp(nt), "value")
  /\ Put(Temp(nt))
  /\ nt' = nt + 1
  /\ UNCHANGED <<blocks, nl, np>>

\* All the kinds that have no gen_tac of their own.
Unsupported ==
  /\ AnExpr
  /\ AtExpr
  /\ Push(NoName, "calling")
  /\ UNCHANGED <<instrs, blocks, nt, nl, np, types, replaced>>

Ident(x) ==
  /\ AnExpr
  /\ AtExpr
  /\ x \in Visible
  /\ Push(GetName(x), "calling")
  /\ PutFromSymbol(GetName(x))
  /\ UNCHANGED <<instrs, blocks, nt, nl, np>>

\* MathExpr and LogicalExpr.
Operation ==
  /\ Has(2)
  /\ Emit(<<Compute(Temp(nt), vals[Held - 1].n, vals[Held].n)>>)
  /\ vals' = Append(Pop(2), Val(Temp(nt), "value"))
  /\ nt' = nt + 1
  /\ UNCHANGED <<blocks, nl, np, types, replaced, size>>

\* The value is what a call calls.
Callee ==
  /\ Held > 0 /\ vals[Held].role = "calling"
  /\ vals' = Append(Pop(1), Val(vals[Held].n, "callee"))
  /\ UNCHANGED <<instrs, blocks, nt, nl, np, types, replaced, size>>

Argument ==
  /\ Has(1) /\ Held > 1 /\ vals[Held - 1].role = "callee"
  /\ Emit(<<PushTAC(vals[Held].n)>>)
  /\ vals' = Pop(1)
  /\ UNCHANGED <<blocks, nt, nl, np, types, replaced, size>>

FunctionCallExpr ==
  /\ AnExpr
  /\ Held > 0 /\ vals[Held].role = "callee"
  /\ Emit(<<CallTAC(vals[Held].n), RetvalTAC(Temp(nt))>>)
  /\ vals' = Append(Pop(1), Val(Temp(nt), "calling"))
  /\ nt' = nt + 1
  /\ UNCHANGED <<blocks, nl, np, types, replaced>>

-----------------------------------------------------------------------------
(* Statements. The part of a for that its header waits for is followed by  *)
(* a label.                                                                *)

AtStatement == vals = <<>> /\ Top.phase \in {"list", "init", "update"}

\* bs with the innermost block past a statement of kind k.
Past(bs, k) == [bs EXCEPT ![Len(bs)].last = k]

\* The statement in progress ends: bs are the blocks with its declarations.
Finish(bs, k, code) ==
  /\ vals' = <<>>
  /\ CASE Top.phase = "list"   -> Emit(code) /\ blocks' = Past(bs, k)
       [] Top.phase = "init"   -> /\ Emit(code \o <<LabelTAC(Top.again)>>)
                                  /\ blocks' = [bs EXCEPT ![Depth].phase = "cond"]
       [] Top.phase = "update" -> /\ Emit(code \o <<LabelTAC(Top.exit)>>)
                                  /\ blocks' = Past(SubSeq(bs, 1, Depth - 1), "other")

\* The table a declaration goes to, and the blocks after it; the variables of
\* a list are remembered to be deleted.
Target == IF Top.phase = "init" THEN Depth - 1 ELSE Depth

CanDeclare(x) ==
  /\ AtStatement /\ Top.phase # "update"
  /\ x \notin Visible
  /\ x \in blocks[Target].names
  /\ Target < Depth => x \notin Top.names

\* Mutant of Declared: the variable in the header of a for is deleted with the
\* body's.
DeclaredWithBody(x) ==
  IF Top.phase # "update" /\ Top.k # "prog"
  THEN [blocks EXCEPT ![Target].seen = @ \cup {x}, ![Depth].locals = Append(@, GetName(x))]
  ELSE [blocks EXCEPT ![Target].seen = @ \cup {x}]

Declared(x) ==
  IF Top.phase = "list" /\ Top.k # "prog"
  THEN [blocks EXCEPT ![Depth].seen = @ \cup {x}, ![Depth].locals = Append(@, GetName(x))]
  ELSE [blocks EXCEPT ![Target].seen = @ \cup {x}]

VarDecl(x) ==
  /\ AStmt
  /\ CanDeclare(x)
  /\ Finish(Declared(x), "other", <<>>)
  /\ UNCHANGED <<nt, nl, np, types, replaced>>

\* int x = ..., up to the expression.
BeginVarDeclInit(x) ==
  /\ AStmt
  /\ CanDeclare(x)
  /\ vals' = <<Val(GetName(x), "target")>>
  /\ blocks' = Declared(x)
  /\ UNCHANGED <<instrs, nt, nl, np, types, replaced>>

VarDeclInit ==
  /\ Held = 2 /\ Has(1) /\ vals[1].role = "target"
  /\ Finish(blocks, "other", <<AssignTAC(vals[1].n, vals[2].n)>>)
  /\ PutFromSymbol(vals[1].n)
  /\ UNCHANGED <<nt, nl, np, size>>

Assignment ==
  /\ AStmt
  /\ Held = 2 /\ Has(2) /\ vals[1].role = "calling" /\ InStatement /\ Top.phase # "cond"
  /\ Finish(blocks, "other", <<AssignTAC(vals[1].n, vals[2].n)>>)
  /\ UNCHANGED <<nt, nl, np, types, replaced>>

FunctionCallStmt ==
  /\ AStmt
  /\ Held = 1 /\ vals[1].role = "callee" /\ InStatement /\ Top.phase # "cond"
  /\ Finish(blocks, "other", <<CallTAC(vals[1].n)>>)
  /\ UNCHANGED <<nt, nl, np, types, replaced>>

ReturnStatement ==
  /\ AStmt
  /\ Held = 1 /\ Has(1) /\ InStatement /\ Top.phase = "list"
  /\ Finish(blocks, "return", <<ReturnTAC(vals[1].n)>>)
  /\ UNCHANGED <<nt, nl, np, types, replaced>>

\* The kinds of statement that have no gen_tac of their own: return., break,
\* continue, and an if with an else and all that is in it.
SilentStmt ==
  /\ AStmt
  /\ AtStatement /\ InStatement /\ Top.phase = "list"
  /\ Finish(blocks, "other", <<>>)
  /\ UNCHANGED <<nt, nl, np, types, replaced>>

-----------------------------------------------------------------------------
(* Statements with blocks.                                                 *)

\* A block for the table with these names.
Begin(b) ==
  /\ Depth < MaxBlocks
  /\ b.names \subseteq Ids \ Visible
  /\ blocks' = Append(blocks, b)
  /\ np' = np + 1

IfStmt(names) ==
  /\ AStmt
  /\ Held = 1 /\ Has(1) /\ InStatement /\ Top.phase = "list"
  /\ Emit(<<CmpLiteralTAC(vals[1].n), JneTAC(LabelName(nl))>>)
  /\ vals' = <<>>
  /\ Begin(Block("if", "list", LabelName(nl), NoName, names))
  /\ nl' = nl + 1
  /\ UNCHANGED <<nt, types, replaced>>

WhileStmt(names) ==
  /\ AStmt
  /\ Held = 1 /\ Has(1) /\ InStatement /\ Top.phase = "list"
  /\ Emit(<<LabelTAC(LabelName(nl)), CmpLiteralTAC(vals[1].n), JneTAC(LabelName(nl + 1))>>)
  /\ vals' = <<>>
  /\ Begin(Block("while", "list", LabelName(nl + 1), LabelName(nl), names))
  /\ nl' = nl + 2
  /\ UNCHANGED <<nt, types, replaced>>

ForStmt(names) ==
  /\ AStmt
  /\ AtStatement /\ InStatement /\ Top.phase = "list"
  /\ Begin(Block("for", "init", LabelName(nl + 1), LabelName(nl), names))
  /\ nl' = nl + 2
  /\ UNCHANGED <<instrs, vals, nt, types, replaced>>

ForCondition ==
  /\ Held = 1 /\ Has(1) /\ Top.phase = "cond"
  /\ Emit(<<CmpLiteralTAC(vals[1].n), JneTAC(Top.exit)>>)
  /\ vals' = <<>>
  /\ blocks' = [blocks EXCEPT ![Depth].phase = "list"]
  /\ UNCHANGED <<nt, nl, np, types, replaced, size>>

\* A function is defined at most once, declared before or not, and not after
\* something was assigned to it.
FuncDecl(f, names) ==
  /\ AStmt
  /\ Depth = 1 /\ vals = <<>>
  /\ f \in blocks[1].names
  /\ \A i \in 1..Len(instrs) : VarName(0, f) \notin {instrs[i].def, instrs[i].label}
  /\ Depth < MaxBlocks
  /\ names \subseteq Ids \ Visible
  /\ blocks' = <<[blocks[1] EXCEPT !.seen = @ \cup {f}], Block("func", "list", NoName, NoName, names)>>
  /\ np' = np + 1
  /\ Emit(<<FuncLabel(VarName(0, f)), SetupStackTAC>>)
  /\ Put(VarName(0, f))
  /\ UNCHANGED <<vals, nt, nl>>

Deletes == [i \in 1..Len(Top.locals) |-> DeleteTAC(Top.locals[i])]

\* Mutant of Exit: the block of a while is left by the label it began with.
ExitByFirst(b) == IF b.k = "while" THEN b.again ELSE b.exit

Exit(b) == b.exit

\* The end of a list of statements, which is not empty, and of its block: a
\* for goes on with the last part of its header.
EndBlock ==
  /\ AtStatement /\ Top.phase = "list" /\ Top.k # "prog"
  /\ Top.last # "none" /\ Top.seen = Top.names
  /\ CASE Top.k = "for"  -> /\ Emit(Deletes)
                            /\ blocks' = [blocks EXCEPT ![Depth].phase = "update"]
       [] Top.k = "func" -> /\ Emit(Deletes \o IF Top.last = "return" THEN <<>> ELSE <<VoidReturnTAC>>)
                            /\ blocks' = SubSeq(blocks, 1, Depth - 1)
       [] OTHER          -> /\ Emit(Deletes \o <<LabelTAC(Exit(Top))>>)
                            /\ blocks' = Past(SubSeq(blocks, 1, Depth - 1), "other")
  /\ UNCHANGED <<vals, nt, nl, np, types, replaced, size>>

-----------------------------------------------------------------------------
Init ==
  /\ instrs = <<>> /\ vals = <<>>
  /\ nt = 0 /\ nl = 0 /\ np = 1
  /\ types = {} /\ replaced = <<>>
  /\ size = [exprs |-> 0, stmts |-> 0]
  /\ \E names \in SUBSET Ids :
       blocks = <<[k |-> "prog", phase |-> "list", exit |-> NoName, again |-> NoName, table |-> 0,
                   names |-> names \cup Funcs, seen |-> {}, locals |-> <<>>, last |-> "none"]>>

Next ==
  \/ IntLiteral \/ Unsupported \/ Operation \/ Callee \/ Argument \/ FunctionCallExpr
  \/ \E x \in Ids \cup Funcs : Ident(x) \/ VarDecl(x)
  \/ \E x \in Ids : BeginVarDeclInit(x)
  \/ VarDeclInit \/ Assignment \/ FunctionCallStmt \/ ReturnStatement \/ SilentStmt
  \/ \E names \in SUBSET Ids : IfStmt(names) \/ WhileStmt(names) \/ ForStmt(names)
  \/ ForCondition
  \/ \E f \in Funcs, names \in SUBSET Ids : FuncDecl(f, names)
  \/ EndBlock

Spec == Init /\ [][Next]_vars

-----------------------------------------------------------------------------
(* Properties.                                                             *)

\* A name that the parser sees declared is looked up, in maps that also hold
\* what is declared further on, in the map of the block that declares it.
LookupFindsDeclaration ==
  \A i \in 1..Depth : \A x \in Seen(i) : MapOf(x) = i

\* What the allocator is given (RegAlloc): an instruction reads temporaries
\* that some earlier one made, variables that none has deleted, and the empty
\* name; a temporary is made once; a variable is deleted once, and nothing is
\* assigned to it after.
DeletedBefore(i, n) == \E j \in 1..(i - 1) : instrs[j] = DeleteTAC(n)
Makes(i) == instrs[i].op \in {"value", "compute", "retval"}
MadeBefore(i, n) == \E j \in 1..(i - 1) : Makes(j) /\ instrs[j].def = n
IsVar(n) == n[1] = "p"
Usable(i, n) == n = NoName \/ (IsVar(n) /\ ~DeletedBefore(i, n)) \/ MadeBefore(i, n)

AllocatorInput ==
  \A i \in 1..Len(instrs) :
    /\ \A n \in instrs[i].uses : Usable(i, n)
    /\ Makes(i) => ~IsVar(instrs[i].def) /\ ~MadeBefore(i, instrs[i].def)
    /\ instrs[i].op = "assign" => Usable(i, instrs[i].def)
    /\ instrs[i].op = "delete" => IsVar(instrs[i].def) /\ ~DeletedBefore(i, instrs[i].def)

\* A conditional jump goes to one place, further on in the same function, and
\* when the function is complete the place is there. So all jumps go forward:
\* the code of a loop runs its body at most once.
Places(j, l) == instrs[j].op = "label" /\ instrs[j].label = l

JumpsLand ==
  \A i \in 1..Len(instrs) : instrs[i].op = "jne" =>
    LET l == instrs[i].label IN
    /\ \A j \in 1..Len(instrs) : Places(j, l) =>
         /\ i < j /\ \A k \in i..j : instrs[k].op # "function" /\ (Places(k, l) => k = j)
    /\ Depth = 1 => \E j \in 1..Len(instrs) : Places(j, l)

\* The type table drops no type but, once, that of a function which the code
\* reads before it defines it. A function that is only read after it, a
\* variable or a temporary keeps the type it was given first.
TypesKept ==
  \A k \in 1..Len(replaced) :
    LET n == replaced[k] IN
    /\ \E i, j \in 1..Len(instrs) : i < j /\ n \in instrs[i].uses /\ instrs[j] = FuncLabel(n)
    /\ \A m \in 1..Len(replaced) : replaced[m] = n => m = k
=============================================================================
