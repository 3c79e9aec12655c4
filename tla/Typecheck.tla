----------------------------- MODULE Typecheck -----------------------------
(***************************************************************************)
(* The typechecker's walk over statements (the typecheck methods of        *)
(* typechecker.cpp) and the report it fills (errors.cpp). The program is   *)
(* any program: each step takes the next statement, with any types for its *)
(* expressions, and does what the handler does with it. The frames are the *)
(* handlers in progress, outermost first; each has a symbol table of its   *)
(* own. A CompilerError that is thrown leaves every frame up to the        *)
(* innermost list of statements, which catches it. What the report should  *)
(* say is counted beside it, from the meaning of the types alone.          *)
(*                                                                         *)
(* A function's forward declaration is not looked at: FuncDecl has a       *)
(* forward_decl, which its constructor sets to null and nothing else sets, *)
(* so that the comparison after the body is never made.                    *)
(*                                                                         *)
(* What the handlers ask of types are constants here, and the definitions  *)
(* of TypeRules in the instances.                                          *)
(***************************************************************************)
EXTENDS TypeSyntax, Integers, Sequences, SequencesExt

CONSTANTS
  TypeEquals(_, _),  \* type_equals
  Base(_),           \* base_type
  NameType(_),       \* the type_of of an identifier declared with the type
  MeaningOf(_)       \* what a type stands for, however it is written

CONSTANTS
  Types,      \* the types that expressions and declarations have
  Returns,    \* the types that functions are declared to return
  MaxDepth,   \* bound: frames
  MaxStmts    \* bound: statements of the program

VARIABLES
  frames,     \* the handlers in progress: kind and phase; how many symbols of
              \* the frame's table are never initialized; for a list, what its
              \* last statement is, and for a function, what it returns
  errors,     \* type_errors of level Error
  warnings,   \* type_errors of level Warn
  flaws,      \* what is wrong with the statements so far, counted one by one
  bare,       \* symbols declared so far that nothing initializes
  mismatches, \* functions so far that their forward declaration does not fit
  owed,       \* blocks of the statements begun that have not been walked
  stmts       \* statements taken

vars == <<frames, errors, warnings, flaws, bare, mismatches, owed, stmts>>

Exprs == Types \cup {Error}
VoidT == TypeIdent("void")
PleaseT == TypeIdent("Please")
Count(b) == IF b THEN 1 ELSE 0

\* `list` frames walk a StatementList; the others wait for the part of a
\* statement that comes before its list.
Frame(k, phase) == [k |-> k, phase |-> phase, uninit |-> 0, ret |-> VoidT, last |-> "none"]

InnermostList(fs) == SelectLastInSeq(fs, LAMBDA f : f.phase = "list")

\* Mutant of Caught: only the list of a function's body catches.
CaughtByFunction(fs) == SubSeq(fs, 1, Count(fs # <<>>))

\* A thrown error ends every handler above the innermost list.
Caught(fs) == SubSeq(fs, 1, InnermostList(fs))

\* A statement is taken. It may be one of a list, or in the header of a for.
Ran(fs, how) ==
  IF fs = <<>> \/ Last(fs).phase # "list" THEN fs
  ELSE [fs EXCEPT ![Len(fs)].last = how]

Running(fs) == Ran(fs, "other")

\* The statement fs waited for has returned.
Advance(fs) ==
  IF fs = <<>> THEN fs
  ELSE [fs EXCEPT ![Len(fs)].phase =
          IF @ = "init" THEN "cond" ELSE "list"]

\* The table a declaration here goes to: that of a for or an else is made
\* after the statement or the if that precedes it.
Table(fs) == SelectLastInSeq(fs, LAMBDA f : f.phase \notin {"init", "if"})

AtStatement ==
  /\ IF frames = <<>> THEN TRUE ELSE Last(frames).phase \in {"list", "init", "update"}
  /\ stmts < MaxStmts

-----------------------------------------------------------------------------
(* What is assumed of types. It is what TypesProof proves of the            *)
(* definitions in TypeRules; the last two leave out aliases of a `mut` or  *)
(* of a function type, which the handlers do not see through.              *)

\* The meaning of a type whose value is read.
ValueOf(t) == LET m == MeaningOf(t) IN IF m.k = "mut" THEN m.t ELSE m

\* All types that a handler compares with another.
Compared ==
  Types \cup Returns \cup {BoolT, VoidT, PleaseT}
    \cup {Base(t) : t \in Types} \cup {NameType(t) : t \in Types}
    \cup {t.t : t \in {u \in Types : u.k = "mut"}}

\* Two types are equal exactly if they stand for the same type.
ComparisonAssumption ==
  \A t, u \in Compared : TypeEquals(t, u) <=> MeaningOf(t) = MeaningOf(u)

\* An identifier stands for what it is declared with.
NameAssumption == \A t \in Types : MeaningOf(NameType(t)) = MeaningOf(t)

\* A `mut` at the head of what a type stands for is written there.
MutAssumption ==
  \A t \in Types :
    /\ MeaningOf(t).k = "mut" <=> t.k = "mut"
    /\ t.k = "mut" => MeaningOf(t) = Mut(MeaningOf(t.t))
    /\ MeaningOf(Base(t)) = ValueOf(t)

\* So is a function type, which has no parameters.
FuncAssumption ==
  \A t \in Types :
    /\ t # Error
    /\ MeaningOf(t).k = "func" <=> t.k = "func"
    /\ t.k = "func" => t.ts = <<>> /\ t.t # Error

ASSUME TypesAssumption ==
  ComparisonAssumption /\ NameAssumption /\ MutAssumption /\ FuncAssumption

-----------------------------------------------------------------------------
(* The walks up the tables.                                                *)

EnclosingFunc == frames[SelectLastInSeq(frames, LAMBDA f : f.k = "func")]

\* Mutant of InLoop: the walk stops at the first block.
InnermostIsLoop == Last(frames).k \in {"for", "while"}

InLoop == SelectLastInSeq(frames, LAMBDA f : f.k \in {"for", "while"}) # 0

-----------------------------------------------------------------------------
(* Statements without blocks. The handler throws, reports or accepts;      *)
(* flawed is what it should find.                                          *)

Simple(outcome, flawed, how) ==
  /\ AtStatement
  /\ stmts' = stmts + 1
  /\ errors' = errors + Count(outcome # "ok")
  /\ flaws' = flaws + Count(flawed)
  /\ frames' = IF outcome = "throws" THEN Caught(Ran(frames, how)) ELSE Advance(Ran(frames, how))
  /\ UNCHANGED <<warnings, bare, mismatches, owed>>

Throws(b) == IF b THEN "throws" ELSE "ok"
Reports(b) == IF b THEN "reports" ELSE "ok"

\* A declaration in a function puts a symbol, which something initializes or
\* nothing does; it is accepted or throws.
Declaration(accepted, initialized) ==
  LET declared == [Running(frames) EXCEPT ![Table(frames)].uninit = @ + Count(~initialized)]
  IN  /\ AtStatement
      /\ frames # <<>>
      /\ stmts' = stmts + 1
      /\ errors' = errors + Count(~accepted)
      /\ bare' = bare + Count(~initialized)
      /\ frames' = IF accepted THEN Advance(declared) ELSE Caught(declared)
      /\ UNCHANGED <<warnings, flaws, mismatches, owed>>

\* Some assignment initializes the variable or none does.
VarDecl(t, initialized) == Declaration(TypeEquals(NameType(t), t), initialized)

\* An alias or a struct declared in a function: nothing is checked, and
\* nothing can initialize the symbol.
TypeDecl == Declaration(TRUE, FALSE)

VarDeclInit(t, e) ==
  Simple(Throws(e = Error \/ ~TypeEquals(Base(e), Base(t))),
         e = Error \/ ValueOf(e) # ValueOf(t), "other")

Assignment(l, r) ==
  LET fits == IF r.k = "mut" THEN TypeEquals(l, r) ELSE TypeEquals(l.t, r)
  IN  Simple(Throws(Error \in {l, r} \/ l.k # "mut" \/ ~fits),
             Error \in {l, r} \/ MeaningOf(l).k # "mut" \/ ValueOf(r) # ValueOf(l), "other")

\* With n arguments; what is called is of type e.
FunctionCallStmt(e, n) ==
  Simple(Throws(e = Error \/ CallRule(e, n) = Error),
         e = Error \/ MeaningOf(e).k # "func" \/ n # 0, "other")

ReturnStatement(e) ==
  Simple(Reports(e = Error \/ ~TypeEquals(e, EnclosingFunc.ret)),
         e = Error \/ MeaningOf(e) # MeaningOf(EnclosingFunc.ret), "return")

\* return., in a function that returns nothing. A function may return
\* Please, but a statement that does so has no production.
VoidReturn ==
  Simple(Reports(~TypeEquals(EnclosingFunc.ret, VoidT)),
         MeaningOf(EnclosingFunc.ret) # MeaningOf(VoidT), "other")

\* break and continue: they need a loop around them.
JumpStmt ==
  Simple(Reports(~InLoop), \A i \in DOMAIN frames : frames[i].k \notin {"for", "while"}, "other")

-----------------------------------------------------------------------------
(* Statements with blocks.                                                 *)

\* The condition of a statement, when there are n blocks to come: it throws
\* and the statement is over, or the next frames fs go on.
Condition(e, fs) ==
  /\ flaws' = flaws + Count(e = Error \/ MeaningOf(e) # MeaningOf(BoolT))
  /\ errors' = errors + Count(e = Error \/ ~TypeEquals(e, BoolT))
  /\ frames' = IF e = Error THEN Caught(Running(frames)) ELSE fs

\* Mutant of Begin: one block is owed, however many there are.
BeginOne(n) ==
  /\ AtStatement
  /\ frames # <<>>
  /\ Len(frames) < MaxDepth
  /\ stmts' = stmts + 1
  /\ owed' = owed + 1
  /\ UNCHANGED <<warnings, bare, mismatches>>

Begin(n) ==
  /\ AtStatement
  /\ frames # <<>>
  /\ Len(frames) < MaxDepth
  /\ stmts' = stmts + 1
  /\ owed' = owed + n
  /\ UNCHANGED <<warnings, bare, mismatches>>

IfStmt(e)    == Begin(1) /\ Condition(e, Append(Running(frames), Frame("if", "list")))
WhileStmt(e) == Begin(1) /\ Condition(e, Append(Running(frames), Frame("while", "list")))

\* Mutant of IfElseStmt: the blocks of the else are left out.
IfOnlyStmt(e) == Begin(2) /\ Condition(e, Append(Running(frames), Frame("if", "list")))

\* The if is checked first, with the table of the else.
IfElseStmt(e) ==
  /\ Len(frames) + 1 < MaxDepth
  /\ Begin(2)
  /\ Condition(e, Running(frames) \o <<Frame("else", "if"), Frame("if", "list")>>)

ForStmt ==
  /\ Begin(1)
  /\ frames' = Append(Running(frames), Frame("for", "init"))
  /\ UNCHANGED <<errors, flaws>>

\* The condition comes after the initial statement has been checked.
ForCond(e) ==
  /\ frames # <<>> /\ Last(frames).phase = "cond"
  /\ Condition(e, [frames EXCEPT ![Len(frames)].phase = "update"])
  /\ UNCHANGED <<warnings, bare, mismatches, owed, stmts>>

\* Mutant of Unset: the symbols of the table around are warned of again.
UnsetAround(fs) == Last(fs).uninit + IF Len(fs) > 1 THEN fs[Len(fs) - 1].uninit ELSE 0

\* The symbols of the innermost table that are not initialized.
Unset(fs) == Last(fs).uninit

\* The end of a list, which is not empty: a warning for each symbol of the
\* table that is not initialized. The statement the list belongs to is over.
EndList ==
  /\ frames # <<>> /\ Last(frames).phase = "list" /\ Last(frames).k # "func"
  /\ Last(frames).last # "none"
  /\ warnings' = warnings + Unset(frames)
  /\ owed' = owed - 1
  /\ frames' = Advance(Front(frames))
  /\ UNCHANGED <<errors, flaws, bare, mismatches, stmts>>

\* FuncDecl, a node of the program, up to its body. Its forward declaration,
\* if it has one, says that it returns declared.
FuncDecl(ret, declared) ==
  /\ frames = <<>>
  /\ stmts < MaxStmts
  /\ stmts' = stmts + 1
  /\ owed' = owed + 1
  /\ frames' = <<[Frame("func", "list") EXCEPT !.ret = ret]>>
  /\ mismatches' = mismatches + Count(MeaningOf(declared) # MeaningOf(ret))
  /\ UNCHANGED <<errors, warnings, flaws, bare>>

\* After the body, the statement it ends with.
EndFunc ==
  LET f == frames[1]
      mustReturn == ~TypeEquals(f.ret, PleaseT) /\ ~TypeEquals(f.ret, VoidT)
  IN  /\ Len(frames) = 1 /\ f.phase = "list" /\ f.last # "none"
      /\ errors' = errors + Count(mustReturn /\ f.last # "return")
      /\ flaws' = flaws + Count(/\ MeaningOf(f.ret) \notin {MeaningOf(PleaseT), MeaningOf(VoidT)}
                                /\ f.last # "return")
      /\ warnings' = warnings + Unset(frames)
      /\ owed' = owed - 1
      /\ frames' = <<>>
      /\ UNCHANGED <<bare, mismatches, stmts>>

-----------------------------------------------------------------------------
Init ==
  /\ frames = <<>>
  /\ errors = 0 /\ warnings = 0 /\ flaws = 0 /\ bare = 0 /\ mismatches = 0
  /\ owed = 0 /\ stmts = 0

InFunc == frames # <<>>

Next ==
  \/ \E t \in Types, b \in BOOLEAN : VarDecl(t, b)
  \/ TypeDecl
  \/ \E t \in Types, e \in Exprs : VarDeclInit(t, e)
  \/ \E l, r \in Exprs : InFunc /\ Assignment(l, r)
  \/ \E e \in Exprs, n \in 0..1 : InFunc /\ FunctionCallStmt(e, n)
  \/ \E e \in Exprs : InFunc /\ ReturnStatement(e)
  \/ InFunc /\ VoidReturn
  \/ InFunc /\ JumpStmt
  \/ \E e \in Exprs : IfStmt(e) \/ WhileStmt(e) \/ IfElseStmt(e) \/ ForCond(e)
  \/ ForStmt
  \/ EndList
  \/ \E t, d \in Returns : FuncDecl(t, d)
  \/ EndFunc

Spec == Init /\ [][Next]_vars

\* SourceErrors.
error_count == errors + warnings
has_errors == error_count > 0

-----------------------------------------------------------------------------
(* Properties.                                                             *)

\* The types of the variables. The outermost handler is that of a function
\* and no other is; it has no part but its list.
TypeOK ==
  /\ frames \in Seq([k : {"func", "if", "else", "while", "for"},
                     phase : {"if", "init", "cond", "update", "list"},
                     uninit : Nat, ret : Returns \cup {VoidT},
                     last : {"none", "return", "other"}])
  /\ \A i \in DOMAIN frames : (frames[i].k = "func") <=> (i = 1)
  /\ frames # <<>> => frames[1].phase = "list" /\ frames[1].ret \in Returns
  /\ errors \in Nat /\ warnings \in Nat /\ flaws \in Nat
  /\ bare \in Nat /\ mismatches \in Nat
  /\ owed \in Nat /\ stmts \in Nat

\* The report has one error for everything that is wrong with the statements
\* that were checked: nothing is found twice, on the way out of nested
\* handlers say, nothing is dropped, and nothing is found that is not there.
\* Forward declarations are not checked (MismatchReported).
ReportedOnce == errors = flaws

\* A symbol is warned of once, at the end of the list of the table it was
\* put in, however deep that is; when every block has been walked, each that
\* nothing initializes has its warning. A type declared in a function is one
\* of them, though nothing could initialize it. An error in the header of a
\* for inside the header of another can cost a warning.
WarnedOnce ==
  /\ warnings <= bare
  /\ (frames = <<>> /\ owed = 0) => warnings = bare

\* A program in which the type of a function is not that of its forward
\* declaration is reported. This is what the error of FuncDecl::typecheck is
\* for, and the third error that the test of rejected programs expects; the
\* code never gets to it.
MismatchReported == (frames = <<>> /\ mismatches > 0) => has_errors

\* An error in a condition leaves a statement's blocks unchecked, but never
\* in a program that is reported clean: between the nodes of the program,
\* every block has been walked or there is an error.
NothingUnchecked == (frames = <<>> /\ owed > 0) => errors > 0

\* An error costs at most the statement it is in: no list of statements is
\* left before its end.
Contained == [][(errors' > errors /\ ~EndFunc) => Len(frames') >= InnermostList(frames)]_vars
=============================================================================
