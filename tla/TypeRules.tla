----------------------------- MODULE TypeRules -----------------------------
(***************************************************************************)
(* The type expressions of X and what the typechecker does with them       *)
(* (typechecker.cpp, the Typename classes of ast.cpp): equality, casts,    *)
(* sizes, and the rule by which each expression's type follows from those  *)
(* of its operands. TypeExprs runs the rules as a machine; Typecheck,      *)
(* whose statements only compare types, is given what it needs of them.    *)
(***************************************************************************)
EXTENDS TypeSyntax, Integers, Sequences, SequencesExt

CONSTANTS
  AliasOf,    \* the function from the names declared by `type` to their types
  StructOf,   \* the function from the names declared by `struct` to theirs
  VarOf,      \* the function from the variables around the structs to theirs
  Type,       \* the types considered, with all that they lead to
  height      \* the function from these to numbers that fall along the way

ASSUME NamesDiffer == DOMAIN AliasOf \cap DOMAIN StructOf = {}

-----------------------------------------------------------------------------
(* What a type leads to: the types it is made of, and what it names.       *)

MemberDecl == [name : STRING, type : Type]

\* Every type is written with one of the constructors.
IsWritten(t) ==
  CASE t.k = "id"     -> t = TypeIdent(t.n)
    [] t.k = "array"  -> t = StaticArray(t.t, t.size)
    [] t.k = "tuple"  -> t = TupleType(t.ts) /\ t.ts \in Seq(Type)
    [] t.k = "func"   -> t = FuncType(t.ts, t.t) /\ t.ts \in Seq(Type)
    [] t.k = "struct" -> /\ t = StructWith(t.ms, t.decls) /\ t.ms \in Seq(MemberDecl)
                         /\ t.decls \in {"source", "own", "deleted"}
    [] OTHER          -> t.k \in {"parens", "ptr", "mut", "dyn"} /\ t = [k |-> t.k, t |-> t.t]

Parts(t) ==
  CASE t.k = "id"     -> {}
    [] t.k = "tuple"  -> {t.ts[i] : i \in DOMAIN t.ts}
    [] t.k = "func"   -> {t.ts[i] : i \in DOMAIN t.ts} \cup {t.t}
    [] t.k = "struct" -> {t.ms[i].type : i \in DOMAIN t.ms}
    [] OTHER          -> {t.t}

Named(t) ==
  IF t.k # "id" THEN {}
  ELSE {AliasOf[n] : n \in {t.n} \cap DOMAIN AliasOf}
         \cup {StructOf[n] : n \in {t.n} \cap DOMAIN StructOf}

\* No type leads back to itself. A struct that mentions its own name, as in
\* `struct S {S* next.}`, does: the parser takes it, and comparing two of
\* its kind calls type_equals without end.
ASSUME PartsAssumption ==
  /\ height \in [Type -> Nat]
  /\ \A t \in Type :
       /\ IsWritten(t)
       /\ \A u \in Parts(t) \cup Named(t) : u \in Type /\ height[u] < height[t]

\* The names of the primitives are taken, and a struct's name names a struct.
ASSUME NamesAssumption ==
  /\ {IntT, FloatT, BoolT, CharT} \subseteq Type
  /\ {"int", "float", "bool", "char"} \cap (DOMAIN AliasOf \cup DOMAIN StructOf) = {}
  /\ \A n \in DOMAIN StructOf : StructOf[n].k = "struct"
  /\ \A n \in DOMAIN VarOf : VarOf[n] \in Type

-----------------------------------------------------------------------------
\* A name that stands for another type is followed; a primitive stays.
unaliased[t \in Type] ==
  CASE t.k = "parens" -> unaliased[t.t]
    [] t.k = "id" /\ t.n \in DOMAIN AliasOf -> unaliased[AliasOf[t.n]]
    [] t.k = "id" /\ t.n \in DOMAIN StructOf -> StructOf[t.n]
    [] OTHER -> t

Unaliased(t) == unaliased[t]

\* The type of a's class whose parts are what f makes of a's.
WithParts(f, a, decls) ==
  LET All(ts) == [i \in DOMAIN ts |-> f[ts[i]]]
  IN  CASE a.k = "id"     -> a
        [] a.k = "array"  -> StaticArray(f[a.t], a.size)
        [] a.k = "tuple"  -> TupleType(All(a.ts))
        [] a.k = "func"   -> FuncType(All(a.ts), f[a.t])
        [] a.k = "struct" -> StructWith([i \in DOMAIN a.ms |->
                               [name |-> a.ms[i].name, type |-> f[a.ms[i].type]]], decls)
        [] OTHER          -> [k |-> a.k, t |-> f[a.t]]

\* What a type stands for: no parentheses and no declared names in it.
meaning[t \in Type] == WithParts(meaning, unaliased[t], "source")

Meaning(t) == meaning[t]

\* The clone() of a part of a type that is deleted right after. A struct's
\* clone has new members but the same symbol table, whose declarations are
\* deleted with the type that owned them.
cloned[t \in Type] ==
  WithParts(cloned, t, IF t.k = "struct" /\ t.decls # "source" THEN "deleted" ELSE "source")

Cloned(t) == cloned[t]

\* What a type stands for, and its clone, are among the types considered.
ASSUME MeaningsAssumption == \A t \in Type : meaning[t] \in Type /\ cloned[t] \in Type

\* Only a `mut` that is written at the head is taken off.
BaseType(t) == IF t.k = "mut" THEN Unaliased(t.t) ELSE t

\* type_equals. A tuple's and a function's lists agree in length and
\* element by element, a struct's members also in their names.
equals[t \in Type] == [u \in Type |->
  LET a == unaliased[t]
      b == unaliased[u]
      AllEqual == Len(a.ts) = Len(b.ts) /\ \A i \in DOMAIN a.ts : equals[a.ts[i]][b.ts[i]]
  IN  /\ a.k = b.k
      /\ CASE a.k = "id"     -> a = b
           [] a.k = "array"  -> equals[a.t][b.t] /\ a.size = b.size
           [] a.k = "tuple"  -> AllEqual
           [] a.k = "func"   -> equals[a.t][b.t] /\ AllEqual
           [] a.k = "struct" ->
                /\ Len(a.ms) = Len(b.ms)
                /\ \A i \in DOMAIN a.ms : /\ a.ms[i].name = b.ms[i].name
                                          /\ equals[a.ms[i].type][b.ms[i].type]
           [] OTHER          -> equals[a.t][b.t]]

\* Mutant of Equals: names are followed at the head only.
EqualsAtHead(t, u) == Unaliased(t) = Unaliased(u)

Equals(t, u) == equals[t][u]

\* can_cast_to.
canCast[t \in Type] == [u \in Type |->
  LET a == unaliased[t]
      b == unaliased[u]
  IN  CASE a.k = "id"     -> \/ a = IntT /\ b.k = "ptr"
                             \/ b.k = "id" /\ (a = b \/ (a = IntT /\ b = FloatT))
        [] a.k = "ptr"    -> \/ Equals(a.t, b)
                             \/ b = IntT
                             \/ b.k = "ptr" /\ Equals(a.t, b.t)
        [] a.k = "mut"    -> b.k = "mut" /\ canCast[a.t][b.t]
        [] a.k = "dyn"    -> b.k = "ptr" /\ Equals(a.t, b.t)
        [] a.k = "tuple"  -> \/ Len(a.ts) = 1 /\ Equals(a.ts[1], b)
                             \/ Equals(a, b)
        [] a.k = "array"  -> \/ a.size = 1 /\ Equals(a.t, b)
                             \/ b.k = "array" /\ a.size = b.size /\ canCast[a.t][b.t]
        [] OTHER          -> Equals(a, b)]

\* Mutant of CanCast: the destination is taken as it is written.
CanCastAsWritten(t, u) ==
  LET a == Unaliased(t)
  IN  a = u \/ (a = IntT /\ (u = FloatT \/ u.k = "ptr")) \/ (a.k = "ptr" /\ u = IntT)

CanCast(t, u) == canCast[t][u]

\* Whether type_size returns. A primitive's unaliased type is itself, and
\* asking that for its size is the same call again.
sized[t \in Type] ==
  CASE t.k = "id"     -> unaliased[t] # t /\ sized[unaliased[t]]
    [] t.k = "tuple"  -> \A i \in DOMAIN t.ts : sized[t.ts[i]]
    [] t.k = "struct" -> \A i \in DOMAIN t.ms : sized[t.ms[i].type]
    [] t.k \in {"ptr", "func", "dyn"} -> TRUE
    [] OTHER          -> sized[t.t]

HasSize(t) == sized[t]

-----------------------------------------------------------------------------
(* Constructors that ask for the sizes of the parts while they run: the    *)
(* result is the type, or the way in which the constructor fails.          *)

NewTuple(ts) ==
  IF \A i \in DOMAIN ts : HasSize(ts[i]) THEN TupleType(ts) ELSE Never

NewStruct(ms, decls) ==
  IF \A i \in DOMAIN ms : HasSize(ms[i].type) THEN StructWith(ms, decls) ELSE Never

\* The first offset is written to a vector that is still empty.
NewFunc(ps, r) == IF ps # <<>> THEN Fault ELSE FuncType(ps, r)

-----------------------------------------------------------------------------
(* The type_of methods, given the types of the operands.                   *)

IsNumeric(t) == Equals(t, IntT) \/ Equals(t, FloatT)

\* Ident::type_of for a variable of type t.
IdentRule(t) == Unaliased(t)

\* Mutant of MathRule: modulo is taken for floats too.
MathRuleAnyModulo(op, l, r) ==
  IF IsNumeric(BaseType(l)) /\ IsNumeric(BaseType(r))
  THEN IF Equals(BaseType(l), IntT) /\ Equals(BaseType(r), IntT) THEN IntT ELSE FloatT
  ELSE Error

MathRule(op, l, r) ==
  LET a == BaseType(l)
      b == BaseType(r)
      bothInt == Equals(a, IntT) /\ Equals(b, IntT)
  IN  IF ~IsNumeric(a) \/ ~IsNumeric(b) \/ (op = "%" /\ ~bothInt) THEN Error
      ELSE IF bothInt THEN IntT ELSE FloatT

BoolRule(l, r) ==
  IF Equals(BaseType(l), BoolT) /\ Equals(BaseType(r), BoolT) THEN BoolT ELSE Error

\* The second and further elements of an array literal, against the first.
ElementFits(first, t) == Equals(first, t)

\* Mutant of DerefRule: a dynamic array is followed like a pointer.
DerefRuleAny(t) == IF t.k \in {"ptr", "dyn"} THEN Cloned(Unaliased(t.t)) ELSE Error

DerefRule(t) == IF t.k = "ptr" THEN Cloned(Unaliased(t.t)) ELSE Error

CastRule(t, dest) == IF CanCast(t, dest) THEN dest ELSE Error

\* `in` on a mutable array reads the mut node as if it were the array node:
\* what it takes for the element's type is the array's.
InRule(l, r) ==
  LET element == r.t
  IN  IF BaseType(r).k = "array" /\ Equals(BaseType(l), element) THEN BoolT ELSE Error

LogicalRule(op, l, r) ==
  CASE op = "=="  -> IF Equals(BaseType(l), BaseType(r)) THEN BoolT ELSE Error
    [] op = "in"  -> InRule(l, r)
    [] op = "<"   -> IF IsNumeric(BaseType(l)) /\ IsNumeric(BaseType(r)) THEN BoolT ELSE Error

BangRule(t) == IF Equals(t, BoolT) THEN BoolT ELSE Error

\* The struct's table is searched with get, which goes on to the table
\* around it. The types declared there are no variables. What is found of a
\* member may be a deleted declaration.
Members(t) == {t.ms[i].name : i \in DOMAIN t.ms}
MemberRule(t, name) ==
  IF t.k # "struct" THEN Error
  ELSE IF name \in Members(t)
  THEN IF t.decls = "deleted" THEN Fault
       ELSE Cloned(t.ms[SelectLastInSeq(t.ms, LAMBDA m : m.name = name)].type)
  ELSE IF name \in DOMAIN VarOf THEN VarOf[name] ELSE Error

\* An array that is `mut` is none to the rule.
IndexRule(t, i) ==
  IF t.k = "array" /\ Equals(BaseType(Unaliased(i)), IntT) THEN Cloned(t.t) ELSE Error
=============================================================================
