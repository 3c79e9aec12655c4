----------------------------- MODULE TypeExprs -----------------------------
(***************************************************************************)
(* Type names and expressions, as the parser builds them and type_of       *)
(* computes their types: the type name under construction, and the types   *)
(* of the operands computed so far (a type_of computes the operands' types *)
(* from left to right and then applies its rule). A rule that throws ends  *)
(* the expression, and so do the two ways in which the constructors of     *)
(* types fail.                                                             *)
(***************************************************************************)
EXTENDS TypeRules, FiniteSets

CONSTANTS
  TypeNames,   \* the names of types in scope
  Literals,    \* the types of literals
  FuncOf,      \* the function from the declared functions to a record of
               \* their parameters' types and their return type
  MaxDepth,    \* bound: how deep a type nests
  MaxTotal,    \* bound: on the depths of all of them together
  MaxOperands  \* bound: operands at a time

VARIABLES
  typ,         \* the type name that was written last
  operands,    \* the types of the operands computed so far
  status       \* "running", or how it ended: "error", "fault", "never"

vars == <<typ, operands, status>>

Primitives == {"int", "float", "bool", "char"}

depth[t \in Type] ==
  IF Parts(t) = {} THEN 0 ELSE 1 + Max({depth[u] : u \in Parts(t)})

IsType(r) == r \notin {Error, Fault, Never}

Top == Last(operands)
Below == operands[Len(operands) - 1]

\* The types are among those considered. With two operands half the bound on
\* all together is for these, and the type name is a single one.
Fits(t, ts) ==
  LET total == FoldLeft(LAMBDA d, u : d + depth[u], depth[t], ts)
  IN  /\ \A u \in Range(ts) \cup {t} : u \in Type /\ depth[u] <= MaxDepth
      /\ total <= MaxTotal
      /\ Len(ts) > 1 => depth[t] = 0 /\ 2 * total <= MaxTotal

\* A constructor or a rule that fails ends the expression.
Fails(r) ==
  /\ status' = r.k
  /\ operands' = <<>>
  /\ UNCHANGED typ

\* The outcome r of a constructor, which the type name becomes.
Build(r) ==
  /\ status = "running"
  /\ \/ ~IsType(r) /\ Fails(r)
     \/ IsType(r) /\ Fits(r, operands) /\ typ' = r /\ UNCHANGED <<operands, status>>

\* The outcome r of a rule, in place of the n operands it was given.
GiveAndWrite(n, r, t) ==
  LET held == Append(SubSeq(operands, 1, Len(operands) - n), r)
  IN  /\ status = "running"
      /\ Len(held) <= MaxOperands
      /\ \/ ~IsType(r) /\ Fails(r)
         \/ IsType(r) /\ Fits(t, held) /\ operands' = held /\ typ' = t /\ UNCHANGED status

Give(n, r) == GiveAndWrite(n, r, typ)

Has(n) == Len(operands) >= n

-----------------------------------------------------------------------------
Init ==
  /\ typ = IntT
  /\ operands = <<>>
  /\ status = "running"

(* The productions of type_name. Array literals bring other lengths, and    *)
(* tuple expressions other tuples.                                         *)
Name       == \E n \in TypeNames : Build(TypeIdent(n))
InParens   == Build(Parens(typ))
Pointer    == Build(Ptr(typ))
Mutable    == Build(Mut(typ))
Plural     == Build(DynArray(typ))
Sized      == Build(StaticArray(typ, 2))
Tuple      == Build(NewTuple(<<Ptr(CharT), typ>>))
Function   == \E ps \in {<<>>, <<typ>>} : Build(NewFunc(ps, typ))
Struct     == Build(NewStruct(<<[name |-> "p", type |-> typ]>>, "source"))

(* The kinds of expression.                                                *)
Literal    == \E t \in Literals : Give(0, t)
Variable   == GiveAndWrite(0, IdentRule(typ), IntT)
Callee     == \E f \in DOMAIN FuncOf : Give(0, NewFunc(FuncOf[f].params, FuncOf[f].ret))
Math       == Has(2) /\ \E op \in {"+", "%"} : Give(2, MathRule(op, Below, Top))
Bool       == Has(2) /\ Give(2, BoolRule(Below, Top))
Logical    == Has(2) /\ \E op \in {"==", "in", "<"} : Give(2, LogicalRule(op, Below, Top))
Call       == Has(1) /\ \E n \in 0..1 : Give(1, CallRule(Top, n))
TupleExpr  == \E n \in 1..2 : Has(n) /\ Give(n, NewTuple(SubSeq(operands, Len(operands) - n + 1, Len(operands))))
ArrayLit   == \/ Has(1) /\ Give(1, StaticArray(Top, 1))
              \/ Has(2) /\ Give(2, IF ElementFits(Below, Top) THEN StaticArray(Below, 2) ELSE Error)
AddrOf     == Has(1) /\ Give(1, Ptr(Top))
Deref      == Has(1) /\ Give(1, DerefRule(Top))
Cast       == Has(1) /\ Give(1, CastRule(Top, typ))
Bang       == Has(1) /\ Give(1, BangRule(Top))
StructLit  == Has(1) /\ Give(1, NewStruct(<<[name |-> "p", type |-> Top]>>, "own"))
Member     == Has(1) /\ \E n \in {"p"} \cup DOMAIN VarOf : Give(1, MemberRule(Top, n))
Index      == Has(2) /\ Give(2, IndexRule(Below, Top))

Next ==
  \/ Name \/ InParens \/ Pointer \/ Mutable \/ Plural \/ Sized \/ Tuple \/ Function \/ Struct
  \/ Literal \/ Variable \/ Callee \/ Math \/ Bool \/ Logical \/ Call \/ TupleExpr \/ ArrayLit
  \/ AddrOf \/ Deref \/ Cast \/ Bang \/ StructLit \/ Member \/ Index

Spec == Init /\ [][Next]_vars

-----------------------------------------------------------------------------
(* Properties.                                                             *)

\* What a value of the type is, once it is read from where it may change.
Value(t) == LET m == Meaning(t) IN IF m.k = "mut" THEN m.t ELSE m

\* type_equals says of two types, however they are written, that they are
\* equal exactly if they stand for the same type: in particular it is
\* symmetric and transitive through any chain of aliases.
EqualityIsMeaning ==
  Has(1) => (Equals(typ, Top) <=> Meaning(typ) = Meaning(Top))

\* can_cast_to answers by what the two types stand for, not by which
\* aliases and parentheses they are written with.
CastRespectsMeaning ==
  Has(1) => (CanCast(Top, typ) <=> CanCast(Meaning(Top), Meaning(typ)))

\* An alias that hides a `mut` from base_type, or an array from `in`.
HidesMut(t) == t.k # "mut" /\ Unaliased(t).k = "mut"
HidesArray(t) == t.k # "array" /\ Unaliased(t).k = "array"

Arithmetic(op, l, r) ==
  IF l = IntT /\ r = IntT THEN IntT
  ELSE IF {l, r} \subseteq {IntT, FloatT} /\ op # "%" THEN FloatT
  ELSE Error

Comparison(accepted) == IF accepted THEN BoolT ELSE Error

\* The rules for binary operators accept exactly the operands whose values
\* the operator is meant for, with the result it is meant to have, through
\* aliases and `mut` alike. The exceptions are aliases that hide a `mut`,
\* with which the typed operators only ever reject too much, or an array
\* from `in`, which rejects it, and `in` on a mutable array, which takes
\* the array's type for the element's.
RulesExact ==
  (Has(2) /\ status = "running") =>
    \A l \in {Value(Below)}, r \in {Value(Top)} :
    LET Exact(rule, reference) ==
          rule = reference \/ (rule = Error /\ (HidesMut(Below) \/ HidesMut(Top)))
    IN  /\ \A op \in {"+", "%"} : Exact(MathRule(op, Below, Top), Arithmetic(op, l, r))
        /\ Exact(BoolRule(Below, Top), Comparison(l = BoolT /\ r = BoolT))
        /\ Exact(LogicalRule("<", Below, Top), Comparison({l, r} \subseteq {IntT, FloatT}))
        /\ HidesMut(Below) \/ HidesMut(Top) \/ LogicalRule("==", Below, Top) = Comparison(l = r)
        /\ HidesMut(Below) \/ HidesArray(Top) \/ Exact(LogicalRule("in", Below, Top),
              Comparison(r.k = "array" /\ l = IF Top.k = "mut" THEN r ELSE r.t))

\* What an access accepts, it gives the type that is there, through aliases
\* and clones: a pointer and an array whose type is written as such are
\* accepted, and a member is found unless its struct is what the type of a
\* literal left behind, when that was deleted. What is accepted besides, or
\* refused, is not laid down here.
AccessSound ==
  (Has(2) /\ status = "running") =>
    LET Sound(rule, t, k) == rule # Error => Meaning(t).k = k /\ Meaning(rule) = Meaning(t).t
    IN  /\ Sound(DerefRule(Top), Top, "ptr")
        /\ Sound(IndexRule(Below, Top), Below, "array")
        /\ (Top.k = "ptr") => DerefRule(Top) # Error
        /\ (Below.k = "array" /\ Value(Top) = IntT) => IndexRule(Below, Top) # Error
        /\ Top.k = "struct" => \A n \in Members(Top) :
             \/ Top.decls = "deleted" /\ MemberRule(Top, n) = Fault
             \/ \E i \in DOMAIN Top.ms :
                  Top.ms[i].name = n /\ Meaning(MemberRule(Top, n)) = Meaning(Top.ms[i].type)

\* The type of a tuple or a struct can be built: of `[7]` and of a struct of
\* two ints, say (tests/typechecker.cpp:90, 240). Their constructors ask for
\* the sizes of the parts, and type_size does not return for a primitive.
ConstructorsReturn == status # "never"
=============================================================================
