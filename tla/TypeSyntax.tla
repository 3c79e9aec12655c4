----------------------------- MODULE TypeSyntax -----------------------------
(***************************************************************************)
(* The type expressions of X as they are written (the Typename classes of  *)
(* ast.cpp). A type is a record; two names are equal (operator==) if their *)
(* records are. What follows a name to its type or a type into its parts,  *)
(* and what clone() leaves of a struct, is in TypeRules.                   *)
(***************************************************************************)
EXTENDS Sequences

\* The ways in which a rule or a constructor ends without a type.
Error == [k |-> "error"]   \* throws a CompilerError
Fault == [k |-> "fault"]   \* writes outside an empty vector, or reads what is deleted
Never == [k |-> "never"]   \* calls itself without end

-----------------------------------------------------------------------------
(* The classes derived from Typename.                                      *)

TypeIdent(n)    == [k |-> "id", n |-> n]
Parens(t)       == [k |-> "parens", t |-> t]
Ptr(t)          == [k |-> "ptr", t |-> t]
Mut(t)          == [k |-> "mut", t |-> t]
DynArray(t)     == [k |-> "dyn", t |-> t]
StaticArray(t, n) == [k |-> "array", t |-> t, size |-> n]
TupleType(ts)   == [k |-> "tuple", ts |-> ts]
FuncType(ps, r) == [k |-> "func", ts |-> ps, t |-> r]
\* ms is a sequence of members, each a record of a name and a type. A struct
\* has their declarations in its list and once more through its symbol table:
\* decls says whether those in the table are the source's, this type's own (a
\* literal's) or deleted.
StructWith(ms, decls) == [k |-> "struct", ms |-> ms, decls |-> decls]
StructType(ms) == StructWith(ms, "source")

IntT   == TypeIdent("int")
FloatT == TypeIdent("float")
BoolT  == TypeIdent("bool")
CharT  == TypeIdent("char")

-----------------------------------------------------------------------------
\* FunctionCallExpr::type_of with n arguments. The parameters are none: a
\* function type that has some is not built (NewFunc).
CallRule(t, n) == IF t.k = "func" /\ n = Len(t.ts) THEN t.t ELSE Error
=============================================================================
