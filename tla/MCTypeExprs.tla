---------------------------- MODULE MCTypeExprs ----------------------------
(* Instances of TypeExprs: an alias of an alias of a mutable type, an      *)
(* alias of an array, a struct whose member is a pointer, variables around *)
(* it, one with the name of the member, and functions with and without a   *)
(* parameter, of which the second returns an alias of a primitive.         *)
EXTENDS TypeExprs

MCAliasOf  == [A |-> IntT, M |-> Mut(IntT), B |-> TypeIdent("M"), R |-> StaticArray(IntT, 2)]
MCStructOf == [S |-> StructType(<<[name |-> "p", type |-> Ptr(TypeIdent("A"))]>>)]
MCVarOf    == [v |-> IntT, p |-> BoolT]
MCFuncOf   == [f |-> [params |-> <<>>, ret |-> TypeIdent("A")],
               g |-> [params |-> <<IntT>>, ret |-> IntT]]
MCAll      == {"B", "S", "R"}
MCLiterals == {FloatT, BoolT}

Decls == {"source", "own", "deleted"}

\* The names, what they stand for, and the types made of these in two steps;
\* of the types in a tuple the first is one of the former.
Given ==
  {TypeIdent(n) : n \in {"int", "float", "bool", "char"} \cup DOMAIN AliasOf \cup DOMAIN StructOf}
    \cup {Mut(IntT), StaticArray(IntT, 2), Ptr(CharT), Ptr(TypeIdent("A")), Ptr(IntT)}
    \cup {StructWith(<<[name |-> "p", type |-> Ptr(t)]>>, d) : t \in {IntT, TypeIdent("A")}, d \in Decls}

MadeOf(S) ==
  S \cup [k : {"parens", "ptr", "mut", "dyn"}, t : S]
    \cup [k : {"array"}, t : S, size : 1..2]
    \cup [k : {"tuple"}, ts : [1..1 -> S] \cup (Given \X S)]
    \cup [k : {"func"}, ts : {<<>>}, t : S]
    \cup [k : {"struct"}, ms : [1..1 -> [name : {"p"}, type : S]], decls : Decls]

AllTypes == MadeOf(MadeOf(Given))

HeightOf[t \in AllTypes] ==
  LET below == Parts(t) \cup Named(t)
  IN  IF below = {} THEN 0 ELSE 1 + Max({HeightOf[u] : u \in below})

MCType   == AllTypes
MCHeight == HeightOf
=============================================================================
