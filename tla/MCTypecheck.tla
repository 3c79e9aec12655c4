---------------------------- MODULE MCTypecheck ----------------------------
(* Instances of Typecheck: the rules of TypeRules, with an alias of a      *)
(* primitive, and a few types that differ in what the handlers ask of      *)
(* them. A function returns what an alias stands for, or nothing.          *)
EXTENDS Typecheck, TypeRules

MCAliasOf == [A |-> IntT]
MCNone    == [n \in {} |-> IntT]
MCTypes   == {IntT, BoolT, Mut(TypeIdent("A")), FuncType(<<>>, IntT)}
MCReturns == {TypeIdent("A"), VoidT, PleaseT}

MCType    == {IntT, FloatT, BoolT, CharT, Mut(IntT)} \cup MCTypes \cup MCReturns
MCHeight  == [t \in Type |-> CASE t = TypeIdent("A") -> 1
                               [] t.k = "id"         -> 0
                               [] OTHER              -> 2]
=============================================================================
