------------------------------- MODULE Nodes -------------------------------
(***************************************************************************)
(* The syntax tree: the node classes of ast.cpp.  A node is a record of    *)
(* its class, its value (a name, an operator or a literal), its children   *)
(* in the order of children(), and whether its destructor deletes them.    *)
(* Two nodes are == when class, value and children are, which is equality  *)
(* of records: locations are compared nowhere.  The four classes that no   *)
(* production builds (TernaryExpr, PreExpr, PostExpr, PleaseReturnStmt)    *)
(* are left out.                                                           *)
(***************************************************************************)
EXTENDS Integers, Sequences

\* Most destructors delete every child.
Node(k, v, kids) == [k |-> k, v |-> v, kids |-> kids, owns |-> TRUE]

\* The destructor of some lists forgets the pointers and deletes nothing.
Forgetful(k, kids) == [k |-> k, v |-> "", kids |-> kids, owns |-> FALSE]

Leaf(k, v) == Node(k, v, <<>>)

-----------------------------------------------------------------------------
(* Expressions.                                                            *)

IntLiteral(v)    == Leaf("IntLiteral", v)
FloatLiteral(v)  == Leaf("FloatLiteral", v)
BoolLiteral(v)   == Leaf("BoolLiteral", v)
CharLiteral(v)   == Leaf("CharLiteral", v)
StringLiteral(v) == Leaf("StringLiteral", v)
Ident(id)        == Leaf("Ident", id)
ParensExpr(e)         == Node("ParensExpr", "", <<e>>)
MathExpr(op, l, r)    == Node("MathExpr", op, <<l, r>>)
BoolExpr(op, l, r)    == Node("BoolExpr", op, <<l, r>>)
LogicalExpr(op, l, r) == Node("LogicalExpr", op, <<l, r>>)
BangExpr(e)           == Node("BangExpr", "", <<e>>)
NotExpr(e)            == Node("NotExpr", "", <<e>>)
AddrOf(e)             == Node("AddrOf", "", <<e>>)
Deref(e)              == Node("Deref", "", <<e>>)
CastExpr(t, e)        == Node("CastExpr", "", <<t, e>>)
TupleExpr(es)         == Node("TupleExpr", "", <<es>>)
ArrayLiteral(es)      == Node("ArrayLiteral", "", <<es>>)
ArrayIndexExpr(a, i)  == Node("ArrayIndexExpr", "", <<a, i>>)
FunctionCallExpr(f, es)    == Node("FunctionCallExpr", "", <<f, es>>)
StructDeref(e, id)         == Node("StructDeref", "", <<e, id>>)
MemberInitializer(id, e)   == Node("MemberInitializer", "", <<id, e>>)
InitializerList(ms)        == Forgetful("InitializerList", ms)
StructLiteral(ms)          == Node("StructLiteral", "", <<ms>>)
ExprList(es)               == Forgetful("ExprList", es)

-----------------------------------------------------------------------------
(* Type expressions.                                                       *)

TypeIdent(id)            == Leaf("TypeIdent", id)
ParensTypename(t)        == Node("ParensTypename", "", <<t>>)
PtrTypename(t)           == Node("PtrTypename", "", <<t>>)
MutTypename(t)           == Node("MutTypename", "", <<t>>)
TypenameList(ts)         == Node("TypenameList", "", ts)
TupleTypename(ts)        == Node("TupleTypename", "", <<ts>>)
FuncTypename(ts, t)      == Node("FuncTypename", "", <<ts, t>>)
StaticArrayTypename(t, n) == Node("StaticArrayTypename", "", <<t, n>>)
DynamicArrayTypename(t)  == Node("DynamicArrayTypename", "", <<t>>)
StructTypename(ds)       == Node("StructTypename", "", <<ds>>)

-----------------------------------------------------------------------------
(* Statements, declarations and the program.                               *)

VarDecl(t, id)      == Node("VarDecl", "", <<t, id>>)
VarDeclList(ds)     == Node("VarDeclList", "", ds)
VarDeclInit(d, e)   == Node("VarDeclInit", "", <<d, e>>)
TypeAlias(id, t)    == Node("TypeAlias", "", <<id, t>>)
StructDecl(id, t)   == Node("StructDecl", "", <<id, t>>)
Assignment(l, r)    == Node("Assignment", "", <<l, r>>)
FunctionCallStmt(f, es) == Node("FunctionCallStmt", "", <<f, es>>)
IfStmt(c, ss)       == Node("IfStmt", "", <<c, ss>>)
IfElseStmt(i, ss)   == Node("IfElseStmt", "", <<i, ss>>)
WhileStmt(c, ss)    == Node("WhileStmt", "", <<c, ss>>)
ForStmt(i, c, u, ss) == Node("ForStmt", "", <<i, c, u, ss>>)
ReturnStatement(e)  == Node("ReturnStatement", "", <<e>>)
VoidReturnStmt      == Leaf("VoidReturnStmt", "")
ContinueStmt        == Leaf("ContinueStmt", "")
BreakStmt           == Leaf("BreakStmt", "")
StatementList(ss)   == Node("StatementList", "", ss)
ParamsList(ds)      == Forgetful("ParamsList", ds)
FuncDecl(id, ps, t, ss) == Node("FuncDecl", "", <<id, ps, t, ss>>)

\* Mutant of ProgramSource: it deletes its nodes.
OwningSource(ns) == Node("ProgramSource", "", ns)

ProgramSource(ns) == Forgetful("ProgramSource", ns)
=============================================================================
