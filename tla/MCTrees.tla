------------------------------ MODULE MCTrees ------------------------------
(* Programs for Trees: the shape of BUILTIN_DECLS, functions whose bodies  *)
(* are one or two statements of every class, and declarations of types.    *)
EXTENDS TreeFind

N == Ident("n")
One == IntLiteral("1")
IntT == TypeIdent("int")
D(t) == VarDecl(t, N)
Body(s) == StatementList(<<s, BreakStmt>>)
Func(ps, s) == FuncDecl(N, ParamsList(ps), IntT, StatementList(s))

Exprs == {
  ParensExpr(N), MathExpr("+", One, FloatLiteral("2.5")), BoolExpr("&&", BoolLiteral("true"), N),
  LogicalExpr("in", CharLiteral("c"), ArrayLiteral(ExprList(<<One, One>>))),
  BangExpr(NotExpr(N)), Deref(AddrOf(N)), CastExpr(IntT, N),
  TupleExpr(ExprList(<<N, StringLiteral("s")>>)), ArrayIndexExpr(N, One),
  FunctionCallExpr(N, ExprList(<<N, N>>)),
  StructDeref(StructLiteral(InitializerList(<<MemberInitializer(N, One)>>)), N)}

TypeExprs == {
  ParensTypename(PtrTypename(IntT)), MutTypename(DynamicArrayTypename(IntT)),
  StaticArrayTypename(IntT, One), TupleTypename(TypenameList(<<IntT, IntT>>)),
  FuncTypename(TypenameList(<<>>), IntT), StructTypename(VarDeclList(<<D(IntT), D(IntT)>>))}

Statements(e) == {
  D(IntT), VarDeclInit(D(IntT), e), Assignment(N, e), FunctionCallStmt(N, ExprList(<<e>>)),
  IfStmt(e, Body(VoidReturnStmt)), IfElseStmt(IfStmt(e, Body(D(IntT))), Body(VoidReturnStmt)),
  WhileStmt(e, Body(ContinueStmt)), ReturnStatement(e),
  ForStmt(D(IntT), e, Assignment(N, e), Body(D(IntT)))}

MCSources ==
  {ProgramSource(<<Func(<<D(PtrTypename(TypeIdent("char")))>>, <<D(IntT)>>), Func(<<D(IntT)>>, <<D(IntT)>>)>>)}
  \cup {ProgramSource(<<Func(<<>>, <<s>>)>>) : s \in UNION {Statements(e) : e \in Exprs}}
  \cup {ProgramSource(<<TypeAlias(N, t), StructDecl(N, StructTypename(VarDeclList(<<D(t)>>))), D(t)>>) : t \in TypeExprs}

\* The nodes of the programs, level by level; none is deeper than nine.
AtLevel[d \in 0..9] ==
  IF d = 0 THEN MCSources ELSE UNION {Range(n.kids) : n \in AtLevel[d - 1]}
AllNodes == UNION {AtLevel[d] : d \in 0..9}

\* Conditions on the class, on the children, and on the whole node.
Searched ==
  {{n \in AllNodes : n.k = k} : k \in {"Ident", "VarDecl", "StatementList", "ExprList"}}
    \cup {{}, {One}, {n \in AllNodes : Len(n.kids) = 2}}

HeightOf[n \in AllNodes] ==
  IF n.kids = <<>> THEN 0 ELSE 1 + Max({HeightOf[c] : c \in Range(n.kids)})

MCNodeSet == AllNodes
MCConds   == Searched
MCHeight  == HeightOf
=============================================================================
