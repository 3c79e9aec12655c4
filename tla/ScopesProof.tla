----------------------------- MODULE ScopesProof -----------------------------
(***************************************************************************)
(* Proofs about Scopes for every value of its constants: type correctness, *)
(* the inductive invariant IInv, and what follows from it: the scanner and *)
(* the typechecker resolve a name alike, what is looked up again after a   *)
(* body is still the symbol of the header, and no declaration replaces or  *)
(* hides a visible name; and the invariant EndInv, from which follows what *)
(* is promised of an accepted program.                                     *)
(*                                                                         *)
(* Order: walks and tables; the type invariant; what a step must satisfy   *)
(* to keep IInv (InvKept), and one lemma for each kind of step that shows  *)
(* it does; the theorems; the same for EndInv.                             *)
(***************************************************************************)
EXTENDS Scopes, Recursion, FiniteSetTheorems, SequenceTheorems, TLAPS

-----------------------------------------------------------------------------
(* Walks along `enclosing`.                                                *)

\* A non-empty set of table numbers has a greatest one, which Innermost picks.
LEMMA InnermostExists ==
  ASSUME NEW N \in Nat, NEW S, S \subseteq 1..N, S # {}
  PROVE  /\ Innermost(S) \in S
         /\ \A t \in S : t <= Innermost(S)
<1>1. PICK m \in S : \A t \in S : t <= m
  <2>1. S \subseteq 0..N
    OBVIOUS
  <2> QED BY <2>1, HasGreatest
<1> QED BY <1>1 DEF Innermost

\* What a walk through the tables C, greatest first, finds for a name in tb.
Finds(tb, C, n, k) ==
    \/ k = NoSym /\ \A t \in C : tb[t][n] = NoSym
    \/ /\ k # NoSym
       /\ \E t \in C : tb[t][n] = k /\ \A u \in C : t < u => tb[u][n] = NoSym

Tables == [Scope -> [Names -> Sym \cup {NoSym}]]

\* The expression in Get computes what the walk finds.
LEMMA WalkFinds ==
  ASSUME NEW tb \in Tables, NEW C \in SUBSET Scope, NEW n \in Names,
         NEW hits, hits = {t \in C : tb[t][n] # NoSym},
         NEW k, k = IF hits = {} THEN NoSym ELSE tb[Innermost(hits)][n]
  PROVE  Finds(tb, C, n, k) /\ k \in Sym \cup {NoSym}
<1>1. CASE hits = {}
  BY <1>1 DEF Finds
<1>2. CASE hits # {}
  <2>1. hits \subseteq 1..MaxScopes /\ MaxScopes \in Nat
    BY BoundsAssumption DEF Scope
  <2>2. /\ Innermost(hits) \in hits
        /\ \A t \in hits : t <= Innermost(hits)
    BY <1>2, <2>1, InnermostExists
  <2> DEFINE m == Innermost(hits)
  <2>3. m \in C /\ tb[m][n] # NoSym /\ k = tb[m][n] /\ m \in Scope
    BY <1>2, <2>2
  <2>4. \A u \in C : m < u => tb[u][n] = NoSym
    <3>1. SUFFICES ASSUME NEW u \in C, m < u, tb[u][n] # NoSym PROVE FALSE
      OBVIOUS
    <3>2. u \in hits /\ u \in Int /\ m \in Int
      BY <3>1, <2>3 DEF Scope
    <3> QED BY <3>1, <3>2, <2>2
  <2>5. k \in Sym \cup {NoSym}
    <3> HIDE DEF m
    <3> QED BY <2>3 DEF Tables
  <2> HIDE DEF m
  <2> QED BY <2>3, <2>4, <2>5 DEF Finds
<1> QED BY <1>1, <1>2

\* A walk finds one thing only.
LEMMA FindsUnique ==
  ASSUME NEW tb, NEW C \in SUBSET Scope, NEW n, NEW k, NEW l,
         Finds(tb, C, n, k), Finds(tb, C, n, l)
  PROVE  k = l
BY DEF Finds, Scope

\* Get finds what the walk finds, now and in the next state.
LEMMA GetFinds ==
  ASSUME TypeOK, NEW s \in Scope, NEW n \in Names
  PROVE  Finds(table, chain[s], n, Get(s, n)) /\ Get(s, n) \in Sym \cup {NoSym}
BY WalkFinds DEF TypeOK, Tables, Get

\* The same of a lookup after a step.
LEMMA GetFindsNext ==
  ASSUME TypeOK', NEW s \in Scope, NEW n \in Names
  PROVE  Finds(table', chain'[s], n, Get(s, n)')
BY WalkFinds DEF TypeOK, Tables, Get

\* What the scanner's tokens say of the symbol found.
LEMMA TokenFacts ==
  ASSUME TypeOK, NEW s \in Scope, NEW n \in Names
  PROVE  /\ TokenAt(s, n) \in Token
         /\ TokenAt(s, n) = "IDENT" => Get(s, n) = NoSym
         /\ TokenAt(s, n) = "DECLARED_TYPE" =>
              Get(s, n) \in Sym /\ sym[Get(s, n)].kind = "Type"
         /\ TokenAt(s, n) \in {"DECLARED_VAR", "DECLARED_FUNC"} =>
              Get(s, n) \in Sym /\ sym[Get(s, n)].kind # "Type"
<1>1. Get(s, n) \in Sym \cup {NoSym}
  BY GetFinds
<1>2. CASE Get(s, n) = NoSym
  BY <1>2 DEF TokenAt, Token
<1>3. CASE Get(s, n) # NoSym
  <2>1. Get(s, n) \in Sym
    BY <1>1, <1>3
  <2>2. sym[Get(s, n)].kind \in Kind
    BY <2>1 DEF TypeOK, Symbol
  <2> QED BY <1>3, <2>1, <2>2 DEF TokenAt, Token, Kind
<1> QED BY <1>2, <1>3

-----------------------------------------------------------------------------
(* The stack of productions.                                               *)

\* The top of the stack of productions.
LEMMA TopFrame ==
  ASSUME TypeOK
  PROVE  Depth \in Nat \ {0} /\ Top \in Frame /\ \A i \in 1..Depth : ctx[i] \in Frame
BY DEF TypeOK, Depth, Top

\* Changing the production at the top leaves the ones below.
LEMMA SetTopStack ==
  ASSUME TypeOK, NEW f \in Frame
  PROVE  /\ SetTop(f) \in Seq(Frame)
         /\ SetTop(f) # << >>
         /\ Len(SetTop(f)) = Depth
         /\ SetTop(f)[Depth] = f
         /\ \A i \in 1..(Depth - 1) : SetTop(f)[i] = ctx[i]
BY DEF TypeOK, SetTop, Depth

\* Beginning a production leaves the ones below.
LEMMA PushStack ==
  ASSUME TypeOK, NEW f \in Frame, Push(ctx, f)
  PROVE  /\ ctx' \in Seq(Frame)
         /\ ctx' # << >>
         /\ Len(ctx') = Depth + 1
         /\ ctx'[Depth + 1] = f
         /\ \A i \in 1..Depth : ctx'[i] = ctx[i]
BY DEF TypeOK, Push, Depth

\* Noting that the production at the top has a statement leaves the rest of the stack.
LEMMA FilledStack ==
  ASSUME NEW S \in Seq(Frame), S # << >>
  PROVE  /\ Filled(S) \in Seq(Frame)
         /\ Filled(S) # << >>
         /\ Len(Filled(S)) = Len(S)
         /\ Filled(S)[Len(S)] = [S[Len(S)] EXCEPT !.full = TRUE]
         /\ \A i \in 1..(Len(S) - 1) : Filled(S)[i] = S[i]
<1> DEFINE g == [S[Len(S)] EXCEPT !.full = TRUE]
<1>1. Len(S) \in 1..Len(S) /\ S[Len(S)] \in Frame
  OBVIOUS
<1>2. g \in Frame
  BY <1>1 DEF Frame
<1>3. Filled(S) = [S EXCEPT ![Len(S)] = g]
  BY DEF Filled
<1> HIDE DEF g
<1>4. /\ Filled(S) \in Seq(Frame)
      /\ Len(Filled(S)) = Len(S)
      /\ Filled(S)[Len(S)] = g
      /\ \A i \in 1..(Len(S) - 1) : Filled(S)[i] = S[i]
  BY <1>1, <1>2, <1>3
<1>5. Filled(S) # << >>
  BY <1>1, <1>4
<1> QED BY <1>4, <1>5 DEF g

\* The stack without its top.
LEMMA BelowStack ==
  ASSUME TypeOK, Depth > 1
  PROVE  /\ Below \in Seq(Frame)
         /\ Below # << >>
         /\ Len(Below) = Depth - 1
         /\ \A i \in 1..(Depth - 1) : Below[i] = ctx[i]
<1>1. ctx \in Seq(Frame) /\ Len(ctx) \in Nat /\ Len(ctx) > 1
  BY DEF TypeOK, Depth
<1>2. \A i \in 1..(Len(ctx) - 1) : ctx[i] \in Frame
  BY <1>1
<1>3. /\ Below \in Seq(Frame)
      /\ Len(Below) = Len(ctx) - 1
      /\ \A i \in 1..(Len(ctx) - 1) : Below[i] = ctx[i]
  BY <1>1, <1>2, SubSeqProperties DEF Below
<1> QED BY <1>1, <1>3 DEF Depth

-----------------------------------------------------------------------------
(* Type correctness.                                                       *)

\* Putting a symbol in a table keeps the types of the tables and of the symbols.
LEMMA PutType ==
  ASSUME TypeOK, NEW s \in Scope, NEW n \in Names, NEW x \in Symbol, Put(s, n, x)
  PROVE  /\ table' \in Tables
         /\ sym' \in [Sym -> Symbol]
         /\ nextSym' \in 1..(MaxSyms + 1)
BY BoundsAssumption DEF TypeOK, Put, Sym, Tables

\* Creating a scope keeps the types of the chains and takes a scope that is not in use.
LEMMA CreateScopeType ==
  ASSUME TypeOK, CreateScope
  PROVE  /\ nextScope \in Scope
         /\ cur' \in Scope
         /\ chain' \in [Scope -> SUBSET Scope]
         /\ nextScope' \in 2..(MaxScopes + 1)
BY BoundsAssumption DEF TypeOK, CreateScope, Scope

\* Popping a production's table returns to the table it began in.
LEMMA PopReturns ==
  ASSUME TypeOK, ChainInv, StackInv, Top.inner # NoScope
  PROVE  /\ cur = Top.inner
         /\ Enclosing(cur) = Top.outer
         /\ Top.outer \in Allocated
         /\ Top.outer \in Scope
<1>1. Depth \in 1..Depth /\ ctx[Depth] = Top
  BY TopFrame DEF Top, Depth
<1>2. cur = Top.inner
  BY DEF StackInv, Active
<1>3. /\ Top.outer \in chain[cur]
      /\ Top.outer < cur
      /\ chain[cur] = chain[Top.outer] \cup {cur}
  BY <1>1, <1>2 DEF StackInv
<1>4. /\ Top.outer \in Scope
      /\ cur \in Scope
      /\ nextScope \in 2..(MaxScopes + 1)
      /\ cur \in Allocated
  BY TopFrame DEF Frame, TypeOK, ChainInv
<1>5. Top.outer \in Allocated
  BY <1>3, <1>4 DEF Allocated, Scope
<1>6. chain[Top.outer] \subseteq 1..Top.outer /\ Top.outer \in chain[Top.outer]
  BY <1>5 DEF ChainInv
<1>7. chain[cur] \ {cur} = chain[Top.outer]
  BY <1>3, <1>4, <1>6 DEF Scope
<1>8. Innermost(chain[Top.outer]) = Top.outer
  <2>1. /\ Innermost(chain[Top.outer]) \in chain[Top.outer]
        /\ \A t \in chain[Top.outer] : t <= Innermost(chain[Top.outer])
    BY <1>4, <1>6, InnermostExists DEF Scope
  <2> QED BY <2>1, <1>4, <1>6 DEF Scope
<1> QED BY <1>2, <1>4, <1>5, <1>7, <1>8 DEF Enclosing

\* Only the program frame is at the bottom of the stack.
LEMMA NotProgram ==
  ASSUME TypeOK, StackInv, Top.rule # "program"
  PROVE  Depth > 1
<1>1. Depth \in Nat \ {0} /\ ctx[Depth] = Top
  BY TopFrame DEF Top, Depth
<1>2. Depth # 1
  BY <1>1 DEF StackInv
<1> QED BY <1>1, <1>2

\* A statement is inside a function, whose table exists.
LEMMA EnclosingFuncType ==
  ASSUME TypeOK, StackInv, InStatements
  PROVE  EnclosingFunc \in Scope
<1>1. Depth \in Nat \ {0} /\ ctx[Depth] = Top /\ Top \in Frame
  BY TopFrame DEF Top, Depth
<1>2. FrameShape(Top)
  BY <1>1 DEF StackInv
<1>3. Top.rule \in Block
  BY <1>1, <1>2 DEF InStatements, FrameShape, Frame, Rule, Block, StructRule
<1>4. 2 \in 1..Depth /\ ctx[2].rule = "func"
  <2>1. Depth = 2 \/ (Depth > 2 /\ ctx[2].rule = "func")
    BY <1>1, <1>3 DEF StackInv, Block
  <2> QED BY <2>1, <1>1, <1>3 DEF StackInv, Block
<1>5. {i \in 1..Depth : ctx[i].rule = "func"} = {2}
  BY <1>1, <1>4 DEF StackInv
<1>6. Innermost({2}) = 2
  BY DEF Innermost
<1>7. ctx[2] \in Frame /\ FrameShape(ctx[2])
  BY <1>4, TopFrame DEF StackInv
<1>8. ctx[2].inner # NoScope
  BY <1>4, <1>7 DEF FrameShape, Block
<1> QED BY <1>5, <1>6, <1>7, <1>8 DEF EnclosingFunc, Frame

\* A new production has the type of a frame.
LEMMA NewFrameType ==
  ASSUME TypeOK, NEW rule \in Rule, NEW pos \in Position,
         NEW name \in Names \cup {NoName}, NEW inner \in Scope \cup {NoScope}
  PROVE  NewFrame(rule, pos, name, inner) \in Frame
BY DEF TypeOK, NewFrame, Frame

\* A new symbol has the type of a symbol.
LEMMA NewSymbolType ==
  ASSUME NEW kind \in Kind, NEW decl \in Decl
  PROVE  NewSymbol(kind, decl) \in Symbol
BY DEF NewSymbol, Symbol

\* A mention of a declared name is filed with the symbol that was found.
LEMMA MentionType ==
  ASSUME TypeOK, NEW n \in Names, TokenAt(cur, n) # "IDENT",
         TokenAt(cur, n) \in {"DECLARED_VAR", "DECLARED_FUNC", "DECLARED_TYPE"},
         Mention(n)
  PROVE  uses' \subseteq Use
<1>1. Get(cur, n) \in Sym /\ TokenAt(cur, n) \in Token
  BY TokenFacts DEF TypeOK
<1>2. CheckedIn \in Scope
  BY TopFrame DEF CheckedIn, TypeOK, Frame
<1>3. HeaderDepth \in Nat
  BY TopFrame DEF HeaderDepth
<1> QED BY <1>1, <1>2, <1>3 DEF Mention, Use, TypeOK

\* Settling or filing what was mentioned keeps its type.
LEMMA SettleType ==
  ASSUME NEW depth \in Nat, NEW s \in Scope
  PROVE  /\ \A S \in SUBSET Use : Settle(S, depth, s) \in SUBSET Use
         /\ \A S \in SUBSET Use : Unfile(S, depth) \in SUBSET Use
         /\ \A S \in SUBSET Jump : Settle(S, depth, s) \in SUBSET Jump
<1>1. \A u \in Use : /\ [u EXCEPT !.check = s, !.hdr = 0] \in Use
                     /\ [u EXCEPT !.hdr = 0] \in Use
  BY DEF Use
<1>2. \A u \in Jump : [u EXCEPT !.check = s, !.hdr = 0] \in Jump
  BY DEF Jump
<1> QED BY <1>1, <1>2 DEF Settle, Unfile

\* Every declaration keeps the types.
LEMMA DeclarationType ==
  ASSUME TypeOK, ChainInv, StackInv, Declaration
  PROVE  TypeOK'
<1> USE TopFrame
<1>1. ASSUME NEW n \in Names, NEW sized \in BOOLEAN, VarDecl(n, sized)
      PROVE  TypeOK'
  <2>1. [Top EXCEPT !.full = TRUE, !.sized = @ /\ sized] \in Frame
    BY DEF Frame
  <2>2. NewSymbol("Var", "var") \in Symbol
    BY NewSymbolType DEF Kind, Decl
  <2> QED BY <1>1, <2>1, <2>2, PutType, SetTopStack DEF VarDecl, TypeOK, Tables
<1>2. ASSUME NEW n \in Names, VarDeclInit(n)
      PROVE  TypeOK'
  <2>1. [NewSymbol("Var", "var") EXCEPT !.initialized = TRUE] \in Symbol
    BY DEF NewSymbol, Symbol, Kind, Decl
  <2> QED BY <1>2, <2>1, PutType, FilledStack DEF VarDeclInit, TypeOK, Tables
<1>3. ASSUME NEW n \in Names, TypeAlias(n)
      PROVE  TypeOK'
  <2>1. NewSymbol("Type", "alias") \in Symbol
    BY NewSymbolType DEF Kind, Decl
  <2> QED BY <1>3, <2>1, PutType, FilledStack DEF TypeAlias, TypeOK, Tables
<1>4. ASSUME NEW n \in Names, OpenFunc(n)
      PROVE  TypeOK'
  <2>1. NewSymbol("Func", "null") \in Symbol
    BY NewSymbolType DEF Kind, Decl
  <2>2. nextScope \in Scope /\ cur' \in Scope
    BY <1>4, CreateScopeType DEF OpenFunc
  <2>3. NewFrame("func", "params", n, nextScope) \in Frame
    BY <2>2, NewFrameType DEF Rule, Block, Position
  <2> QED BY <1>4, <2>1, <2>3, PutType, PushStack, CreateScopeType
          DEF OpenFunc, TypeOK, Tables
<1>5. ASSUME NEW n \in Names, OpenForwardFunc(n)
      PROVE  TypeOK'
  <2>1. CASE sym[Get(cur, n)].initialized
    BY <1>5, <2>1 DEF OpenForwardFunc, TypeOK, Status
  <2>2. CASE ~sym[Get(cur, n)].initialized
    <3>1. CreateScope /\ Push(ctx, NewFrame("func", "params", n, nextScope))
      BY <1>5, <2>2 DEF OpenForwardFunc
    <3>2. NewFrame("func", "params", n, nextScope) \in Frame
      BY <3>1, CreateScopeType, NewFrameType DEF Rule, Block, Position
    <3> QED BY <1>5, <2>2, <3>1, <3>2, PushStack, CreateScopeType
            DEF OpenForwardFunc, TypeOK
  <2> QED BY <2>1, <2>2
<1>6. ASSUME NEW rule \in StructRule, NEW n \in Names \cup {NoName}, OpenStruct(rule, n)
      PROVE  TypeOK'
  <2>1. CreateScope /\ Push(ctx, NewFrame(rule, "items", n, nextScope))
    BY <1>6 DEF OpenStruct
  <2>2. NewFrame(rule, "items", n, nextScope) \in Frame
    BY <2>1, CreateScopeType, NewFrameType DEF Rule, Position
  <2>3. NewSymbol("Type", "null") \in Symbol
    BY NewSymbolType DEF Kind, Decl
  <2>4. rule = "struct" => n \in Names
    BY <1>6 DEF OpenStruct
  <2>5. /\ table' \in Tables
        /\ sym' \in [Sym -> Symbol]
        /\ nextSym' \in 1..(MaxSyms + 1)
    BY <1>6, <2>3, <2>4, PutType DEF OpenStruct, TypeOK, Tables
  <2> QED BY <1>6, <2>1, <2>2, <2>5, PushStack, CreateScopeType
          DEF OpenStruct, TypeOK, Tables
<1>7. ASSUME NEW n \in Names, CloseStruct(n)
      PROVE  TypeOK'
  <2>0. ctx[Depth] = Top /\ Depth \in 1..Depth
    BY DEF Top, Depth
  <2>1. Top.inner # NoScope /\ Top.rule # "program" /\ FrameShape(Top)
    BY <1>7, <2>0 DEF CloseStruct, StackInv, FrameShape, StructRule
  <2>2. CASE ~Top.sized
    BY <1>7, <2>2 DEF CloseStruct, TypeOK, Status
  <2>3. CASE Top.sized
    <3>1. PopScope("struct") /\ DeclareStruct(n) /\ ctx' = Filled(Below)
          /\ UNCHANGED <<status, chain, nextScope, uses, jumps>>
      BY <1>7, <2>3 DEF CloseStruct
    <3>2. Enclosing(cur) \in Scope
      BY <2>1, PopReturns
    <3>3. cur' \in Scope /\ node' \in [Scope -> Rule \cup {"none", "ifelse"}]
      BY <3>1, <3>2 DEF PopScope, TypeOK, Rule, StructRule
    <3>4. ctx' \in Seq(Frame) /\ ctx' # << >>
      BY <3>1, <2>1, NotProgram, BelowStack, FilledStack
    <3>5. /\ table' \in Tables
          /\ sym' \in [Sym -> Symbol]
          /\ nextSym' \in 1..(MaxSyms + 1)
      <4>1. CASE Top.rule = "struct"
        <5>1. \A k \in Sym : [sym[k] EXCEPT !.decl = "struct"] \in Symbol
          BY DEF TypeOK, Symbol, Decl
        <5> QED BY <3>1, <4>1, <5>1 DEF DeclareStruct, TypeOK, Tables
      <4>2. CASE Top.rule = "alias"
        <5>1. NewSymbol("Type", "alias") \in Symbol
          BY NewSymbolType DEF Kind, Decl
        <5>2. Top.name \in Names
          BY <2>1, <4>2 DEF FrameShape
        <5>3. Put(Enclosing(cur), Top.name, NewSymbol("Type", "alias"))
          BY <3>1, <4>2 DEF DeclareStruct
        <5> QED BY <5>1, <5>2, <5>3, <3>2, PutType
      <4>3. CASE Top.rule = "anonymous"
        <5>1. NewSymbol("Var", "var") \in Symbol
          BY NewSymbolType DEF Kind, Decl
        <5>2. Put(Enclosing(cur), n, NewSymbol("Var", "var"))
          BY <3>1, <4>3 DEF DeclareStruct
        <5> QED BY <5>1, <5>2, <3>2, PutType
      <4> QED BY <1>7, <4>1, <4>2, <4>3 DEF CloseStruct, StructRule
    <3> QED BY <3>1, <3>3, <3>4, <3>5 DEF TypeOK, Tables
  <2> QED BY <2>2, <2>3
<1>8. CASE BeginBody
  <2>1. [Top EXCEPT !.pos = "items", !.full = FALSE] \in Frame
    BY DEF Frame, Position
  <2>2. sym' \in [Sym -> Symbol]
    <3>1. \A k \in Sym : [sym[k] EXCEPT !.initialized = TRUE] \in Symbol
      BY DEF TypeOK, Symbol
    <3> QED BY <1>8, <3>1 DEF BeginBody, TypeOK
  <2> QED BY <1>8, <2>1, <2>2, SetTopStack DEF BeginBody, TypeOK
<1> QED BY <1>1, <1>2, <1>3, <1>4, <1>5, <1>6, <1>7, <1>8 DEF Declaration

\* Every statement keeps the types.
LEMMA StatementType ==
  ASSUME TypeOK, ChainInv, StackInv, Statement
  PROVE  TypeOK'
<1> USE TopFrame
<1>0. ctx[Depth] = Top /\ Depth \in 1..Depth /\ FrameShape(Top)
  BY DEF Top, Depth, StackInv
<1>1. ASSUME NEW rule \in {"if", "while", "for"}, OpenStatement(rule)
      PROVE  TypeOK'
  <2> DEFINE f == NewFrame(rule, IF rule = "for" THEN "init" ELSE "cond", NoName, NoScope)
  <2>1. f \in Frame
    BY NewFrameType DEF Rule, Block, Position
  <2>2. Push(ctx, f)
    BY <1>1 DEF OpenStatement
  <2> HIDE DEF f
  <2> QED BY <1>1, <2>1, <2>2, PushStack DEF OpenStatement, TypeOK
<1>2. CASE EnterBlock
  <2>1. CreateScope
    BY <1>2 DEF EnterBlock
  <2>2. [Top EXCEPT !.pos = "items", !.inner = nextScope] \in Frame
    BY <2>1, CreateScopeType DEF Frame, Position
  <2> QED BY <1>2, <2>1, <2>2, CreateScopeType, SetTopStack DEF EnterBlock, TypeOK
<1>3. CASE ForCond
  <2>1. CreateScope
    BY <1>3 DEF ForCond
  <2>2. [Top EXCEPT !.pos = "cond", !.inner = nextScope, !.full = FALSE] \in Frame
    BY <2>1, CreateScopeType DEF Frame, Position
  <2>3. uses' \subseteq Use /\ jumps' \subseteq Jump
    BY <1>3, <2>1, CreateScopeType, SettleType DEF ForCond, TypeOK
  <2> QED BY <1>3, <2>1, <2>2, <2>3, CreateScopeType, SetTopStack DEF ForCond, TypeOK
<1>4. CASE ForUpdate
  <2>1. [Top EXCEPT !.pos = "update"] \in Frame
    BY DEF Frame, Position
  <2> QED BY <1>4, <2>1, SetTopStack DEF ForUpdate, TypeOK
<1>5. CASE ForBody
  <2>1. [Top EXCEPT !.pos = "items", !.full = FALSE] \in Frame
    BY DEF Frame, Position
  <2> QED BY <1>5, <2>1, SetTopStack DEF ForBody, TypeOK
<1>6. CASE CloseBlock
  <2>1. Top.inner # NoScope /\ Top.rule # "program"
    BY <1>6, <1>0 DEF CloseBlock, FrameShape, Block
  <2>2. Enclosing(cur) \in Scope
    BY <2>1, PopReturns
  <2>3. cur' \in Scope /\ node' \in [Scope -> Rule \cup {"none", "ifelse"}]
    BY <1>6, <2>2 DEF CloseBlock, PopScope, TypeOK, Rule, Block
  <2>4. ctx' \in Seq(Frame) /\ ctx' # << >>
    <3>1. [Top EXCEPT !.pos = "after", !.inner = NoScope] \in Frame
      BY DEF Frame, Position
    <3>2. SetTop([Top EXCEPT !.pos = "after", !.inner = NoScope]) \in Seq(Frame)
          /\ SetTop([Top EXCEPT !.pos = "after", !.inner = NoScope]) # << >>
      BY <3>1, SetTopStack
    <3>3. Filled(Below) \in Seq(Frame) /\ Filled(Below) # << >>
      BY <2>1, NotProgram, BelowStack, FilledStack
    <3> QED BY <1>6, <3>2, <3>3 DEF CloseBlock
  <2>5. sym' \in [Sym -> Symbol]
    <3>1. [kind |-> "Func", decl |-> "func", initialized |-> TRUE] \in Symbol
      BY DEF Symbol, Kind, Decl
    <3> QED BY <1>6, <3>1 DEF CloseBlock, TypeOK
  <2> QED BY <1>6, <2>3, <2>4, <2>5 DEF CloseBlock, TypeOK
<1>7. CASE Else
  <2>1. CreateScope
    BY <1>7 DEF Else
  <2>2. [Top EXCEPT !.rule = "else", !.pos = "items", !.inner = nextScope,
                    !.full = FALSE] \in Frame
    BY <2>1, CreateScopeType DEF Frame, Position, Rule, Block
  <2>3. uses' \subseteq Use
    BY <1>7, <2>1, CreateScopeType, SettleType DEF Else, TypeOK
  <2> QED BY <1>7, <2>1, <2>2, <2>3, CreateScopeType, SetTopStack DEF Else, TypeOK
<1>8. CASE EndIf
  <2>1. Top.rule # "program"
    BY <1>8, <1>0 DEF EndIf, FrameShape
  <2>2. uses' \subseteq Use
    BY <1>8, SettleType DEF EndIf, TypeOK
  <2> QED BY <1>8, <2>1, <2>2, NotProgram, BelowStack, FilledStack DEF EndIf, TypeOK
<1>9. ASSUME NEW n \in Names, Assign(n)
      PROVE  TypeOK'
  <2>1. uses' \subseteq Use
    BY <1>9, MentionType DEF Assign
  <2>2. sym' \in [Sym -> Symbol]
    <3>1. \A k \in Sym : [sym[k] EXCEPT !.initialized = TRUE] \in Symbol
      BY DEF TypeOK, Symbol
    <3> QED BY <1>9, <3>1 DEF Assign, TypeOK
  <2> QED BY <1>9, <2>1, <2>2, FilledStack DEF Assign, TypeOK
<1>10. ASSUME NEW kind \in {"return", "break", "continue"}, JumpStmt(kind)
       PROVE  TypeOK'
  <2>1. EnclosingFunc \in Scope
    BY <1>10, EnclosingFuncType DEF JumpStmt
  <2>2. HeaderDepth \in Nat
    BY DEF HeaderDepth
  <2>3. jumps' \subseteq Jump
    <3> DEFINE loop == \E i \in 1..Depth : ctx[i].rule \in {"while", "for"}
               j == [kind |-> kind, check |-> cur, hdr |-> HeaderDepth,
                     func |-> EnclosingFunc, inLoop |-> loop]
    <3>1. loop \in BOOLEAN
      OBVIOUS
    <3>2. jumps' = jumps \cup {j}
      BY <1>10 DEF JumpStmt
    <3> HIDE DEF loop
    <3>3. j \in Jump
      BY <3>1, <2>1, <2>2 DEF Jump, TypeOK
    <3> QED BY <3>2, <3>3 DEF TypeOK
  <2> QED BY <1>10, <2>3, FilledStack DEF JumpStmt, TypeOK
<1> QED BY <1>1, <1>2, <1>3, <1>4, <1>5, <1>6, <1>7, <1>8, <1>9, <1>10 DEF Statement

\* Every step keeps the types.
LEMMA TypeStep ==
  ASSUME TypeOK, ChainInv, StackInv, [Next]_vars
  PROVE  TypeOK'
<1>1. CASE Declaration
  BY <1>1, DeclarationType
<1>2. CASE Statement
  BY <1>2, StatementType
<1>3. ASSUME NEW n \in Names, UseIdent(n)
      PROVE  TypeOK'
  <2>1. uses' \subseteq Use
    BY <1>3, MentionType DEF UseIdent
  <2> QED BY <1>3, <2>1 DEF UseIdent, TypeOK
<1>4. CASE End
  BY <1>4 DEF End, IllFormedType, SyntaxError, ScanFault, Accept, TypeOK, Status
<1>5. CASE UNCHANGED vars
  BY <1>5 DEF vars, TypeOK
<1> QED BY <1>1, <1>2, <1>3, <1>4, <1>5 DEF Next

\* The parser's first state has its type.
LEMMA TypeInit ==
  ASSUME Init
  PROVE  TypeOK
<1>1. /\ IsFiniteSet(Builtins)
      /\ Cardinality(Builtins) \in Nat
  BY BuiltinsAssumption, FS_Subset, FS_CardinalityType DEF Builtins
<1>2. 1..Cardinality(Builtins) \subseteq Sym /\ Cardinality(Builtins) + 1 \in 1..(MaxSyms + 1)
  BY <1>1, BuiltinsAssumption, BoundsAssumption DEF Sym
<1>3. Root \in Scope /\ Root + 1 \in 2..(MaxScopes + 1)
  BY BoundsAssumption DEF Root, Scope
<1>4. ctx \in Seq(Frame) /\ ctx # << >>
  <2> DEFINE f == [rule |-> "program", pos |-> "items", name |-> NoName,
                   outer |-> Root, inner |-> NoScope,
                   full |-> FALSE, sized |-> TRUE]
  <2>1. f \in Frame
    BY <1>3 DEF Frame, Rule, Position, NoScope
  <2>2. ctx = <<f>>
    BY DEF Init
  <2> HIDE DEF f
  <2> QED BY <2>1, <2>2
<1>5. table \in [Scope -> [Names -> Sym \cup {NoSym}]]
  BY <1>2, BuiltinsAssumption DEF Init, Builtins
<1>6. sym \in [Sym -> Symbol]
  BY NewSymbolType DEF Init, Kind, Decl
<1>7. node \in [Scope -> Rule \cup {"none", "ifelse"}]
  BY DEF Init
<1> QED BY <1>2, <1>3, <1>4, <1>5, <1>6, <1>7 DEF Init, TypeOK, Status

-----------------------------------------------------------------------------
(* What a step does to the tables.                                         *)

KindsKept == \A k \in Sym : k < nextSym =>
                 (sym'[k].kind = "Type" <=> sym[k].kind = "Type")

LookupsKept ==
    /\ \A s \in Allocated : chain'[s] = chain[s]
    /\ \A s \in Allocated, n \in Names : Get(s, n) # NoSym => Get(s, n)' = Get(s, n)

\* A step leaves the tables alone or declares one unknown name in one of them.
Stays == UNCHANGED <<table, nextSym>> /\ KindsKept

Declares(s, n, x) == Put(s, n, x) /\ Get(s, n) = NoSym

TableStep == Stays \/ \E s \in Allocated, n \in Names, x \in Symbol : Declares(s, n, x)

\* A step creates a table or keeps them and goes to one of them.
ScopeStep == \/ UNCHANGED <<chain, nextScope>> /\ cur' \in chain[cur]
             \/ CreateScope

\* The scopes that are allocated, and that their chains stay among them.
LEMMA ScopeFacts ==
  ASSUME TypeOK, ChainInv
  PROVE  /\ Allocated \subseteq Scope
         /\ Scope \subseteq Int
         /\ \A s \in Allocated : chain[s] \subseteq Allocated
BY BoundsAssumption DEF TypeOK, ChainInv, Allocated, Scope

\* Creating a scope allocates one and changes no chain of the others.
LEMMA CreateScopeFacts ==
  ASSUME TypeOK, ChainInv, CreateScope
  PROVE  /\ Allocated' = Allocated \cup {nextScope}
         /\ nextScope \in Scope \ Allocated
         /\ nextScope' = nextScope + 1
         /\ \A s \in Allocated : chain'[s] = chain[s] /\ s < nextScope
         /\ chain'[nextScope] = chain[cur] \cup {nextScope}
         /\ cur' = nextScope
         /\ \A n \in Names : table[nextScope][n] = NoSym
BY BoundsAssumption DEF TypeOK, CreateScope, ChainInv, Allocated, Scope

\* A step of the tables and of the scopes keeps what holds of the chains.
LEMMA ChainStep ==
  ASSUME TypeOK, TypeOK', ChainInv, TableStep, ScopeStep
  PROVE  ChainInv'
<1> USE ScopeFacts
<1>1. /\ \A s \in Scope \ Allocated : \A n \in Names : table'[s][n] = NoSym
      /\ \A s \in Scope, n \in Names : table'[s][n] < nextSym'
  <2>1. CASE Stays
    BY <2>1 DEF Stays, ChainInv
  <2>2. ASSUME NEW s \in Allocated, NEW n \in Names, NEW x \in Symbol, Declares(s, n, x)
        PROVE  /\ \A r \in Scope \ Allocated : \A m \in Names : table'[r][m] = NoSym
               /\ \A r \in Scope, m \in Names : table'[r][m] < nextSym'
    <3>1. table' = [table EXCEPT ![s][n] = nextSym] /\ nextSym' = nextSym + 1
      BY <2>2 DEF Declares, Put
    <3>2. /\ s \in Scope
          /\ nextSym \in Nat
          /\ \A r \in Scope, m \in Names : table[r][m] \in Nat
      BY BoundsAssumption DEF TypeOK, Sym, NoSym
    <3>3. \A r \in Scope, m \in Names :
             table'[r][m] = IF r = s /\ m = n THEN nextSym ELSE table[r][m]
      BY <3>1, <3>2 DEF TypeOK
    <3>4. \A r \in Scope, m \in Names : table[r][m] < nextSym
      BY DEF ChainInv
    <3>5. \A r \in Scope, m \in Names : table'[r][m] < nextSym'
      BY <3>1, <3>2, <3>3, <3>4
    <3>6. \A r \in Scope \ Allocated : \A m \in Names : table'[r][m] = NoSym
      BY <3>3 DEF ChainInv
    <3> QED BY <3>5, <3>6
  <2> QED BY <2>1, <2>2 DEF TableStep
<1>2. CASE UNCHANGED <<chain, nextScope>> /\ cur' \in chain[cur]
  BY <1>1, <1>2 DEF ChainInv, Allocated
<1>3. CASE CreateScope
  <2>1. \A s \in Scope \ Allocated' : \A n \in Names : table'[s][n] = NoSym
    BY <1>1, <1>3, CreateScopeFacts
  <2>2. cur' \in Allocated'
    BY <1>3, CreateScopeFacts
  <2>3. \A s \in Allocated' : s \in chain'[s] /\ chain'[s] \subseteq 1..s
    <3>1. /\ chain[cur] \subseteq 1..cur /\ cur < nextScope /\ cur \in Int
          /\ nextScope \in Int /\ nextScope >= 1
      BY <1>3, CreateScopeFacts DEF ChainInv, Scope
    <3>2. \A s \in Allocated : s \in chain'[s] /\ chain'[s] \subseteq 1..s
      BY <1>3, CreateScopeFacts DEF ChainInv
    <3>3. chain[cur] \cup {nextScope} \subseteq 1..nextScope
      BY <3>1
    <3>4. nextScope \in chain'[nextScope] /\ chain'[nextScope] \subseteq 1..nextScope
      BY <1>3, <3>3, CreateScopeFacts
    <3> QED BY <1>3, <3>2, <3>4, CreateScopeFacts
  <2>4. \A s \in Allocated' : \A t \in chain'[s] : chain'[t] = chain'[s] \cap 1..t
    <3>1. ASSUME NEW s \in Allocated, NEW t \in chain'[s]
          PROVE  chain'[t] = chain'[s] \cap 1..t
      <4>1. t \in chain[s] /\ t \in Allocated
        BY <1>3, CreateScopeFacts
      <4> QED BY <4>1, <1>3, CreateScopeFacts DEF ChainInv
    <3>2. ASSUME NEW t \in chain'[nextScope]
          PROVE  chain'[t] = chain'[nextScope] \cap 1..t
      <4>1. CASE t = nextScope
        <5>1. chain'[nextScope] \subseteq 1..nextScope
          BY <2>3, <1>3, CreateScopeFacts
        <5> QED BY <4>1, <5>1
      <4>2. CASE t # nextScope
        <5>1. t \in chain[cur] /\ cur \in Allocated /\ t \in Allocated
          BY <4>2, <1>3, CreateScopeFacts DEF ChainInv
        <5>2. chain'[t] = chain[cur] \cap 1..t /\ t < nextScope /\ nextScope \in Int /\ t \in Int
          BY <5>1, <1>3, CreateScopeFacts DEF ChainInv
        <5> QED BY <5>2, <1>3, CreateScopeFacts
      <4> QED BY <4>1, <4>2
    <3> QED BY <3>1, <3>2, <1>3, CreateScopeFacts
  <2> QED BY <1>1, <2>1, <2>2, <2>3, <2>4 DEF ChainInv
<1> QED BY <1>2, <1>3 DEF ScopeStep

\* A declaration of a name no walk from its table finds changes no lookup that
\* succeeded: a walk through the table either stops before it or found nothing.
LEMMA LookupStep ==
  ASSUME TypeOK, TypeOK', ChainInv, TableStep, ScopeStep
  PROVE  LookupsKept /\ KindsKept /\ Allocated \subseteq Allocated' /\ nextSym <= nextSym'
<1> USE ScopeFacts
<1>1. /\ \A s \in Allocated : chain'[s] = chain[s]
      /\ Allocated \subseteq Allocated'
  BY CreateScopeFacts DEF ScopeStep, Allocated
<1>2. CASE Stays
  <2>1. \A s \in Allocated, n \in Names : Get(s, n)' = Get(s, n)
    BY <1>1, <1>2 DEF Stays, Get
  <2>2. nextSym <= nextSym'
    BY <1>2 DEF Stays, TypeOK
  <2> QED BY <1>1, <1>2, <2>1, <2>2 DEF LookupsKept, Stays
<1>3. ASSUME NEW p \in Allocated, NEW m \in Names, NEW x \in Symbol, Declares(p, m, x)
      PROVE  LookupsKept /\ KindsKept /\ nextSym <= nextSym'
  <2>1. /\ table' = [table EXCEPT ![p][m] = nextSym]
        /\ sym' = [sym EXCEPT ![nextSym] = x]
        /\ nextSym' = nextSym + 1
        /\ Get(p, m) = NoSym
    BY <1>3 DEF Declares, Put
  <2>2. KindsKept /\ nextSym <= nextSym'
    BY <2>1, BoundsAssumption DEF KindsKept, TypeOK, Sym
  <2>3. \A t \in chain[p] : table[t][m] = NoSym
    BY <2>1, GetFinds DEF Finds
  <2>4. ASSUME NEW s \in Allocated, NEW n \in Names, Get(s, n) # NoSym
        PROVE  Get(s, n)' = Get(s, n)
    <3> DEFINE k == Get(s, n)
    <3>1. PICK t \in chain[s] : table[t][n] = k /\ \A u \in chain[s] : t < u => table[u][n] = NoSym
      BY <2>4, GetFinds DEF Finds
    <3>2. t \in Scope /\ t \in Allocated /\ p \in Scope
      OBVIOUS
    <3>3. \A u \in Scope : ~(u = p /\ n = m) => table'[u][n] = table[u][n]
      BY <2>1 DEF TypeOK
    <3>4. n = m /\ p \in chain[s] => p < t
      <4>1. SUFFICES ASSUME n = m, p \in chain[s], ~(p < t) PROVE FALSE
        OBVIOUS
      <4>2. chain[p] = chain[s] \cap 1..p
        BY <4>1 DEF ChainInv
      <4>3. t \in chain[p]
        BY <4>1, <4>2, <3>2 DEF Scope
      <4> QED BY <4>1, <4>3, <2>3, <2>4, <3>1
    <3>5. Finds(table', chain'[s], n, k)
      <4>1. t \in chain'[s] /\ table'[t][n] = k
        BY <1>1, <3>1, <3>2, <3>3, <3>4
      <4>2. \A u \in chain'[s] : t < u => table'[u][n] = NoSym
        BY <1>1, <3>1, <3>2, <3>3, <3>4
      <4> QED BY <4>1, <4>2, <2>4 DEF Finds
    <3>6. Finds(table', chain'[s], n, Get(s, n)')
      BY GetFindsNext
    <3>7. chain'[s] \in SUBSET Scope
      BY DEF TypeOK
    <3> HIDE DEF k
    <3>8. Get(s, n)' = k
      BY <3>5, <3>6, <3>7, FindsUnique
    <3> QED BY <3>8 DEF k
  <2> QED BY <1>1, <2>2, <2>4 DEF LookupsKept
<1> QED BY <1>1, <1>2, <1>3 DEF TableStep

-----------------------------------------------------------------------------
(* What a step does to the stack: it keeps the m - 1 outermost productions *)
(* and replaces the others, if any, by one with the m-th's outer table.    *)

Same(f, g) == /\ f.rule = g.rule /\ f.pos = g.pos /\ f.name = g.name
              /\ f.outer = g.outer /\ f.inner = g.inner

StackStep(m) ==
    /\ Depth' = m
    /\ \A i \in 1..(m - 1) : Same(ctx'[i], ctx[i])
    /\ FrameShape(Top')
    /\ Top'.rule = "program" <=> m = 1
    /\ Top'.rule = "func" => m = 2
    /\ Top'.rule \in {"if", "else", "while", "for"} => m > 2 /\ ctx'[2].rule = "func"
    /\ \A i \in 1..(m - 1) : ctx[i].rule \in StructRule => Top'.rule = "anonymous"
    /\ m = Depth + 1 => Top.pos \notin {"cond", "after"}
    /\ Top'.outer = IF m <= Depth THEN ctx[m].outer ELSE cur
    /\ cur' = Active(Top')
    /\ \/ Top'.inner = NoScope
       \/ m <= Depth /\ Top'.inner = ctx[m].inner
       \/ CreateScope /\ Top'.inner = nextScope /\ Top'.outer = cur

\* A step of the stack that leaves the productions below keeps what holds of them.
LEMMA StackKept ==
  ASSUME TypeOK, TypeOK', ChainInv, ChainInv', StackInv,
         NEW m \in 1..(Depth + 1), StackStep(m),
         Allocated \subseteq Allocated', \A s \in Allocated : chain'[s] = chain[s]
  PROVE  StackInv'
<1> USE ScopeFacts, TopFrame
<1>0. /\ Depth \in Nat \ {0} /\ ctx[Depth] = Top /\ Depth' = m
      /\ Top' = ctx'[m] /\ Top' \in Frame
      /\ cur \in Allocated /\ cur \in chain[cur] /\ chain[cur] \subseteq 1..cur
  <2>1. Top' \in Frame
    BY DEF TypeOK, Top
  <2> QED BY <2>1 DEF Top, Depth, StackStep, ChainInv
<1>1. \A i \in 1..Depth : /\ ctx[i].outer \in Scope /\ ctx[i].outer \in Allocated
                         /\ ctx[i].outer \in chain[cur] /\ Active(ctx[i]) \in chain[cur]
                         /\ ctx[i].outer <= Active(ctx[i]) /\ Active(ctx[i]) <= cur
                         /\ Active(ctx[i]) \in Int
  <2>1. ASSUME NEW i \in 1..Depth
        PROVE  /\ ctx[i].outer \in Scope /\ ctx[i].outer \in Allocated
               /\ ctx[i].outer \in chain[cur] /\ Active(ctx[i]) \in chain[cur]
               /\ ctx[i].outer <= Active(ctx[i])
    <3>1. ctx[i].outer \in chain[cur] /\ ctx[i].outer \in Scope
      BY DEF StackInv, Frame
    <3>2. Active(ctx[i]) \in chain[cur]
      <4>1. CASE i = Depth
        BY <4>1, <1>0 DEF StackInv
      <4>2. CASE i # Depth
        <5>1. i + 1 \in 1..Depth /\ i \in 1..(Depth - 1)
          BY <4>2, <1>0
        <5> QED BY <5>1 DEF StackInv
      <4> QED BY <4>1, <4>2
    <3>3. ctx[i].outer <= Active(ctx[i])
      <4>1. ctx[i].inner \in Scope \cup {NoScope}
        BY DEF Frame
      <4>2. ctx[i].inner # NoScope => ctx[i].outer < ctx[i].inner
        BY DEF StackInv
      <4> QED BY <3>1, <4>1, <4>2 DEF Active, Scope
    <3> QED BY <3>1, <3>2, <3>3, <1>0
  <2> QED BY <2>1, <1>0
<1>2. \A i \in 1..(m - 1) : /\ i \in 1..Depth /\ Active(ctx'[i]) = Active(ctx[i])
                            /\ ctx'[i].outer = ctx[i].outer
                            /\ ctx'[i].rule = ctx[i].rule
  BY <1>0 DEF StackStep, Same, Active
<1>3. /\ Top'.outer \in chain[cur] /\ Top'.outer \in Allocated /\ Top'.outer \in Int
      /\ \A i \in 1..(m - 1) : Active(ctx[i]) <= Top'.outer
      /\ m > 1 => Top'.outer = Active(ctx[m - 1])
  <2>1. CASE m <= Depth
    <3>1. m \in 1..Depth /\ Top'.outer = ctx[m].outer
      BY <2>1 DEF StackStep
    <3>2. \A i \in 1..(m - 1) : i \in 1..Depth /\ i < m
      BY <3>1, <1>0
    <3>3. m > 1 => m - 1 \in 1..(Depth - 1) /\ (m - 1) + 1 = m
      BY <3>1, <1>0
    <3>4. m > 1 => Top'.outer = Active(ctx[m - 1])
      BY <3>1, <3>3 DEF StackInv
    <3> QED BY <3>1, <3>2, <3>4, <1>1 DEF StackInv
  <2>2. CASE m = Depth + 1
    <3>1. Top'.outer = cur /\ m - 1 = Depth /\ cur = Active(ctx[Depth])
      BY <2>2, <1>0 DEF StackStep, StackInv
    <3> QED BY <3>1, <1>0, <1>1, <2>2
  <2> QED BY <2>1, <2>2, <1>0
<1>4. Top'.inner # NoScope =>
        /\ Top'.outer < Top'.inner
        /\ Top'.inner \in Allocated'
        /\ chain'[Top'.inner] = chain'[Top'.outer] \cup {Top'.inner}
  <2>1. CASE Top'.inner = NoScope
    BY <2>1
  <2>2. CASE m <= Depth /\ Top'.inner = ctx[m].inner
    <3>1. m \in 1..Depth /\ Top'.outer = ctx[m].outer
      BY <2>2 DEF StackStep
    <3> QED BY <3>1, <2>2, <1>3 DEF StackInv
  <2>3. CASE CreateScope /\ Top'.inner = nextScope /\ Top'.outer = cur
    BY <2>3, <1>0, CreateScopeFacts
  <2> QED BY <2>1, <2>2, <2>3 DEF StackStep
<1>5. /\ cur' \in Allocated'
      /\ Top'.outer \in chain'[cur']
      /\ \A i \in 1..(m - 1) : ctx[i].outer \in chain'[cur']
  <2>1. \A i \in 1..(m - 1) : ctx[i].outer \in chain'[Top'.outer]
    <3>1. chain'[Top'.outer] = chain[cur] \cap 1..Top'.outer
      BY <1>3, <1>0 DEF ChainInv
    <3>2. ASSUME NEW i \in 1..(m - 1)
          PROVE  ctx[i].outer \in chain[cur] /\ ctx[i].outer \in 1..Top'.outer
      <4>1. i \in 1..Depth
        BY <1>2
      <4>2. ctx[i].outer <= Top'.outer /\ ctx[i].outer \in 1..MaxScopes
        BY <4>1, <1>1, <1>3 DEF Scope
      <4> QED BY <4>1, <4>2, <1>1, <1>3
    <3> QED BY <3>1, <3>2
  <2>2. Top'.outer \in chain'[Top'.outer]
    BY <1>3 DEF ChainInv
  <2>3. CASE Top'.inner = NoScope
    BY <2>1, <2>2, <2>3, <1>3 DEF StackStep, Active
  <2>4. CASE Top'.inner # NoScope
    BY <2>1, <2>2, <2>4, <1>4 DEF StackStep, Active
  <2> QED BY <2>3, <2>4
<1>6. ASSUME NEW i \in 1..m
      PROVE  /\ FrameShape(ctx'[i])
             /\ ctx'[i].rule = "program" <=> i = 1
             /\ ctx'[i].rule = "func" => i = 2
             /\ ctx'[i].rule \in {"if", "else", "while", "for"} =>
                   i > 2 /\ ctx'[2].rule = "func"
             /\ i < m => ctx'[i].pos \notin {"cond", "after"}
             /\ ctx'[i].outer \in chain'[cur']
             /\ ctx'[i].inner # NoScope =>
                   /\ ctx'[i].outer < ctx'[i].inner
                   /\ ctx'[i].inner \in Allocated'
                   /\ chain'[ctx'[i].inner] = chain'[ctx'[i].outer] \cup {ctx'[i].inner}
  <2>1. CASE i = m
    BY <2>1, <1>0, <1>4, <1>5 DEF StackStep
  <2>2. CASE i # m
    <3>1. i \in 1..(m - 1) /\ i \in 1..Depth /\ i < m
      BY <2>2, <1>2
    <3>2. Same(ctx'[i], ctx[i])
      BY <3>1 DEF StackStep
    <3>3. FrameShape(ctx'[i])
      BY <3>1, <3>2 DEF Same, StackInv, FrameShape
    <3>4. /\ ctx'[i].rule = "program" <=> i = 1
          /\ ctx'[i].rule = "func" => i = 2
      BY <3>1, <3>2 DEF Same, StackInv
    <3>5. ctx'[i].rule \in {"if", "else", "while", "for"} =>
                   i > 2 /\ ctx'[2].rule = "func"
      <4>1. i > 2 => 2 \in 1..(m - 1)
        BY <3>1
      <4>2. i > 2 => ctx'[2].rule = ctx[2].rule
        BY <4>1, <1>2
      <4> QED BY <3>1, <3>2, <4>2 DEF Same, StackInv
    <3>6. ctx'[i].pos \notin {"cond", "after"}
      <4>1. CASE i < Depth
        BY <4>1, <3>1, <3>2 DEF Same, StackInv
      <4>2. CASE i = Depth
        <5>1. m = Depth + 1
          BY <4>2, <3>1, <1>0
        <5> QED BY <5>1, <4>2, <3>2, <1>0 DEF Same, StackStep
      <4> QED BY <4>1, <4>2, <3>1, <1>0
    <3>7. ctx'[i].inner # NoScope =>
                   /\ ctx'[i].outer < ctx'[i].inner
                   /\ ctx'[i].inner \in Allocated'
                   /\ chain'[ctx'[i].inner] = chain'[ctx'[i].outer] \cup {ctx'[i].inner}
      <4>1. ctx[i].inner # NoScope =>
                   /\ ctx[i].outer < ctx[i].inner
                   /\ ctx[i].inner \in Allocated
                   /\ chain[ctx[i].inner] = chain[ctx[i].outer] \cup {ctx[i].inner}
        BY <3>1 DEF StackInv
      <4>2. ctx[i].outer \in Allocated
        BY <3>1, <1>1
      <4>3. ctx'[i].outer = ctx[i].outer /\ ctx'[i].inner = ctx[i].inner
        BY <3>2 DEF Same
      <4> QED BY <4>1, <4>2, <4>3
    <3> QED BY <3>1, <3>3, <3>4, <3>5, <3>6, <3>7, <1>2, <1>5
  <2> QED BY <2>1, <2>2
<1>7. ASSUME NEW i \in 1..m, NEW j \in 1..m, i < j
      PROVE  /\ Active(ctx'[i]) <= ctx'[j].outer
             /\ ctx'[i].rule \in StructRule => ctx'[j].rule = "anonymous"
  <2>1. i \in 1..(m - 1)
    BY <1>7
  <2>2. CASE j = m
    BY <2>1, <2>2, <1>0, <1>2, <1>3 DEF StackStep
  <2>3. CASE j # m
    <3>1. j \in 1..(m - 1)
      BY <2>3
    <3> QED BY <2>1, <3>1, <1>2, <1>7 DEF StackInv
  <2> QED BY <2>2, <2>3
<1>8. ASSUME NEW i \in 1..(m - 1)
      PROVE  ctx'[i + 1].outer = Active(ctx'[i])
  <2>1. CASE i + 1 = m
    <3>1. m > 1 /\ m - 1 = i
      BY <2>1
    <3> QED BY <3>1, <2>1, <1>0, <1>2, <1>3
  <2>2. CASE i + 1 # m
    <3>1. i + 1 \in 1..(m - 1) /\ i \in 1..(Depth - 1)
      BY <2>2, <1>2
    <3> QED BY <3>1, <1>2 DEF StackInv
  <2> QED BY <2>1, <2>2
<1>9. cur' = Active(Top')
  BY DEF StackStep
<1> QED BY <1>0, <1>6, <1>7, <1>8, <1>9 DEF StackInv

-----------------------------------------------------------------------------
(* What a step does to the names the open productions rely on, and to the  *)
(* occurrences remembered.                                                 *)

\* A declaration (s, n, x) that leaves what production f relies on alone.
Harmless(f, s, n, x) ==
    /\ Declares(s, n, x)
    /\ f.outer \in chain[s]
    /\ f.rule = "alias" => f.outer < s
    /\ x.kind = "Type" => f.rule \notin StructRule
    /\ f.pos # "cond"

\* What a production has declared stays declared after a step.
LEMMA FrameNamesKept ==
  ASSUME TypeOK, TypeOK', ChainInv, KindsKept, LookupsKept,
         NEW f \in Frame, FrameNames(f), FrameShape(f), f.outer \in Allocated,
         f.inner # NoScope => f.inner \in Allocated,
         NEW g \in Frame, g.rule = f.rule, g.name = f.name, g.outer = f.outer,
         g.inner = f.inner, g.pos = "cond" => f.pos = "cond",
         \A t \in chain'[cur'] : t \in chain[cur] \/ t \in Scope \ Allocated,
         \/ Stays
         \/ \E s \in Allocated, n \in Names, x \in Symbol : Harmless(f, s, n, x)
  PROVE  FrameNames(g)'
<1> USE ScopeFacts
<1>1. \A t \in Scope : t \notin Allocated => \A n \in Names : table[t][n] = NoSym
  BY DEF ChainInv
<1>2. f.outer \in Scope /\ chain'[f.outer] = chain[f.outer]
  BY DEF LookupsKept
<1>3. \A s \in Scope, n \in Names : table[s][n] # NoSym =>
         table[s][n] \in Sym /\ table[s][n] < nextSym
  BY DEF TypeOK, ChainInv
<1>4. CASE Stays
  <2>1. table' = table
    BY <1>4 DEF Stays
  <2>2. f.rule \in {"func", "struct", "alias"} => f.name \in Names
    BY DEF FrameShape
  <2>3. f.rule \in StructRule => f.inner \in Scope
    BY DEF FrameShape
  <2>4. f.rule \in {"func", "struct"} =>
          /\ table'[f.outer][f.name] # NoSym
          /\ \A t \in chain'[cur'] : f.outer < t => table'[t][f.name] = NoSym
    BY <1>1, <2>1, <2>2 DEF FrameNames
  <2>5. f.rule = "func" => sym'[table'[f.outer][f.name]].kind # "Type"
    BY <1>2, <1>3, <2>1, <2>2 DEF FrameNames, KindsKept
  <2>6. f.rule = "alias" => \A t \in chain'[f.outer] : table'[t][f.name] = NoSym
    BY <1>2, <2>1 DEF FrameNames
  <2>7. f.rule = "for" /\ g.pos = "cond" => \A n \in Names : table'[f.inner][n] = NoSym
    BY <2>1 DEF FrameNames
  <2>8. f.rule \in StructRule => \A n \in Names : table'[f.inner][n] # NoSym =>
                                      sym'[table'[f.inner][n]].kind # "Type"
    BY <1>3, <2>1, <2>3 DEF FrameNames, KindsKept
  <2> QED BY <2>4, <2>5, <2>6, <2>7, <2>8 DEF FrameNames
<1>5. ASSUME NEW s \in Allocated, NEW n \in Names, NEW x \in Symbol, Harmless(f, s, n, x)
      PROVE  FrameNames(g)'
  <2>1. /\ \A r \in Scope, m \in Names :
              table'[r][m] = IF r = s /\ m = n THEN nextSym ELSE table[r][m]
        /\ sym' = [sym EXCEPT ![nextSym] = x]
        /\ nextSym \in Sym
        /\ Get(s, n) = NoSym
    BY <1>5 DEF Harmless, Declares, Put, TypeOK
  <2>2. \A t \in chain[s] : table[t][n] = NoSym
    BY <2>1, GetFinds DEF Finds
  <2>3. f.rule \in {"func", "struct", "alias"} => f.name \in Names
    BY DEF FrameShape
  <2>4. f.rule \in StructRule => f.inner \in Scope
    BY DEF FrameShape
  <2>5. f.rule \in {"func", "struct"} => f.name # n
    BY <1>5, <2>2 DEF Harmless, FrameNames
  <2>6. f.rule \in {"func", "struct"} =>
          /\ table'[f.outer][f.name] # NoSym
          /\ \A t \in chain'[cur'] : f.outer < t => table'[t][f.name] = NoSym
    <3>1. \A t \in chain'[cur'] : t \in Scope
      BY DEF TypeOK, ChainInv
    <3> QED BY <1>1, <1>2, <2>1, <2>3, <2>5, <3>1 DEF FrameNames
  <2>7. f.rule = "func" => sym'[table'[f.outer][f.name]].kind # "Type"
    BY <1>2, <1>3, <2>1, <2>3, <2>5 DEF FrameNames, KindsKept
  <2>8. f.rule = "alias" => \A t \in chain'[f.outer] : table'[t][f.name] = NoSym
    <3>1. \A t \in chain[f.outer] : t \in Scope /\ t <= f.outer
      BY <1>2 DEF ChainInv, Scope
    <3>2. f.rule = "alias" => \A t \in chain[f.outer] : t # s
      BY <1>5, <3>1, <1>2 DEF Harmless
    <3> QED BY <1>2, <2>1, <2>3, <3>1, <3>2 DEF FrameNames
  <2>9. ~(f.rule = "for" /\ g.pos = "cond")
    BY <1>5 DEF Harmless
  <2>10. f.rule \in StructRule => \A m \in Names : table'[f.inner][m] # NoSym =>
                                      sym'[table'[f.inner][m]].kind # "Type"
    <3>1. SUFFICES ASSUME f.rule \in StructRule, NEW m \in Names, table'[f.inner][m] # NoSym
                   PROVE  sym'[table'[f.inner][m]].kind # "Type"
      OBVIOUS
    <3>2. CASE f.inner = s /\ m = n
      <4>1. x.kind # "Type"
        BY <1>5, <3>1 DEF Harmless
      <4>2. sym'[nextSym] = x
        BY <2>1 DEF TypeOK
      <4> QED BY <2>1, <2>4, <3>1, <3>2, <4>1, <4>2
    <3>3. CASE ~(f.inner = s /\ m = n)
      <4>1. table'[f.inner][m] = table[f.inner][m]
        BY <2>1, <2>4, <3>1, <3>3
      <4> QED BY <4>1, <1>3, <2>4, <3>1 DEF FrameNames, KindsKept
    <3> QED BY <3>2, <3>3
  <2> QED BY <2>6, <2>7, <2>8, <2>9, <2>10 DEF FrameNames
<1> QED BY <1>4, <1>5

\* A mention that was settled is still answered by the same symbol.
LEMMA UseKept ==
  ASSUME TypeOK, TypeOK', KindsKept, LookupsKept, Allocated \subseteq Allocated',
         nextSym <= nextSym', NEW u \in Use, SameAnswer(u), UseFiled(u),
         u.hdr # 0 => /\ u.hdr \in 1..Depth'
                      /\ ctx'[u.hdr].outer = ctx[u.hdr].outer
                      /\ ctx'[u.hdr].rule = "if" \/ ctx'[u.hdr].pos = "init"
  PROVE  SameAnswer(u)' /\ UseFiled(u)'
<1>1. u.sym \in Sym /\ u.name \in Names /\ u.check \in Allocated /\ u.sym < nextSym
  BY DEF Use, UseFiled
<1>2. Get(u.check, u.name)' = u.sym
  <2>1. u.sym # NoSym
    BY <1>1 DEF Sym, NoSym
  <2> QED BY <1>1, <2>1 DEF SameAnswer, LookupsKept
<1>3. (u.tok = "DECLARED_TYPE") <=> (sym'[u.sym].kind = "Type")
  BY <1>1 DEF SameAnswer, KindsKept
<1>4. u.sym < nextSym'
  BY <1>1 DEF TypeOK, Sym
<1> QED BY <1>1, <1>2, <1>3, <1>4 DEF SameAnswer, UseFiled

-----------------------------------------------------------------------------
(* The steps.                                                              *)

HarmlessTo(i) ==
    \/ Stays
    \/ \E s \in Allocated, n \in Names, x \in Symbol : Harmless(ctx[i], s, n, x)

\* The m-th production goes on: the table it created, if any, stays.
GoesOn(m) ==
    /\ m <= Depth
    /\ HarmlessTo(m)
    /\ Top'.rule = ctx[m].rule /\ Top'.name = ctx[m].name
    /\ Top'.outer = ctx[m].outer /\ Top'.inner = ctx[m].inner
    /\ Top'.pos = "cond" => ctx[m].pos = "cond"

\* An occurrence remembered before, whose header is still being parsed.
StillFiled(u, m) ==
    /\ u \in uses
    /\ u.hdr # 0 => \/ u.hdr < m
                    \/ /\ u.hdr = m /\ m <= Depth
                       /\ Top'.rule = "if" \/ Top'.pos = "init"

\* The parts of the invariant together, for any step of the tables, the scopes and the stack.
LEMMA InvKept ==
  ASSUME IInv, TypeOK', TableStep, ScopeStep, NEW m \in 1..(Depth + 1), StackStep(m),
         \A i \in 1..(m - 1) : HarmlessTo(i),
         GoesOn(m) \/ FrameNames(Top)',
         \A u \in uses' : StillFiled(u, m) \/ (SameAnswer(u)' /\ UseFiled(u)')
  PROVE  IInv'
<1> USE ScopeFacts, TopFrame DEF IInv
<1>1. ChainInv' /\ LookupsKept /\ KindsKept /\ Allocated \subseteq Allocated'
      /\ nextSym <= nextSym'
  BY ChainStep, LookupStep
<1>2. StackInv'
  BY <1>1, StackKept DEF LookupsKept
<1>3. /\ Depth' = m /\ Top' = ctx'[m] /\ Depth \in Nat
      /\ \A i \in 1..m : ctx'[i] \in Frame
  BY DEF StackStep, Top, Depth, TypeOK
<1>4. \A t \in chain'[cur'] : t \in chain[cur] \/ t \in Scope \ Allocated
  <2>1. CASE UNCHANGED <<chain, nextScope>> /\ cur' \in chain[cur]
    BY <2>1 DEF ChainInv
  <2>2. CASE CreateScope
    BY <2>2, CreateScopeFacts
  <2> QED BY <2>1, <2>2 DEF ScopeStep
<1>5. ASSUME NEW i \in 1..Depth, NEW g \in Frame, HarmlessTo(i),
             g.rule = ctx[i].rule, g.name = ctx[i].name, g.outer = ctx[i].outer,
             g.inner = ctx[i].inner, g.pos = "cond" => ctx[i].pos = "cond"
      PROVE  FrameNames(g)'
  <2>1. /\ ctx[i] \in Frame /\ FrameShape(ctx[i]) /\ FrameNames(ctx[i])
        /\ ctx[i].outer \in Allocated
        /\ ctx[i].inner # NoScope => ctx[i].inner \in Allocated
    BY DEF StackInv, NamesInv, ChainInv
  <2> QED BY <1>1, <1>4, <1>5, <2>1, FrameNamesKept DEF HarmlessTo
<1>6. NamesInv'
  <2>1. ASSUME NEW i \in 1..m
        PROVE  FrameNames(ctx[i])'
    <3>1. PICK g : g = ctx'[i]
      OBVIOUS
    <3>2. g \in Frame
      BY <3>1, <1>3
    <3>3. CASE i # m
      <4>1. i \in 1..Depth /\ i \in 1..(m - 1)
        BY <3>3, <1>3
      <4>2. Same(g, ctx[i])
        BY <4>1, <3>1 DEF StackStep
      <4>3. FrameNames(g)'
        BY <4>1, <4>2, <3>2, <1>5 DEF Same
      <4> QED BY <4>3, <3>1 DEF FrameNames
    <3>4. CASE i = m /\ GoesOn(m)
      <4>1. i \in 1..Depth
        BY <3>4, <1>3 DEF GoesOn
      <4>2. FrameNames(g)'
        BY <4>1, <3>1, <3>2, <3>4, <1>3, <1>5 DEF GoesOn
      <4> QED BY <4>2, <3>1 DEF FrameNames
    <3>5. CASE i = m /\ FrameNames(Top)'
      BY <3>5, <1>3 DEF FrameNames
    <3> QED BY <3>3, <3>4, <3>5
  <2> QED BY <2>1, <1>3 DEF NamesInv
<1>7. UsesInv'
  <2>1. ASSUME NEW u \in uses'
        PROVE  SameAnswer(u)' /\ UseFiled(u)'
    <3>1. CASE StillFiled(u, m)
      <4>1. u \in Use /\ SameAnswer(u) /\ UseFiled(u) /\ u.hdr \in Nat
        BY <3>1 DEF StillFiled, UsesInv, ResolutionStable, TypeOK, Use
      <4>2. u.hdr # 0 => u.hdr \in 1..Depth'
        BY <3>1, <4>1, <1>3 DEF StillFiled
      <4>3. u.hdr # 0 => /\ ctx'[u.hdr].outer = ctx[u.hdr].outer
                         /\ ctx'[u.hdr].rule = "if" \/ ctx'[u.hdr].pos = "init"
        <5>1. CASE u.hdr # 0 /\ u.hdr < m
          <6>1. u.hdr \in 1..(m - 1)
            BY <5>1, <4>1
          <6>2. Same(ctx'[u.hdr], ctx[u.hdr])
            BY <6>1 DEF StackStep
          <6> QED BY <5>1, <6>2, <4>1 DEF Same, UseFiled
        <5>2. CASE u.hdr # 0 /\ ~(u.hdr < m)
          BY <5>2, <3>1, <1>3 DEF StillFiled, StackStep
        <5> QED BY <5>1, <5>2
      <4> QED BY <4>1, <4>2, <4>3, <1>1, UseKept
    <3> QED BY <3>1
  <2> QED BY <2>1 DEF UsesInv, ResolutionStable
<1> QED BY <1>1, <1>2, <1>6, <1>7

\* A frame of these rules relies on no name.
LEMMA NoNames ==
  ASSUME Top'.rule \in {"program", "if", "else", "while"}
         \/ (Top'.rule = "for" /\ Top'.pos # "cond")
  PROVE  FrameNames(Top)'
BY DEF FrameNames, StructRule

\* A declaration in the current table harms no open production.
LEMMA HarmlessHere ==
  ASSUME IInv, NEW n \in Names, NEW x \in Symbol, Declares(cur, n, x),
         Top.pos # "cond", x.kind = "Type" => Top.rule \notin StructRule
  PROVE  TableStep /\ \A i \in 1..Depth : HarmlessTo(i)
<1> USE ScopeFacts, TopFrame DEF IInv
<1>1. Depth \in Nat \ {0} /\ ctx[Depth] = Top /\ cur \in Allocated /\ cur \in Int
  BY DEF Top, Depth, ChainInv
<1>2. TableStep
  BY <1>1 DEF TableStep
<1>3. ASSUME NEW i \in 1..Depth
      PROVE  Harmless(ctx[i], cur, n, x)
  <2>1. ctx[i].outer \in chain[cur] /\ FrameShape(ctx[i]) /\ ctx[i] \in Frame
    BY DEF StackInv
  <2>2. ctx[i].pos # "cond"
    BY <1>1 DEF StackInv
  <2>3. x.kind = "Type" => ctx[i].rule \notin StructRule
    <3>1. i # Depth => i < Depth /\ Depth \in 1..Depth
      BY <1>1
    <3>2. i # Depth /\ ctx[i].rule \in StructRule => Top.rule = "anonymous"
      BY <1>1, <3>1 DEF StackInv
    <3> QED BY <1>1, <3>2 DEF StructRule
  <2>4. ctx[i].rule = "alias" => ctx[i].outer < cur
    <3>1. SUFFICES ASSUME ctx[i].rule = "alias" PROVE ctx[i].outer < cur
      OBVIOUS
    <3>2. ctx[i].inner # NoScope /\ ctx[i].outer < ctx[i].inner
          /\ ctx[i].outer \in Int /\ ctx[i].inner \in Int
      BY <2>1, <3>1 DEF FrameShape, StructRule, StackInv, Frame
    <3>3. Active(ctx[i]) = ctx[i].inner
      BY <3>2 DEF Active
    <3>4. Active(ctx[i]) <= cur
      <4>1. CASE i = Depth
        BY <4>1, <1>1, <3>2, <3>3 DEF StackInv
      <4>2. CASE i # Depth
        <5>1. i < Depth /\ Depth \in 1..Depth
          BY <4>2, <1>1
        <5>2. Active(ctx[i]) <= Top.outer
          BY <5>1, <1>1 DEF StackInv
        <5>3. Top.outer \in 1..cur
          BY <1>1, <5>1 DEF StackInv, ChainInv
        <5> QED BY <5>2, <5>3, <3>2, <3>3, <1>1
      <4> QED BY <4>1, <4>2
    <3> QED BY <3>2, <3>3, <3>4, <1>1
  <2> QED BY <2>1, <2>2, <2>3, <2>4 DEF Harmless
<1> QED BY <1>1, <1>2, <1>3 DEF HarmlessTo

\* Steps within the current table and the productions open.
LEMMA SameStackKept ==
  ASSUME IInv, TypeOK', UNCHANGED <<cur, chain, nextScope>>, TableStep,
         \A i \in 1..Depth : HarmlessTo(i),
         Depth' = Depth, \A i \in 1..Depth : Same(ctx'[i], ctx[i]),
         \A u \in uses' : u \in uses \/ (SameAnswer(u)' /\ UseFiled(u)')
  PROVE  IInv'
<1> USE ScopeFacts, TopFrame DEF IInv
<1>1. /\ Depth \in Nat \ {0} /\ ctx[Depth] = Top /\ Top' = ctx'[Depth]
      /\ Depth \in 1..(Depth + 1) /\ Depth \in 1..Depth
  BY DEF Top, Depth
<1>2. Same(Top', Top)
  BY <1>1
<1>3. ScopeStep
  BY DEF ScopeStep, ChainInv
<1>4. StackStep(Depth)
  <2>1. FrameShape(Top')
    BY <1>1, <1>2 DEF Same, StackInv, FrameShape
  <2>2. /\ Top'.rule = "program" <=> Depth = 1
        /\ Top'.rule = "func" => Depth = 2
    BY <1>1, <1>2 DEF Same, StackInv
  <2>3. Top'.rule \in {"if", "else", "while", "for"} => Depth > 2 /\ ctx'[2].rule = "func"
    <3>1. Depth > 2 => ctx'[2].rule = ctx[2].rule
      BY <1>1 DEF Same
    <3> QED BY <1>1, <1>2, <3>1 DEF Same, StackInv
  <2>4. \A i \in 1..(Depth - 1) : ctx[i].rule \in StructRule => Top'.rule = "anonymous"
    BY <1>1, <1>2 DEF Same, StackInv
  <2>5. cur' = Active(Top') /\ Top'.inner = Top.inner /\ Top'.outer = Top.outer
    BY <1>1, <1>2 DEF Same, StackInv, Active
  <2> QED BY <1>1, <2>1, <2>2, <2>3, <2>4, <2>5 DEF StackStep
<1>5. GoesOn(Depth)
  BY <1>1, <1>2 DEF GoesOn, Same
<1>6. ASSUME NEW u \in uses'
      PROVE  StillFiled(u, Depth) \/ (SameAnswer(u)' /\ UseFiled(u)')
  <2>1. CASE u \in uses
    <3>1. UseFiled(u) /\ u.hdr \in Nat
      BY <2>1 DEF UsesInv, TypeOK, Use
    <3>2. u.hdr = Depth /\ u.hdr # 0 => Top.rule = "if" \/ Top.pos = "init"
      BY <3>1, <1>1 DEF UseFiled
    <3> QED BY <2>1, <3>1, <3>2, <1>1, <1>2 DEF StillFiled, UseFiled, Same
  <2> QED BY <2>1
<1> QED BY <1>1, <1>3, <1>4, <1>5, <1>6, InvKept

\* The same, and a name declared.
LEMMA DeclareHereKept ==
  ASSUME IInv, TypeOK', UNCHANGED <<cur, chain, nextScope, uses>>,
         NEW n \in Names, NEW x \in Symbol, Put(cur, n, x), TokenAt(cur, n) = "IDENT",
         Top.pos # "cond", x.kind = "Type" => Top.rule \notin StructRule,
         Depth' = Depth, \A i \in 1..Depth : Same(ctx'[i], ctx[i])
  PROVE  IInv'
<1>1. Declares(cur, n, x)
  BY TokenFacts DEF Declares, IInv, TypeOK
<1>2. TableStep /\ \A i \in 1..Depth : HarmlessTo(i)
  BY <1>1, HarmlessHere
<1> QED BY <1>2, SameStackKept

\* Where a declaration is allowed.
LEMMA DeclarePosition ==
  ASSUME IInv
  PROVE  /\ FrameShape(Top)
         /\ CanDeclare => Top.pos \notin {"cond", "after"}
         /\ CanDeclareType => CanDeclare /\ Top.rule \notin StructRule
         /\ CanInitialize => CanDeclare /\ Top.rule \notin StructRule
         /\ InStatements => Top.rule \in Block
         /\ CanDeclare /\ Top.rule \notin StructRule /\ Top.pos # "params" =>
              CanDeclareType
<1>1. Depth \in 1..Depth /\ ctx[Depth] = Top /\ Top \in Frame
  BY TopFrame DEF Top, Depth, IInv
<1>2. FrameShape(Top)
  BY <1>1 DEF IInv, StackInv
<1> QED BY <1>1, <1>2 DEF FrameShape, CanDeclare, CanDeclareType, CanInitialize,
           InStatements, Block, StructRule, Frame, Rule

\* Filling the current list, or marking a member, changes no shape.
LEMMA FilledSame ==
  ASSUME TypeOK, NEW f \in Frame, Same(f, Top), ctx' = SetTop(f) \/ ctx' = Filled(ctx)
  PROVE  Depth' = Depth /\ \A i \in 1..Depth : Same(ctx'[i], ctx[i])
<1>1. Depth \in Nat \ {0} /\ ctx[Depth] = Top /\ Depth' = Len(ctx') /\ Top \in Frame
  BY TopFrame DEF Top, Depth
<1>2. \A i \in 1..Depth : Same(ctx[i], ctx[i])
  BY DEF Same
<1>3. CASE ctx' = SetTop(f)
  BY <1>1, <1>2, <1>3, SetTopStack
<1>4. CASE ctx' = Filled(ctx)
  <2>1. Same([Top EXCEPT !.full = TRUE], Top)
    BY <1>1 DEF Same, Frame
  <2>2. /\ Len(Filled(ctx)) = Depth /\ Filled(ctx)[Depth] = [Top EXCEPT !.full = TRUE]
        /\ \A i \in 1..(Depth - 1) : Filled(ctx)[i] = ctx[i]
    BY <1>1, FilledStack DEF TypeOK, Depth
  <2> QED BY <1>1, <1>2, <1>4, <2>1, <2>2
<1> QED BY <1>3, <1>4

-----------------------------------------------------------------------------
(* Steps that keep the current table and the stack.                        *)

\* Declaring a variable or a type alias keeps the invariant.
LEMMA DeclareKept ==
  ASSUME IInv, TypeOK',
         \/ \E n \in Names : \E sized \in BOOLEAN : VarDecl(n, sized)
         \/ \E n \in Names : VarDeclInit(n) \/ TypeAlias(n)
  PROVE  IInv'
<1>0. TypeOK /\ ctx \in Seq(Frame) /\ Top \in Frame
  BY TopFrame DEF IInv, TypeOK
<1>1. ASSUME NEW n \in Names, NEW sized \in BOOLEAN, VarDecl(n, sized)
      PROVE  IInv'
  <2> DEFINE f == [Top EXCEPT !.full = TRUE, !.sized = @ /\ sized]
             x == NewSymbol("Var", "var")
  <2>1. f \in Frame /\ Same(f, Top) /\ ctx' = SetTop(f)
    BY <1>0, <1>1 DEF Frame, Same, VarDecl
  <2>2. x \in Symbol /\ x.kind # "Type"
    BY NewSymbolType DEF NewSymbol, Kind, Decl
  <2>3. /\ Put(cur, n, x) /\ TokenAt(cur, n) = "IDENT"
        /\ UNCHANGED <<cur, chain, nextScope, uses>>
        /\ CanDeclare
    BY <1>1 DEF VarDecl
  <2> HIDE DEF f, x
  <2> QED BY <1>0, <2>1, <2>2, <2>3, FilledSame, DeclarePosition, DeclareHereKept
<1>2. ASSUME NEW n \in Names, VarDeclInit(n)
      PROVE  IInv'
  <2> DEFINE x == [NewSymbol("Var", "var") EXCEPT !.initialized = TRUE]
  <2>1. ctx' = Filled(ctx) /\ Same(Top, Top)
    BY <1>2 DEF VarDeclInit, Same
  <2>2. x \in Symbol /\ x.kind # "Type"
    BY DEF NewSymbol, Symbol, Kind, Decl
  <2>3. /\ Put(cur, n, x) /\ TokenAt(cur, n) = "IDENT"
        /\ UNCHANGED <<cur, chain, nextScope, uses>>
        /\ CanInitialize
    BY <1>2 DEF VarDeclInit
  <2> HIDE DEF x
  <2> QED BY <1>0, <2>1, <2>2, <2>3, FilledSame, DeclarePosition, DeclareHereKept
<1>3. ASSUME NEW n \in Names, TypeAlias(n)
      PROVE  IInv'
  <2> DEFINE x == NewSymbol("Type", "alias")
  <2>1. ctx' = Filled(ctx) /\ Same(Top, Top)
    BY <1>3 DEF TypeAlias, Same
  <2>2. x \in Symbol
    BY NewSymbolType DEF Kind, Decl
  <2>3. /\ Put(cur, n, x) /\ TokenAt(cur, n) = "IDENT"
        /\ UNCHANGED <<cur, chain, nextScope, uses>>
        /\ CanDeclareType
    BY <1>3 DEF TypeAlias
  <2> HIDE DEF x
  <2> QED BY <1>0, <2>1, <2>2, <2>3, FilledSame, DeclarePosition, DeclareHereKept
<1> QED BY <1>1, <1>2, <1>3

\* An occurrence is remembered with a table that answers as the scanner's did.
LEMMA MentionKept ==
  ASSUME IInv, NEW n \in Names,
         \/ TokenAt(cur, n) \in {"DECLARED_VAR", "DECLARED_FUNC"} /\ Top.rule \notin StructRule
         \/ TokenAt(cur, n) = "DECLARED_TYPE",
         NEW u, u = [name |-> n, sym |-> Get(cur, n), tok |-> TokenAt(cur, n),
                     check |-> CheckedIn, hdr |-> HeaderDepth]
  PROVE  SameAnswer(u) /\ UseFiled(u)
<1> USE ScopeFacts, TopFrame DEF IInv
<1>1. /\ Depth \in 1..Depth /\ Depth \in Nat \ {0} /\ ctx[Depth] = Top /\ Top \in Frame
      /\ cur \in Allocated /\ cur \in Scope /\ FrameShape(Top) /\ FrameNames(Top)
  BY DEF Top, Depth, ChainInv, StackInv, NamesInv
<1>2. /\ Get(cur, n) \in Sym
      /\ TokenAt(cur, n) = "DECLARED_TYPE" <=> sym[Get(cur, n)].kind = "Type"
  BY <1>1, TokenFacts
<1>3. Get(cur, n) < nextSym
  <2>1. PICK t \in chain[cur] : table[t][n] = Get(cur, n)
    BY <1>1, <1>2, GetFinds DEF Finds, Sym, NoSym
  <2> QED BY <1>1, <2>1 DEF ChainInv
<1>4. CheckedIn \in Allocated /\ Get(CheckedIn, n) = Get(cur, n)
  <2>1. CASE CheckedIn = cur
    BY <2>1, <1>1
  <2>2. CASE CheckedIn # cur
    <3>1. /\ CheckedIn = Top.outer
          /\ Top.rule \in StructRule \/ (Top.rule = "for" /\ Top.pos = "cond")
      BY <2>2 DEF CheckedIn
    <3>2. Top.inner # NoScope
      BY <1>1, <3>1 DEF FrameShape, Block, StructRule
    <3>3. /\ cur = Top.inner /\ Top.outer \in Allocated
          /\ chain[cur] = chain[Top.outer] \cup {cur}
          /\ Top.outer < cur
      BY <1>1, <3>2, PopReturns DEF StackInv
    <3>4. table[cur][n] = NoSym
      <4>1. CASE Top.rule = "for" /\ Top.pos = "cond"
        BY <1>1, <3>3, <4>1 DEF FrameNames
      <4>2. CASE Top.rule \in StructRule
        <5>1. SUFFICES ASSUME table[cur][n] # NoSym PROVE FALSE
          OBVIOUS
        <5>2. Finds(table, chain[cur], n, table[cur][n])
          <6>1. cur \in chain[cur] /\ \A t \in chain[cur] : ~(cur < t)
            BY <1>1 DEF ChainInv, Scope
          <6> QED BY <5>1, <6>1 DEF Finds
        <5>3. Get(cur, n) = table[cur][n]
          BY <5>2, <1>1, GetFinds, FindsUnique DEF TypeOK
        <5>4. sym[table[cur][n]].kind # "Type"
          BY <1>1, <3>3, <4>2, <5>1 DEF FrameNames
        <5> QED BY <5>3, <5>4, <1>2, <4>2
      <4> QED BY <3>1, <4>1, <4>2
    <3>5. Top.outer \in Scope /\ chain[Top.outer] \in SUBSET Scope
      BY <3>3 DEF TypeOK
    <3>6. Finds(table, chain[Top.outer], n, Get(cur, n))
      <4>1. Finds(table, chain[cur], n, Get(cur, n)) /\ Get(cur, n) # NoSym
        BY <1>1, <1>2, GetFinds DEF Sym, NoSym
      <4> QED BY <3>3, <3>4, <4>1 DEF Finds
    <3>7. Finds(table, chain[Top.outer], n, Get(Top.outer, n))
      BY <3>5, GetFinds
    <3> QED BY <3>1, <3>3, <3>5, <3>6, <3>7, FindsUnique
  <2> QED BY <2>1, <2>2
<1>5. HeaderDepth # 0 => /\ HeaderDepth = Depth
                         /\ CheckedIn = Top.outer
                         /\ Top.rule = "if" \/ Top.pos = "init"
  <2>1. SUFFICES ASSUME HeaderDepth # 0
                 PROVE  /\ HeaderDepth = Depth
                        /\ CheckedIn = Top.outer
                        /\ Top.rule = "if" \/ Top.pos = "init"
    OBVIOUS
  <2>2. /\ HeaderDepth = Depth
        /\ (Top.rule = "if" /\ Top.pos = "cond") \/ Top.pos = "init"
    BY <2>1 DEF HeaderDepth
  <2>3. Top.inner = NoScope
    BY <1>1, <2>2 DEF FrameShape, Block, StructRule, Frame, Rule
  <2>4. cur = Top.outer
    BY <2>3 DEF StackInv, Active
  <2> QED BY <2>2, <2>4 DEF CheckedIn
<1> QED BY <1>1, <1>2, <1>3, <1>4, <1>5 DEF SameAnswer, UseFiled

\* One more occurrence, or none, while nothing else changes but flags.
LEMMA RememberKept ==
  ASSUME IInv, TypeOK', UNCHANGED <<cur, chain, nextScope>>, Stays,
         Depth' = Depth, \A i \in 1..Depth : Same(ctx'[i], ctx[i]),
         uses' = uses \/ \E n \in Names :
           /\ Mention(n)
           /\ \/ TokenAt(cur, n) \in {"DECLARED_VAR", "DECLARED_FUNC"}
                  /\ Top.rule \notin StructRule
              \/ TokenAt(cur, n) = "DECLARED_TYPE"
  PROVE  IInv'
<1> USE ScopeFacts, TopFrame DEF IInv
<1>1. TableStep /\ ScopeStep
  BY DEF TableStep, ScopeStep, ChainInv
<1>2. LookupsKept /\ KindsKept /\ Allocated \subseteq Allocated' /\ nextSym <= nextSym'
  BY <1>1, LookupStep
<1>3. ASSUME NEW u \in uses', u \notin uses
      PROVE  SameAnswer(u)' /\ UseFiled(u)'
  <2>1. PICK n \in Names :
           /\ u = [name |-> n, sym |-> Get(cur, n), tok |-> TokenAt(cur, n),
                   check |-> CheckedIn, hdr |-> HeaderDepth]
           /\ \/ TokenAt(cur, n) \in {"DECLARED_VAR", "DECLARED_FUNC"}
                  /\ Top.rule \notin StructRule
              \/ TokenAt(cur, n) = "DECLARED_TYPE"
    BY <1>3 DEF Mention
  <2>2. SameAnswer(u) /\ UseFiled(u)
    BY <2>1, MentionKept
  <2>3. u \in Use
    BY <1>3 DEF TypeOK
  <2>4. u.hdr # 0 => /\ u.hdr \in 1..Depth'
                     /\ ctx'[u.hdr].outer = ctx[u.hdr].outer
                     /\ ctx'[u.hdr].rule = "if" \/ ctx'[u.hdr].pos = "init"
    BY <2>2 DEF UseFiled, Same
  <2> QED BY <1>2, <2>2, <2>3, <2>4, UseKept
<1>4. \A i \in 1..Depth : HarmlessTo(i)
  BY DEF HarmlessTo
<1> QED BY <1>1, <1>3, <1>4, SameStackKept

\* A statement that declares nothing keeps the invariant.
LEMMA PlainStepKept ==
  ASSUME IInv, TypeOK',
         \/ \E n \in Names : Assign(n) \/ UseIdent(n)
         \/ \E kind \in {"return", "break", "continue"} : JumpStmt(kind)
         \/ End
         \/ UNCHANGED vars
  PROVE  IInv'
<1>0. TypeOK /\ Top \in Frame /\ Same(Top, Top) /\ \A f \in Frame : Same(f, f)
  BY TopFrame DEF IInv, Same
<1>a. ASSUME ctx' = ctx
      PROVE  Depth' = Depth /\ \A i \in 1..Depth : Same(ctx'[i], ctx[i])
  BY <1>a DEF Depth, Same
<1>b. ASSUME sym' = sym, UNCHANGED <<table, nextSym>>
      PROVE  Stays
  BY <1>b DEF Stays, KindsKept
<1>1. ASSUME NEW n \in Names, Assign(n)
      PROVE  IInv'
  <2>1. Stays
    BY <1>1 DEF Assign, Stays, KindsKept, IInv, TypeOK, Symbol
  <2>2. Top.rule \notin StructRule
    BY <1>1, DeclarePosition DEF Assign, Block, StructRule
  <2> QED BY <1>0, <1>1, <2>1, <2>2, FilledSame, RememberKept DEF Assign
<1>2. ASSUME NEW n \in Names, UseIdent(n)
      PROVE  IInv'
  <2>1. CanMention => Top.rule \notin StructRule
    BY DeclarePosition DEF CanMention, FrameShape, StructRule
  <2> QED BY <1>0, <1>a, <1>b, <1>2, <2>1, RememberKept DEF UseIdent
<1>3. ASSUME NEW kind \in {"return", "break", "continue"}, JumpStmt(kind)
      PROVE  IInv'
  BY <1>0, <1>b, <1>3, FilledSame, RememberKept DEF JumpStmt
<1>4. CASE End
  <2>1. UNCHANGED <<ctx, cur, table, chain, node, nextScope, sym, nextSym, uses, jumps>>
    BY <1>4 DEF End, IllFormedType, SyntaxError, ScanFault, Accept
  <2> QED BY <1>a, <1>b, <2>1, RememberKept
<1>5. CASE UNCHANGED vars
  BY <1>a, <1>b, <1>5, RememberKept DEF vars
<1> QED BY <1>1, <1>2, <1>3, <1>4, <1>5

-----------------------------------------------------------------------------
(* Steps from one part of a production to the next.                        *)

\* Going on to the next part of a production keeps the invariant.
LEMMA NextPartKept ==
  ASSUME IInv, TypeOK', BeginBody \/ ForUpdate \/ ForBody
  PROVE  IInv'
<1> USE ScopeFacts, TopFrame DEF IInv
<1>1. PICK f \in Frame :
        /\ ctx' = SetTop(f)
        /\ f.rule = Top.rule /\ f.name = Top.name
        /\ f.outer = Top.outer /\ f.inner = Top.inner
        /\ \/ Top.rule = "func" /\ f.pos = "items"
           \/ Top.rule = "for" /\ Top.pos \in {"cond", "update"} /\ f.pos \in {"update", "items"}
  <2>0. FrameShape(Top) /\ Top \in Frame
    BY DeclarePosition
  <2>1. CASE BeginBody
    <3>1. Top.rule = "func"
      BY <2>0, <2>1 DEF BeginBody, FrameShape, Frame, Rule, Block, StructRule
    <3>2. [Top EXCEPT !.pos = "items", !.full = FALSE] \in Frame
      BY <2>0 DEF Frame, Position
    <3> QED BY <2>0, <2>1, <3>1, <3>2 DEF BeginBody, Frame
  <2>2. CASE ForUpdate
    <3>1. [Top EXCEPT !.pos = "update"] \in Frame
      BY <2>0 DEF Frame, Position
    <3> QED BY <2>0, <2>2, <3>1 DEF ForUpdate, Frame
  <2>3. CASE ForBody
    <3>1. Top.rule = "for"
      BY <2>0, <2>3 DEF ForBody, FrameShape, Frame, Rule, Block, StructRule
    <3>2. [Top EXCEPT !.pos = "items", !.full = FALSE] \in Frame
      BY <2>0 DEF Frame, Position
    <3> QED BY <2>0, <2>3, <3>1, <3>2 DEF ForBody, Frame
  <2> QED BY <2>1, <2>2, <2>3
<1>2. /\ Depth \in Nat \ {0} /\ ctx[Depth] = Top /\ Top' = f /\ Depth' = Depth
      /\ Depth \in 1..(Depth + 1) /\ Depth \in 1..Depth /\ ctx'[Depth] = f
      /\ \A i \in 1..(Depth - 1) : ctx'[i] = ctx[i]
  BY <1>1, SetTopStack DEF Top, Depth
<1>3. /\ UNCHANGED <<cur, chain, nextScope, uses, table, nextSym>>
      /\ Stays
  <2>1. UNCHANGED <<cur, chain, nextScope, uses, table, nextSym>>
    BY DEF BeginBody, ForUpdate, ForBody
  <2>2. \A k \in Sym : sym'[k].kind = sym[k].kind
    <3>1. CASE BeginBody
      <4>1. SUFFICES ASSUME NEW k \in Sym PROVE sym'[k].kind = sym[k].kind
        OBVIOUS
      <4>2. [sym[k] EXCEPT !.initialized = TRUE].kind = sym[k].kind
        BY DEF TypeOK, Symbol
      <4> QED BY <3>1, <4>2 DEF BeginBody
    <3>2. CASE ForUpdate \/ ForBody
      BY <3>2 DEF ForUpdate, ForBody
    <3> QED BY <3>1, <3>2
  <2> QED BY <2>1, <2>2 DEF Stays, KindsKept
<1>4. TableStep /\ ScopeStep /\ \A i \in 1..Depth : HarmlessTo(i)
  BY <1>3 DEF TableStep, ScopeStep, HarmlessTo, ChainInv
<1>5. StackStep(Depth)
  <2>1. FrameShape(f)
    BY <1>1, DeclarePosition DEF FrameShape, StructRule, Block
  <2>2. Active(f) = Active(Top) /\ cur = Active(Top)
    BY <1>1 DEF Active, StackInv
  <2>3. ctx'[2].rule = ctx[2].rule \/ Depth <= 2
    BY <1>2
  <2>4. \A i \in 1..(Depth - 1) : Same(ctx'[i], ctx[i])
    BY <1>2 DEF Same
  <2>5. /\ f.rule = "program" <=> Depth = 1
        /\ f.rule = "func" => Depth = 2
        /\ f.rule \in {"if", "else", "while", "for"} => Depth > 2 /\ ctx'[2].rule = "func"
    BY <1>1, <1>2, <2>3 DEF StackInv
  <2>6. \A i \in 1..(Depth - 1) : ctx[i].rule \in StructRule => f.rule = "anonymous"
    BY <1>1, <1>2 DEF StackInv
  <2> QED BY <1>1, <1>2, <1>3, <2>1, <2>2, <2>4, <2>5, <2>6 DEF StackStep
<1>6. GoesOn(Depth)
  BY <1>1, <1>2, <1>4 DEF GoesOn
<1>7. \A u \in uses' : StillFiled(u, Depth)
  <2>1. SUFFICES ASSUME NEW u \in uses PROVE StillFiled(u, Depth)
    BY <1>3
  <2>2. UseFiled(u) /\ u.hdr \in Nat
    BY DEF UsesInv, TypeOK, Use
  <2>3. u.hdr # Depth \/ u.hdr = 0
    <3>1. ~(Top.rule = "if" \/ Top.pos = "init")
      BY <1>1, DeclarePosition DEF FrameShape, BeginBody
    <3> QED BY <2>2, <1>2, <3>1 DEF UseFiled
  <2> QED BY <1>2, <2>2, <2>3 DEF StillFiled, UseFiled
<1> QED BY <1>2, <1>4, <1>5, <1>6, <1>7, InvKept

-----------------------------------------------------------------------------
(* Steps that begin a production.                                          *)

\* Beginning a production keeps the invariant.
LEMMA OpenKept ==
  ASSUME IInv, TypeOK', TableStep, \A i \in 1..Depth : HarmlessTo(i), uses' = uses,
         NEW f \in Frame, Push(ctx, f), f.outer = cur, FrameShape(f),
         Top.pos \notin {"cond", "after"},
         f.rule # "program", f.rule = "func" => Depth = 1,
         f.rule \in {"if", "else", "while", "for"} => Depth > 1 /\ ctx[2].rule = "func",
         \A i \in 1..Depth : ctx[i].rule \in StructRule => f.rule = "anonymous",
         \/ f.inner = NoScope /\ UNCHANGED <<cur, chain, nextScope>>
         \/ CreateScope /\ f.inner = nextScope,
         FrameNames(f)'
  PROVE  IInv'
<1> USE ScopeFacts, TopFrame DEF IInv
<1>1. /\ Depth \in Nat \ {0} /\ Depth' = Depth + 1 /\ Top' = f
      /\ \A i \in 1..Depth : ctx'[i] = ctx[i]
  BY PushStack DEF Top, Depth
<1>2. ScopeStep
  BY DEF ScopeStep, ChainInv
<1>3. StackStep(Depth + 1)
  <2>1. (Depth + 1) - 1 = Depth /\ ~(Depth + 1 <= Depth)
    BY <1>1
  <2>2. cur' = Active(f)
    <3>1. CASE f.inner = NoScope /\ UNCHANGED <<cur, chain, nextScope>>
      BY <3>1 DEF Active
    <3>2. CASE CreateScope /\ f.inner = nextScope
      BY <3>2 DEF Active, CreateScope, Scope, NoScope, TypeOK
    <3> QED BY <3>1, <3>2
  <2>3. Depth > 1 => ctx'[2].rule = ctx[2].rule
    BY <1>1
  <2>4. \A i \in 1..Depth : Same(ctx'[i], ctx[i])
    BY <1>1 DEF Same
  <2> QED BY <1>1, <2>1, <2>2, <2>3, <2>4 DEF StackStep
<1>4. \A u \in uses' : StillFiled(u, Depth + 1)
  <2>1. ASSUME NEW u \in uses
        PROVE  StillFiled(u, Depth + 1)
    <3>1. UseFiled(u) /\ u.hdr \in Nat
      BY DEF UsesInv, TypeOK, Use
    <3> QED BY <1>1, <3>1 DEF StillFiled, UseFiled
  <2> QED BY <2>1
<1>5. FrameNames(Top)'
  BY <1>1 DEF FrameNames
<1>6. Depth + 1 \in 1..(Depth + 1) /\ \A i \in 1..((Depth + 1) - 1) : i \in 1..Depth
  BY <1>1
<1> QED BY <1>2, <1>3, <1>4, <1>5, <1>6, InvKept

\* Beginning an if, a while or a for statement keeps the invariant.
LEMMA OpenStatementKept ==
  ASSUME IInv, TypeOK', NEW rule \in {"if", "while", "for"}, OpenStatement(rule)
  PROVE  IInv'
<1> USE TopFrame DEF IInv
<1>1. PICK f : f = NewFrame(rule, IF rule = "for" THEN "init" ELSE "cond", NoName, NoScope)
  OBVIOUS
<1>2. /\ f \in Frame /\ f.rule = rule /\ f.outer = cur /\ f.inner = NoScope
      /\ f.pos = IF rule = "for" THEN "init" ELSE "cond"
  BY <1>1, NewFrameType DEF NewFrame, Rule, Block, Position
<1>3. /\ Push(ctx, f) /\ UNCHANGED <<cur, chain, nextScope, uses>>
      /\ UNCHANGED <<table, sym, nextSym>> /\ CanNestStatement
  BY <1>1 DEF OpenStatement
<1>4. Stays
  BY <1>3 DEF Stays, KindsKept
<1>5. TableStep /\ \A i \in 1..Depth : HarmlessTo(i)
  BY <1>4 DEF TableStep, HarmlessTo
<1>6. FrameShape(f) /\ FrameNames(f)'
  BY <1>2 DEF FrameShape, FrameNames, StructRule, Block
<1>7. /\ Top.pos \notin {"cond", "after"} /\ Top.rule \in Block
      /\ Depth \in 1..Depth /\ ctx[Depth] = Top
  BY <1>3 DEF CanNestStatement, Top, Depth
<1>8. Depth > 1 /\ ctx[2].rule = "func"
  <2>1. Top.rule # "program" /\ Depth # 1
    BY <1>7 DEF Block, StackInv
  <2>2. CASE Top.rule = "func"
    BY <1>7, <2>1, <2>2 DEF StackInv
  <2>3. CASE Top.rule # "func"
    BY <1>7, <2>1, <2>3 DEF StackInv, Block
  <2> QED BY <2>2, <2>3
<1>9. \A i \in 1..Depth : ctx[i].rule \notin StructRule
  <2>1. SUFFICES ASSUME NEW i \in 1..Depth, ctx[i].rule \in StructRule PROVE FALSE
    OBVIOUS
  <2>2. i # Depth
    BY <2>1, <1>7 DEF Block, StructRule
  <2>3. Top.rule = "anonymous"
    BY <2>1, <2>2, <1>7 DEF StackInv
  <2> QED BY <2>3, <1>7 DEF Block
<1> QED BY <1>2, <1>3, <1>5, <1>6, <1>7, <1>8, <1>9, OpenKept

\* Only an anonymous struct is parsed inside another struct type.
LEMMA NoStructBelow ==
  ASSUME IInv, Top.rule \notin StructRule
  PROVE  \A i \in 1..Depth : ctx[i].rule \notin StructRule
<1>1. SUFFICES ASSUME NEW i \in 1..Depth, ctx[i].rule \in StructRule PROVE FALSE
  OBVIOUS
<1>2. Depth \in 1..Depth /\ ctx[Depth] = Top
  BY TopFrame DEF IInv, Top, Depth
<1>3. i < Depth
  BY <1>1, <1>2
<1>4. Top.rule = "anonymous"
  BY <1>1, <1>2, <1>3 DEF IInv, StackInv
<1> QED BY <1>4 DEF StructRule

\* A new table is empty, and it is the only one below the current table.
LEMMA NewTableFacts ==
  ASSUME TypeOK, ChainInv, CreateScope,
         \/ table' = table
         \/ \E n \in Names, x \in Symbol : Put(cur, n, x)
  PROVE  /\ \A n \in Names : table'[nextScope][n] = NoSym
         /\ \A t \in chain'[cur'] : t \in Scope /\ (cur < t => t = nextScope)
         /\ chain'[cur] = chain[cur]
         /\ nextScope # NoScope
<1> USE ScopeFacts, CreateScopeFacts
<1>1. cur \in Allocated /\ cur \in Scope /\ chain[cur] \subseteq 1..cur /\ nextScope \in Scope
  BY DEF ChainInv
<1>2. \A n \in Names : table'[nextScope][n] = table[nextScope][n]
  BY <1>1 DEF Put, TypeOK
<1>3. \A t \in chain'[cur'] : t = nextScope \/ t \in 1..cur
  BY <1>1
<1>4. \A t \in chain'[cur'] : t \in Scope /\ (cur < t => t = nextScope)
  BY <1>1, <1>3 DEF Scope
<1> QED BY <1>1, <1>2, <1>4 DEF Scope, NoScope

\* Beginning a struct keeps the invariant.
LEMMA OpenStructKept ==
  ASSUME IInv, TypeOK', NEW rule \in StructRule, NEW n \in Names \cup {NoName},
         OpenStruct(rule, n)
  PROVE  IInv'
<1> USE TopFrame, ScopeFacts DEF IInv
<1>1. PICK f : f = NewFrame(rule, "items", n, nextScope)
  OBVIOUS
<1>2. /\ CreateScope /\ Push(ctx, f) /\ uses' = uses
      /\ CanDeclare /\ (rule # "anonymous" => CanDeclareType)
      /\ rule # "anonymous" => n \in Names /\ TokenAt(cur, n) = "IDENT"
      /\ rule = "struct" => Put(cur, n, NewSymbol("Type", "null"))
      /\ rule # "struct" => UNCHANGED <<table, sym, nextSym>>
  BY <1>1, DeclarePosition DEF OpenStruct
<1>3. /\ f \in Frame /\ f.rule = rule /\ f.outer = cur /\ f.inner = nextScope
      /\ f.pos = "items" /\ f.name = n
  BY <1>1, <1>2, NewFrameType, CreateScopeType DEF NewFrame, Rule, Position
<1>4. /\ Top.pos \notin {"cond", "after"}
      /\ rule # "anonymous" => Top.rule \notin StructRule
  BY <1>2, DeclarePosition
<1> DEFINE x == NewSymbol("Type", "null")
<1>5. x \in Symbol
  BY NewSymbolType DEF Kind, Decl
<1> HIDE DEF x
<1>6. /\ \A m \in Names : table'[nextScope][m] = NoSym
      /\ \A t \in chain'[cur'] : t \in Scope /\ (cur < t => t = nextScope)
      /\ chain'[cur] = chain[cur]
      /\ nextScope # NoScope
  <2>1. table' = table \/ \E m \in Names, y \in Symbol : Put(cur, m, y)
    BY <1>2, <1>5 DEF x
  <2> QED BY <1>2, <2>1, NewTableFacts
<1>7. rule # "anonymous" => Get(cur, n) = NoSym /\ n \in Names
  BY <1>2, TokenFacts DEF TypeOK
<1>8. TableStep /\ \A i \in 1..Depth : HarmlessTo(i)
  <2>1. CASE rule = "struct"
    <3>1. Declares(cur, n, x) /\ n \in Names
      BY <1>2, <1>7, <2>1 DEF Declares, x
    <3> QED BY <1>4, <1>5, <2>1, <3>1, HarmlessHere
  <2>2. CASE rule # "struct"
    BY <1>2, <2>2 DEF Stays, KindsKept, TableStep, HarmlessTo
  <2> QED BY <2>1, <2>2
<1>9. FrameShape(f)
  BY <1>3, <1>6, <1>7 DEF FrameShape, StructRule, Block
<1>10. FrameNames(f)'
  <2>1. rule = "struct" =>
          /\ table'[f.outer][f.name] # NoSym
          /\ \A t \in chain'[cur'] : f.outer < t => table'[t][f.name] = NoSym
    <3>1. SUFFICES ASSUME rule = "struct"
                   PROVE  /\ table'[cur][n] # NoSym
                          /\ \A t \in chain'[cur'] : cur < t => table'[t][n] = NoSym
      BY <1>3
    <3>2. table'[cur][n] = nextSym /\ nextSym # NoSym
      BY <1>2, <1>7, <3>1 DEF Put, TypeOK, Sym, NoSym
    <3> QED BY <1>6, <1>7, <3>1, <3>2
  <2>2. rule = "alias" => \A t \in chain'[f.outer] : table'[t][f.name] = NoSym
    <3>1. SUFFICES ASSUME rule = "alias" PROVE \A t \in chain[cur] : table[t][n] = NoSym
      BY <1>2, <1>3, <1>6
    <3> QED BY <1>7, <3>1, GetFinds DEF Finds, TypeOK
  <2>3. \A m \in Names : table'[f.inner][m] = NoSym
    BY <1>3, <1>6
  <2> QED BY <1>3, <2>1, <2>2, <2>3 DEF FrameNames, StructRule
<1>11. \A i \in 1..Depth : ctx[i].rule \in StructRule => f.rule = "anonymous"
  BY <1>3, <1>4, NoStructBelow
<1> QED BY <1>2, <1>3, <1>4, <1>8, <1>9, <1>10, <1>11, OpenKept DEF StructRule

\* A function's parameters begin in the program's table, whose walk is itself.
LEMMA AtRoot ==
  ASSUME IInv, Top.rule = "program"
  PROVE  /\ Depth = 1 /\ cur = Root /\ chain[Root] = {Root} /\ Root \in Allocated
         /\ Top.pos = "items"
<1>1. Depth \in 1..Depth /\ ctx[Depth] = Top
  BY TopFrame DEF IInv, Top, Depth
<1>2. Depth = 1 /\ FrameShape(Top)
  BY <1>1 DEF IInv, StackInv
<1>3. cur = Root /\ Top.pos = "items"
  BY <1>2 DEF IInv, StackInv, FrameShape, Active
<1>4. cur \in Allocated /\ Root \in chain[Root] /\ chain[Root] \subseteq 1..Root
  BY <1>3 DEF IInv, ChainInv
<1> QED BY <1>2, <1>3, <1>4 DEF Root

\* Beginning a function keeps the invariant.
LEMMA OpenFuncKept ==
  ASSUME IInv, TypeOK', NEW n \in Names, OpenFunc(n) \/ OpenForwardFunc(n)
  PROVE  IInv'
<1> USE TopFrame, ScopeFacts DEF IInv
<1>0. Top.rule = "program" /\ Top.rule \notin StructRule
  BY DEF OpenFunc, OpenForwardFunc, StructRule
<1> DEFINE x == NewSymbol("Func", "null")
<1>1. x \in Symbol /\ x.kind = "Func"
  BY NewSymbolType DEF Kind, Decl, NewSymbol
<1> HIDE DEF x
<1>2. CASE OpenForwardFunc(n) /\ sym[Get(cur, n)].initialized
  <2>1. UNCHANGED <<ctx, cur, table, chain, nextScope, sym, nextSym, uses>>
    BY <1>2 DEF OpenForwardFunc
  <2>2. Stays /\ Depth' = Depth /\ \A i \in 1..Depth : Same(ctx'[i], ctx[i])
    BY <2>1 DEF Stays, KindsKept, Depth, Same
  <2> QED BY <2>1, <2>2, RememberKept
<1>3. ASSUME CreateScope, Push(ctx, NewFrame("func", "params", n, nextScope)), uses' = uses,
             \/ Put(cur, n, x) /\ TokenAt(cur, n) = "IDENT"
             \/ UNCHANGED <<table, sym, nextSym>> /\ TokenAt(cur, n) = "DECLARED_VAR"
      PROVE  IInv'
  <2>1. PICK f : f = NewFrame("func", "params", n, nextScope)
    OBVIOUS
  <2>2. /\ f \in Frame /\ f.rule = "func" /\ f.outer = cur /\ f.inner = nextScope
        /\ f.pos = "params" /\ f.name = n
    BY <2>1, <1>3, NewFrameType, CreateScopeType DEF NewFrame, Rule, Position, Block
  <2>3. Depth = 1 /\ cur = Root /\ chain[cur] = {cur} /\ cur \in Scope /\ Top.pos = "items"
    BY <1>0, AtRoot
  <2>4. /\ \A m \in Names : table'[nextScope][m] = NoSym
        /\ \A t \in chain'[cur'] : t \in Scope /\ (cur < t => t = nextScope)
        /\ nextScope # NoScope
    BY <1>1, <1>3, NewTableFacts
  <2>5. CASE Put(cur, n, x) /\ TokenAt(cur, n) = "IDENT"
    <3>1. Declares(cur, n, x)
      BY <2>5, TokenFacts DEF Declares, TypeOK
    <3>2. TableStep /\ \A i \in 1..Depth : HarmlessTo(i)
      BY <1>0, <1>1, <2>3, <3>1, HarmlessHere
    <3>3. /\ table'[cur][n] = nextSym /\ nextSym # NoSym
          /\ sym'[nextSym] = x
      BY <2>5 DEF Put, TypeOK, Sym, NoSym
    <3>4. FrameNames(f)'
      BY <1>1, <2>2, <2>4, <3>3 DEF FrameNames, StructRule
    <3> QED BY <1>0, <1>3, <2>1, <2>2, <2>3, <2>4, <3>2, <3>4, NoStructBelow, OpenKept
            DEF FrameShape, StructRule, Block
  <2>6. CASE UNCHANGED <<table, sym, nextSym>> /\ TokenAt(cur, n) = "DECLARED_VAR"
    <3>1. Get(cur, n) \in Sym /\ sym[Get(cur, n)].kind # "Type"
      BY <2>6, TokenFacts DEF TypeOK
    <3>2. table[cur][n] = Get(cur, n) /\ Get(cur, n) # NoSym
      <4>1. Get(cur, n) # NoSym
        BY <3>1 DEF Sym, NoSym
      <4> QED BY <2>3, <4>1, GetFinds DEF Finds
    <3>3. TableStep /\ \A i \in 1..Depth : HarmlessTo(i)
      BY <2>6 DEF Stays, KindsKept, TableStep, HarmlessTo
    <3>4. FrameNames(f)'
      BY <2>2, <2>4, <2>6, <3>1, <3>2 DEF FrameNames, StructRule
    <3> QED BY <1>0, <1>3, <2>1, <2>2, <2>3, <2>4, <3>3, <3>4, NoStructBelow, OpenKept
            DEF FrameShape, StructRule, Block
  <2> QED BY <1>3, <2>5, <2>6
<1> QED BY <1>2, <1>3 DEF OpenFunc, OpenForwardFunc, x

-----------------------------------------------------------------------------
(* Steps that give the innermost production its table.                     *)

\* The production goes on with a new table, in which the occurrences of its
\* header, if they are to be checked there, are looked up.
LEMMA NewTableKept ==
  ASSUME IInv, TypeOK', CreateScope, UNCHANGED <<table, sym, nextSym>>,
         Top.inner = NoScope, NEW f \in Frame, ctx' = SetTop(f),
         f.outer = Top.outer, f.inner = nextScope, FrameShape(f),
         f.rule = Top.rule \/ (Top.rule = "if" /\ f.rule = "else"),
         f.rule \in {"if", "else", "while", "for"},
         \/ uses' = uses /\ Top.rule # "for" /\ f.rule = Top.rule
         \/ uses' = Settle(uses, Depth, nextScope)
  PROVE  IInv'
<1> USE ScopeFacts, TopFrame DEF IInv
<1>1. /\ Depth \in Nat \ {0} /\ ctx[Depth] = Top /\ Top' = f /\ Depth' = Depth
      /\ Depth \in 1..(Depth + 1) /\ Depth \in 1..Depth /\ ctx'[Depth] = f
      /\ \A i \in 1..(Depth - 1) : ctx'[i] = ctx[i]
  BY SetTopStack DEF Top, Depth
<1>2. Top.outer = cur /\ cur' = nextScope /\ nextScope \in Scope /\ nextScope # NoScope
      /\ cur \in Allocated /\ cur \in Scope
  BY CreateScopeFacts DEF StackInv, Active, ChainInv, Scope, NoScope
<1>3. Stays /\ TableStep /\ ScopeStep /\ \A i \in 1..Depth : HarmlessTo(i)
  BY DEF Stays, KindsKept, TableStep, ScopeStep, HarmlessTo
<1>4. StackStep(Depth)
  <2>1. \A i \in 1..(Depth - 1) : Same(ctx'[i], ctx[i])
    BY <1>1 DEF Same
  <2>2. Depth > 2 => ctx'[2].rule = ctx[2].rule \/ Depth = 2
    BY <1>1
  <2>3. /\ ~(f.rule = "program") /\ Depth # 1 /\ f.rule # "func"
        /\ Depth > 2 /\ ctx'[2].rule = "func"
    BY <1>1, <2>2 DEF StackInv
  <2>4. \A i \in 1..(Depth - 1) : ctx[i].rule \notin StructRule
    BY <1>1, NoStructBelow DEF StructRule
  <2> QED BY <1>1, <1>2, <2>1, <2>3, <2>4 DEF StackStep, Active
<1>5. FrameNames(Top)'
  <2>1. \A n \in Names : table'[nextScope][n] = NoSym
    BY NewTableFacts
  <2> QED BY <1>1, <2>1 DEF FrameNames, StructRule
<1>6. LookupsKept /\ KindsKept /\ Allocated \subseteq Allocated' /\ nextSym <= nextSym'
  BY <1>3, LookupStep
<1>a. PICK new : new = nextScope
  OBVIOUS
<1>7. ASSUME NEW n \in Names, Get(cur, n) # NoSym
      PROVE  Get(new, n)' = Get(cur, n)
  <2>1. /\ chain'[new] = chain[cur] \cup {new}
        /\ chain'[new] \in SUBSET Scope
        /\ table'[new][n] = NoSym
    BY <1>a, <1>2, CreateScopeFacts, NewTableFacts DEF TypeOK
  <2>2. PICK t \in chain[cur] : /\ table[t][n] = Get(cur, n)
                                /\ \A u \in chain[cur] : t < u => table[u][n] = NoSym
    BY <1>2, <1>7, GetFinds DEF Finds
  <2>3. Finds(table', chain'[new], n, Get(cur, n))
    BY <1>7, <2>1, <2>2 DEF Finds
  <2>4. Finds(table', chain'[new], n, Get(new, n)')
    BY <1>a, <1>2, GetFindsNext
  <2> QED BY <2>1, <2>3, <2>4, FindsUnique
<1>8. ASSUME NEW u \in uses'
      PROVE  StillFiled(u, Depth) \/ (SameAnswer(u)' /\ UseFiled(u)')
  <2>1. CASE u \in uses
    <3>1. UseFiled(u) /\ u.hdr \in Nat
      BY <2>1 DEF UsesInv, TypeOK, Use
    <3>2. u.hdr = Depth /\ Depth # 0 => f.rule = "if"
      <4>1. CASE uses' = uses /\ Top.rule # "for" /\ f.rule = Top.rule
        <5>1. u.hdr = Depth => Top.rule = "if" \/ Top.pos = "init"
          BY <1>1, <3>1 DEF UseFiled
        <5>2. Top.pos = "init" => Top.rule = "for"
          BY DeclarePosition DEF FrameShape, Frame, Rule, Block, StructRule
        <5> QED BY <4>1, <5>1, <5>2
      <4>2. CASE uses' = Settle(uses, Depth, nextScope)
        <5>1. ASSUME NEW v \in uses PROVE v.hdr = Depth => [v EXCEPT !.check = nextScope, !.hdr = 0].hdr # Depth
          BY <1>1 DEF TypeOK, Use
        <5>2. u.hdr # Depth
          BY <1>1, <2>1, <4>2, <5>1 DEF Settle
        <5> QED BY <5>2
      <4> QED BY <4>1, <4>2
    <3> QED BY <1>1, <2>1, <3>1, <3>2 DEF StillFiled, UseFiled
  <2>2. CASE u \notin uses
    <3>1. PICK v \in uses : v.hdr = Depth /\ u = [v EXCEPT !.check = new, !.hdr = 0]
      <4>1. uses' = Settle(uses, Depth, nextScope)
        BY <2>2
      <4>2. PICK v \in uses : u = IF v.hdr = Depth THEN [v EXCEPT !.check = new, !.hdr = 0]
                              ELSE v
        BY <1>a, <4>1 DEF Settle
      <4> QED BY <2>2, <4>2
    <3>2. v \in Use /\ SameAnswer(v) /\ UseFiled(v)
      BY DEF UsesInv, ResolutionStable, TypeOK
    <3>3. /\ u.check = new /\ u.hdr = 0 /\ u.name = v.name /\ u.sym = v.sym
          /\ u.tok = v.tok /\ v.sym \in Sym /\ v.name \in Names
      BY <3>1, <3>2 DEF Use
    <3>4. v.check = cur /\ v.sym < nextSym /\ v.sym # NoSym
      BY <1>1, <1>2, <3>1, <3>2, <3>3 DEF UseFiled, Sym, NoSym
    <3>5. Get(new, v.name)' = v.sym
      BY <1>7, <3>2, <3>3, <3>4 DEF SameAnswer
    <3>6. (v.tok = "DECLARED_TYPE") <=> (sym'[v.sym].kind = "Type")
      BY <3>2 DEF SameAnswer
    <3>7. new \in Allocated'
      BY <1>a, CreateScopeFacts
    <3> QED BY <1>6, <3>3, <3>4, <3>5, <3>6, <3>7 DEF SameAnswer, UseFiled
  <2> QED BY <2>1, <2>2
<1> QED BY <1>1, <1>3, <1>4, <1>5, <1>8, InvKept

\* Going into the table of a block, a for header or an else keeps the invariant.
LEMMA EnterTableKept ==
  ASSUME IInv, TypeOK', EnterBlock \/ ForCond \/ Else
  PROVE  IInv'
<1> USE TopFrame DEF IInv
<1>1. FrameShape(Top) /\ Top \in Frame
  BY DeclarePosition
<1>2. CreateScope /\ UNCHANGED <<table, sym, nextSym>> /\ nextScope # NoScope
  BY DEF EnterBlock, ForCond, Else, CreateScope, Scope, NoScope
<1>3. CASE EnterBlock
  <2>1. PICK f : f = [Top EXCEPT !.pos = "items", !.inner = nextScope]
    OBVIOUS
  <2>2. /\ f \in Frame /\ f.rule = Top.rule /\ f.outer = Top.outer
        /\ f.pos = "items" /\ f.inner = nextScope
    BY <1>1, <1>2, <2>1, CreateScopeType DEF Frame, Position
  <2>3. /\ ctx' = SetTop(f) /\ Top.rule \in {"if", "while"} /\ Top.pos = "cond"
        /\ uses' = uses
    BY <1>3, <2>1 DEF EnterBlock
  <2>4. FrameShape(f) /\ Top.inner = NoScope
    BY <1>1, <1>2, <2>2, <2>3 DEF FrameShape, Block, StructRule
  <2> QED BY <1>2, <2>2, <2>3, <2>4, NewTableKept
<1>4. CASE ForCond
  <2>1. PICK f : f = [Top EXCEPT !.pos = "cond", !.inner = nextScope, !.full = FALSE]
    OBVIOUS
  <2>2. /\ f \in Frame /\ f.rule = Top.rule /\ f.outer = Top.outer
        /\ f.pos = "cond" /\ f.inner = nextScope
    BY <1>1, <1>2, <2>1, CreateScopeType DEF Frame, Position
  <2>3. /\ ctx' = SetTop(f) /\ Top.pos = "init"
        /\ uses' = Settle(uses, Depth, nextScope)
    BY <1>4, <2>1 DEF ForCond
  <2>4. Top.rule = "for"
    BY <1>1, <2>3 DEF FrameShape, Frame, Rule, Block, StructRule
  <2>5. FrameShape(f) /\ Top.inner = NoScope
    BY <1>1, <1>2, <2>2, <2>3, <2>4 DEF FrameShape, Block, StructRule
  <2> QED BY <1>2, <2>2, <2>3, <2>4, <2>5, NewTableKept
<1>5. CASE Else
  <2>1. PICK f : f = [Top EXCEPT !.rule = "else", !.pos = "items",
                                 !.inner = nextScope, !.full = FALSE]
    OBVIOUS
  <2>2. /\ f \in Frame /\ f.rule = "else" /\ f.outer = Top.outer
        /\ f.pos = "items" /\ f.inner = nextScope
    BY <1>1, <1>2, <2>1, CreateScopeType DEF Frame, Position, Rule, Block
  <2>3. /\ ctx' = SetTop(f) /\ Top.pos = "after"
        /\ uses' = Settle(uses, Depth, nextScope)
    BY <1>5, <2>1 DEF Else
  <2>4. Top.rule = "if"
    BY <1>1, <2>3 DEF FrameShape, Frame, Rule, Block, StructRule
  <2>5. FrameShape(f) /\ Top.inner = NoScope
    BY <1>1, <1>2, <2>2, <2>3, <2>4 DEF FrameShape, Block, StructRule
  <2> QED BY <1>2, <2>2, <2>3, <2>4, <2>5, NewTableKept
<1> QED BY <1>3, <1>4, <1>5

-----------------------------------------------------------------------------
(* Steps that end a production.                                            *)

\* A declaration in the table around the innermost production harms none of
\* the others.
LEMMA HarmlessOutside ==
  ASSUME IInv, Depth > 1, Top.outer \in Allocated, NEW n \in Names, NEW x \in Symbol,
         Declares(Top.outer, n, x), x.kind = "Type" => Top.rule # "anonymous"
  PROVE  TableStep /\ \A i \in 1..(Depth - 1) : HarmlessTo(i)
<1> USE ScopeFacts, TopFrame DEF IInv
<1>1. /\ Depth \in Nat \ {0} /\ ctx[Depth] = Top /\ Depth \in 1..Depth
      /\ cur \in Allocated /\ Top.outer \in chain[cur]
  BY DEF Top, Depth, ChainInv, StackInv
<1>2. TableStep
  BY DEF TableStep
<1>3. chain[Top.outer] = chain[cur] \cap 1..Top.outer
  BY <1>1 DEF ChainInv
<1>4. ASSUME NEW i \in 1..(Depth - 1)
      PROVE  Harmless(ctx[i], Top.outer, n, x)
  <2>1. /\ i \in 1..Depth /\ i < Depth /\ ctx[i].outer \in chain[cur]
        /\ FrameShape(ctx[i]) /\ ctx[i] \in Frame
    BY <1>1 DEF StackInv
  <2>2. /\ ctx[i].pos # "cond" /\ Active(ctx[i]) <= Top.outer
        /\ ctx[i].rule \in StructRule => Top.rule = "anonymous"
    BY <1>1, <2>1 DEF StackInv
  <2>3. ctx[i].inner # NoScope => ctx[i].outer < ctx[i].inner
    BY <2>1 DEF StackInv
  <2>4. /\ ctx[i].outer \in 1..MaxScopes /\ Top.outer \in 1..MaxScopes
        /\ ctx[i].inner \in Scope \cup {NoScope} /\ MaxScopes \in Nat
    BY <2>1, BoundsAssumption DEF Frame, Scope
  <2>5. ctx[i].outer <= Top.outer
    BY <2>2, <2>3, <2>4 DEF Active, Scope, NoScope
  <2>6. ctx[i].outer \in chain[Top.outer]
    BY <1>3, <2>1, <2>4, <2>5
  <2>7. ctx[i].rule = "alias" => ctx[i].outer < Top.outer
    <3>1. ctx[i].rule = "alias" => ctx[i].inner # NoScope
      BY <2>1 DEF FrameShape, StructRule
    <3> QED BY <2>2, <2>3, <2>4, <3>1 DEF Active, Scope, NoScope
  <2> QED BY <2>2, <2>6, <2>7 DEF Harmless
<1> QED BY <1>2, <1>4 DEF HarmlessTo

\* The innermost production ends and the one around it goes on.
LEMMA EndKept ==
  ASSUME IInv, TypeOK', Depth > 1, TableStep, \A i \in 1..(Depth - 1) : HarmlessTo(i),
         UNCHANGED <<chain, nextScope>>, cur' = Top.outer, ctx' = Filled(Below),
         \/ uses' = uses /\ Top.rule # "if" /\ Top.pos # "init"
         \/ uses' = Unfile(uses, Depth)
  PROVE  IInv'
<1> USE ScopeFacts, TopFrame DEF IInv
<1> DEFINE m == Depth - 1
<1>1. /\ Depth \in Nat \ {0} /\ ctx[Depth] = Top /\ Depth \in 1..Depth
      /\ m \in 1..Depth /\ m \in 1..(Depth + 1) /\ m < Depth
      /\ Depth = m + 1 /\ m \in Nat
  BY DEF Top, Depth
<1>2. /\ Len(Below) = m /\ Below \in Seq(Frame) /\ Below # << >>
      /\ \A i \in 1..m : Below[i] = ctx[i]
  BY BelowStack
<1>3. /\ Depth' = m /\ Top' = ctx'[m]
      /\ Top' = [Below[m] EXCEPT !.full = TRUE]
      /\ \A i \in 1..(m - 1) : ctx'[i] = ctx[i]
  <2>1. Len(Filled(Below)) = m /\ Filled(Below)[m] = [Below[m] EXCEPT !.full = TRUE]
        /\ \A i \in 1..(m - 1) : Filled(Below)[i] = Below[i]
    BY <1>2, FilledStack
  <2> HIDE DEF m
  <2> QED BY <1>1, <1>2, <2>1 DEF Depth, Top
<1> HIDE DEF m
<1>4. /\ \A i \in 1..(m - 1) : Same(ctx'[i], ctx[i])
      /\ Same(Top', ctx[m])
  <2>1. m \in 1..m /\ ctx[m] \in Frame
    BY <1>1
  <2>2. Below[m] = ctx[m]
    BY <1>2, <2>1
  <2>3. Same([ctx[m] EXCEPT !.full = TRUE], ctx[m])
    BY <2>1 DEF Same, Frame
  <2>4. \A i \in 1..(m - 1) : Same(ctx'[i], ctx[i])
    BY <1>3 DEF Same
  <2> QED BY <1>3, <2>2, <2>3, <2>4
<1>5. Top.outer = Active(ctx[m]) /\ Top.outer \in chain[cur]
  BY <1>1 DEF StackInv, m
<1>6. ScopeStep
  BY <1>5 DEF ScopeStep
<1>7. StackStep(m)
  <2>1. FrameShape(ctx[m])
    BY <1>1 DEF StackInv
  <2>2. FrameShape(Top')
    BY <1>4, <2>1 DEF Same, FrameShape
  <2>3. m > 2 => ctx'[2].rule = ctx[2].rule
    BY <1>1, <1>3
  <2>4. /\ Top'.rule = "program" <=> m = 1
        /\ Top'.rule = "func" => m = 2
        /\ Top'.rule \in {"if", "else", "while", "for"} => m > 2 /\ ctx'[2].rule = "func"
    BY <1>1, <1>4, <2>3 DEF Same, StackInv
  <2>5. \A i \in 1..(m - 1) : ctx[i].rule \in StructRule => Top'.rule = "anonymous"
    BY <1>1, <1>4 DEF Same, StackInv
  <2>6. cur' = Active(Top') /\ Top'.outer = ctx[m].outer /\ Top'.inner = ctx[m].inner
    BY <1>4, <1>5 DEF Same, Active
  <2> QED BY <1>1, <1>3, <1>4, <2>2, <2>4, <2>5, <2>6 DEF StackStep
<1>8. HarmlessTo(m) /\ \A i \in 1..(m - 1) : HarmlessTo(i)
  BY <1>1 DEF m
<1>9. GoesOn(m)
  BY <1>1, <1>4, <1>8 DEF GoesOn, Same
<1>10. ASSUME NEW u \in uses'
       PROVE  StillFiled(u, m) \/ (SameAnswer(u)' /\ UseFiled(u)')
  <2>1. ASSUME u \in uses, u.hdr # Depth
        PROVE  StillFiled(u, m)
    <3>1. UseFiled(u) /\ u.hdr \in Nat
      BY <2>1 DEF UsesInv, TypeOK, Use
    <3>2. u.hdr = m /\ m # 0 => Top'.rule = "if" \/ Top'.pos = "init"
      BY <1>4, <3>1 DEF UseFiled, Same
    <3>3. u.hdr # 0 => u.hdr \in 1..Depth
      BY <3>1 DEF UseFiled
    <3>4. u.hdr # 0 => u.hdr < m \/ u.hdr = m
      BY <1>1, <2>1, <3>1, <3>3
    <3>5. m <= Depth /\ m # 0
      BY <1>1
    <3> QED BY <2>1, <3>2, <3>4, <3>5 DEF StillFiled
  <2>2. CASE uses' = uses /\ Top.rule # "if" /\ Top.pos # "init"
    <3>1. UseFiled(u)
      BY <2>2 DEF UsesInv
    <3> QED BY <1>1, <2>1, <2>2, <3>1 DEF UseFiled
  <2>3. CASE uses' = Unfile(uses, Depth)
    <3>1. PICK v \in uses : u = IF v.hdr = Depth THEN [v EXCEPT !.hdr = 0] ELSE v
      BY <2>3 DEF Unfile
    <3>2. CASE v.hdr # Depth
      BY <2>1, <3>1, <3>2
    <3>3. CASE v.hdr = Depth
      <4>1. v \in Use /\ SameAnswer(v) /\ UseFiled(v)
        BY DEF UsesInv, ResolutionStable, TypeOK
      <4>2. /\ u \in Use /\ u.hdr = 0 /\ u.check = v.check
            /\ u.name = v.name /\ u.sym = v.sym /\ u.tok = v.tok
        BY <3>1, <3>3, <4>1 DEF Use
      <4>3. SameAnswer(u) /\ UseFiled(u)
        BY <4>1, <4>2 DEF SameAnswer, UseFiled
      <4>4. LookupsKept /\ KindsKept /\ Allocated \subseteq Allocated' /\ nextSym <= nextSym'
        BY <1>6, LookupStep
      <4> QED BY <4>2, <4>3, <4>4, UseKept
    <3> QED BY <3>2, <3>3
  <2> QED BY <2>2, <2>3
<1> QED BY <1>1, <1>6, <1>7, <1>8, <1>9, <1>10, InvKept

\* The end of an if statement keeps the invariant.
LEMMA EndIfKept ==
  ASSUME IInv, TypeOK', EndIf
  PROVE  IInv'
<1> USE TopFrame DEF IInv
<1>1. FrameShape(Top) /\ Top \in Frame
  BY DeclarePosition
<1>2. Top.rule = "if" /\ Top.inner = NoScope
  BY <1>1 DEF EndIf, FrameShape, Frame, Rule, Block, StructRule
<1>3. Depth > 1
  BY <1>2, NotProgram
<1>4. cur = Top.outer
  BY <1>2 DEF StackInv, Active
<1>5. UNCHANGED <<cur, chain, nextScope, table, sym, nextSym>>
      /\ ctx' = Filled(Below) /\ uses' = Unfile(uses, Depth)
  BY DEF EndIf
<1>6. TableStep /\ \A i \in 1..(Depth - 1) : HarmlessTo(i)
  BY <1>5 DEF Stays, KindsKept, TableStep, HarmlessTo
<1> QED BY <1>3, <1>4, <1>5, <1>6, EndKept

\* The end of a struct keeps the invariant.
LEMMA CloseStructKept ==
  ASSUME IInv, TypeOK', NEW n \in Names, CloseStruct(n)
  PROVE  IInv'
<1> USE TopFrame, ScopeFacts DEF IInv
<1>1. FrameShape(Top) /\ Top \in Frame /\ Top.rule \in StructRule
      /\ Depth \in 1..Depth /\ ctx[Depth] = Top
  BY DeclarePosition DEF CloseStruct, Top, Depth
<1>2. Top.inner # NoScope /\ Top.pos = "items" /\ Top.rule \notin {"program", "if"}
  BY <1>1 DEF FrameShape, StructRule
<1>3. Depth > 1
  BY <1>2, NotProgram
<1>4. Enclosing(cur) = Top.outer /\ Top.outer \in Allocated /\ Top.outer \in Scope
  BY <1>2, PopReturns
<1>5. CASE ~Top.sized
  <2>1. UNCHANGED <<ctx, cur, table, chain, nextScope, sym, nextSym, uses>>
    BY <1>5 DEF CloseStruct
  <2>2. Stays /\ Depth' = Depth /\ \A i \in 1..Depth : Same(ctx'[i], ctx[i])
    BY <2>1 DEF Stays, KindsKept, Depth, Same
  <2> QED BY <2>1, <2>2, RememberKept
<1>6. CASE Top.sized
  <2>1. /\ UNCHANGED <<chain, nextScope>> /\ uses' = uses
        /\ cur' = Top.outer /\ ctx' = Filled(Below) /\ DeclareStruct(n)
    BY <1>4, <1>6 DEF CloseStruct, PopScope
  <2>2. TableStep /\ \A i \in 1..(Depth - 1) : HarmlessTo(i)
    <3>1. CASE Top.rule = "struct"
      <4>1. /\ sym' = [sym EXCEPT ![Get(Top.outer, Top.name)].decl = "struct"]
            /\ UNCHANGED <<table, nextSym>>
        BY <1>4, <2>1, <3>1 DEF DeclareStruct
      <4>2. \A k \in Sym : sym'[k].kind = sym[k].kind
        <5>1. \A k \in Sym : [sym[k] EXCEPT !.decl = "struct"].kind = sym[k].kind
          BY DEF TypeOK, Symbol
        <5> QED BY <4>1, <5>1 DEF TypeOK
      <4> QED BY <4>1, <4>2 DEF Stays, KindsKept, TableStep, HarmlessTo
    <3>2. CASE Top.rule = "alias"
      <4> DEFINE x == NewSymbol("Type", "alias")
      <4>1. Top.name \in Names /\ x \in Symbol
        BY <1>1, <3>2, NewSymbolType DEF FrameShape, Kind, Decl
      <4>2. Put(Top.outer, Top.name, x)
        BY <1>4, <2>1, <3>2 DEF DeclareStruct
      <4>3. Get(Top.outer, Top.name) = NoSym
        <5>1. \A t \in chain[Top.outer] : table[t][Top.name] = NoSym
          BY <1>1, <3>2 DEF NamesInv, FrameNames
        <5>2. Finds(table, chain[Top.outer], Top.name, NoSym)
          BY <5>1 DEF Finds
        <5>3. chain[Top.outer] \in SUBSET Scope
          BY <1>4 DEF TypeOK
        <5> QED BY <1>4, <4>1, <5>2, <5>3, GetFinds, FindsUnique
      <4> HIDE DEF x
      <4> QED BY <1>3, <1>4, <3>2, <4>1, <4>2, <4>3, HarmlessOutside DEF Declares
    <3>3. CASE Top.rule = "anonymous"
      <4> DEFINE x == NewSymbol("Var", "var")
      <4>1. x \in Symbol /\ x.kind # "Type"
        BY NewSymbolType DEF Kind, Decl, NewSymbol
      <4>2. Put(Top.outer, n, x) /\ TokenAt(Top.outer, n) = "IDENT"
        BY <1>4, <2>1, <3>3 DEF DeclareStruct
      <4>3. Get(Top.outer, n) = NoSym
        BY <1>4, <4>2, TokenFacts
      <4> HIDE DEF x
      <4> QED BY <1>3, <1>4, <3>3, <4>1, <4>2, <4>3, HarmlessOutside DEF Declares
    <3> QED BY <1>1, <3>1, <3>2, <3>3 DEF StructRule
  <2> QED BY <1>2, <1>3, <2>1, <2>2, EndKept
<1> QED BY <1>1, <1>5, <1>6 DEF Frame

\* The end of a block keeps the invariant.
LEMMA CloseBlockKept ==
  ASSUME IInv, TypeOK', CloseBlock
  PROVE  IInv'
<1> USE TopFrame, ScopeFacts DEF IInv
<1>1. FrameShape(Top) /\ Top \in Frame /\ Top.rule \in Block /\ Top.pos = "items"
      /\ Depth \in 1..Depth /\ ctx[Depth] = Top /\ Depth \in Nat \ {0}
  BY DeclarePosition DEF CloseBlock, Top, Depth
<1>2. Top.inner # NoScope /\ Top.rule # "program"
  BY <1>1 DEF FrameShape, Block
<1>3. Depth > 1
  BY <1>2, NotProgram
<1>4. /\ Enclosing(cur) = Top.outer /\ Top.outer \in Allocated /\ Top.outer \in Scope
      /\ Top.outer \in chain[cur]
  BY <1>1, <1>2, PopReturns DEF StackInv
<1>5. UNCHANGED <<chain, nextScope, uses, table, nextSym>> /\ cur' = Top.outer
  BY <1>4 DEF CloseBlock, PopScope
<1>6. Stays
  <2>1. CASE Top.rule = "func"
    <3> DEFINE k == Get(Top.outer, Top.name)
    <3>1. /\ table[Top.outer][Top.name] # NoSym /\ Top.name \in Names
          /\ sym[table[Top.outer][Top.name]].kind # "Type"
      BY <1>1, <2>1 DEF NamesInv, FrameNames, FrameShape
    <3>2. k = table[Top.outer][Top.name]
      <4>1. Top.outer \in chain[Top.outer] /\ \A t \in chain[Top.outer] : ~(Top.outer < t)
        BY <1>4 DEF ChainInv, Scope
      <4>2. Finds(table, chain[Top.outer], Top.name, table[Top.outer][Top.name])
        BY <3>1, <4>1 DEF Finds
      <4>3. chain[Top.outer] \in SUBSET Scope
        BY <1>4 DEF TypeOK
      <4> QED BY <1>4, <3>1, <4>2, <4>3, GetFinds, FindsUnique
    <3>3. sym' = [sym EXCEPT ![k] = [kind |-> "Func", decl |-> "func", initialized |-> TRUE]]
      BY <1>4, <2>1 DEF CloseBlock
    <3> HIDE DEF k
    <3> QED BY <1>5, <3>1, <3>2, <3>3 DEF Stays, KindsKept, TypeOK
  <2>2. CASE Top.rule # "func"
    BY <1>5, <2>2 DEF CloseBlock, Stays, KindsKept
  <2> QED BY <2>1, <2>2
<1>7. TableStep /\ \A i \in 1..Depth : HarmlessTo(i)
  BY <1>6 DEF TableStep, HarmlessTo
<1>8. CASE Top.rule # "if"
  <2>1. ctx' = Filled(Below)
    BY <1>8 DEF CloseBlock
  <2>2. \A i \in 1..(Depth - 1) : HarmlessTo(i)
    BY <1>7
  <2> QED BY <1>1, <1>3, <1>5, <1>7, <1>8, <2>1, <2>2, EndKept
<1>9. CASE Top.rule = "if"
  <2>1. PICK f : f = [Top EXCEPT !.pos = "after", !.inner = NoScope]
    OBVIOUS
  <2>2. /\ f \in Frame /\ f.rule = "if" /\ f.outer = Top.outer
        /\ f.pos = "after" /\ f.inner = NoScope /\ ctx' = SetTop(f)
    BY <1>1, <1>9, <2>1 DEF Frame, Position, CloseBlock
  <2>3. /\ Top' = f /\ Depth' = Depth /\ ctx'[Depth] = f
        /\ \A i \in 1..(Depth - 1) : ctx'[i] = ctx[i]
    BY <1>1, <2>2, SetTopStack DEF Top, Depth
  <2>4. ScopeStep
    BY <1>4, <1>5 DEF ScopeStep
  <2>5. StackStep(Depth)
    <3>1. FrameShape(f)
      BY <2>2 DEF FrameShape, Block, StructRule
    <3>2. \A i \in 1..(Depth - 1) : Same(ctx'[i], ctx[i])
      BY <2>3 DEF Same
    <3>3. Depth > 2 => ctx'[2].rule = ctx[2].rule \/ Depth = 2
      BY <1>1, <2>3
    <3>4. Depth > 2 /\ ctx'[2].rule = "func"
      BY <1>1, <1>9, <3>3 DEF StackInv
    <3>5. \A i \in 1..(Depth - 1) : ctx[i].rule \notin StructRule
      BY <1>1, <1>9, NoStructBelow DEF StructRule
    <3>6. cur' = Active(f)
      BY <1>5, <2>2 DEF Active
    <3> QED BY <1>1, <2>2, <2>3, <3>1, <3>2, <3>4, <3>5, <3>6 DEF StackStep
  <2>6. FrameNames(Top)'
    BY <2>2, <2>3 DEF FrameNames, StructRule
  <2>7. \A u \in uses' : StillFiled(u, Depth)
    <3>1. SUFFICES ASSUME NEW u \in uses PROVE StillFiled(u, Depth)
      BY <1>5
    <3>2. u.hdr # 0 => u.hdr \in 1..Depth
      BY DEF UsesInv, UseFiled
    <3>3. u.hdr # 0 => u.hdr < Depth \/ u.hdr = Depth
      BY <1>1, <3>2
    <3> QED BY <1>1, <2>2, <2>3, <3>3 DEF StillFiled
  <2>8. Depth \in 1..(Depth + 1) /\ \A i \in 1..(Depth - 1) : HarmlessTo(i)
    BY <1>1, <1>7
  <2> QED BY <1>7, <2>4, <2>5, <2>6, <2>7, <2>8, InvKept
<1> QED BY <1>8, <1>9

-----------------------------------------------------------------------------
(* The invariant, and what follows from it.                                *)

\* The invariant holds of the parser's first state.
LEMMA InvInit ==
  ASSUME Init
  PROVE  IInv
<1>1. TypeOK
  BY TypeInit
<1>2. /\ IsFiniteSet(Builtins)
      /\ Cardinality(Builtins) \in Nat
  BY BuiltinsAssumption, FS_Subset, FS_CardinalityType DEF Builtins
<1>3. ChainInv
  <2>1. Allocated = {Root} /\ cur = Root /\ Root \in Scope /\ Root = 1
    BY BoundsAssumption DEF Init, Allocated, Root, Scope
  <2>2. chain[Root] = {Root} /\ {Root} \cap 1..Root = {Root}
    BY <2>1 DEF Init
  <2>3. \A s \in Scope \ Allocated : \A n \in Names : table[s][n] = NoSym
    BY <2>1 DEF Init
  <2>4. \A s \in Scope, n \in Names : table[s][n] < nextSym
    <3>1. \A s \in Scope, n \in Names :
             table[s][n] = NoSym \/ table[s][n] \in 1..Cardinality(Builtins)
      BY BuiltinsAssumption DEF Init
    <3> QED BY <1>2, <3>1 DEF Init, NoSym
  <2> QED BY <2>1, <2>2, <2>3, <2>4 DEF ChainInv
<1>4. /\ Depth = 1 /\ Top = ctx[1] /\ Top.rule = "program" /\ Top.pos = "items"
      /\ Top.name = NoName /\ Top.outer = Root /\ Top.inner = NoScope
  BY DEF Init, Depth, Top
<1>5. StackInv
  <2>1. FrameShape(Top)
    BY <1>4 DEF FrameShape, StructRule, Block
  <2>2. Top.outer \in chain[cur] /\ cur = Active(Top)
    BY <1>3, <1>4 DEF Init, ChainInv, Active
  <2>3. 1..Depth = {1} /\ 1..(Depth - 1) = {}
    BY <1>4
  <2> QED BY <1>4, <2>1, <2>2, <2>3 DEF StackInv
<1>6. NamesInv
  BY <1>4 DEF NamesInv, FrameNames, StructRule
<1>7. UsesInv
  BY DEF Init, UsesInv, ResolutionStable
<1> QED BY <1>1, <1>3, <1>5, <1>6, <1>7 DEF IInv

\* Every step of the parser keeps the invariant.
LEMMA InvStep ==
  ASSUME IInv, [Next]_vars
  PROVE  IInv'
<1>1. TypeOK'
  BY TypeStep DEF IInv
<1>2. CASE UNCHANGED vars
  BY <1>1, <1>2, PlainStepKept
<1>3. CASE Declaration
  BY <1>1, <1>3, DeclareKept, OpenFuncKept, OpenStructKept, CloseStructKept, NextPartKept
     DEF Declaration
<1>4. CASE Statement
  BY <1>1, <1>4, OpenStatementKept, EnterTableKept, NextPartKept, CloseBlockKept,
     EndIfKept, PlainStepKept DEF Statement
<1>5. CASE (\E n \in Names : UseIdent(n)) \/ End
  BY <1>1, <1>5, PlainStepKept
<1> QED BY <1>2, <1>3, <1>4, <1>5 DEF Next

\* The invariant IInv holds in every reachable state of the front end.
THEOREM Invariant == Spec => []IInv
<1>1. Init => IInv
  BY InvInit
<1>2. IInv /\ [Next]_vars => IInv'
  BY InvStep
<1> QED BY <1>1, <1>2, PTL DEF Spec

\* Every variable of the front end stays within its type.
THEOREM TypeCorrect == Spec => []TypeOK
<1>1. IInv => TypeOK
  BY DEF IInv
<1> QED BY <1>1, Invariant, PTL

\* The typechecker's lookup of an identifier, in the table it is checked in,
\* finds the symbol the scanner found, and its kind is still what the token
\* said: Ident::type_of and unaliased never meet another symbol.
THEOREM ResolutionIsStable == Spec => []ResolutionStable
<1>1. IInv => ResolutionStable
  BY DEF IInv, UsesInv
<1> QED BY <1>1, Invariant, PTL

\* A function or struct looked up after its body under the name in its header
\* is the one its header declared, and the name of a type alias is still
\* undeclared when the type has been parsed.
THEOREM HeaderNamesAreKept == Spec => []HeaderNamesHold
<1>1. IInv => HeaderNamesHold
  <2>1. SUFFICES ASSUME IInv, NEW i \in 1..Depth
                 PROVE  /\ ctx[i].rule \in {"func", "struct"} =>
                             /\ table[ctx[i].outer][ctx[i].name] # NoSym
                             /\ Get(cur, ctx[i].name) = table[ctx[i].outer][ctx[i].name]
                        /\ ctx[i].rule = "alias" => Get(ctx[i].outer, ctx[i].name) = NoSym
    BY DEF HeaderNamesHold
  <2> USE TopFrame, ScopeFacts DEF IInv
  <2>2. /\ FrameShape(ctx[i]) /\ FrameNames(ctx[i]) /\ ctx[i] \in Frame
        /\ ctx[i].outer \in chain[cur] /\ ctx[i].outer \in Scope
        /\ cur \in Scope
    BY <2>1 DEF StackInv, NamesInv, ChainInv, Frame
  <2>3. /\ chain[cur] \in SUBSET Scope /\ chain[ctx[i].outer] \in SUBSET Scope
        /\ TypeOK
    BY <2>1, <2>2 DEF TypeOK
  <2>4. ASSUME ctx[i].rule \in {"func", "struct"}
        PROVE  /\ table[ctx[i].outer][ctx[i].name] # NoSym
               /\ Get(cur, ctx[i].name) = table[ctx[i].outer][ctx[i].name]
    <3>1. ctx[i].name \in Names /\ table[ctx[i].outer][ctx[i].name] # NoSym
      BY <2>2, <2>4 DEF FrameShape, FrameNames
    <3>2. Finds(table, chain[cur], ctx[i].name, table[ctx[i].outer][ctx[i].name])
      BY <2>2, <2>4, <3>1 DEF FrameNames, Finds
    <3> QED BY <2>2, <2>3, <3>1, <3>2, GetFinds, FindsUnique
  <2>5. ASSUME ctx[i].rule = "alias"
        PROVE  Get(ctx[i].outer, ctx[i].name) = NoSym
    <3>1. ctx[i].name \in Names
      BY <2>2, <2>5 DEF FrameShape
    <3>2. Finds(table, chain[ctx[i].outer], ctx[i].name, NoSym)
      BY <2>2, <2>5 DEF FrameNames, Finds
    <3> QED BY <2>2, <2>3, <3>1, <3>2, GetFinds, FindsUnique
  <2> QED BY <2>4, <2>5
<1> QED BY <1>1, Invariant, PTL

\* A declaration of an unknown name is the only change a Put makes.
LEMMA PutOnce ==
  ASSUME TypeOK, NEW p \in Scope, NEW m \in Names, NEW x, Put(p, m, x), Get(p, m) = NoSym
  PROVE  \A s \in Scope, n \in Names : table'[s][n] # table[s][n] => Get(s, n) = NoSym
BY DEF Put, TypeOK

\* No step puts a name that can already be found from the table it is put in.
LEMMA NeverShadowsStep ==
  ASSUME IInv, [Next]_vars
  PROVE  \A s \in Scope, n \in Names : table'[s][n] # table[s][n] => Get(s, n) = NoSym
<1> USE DEF IInv
<1>0. TypeOK /\ cur \in Scope
  BY DEF TypeOK
<1>1. CASE table' = table
  BY <1>1
<1>2. ASSUME NEW m \in Names, NEW x, Put(cur, m, x), TokenAt(cur, m) = "IDENT"
      PROVE  \A s \in Scope, n \in Names : table'[s][n] # table[s][n] => Get(s, n) = NoSym
  BY <1>0, <1>2, PutOnce, TokenFacts
<1>3. ASSUME NEW m \in Names, CloseStruct(m), table' # table
      PROVE  \A s \in Scope, n \in Names : table'[s][n] # table[s][n] => Get(s, n) = NoSym
  <2>1. /\ Top.rule \in {"alias", "anonymous"} /\ DeclareStruct(m)
        /\ FrameShape(Top) /\ Depth \in 1..Depth /\ ctx[Depth] = Top
    <3>1. Depth \in 1..Depth /\ ctx[Depth] = Top
      BY TopFrame DEF Top, Depth
    <3>2. Top.rule \in StructRule /\ DeclareStruct(m)
      BY <1>3 DEF CloseStruct
    <3>3. Top.rule # "struct"
      BY <1>3, <3>2 DEF DeclareStruct
    <3> QED BY <3>1, <3>2, <3>3, DeclarePosition DEF StructRule
  <2>2. /\ Top.inner # NoScope
        /\ Top.rule = "alias" => Top.name \in Names
    BY <2>1 DEF FrameShape, StructRule
  <2>3. Enclosing(cur) = Top.outer /\ Top.outer \in Scope
    BY <2>2, PopReturns
  <2>4. CASE Top.rule = "alias"
    <3>1. Put(Top.outer, Top.name, NewSymbol("Type", "alias"))
      BY <2>1, <2>3, <2>4 DEF DeclareStruct
    <3>2. \A t \in chain[Top.outer] : table[t][Top.name] = NoSym
      BY <2>1, <2>4 DEF NamesInv, FrameNames
    <3>3. Get(Top.outer, Top.name) = NoSym
      BY <2>2, <2>3, <2>4, <3>2, GetFinds DEF Finds
    <3> QED BY <2>2, <2>3, <2>4, <3>1, <3>3, PutOnce
  <2>5. CASE Top.rule = "anonymous"
    <3>1. Put(Top.outer, m, NewSymbol("Var", "var")) /\ TokenAt(Top.outer, m) = "IDENT"
      BY <2>1, <2>3, <2>5 DEF DeclareStruct
    <3> QED BY <2>3, <3>1, PutOnce, TokenFacts
  <2> QED BY <2>1, <2>4, <2>5
<1>4. CASE UNCHANGED vars
  BY <1>1, <1>4 DEF vars
<1>5. CASE Declaration
  <2>1. ASSUME NEW n \in Names, \/ \E sized \in BOOLEAN : VarDecl(n, sized)
                                \/ VarDeclInit(n) \/ TypeAlias(n) \/ OpenFunc(n)
        PROVE  \E x : Put(cur, n, x) /\ TokenAt(cur, n) = "IDENT"
    BY <2>1 DEF VarDecl, VarDeclInit, TypeAlias, OpenFunc
  <2>2. ASSUME NEW rule \in StructRule, NEW n \in Names \cup {NoName}, OpenStruct(rule, n)
        PROVE  table' = table \/ \E m \in Names : \E x : Put(cur, m, x) /\ TokenAt(cur, m) = "IDENT"
    BY <2>2 DEF OpenStruct
  <2>3. ASSUME NEW n \in Names, OpenForwardFunc(n)
        PROVE  table' = table
    BY <2>3 DEF OpenForwardFunc
  <2>4. BeginBody => table' = table
    BY DEF BeginBody
  <2> QED BY <1>1, <1>2, <1>3, <1>5, <2>1, <2>2, <2>3, <2>4 DEF Declaration
<1>6. CASE Statement
  BY <1>1, <1>6 DEF Statement, OpenStatement, EnterBlock, ForCond, ForUpdate, ForBody,
     CloseBlock, Else, EndIf, Assign, JumpStmt
<1>7. CASE (\E n \in Names : UseIdent(n)) \/ End
  BY <1>1, <1>7 DEF UseIdent, End, IllFormedType, SyntaxError, ScanFault, Accept
<1> QED BY <1>4, <1>5, <1>6, <1>7 DEF Next

\* No declaration replaces a symbol of its table or hides one of a table
\* around it, and no symbol is taken out of a table.
THEOREM PutsNeverShadow == Spec => PutNeverShadows
<1>1. IInv /\ [Next]_vars =>
        [\A s \in Scope, n \in Names :
            table'[s][n] # table[s][n] => Get(s, n) = NoSym]_vars
  BY NeverShadowsStep
<1> QED BY <1>1, Invariant, PTL DEF Spec, PutNeverShadows

-----------------------------------------------------------------------------
(* What Scopes promises of an accepted program: the parser is back in the  *)
(* table it started from and every table has a node, the walks of return,  *)
(* break and continue end at the function and at the loop they were        *)
(* written in, and every symbol has its declaration. All three look at     *)
(* tables that are popped, and at symbols that are completed, long after   *)
(* what they are about was parsed: the invariant EndInv says in the        *)
(* meantime, of every table, which production owns it, and of every        *)
(* symbol, which one will complete it.                                     *)

\* The kind of node that a production gives its table to.
KindOf(rule) == IF rule = "else" THEN "ifelse"
                ELSE IF rule \in StructRule THEN "struct" ELSE rule

OwnerKind == Block \cup {"ifelse", "struct", "program"}

\* The tables of the productions still open, each with its production's kind.
OwnerOf(f) == IF f.inner = NoScope THEN {} ELSE {<<f.inner, KindOf(f.rule)>>}
Owners(n) == UNION {OwnerOf(ctx[i]) : i \in 1..n}
OpenOwners == Owners(Depth)

\* Table s belongs to a node of kind k, or will once its production is over.
Owns(s, k) == <<s, k>> \in OpenOwners \/ (k # "none" /\ node[s] = k)

\* A table has no node exactly as long as its production is open, a walk from
\* the current table meets the tables of the open productions, and every walk
\* ends at the root.
OwnersInv ==
    /\ \A s \in Scope : node[s] = "none" <=>
          s = Root \/ s >= nextScope \/ \E p \in OpenOwners : p[1] = s
    /\ \A p, q \in OpenOwners : p[1] = q[1] => p = q
    /\ \A p \in OpenOwners : p[1] # Root /\ p[1] \in Allocated /\ p[2] # "none"
    /\ chain[cur] = {Root} \cup {p[1] : p \in OpenOwners}
    /\ \A s \in Allocated : Root \in chain[s]

\* The initializer of a for header holds no statement with a block.
InitNests ==
    \A i \in 1..(Depth - 1) : ctx[i].pos = "init" => ctx[i + 1].rule \in StructRule

\* A walk from the table of a jump meets one function's table, that of the
\* function it was written in, and a loop's table if it was written in a loop;
\* a jump in the initializer of a for will be moved into the table of the loop.
LoopTable(t) == Owns(t, "while") \/ Owns(t, "for")

JumpFiled(j) ==
    /\ j.check \in Allocated
    /\ j.func \in chain[j.check] /\ Owns(j.func, "func")
    /\ \A t \in chain[j.check] : Owns(t, "func") => t = j.func
    /\ j.inLoop <=> j.hdr # 0 \/ \E t \in chain[j.check] : LoopTable(t)
    /\ j.hdr # 0 => /\ j.hdr \in 1..Depth
                    /\ ctx[j.hdr].pos = "init"
                    /\ j.check = ctx[j.hdr].outer

JumpsInv == \A j \in jumps : JumpFiled(j)

\* A symbol has the declaration its kind asks for, or is the one that the
\* header of a function or struct still open has put.
Complete(k) ==
    CASE sym[k].kind = "Var"  -> sym[k].decl = "var"
      [] sym[k].kind = "Func" -> sym[k].decl = "func"
      [] sym[k].kind = "Type" ->
           \/ sym[k].decl \in {"alias", "struct"}
           \/ sym[k].decl = "null" /\ \E p \in PrimTypes : BuiltinSym[p] = k

HeaderSym(f) == table[f.outer][f.name]

Pending(k) == \E i \in 1..Depth : ctx[i].rule \in {"func", "struct"} /\ HeaderSym(ctx[i]) = k

DeclsInv ==
    /\ \A k \in 1..(nextSym - 1) : Complete(k) \/ Pending(k)
    /\ \A i \in 1..Depth : ctx[i].rule = "struct" => sym[HeaderSym(ctx[i])].kind = "Type"

AcceptInv == status = "accepted" => Top.rule = "program"

EndInv == OwnersInv /\ InitNests /\ JumpsInv /\ DeclsInv /\ AcceptInv

-----------------------------------------------------------------------------
(* What a step does to the stack and to the tables of its productions.     *)

\* The m outermost productions are what they were.
Keeps(m) == \A i \in 1..m : Same(ctx'[i], ctx[i])

\* The production at the top goes on, with the table it has.
GoesOnHere ==
    /\ Depth' = Depth /\ Keeps(Depth - 1)
    /\ Top'.rule = Top.rule /\ Top'.name = Top.name
    /\ Top'.outer = Top.outer /\ Top'.inner = Top.inner
    /\ \/ Top'.pos = Top.pos
       \/ Top.pos # "init" /\ Top'.pos # "init"
    /\ UNCHANGED <<cur, chain, node, nextScope>>

\* A production begins, with a table of its own or without.
Begins ==
    /\ Depth' = Depth + 1 /\ Keeps(Depth)
    /\ Top.pos = "init" => Top'.rule \in StructRule
    /\ node' = node
    /\ \/ Top'.inner = NoScope /\ UNCHANGED <<cur, chain, nextScope>>
       \/ Top'.inner = nextScope /\ CreateScope

\* The production at the top gets a table.  If it is a for, the jumps of its
\* initializer move into that table.
Enters ==
    /\ Depth' = Depth /\ Keeps(Depth - 1)
    /\ Top.pos = "init" => Top'.rule = "for" /\ jumps' = Settle(jumps, Depth, nextScope)
    /\ Top.inner = NoScope /\ Top'.inner = nextScope
    /\ Top.rule \notin {"func", "struct"} /\ Top'.rule \notin {"func", "struct"}
    /\ CreateScope /\ node' = node

\* The production at the top has no table any more and its node has one more.
Leaves ==
    /\ Top.inner # NoScope /\ Top.pos # "init"
    /\ cur' = Top.outer
    /\ node' = [node EXCEPT ![cur] = KindOf(Top.rule)]
    /\ UNCHANGED <<chain, nextScope>>

\* The production at the top is over.
Finishes ==
    /\ Depth > 1 /\ Depth' = Depth - 1 /\ Keeps(Depth - 1)
    /\ \/ Leaves
       \/ Top.rule = "if" /\ Top.inner = NoScope /\ Top.pos # "init" /\ UNCHANGED <<cur, chain, node, nextScope>>

\* The block of an if is over, and an else may follow.
LeavesIf ==
    /\ Depth' = Depth /\ Keeps(Depth - 1) /\ Top.rule = "if" /\ Leaves
    /\ Top'.rule = "if" /\ Top'.inner = NoScope /\ Top'.pos = "after"

Moves == GoesOnHere \/ Begins \/ Enters \/ Finishes \/ LeavesIf

\* A step that changes no production but its list goes on.
LEMMA SameMoves ==
  ASSUME TypeOK, NEW f \in Frame, Same(f, Top), ctx' = SetTop(f) \/ ctx' = Filled(ctx) \/ ctx' = ctx,
         UNCHANGED <<cur, chain, node, nextScope>>
  PROVE  GoesOnHere
<1>1. Depth \in Nat \ {0} /\ ctx[Depth] = Top
  BY TopFrame DEF Top, Depth
<1>2. Depth' = Depth /\ \A i \in 1..Depth : Same(ctx'[i], ctx[i])
  <2>1. CASE ctx' = ctx
    BY <2>1 DEF Depth, Same
  <2> QED BY <2>1, FilledSame
<1>3. Top' = ctx'[Depth] /\ Same(Top', Top) /\ Keeps(Depth - 1)
  BY <1>1, <1>2 DEF Top, Depth, Keeps
<1> QED BY <1>2, <1>3 DEF GoesOnHere, Same

\* Changing the top of the stack keeps the productions below.
LEMMA SetTopMoves ==
  ASSUME TypeOK, NEW f \in Frame, ctx' = SetTop(f)
  PROVE  Depth' = Depth /\ Keeps(Depth - 1) /\ Top' = f
<1>1. Depth \in Nat \ {0}
  BY TopFrame
<1>2. Depth' = Depth /\ Top' = f /\ \A i \in 1..(Depth - 1) : ctx'[i] = ctx[i]
  BY <1>1, SetTopStack DEF Top, Depth
<1> QED BY <1>2 DEF Keeps, Same

\* Pushing a production keeps the ones there are.
LEMMA PushMoves ==
  ASSUME TypeOK, NEW f \in Frame, Push(ctx, f)
  PROVE  Depth' = Depth + 1 /\ Keeps(Depth) /\ Top' = f
<1>1. Depth' = Depth + 1 /\ Top' = f /\ \A i \in 1..Depth : ctx'[i] = ctx[i]
  BY PushStack DEF Top, Depth
<1> QED BY <1>1 DEF Keeps, Same

\* Popping a production keeps the ones below, whose innermost has one more item.
LEMMA PopMoves ==
  ASSUME TypeOK, Depth > 1, ctx' = Filled(Below)
  PROVE  Depth' = Depth - 1 /\ Keeps(Depth - 1)
<1>1. /\ Depth \in Nat
      /\ Below \in Seq(Frame) /\ Below # << >> /\ Len(Below) = Depth - 1
      /\ \A i \in 1..(Depth - 1) : Below[i] = ctx[i] /\ ctx[i] \in Frame
  BY BelowStack, TopFrame
<1>2. /\ Len(ctx') = Depth - 1
      /\ ctx'[Depth - 1] = [ctx[Depth - 1] EXCEPT !.full = TRUE]
      /\ \A i \in 1..(Depth - 2) : ctx'[i] = ctx[i]
  <2>1. Depth - 1 \in 1..(Depth - 1) /\ (Depth - 1) - 1 = Depth - 2
    BY <1>1
  <2> QED BY <1>1, <2>1, FilledStack
<1>3. \A f \in Frame : Same([f EXCEPT !.full = TRUE], f) /\ Same(f, f)
  BY DEF Same, Frame
<1>4. ASSUME NEW i \in 1..(Depth - 1)
      PROVE  Same(ctx'[i], ctx[i])
  <2>1. ctx[i] \in Frame /\ (i = Depth - 1 \/ i \in 1..(Depth - 2))
    BY <1>1
  <2> QED BY <2>1, <1>2, <1>3
<1>5. Depth' = Depth - 1
  BY <1>2 DEF Depth
<1> QED BY <1>4, <1>5 DEF Keeps

\* Declarations go on with the production they are in, or begin one.
LEMMA DeclarationMoves ==
  ASSUME IInv, IInv', Declaration
  PROVE  Moves
<1> USE TopFrame DEF IInv
<1>0. /\ TypeOK /\ Top \in Frame /\ FrameShape(Top) /\ Same(Top, Top)
      /\ \A f \in Frame : Same(f, f)
  BY DeclarePosition DEF Same
<1>1. ASSUME NEW n \in Names, NEW sized \in BOOLEAN, VarDecl(n, sized)
      PROVE  GoesOnHere
  <2>1. PICK f : f = [Top EXCEPT !.full = TRUE, !.sized = @ /\ sized]
    OBVIOUS
  <2>2. f \in Frame /\ Same(f, Top)
    BY <1>0, <2>1 DEF Frame, Same
  <2> QED BY <1>1, <2>1, <2>2, SameMoves DEF VarDecl
<1>2. ASSUME NEW n \in Names, VarDeclInit(n) \/ TypeAlias(n)
      PROVE  GoesOnHere
  BY <1>0, <1>2, SameMoves DEF VarDeclInit, TypeAlias
<1>3. ASSUME NEW f, f \in Frame, Push(ctx, f), f.inner = nextScope, CreateScope, node' = node,
             Top.pos = "init" => f.rule \in StructRule
      PROVE  Begins
  BY <1>3, PushMoves DEF Begins
<1>4. ASSUME NEW rule \in Rule, NEW pos \in Position, NEW name \in Names \cup {NoName}, CreateScope
      PROVE  /\ NewFrame(rule, pos, name, nextScope) \in Frame
             /\ NewFrame(rule, pos, name, nextScope).inner = nextScope
             /\ NewFrame(rule, pos, name, nextScope).rule = rule
  BY <1>4, CreateScopeType, NewFrameType DEF NewFrame
<1>5. ASSUME NEW n \in Names, OpenFunc(n) \/ OpenForwardFunc(n)
      PROVE  Moves
  <2>1. Top.rule = "program" /\ Top.pos = "items"
    BY <1>0, <1>5 DEF OpenFunc, OpenForwardFunc, FrameShape
  <2>2. CASE status' = "exit" /\ UNCHANGED <<ctx, cur, chain, nextScope, node>>
    BY <1>0, <2>2, SameMoves DEF Moves
  <2>3. CASE CreateScope /\ Push(ctx, NewFrame("func", "params", n, nextScope)) /\ node' = node
    BY <2>1, <2>3, <1>3, <1>4 DEF Moves, Rule, Block, Position
  <2> QED BY <1>5, <2>2, <2>3 DEF OpenFunc, OpenForwardFunc
<1>6. ASSUME NEW rule \in StructRule, NEW n \in Names \cup {NoName}, OpenStruct(rule, n)
      PROVE  Begins
  BY <1>6, <1>3, <1>4 DEF OpenStruct, Rule, Position
<1>7. ASSUME NEW n \in Names, CloseStruct(n)
      PROVE  Moves
  <2>1. Top.inner # NoScope /\ Top.pos # "init" /\ Top.rule # "program" /\ Top.rule \in StructRule
    BY <1>0, <1>7 DEF CloseStruct, FrameShape, StructRule
  <2>2. CASE ~Top.sized
    BY <1>0, <1>7, <2>2, SameMoves DEF CloseStruct, Moves
  <2>3. CASE Top.sized
    <3>1. /\ cur' = Enclosing(cur) /\ node' = [node EXCEPT ![cur] = "struct"]
          /\ ctx' = Filled(Below) /\ UNCHANGED <<chain, nextScope>>
      BY <1>7, <2>3 DEF CloseStruct, PopScope
    <3>2. Leaves
      BY <2>1, <3>1, PopReturns DEF Leaves, KindOf, StructRule
    <3> QED BY <2>1, <3>1, <3>2, NotProgram, PopMoves DEF Finishes, Moves
  <2> QED BY <1>0, <2>2, <2>3 DEF Frame
<1>8. CASE BeginBody
  <2>1. PICK f : f = [Top EXCEPT !.pos = "items", !.full = FALSE]
    OBVIOUS
  <2>2. /\ f \in Frame /\ f.pos = "items" /\ f.rule = Top.rule /\ f.name = Top.name
        /\ f.outer = Top.outer /\ f.inner = Top.inner
    BY <1>0, <2>1 DEF Frame, Position
  <2>3. ctx' = SetTop(f) /\ UNCHANGED <<cur, chain, node, nextScope>> /\ Top.pos = "params"
    BY <1>8, <2>1 DEF BeginBody
  <2> QED BY <2>2, <2>3, SetTopMoves DEF GoesOnHere, Moves
<1> QED BY <1>1, <1>2, <1>5, <1>6, <1>7, <1>8 DEF Declaration, Moves

\* Entering a table.
LEMMA TableMoves ==
  ASSUME TypeOK, NEW f \in Frame, ctx' = SetTop(f), f.inner = nextScope, CreateScope, node' = node,
         Top.inner = NoScope, Top.rule \notin {"func", "struct"}, f.rule \notin {"func", "struct"},
         Top.pos = "init" => f.rule = "for" /\ jumps' = Settle(jumps, Depth, nextScope)
  PROVE  Enters
BY SetTopMoves DEF Enters

\* The condition of a for is the only one parsed with jumps to be moved.
LEMMA ForCondMoves ==
  ASSUME IInv, ForCond
  PROVE  Enters
<1>0. TypeOK /\ Top \in Frame /\ FrameShape(Top)
  BY TopFrame, DeclarePosition DEF IInv
<1>1. PICK f : f = [Top EXCEPT !.pos = "cond", !.inner = nextScope, !.full = FALSE]
  OBVIOUS
<1>2. f \in Frame /\ f.inner = nextScope /\ f.rule = Top.rule
  BY <1>0, <1>1, CreateScopeType DEF ForCond, Frame, Position
<1>3. Top.rule = "for" /\ Top.inner = NoScope
  BY <1>0 DEF ForCond, FrameShape, Frame, Rule, Block, StructRule
<1> QED BY <1>0, <1>1, <1>2, <1>3, TableMoves DEF ForCond

\* Statements go on, begin, get their table, or end.
LEMMA StatementMoves ==
  ASSUME IInv, IInv', Statement
  PROVE  Moves
<1> USE TopFrame DEF IInv
<1>0. /\ TypeOK /\ Top \in Frame /\ FrameShape(Top) /\ Same(Top, Top)
      /\ \A f \in Frame : Same(f, f)
  BY DeclarePosition DEF Same
<1>1. ASSUME NEW rule \in {"if", "while", "for"}, OpenStatement(rule)
      PROVE  Begins
  <2>1. PICK f : f = NewFrame(rule, IF rule = "for" THEN "init" ELSE "cond", NoName, NoScope)
    OBVIOUS
  <2>2. f \in Frame /\ f.inner = NoScope
    BY <2>1, NewFrameType DEF NewFrame, Rule, Block, Position
  <2> QED BY <1>1, <2>1, <2>2, PushMoves DEF OpenStatement, CanNestStatement, Begins
<1>3. CASE EnterBlock
  <2>1. PICK f : f = [Top EXCEPT !.pos = "items", !.inner = nextScope]
    OBVIOUS
  <2>2. f \in Frame /\ f.inner = nextScope /\ f.rule = Top.rule
    BY <1>0, <1>3, <2>1, CreateScopeType DEF EnterBlock, Frame, Position
  <2> QED BY <1>0, TableMoves, <1>3, <2>1, <2>2 DEF EnterBlock, FrameShape, Block, Moves
<1>4. CASE ForCond
  BY <1>4, ForCondMoves DEF Moves
<1>5. CASE Else
  <2>1. PICK f : f = [Top EXCEPT !.rule = "else", !.pos = "items",
                                 !.inner = nextScope, !.full = FALSE]
    OBVIOUS
  <2>2. f \in Frame /\ f.inner = nextScope /\ f.rule = "else"
    BY <1>0, <1>5, <2>1, CreateScopeType DEF Else, Frame, Position, Rule, Block
  <2>3. Top.rule = "if"
    BY <1>0, <1>5 DEF Else, FrameShape, Frame, Rule, Block, StructRule
  <2> QED BY <1>0, TableMoves, <1>5, <2>1, <2>2, <2>3 DEF Else, FrameShape, Block, Moves
<1>6. CASE ForUpdate \/ ForBody
  <2>1. PICK f \in Frame :
          /\ ctx' = SetTop(f) /\ f.pos # "init" /\ f.rule = Top.rule /\ f.name = Top.name
          /\ f.outer = Top.outer /\ f.inner = Top.inner
    <3>1. /\ [Top EXCEPT !.pos = "update"] \in Frame
          /\ [Top EXCEPT !.pos = "items", !.full = FALSE] \in Frame
      BY <1>0 DEF Frame, Position
    <3> QED BY <1>0, <1>6, <3>1 DEF ForUpdate, ForBody, Frame
  <2>2. Top.pos # "init" /\ UNCHANGED <<cur, chain, node, nextScope>>
    BY <1>6 DEF ForUpdate, ForBody
  <2> QED BY <2>1, <2>2, SetTopMoves DEF GoesOnHere, Moves
<1>7. CASE CloseBlock
  <2>1. /\ Top.inner # NoScope /\ Top.pos # "init" /\ Top.rule # "program" /\ Top.rule \in Block
        /\ Top.rule \notin StructRule
    BY <1>0, <1>7 DEF CloseBlock, FrameShape, StructRule, Block
  <2>2. Leaves
    BY <1>7, <2>1, PopReturns DEF CloseBlock, PopScope, Leaves, KindOf
  <2>3. CASE Top.rule # "if"
    BY <1>7, <2>1, <2>2, <2>3, NotProgram, PopMoves DEF CloseBlock, Finishes, Moves
  <2>4. CASE Top.rule = "if"
    <3>1. PICK f : f = [Top EXCEPT !.pos = "after", !.inner = NoScope]
      OBVIOUS
    <3>2. f \in Frame /\ f.inner = NoScope /\ f.rule = "if" /\ f.pos = "after"
      BY <1>0, <2>4, <3>1 DEF Frame, Position
    <3> QED BY <1>7, <2>2, <2>4, <3>1, <3>2, SetTopMoves DEF CloseBlock, LeavesIf, Moves
  <2> QED BY <2>3, <2>4
<1>8. CASE EndIf
  <2>1. Top.rule = "if" /\ Top.inner = NoScope /\ Top.pos # "init"
    BY <1>0, <1>8 DEF EndIf, FrameShape, Frame, Rule, Block, StructRule
  <2> QED BY <1>8, <2>1, NotProgram, PopMoves DEF EndIf, Finishes, Moves
<1>9. ASSUME NEW n \in Names, Assign(n)
      PROVE  GoesOnHere
  BY <1>0, <1>9, SameMoves DEF Assign
<1>10. ASSUME NEW kind \in {"return", "break", "continue"}, JumpStmt(kind)
       PROVE  GoesOnHere
  BY <1>0, <1>10, SameMoves DEF JumpStmt
<1> QED BY <1>1, <1>3, <1>4, <1>5, <1>6, <1>7, <1>8, <1>9, <1>10 DEF Statement, Moves

\* Every step is one of these moves.
LEMMA StepMoves ==
  ASSUME IInv, IInv', [Next]_vars
  PROVE  Moves
<1>0. TypeOK /\ Top \in Frame /\ Same(Top, Top)
  BY TopFrame DEF IInv, Same
<1>1. CASE UNCHANGED vars
  BY <1>0, <1>1, SameMoves DEF vars, Moves
<1>2. CASE (\E n \in Names : UseIdent(n)) \/ End
  <2>1. UNCHANGED <<ctx, cur, chain, node, nextScope>>
    BY <1>2 DEF UseIdent, End, IllFormedType, SyntaxError, ScanFault, Accept
  <2> QED BY <1>0, <2>1, SameMoves DEF Moves
<1> QED BY <1>1, <1>2, DeclarationMoves, StatementMoves DEF Next

-----------------------------------------------------------------------------
(* The owners of the tables.                                               *)

\* A production more, one table more or none.
LEMMA OwnersMore ==
  ASSUME NEW n \in Nat
  PROVE  Owners(n + 1) = Owners(n) \cup OwnerOf(ctx[n + 1])
<1>1. 1..(n + 1) = 1..n \cup {n + 1}
  OBVIOUS
<1> QED BY <1>1 DEF Owners

\* Productions that are kept keep their tables.
LEMMA OwnersKeep ==
  ASSUME NEW n \in Nat, Keeps(n)
  PROVE  Owners(n)' = Owners(n)
<1>1. \A i \in 1..n : OwnerOf(ctx'[i]) = OwnerOf(ctx[i])
  BY DEF Keeps, Same, OwnerOf
<1> QED BY <1>1 DEF Owners, OwnerOf

\* Owners are tables in use and the kinds of productions.
OwnersTyped == \A p \in OpenOwners : p[1] \in Allocated /\ p[1] # Root /\ p[2] \in OwnerKind

\* The tables of the productions below the one at the top come before its own.
LEMMA OwnersBelow ==
  ASSUME IInv
  PROVE  /\ OpenOwners = Owners(Depth - 1) \cup OwnerOf(Top)
         /\ Top.inner # NoScope => \A p \in Owners(Depth - 1) : p[1] # Top.inner
         /\ OwnersTyped
<1> USE TopFrame DEF IInv
<1>1. Depth \in Nat \ {0} /\ ctx[Depth] = Top /\ Depth - 1 \in Nat /\ (Depth - 1) + 1 = Depth
  BY DEF Top, Depth
<1>2. OpenOwners = Owners(Depth - 1) \cup OwnerOf(Top)
  BY <1>1, OwnersMore DEF OpenOwners
<1>3. ASSUME NEW i \in 1..Depth
      PROVE  /\ ctx[i] \in Frame /\ FrameShape(ctx[i])
             /\ ctx[i].outer \in Scope /\ ctx[i].inner \in Scope \cup {NoScope}
             /\ ctx[i].inner # NoScope => /\ ctx[i].outer < ctx[i].inner
                                          /\ ctx[i].inner \in Allocated
                                          /\ ctx[i].inner # Root
                                          /\ KindOf(ctx[i].rule) \in OwnerKind
  <2>1. ctx[i] \in Frame /\ FrameShape(ctx[i])
    BY DEF StackInv
  <2>2. ctx[i].outer \in Scope /\ ctx[i].inner \in Scope \cup {NoScope} /\ ctx[i].rule \in Rule
    BY <2>1 DEF Frame
  <2>3. KindOf(ctx[i].rule) \in OwnerKind
    BY <2>2 DEF KindOf, OwnerKind, Rule, Block, StructRule
  <2>4. ctx[i].inner # NoScope => ctx[i].outer < ctx[i].inner /\ ctx[i].inner \in Allocated
    BY DEF StackInv
  <2> QED BY <2>1, <2>2, <2>3, <2>4 DEF Scope, Root
<1>4. Top.inner # NoScope => \A p \in Owners(Depth - 1) : p[1] # Top.inner
  <2>1. SUFFICES ASSUME Top.inner # NoScope, NEW i \in 1..(Depth - 1), ctx[i].inner # NoScope
                 PROVE  ctx[i].inner # Top.inner
    BY DEF Owners, OwnerOf
  <2>2. i \in 1..Depth /\ Depth \in 1..Depth /\ i < Depth
    BY <1>1
  <2>3. Active(ctx[i]) <= Top.outer /\ Active(ctx[i]) = ctx[i].inner
    BY <1>1, <2>1, <2>2 DEF StackInv, Active
  <2> QED BY <1>1, <1>3, <2>1, <2>2, <2>3 DEF Scope
<1>5. OwnersTyped
  BY <1>3 DEF OwnersTyped, OpenOwners, Owners, OwnerOf
<1> QED BY <1>2, <1>4, <1>5

\* What the moves of the stack do to the tables of the open productions.
TablesStay == OpenOwners' = OpenOwners /\ UNCHANGED <<cur, chain, node, nextScope>>

TableOpens ==
    /\ CreateScope /\ node' = node
    /\ OpenOwners' = OpenOwners \cup {<<nextScope, KindOf(Top'.rule)>>}

TableCloses ==
    LET own == <<cur, KindOf(Top.rule)>>
    IN  /\ own \in OpenOwners
        /\ OpenOwners' = OpenOwners \ {own}
        /\ cur \in Scope /\ node' = [node EXCEPT ![cur] = KindOf(Top.rule)]
        /\ chain[cur'] = chain[cur] \ {cur}
        /\ UNCHANGED <<chain, nextScope>>

\* Every move does one of the three.
LEMMA MovesTables ==
  ASSUME IInv, IInv', Moves
  PROVE  TablesStay \/ TableOpens \/ TableCloses
<1> USE TopFrame DEF IInv
<1>0. /\ Depth \in Nat \ {0} /\ Depth - 1 \in Nat /\ (Depth - 1) + 1 = Depth
      /\ ctx[Depth] = Top /\ Top \in Frame
      /\ OpenOwners = Owners(Depth - 1) \cup OwnerOf(Top)
  BY OwnersBelow DEF Top, Depth
<1>1. ASSUME NEW m \in Nat, Depth' = m + 1, Keeps(m)
      PROVE  OpenOwners' = Owners(m) \cup OwnerOf(Top')
  <2>1. Top' = ctx'[m + 1]
    BY <1>1 DEF Top, Depth
  <2>2. OpenOwners' = Owners(m)' \cup OwnerOf(Top')
    <3>1. 1..Depth' = 1..m \cup {m + 1}
      BY <1>1
    <3> QED BY <2>1, <3>1 DEF OpenOwners, Owners, OwnerOf
  <2> QED BY <1>1, <2>2, OwnersKeep
<1>2. CASE GoesOnHere
  <2>1. OwnerOf(Top') = OwnerOf(Top) /\ Depth' = (Depth - 1) + 1 /\ Keeps(Depth - 1)
    BY <1>0, <1>2 DEF GoesOnHere, OwnerOf
  <2> QED BY <1>0, <1>1, <1>2, <2>1 DEF TablesStay, GoesOnHere
<1>3. CASE Begins
  <2>1. OpenOwners' = OpenOwners \cup OwnerOf(Top')
    BY <1>0, <1>1, <1>3 DEF Begins, OpenOwners
  <2>2. CASE Top'.inner = NoScope /\ UNCHANGED <<cur, chain, nextScope>>
    BY <1>3, <2>1, <2>2 DEF TablesStay, Begins, OwnerOf
  <2>3. CASE Top'.inner = nextScope /\ CreateScope
    <3>1. nextScope # NoScope
      BY <2>3, CreateScopeType DEF Scope, NoScope
    <3> QED BY <1>3, <2>1, <2>3, <3>1 DEF TableOpens, Begins, OwnerOf
  <2> QED BY <1>3, <2>2, <2>3 DEF Begins
<1>4. CASE Enters
  <2>1. OpenOwners' = Owners(Depth - 1) \cup OwnerOf(Top') /\ OwnerOf(Top) = {}
    BY <1>0, <1>1, <1>4 DEF Enters, OwnerOf
  <2>2. nextScope # NoScope
    BY <1>4, CreateScopeType DEF Scope, NoScope, Enters
  <2> QED BY <1>0, <1>4, <2>1, <2>2 DEF TableOpens, Enters, OwnerOf
<1>5. ASSUME Leaves, OpenOwners' = Owners(Depth - 1)
      PROVE  TableCloses
  <2>1. cur = Top.inner /\ Top.inner # NoScope /\ Top.outer \in Scope /\ Top.outer \in Allocated
    BY <1>5, PopReturns DEF Leaves
  <2>2. OwnerOf(Top) = {<<cur, KindOf(Top.rule)>>}
    BY <2>1 DEF OwnerOf
  <2>3. \A p \in Owners(Depth - 1) : p # <<cur, KindOf(Top.rule)>>
    BY <2>1, OwnersBelow
  <2>4. chain[Top.outer] = chain[cur] \ {cur}
    <3>1. /\ chain[cur] = chain[Top.outer] \cup {cur} /\ Top.outer < cur
          /\ chain[Top.outer] \subseteq 1..Top.outer
      <4>1. Depth \in 1..Depth /\ ctx[Depth].inner = cur /\ ctx[Depth].inner # NoScope
        BY <1>0, <2>1
      <4>2. chain[cur] = chain[Top.outer] \cup {cur} /\ Top.outer < cur
        BY <1>0, <4>1 DEF StackInv
      <4> QED BY <2>1, <4>2 DEF ChainInv
    <3>2. cur \notin chain[Top.outer]
      BY <2>1, <3>1 DEF Scope, TypeOK
    <3> QED BY <3>1, <3>2
  <2> QED BY <1>0, <1>5, <2>1, <2>2, <2>3, <2>4 DEF TableCloses, Leaves, TypeOK
<1>6. CASE Finishes
  <2>1. OpenOwners' = Owners(Depth - 1)
    <3>1. /\ Depth - 2 \in Nat /\ Depth' = (Depth - 2) + 1 /\ (Depth - 2) + 1 = Depth - 1
          /\ Keeps(Depth - 2) /\ Same(ctx'[Depth - 1], ctx[Depth - 1])
      BY <1>0, <1>6 DEF Finishes, Keeps
    <3>2. Top' = ctx'[Depth - 1]
      BY <3>1 DEF Top, Depth
    <3>3. OwnerOf(Top') = OwnerOf(ctx[Depth - 1])
      BY <3>1, <3>2 DEF Same, OwnerOf
    <3>4. OpenOwners' = Owners(Depth - 2) \cup OwnerOf(Top')
      BY <1>1, <3>1
    <3> QED BY <3>1, <3>3, <3>4, OwnersMore
  <2>2. CASE Leaves
    BY <1>5, <2>1, <2>2
  <2>3. CASE ~Leaves
    BY <1>0, <1>6, <2>1, <2>3 DEF Finishes, TablesStay, OwnerOf
  <2> QED BY <2>2, <2>3
<1>7. CASE LeavesIf
  <2>1. Depth' = (Depth - 1) + 1 /\ Keeps(Depth - 1) /\ OwnerOf(Top') = {}
    BY <1>0, <1>7 DEF LeavesIf, OwnerOf
  <2> QED BY <1>0, <1>1, <1>5, <1>7, <2>1 DEF LeavesIf
<1> QED BY <1>2, <1>3, <1>4, <1>6, <1>7 DEF Moves

\* The tables that were there keep their owners and their walks.
OwnersKept ==
    /\ Allocated \subseteq Allocated'
    /\ \A s \in Allocated : chain'[s] = chain[s] /\ \A k : Owns(s, k)' <=> Owns(s, k)

\* The same after a step.
LEMMA OwnersTypedNext == IInv' => OwnersTyped'
<1>1. IInv => OwnersTyped
  BY OwnersBelow
<1> QED BY <1>1, PTL

\* Every move of the tables keeps OwnersInv and the owners.
LEMMA OwnersStep ==
  ASSUME IInv, IInv', OwnersInv, Moves
  PROVE  OwnersInv' /\ OwnersKept
<1> USE ScopeFacts DEF IInv
<1>0. /\ OwnersTyped /\ OwnersTyped' /\ TypeOK /\ TypeOK'
      /\ "none" \notin OwnerKind /\ Root \in Scope /\ Root # NoScope
      /\ nextScope \in Int /\ Scope \subseteq Int
      /\ node \in [Scope -> Rule \cup {"none", "ifelse"}]
  BY OwnersBelow, OwnersTypedNext, BoundsAssumption
     DEF OwnerKind, Block, Root, Scope, NoScope, TypeOK
<1>a. \A p \in OpenOwners' : p[1] # Root /\ p[1] \in Allocated' /\ p[2] # "none"
  BY <1>0 DEF OwnersTyped
<1>1. CASE TablesStay
  <2>1. OwnersInv'
    BY <1>1, <1>a DEF TablesStay, OwnersInv, Allocated
  <2> QED BY <1>1, <2>1 DEF TablesStay, OwnersKept, Owns, Allocated
<1>2. CASE TableOpens
  <2>1. /\ Allocated' = Allocated \cup {nextScope} /\ nextScope \in Scope \ Allocated
        /\ nextScope' = nextScope + 1 /\ cur' = nextScope
        /\ chain'[nextScope] = chain[cur] \cup {nextScope}
        /\ \A s \in Allocated : chain'[s] = chain[s]
        /\ OpenOwners' = OpenOwners \cup {<<nextScope, KindOf(Top'.rule)>>} /\ node' = node
    BY <1>2, CreateScopeFacts DEF TableOpens
  <2>2. \A p \in OpenOwners : p[1] # nextScope
    BY <1>0, <2>1 DEF OwnersTyped
  <2>3. PICK new : new = <<nextScope, KindOf(Top'.rule)>>
    OBVIOUS
  <2>4. new[1] = nextScope /\ OpenOwners' = OpenOwners \cup {new}
    BY <2>1, <2>3
  <2>5. OwnersInv'
    <3>1. \A s \in Scope : node'[s] = "none" <=>
             s = Root \/ s >= nextScope' \/ \E p \in OpenOwners' : p[1] = s
      <4>1. SUFFICES ASSUME NEW s \in Scope
                     PROVE  node[s] = "none" <=>
                              s = Root \/ s >= nextScope' \/ \E p \in OpenOwners' : p[1] = s
        BY <2>1
      <4>2. (\E p \in OpenOwners' : p[1] = s) <=> s = nextScope \/ \E p \in OpenOwners : p[1] = s
        BY <2>4
      <4>3. s >= nextScope <=> s = nextScope \/ s >= nextScope'
        BY <1>0, <2>1
      <4> QED BY <4>2, <4>3 DEF OwnersInv
    <3>2. \A p, q \in OpenOwners' : p[1] = q[1] => p = q
      BY <2>2, <2>4 DEF OwnersInv
    <3>3. chain'[cur'] = {Root} \cup {p[1] : p \in OpenOwners'}
      <4>1. {p[1] : p \in OpenOwners'} = {p[1] : p \in OpenOwners} \cup {nextScope}
        BY <2>4
      <4>2. chain[cur] = {Root} \cup {p[1] : p \in OpenOwners}
        BY DEF OwnersInv
      <4> QED BY <2>1, <4>1, <4>2
    <3>4. \A s \in Allocated' : Root \in chain'[s]
      BY <2>1 DEF OwnersInv
    <3> QED BY <1>a, <3>1, <3>2, <3>3, <3>4 DEF OwnersInv
  <2>6. \A s \in Allocated : \A k : Owns(s, k)' <=> Owns(s, k)
    BY <2>1 DEF Owns
  <2> QED BY <2>1, <2>5, <2>6 DEF OwnersKept
<1>3. CASE TableCloses
  <2> DEFINE own == <<cur, KindOf(Top.rule)>>
  <2>1. /\ own \in OpenOwners /\ OpenOwners' = OpenOwners \ {own}
        /\ cur \in Scope /\ node' = [node EXCEPT ![cur] = KindOf(Top.rule)]
        /\ chain[cur'] = chain[cur] \ {cur} /\ chain' = chain /\ nextScope' = nextScope
    BY <1>3 DEF TableCloses
  <2>2. /\ own[1] = cur /\ own[2] = KindOf(Top.rule) /\ cur # Root /\ cur \in Allocated
        /\ KindOf(Top.rule) # "none" /\ cur < nextScope
    BY <1>0, <2>1 DEF OwnersTyped, Allocated
  <2>3. \A s \in Scope : node'[s] = IF s = cur THEN KindOf(Top.rule) ELSE node[s]
    BY <1>0, <2>1
  <2>4. \A p \in OpenOwners : p[1] = cur => p = own
    BY <2>1, <2>2 DEF OwnersInv
  <2> HIDE DEF own
  <2>5. OwnersInv'
    <3>1. \A s \in Scope : node'[s] = "none" <=>
             s = Root \/ s >= nextScope' \/ \E p \in OpenOwners' : p[1] = s
      BY <1>0, <2>1, <2>2, <2>3, <2>4 DEF OwnersInv
    <3>2. \A p, q \in OpenOwners' : p[1] = q[1] => p = q
      BY <2>1 DEF OwnersInv
    <3>3. chain'[cur'] = {Root} \cup {p[1] : p \in OpenOwners'}
      BY <2>1, <2>2, <2>4 DEF OwnersInv
    <3>4. \A s \in Allocated' : Root \in chain'[s]
      BY <2>1 DEF OwnersInv, Allocated
    <3> QED BY <1>a, <3>1, <3>2, <3>3, <3>4 DEF OwnersInv
  <2>6. ASSUME NEW s \in Allocated, NEW k
        PROVE  Owns(s, k)' <=> Owns(s, k)
    <3>1. CASE s = cur
      <4>1. node[cur] = "none" /\ \A p \in OpenOwners' : p[1] # cur
        BY <2>1, <2>2, <2>4 DEF OwnersInv
      <4>2. Owns(s, k) <=> k = KindOf(Top.rule)
        BY <2>1, <2>2, <2>4, <3>1, <4>1 DEF Owns, own
      <4>3. Owns(s, k)' <=> k = KindOf(Top.rule)
        BY <2>1, <2>2, <2>3, <3>1, <4>1 DEF Owns
      <4> QED BY <4>2, <4>3
    <3>2. CASE s # cur
      BY <2>1, <2>2, <2>3, <3>2 DEF Owns
    <3> QED BY <3>1, <3>2
  <2> QED BY <2>1, <2>5, <2>6 DEF OwnersKept, Allocated
<1> QED BY <1>1, <1>2, <1>3, MovesTables

-----------------------------------------------------------------------------
(* Initializers, and the end of the parse.                                 *)

\* No move begins a statement with a block in the initializer of a for.
LEMMA InitNestsStep ==
  ASSUME IInv, IInv', InitNests, Moves
  PROVE  InitNests'
<1> USE TopFrame DEF IInv
<1>0. Depth \in Nat \ {0} /\ ctx[Depth] = Top /\ Top' = ctx'[Depth']
  BY DEF Top, Depth
<1>1. SUFFICES ASSUME NEW i \in 1..(Depth' - 1), ctx'[i].pos = "init"
               PROVE  ctx'[i + 1].rule \in StructRule
  BY DEF InitNests
<1>2. CASE Begins
  <2>1. i \in 1..Depth /\ Depth' = Depth + 1 /\ Same(ctx'[i], ctx[i])
    BY <1>0, <1>1, <1>2 DEF Begins, Keeps
  <2>2. CASE i = Depth
    BY <1>0, <1>1, <1>2, <2>1, <2>2 DEF Begins, Same
  <2>3. CASE i # Depth
    <3>1. i \in 1..(Depth - 1) /\ i + 1 \in 1..Depth
      BY <1>0, <2>1, <2>3
    <3>2. Same(ctx'[i + 1], ctx[i + 1])
      BY <1>2, <3>1 DEF Begins, Keeps
    <3> QED BY <1>1, <2>1, <3>1, <3>2 DEF InitNests, Same
  <2> QED BY <2>2, <2>3
<1>3. CASE Finishes
  <2>1. Depth' = Depth - 1 /\ i \in 1..(Depth - 1) /\ i + 1 \in 1..(Depth - 1)
    BY <1>0, <1>1, <1>3 DEF Finishes
  <2>2. Same(ctx'[i], ctx[i]) /\ Same(ctx'[i + 1], ctx[i + 1])
    BY <1>3, <2>1 DEF Finishes, Keeps
  <2> QED BY <1>1, <2>1, <2>2 DEF InitNests, Same
<1>4. CASE GoesOnHere \/ Enters \/ LeavesIf
  <2>1. /\ Depth' = Depth /\ i \in 1..(Depth - 1) /\ i + 1 \in 1..Depth
        /\ Same(ctx'[i], ctx[i])
    BY <1>0, <1>1, <1>4 DEF GoesOnHere, Enters, LeavesIf, Keeps
  <2>2. CASE i + 1 = Depth
    <3>1. ctx[Depth].rule \in StructRule
      BY <1>1, <2>1, <2>2 DEF InitNests, Same
    <3>2. ~Enters
      <4>1. FrameShape(Top) /\ Top.inner # NoScope
        BY <1>0, <3>1, DeclarePosition DEF FrameShape
      <4> QED BY <4>1 DEF Enters
    <3>3. Top'.rule = Top.rule
      BY <1>4, <3>2 DEF GoesOnHere, LeavesIf
    <3> QED BY <1>0, <2>1, <2>2, <3>1, <3>3
  <2>3. CASE i + 1 # Depth
    <3>1. i + 1 \in 1..(Depth - 1)
      BY <1>0, <2>1, <2>3
    <3>2. Same(ctx'[i + 1], ctx[i + 1])
      BY <1>4, <3>1 DEF GoesOnHere, Enters, LeavesIf, Keeps
    <3> QED BY <1>1, <2>1, <3>2 DEF InitNests, Same
  <2> QED BY <2>2, <2>3
<1> QED BY <1>2, <1>3, <1>4 DEF Moves

\* Parsing is accepted at the program and does not go on.
LEMMA AcceptStep ==
  ASSUME AcceptInv, [Next]_vars
  PROVE  AcceptInv'
<1>1. CASE UNCHANGED vars
  BY <1>1 DEF vars, AcceptInv, Top
<1>2. CASE status = "parsing" /\ End
  BY <1>2 DEF End, IllFormedType, SyntaxError, ScanFault, Accept, AcceptInv, Top
<1>3. CASE status = "parsing" /\ status' # "accepted"
  BY <1>3 DEF AcceptInv
<1>4. ASSUME status = "parsing", Declaration \/ Statement \/ \E n \in Names : UseIdent(n)
      PROVE  status' # "accepted"
  <2>1. \A n \in Names : OpenForwardFunc(n) \/ CloseStruct(n) => status' # "accepted"
    BY <1>4 DEF OpenForwardFunc, CloseStruct
  <2>2. CASE Declaration
    BY <1>4, <2>1, <2>2 DEF Declaration, VarDecl, VarDeclInit, TypeAlias, OpenFunc, OpenStruct, BeginBody
  <2>3. CASE Statement
    BY <1>4, <2>3 DEF Statement, OpenStatement, EnterBlock, ForCond, ForUpdate, ForBody,
       CloseBlock, Else, EndIf, Assign, JumpStmt
  <2> QED BY <1>4, <2>2, <2>3 DEF UseIdent
<1> QED BY <1>1, <1>2, <1>3, <1>4 DEF Next

\* The invariant before the first step, but for the symbols.
LEMMA EndInvInit ==
  ASSUME Init
  PROVE  OwnersInv /\ InitNests /\ JumpsInv /\ AcceptInv
<1>1. IInv
  BY InvInit
<1>2. /\ Depth = 1 /\ ctx[1].inner = NoScope /\ 1..Depth = {1} /\ 1..(Depth - 1) = {}
  BY DEF Init, Depth
<1>3. OpenOwners = {}
  BY <1>2 DEF OpenOwners, Owners, OwnerOf
<1>4. OwnersInv
  <2>1. /\ cur = Root /\ Root \in Scope /\ chain[Root] = {Root} /\ nextScope = Root + 1
        /\ \A s \in Scope : node[s] = "none" /\ (s = Root \/ s >= nextScope)
    BY BoundsAssumption DEF Init, Root, Scope
  <2>2. Allocated = {Root}
    BY <2>1 DEF Allocated, Root
  <2> QED BY <1>3, <2>1, <2>2 DEF OwnersInv
<1> QED BY <1>2, <1>4 DEF InitNests, JumpsInv, AcceptInv, Init

\* At the end of the parse no production but the program is open.
LEMMA AcceptedAtRoot ==
  ASSUME IInv, OwnersInv, AcceptInv, status = "accepted"
  PROVE  /\ cur = Root /\ Depth = 1 /\ OpenOwners = {} /\ Top.pos = "items"
         /\ \A s \in Scope : node[s] = "none" <=> s = Root \/ s >= nextScope
<1>1. Top.rule = "program"
  BY DEF AcceptInv
<1>2. Depth = 1 /\ cur = Root /\ Top.pos = "items"
  BY <1>1, AtRoot
<1>3. Top.inner = NoScope /\ Top = ctx[1] /\ 1..Depth = {1}
  BY <1>1, <1>2, DeclarePosition DEF FrameShape, Top, Depth
<1>4. OpenOwners = {}
  BY <1>3 DEF OpenOwners, Owners, OwnerOf
<1> QED BY <1>2, <1>4 DEF OwnersInv

-----------------------------------------------------------------------------
(* Jumps.                                                                  *)

\* A for whose initializer is being parsed is still there after a step, unless
\* the initializer is over.
LEMMA InitsStay ==
  ASSUME IInv, Moves, ~(Enters /\ Top.pos = "init"), NEW i \in 1..Depth, ctx[i].pos = "init"
  PROVE  i \in 1..Depth' /\ ctx'[i].pos = "init" /\ ctx'[i].outer = ctx[i].outer
<1>0. Depth \in Nat \ {0} /\ ctx[Depth] = Top /\ Top' = ctx'[Depth']
  BY TopFrame DEF IInv, Top, Depth
<1>1. CASE i = Depth
  BY <1>0, <1>1 DEF Moves, GoesOnHere, Begins, Finishes, LeavesIf, Leaves, Keeps, Same
<1>2. CASE i # Depth
  <2>1. i \in 1..(Depth - 1) /\ i \in 1..Depth
    BY <1>0, <1>2
  <2>2. Same(ctx'[i], ctx[i])
    BY <2>1 DEF Moves, GoesOnHere, Begins, Enters, Finishes, LeavesIf, Keeps
  <2>3. i \in 1..Depth'
    BY <1>0, <2>1 DEF Moves, GoesOnHere, Begins, Enters, Finishes, LeavesIf
  <2> QED BY <2>2, <2>3 DEF Same
<1> QED BY <1>1, <1>2

\* A jump that is not moved stays where it was.
LEMMA JumpKept ==
  ASSUME IInv, OwnersKept, NEW j \in Jump, JumpFiled(j),
         j.hdr # 0 => /\ j.hdr \in 1..Depth' /\ ctx'[j.hdr].pos = "init"
                      /\ ctx'[j.hdr].outer = ctx[j.hdr].outer
  PROVE  JumpFiled(j)'
<1>1. j.check \in Allocated /\ j.func \in Allocated /\ chain[j.check] \subseteq Allocated
  BY ScopeFacts DEF JumpFiled, IInv
<1>2. j.check \in Allocated' /\ chain'[j.check] = chain[j.check]
  BY <1>1 DEF OwnersKept
<1>3. \A t \in chain[j.check] : /\ Owns(t, "func")' <=> Owns(t, "func")
                                /\ LoopTable(t)' <=> LoopTable(t)
  BY <1>1 DEF OwnersKept, LoopTable
<1>4. /\ j.func \in chain'[j.check] /\ Owns(j.func, "func")'
      /\ \A t \in chain'[j.check] : Owns(t, "func")' => t = j.func
  BY <1>2, <1>3 DEF JumpFiled
<1>5. (\E t \in chain'[j.check] : LoopTable(t)') <=> \E t \in chain[j.check] : LoopTable(t)
  BY <1>2, <1>3
<1>6. j.inLoop <=> j.hdr # 0 \/ \E t \in chain'[j.check] : LoopTable(t)'
  BY <1>5 DEF JumpFiled
<1>7. j.hdr # 0 => j.check = ctx'[j.hdr].outer
  BY DEF JumpFiled
<1> QED BY <1>2, <1>4, <1>6, <1>7 DEF JumpFiled

\* A jump in the initializer of a for ends up in the table of the loop.
LEMMA JumpSettled ==
  ASSUME IInv, IInv', OwnersInv', OwnersKept, Enters, Top.pos = "init",
         NEW j \in Jump, JumpFiled(j), j.hdr = Depth,
         NEW k \in Jump, k = [j EXCEPT !.check = nextScope, !.hdr = 0]
  PROVE  JumpFiled(k)'
<1> USE TopFrame, ScopeFacts DEF IInv
<1>0. /\ Depth \in Nat \ {0} /\ ctx[Depth] = Top
      /\ Depth' = Depth /\ ctx'[Depth] = Top'
      /\ Top'.inner = nextScope /\ Top'.rule = "for" /\ CreateScope
  BY DEF Top, Depth, Enters
<1>n. PICK new : new = nextScope
  OBVIOUS
<1>1. /\ new \in Allocated' /\ new # NoScope /\ new \in Scope
      /\ chain'[new] = chain[cur] \cup {new} /\ new \notin Allocated
  BY <1>0, <1>n, CreateScopeFacts DEF Scope, NoScope
<1>2. j.check = cur /\ cur \in Allocated
  BY <1>0 DEF JumpFiled, Enters, StackInv, Active, ChainInv
<1>3. chain[cur] \subseteq Allocated /\ j.func \in chain[cur]
  BY <1>2 DEF JumpFiled
<1>4. <<new, "for">> \in OpenOwners'
  BY <1>0, <1>n, <1>1 DEF OpenOwners, Owners, OwnerOf, KindOf, StructRule
<1>5. ~Owns(new, "func")' /\ LoopTable(new)'
  <2>1. node'[new] = "none"
    BY <1>1, <1>4 DEF OwnersInv
  <2>2. <<new, "func">> \notin OpenOwners'
    BY <1>4 DEF OwnersInv
  <2> QED BY <1>4, <2>1, <2>2 DEF Owns, LoopTable
<1>6. \A t \in chain[cur] : Owns(t, "func")' <=> Owns(t, "func")
  BY <1>3 DEF OwnersKept
<1>7. k.check = new /\ k.hdr = 0 /\ k.func = j.func /\ k.inLoop = j.inLoop
  BY <1>n DEF Jump
<1>8. k.inLoop = TRUE
  BY <1>0, <1>7 DEF JumpFiled, Jump
<1>9. k.func \in chain'[new] /\ Owns(k.func, "func")'
  BY <1>1, <1>3, <1>6, <1>7 DEF JumpFiled
<1>10. \A t \in chain'[new] : Owns(t, "func")' => t = k.func
  BY <1>1, <1>2, <1>5, <1>6, <1>7 DEF JumpFiled
<1> QED BY <1>1, <1>5, <1>7, <1>8, <1>9, <1>10 DEF JumpFiled

\* The tables that a walk from the current table meets, as the owners say.
LEMMA WalkOwners ==
  ASSUME IInv, OwnersInv, NEW t \in chain[cur], NEW k \in OwnerKind
  PROVE  Owns(t, k) <=> \E i \in 1..Depth :
                           ctx[i].inner = t /\ t # NoScope /\ KindOf(ctx[i].rule) = k
<1>1. t \in Scope /\ (t = Root \/ \E p \in OpenOwners : p[1] = t)
  BY ScopeFacts DEF OwnersInv, IInv, ChainInv
<1>2. node[t] = "none" /\ k # "none"
  BY <1>1 DEF OwnersInv, OwnerKind, Block
<1>3. Owns(t, k) <=> <<t, k>> \in OpenOwners
  BY <1>2 DEF Owns
<1>4. <<t, k>> \in OpenOwners <=> \E i \in 1..Depth : <<t, k>> \in OwnerOf(ctx[i])
  BY DEF OpenOwners, Owners
<1> QED BY <1>3, <1>4 DEF OwnerOf

\* A jump is filed where it is parsed: the function around it is the second
\* production of the stack, and its loops are the productions of loops whose
\* header is over.
LEMMA NewJumpFiled ==
  ASSUME IInv, OwnersInv, InitNests, InStatements, NEW j,
         j.check = cur, j.hdr = HeaderDepth, j.func = EnclosingFunc,
         j.inLoop = \E i \in 1..Depth : ctx[i].rule \in {"while", "for"}
  PROVE  JumpFiled(j)
<1> USE TopFrame, ScopeFacts DEF IInv
<1>1. /\ Depth \in Nat \ {0} /\ Depth \in 1..Depth /\ ctx[Depth] = Top
      /\ FrameShape(Top) /\ Top \in Frame /\ Top.rule \in Block
      /\ Top.pos \in {"items", "init", "update"}
  BY DeclarePosition DEF Top, Depth, InStatements
<1>2. /\ 2 \in 1..Depth /\ ctx[2].rule = "func" /\ EnclosingFunc = ctx[2].inner
      /\ ctx[2].inner # NoScope
  <2>1. 2 \in 1..Depth /\ ctx[2].rule = "func"
    <3>1. Depth = 2 \/ (Depth > 2 /\ ctx[2].rule = "func")
      BY <1>1 DEF StackInv, Block
    <3> QED BY <3>1, <1>1 DEF StackInv, Block
  <2>2. {i \in 1..Depth : ctx[i].rule = "func"} = {2} /\ Innermost({2}) = 2
    BY <1>1, <2>1 DEF StackInv, Innermost
  <2>3. FrameShape(ctx[2])
    BY <2>1 DEF StackInv
  <2> QED BY <2>1, <2>2, <2>3 DEF EnclosingFunc, FrameShape, Block
<1>3. cur \in Allocated /\ cur \in Scope
  BY DEF ChainInv
<1>4. {"func", "while", "for"} \subseteq OwnerKind
      /\ \A i \in 1..Depth : \A k \in {"func", "while", "for"} :
            KindOf(ctx[i].rule) = k <=> ctx[i].rule = k
  BY DEF OwnerKind, Block, KindOf, StructRule
<1>5. ASSUME NEW i \in 1..Depth, ctx[i].inner # NoScope
      PROVE  ctx[i].inner \in chain[cur]
  <2>1. <<ctx[i].inner, KindOf(ctx[i].rule)>> \in OpenOwners
    BY <1>5 DEF OpenOwners, Owners, OwnerOf
  <2> QED BY <2>1 DEF OwnersInv
<1>6. j.func \in chain[cur] /\ Owns(j.func, "func")
  BY <1>2, <1>4, <1>5, WalkOwners
<1>7. \A t \in chain[cur] : Owns(t, "func") => t = j.func
  BY <1>2, <1>4, WalkOwners DEF StackInv
<1>8. j.hdr = IF Top.pos = "init" THEN Depth ELSE 0
  BY <1>1 DEF HeaderDepth
<1>9. (\E t \in chain[cur] : LoopTable(t)) <=>
         \E i \in 1..Depth : ctx[i].rule \in {"while", "for"} /\ ctx[i].inner # NoScope
  <2>1. \A t \in chain[cur] : LoopTable(t) <=>
           \E i \in 1..Depth : ctx[i].inner = t /\ t # NoScope /\ ctx[i].rule \in {"while", "for"}
    BY <1>4, WalkOwners DEF LoopTable
  <2> QED BY <1>5, <2>1
<1>10. ASSUME NEW i \in 1..Depth, ctx[i].rule \in {"while", "for"}, ctx[i].inner = NoScope
       PROVE  Top.pos = "init"
  <2>1. FrameShape(ctx[i]) /\ (i < Depth => ctx[i].pos \notin {"cond", "after"})
    BY DEF StackInv
  <2>2. CASE i = Depth
    BY <1>1, <1>10, <2>1, <2>2 DEF FrameShape, Block
  <2>3. CASE i # Depth
    <3>1. i < Depth /\ i \in 1..(Depth - 1) /\ i + 1 \in 1..Depth
      BY <1>1, <2>3
    <3>2. ctx[i].pos = "init"
      BY <1>10, <2>1, <3>1 DEF FrameShape, Block
    <3>3. ctx[i + 1].rule \in StructRule
      BY <3>1, <3>2 DEF InitNests
    <3> QED BY <1>1, <3>1, <3>3, NoStructBelow DEF Block, StructRule
  <2> QED BY <2>2, <2>3
<1>11. Top.pos = "init" => Top.rule = "for" /\ Top.outer = cur
  <2>1. Top.pos = "init" => Top.rule = "for" /\ Top.inner = NoScope
    BY <1>1 DEF FrameShape, Block
  <2> QED BY <2>1 DEF StackInv, Active
<1>12. j.inLoop <=> j.hdr # 0 \/ \E t \in chain[cur] : LoopTable(t)
  BY <1>1, <1>8, <1>9, <1>10, <1>11
<1> QED BY <1>1, <1>3, <1>6, <1>7, <1>8, <1>11, <1>12 DEF JumpFiled

\* Every step keeps what the jumps rely on.
LEMMA JumpsStep ==
  ASSUME IInv, IInv', OwnersInv, OwnersInv', OwnersKept, InitNests, JumpsInv,
         Moves, [Next]_vars
  PROVE  JumpsInv'
<1> USE TopFrame DEF IInv
<1>0. jumps \subseteq Jump /\ jumps' \subseteq Jump /\ Depth \in Nat \ {0}
  BY DEF TypeOK
<1>1. CASE Enters /\ Top.pos = "init"
  <2>1. jumps' = Settle(jumps, Depth, nextScope)
    BY <1>1 DEF Enters
  <2>2. ASSUME NEW k \in jumps'
        PROVE  JumpFiled(k)'
    <3>1. PICK j \in jumps : k = IF j.hdr = Depth THEN [j EXCEPT !.check = nextScope, !.hdr = 0] ELSE j
      BY <2>1 DEF Settle
    <3>2. JumpFiled(j) /\ j \in Jump /\ k \in Jump
      BY <1>0 DEF JumpsInv
    <3>3. CASE j.hdr = Depth
      BY <1>1, <3>1, <3>2, <3>3, JumpSettled
    <3>4. CASE j.hdr # Depth
      <4>1. j.hdr # 0 => j.hdr \in 1..(Depth - 1) /\ Depth' = Depth /\ Same(ctx'[j.hdr], ctx[j.hdr])
        BY <1>0, <1>1, <3>2, <3>4 DEF JumpFiled, Enters, Keeps
      <4>2. j.hdr # 0 => /\ j.hdr \in 1..Depth' /\ ctx'[j.hdr].pos = "init"
                         /\ ctx'[j.hdr].outer = ctx[j.hdr].outer
        BY <1>0, <3>2, <4>1 DEF Same, JumpFiled
      <4>3. k = j
        BY <3>1, <3>4
      <4> QED BY <3>2, <4>2, <4>3, JumpKept
    <3> QED BY <3>3, <3>4
  <2> QED BY <2>2 DEF JumpsInv
<1>2. CASE ~(Enters /\ Top.pos = "init")
  <2>1. ASSUME NEW j \in Jump, JumpFiled(j)
        PROVE  JumpFiled(j)'
    <3>1. j.hdr # 0 => /\ j.hdr \in 1..Depth' /\ ctx'[j.hdr].pos = "init"
                       /\ ctx'[j.hdr].outer = ctx[j.hdr].outer
      BY <1>2, <2>1, InitsStay DEF JumpFiled
    <3> QED BY <2>1, <3>1, JumpKept
  <2>2. ASSUME NEW kind \in {"return", "break", "continue"}, JumpStmt(kind)
        PROVE  \A j \in jumps' : JumpFiled(j)
    <3>1. PICK new : new = [kind |-> kind, check |-> cur, hdr |-> HeaderDepth, func |-> EnclosingFunc,
                            inLoop |-> \E i \in 1..Depth : ctx[i].rule \in {"while", "for"}]
      OBVIOUS
    <3>2. jumps' = jumps \cup {new} /\ InStatements
      BY <2>2, <3>1 DEF JumpStmt
    <3>3. JumpFiled(new)
      BY <3>1, <3>2, NewJumpFiled
    <3> QED BY <3>2, <3>3 DEF JumpsInv
  <2>3. ~ForCond
    BY <1>2, ForCondMoves DEF ForCond
  <2>4. jumps' = jumps \/ \E kind \in {"return", "break", "continue"} : JumpStmt(kind)
    <3>1. CASE UNCHANGED vars
      BY <3>1 DEF vars
    <3>2. CASE Declaration
      BY <3>2 DEF Declaration, VarDecl, VarDeclInit, TypeAlias, OpenFunc, OpenForwardFunc,
         OpenStruct, CloseStruct, BeginBody
    <3>3. CASE Statement
      BY <2>3, <3>3 DEF Statement, OpenStatement, EnterBlock, ForUpdate, ForBody,
         CloseBlock, Else, EndIf, Assign
    <3>4. CASE (\E n \in Names : UseIdent(n)) \/ End
      BY <3>4 DEF UseIdent, End, IllFormedType, SyntaxError, ScanFault, Accept
    <3> QED BY <3>1, <3>2, <3>3, <3>4 DEF Next
  <2>5. \A j \in jumps' : JumpFiled(j)
    BY <2>2, <2>4 DEF JumpsInv
  <2> QED BY <1>0, <2>1, <2>5 DEF JumpsInv
<1> QED BY <1>1, <1>2

\* Once every table has its node, the walks of the typechecker end where the
\* jump was written.
LEMMA JumpsAtEnd ==
  ASSUME IInv, OwnersInv, AcceptInv, JumpsInv
  PROVE  JumpsResolve
<1> USE ScopeFacts DEF IInv
<1>1. SUFFICES ASSUME status = "accepted", NEW j \in jumps,
                      NEW func, func = {t \in chain[j.check] : node[t] \in {"func", "none"}},
                      NEW loop, loop = {t \in chain[j.check] : node[t] \in {"while", "for", "none"}}
               PROVE  Innermost(func) = j.func /\ (node[Innermost(loop)] # "none" <=> j.inLoop)
  BY DEF JumpsResolve
<1>2. /\ OpenOwners = {} /\ Depth = 1 /\ ctx[1].pos = "items"
      /\ \A s \in Allocated : node[s] = "none" <=> s = Root
  <2>1. OpenOwners = {} /\ Depth = 1 /\ Top.pos = "items"
    BY <1>1, AcceptedAtRoot
  <2>2. \A s \in Allocated : node[s] = "none" <=> s = Root
    <3>1. \A s \in Allocated : s \in Scope /\ ~(s >= nextScope)
      BY DEF Allocated, TypeOK
    <3> QED BY <1>1, <3>1, AcceptedAtRoot
  <2> QED BY <2>1, <2>2 DEF Top, Depth
<1>3. JumpFiled(j) /\ j.hdr = 0
  BY <1>2 DEF JumpsInv, JumpFiled
<1>4. /\ j.check \in Allocated /\ j.check \in Nat /\ chain[j.check] \subseteq 1..j.check
      /\ chain[j.check] \subseteq Allocated /\ Root \in chain[j.check] /\ Root = 1
      /\ \A t \in chain[j.check] : t \in Nat /\ (t # Root => t > Root)
  <2>1. j.check \in Allocated /\ chain[j.check] \subseteq 1..j.check /\ Root = 1
    BY <1>3 DEF JumpFiled, ChainInv, Root
  <2>2. j.check \in Nat /\ Root \in chain[j.check]
    BY <2>1 DEF OwnersInv, Allocated
  <2> QED BY <2>1, <2>2
<1>5. \A S : S \subseteq chain[j.check] /\ S # {} =>
                Innermost(S) \in S /\ \A t \in S : t <= Innermost(S)
  BY <1>4, InnermostExists
<1>6. \A t \in chain[j.check] : \A k \in OwnerKind : Owns(t, k) <=> node[t] = k
  BY <1>2 DEF Owns, OwnerKind, Block
<1>7. {"func", "while", "for"} \subseteq OwnerKind
  BY DEF OwnerKind, Block
<1>8. Innermost(func) = j.func
  <2>1. j.func \in chain[j.check] /\ node[j.func] = "func" /\ j.func # Root
    BY <1>2, <1>3, <1>4, <1>6, <1>7 DEF JumpFiled
  <2>2. \A t \in func : t = j.func \/ t = Root
    BY <1>1, <1>2, <1>3, <1>4, <1>6, <1>7 DEF JumpFiled
  <2>3. Innermost(func) \in func /\ j.func <= Innermost(func)
    BY <1>1, <1>5, <2>1
  <2> QED BY <1>4, <2>1, <2>2, <2>3
<1>9. node[Innermost(loop)] # "none" <=> j.inLoop
  <2>1. j.inLoop <=> \E t \in chain[j.check] : node[t] \in {"while", "for"}
    BY <1>3, <1>6, <1>7 DEF JumpFiled, LoopTable
  <2>2. Root \in loop /\ node[Root] = "none"
    BY <1>1, <1>2, <1>4
  <2>3. Innermost(loop) \in loop /\ \A t \in loop : t <= Innermost(loop)
    BY <1>1, <1>5, <2>2
  <2>4. ASSUME NEW t \in chain[j.check], node[t] \in {"while", "for"}
        PROVE  node[Innermost(loop)] # "none"
    <3>1. t \in loop /\ t # Root
      BY <1>1, <2>2, <2>4
    <3>2. Innermost(loop) # Root
      BY <1>4, <2>3, <3>1
    <3> QED BY <1>1, <1>2, <1>4, <2>3, <3>2
  <2>5. ASSUME node[Innermost(loop)] # "none"
        PROVE  \E t \in chain[j.check] : node[t] \in {"while", "for"}
    BY <1>1, <2>3, <2>5
  <2> QED BY <2>1, <2>4, <2>5
<1> QED BY <1>8, <1>9

-----------------------------------------------------------------------------
(* Declarations.                                                           *)

\* What was declared by the header of an open function or struct is what a
\* lookup from the table around it finds.
LEMMA HeaderFound ==
  ASSUME IInv, NEW i \in 1..Depth, ctx[i].rule \in {"func", "struct"}
  PROVE  /\ ctx[i].outer \in Scope /\ ctx[i].name \in Names
         /\ HeaderSym(ctx[i]) \in Sym /\ HeaderSym(ctx[i]) \in 1..(nextSym - 1)
         /\ Get(ctx[i].outer, ctx[i].name) = HeaderSym(ctx[i])
<1> USE TopFrame, ScopeFacts DEF IInv
<1>1. /\ FrameShape(ctx[i]) /\ FrameNames(ctx[i]) /\ ctx[i] \in Frame
      /\ ctx[i].outer \in chain[cur] /\ cur \in Allocated
  BY DEF StackInv, NamesInv, ChainInv
<1>2. ctx[i].outer \in Allocated /\ ctx[i].outer \in Scope /\ ctx[i].name \in Names
  BY <1>1 DEF FrameShape
<1>3. HeaderSym(ctx[i]) # NoSym /\ HeaderSym(ctx[i]) \in Sym /\ HeaderSym(ctx[i]) < nextSym
  <2>1. HeaderSym(ctx[i]) # NoSym
    BY <1>1 DEF FrameNames, HeaderSym
  <2>2. HeaderSym(ctx[i]) \in Sym \cup {NoSym} /\ HeaderSym(ctx[i]) < nextSym
    BY <1>2 DEF TypeOK, ChainInv, HeaderSym
  <2> QED BY <2>1, <2>2
<1>4. HeaderSym(ctx[i]) \in 1..(nextSym - 1)
  BY <1>3 DEF Sym, TypeOK
<1>5. Get(ctx[i].outer, ctx[i].name) = HeaderSym(ctx[i])
  <2>1. ctx[i].outer \in chain[ctx[i].outer] /\ \A t \in chain[ctx[i].outer] : ~(ctx[i].outer < t)
    BY <1>2 DEF ChainInv, Scope
  <2>2. Finds(table, chain[ctx[i].outer], ctx[i].name, HeaderSym(ctx[i]))
    BY <1>3, <2>1 DEF Finds, HeaderSym
  <2>3. chain[ctx[i].outer] \in SUBSET Scope
    BY <1>2 DEF TypeOK
  <2> QED BY <1>2, <2>2, <2>3, GetFinds, FindsUnique
<1> QED BY <1>2, <1>3, <1>4, <1>5

\* A function or struct is over, or a struct begins.
Ends == Depth' = Depth - 1 /\ Top.rule \in {"func", "struct"}
Starts == Depth' = Depth + 1 /\ Top'.rule = "struct"

\* An open function or struct stays, with the symbol its header declared, or
\* it is the production that ends.
LEMMA HeadersStay ==
  ASSUME IInv, Moves, [Next]_vars,
         NEW i \in 1..Depth, ctx[i].rule \in {"func", "struct"}
  PROVE  \/ /\ i \in 1..Depth' /\ ctx'[i].rule = ctx[i].rule
            /\ HeaderSym(ctx[i])' = HeaderSym(ctx[i])
         \/ Ends /\ i = Depth
<1>0. Depth \in Nat \ {0} /\ ctx[Depth] = Top /\ Top' = ctx'[Depth']
  BY TopFrame DEF IInv, Top, Depth
<1>1. table'[ctx[i].outer][ctx[i].name] = table[ctx[i].outer][ctx[i].name]
  <2>1. Get(ctx[i].outer, ctx[i].name) # NoSym
    BY HeaderFound DEF Sym, NoSym
  <2> QED BY <2>1, HeaderFound, NeverShadowsStep
<1>2. CASE i \in 1..Depth' /\ ctx'[i].rule = ctx[i].rule
           /\ ctx'[i].outer = ctx[i].outer /\ ctx'[i].name = ctx[i].name
  BY <1>1, <1>2 DEF HeaderSym
<1>3. CASE i = Depth
  BY <1>0, <1>2, <1>3 DEF Moves, GoesOnHere, Begins, Enters, Finishes, LeavesIf, Keeps, Same, Ends
<1>4. CASE i # Depth
  <2>1. i \in 1..(Depth - 1) /\ i \in 1..Depth
    BY <1>0, <1>4
  <2>2. Same(ctx'[i], ctx[i])
    BY <2>1 DEF Moves, GoesOnHere, Begins, Enters, Finishes, LeavesIf, Keeps
  <2>3. i \in 1..Depth'
    BY <1>0, <2>1 DEF Moves, GoesOnHere, Begins, Enters, Finishes, LeavesIf
  <2> QED BY <1>2, <2>2, <2>3 DEF Same
<1> QED BY <1>3, <1>4

\* A struct that is open after a step was open before, or it begins.
LEMMA StructsOld ==
  ASSUME IInv, IInv', Moves, NEW i \in 1..Depth', ctx'[i].rule = "struct"
  PROVE  \/ i \in 1..Depth /\ ctx[i].rule = "struct" /\ ~(Ends /\ i = Depth)
         \/ Starts /\ i = Depth'
<1>0. Depth \in Nat \ {0} /\ ctx[Depth] = Top /\ Top' = ctx'[Depth']
  BY TopFrame DEF IInv, Top, Depth
<1>1. CASE i <= Depth - 1
  <2>1. i \in 1..(Depth - 1) /\ i \in 1..Depth /\ i # Depth
    BY <1>0, <1>1
  <2>2. Same(ctx'[i], ctx[i])
    BY <2>1 DEF Moves, GoesOnHere, Begins, Enters, Finishes, LeavesIf, Keeps
  <2> QED BY <2>1, <2>2 DEF Same
<1>2. CASE i > Depth - 1
  BY <1>0, <1>2 DEF Moves, GoesOnHere, Begins, Enters, Finishes, LeavesIf, Keeps, Same, Ends, Starts
<1> QED BY <1>0, <1>1, <1>2

\* What a step does to the symbols: it keeps their kinds and declarations, but
\* for the one whose function or struct ends; a new one is complete, or the
\* production that will complete it has begun.
KindSame(k) == sym'[k].kind = sym[k].kind /\ sym'[k].decl = sym[k].decl

SymbolsMove ==
    /\ \A k \in 1..(nextSym - 1) :
          \/ KindSame(k)
          \/ Ends /\ k = HeaderSym(Top) /\ (sym[k].kind = "Type" => sym'[k].kind = "Type")
    /\ \A k \in 1..(nextSym' - 1) : k \in 1..(nextSym - 1) \/ Complete(k)' \/ Pending(k)'
    /\ Ends => \A k : k = HeaderSym(Top) => Complete(k)'
    /\ Starts => sym'[HeaderSym(Top)'].kind = "Type"

\* Every step does so.
LEMMA DeclsStep ==
  ASSUME IInv, IInv', DeclsInv, Moves, [Next]_vars, SymbolsMove
  PROVE  DeclsInv'
<1>0. /\ Depth \in Nat \ {0} /\ ctx[Depth] = Top /\ Top' = ctx'[Depth'] /\ Depth' \in Nat
      /\ nextSym \in Nat
  BY TopFrame DEF IInv, Top, Depth, TypeOK
<1>1. ASSUME NEW k \in 1..(nextSym' - 1)
      PROVE  Complete(k)' \/ Pending(k)'
  <2>1. CASE k \notin 1..(nextSym - 1)
    BY <1>1, <2>1 DEF SymbolsMove
  <2>2. CASE k \in 1..(nextSym - 1) /\ Ends /\ k = HeaderSym(Top)
    BY <2>2 DEF SymbolsMove
  <2>3. CASE k \in 1..(nextSym - 1) /\ ~(Ends /\ k = HeaderSym(Top))
    <3>1. KindSame(k)
      BY <2>3 DEF SymbolsMove
    <3>2. CASE Complete(k)
      BY <3>1, <3>2 DEF Complete, KindSame
    <3>3. ASSUME NEW i \in 1..Depth, ctx[i].rule \in {"func", "struct"}, HeaderSym(ctx[i]) = k
          PROVE  Pending(k)'
      <4>1. i \in 1..Depth' /\ ctx'[i].rule = ctx[i].rule /\ HeaderSym(ctx[i])' = k
        BY <1>0, <2>3, <3>3, HeadersStay
      <4> QED BY <3>3, <4>1 DEF Pending
    <3> QED BY <2>3, <3>2, <3>3 DEF DeclsInv, Pending
  <2> QED BY <2>1, <2>2, <2>3
<1>2. ASSUME NEW i \in 1..Depth', ctx'[i].rule = "struct"
      PROVE  sym'[HeaderSym(ctx[i])'].kind = "Type"
  <2>1. CASE i \in 1..Depth /\ ctx[i].rule = "struct" /\ ~(Ends /\ i = Depth)
    <3>1. HeaderSym(ctx[i])' = HeaderSym(ctx[i]) /\ HeaderSym(ctx[i]) \in 1..(nextSym - 1)
      BY <2>1, HeadersStay, HeaderFound
    <3>2. sym[HeaderSym(ctx[i])].kind = "Type"
      BY <2>1 DEF DeclsInv
    <3> QED BY <3>1, <3>2 DEF SymbolsMove, KindSame
  <2>2. CASE Starts /\ i = Depth'
    BY <1>0, <2>2 DEF SymbolsMove, HeaderSym
  <2> QED BY <1>2, <2>1, <2>2, StructsOld
<1> QED BY <1>1, <1>2 DEF DeclsInv

\* A step that declares nothing and completes nothing.
LEMMA QuietMoves ==
  ASSUME IInv, nextSym' = nextSym, \A k \in Sym : KindSame(k), ~Ends, ~Starts
  PROVE  SymbolsMove
<1>1. 1..(nextSym - 1) \subseteq Sym
  BY BoundsAssumption DEF IInv, TypeOK, Sym
<1> QED BY <1>1 DEF SymbolsMove

\* What is known of a symbol that is put.
LEMMA PutSymbol ==
  ASSUME TypeOK, NEW s \in Scope, NEW n \in Names, NEW x, Put(s, n, x)
  PROVE  /\ nextSym \in Sym /\ nextSym' = nextSym + 1
         /\ sym'[nextSym] = x /\ table'[s][n] = nextSym
         /\ \A k \in 1..(nextSym - 1) : KindSame(k)
         /\ \A k \in 1..(nextSym' - 1) : k \in 1..(nextSym - 1) \/ k = nextSym
<1>1. /\ nextSym \in Sym /\ nextSym' = nextSym + 1
      /\ sym'[nextSym] = x /\ table'[s][n] = nextSym
      /\ \A k \in 1..(nextSym - 1) : sym'[k] = sym[k]
  BY DEF Put, TypeOK, Sym
<1>2. \A k \in 1..(nextSym' - 1) : k \in 1..(nextSym - 1) \/ k = nextSym
  BY <1>1 DEF Sym
<1> QED BY <1>1, <1>2 DEF KindSame

\* A variable or a type alias is complete when it is put.
LEMMA PutMoves ==
  ASSUME IInv, NEW s \in Scope, NEW n \in Names, NEW x, Put(s, n, x),
         \/ x.kind = "Var" /\ x.decl = "var"
         \/ x.kind = "Type" /\ x.decl = "alias",
         ~Ends, ~Starts
  PROVE  SymbolsMove
<1>1. TypeOK
  BY DEF IInv
<1>2. PICK new : new = nextSym
  OBVIOUS
<1>3. Complete(new)'
  BY <1>1, <1>2, PutSymbol DEF Complete
<1> QED BY <1>1, <1>2, <1>3, PutSymbol DEF SymbolsMove

\* The header of a function or struct puts a symbol that its end completes.
LEMMA HeaderMoves ==
  ASSUME IInv, IInv', NEW n \in Names, NEW x, Put(cur, n, x), Depth' = Depth + 1,
         Top'.rule = "func" \/ (Top'.rule = "struct" /\ x.kind = "Type"),
         Top'.outer = cur, Top'.name = n
  PROVE  SymbolsMove
<1>1. TypeOK /\ cur \in Scope /\ Depth \in Nat /\ Depth' \in 1..Depth' /\ Top' = ctx'[Depth']
  BY TopFrame DEF IInv, TypeOK, Top, Depth
<1>2. PICK new : new = nextSym
  OBVIOUS
<1>3. HeaderSym(Top)' = new /\ sym'[new] = x
  BY <1>1, <1>2, PutSymbol DEF HeaderSym
<1>4. Pending(new)'
  BY <1>1, <1>3 DEF Pending, HeaderSym
<1>5. ~Ends /\ (Starts => x.kind = "Type")
  BY <1>1 DEF Ends, Starts
<1> QED BY <1>1, <1>2, <1>3, <1>4, <1>5, PutSymbol DEF SymbolsMove

\* The end of a function or struct completes what its header put.
LEMMA EndMoves ==
  ASSUME IInv, nextSym' = nextSym, Depth' = Depth - 1, Top.rule \in {"func", "struct"},
         NEW k, k = HeaderSym(Top), NEW y, sym' = [sym EXCEPT ![k] = y],
         \/ y.kind = "Func" /\ y.decl = "func" /\ sym[k].kind # "Type"
         \/ y.kind = "Type" /\ y.decl = "struct"
  PROVE  SymbolsMove
<1>1. /\ Depth \in 1..Depth /\ ctx[Depth] = Top /\ Depth \in Nat
      /\ 1..(nextSym - 1) \subseteq Sym
  BY TopFrame, BoundsAssumption DEF IInv, Top, Depth, TypeOK, Sym
<1>2. k \in Sym
  BY <1>1, HeaderFound
<1>3. sym'[k] = y /\ \A l \in Sym : l # k => sym'[l] = sym[l]
  BY <1>2 DEF IInv, TypeOK
<1>4. Complete(k)'
  BY <1>3 DEF Complete
<1>5. ~Starts /\ Ends
  BY <1>1 DEF Starts, Ends
<1> QED BY <1>1, <1>2, <1>3, <1>4, <1>5 DEF SymbolsMove, KindSame

\* Declarations put complete symbols, or open a production for them.
LEMMA DeclarationSymbols ==
  ASSUME IInv, IInv', DeclsInv, Declaration
  PROVE  SymbolsMove
<1> USE TopFrame DEF IInv
<1>0. /\ TypeOK /\ Top \in Frame /\ FrameShape(Top) /\ cur \in Scope /\ Depth \in Nat \ {0}
      /\ Depth \in 1..Depth /\ ctx[Depth] = Top
      /\ \A k \in Sym : sym' = sym => KindSame(k)
      /\ Depth' = Depth => ~Ends /\ ~Starts
  BY DeclarePosition DEF TypeOK, KindSame, Ends, Starts, Top, Depth
<1>1. ASSUME NEW n \in Names, NEW sized \in BOOLEAN, VarDecl(n, sized)
      PROVE  SymbolsMove
  <2>1. PICK f : f = [Top EXCEPT !.full = TRUE, !.sized = @ /\ sized]
    OBVIOUS
  <2>2. f \in Frame
    BY <1>0, <2>1 DEF Frame
  <2>3. Depth' = Depth
    BY <1>1, <2>1, <2>2, SetTopMoves DEF VarDecl
  <2> QED BY <1>0, <1>1, <2>3, PutMoves DEF VarDecl, NewSymbol
<1>2. ASSUME NEW n \in Names, VarDeclInit(n) \/ TypeAlias(n)
      PROVE  SymbolsMove
  <2>1. Depth' = Depth
    BY <1>0, <1>2, SameMoves DEF VarDeclInit, TypeAlias, GoesOnHere, Same
  <2>2. Put(cur, n, [NewSymbol("Var", "var") EXCEPT !.initialized = TRUE])
        \/ Put(cur, n, NewSymbol("Type", "alias"))
    BY <1>2 DEF VarDeclInit, TypeAlias
  <2> QED BY <1>0, <2>1, <2>2, PutMoves DEF NewSymbol
<1>3. ASSUME NEW rule \in Rule, NEW pos \in Position, NEW name \in Names \cup {NoName},
             CreateScope, Push(ctx, NewFrame(rule, pos, name, nextScope))
      PROVE  Depth' = Depth + 1 /\ Top'.rule = rule /\ Top'.outer = cur /\ Top'.name = name
  <2>1. PICK f : f = NewFrame(rule, pos, name, nextScope)
    OBVIOUS
  <2>2. f \in Frame
    BY <1>3, <2>1, NewFrameType, CreateScopeType
  <2> QED BY <1>3, <2>1, <2>2, PushMoves DEF NewFrame
<1>4. ASSUME NEW n \in Names, OpenFunc(n) \/ OpenForwardFunc(n)
      PROVE  SymbolsMove
  <2>1. CASE Depth' = Depth /\ sym' = sym /\ nextSym' = nextSym
    BY <1>0, <2>1, QuietMoves
  <2>2. CASE CreateScope /\ Push(ctx, NewFrame("func", "params", n, nextScope))
    <3>1. Depth' = Depth + 1 /\ Top'.rule = "func" /\ Top'.outer = cur /\ Top'.name = n
      BY <1>3, <2>2 DEF Rule, Block, Position
    <3>2. CASE Put(cur, n, NewSymbol("Func", "null"))
      BY <1>0, <3>1, <3>2, HeaderMoves
    <3>3. CASE sym' = sym /\ nextSym' = nextSym
      <4>1. ~Ends /\ ~Starts
        BY <1>0, <3>1 DEF Ends, Starts
      <4> QED BY <1>0, <3>3, <4>1, QuietMoves
    <3> QED BY <1>4, <3>2, <3>3 DEF OpenFunc, OpenForwardFunc
  <2> QED BY <1>4, <2>1, <2>2 DEF OpenFunc, OpenForwardFunc, Depth
<1>5. ASSUME NEW rule \in StructRule, NEW n \in Names \cup {NoName}, OpenStruct(rule, n)
      PROVE  SymbolsMove
  <2>1. Depth' = Depth + 1 /\ Top'.rule = rule /\ Top'.outer = cur /\ Top'.name = n
    BY <1>3, <1>5 DEF OpenStruct, Rule, Position
  <2>2. CASE rule = "struct"
    <3>1. n \in Names /\ Put(cur, n, NewSymbol("Type", "null"))
      BY <1>5, <2>2 DEF OpenStruct
    <3>2. NewSymbol("Type", "null").kind = "Type"
      BY DEF NewSymbol
    <3> QED BY <2>1, <2>2, <3>1, <3>2, HeaderMoves
  <2>3. CASE rule # "struct"
    <3>1. sym' = sym /\ nextSym' = nextSym
      BY <1>5, <2>3 DEF OpenStruct
    <3>2. ~Ends /\ ~Starts
      BY <1>0, <2>1, <2>3 DEF Ends, Starts
    <3> QED BY <1>0, <3>1, <3>2, QuietMoves
  <2> QED BY <2>2, <2>3
<1>6. ASSUME NEW n \in Names, CloseStruct(n)
      PROVE  SymbolsMove
  <2>1. Top.inner # NoScope /\ Top.rule \in StructRule /\ Top.rule # "program"
    BY <1>0, <1>6 DEF CloseStruct, FrameShape, StructRule
  <2>2. CASE ~Top.sized
    BY <1>0, <1>6, <2>2, QuietMoves DEF CloseStruct, Depth
  <2>3. CASE Top.sized
    <3>1. ctx' = Filled(Below) /\ DeclareStruct(n)
      BY <1>6, <2>3 DEF CloseStruct
    <3>2. Depth' = Depth - 1 /\ ~Starts
      BY <1>0, <2>1, <3>1, NotProgram, PopMoves DEF Starts
    <3>3. Enclosing(cur) = Top.outer /\ Top.outer \in Scope
      BY <2>1, PopReturns
    <3>4. CASE Top.rule = "struct"
      <4>1. PICK k : k = HeaderSym(Top)
        OBVIOUS
      <4>2. k \in Sym /\ k = Get(Top.outer, Top.name) /\ sym[k].kind = "Type"
        BY <1>0, <3>4, <4>1, HeaderFound DEF DeclsInv
      <4>3. sym' = [sym EXCEPT ![k].decl = "struct"] /\ nextSym' = nextSym
        BY <3>1, <3>3, <3>4, <4>2 DEF DeclareStruct
      <4>4. PICK y : y = [sym[k] EXCEPT !.decl = "struct"]
        OBVIOUS
      <4>5. y.kind = "Type" /\ y.decl = "struct" /\ sym' = [sym EXCEPT ![k] = y]
        BY <4>2, <4>3, <4>4 DEF TypeOK, Symbol
      <4> QED BY <3>2, <3>4, <4>1, <4>3, <4>5, EndMoves
    <3>5. CASE Top.rule # "struct"
      <4>1. ~Ends
        BY <2>1, <3>5 DEF Ends, StructRule
      <4>2. \/ Top.name \in Names /\ Put(Top.outer, Top.name, NewSymbol("Type", "alias"))
            \/ Put(Top.outer, n, NewSymbol("Var", "var"))
        BY <1>0, <2>1, <3>1, <3>3, <3>5 DEF DeclareStruct, StructRule, FrameShape
      <4> QED BY <3>2, <3>3, <4>1, <4>2, PutMoves DEF NewSymbol
    <3> QED BY <3>4, <3>5
  <2> QED BY <1>0, <2>2, <2>3 DEF Frame
<1>7. CASE BeginBody
  <2>1. PICK f : f = [Top EXCEPT !.pos = "items", !.full = FALSE]
    OBVIOUS
  <2>2. f \in Frame
    BY <1>0, <2>1 DEF Frame, Position
  <2>3. Depth' = Depth /\ nextSym' = nextSym
    BY <1>7, <2>1, <2>2, SetTopMoves DEF BeginBody
  <2>4. \A k \in Sym : KindSame(k)
    BY <1>7 DEF BeginBody, KindSame, TypeOK, Symbol
  <2> QED BY <1>0, <2>3, <2>4, QuietMoves
<1> QED BY <1>1, <1>2, <1>4, <1>5, <1>6, <1>7 DEF Declaration

\* Of the statements only the end of a function changes a declaration.
LEMMA StatementSymbols ==
  ASSUME IInv, IInv', Moves, Statement
  PROVE  SymbolsMove
<1> USE TopFrame DEF IInv
<1>0. /\ TypeOK /\ Top \in Frame /\ FrameShape(Top) /\ Depth \in Nat \ {0}
      /\ Depth \in 1..Depth /\ ctx[Depth] = Top
      /\ \A k \in Sym : sym' = sym => KindSame(k)
  BY DeclarePosition DEF KindSame, Top, Depth
<1>1. ASSUME NEW rule \in {"if", "while", "for"}, OpenStatement(rule)
      PROVE  SymbolsMove
  <2>1. PICK f : f = NewFrame(rule, IF rule = "for" THEN "init" ELSE "cond", NoName, NoScope)
    OBVIOUS
  <2>2. f \in Frame /\ f.rule = rule
    BY <2>1, NewFrameType DEF NewFrame, Rule, Block, Position
  <2>3. Depth' = Depth + 1 /\ Top' = f
    BY <1>1, <2>1, <2>2, PushMoves DEF OpenStatement
  <2>4. ~Ends /\ ~Starts
    BY <1>0, <2>2, <2>3 DEF Ends, Starts
  <2> QED BY <1>0, <1>1, <2>4, QuietMoves DEF OpenStatement
<1>2. CASE EnterBlock \/ ForCond \/ ForUpdate \/ ForBody \/ Else \/ EndIf
  <2>1. sym' = sym /\ nextSym' = nextSym
    BY <1>2 DEF EnterBlock, ForCond, ForUpdate, ForBody, Else, EndIf
  <2>2. Top.rule \notin {"func", "struct"}
    BY <1>0, <1>2 DEF EnterBlock, ForCond, ForUpdate, ForBody, Else, EndIf, FrameShape, StructRule
  <2>3. Depth' # Depth + 1
    <3>1. CASE EndIf
      BY <1>0, <3>1, NotProgram, PopMoves DEF EndIf, FrameShape
    <3>2. CASE ~EndIf
      BY <1>0, <1>2, <3>2 DEF EnterBlock, ForCond, ForUpdate, ForBody, Else, SetTop, Depth, TypeOK
    <3> QED BY <3>1, <3>2
  <2> QED BY <1>0, <2>1, <2>2, <2>3, QuietMoves DEF Ends, Starts
<1>3. CASE CloseBlock
  <2>1. Top.inner # NoScope /\ Top.rule \in Block /\ Top.rule # "program" /\ nextSym' = nextSym
    BY <1>0, <1>3 DEF CloseBlock, FrameShape, Block
  <2>2. CASE Top.rule = "func"
    <3>1. Depth' = Depth - 1
      BY <1>0, <1>3, <2>1, <2>2, NotProgram, PopMoves DEF CloseBlock
    <3>2. Enclosing(cur) = Top.outer
      BY <2>1, PopReturns
    <3>3. PICK k : k = HeaderSym(Top)
      OBVIOUS
    <3>4. k \in Sym /\ k = Get(Top.outer, Top.name) /\ sym[k].kind # "Type"
      BY <1>0, <2>2, <3>3, HeaderFound DEF NamesInv, FrameNames, HeaderSym
    <3>5. PICK y : y = [kind |-> "Func", decl |-> "func", initialized |-> TRUE]
      OBVIOUS
    <3>6. sym' = [sym EXCEPT ![k] = y]
      BY <1>3, <2>2, <3>2, <3>4, <3>5 DEF CloseBlock
    <3> QED BY <2>1, <2>2, <3>1, <3>3, <3>4, <3>5, <3>6, EndMoves
  <2>3. CASE Top.rule # "func"
    <3>1. ~Ends /\ sym' = sym
      BY <1>3, <2>1, <2>3 DEF Ends, CloseBlock, Block
    <3>2. Depth' # Depth + 1
      <4>1. CASE Top.rule = "if"
        BY <1>0, <1>3, <4>1 DEF CloseBlock, SetTop, Depth, TypeOK
      <4>2. CASE Top.rule # "if"
        BY <1>0, <1>3, <2>1, <4>2, NotProgram, PopMoves DEF CloseBlock
      <4> QED BY <4>1, <4>2
    <3> QED BY <1>0, <2>1, <3>1, <3>2, QuietMoves DEF Starts
  <2> QED BY <2>2, <2>3
<1>4. ASSUME Depth' = Depth
      PROVE  ~Ends /\ ~Starts
  BY <1>0, <1>4 DEF Ends, Starts
<1>5. ASSUME NEW n \in Names, Assign(n)
      PROVE  SymbolsMove
  <2>1. Depth' = Depth /\ nextSym' = nextSym
    BY <1>0, <1>5, SameMoves DEF Assign, GoesOnHere, Same
  <2>2. \A k \in Sym : KindSame(k)
    BY <1>5 DEF Assign, KindSame, TypeOK, Symbol
  <2> QED BY <1>4, <2>1, <2>2, QuietMoves
<1>6. ASSUME NEW kind \in {"return", "break", "continue"}, JumpStmt(kind)
      PROVE  SymbolsMove
  <2>1. Depth' = Depth /\ nextSym' = nextSym /\ sym' = sym
    BY <1>0, <1>6, SameMoves DEF JumpStmt, GoesOnHere, Same
  <2> QED BY <1>0, <1>4, <2>1, QuietMoves
<1> QED BY <1>1, <1>2, <1>3, <1>5, <1>6 DEF Statement

\* What a step does to the symbols.
LEMMA StepSymbols ==
  ASSUME IInv, IInv', DeclsInv, Moves, [Next]_vars
  PROVE  SymbolsMove
<1>1. CASE (\E n \in Names : UseIdent(n)) \/ End \/ UNCHANGED vars
  <2>1. UNCHANGED <<ctx, sym, nextSym>>
    BY <1>1 DEF UseIdent, End, IllFormedType, SyntaxError, ScanFault, Accept, vars
  <2>2. Depth' = Depth /\ Depth \in Nat
    BY <2>1, TopFrame DEF Depth, IInv
  <2> QED BY <2>1, <2>2, QuietMoves DEF KindSame, Ends, Starts
<1> QED BY <1>1, DeclarationSymbols, StatementSymbols DEF Next

\* At first there are the built-in symbols: the numbers up to theirs are all
\* used, so that one that is not a function's is a primitive type's.
LEMMA DeclsInit ==
  ASSUME Init
  PROVE  DeclsInv
<1>1. /\ IsFiniteSet(Builtins) /\ Cardinality(Builtins) \in Nat
      /\ Cardinality(Builtins) <= MaxSyms
  BY BuiltinsAssumption, FS_Subset, FS_CardinalityType DEF Builtins
<1>2. PICK c \in Nat : c = Cardinality(Builtins)
  BY <1>1
<1>3. BuiltinSym \in Injection(Builtins, 1..c)
  BY <1>2, BuiltinsAssumption DEF Injection, IsInjective
<1>4. IsFiniteSet(1..c) /\ Cardinality(1..c) = c
  BY <1>2, FS_Interval
<1>5. BuiltinSym \in Surjection(Builtins, 1..c)
  BY <1>2, <1>3, <1>4, FS_Injection
<1>6. \A k \in 1..c : \E n \in Builtins : BuiltinSym[n] = k
  BY <1>5 DEF Surjection
<1>7. /\ nextSym - 1 = c /\ 1..c \subseteq Sym
      /\ \A k \in Sym : sym[k] = IF \E f \in BuiltinFuncs : BuiltinSym[f] = k
                                 THEN NewSymbol("Func", "func") ELSE NewSymbol("Type", "null")
  BY <1>1, <1>2, BoundsAssumption DEF Init, Sym
<1>8. ASSUME NEW k \in 1..(nextSym - 1)
      PROVE  Complete(k)
  <2>1. k \in Sym /\ \E n \in PrimTypes \cup BuiltinFuncs : BuiltinSym[n] = k
    BY <1>6, <1>7 DEF Builtins
  <2>2. CASE \E f \in BuiltinFuncs : BuiltinSym[f] = k
    <3>1. sym[k] = NewSymbol("Func", "func")
      BY <1>7, <2>1, <2>2
    <3>2. sym[k].kind = "Func" /\ sym[k].decl = "func"
      BY <3>1 DEF NewSymbol
    <3> QED BY <3>2 DEF Complete
  <2>3. CASE ~\E f \in BuiltinFuncs : BuiltinSym[f] = k
    <3>1. \E p \in PrimTypes : BuiltinSym[p] = k
      BY <2>1, <2>3
    <3>2. sym[k] = NewSymbol("Type", "null")
      BY <1>7, <2>1, <2>3
    <3>3. sym[k].kind = "Type" /\ sym[k].decl = "null"
      BY <3>2 DEF NewSymbol
    <3> QED BY <3>1, <3>3 DEF Complete
  <2> QED BY <2>2, <2>3
<1>9. \A i \in 1..Depth : ctx[i].rule # "struct"
  BY DEF Init, Depth
<1> QED BY <1>8, <1>9 DEF DeclsInv

\* No production is open at the end, so that no symbol waits for its own.
LEMMA DeclsAtEnd ==
  ASSUME IInv, OwnersInv, AcceptInv, DeclsInv
  PROVE  DeclsComplete
<1>1. SUFFICES ASSUME status = "accepted"
               PROVE  \A k \in 1..(nextSym - 1) : Complete(k)
  BY DEF DeclsComplete, Complete
<1>2. Depth = 1 /\ ctx[1].rule = "program"
  BY <1>1, AcceptedAtRoot DEF AcceptInv, Top, Depth
<1>3. \A k : ~Pending(k)
  BY <1>2 DEF Pending
<1> QED BY <1>3 DEF DeclsInv

-----------------------------------------------------------------------------
(* The theorems.                                                           *)

\* Between its first step and the end of the parse every table without a node
\* belongs to an open production, every jump is filed in the walk of the
\* function and of the loop it was written in, and every symbol without its
\* declaration is waiting for the end of an open function or struct.
THEOREM EndInvariant == Spec => []EndInv
<1>1. Init => EndInv
  BY EndInvInit, DeclsInit DEF EndInv
<1>2. IInv /\ IInv' /\ EndInv /\ [Next]_vars => EndInv'
  <2>1. SUFFICES ASSUME IInv, IInv', EndInv, [Next]_vars
                 PROVE  EndInv'
    OBVIOUS
  <2>2. Moves
    BY <2>1, StepMoves
  <2>3. OwnersInv' /\ OwnersKept
    BY <2>1, <2>2, OwnersStep DEF EndInv
  <2>4. InitNests' /\ AcceptInv'
    BY <2>1, <2>2, InitNestsStep, AcceptStep DEF EndInv
  <2>5. JumpsInv'
    BY <2>1, <2>2, <2>3, JumpsStep DEF EndInv
  <2>6. DeclsInv'
    BY <2>1, <2>2, StepSymbols, DeclsStep DEF EndInv
  <2> QED BY <2>3, <2>4, <2>5, <2>6 DEF EndInv
<1> QED BY <1>1, <1>2, Invariant, PTL DEF Spec

\* An accepted program leaves the parser in the table it started from, and
\* every table that was created has the node of the production it was created
\* for: pop_scope and set_node miss none, on whatever path the grammar took.
THEOREM AcceptsAtRoot == Spec => []AcceptAtRoot
<1>1. IInv /\ EndInv => AcceptAtRoot
  BY AcceptedAtRoot DEF EndInv, AcceptAtRoot
<1> QED BY <1>1, Invariant, EndInvariant, PTL

\* After a parse ReturnStatement::typecheck, walking from the table of the
\* statement, finds the function it was written in, and BreakStmt and
\* ContinueStmt find a loop exactly if they were written in one.
THEOREM JumpsAreResolved == Spec => []JumpsResolve
<1>1. IInv /\ EndInv => JumpsResolve
  BY JumpsAtEnd DEF EndInv
<1> QED BY <1>1, Invariant, EndInvariant, PTL

\* After a parse the Decl member of every symbol is the one its kind says, and
\* only the primitive types have none.
THEOREM DeclsAreComplete == Spec => []DeclsComplete
<1>1. IInv /\ EndInv => DeclsComplete
  BY DeclsAtEnd DEF EndInv
<1> QED BY <1>1, Invariant, EndInvariant, PTL
=============================================================================
