------------------------------- MODULE Scopes -------------------------------
(***************************************************************************)
(* The front end of the compiler: the symbol tables, the scanner that      *)
(* classifies identifiers by looking them up, and the parser's semantic    *)
(* actions that open and close tables and declare symbols in them.         *)
(*                                                                         *)
(* The three cannot be separated: scanner.lex asks the current table what  *)
(* an identifier is (DECLARED_VAR, DECLARED_TYPE, ...) and the grammar     *)
(* accepts a declaration only of an identifier that came back as IDENT,    *)
(* while the grammar's actions, some of them in the middle of a rule,      *)
(* change the table the scanner will ask next.                             *)
(*                                                                         *)
(* A step is one semantic action of parser.ypp together with the           *)
(* identifiers scanned for it.  Expressions are reduced to the identifiers *)
(* they mention; types to whether type_size returns on them.               *)
(***************************************************************************)
EXTENDS Integers, Sequences, FiniteSets

CONSTANTS
    Names,          \* identifiers a program may contain
    PrimTypes,      \* names of the primitive types (bare_symtable)
    BuiltinFuncs,   \* names of the functions of BUILTIN_DECLS
    BuiltinSym,     \* the symbol of each primitive type and built-in function
    Plural,         \* Plural[n]: what is left of n without its trailing 's'
    MaxScopes,      \* bound: tables created while parsing
    MaxSyms,        \* bound: symbols created while parsing
    MaxDepth,       \* bound: productions open at the same time
    MaxMentions     \* bound: identifier occurrences and jumps remembered

Root == 1
NoSym == 0
NoScope == 0
NoName == ""
Scope == 1..MaxScopes
Sym == 1..MaxSyms

ASSUME BoundsAssumption ==
    /\ MaxScopes \in Nat \ {0}
    /\ MaxSyms \in Nat
    /\ MaxDepth \in Nat
    /\ MaxMentions \in Nat

Builtins == PrimTypes \cup BuiltinFuncs

ASSUME BuiltinsAssumption ==
    /\ IsFiniteSet(Names)
    /\ PrimTypes \subseteq Names
    /\ BuiltinFuncs \subseteq Names
    /\ PrimTypes \cap BuiltinFuncs = {}
    /\ Cardinality(Builtins) <= MaxSyms
    /\ BuiltinSym \in [Builtins -> 1..Cardinality(Builtins)]
    /\ \A m, n \in Builtins : BuiltinSym[m] = BuiltinSym[n] => m = n
    /\ DOMAIN Plural \subseteq Names
    /\ \A n \in DOMAIN Plural : Plural[n] \in Names

VARIABLES
    status,     \* outcome of yyparse so far
    ctx,        \* stack of the productions being parsed, innermost last
    cur,        \* state->symtable
    table,      \* table[s][n]: SymbolTable::table of table s, NoSym if absent
    chain,      \* chain[s]: tables met walking `enclosing` from s, s included
    node,       \* node[s]: kind of the AST node that owns table s
    nextScope,  \* next table to be allocated
    sym,        \* the Symbol objects
    nextSym,    \* next Symbol to be allocated
    uses,       \* history: identifier occurrences and what they stood for
    jumps       \* history: return, break and continue statements

vars == <<status, ctx, cur, table, chain, node, nextScope, sym, nextSym,
          uses, jumps>>

Status == {"parsing", "accepted", "syntax error", "exit", "stuck", "fault"}
Block == {"func", "if", "else", "while", "for"}     \* rules with statements
StructRule == {"struct", "alias", "anonymous"}      \* uses of struct_type_name
Rule == Block \cup StructRule \cup {"program"}
Position == {"items", "params", "cond", "init", "update", "after"}
Kind == {"Var", "Type", "Func"}
Decl == {"null", "var", "alias", "struct", "func"}
Token == {"IDENT", "DECLARED_VAR", "DECLARED_TYPE", "DECLARED_FUNC",
          "DYNAMIC_ARR_IDENT", "FAULT"}

Symbol == [kind : Kind, decl : Decl, initialized : BOOLEAN]

\* A production being parsed: `outer` is the current table when it began,
\* `inner` the one it created (NoScope before create_scope, after pop_scope),
\* `full` whether its current list or header has the statement it needs,
\* `sized` whether type_size returns on every struct member so far.
Frame == [rule : Rule, pos : Position, name : Names \cup {NoName},
          outer : Scope, inner : Scope \cup {NoScope},
          full : BOOLEAN, sized : BOOLEAN]

\* An occurrence of an identifier: the symbol and token the scanner found,
\* the table the typechecker will later look it up in, and, while that table
\* is not settled, the depth of the statement whose header it occurs in.
Use == [name : Names, sym : Sym, tok : Token, check : Scope, hdr : Nat]

Jump == [kind : {"return", "break", "continue"}, check : Scope, hdr : Nat,
         func : Scope, inLoop : BOOLEAN]

-----------------------------------------------------------------------------
(* Symbol tables.  A table is allocated after the one enclosing it and its *)
(* `enclosing` pointer never changes, so the walk from s is the set        *)
(* chain[s] in decreasing order, and the innermost is the greatest.        *)

Innermost(S) == CHOOSE s \in S : \A t \in S : t <= s

Get(s, n) ==
    LET hits == {t \in chain[s] : table[t][n] # NoSym}
    IN  IF hits = {} THEN NoSym ELSE table[Innermost(hits)][n]

Put(s, n, symbol) ==
    /\ nextSym \in Sym
    /\ table' = [table EXCEPT ![s][n] = nextSym]
    /\ sym' = [sym EXCEPT ![nextSym] = symbol]
    /\ nextSym' = nextSym + 1

NewSymbol(kind, decl) == [kind |-> kind, decl |-> decl, initialized |-> FALSE]

CreateScope ==
    /\ nextScope \in Scope
    /\ chain' = [chain EXCEPT ![nextScope] = chain[cur] \cup {nextScope}]
    /\ cur' = nextScope
    /\ nextScope' = nextScope + 1

Enclosing(s) == Innermost(chain[s] \ {s})

\* Mutant of PopScope: set_node is forgotten.
PopScopeWithoutNode(owner) ==
    /\ cur' = Enclosing(cur)
    /\ UNCHANGED node

\* Mutant of PopScope: the table is returned but stays current.
PopScopeStaysInside(owner) ==
    /\ cur' = cur
    /\ node' = [node EXCEPT ![cur] = owner]

PopScope(owner) ==
    /\ cur' = Enclosing(cur)
    /\ node' = [node EXCEPT ![cur] = owner]

-----------------------------------------------------------------------------
(* The scanner's rule for identifiers.  An undeclared name that is a type  *)
(* name plus 's' is read as a dynamic array of that type, whose definition *)
(* is fetched through the type's declaration: a primitive type, and a      *)
(* struct still being declared, have none, and the fetch dereferences a    *)
(* null pointer.                                                           *)

\* Mutant of TokenAt: the enclosing tables are not asked.
TokenAtInnermost(s, n) ==
    IF table[s][n] = NoSym THEN "IDENT"
    ELSE CASE sym[table[s][n]].kind = "Var"  -> "DECLARED_VAR"
           [] sym[table[s][n]].kind = "Type" -> "DECLARED_TYPE"
           [] sym[table[s][n]].kind = "Func" -> "DECLARED_FUNC"

TokenAt(s, n) ==
    LET found == Get(s, n)
        type == IF n \in DOMAIN Plural THEN Get(s, Plural[n]) ELSE NoSym
    IN  IF found # NoSym
        THEN CASE sym[found].kind = "Var"  -> "DECLARED_VAR"
               [] sym[found].kind = "Type" -> "DECLARED_TYPE"
               [] sym[found].kind = "Func" -> "DECLARED_FUNC"
        ELSE IF type # NoSym /\ sym[type].kind = "Type"
        THEN IF sym[type].decl = "null" THEN "FAULT" ELSE "DYNAMIC_ARR_IDENT"
        ELSE "IDENT"

-----------------------------------------------------------------------------
(* The stack of productions.                                               *)

Depth == Len(ctx)
Top == ctx[Len(ctx)]
Below == SubSeq(ctx, 1, Len(ctx) - 1)

SetTop(f) == [ctx EXCEPT ![Len(ctx)] = f]

NewFrame(rule, pos, name, inner) ==
    [rule |-> rule, pos |-> pos, name |-> name, outer |-> cur,
     inner |-> inner, full |-> FALSE, sized |-> TRUE]

Push(stack, f) == Len(stack) < MaxDepth /\ ctx' = Append(stack, f)

\* `full` of the innermost production of a stack, after one more item in it.
Filled(stack) == [stack EXCEPT ![Len(stack)].full = TRUE]

\* The statement list of a block, or one of the two statements of a for header.
InStatements ==
    \/ Top.rule \in Block /\ Top.pos = "items"
    \/ Top.pos \in {"init", "update"} /\ ~Top.full

CanDeclare == \/ Top.rule \in StructRule \cup {"program"}
              \/ Top.pos = "params"
              \/ InStatements

CanInitialize == Top.rule = "program" \/ InStatements
CanDeclareType == Top.rule = "program" \/ InStatements
CanNestStatement == Top.rule \in Block /\ Top.pos = "items"

CanMention == CanInitialize \/ Top.pos \in {"init", "cond", "update"}

\* The table in which the typechecker looks up what is parsed here: a for
\* condition is checked in the table around the loop, and the type of a struct
\* member in the table of whoever uses the struct.
CheckedIn == IF Top.rule \in StructRule \/ (Top.rule = "for" /\ Top.pos = "cond")
             THEN Top.outer ELSE cur

\* The depth under which an occurrence in an if condition or a for
\* initializer is filed until the table it is checked in is known.
HeaderDepth ==
    IF \/ Top.rule = "if" /\ Top.pos = "cond"
       \/ Top.pos = "init"
    THEN Depth ELSE 0

Settle(S, depth, s) ==
    {IF u.hdr = depth THEN [u EXCEPT !.check = s, !.hdr = 0] ELSE u : u \in S}

Unfile(S, depth) ==
    {IF u.hdr = depth THEN [u EXCEPT !.hdr = 0] ELSE u : u \in S}

-----------------------------------------------------------------------------
(* Initially: default_symtable(), a clone of the table BUILTIN_DECLS was   *)
(* parsed into.  Symbol::clone drops `initialized`.                        *)

Init ==
    /\ status = "parsing"
    /\ ctx = << [rule |-> "program", pos |-> "items", name |-> NoName,
                 outer |-> Root, inner |-> NoScope,
                 full |-> FALSE, sized |-> TRUE] >>
    /\ cur = Root
    /\ table = [s \in Scope |-> [n \in Names |->
                  IF s = Root /\ n \in Builtins
                  THEN BuiltinSym[n] ELSE NoSym]]
    /\ chain = [s \in Scope |-> IF s = Root THEN {Root} ELSE {}]
    /\ node = [s \in Scope |-> "none"]
    /\ nextScope = Root + 1
    /\ sym = [k \in Sym |->
                IF \E f \in BuiltinFuncs : BuiltinSym[f] = k
                THEN NewSymbol("Func", "func") ELSE NewSymbol("Type", "null")]
    /\ nextSym = Cardinality(Builtins) + 1
    /\ uses = {}
    /\ jumps = {}

-----------------------------------------------------------------------------
(* Declarations.                                                           *)

\* Mutant of VarDecl: the grammar also takes a name already declared.
VarDeclOfAnyName(n, sized) ==
    /\ CanDeclare
    /\ Top.rule \notin StructRule => sized
    /\ Put(cur, n, NewSymbol("Var", "var"))
    /\ ctx' = SetTop([Top EXCEPT !.full = TRUE, !.sized = @ /\ sized])
    /\ UNCHANGED <<status, cur, chain, node, nextScope, uses, jumps>>

\* var_decl: parameters, struct members, statements and globals.
VarDecl(n, sized) ==
    /\ CanDeclare
    /\ Top.rule \notin StructRule => sized
    /\ TokenAt(cur, n) = "IDENT"
    /\ Put(cur, n, NewSymbol("Var", "var"))
    /\ ctx' = SetTop([Top EXCEPT !.full = TRUE, !.sized = @ /\ sized])
    /\ UNCHANGED <<status, cur, chain, node, nextScope, uses, jumps>>

\* var_decl_init: the initializer was parsed after the name was put.
VarDeclInit(n) ==
    /\ CanInitialize
    /\ TokenAt(cur, n) = "IDENT"
    /\ Put(cur, n, [NewSymbol("Var", "var") EXCEPT !.initialized = TRUE])
    /\ ctx' = Filled(ctx)
    /\ UNCHANGED <<status, cur, chain, node, nextScope, uses, jumps>>

\* type_alias of a type that has no table of its own.
TypeAlias(n) ==
    /\ CanDeclareType
    /\ TokenAt(cur, n) = "IDENT"
    /\ Put(cur, n, NewSymbol("Type", "alias"))
    /\ ctx' = Filled(ctx)
    /\ UNCHANGED <<status, cur, chain, node, nextScope, uses, jumps>>

\* A tuple type with a member of primitive type: its constructor asks for the
\* member's size, and TypeIdent::type_size of a primitive type calls itself.
IllFormedType ==
    /\ CanDeclare
    /\ status' = "stuck"
    /\ UNCHANGED <<ctx, cur, table, chain, node, nextScope, sym, nextSym,
                   uses, jumps>>

\* Mutant of OpenStruct: the name is put after create_scope.
OpenStructInside(rule, n) ==
    /\ IF rule = "anonymous"
       THEN CanDeclare /\ n = NoName
       ELSE CanDeclareType /\ n \in Names /\ TokenAt(cur, n) = "IDENT"
    /\ CreateScope
    /\ IF rule = "struct"
       THEN Put(cur', n, NewSymbol("Type", "null"))
       ELSE UNCHANGED <<table, sym, nextSym>>
    /\ Push(ctx, NewFrame(rule, "items", n, nextScope))
    /\ UNCHANGED <<status, node, uses, jumps>>

\* STRUCT_KW IDENT { put }, TYPE_ALIAS_KW IDENT '=' or a type_name, then
\* STRUCT_KW and the create_scope of struct_type_name.
OpenStruct(rule, n) ==
    /\ IF rule = "anonymous"
       THEN CanDeclare /\ n = NoName
       ELSE CanDeclareType /\ n \in Names /\ TokenAt(cur, n) = "IDENT"
    /\ IF rule = "struct"
       THEN Put(cur, n, NewSymbol("Type", "null"))
       ELSE UNCHANGED <<table, sym, nextSym>>
    /\ CreateScope
    /\ Push(ctx, NewFrame(rule, "items", n, nextScope))
    /\ UNCHANGED <<status, node, uses, jumps>>

\* What is declared once the struct type has been parsed and its table popped:
\* a type under the name scanned at the beginning, or a variable m.
DeclareStruct(m) ==
    LET s == Enclosing(cur)
    IN  CASE Top.rule = "struct" ->
               /\ sym' = [sym EXCEPT ![Get(s, Top.name)].decl = "struct"]
               /\ UNCHANGED <<table, nextSym>>
          [] Top.rule = "alias" ->
               Put(s, Top.name, NewSymbol("Type", "alias"))
          [] Top.rule = "anonymous" ->
               /\ TokenAt(s, m) = "IDENT"
               /\ Put(s, m, NewSymbol("Var", "var"))

\* '}' of struct_type_name and what follows it.  The StructTypename
\* constructor adds up the sizes of the members.
CloseStruct(m) ==
    /\ Top.rule \in StructRule
    /\ Top.full
    /\ IF Top.sized
       THEN /\ PopScope("struct")
            /\ DeclareStruct(m)
            /\ ctx' = Filled(Below)
            /\ UNCHANGED <<status, chain, nextScope, uses, jumps>>
       ELSE /\ status' = "stuck"
            /\ UNCHANGED <<ctx, cur, table, chain, node, nextScope, sym,
                           nextSym, uses, jumps>>

-----------------------------------------------------------------------------
(* Functions.                                                              *)

\* type_name IDENT '(' { put, create_scope }
OpenFunc(n) ==
    /\ Top.rule = "program"
    /\ TokenAt(cur, n) = "IDENT"
    /\ Put(cur, n, NewSymbol("Func", "null"))
    /\ CreateScope
    /\ Push(ctx, NewFrame("func", "params", n, nextScope))
    /\ UNCHANGED <<status, node, uses, jumps>>

\* type_name DECLARED_VAR '(' { exit if initialized, create_scope }
OpenForwardFunc(n) ==
    /\ Top.rule = "program"
    /\ TokenAt(cur, n) = "DECLARED_VAR"
    /\ IF sym[Get(cur, n)].initialized
       THEN /\ status' = "exit"
            /\ UNCHANGED <<ctx, cur, chain, nextScope>>
       ELSE /\ CreateScope
            /\ Push(ctx, NewFrame("func", "params", n, nextScope))
            /\ UNCHANGED status
    /\ UNCHANGED <<table, node, sym, nextSym, uses, jumps>>

\* params_list ')' '{' { mark every parameter initialized }
BeginBody ==
    /\ Top.pos = "params"
    /\ sym' = [k \in Sym |->
                 IF \E n \in Names : table[cur][n] = k
                 THEN [sym[k] EXCEPT !.initialized = TRUE] ELSE sym[k]]
    /\ ctx' = SetTop([Top EXCEPT !.pos = "items", !.full = FALSE])
    /\ UNCHANGED <<status, cur, table, chain, node, nextScope, nextSym, uses,
                   jumps>>

-----------------------------------------------------------------------------
(* Nested statements.                                                      *)

\* IF_KW '(' , WHILE_KW '(' and FOR_KW '('
OpenStatement(rule) ==
    /\ CanNestStatement
    /\ Push(ctx, NewFrame(rule, IF rule = "for" THEN "init" ELSE "cond", NoName,
                          NoScope))
    /\ UNCHANGED <<status, cur, table, chain, node, nextScope, sym, nextSym,
                   uses, jumps>>

\* expr ')' '{' { create_scope } of an if or a while.
EnterBlock ==
    /\ Top.rule \in {"if", "while"}
    /\ Top.pos = "cond"
    /\ CreateScope
    /\ ctx' = SetTop([Top EXCEPT !.pos = "items", !.inner = nextScope])
    /\ UNCHANGED <<status, table, node, sym, nextSym, uses, jumps>>

\* statement ';' { create_scope } of a for.  The typechecker looks up the
\* initializer, parsed before the table existed, in the new table.
ForCond ==
    /\ Top.pos = "init"
    /\ Top.full
    /\ CreateScope
    /\ ctx' = SetTop([Top EXCEPT !.pos = "cond", !.inner = nextScope,
                                 !.full = FALSE])
    /\ uses' = Settle(uses, Depth, nextScope)
    /\ jumps' = Settle(jumps, Depth, nextScope)
    /\ UNCHANGED <<status, table, node, sym, nextSym>>

\* expr ';' of a for.
ForUpdate ==
    /\ Top.rule = "for"
    /\ Top.pos = "cond"
    /\ ctx' = SetTop([Top EXCEPT !.pos = "update"])
    /\ UNCHANGED <<status, cur, table, chain, node, nextScope, sym, nextSym,
                   uses, jumps>>

\* statement ')' '{' of a for.
ForBody ==
    /\ Top.pos = "update"
    /\ Top.full
    /\ ctx' = SetTop([Top EXCEPT !.pos = "items", !.full = FALSE])
    /\ UNCHANGED <<status, cur, table, chain, node, nextScope, sym, nextSym,
                   uses, jumps>>

\* Mutant of CloseBlock: a forward declared function stays a variable.
CloseBlockSameKind ==
    /\ Top.rule \in Block
    /\ Top.pos = "items"
    /\ Top.full
    /\ PopScope(IF Top.rule = "else" THEN "ifelse" ELSE Top.rule)
    /\ ctx' = IF Top.rule = "if"
              THEN SetTop([Top EXCEPT !.pos = "after", !.inner = NoScope])
              ELSE Filled(Below)
    /\ sym' = IF Top.rule = "func"
              THEN [sym EXCEPT ![Get(Enclosing(cur), Top.name)].decl = "func",
                               ![Get(Enclosing(cur), Top.name)].initialized = TRUE]
              ELSE sym
    /\ UNCHANGED <<status, table, chain, nextScope, nextSym, uses, jumps>>

\* '}' of a block: pop_scope, set_node and, for a function, its symbol.
CloseBlock ==
    /\ Top.rule \in Block
    /\ Top.pos = "items"
    /\ Top.full
    /\ PopScope(IF Top.rule = "else" THEN "ifelse" ELSE Top.rule)
    /\ ctx' = IF Top.rule = "if"
              THEN SetTop([Top EXCEPT !.pos = "after", !.inner = NoScope])
              ELSE Filled(Below)
    /\ sym' = IF Top.rule = "func"
              THEN [sym EXCEPT ![Get(Enclosing(cur), Top.name)] =
                      [kind |-> "Func", decl |-> "func", initialized |-> TRUE]]
              ELSE sym
    /\ UNCHANGED <<status, table, chain, nextScope, nextSym, uses, jumps>>

\* ELSE_KW '{' { create_scope }.  IfElseStmt::typecheck passes the table of
\* the else block to the if statement, which looks its condition up there.
Else ==
    /\ Top.pos = "after"
    /\ CreateScope
    /\ ctx' = SetTop([Top EXCEPT !.rule = "else", !.pos = "items",
                                 !.inner = nextScope, !.full = FALSE])
    /\ uses' = Settle(uses, Depth, nextScope)
    /\ UNCHANGED <<status, table, node, sym, nextSym, jumps>>

\* An if statement without else: the next token ends the statement.
EndIf ==
    /\ Top.pos = "after"
    /\ ctx' = Filled(Below)
    /\ uses' = Unfile(uses, Depth)
    /\ UNCHANGED <<status, cur, table, chain, node, nextScope, sym, nextSym,
                   jumps>>

-----------------------------------------------------------------------------
(* Identifiers in expressions and types, and statements without a block.   *)

Mention(n) ==
    /\ Cardinality(uses) + Cardinality(jumps) < MaxMentions
    /\ uses' = uses \cup {[name |-> n, sym |-> Get(cur, n),
                           tok |-> TokenAt(cur, n), check |-> CheckedIn,
                           hdr |-> HeaderDepth]}

\* Mutant of UseIdent: an undeclared name is taken for a variable.
UseUndeclared(n) ==
    /\ \/ TokenAt(cur, n) \in {"IDENT", "DECLARED_VAR", "DECLARED_FUNC"} /\ CanMention
       \/ TokenAt(cur, n) = "DECLARED_TYPE" /\ (CanDeclare \/ CanMention)
    /\ Mention(n)
    /\ UNCHANGED <<status, ctx, cur, table, chain, node, nextScope, sym,
                   nextSym, jumps>>

\* calling_expr : DECLARED_VAR | DECLARED_FUNC, and simple_type_name.
UseIdent(n) ==
    /\ \/ TokenAt(cur, n) \in {"DECLARED_VAR", "DECLARED_FUNC"} /\ CanMention
       \/ TokenAt(cur, n) = "DECLARED_TYPE" /\ (CanDeclare \/ CanMention)
    /\ Mention(n)
    /\ UNCHANGED <<status, ctx, cur, table, chain, node, nextScope, sym,
                   nextSym, jumps>>

\* assignment to an identifier; a function's name is accepted as well.
Assign(n) ==
    /\ InStatements
    /\ TokenAt(cur, n) \in {"DECLARED_VAR", "DECLARED_FUNC"}
    /\ Mention(n)
    /\ sym' = [sym EXCEPT ![Get(cur, n)].initialized = TRUE]
    /\ ctx' = Filled(ctx)
    /\ UNCHANGED <<status, cur, table, chain, node, nextScope, nextSym, jumps>>

EnclosingFunc ==
    LET funcs == {i \in 1..Depth : ctx[i].rule = "func"}
    IN  ctx[Innermost(funcs)].inner

\* return_statement, RETURN_KW, CONTINUE_KW and BREAK_KW.
JumpStmt(kind) ==
    /\ InStatements
    /\ Cardinality(uses) + Cardinality(jumps) < MaxMentions
    /\ jumps' = jumps \cup {[kind |-> kind, check |-> cur, hdr |-> HeaderDepth,
                             func |-> EnclosingFunc,
                             inLoop |-> \E i \in 1..Depth :
                                           ctx[i].rule \in {"while", "for"}]}
    /\ ctx' = Filled(ctx)
    /\ UNCHANGED <<status, cur, table, chain, node, nextScope, sym, nextSym,
                   uses>>

-----------------------------------------------------------------------------
(* The ways parsing ends.                                                  *)

\* A name to be declared that the scanner did not return as IDENT: no rule
\* of the grammar goes on, and yyerror exits.  (The one token that does, the
\* DECLARED_VAR of a forward declared function, is OpenForwardFunc.)
SyntaxError(n) ==
    /\ CanDeclare
    /\ TokenAt(cur, n) \notin {"IDENT", "FAULT"}
    /\ status' = "syntax error"
    /\ UNCHANGED <<ctx, cur, table, chain, node, nextScope, sym, nextSym,
                   uses, jumps>>

\* The scanner reads the kind of a null declaration.
ScanFault(n) ==
    /\ TokenAt(cur, n) = "FAULT"
    /\ status' = "fault"
    /\ UNCHANGED <<ctx, cur, table, chain, node, nextScope, sym, nextSym,
                   uses, jumps>>

\* top_level : program END
Accept ==
    /\ Top.rule = "program"
    /\ status' = "accepted"
    /\ UNCHANGED <<ctx, cur, table, chain, node, nextScope, sym, nextSym,
                   uses, jumps>>

Declaration ==
    \/ \E n \in Names : \E sized \in BOOLEAN : VarDecl(n, sized)
    \/ \E n \in Names : VarDeclInit(n)
    \/ \E n \in Names : TypeAlias(n)
    \/ \E n \in Names : OpenFunc(n)
    \/ \E n \in Names : OpenForwardFunc(n)
    \/ \E rule \in StructRule, n \in Names \cup {NoName} : OpenStruct(rule, n)
    \/ \E n \in Names : CloseStruct(n)
    \/ BeginBody

Statement ==
    \/ \E rule \in {"if", "while", "for"} : OpenStatement(rule)
    \/ EnterBlock
    \/ ForCond
    \/ ForUpdate
    \/ ForBody
    \/ CloseBlock
    \/ Else
    \/ EndIf
    \/ \E n \in Names : Assign(n)
    \/ \E kind \in {"return", "break", "continue"} : JumpStmt(kind)

End ==
    \/ IllFormedType
    \/ \E n \in Names : SyntaxError(n)
    \/ \E n \in Names : ScanFault(n)
    \/ Accept

Next ==
    /\ status = "parsing"
    /\ \/ Declaration
       \/ Statement
       \/ \E n \in Names : UseIdent(n)
       \/ End

Spec == Init /\ [][Next]_vars

-----------------------------------------------------------------------------
(* Properties.                                                             *)

\* Every variable stays within its type.
TypeOK ==
    /\ status \in Status
    /\ ctx \in Seq(Frame) /\ ctx # << >>
    /\ cur \in Scope
    /\ table \in [Scope -> [Names -> Sym \cup {NoSym}]]
    /\ chain \in [Scope -> SUBSET Scope]
    /\ node \in [Scope -> Rule \cup {"none", "ifelse"}]
    /\ nextScope \in 2..(MaxScopes + 1)
    /\ sym \in [Sym -> Symbol]
    /\ nextSym \in 1..(MaxSyms + 1)
    /\ uses \subseteq Use
    /\ jumps \subseteq Jump

\* The typechecker finds what the scanner found.  An identifier is looked up
\* twice, while parsing to choose its token and while typechecking in a table
\* that is sometimes another one and that has grown in between; both lookups
\* give the same symbol, and a name parsed as a type is still one, a name
\* parsed as a value still a value.  (Ident::type_of and unaliased take the
\* second lookup on trust.)
SameAnswer(u) ==
    /\ Get(u.check, u.name) = u.sym
    /\ (u.tok = "DECLARED_TYPE") <=> (sym[u.sym].kind = "Type")

ResolutionStable == \A u \in uses : SameAnswer(u)

\* No declaration replaces a symbol of its table (SymbolTable::put would, and
\* leak it) or hides one of an enclosing table, and none is ever withdrawn.
PutNeverShadows ==
    [][\A s \in Scope, n \in Names :
          table'[s][n] # table[s][n] => Get(s, n) = NoSym]_vars

\* What a production looks up again after its body by the name in its header:
\* the body of a function or a struct declares nothing that would make that
\* lookup find another symbol, and the name of a type alias, found undeclared
\* before its type was parsed, is still undeclared when it is put.
HeaderNamesHold ==
    \A i \in 1..Depth :
        /\ ctx[i].rule \in {"func", "struct"} =>
              /\ table[ctx[i].outer][ctx[i].name] # NoSym
              /\ Get(cur, ctx[i].name) = table[ctx[i].outer][ctx[i].name]
        /\ ctx[i].rule = "alias" => Get(ctx[i].outer, ctx[i].name) = NoSym

\* At the end of the parse the walk of ReturnStatement::typecheck from the
\* table of a statement along `enclosing` finds the function the statement was
\* written in, and the walk of BreakStmt and ContinueStmt finds a loop exactly
\* if the statement was written in one.  Each walk stops at the first table
\* without a node.
JumpsResolve ==
    status = "accepted" =>
        \A j \in jumps :
            LET stops(kinds) == {t \in chain[j.check] :
                                   node[t] \in kinds \cup {"none"}}
            IN  /\ Innermost(stops({"func"})) = j.func
                /\ node[Innermost(stops({"while", "for"}))] # "none" <=> j.inLoop

\* An accepted program leaves the parser in the table it started from, and
\* every table that was created is owned by a node (default_symtable clones
\* the current table as the table of all later parses).
AcceptAtRoot ==
    status = "accepted" =>
        /\ cur = Root
        /\ \A s \in Scope : node[s] = "none" <=> s = Root \/ s >= nextScope

\* After a parse the member of the Decl union that was written last is the one
\* the symbol's kind says, and only the primitive types have none (the
\* warning for uninitialized symbols reads the declaration's location, and
\* Ident::type_of and unaliased choose the member by the kind).
DeclsComplete ==
    status = "accepted" =>
        \A k \in 1..(nextSym - 1) :
            CASE sym[k].kind = "Var"  -> sym[k].decl = "var"
              [] sym[k].kind = "Func" -> sym[k].decl = "func"
              [] sym[k].kind = "Type" ->
                   \/ sym[k].decl \in {"alias", "struct"}
                   \/ sym[k].decl = "null" /\ \E p \in PrimTypes : BuiltinSym[p] = k

-----------------------------------------------------------------------------
(* The inductive invariant behind ResolutionStable, HeaderNamesHold and    *)
(* PutNeverShadows.                                                        *)

Allocated == 1..(nextScope - 1)

\* The table that is current while f is the innermost production.
Active(f) == IF f.inner = NoScope THEN f.outer ELSE f.inner

\* Walks go downwards, and the walk from a table met on a walk is its tail.
ChainInv ==
    /\ cur \in Allocated
    /\ \A s \in Allocated : s \in chain[s] /\ chain[s] \subseteq 1..s
    /\ \A s \in Allocated : \A t \in chain[s] : chain[t] = chain[s] \cap 1..t
    /\ \A s \in Scope \ Allocated : \A n \in Names : table[s][n] = NoSym
    /\ \A s \in Scope, n \in Names : table[s][n] < nextSym

\* Which frames have a table, by rule and position.
FrameShape(f) ==
    /\ f.rule = "program" => f.inner = NoScope /\ f.pos = "items" /\ f.outer = Root
    /\ f.rule \in StructRule => f.inner # NoScope /\ f.pos = "items"
    /\ f.rule \in {"func", "struct", "alias"} => f.name \in Names
    /\ f.rule = "func" => f.pos \in {"params", "items"} /\ f.outer = Root
    /\ f.rule = "else" => f.pos = "items"
    /\ f.rule = "while" => f.pos \in {"cond", "items"}
    /\ f.rule = "if" => f.pos \in {"cond", "items", "after"}
    /\ f.rule = "for" => f.pos \in {"init", "cond", "update", "items"}
    /\ f.rule \in Block =>
          (f.inner = NoScope <=>
             f.pos \in {"init", "after"} \/ (f.pos = "cond" /\ f.rule # "for"))

\* The tables of the open productions are nested like the productions.
StackInv ==
    /\ \A i \in 1..Depth :
          /\ FrameShape(ctx[i])
          /\ ctx[i].rule = "program" <=> i = 1
          /\ ctx[i].rule = "func" => i = 2
          /\ ctx[i].rule \in {"if", "else", "while", "for"} =>
                i > 2 /\ ctx[2].rule = "func"
          /\ i < Depth => ctx[i].pos \notin {"cond", "after"}
          /\ ctx[i].outer \in chain[cur]
          /\ ctx[i].inner # NoScope =>
                /\ ctx[i].outer < ctx[i].inner
                /\ ctx[i].inner \in Allocated
                /\ chain[ctx[i].inner] = chain[ctx[i].outer] \cup {ctx[i].inner}
    /\ \A i, j \in 1..Depth : i < j =>
          /\ Active(ctx[i]) <= ctx[j].outer
          /\ ctx[i].rule \in StructRule => ctx[j].rule = "anonymous"
    /\ \A i \in 1..(Depth - 1) : ctx[i + 1].outer = Active(ctx[i])
    /\ cur = Active(Top)

\* What an open production may rely on about names.
FrameNames(f) ==
    /\ f.rule \in {"func", "struct"} =>
          /\ table[f.outer][f.name] # NoSym
          /\ \A t \in chain[cur] : f.outer < t => table[t][f.name] = NoSym
    /\ f.rule = "func" => sym[table[f.outer][f.name]].kind # "Type"
    /\ f.rule = "alias" => \A t \in chain[f.outer] : table[t][f.name] = NoSym
    /\ f.rule = "for" /\ f.pos = "cond" =>
          \A n \in Names : table[f.inner][n] = NoSym
    /\ f.rule \in StructRule =>
          \A n \in Names : table[f.inner][n] # NoSym =>
                             sym[table[f.inner][n]].kind # "Type"

NamesInv == \A i \in 1..Depth : FrameNames(ctx[i])

\* An occurrence not settled yet is checked where its header was parsed.
UseFiled(u) ==
    /\ u.check \in Allocated
    /\ u.sym < nextSym
    /\ u.hdr # 0 => /\ u.hdr \in 1..Depth
                    /\ u.check = ctx[u.hdr].outer
                    /\ ctx[u.hdr].rule = "if" \/ ctx[u.hdr].pos = "init"

UsesInv == ResolutionStable /\ \A u \in uses : UseFiled(u)

IInv == TypeOK /\ ChainInv /\ StackInv /\ NamesInv /\ UsesInv

-----------------------------------------------------------------------------
\* The scanner never reads through the null declaration of a primitive type or
\* of a struct whose body is being parsed.
ScannerNeverFaults == status # "fault"

=============================================================================
