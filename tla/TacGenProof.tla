---------------------------- MODULE TacGenProof ----------------------------
(***************************************************************************)
(* Proofs about TacGen, for programs of any size: names are found where    *)
(* they are declared, the code is what the register allocator takes for    *)
(* granted, jumps land, and types are kept.                                *)
(*                                                                         *)
(* Order: names and instructions; the blocks (BlocksOK); what a step does  *)
(* to the blocks and to the code; the four parts of the invariant; the     *)
(* theorems.                                                               *)
(***************************************************************************)
EXTENDS TacGen, SequenceTheorems, TLAPS

-----------------------------------------------------------------------------
(* Names and instructions.                                                 *)

Source == Ids \cup Funcs
Names == {"t", "l", "p", "none"} \X Nat \X (Source \cup {"none"})

Ops == {"value", "compute", "assign", "delete", "cmp", "jne", "label", "push", "call", "retval", "return",
        "setup", "leave", "function"}

InstrT == [op : Ops, def : Names, uses : SUBSET Names, label : Names]

ValT == [n : Names, role : {"value", "calling", "callee", "target"}]

BlockKinds == {"prog", "func", "if", "while", "for"}
Phases == {"list", "init", "cond", "update"}
Lasts == {"none", "other", "return"}

BlockT == [k : BlockKinds, phase : Phases, exit : Names, again : Names, table : Nat,
           names : SUBSET Source, seen : SUBSET Source, locals : Seq(Names), last : Lasts]

\* Generated names are of four kinds, and differ if their numbers do.
LEMMA NameFacts ==
  /\ NoName \in Names /\ ~IsVar(NoName)
  /\ \A n \in Nat : /\ Temp(n) \in Names /\ LabelName(n) \in Names
                    /\ Temp(n) # NoName /\ LabelName(n) # NoName
                    /\ Temp(n)[1] = "t" /\ ~IsVar(Temp(n)) /\ ~IsVar(LabelName(n))
  /\ \A m, n \in Nat : /\ (Temp(m) = Temp(n) => m = n)
                       /\ (LabelName(m) = LabelName(n) => m = n)
                       /\ Temp(m) # LabelName(n)
  /\ \A t \in Nat, x \in Source :
       /\ VarName(t, x) \in Names /\ VarName(t, x)[1] = "p" /\ IsVar(VarName(t, x))
       /\ VarName(t, x) # NoName
       /\ \A n \in Nat : VarName(t, x) # LabelName(n) /\ VarName(t, x) # Temp(n)
       /\ \A u \in Nat, y \in Source : VarName(t, x) = VarName(u, y) => t = u /\ x = y
BY DEF Names, Temp, LabelName, VarName, NoName, IsVar

\* Every instruction that is generated is one, and has these parts.
LEMMA InstrFacts ==
  ASSUME NEW a \in Names, NEW b \in Names, NEW c \in Names
  PROVE  /\ Value(a) \in InstrT /\ Compute(a, b, c) \in InstrT /\ AssignTAC(a, b) \in InstrT
         /\ DeleteTAC(a) \in InstrT /\ CmpLiteralTAC(a) \in InstrT /\ JneTAC(a) \in InstrT
         /\ LabelTAC(a) \in InstrT /\ PushTAC(a) \in InstrT /\ CallTAC(a) \in InstrT
         /\ RetvalTAC(a) \in InstrT /\ ReturnTAC(a) \in InstrT /\ SetupStackTAC \in InstrT
         /\ VoidReturnTAC \in InstrT /\ FuncLabel(a) \in InstrT
<1>1. {} \in SUBSET Names /\ {a} \in SUBSET Names /\ {b} \in SUBSET Names /\ {b, c} \in SUBSET Names
  OBVIOUS
<1>2. NoName \in Names
  BY NameFacts
<1>0. \A op \in Ops, d, l \in Names, u \in SUBSET Names : Instr(op, d, u, l) \in InstrT
  BY DEF Instr, InstrT
<1> USE <1>0, <1>1, <1>2 DEF Ops
<1>3. Value(a) \in InstrT /\ Compute(a, b, c) \in InstrT /\ AssignTAC(a, b) \in InstrT
  BY DEF Value, Compute, AssignTAC
<1>4. DeleteTAC(a) \in InstrT /\ CmpLiteralTAC(a) \in InstrT /\ JneTAC(a) \in InstrT
  BY DEF DeleteTAC, CmpLiteralTAC, JneTAC
<1>5. LabelTAC(a) \in InstrT /\ PushTAC(a) \in InstrT /\ CallTAC(a) \in InstrT
  BY DEF LabelTAC, PushTAC, CallTAC
<1>6. RetvalTAC(a) \in InstrT /\ ReturnTAC(a) \in InstrT /\ SetupStackTAC \in InstrT
  BY DEF RetvalTAC, ReturnTAC, SetupStackTAC
<1>7. VoidReturnTAC \in InstrT /\ FuncLabel(a) \in InstrT
  BY DEF VoidReturnTAC, FuncLabel
<1> QED BY <1>3, <1>4, <1>5, <1>6, <1>7

-----------------------------------------------------------------------------
(* The blocks.                                                             *)

\* Locals are the declared names of a block's own table, each once.
LocalsOK(b) ==
  /\ \A m \in 1..Len(b.locals) : \E x \in b.seen : b.locals[m] = VarName(b.table, x)
  /\ \A m, n \in 1..Len(b.locals) : b.locals[m] = b.locals[n] => m = n

\* Only the innermost block of B is in the header of a for; tables are
\* numbered outside in, and no block has a name that one around it has seen.
BlocksOK(B, p) ==
  /\ B \in Seq(BlockT) /\ Len(B) >= 1
  /\ B[1].k = "prog" /\ B[1].exit = NoName /\ B[1].table = 0
  /\ \A i \in 1..Len(B) :
       /\ B[i].seen \subseteq B[i].names
       /\ B[i].table < p
       /\ B[i].phase # "update" => LocalsOK(B[i])
       /\ i < Len(B) => B[i].phase = "list"
       /\ i > 1 => /\ B[i].k \in {"if", "while", "for", "func"}
                   /\ B[i].names \subseteq Ids
       /\ B[i].k \in {"prog", "func", "if", "while"} => B[i].phase = "list"
       /\ B[i].k = "func" => B[i].exit = NoName
  /\ \A i, j \in 1..Len(B) : i < j =>
       /\ B[i].table < B[j].table
       /\ B[i].seen \cap B[j].names = {}

TypeOK ==
  /\ instrs \in Seq(InstrT)
  /\ vals \in Seq(ValT)
  /\ nt \in Nat /\ nl \in Nat /\ np \in Nat
  /\ types \subseteq Names

\* What a block keeps for as long as it lasts.
Same(b, c) ==
  /\ c.k = b.k /\ c.exit = b.exit /\ c.again = b.again /\ c.table = b.table /\ c.names = b.names

\* B with its innermost block changed to b.
LEMMA ChangeTop ==
  ASSUME NEW B \in Seq(BlockT), Len(B) >= 1, NEW b \in BlockT
  PROVE  LET C == [B EXCEPT ![Len(B)] = b] IN
         /\ C \in Seq(BlockT) /\ Len(C) = Len(B)
         /\ C[Len(B)] = b
         /\ \A i \in 1..Len(B) : i < Len(B) => C[i] = B[i]
<1> DEFINE C == [B EXCEPT ![Len(B)] = b]
<1>1. Len(B) \in 1..Len(B)
  OBVIOUS
<1>2. C \in Seq(BlockT) /\ Len(C) = Len(B) /\ \A i \in 1..Len(B) : C[i] = IF i = Len(B) THEN b ELSE B[i]
  BY <1>1, ExceptSeq
<1> HIDE DEF C
<1>3. C[Len(B)] = b /\ \A i \in 1..Len(B) : i < Len(B) => C[i] = B[i]
  BY <1>1, <1>2
<1> QED BY <1>2, <1>3 DEF C

\* Blocks that are the same in what BlocksOK says are as good.
LEMMA BlocksLike ==
  ASSUME NEW B, NEW p, BlocksOK(B, p), NEW C \in Seq(BlockT), Len(C) = Len(B),
         \A i \in 1..Len(B) : /\ Same(B[i], C[i]) /\ C[i].phase = B[i].phase
                              /\ C[i].seen = B[i].seen /\ C[i].locals = B[i].locals
  PROVE  BlocksOK(C, p)
<1>1. Len(B) \in Nat /\ Len(B) >= 1 /\ 1 \in 1..Len(B)
  BY DEF BlocksOK
<1>2. \A i \in 1..Len(B) : /\ C[i].k = B[i].k /\ C[i].exit = B[i].exit /\ C[i].table = B[i].table
                           /\ C[i].names = B[i].names
                           /\ LocalsOK(B[i]) => LocalsOK(C[i])
  BY DEF Same, LocalsOK
<1> QED BY <1>1, <1>2 DEF BlocksOK

\* Noting on the top block what was last done there leaves the stack of blocks in order.
LEMMA PastFacts ==
  ASSUME NEW B, NEW p, BlocksOK(B, p), NEW k \in Lasts
  PROVE  /\ BlocksOK(Past(B, k), p) /\ Len(Past(B, k)) = Len(B)
         /\ \A i \in 1..Len(B) : Same(B[i], Past(B, k)[i]) /\ Past(B, k)[i].phase = B[i].phase
<1> DEFINE b == [B[Len(B)] EXCEPT !.last = k]
           C == Past(B, k)
<1>1. B \in Seq(BlockT) /\ Len(B) >= 1 /\ Len(B) \in 1..Len(B) /\ B[Len(B)] \in BlockT
  BY DEF BlocksOK
<1>2. b \in BlockT
  BY <1>1 DEF BlockT
<1>3. /\ Same(B[Len(B)], b) /\ b.phase = B[Len(B)].phase /\ b.seen = B[Len(B)].seen
      /\ b.locals = B[Len(B)].locals
  BY <1>1 DEF BlockT, Same
<1>4. C = [B EXCEPT ![Len(B)] = b]
  BY DEF Past
<1> HIDE DEF b, C
<1>5. /\ C \in Seq(BlockT) /\ Len(C) = Len(B) /\ C[Len(B)] = b
      /\ \A i \in 1..Len(B) : i < Len(B) => C[i] = B[i]
  BY <1>1, <1>2, <1>4, ChangeTop
<1>6. \A i \in 1..Len(B) : /\ Same(B[i], C[i]) /\ C[i].phase = B[i].phase /\ C[i].seen = B[i].seen
                           /\ C[i].locals = B[i].locals
  BY <1>1, <1>3, <1>5 DEF Same
<1>7. BlocksOK(C, p)
  BY <1>1, <1>5, <1>6, BlocksLike
<1> QED BY <1>5, <1>6, <1>7 DEF C

\* The innermost block goes from the header of a for to its list and back.
LEMMA PhaseFacts ==
  ASSUME NEW B, NEW p, BlocksOK(B, p), NEW ph \in Phases, B[Len(B)].k = "for",
         B[Len(B)].phase # "update" \/ ph = "update"
  PROVE  LET C == [B EXCEPT ![Len(B)].phase = ph] IN
         /\ BlocksOK(C, p) /\ Len(C) = Len(B)
         /\ \A i \in 1..Len(B) :
              /\ Same(B[i], C[i])
              /\ C[i].phase = IF i = Len(B) THEN ph ELSE B[i].phase
              /\ C[i].seen = B[i].seen /\ C[i].locals = B[i].locals
<1> DEFINE b == [B[Len(B)] EXCEPT !.phase = ph]
           C == [B EXCEPT ![Len(B)].phase = ph]
<1>1. B \in Seq(BlockT) /\ Len(B) >= 1 /\ Len(B) \in 1..Len(B) /\ B[Len(B)] \in BlockT
  BY DEF BlocksOK
<1>2. b \in BlockT
  BY <1>1 DEF BlockT
<1>3. /\ Same(B[Len(B)], b) /\ b.phase = ph /\ b.seen = B[Len(B)].seen
      /\ b.locals = B[Len(B)].locals
  BY <1>1 DEF BlockT, Same
<1>4. C = [B EXCEPT ![Len(B)] = b]
  OBVIOUS
<1> HIDE DEF b, C
<1>5. /\ C \in Seq(BlockT) /\ Len(C) = Len(B) /\ C[Len(B)] = b
      /\ \A i \in 1..Len(B) : i < Len(B) => C[i] = B[i]
  BY <1>1, <1>2, <1>4, ChangeTop
<1>6. \A i \in 1..Len(B) : /\ Same(B[i], C[i])
                           /\ C[i].phase = IF i = Len(B) THEN ph ELSE B[i].phase
                           /\ C[i].seen = B[i].seen /\ C[i].locals = B[i].locals
  BY <1>1, <1>3, <1>5 DEF Same
<1>7. BlocksOK(C, p)
  <2>1. \A i \in 1..Len(B) : /\ C[i].k = B[i].k /\ C[i].exit = B[i].exit /\ C[i].table = B[i].table
                             /\ C[i].names = B[i].names /\ C[i].seen = B[i].seen
                             /\ LocalsOK(B[i]) => LocalsOK(C[i])
    BY <1>6 DEF Same, LocalsOK
  <2>2. \A i \in 1..Len(B) :
          /\ C[i].phase # "update" => LocalsOK(C[i])
          /\ i < Len(B) => C[i].phase = "list"
          /\ C[i].k \in {"prog", "func", "if", "while"} => C[i].phase = "list"
    BY <1>1, <1>6, <2>1 DEF BlocksOK
  <2>3. \A i \in 1..Len(B) : /\ C[i].seen \subseteq C[i].names /\ C[i].table < p
                             /\ i > 1 => C[i].k \in {"if", "while", "for", "func"} /\ C[i].names \subseteq Ids
                             /\ C[i].k = "func" => C[i].exit = NoName
    BY <2>1 DEF BlocksOK
  <2>4. \A i, j \in 1..Len(B) : i < j => /\ C[i].table < C[j].table
                                         /\ C[i].seen \cap C[j].names = {}
    BY <2>1 DEF BlocksOK
  <2>5. C[1].k = "prog" /\ C[1].exit = NoName /\ C[1].table = 0
    BY <1>1, <2>1 DEF BlocksOK
  <2> QED BY ONLY <1>1, <1>5, <2>2, <2>3, <2>4, <2>5 DEF BlocksOK
<1> QED BY <1>5, <1>6, <1>7 DEF C

\* Taking the top block off leaves the stack of blocks in order.
LEMMA PopFacts ==
  \A B, p : BlocksOK(B, p) /\ Len(B) > 1 =>
    LET C == SubSeq(B, 1, Len(B) - 1) IN
    /\ BlocksOK(C, p) /\ Len(C) = Len(B) - 1
    /\ \A i \in 1..Len(C) : C[i] = B[i]
<1> SUFFICES ASSUME NEW B, NEW p, BlocksOK(B, p), Len(B) > 1, NEW C, C = SubSeq(B, 1, Len(B) - 1)
             PROVE  /\ BlocksOK(C, p) /\ Len(C) = Len(B) - 1
                    /\ \A i \in 1..Len(C) : C[i] = B[i]
  OBVIOUS
<1>1. B \in Seq(BlockT) /\ Len(B) \in Nat /\ \A i \in 1..(Len(B) - 1) : B[i] \in BlockT
  BY DEF BlocksOK
<1>2. /\ C \in Seq(BlockT) /\ Len(C) = Len(B) - 1
      /\ \A i \in 1..(Len(B) - 1) : C[i] = B[i]
  BY <1>1, SubSeqProperties
<1>3. BlocksOK(C, p)
  <2>1. \A i \in 1..Len(C) : i \in 1..Len(B) /\ C[i] = B[i] /\ i < Len(B)
    BY <1>1, <1>2
  <2>2. C[1] = B[1] /\ 1 \in 1..Len(C) /\ Len(C) >= 1
    BY <1>1, <1>2
  <2>3. \A i \in 1..Len(C) :
          /\ C[i].seen \subseteq C[i].names
          /\ C[i].table < p
          /\ C[i].phase # "update" => LocalsOK(C[i])
          /\ C[i].phase = "list"
          /\ i > 1 => C[i].k \in {"if", "while", "for", "func"} /\ C[i].names \subseteq Ids
          /\ C[i].k = "func" => C[i].exit = NoName
    BY <2>1 DEF BlocksOK
  <2>4. \A i, j \in 1..Len(C) : i < j => /\ C[i].table < C[j].table
                                         /\ C[i].seen \cap C[j].names = {}
    BY <2>1 DEF BlocksOK
  <2>5. C[1].k = "prog" /\ C[1].exit = NoName /\ C[1].table = 0
    BY <2>2 DEF BlocksOK
  <2> QED BY <1>2, <2>2, <2>3, <2>4, <2>5 DEF BlocksOK
<1> QED BY <1>2, <1>3

ScopeInv == BlocksOK(blocks, np)

\* The top of the stack of blocks, and which kind it can be.
LEMMA TopFacts ==
  ASSUME ScopeInv
  PROVE  /\ Depth \in Nat /\ Depth >= 1 /\ Depth \in 1..Depth
         /\ Top \in BlockT /\ Top = blocks[Depth]
         /\ \A i \in 1..Depth : blocks[i] \in BlockT
         /\ Top.k = "prog" <=> Depth = 1
         /\ Top.phase # "list" => Depth > 1 /\ Top.k = "for"
<1>1. blocks \in Seq(BlockT) /\ Len(blocks) >= 1
  BY DEF ScopeInv, BlocksOK
<1>2. /\ Depth \in Nat /\ Depth >= 1 /\ Depth \in 1..Depth
      /\ Top \in BlockT /\ Top = blocks[Depth]
      /\ \A i \in 1..Depth : blocks[i] \in BlockT
  BY <1>1 DEF Depth, Top
<1>3. /\ blocks[1].k = "prog"
      /\ Depth > 1 => blocks[Depth].k \in {"if", "while", "for", "func"}
      /\ blocks[Depth].k \in {"prog", "func", "if", "while"} => blocks[Depth].phase = "list"
  BY <1>2 DEF ScopeInv, BlocksOK, Depth
<1>4. Top.k \in BlockKinds
  BY <1>2 DEF BlockT
<1> QED BY <1>2, <1>3, <1>4 DEF BlockKinds

\* The innermost block that has a name is where MapOf finds it.
LEMMA MapOfIs ==
  ASSUME NEW x, NEW i \in 1..Depth, x \in blocks[i].names,
         \A j \in 1..Depth : x \in blocks[j].names => j <= i, Depth \in Nat
  PROVE  MapOf(x) = i
<1>1. \A m \in 1..Depth : (x \in blocks[m].names /\ \A j \in 1..Depth : x \in blocks[j].names => j <= m) => m = i
  OBVIOUS
<1> QED BY <1>1 DEF MapOf

\* A name that a block has emitted code for is found in that block's own table.
LEMMA SeenFound ==
  ASSUME ScopeInv, NEW i \in 1..Depth, NEW x \in Seen(i)
  PROVE  /\ MapOf(x) = i /\ x \in blocks[i].seen /\ x \in Source
         /\ blocks[i].phase # "update" /\ GetName(x) = VarName(blocks[i].table, x)
         /\ blocks[i].table \in Nat
<1> USE TopFacts
<1>1. x \in blocks[i].seen /\ blocks[i].phase # "update"
  BY DEF Seen
<1>2. x \in blocks[i].names /\ x \in Source /\ blocks[i].table \in Nat
  <2>1. blocks[i] \in BlockT /\ blocks[i].seen \subseteq blocks[i].names
    BY DEF ScopeInv, BlocksOK, Depth
  <2> QED BY <1>1, <2>1 DEF BlockT
<1>3. \A j \in 1..Depth : x \in blocks[j].names => j <= i
  <2> SUFFICES ASSUME NEW j \in 1..Depth, i < j PROVE x \notin blocks[j].names
    OBVIOUS
  <2>1. blocks[i].seen \cap blocks[j].names = {}
    BY DEF ScopeInv, BlocksOK, Depth
  <2> QED BY <1>1, <2>1
<1>4. MapOf(x) = i
  BY <1>2, <1>3, MapOfIs
<1> QED BY <1>1, <1>2, <1>4 DEF GetName

\* A name that can be declared is found in the table it is declared in.
LEMMA TargetFound ==
  ASSUME ScopeInv, NEW x, CanDeclare(x)
  PROVE  /\ Target \in 1..Depth /\ MapOf(x) = Target /\ x \in blocks[Target].names /\ x \in Source
         /\ blocks[Target].phase # "update" /\ GetName(x) = VarName(blocks[Target].table, x)
         /\ blocks[Target].table \in Nat
         /\ Top.phase = "init" => Target = Depth - 1
         /\ Top.phase # "init" => Target = Depth
         /\ Target < Depth => x \notin Top.names
<1> USE TopFacts
<1>1. /\ Target \in 1..Depth
      /\ Top.phase = "init" => Target = Depth - 1
      /\ Top.phase # "init" => Target = Depth
  BY DEF Target
<1>2. /\ x \in blocks[Target].names /\ (Target < Depth => x \notin Top.names)
      /\ Top.phase # "update"
  BY DEF CanDeclare
<1>3. \A j \in 1..Depth : x \in blocks[j].names => j <= Target
  BY <1>1, <1>2
<1>4. MapOf(x) = Target
  BY <1>1, <1>2, <1>3, MapOfIs
<1>5. blocks[Target].phase # "update"
  <2>1. CASE Target = Depth
    BY <2>1, <1>2
  <2>2. CASE Target < Depth
    BY <1>1, <2>2 DEF ScopeInv, BlocksOK, Depth
  <2> QED BY <1>1, <2>1, <2>2
<1>6. x \in Source /\ blocks[Target].table \in Nat
  BY <1>1, <1>2 DEF BlockT
<1> QED BY <1>1, <1>2, <1>4, <1>5, <1>6 DEF GetName

\* A declaration adds the name to what its block has seen, and a list of
\* statements remembers it.
LEMMA DeclaredFacts ==
  ASSUME ScopeInv, NEW x, CanDeclare(x)
  PROVE  /\ BlocksOK(Declared(x), np) /\ Len(Declared(x)) = Depth
         /\ \A i \in 1..Depth : Same(blocks[i], Declared(x)[i]) /\ Declared(x)[i].phase = blocks[i].phase
<1> DEFINE C == Declared(x)
           listed == Top.phase = "list" /\ Top.k # "prog"
           b == [blocks[Target] EXCEPT !.seen = @ \cup {x},
                                       !.locals = IF listed THEN Append(@, GetName(x)) ELSE @]
<1> USE TopFacts
<1>1. /\ Target \in 1..Depth /\ x \in blocks[Target].names /\ x \in Source
      /\ blocks[Target].phase # "update" /\ GetName(x) = VarName(blocks[Target].table, x)
      /\ blocks[Target].table \in Nat /\ (Top.phase = "init" => Target = Depth - 1)
      /\ (Top.phase # "init" => Target = Depth) /\ (Target < Depth => x \notin Top.names)
  BY TargetFound
<1>2. GetName(x) \in Names
  BY <1>1, NameFacts
<1>3. b \in BlockT
  <2>1. /\ blocks[Target] \in BlockT /\ blocks[Target].locals \in Seq(Names)
        /\ Append(blocks[Target].locals, GetName(x)) \in Seq(Names)
        /\ blocks[Target].seen \cup {x} \in SUBSET Source
    BY <1>1, <1>2 DEF BlockT
  <2> QED BY <2>1 DEF BlockT
<1>4. /\ Same(blocks[Target], b) /\ b.phase = blocks[Target].phase
      /\ b.seen = blocks[Target].seen \cup {x}
      /\ b.locals = IF listed THEN Append(blocks[Target].locals, GetName(x)) ELSE blocks[Target].locals
  BY <1>1 DEF BlockT, Same
<1>5. C = [blocks EXCEPT ![Target] = b]
  BY <1>1 DEF Declared
<1>6. /\ C \in Seq(BlockT) /\ Len(C) = Depth
      /\ \A i \in 1..Depth : C[i] = IF i = Target THEN b ELSE blocks[i]
  <2>1. blocks \in Seq(BlockT) /\ Target \in 1..Len(blocks)
    BY <1>1 DEF ScopeInv, BlocksOK, Depth
  <2> HIDE DEF b, C
  <2> QED BY <2>1, <1>3, <1>5, ExceptSeq DEF Depth
<1>7. LocalsOK(b)
  <2>1. LocalsOK(blocks[Target])
    BY <1>1 DEF ScopeInv, BlocksOK, Depth
  <2>2. CASE ~listed
    BY <1>4, <2>1, <2>2 DEF LocalsOK, Same
  <2>3. CASE listed
    <3>1. Target = Depth /\ x \notin Top.seen
      BY <1>1, <2>3 DEF CanDeclare, Visible, Seen
    <3> DEFINE L == Top.locals
    <3>2. L \in Seq(Names) /\ b.locals = Append(L, GetName(x)) /\ b.seen = Top.seen \cup {x} /\ b.table = Top.table
      BY <1>4, <2>3, <3>1 DEF BlockT, Same
    <3>3. /\ \A m \in 1..Len(L) : \E y \in Top.seen : L[m] = VarName(Top.table, y)
          /\ \A m, n \in 1..Len(L) : L[m] = L[n] => m = n
      BY <2>1, <3>1 DEF LocalsOK
    <3>4. \A m \in 1..Len(L) : L[m] # GetName(x)
      <4>1. \A y \in Top.seen : y \in Source /\ VarName(Top.table, y) # VarName(Top.table, x)
        BY <1>1, <3>1, NameFacts DEF BlockT
      <4> QED BY <1>1, <3>1, <3>3, <4>1
    <3>5. /\ Len(b.locals) = Len(L) + 1 /\ b.locals[Len(L) + 1] = VarName(Top.table, x)
          /\ \A m \in 1..Len(L) : b.locals[m] = L[m]
          /\ Len(L) \in Nat
      BY <1>1, <1>2, <3>1, <3>2
    <3> HIDE DEF L, b
    <3>6. \A m \in 1..Len(b.locals) : \E y \in b.seen : b.locals[m] = VarName(b.table, y)
      BY <3>2, <3>3, <3>5
    <3>7. \A m, n \in 1..Len(b.locals) : b.locals[m] = b.locals[n] => m = n
      <4>1. b.locals[Len(L) + 1] = GetName(x)
        BY <1>1, <3>1, <3>5
      <4>2. \A m \in 1..Len(b.locals) : m \in 1..Len(L) \/ m = Len(L) + 1
        BY <3>5
      <4> QED BY ONLY <3>3, <3>4, <3>5, <4>1, <4>2
    <3> QED BY <3>6, <3>7 DEF LocalsOK
  <2> QED BY <2>2, <2>3
<1> HIDE DEF b, C, listed
<1>8. \A i \in 1..Depth : /\ Same(blocks[i], C[i]) /\ C[i].phase = blocks[i].phase
                          /\ C[i].seen = IF i = Target THEN blocks[i].seen \cup {x} ELSE blocks[i].seen
                          /\ i # Target => C[i].locals = blocks[i].locals
  BY <1>4, <1>6 DEF Same
<1>9. BlocksOK(C, np)
  <2>0. /\ \A i \in 1..Depth :
             /\ blocks[i].seen \subseteq blocks[i].names /\ blocks[i].table < np
             /\ blocks[i].phase # "update" => LocalsOK(blocks[i])
             /\ i < Depth => blocks[i].phase = "list"
             /\ i > 1 => blocks[i].k \in {"if", "while", "for", "func"} /\ blocks[i].names \subseteq Ids
             /\ blocks[i].k \in {"prog", "func", "if", "while"} => blocks[i].phase = "list"
             /\ blocks[i].k = "func" => blocks[i].exit = NoName
        /\ blocks[1].k = "prog" /\ blocks[1].exit = NoName /\ blocks[1].table = 0
    BY DEF ScopeInv, BlocksOK, Depth
  <2>1. \A i \in 1..Depth : /\ C[i].seen \subseteq C[i].names /\ C[i].table < np
                            /\ C[i].phase # "update" => LocalsOK(C[i])
    <3> SUFFICES ASSUME NEW i \in 1..Depth
                 PROVE  /\ C[i].seen \subseteq C[i].names /\ C[i].table < np
                        /\ C[i].phase # "update" => LocalsOK(C[i])
      OBVIOUS
    <3>1. C[i].names = blocks[i].names /\ C[i].table = blocks[i].table /\ C[i].phase = blocks[i].phase
      BY <1>8 DEF Same
    <3>2. C[i].seen \subseteq C[i].names
      <4>1. CASE i = Target
        <5>1. C[i].seen = blocks[i].seen \cup {x}
          BY <1>8, <4>1
        <5> QED BY <1>1, <2>0, <3>1, <4>1, <5>1
      <4>2. CASE i # Target
        <5>1. C[i].seen = blocks[i].seen
          BY <1>8, <4>2
        <5> QED BY <2>0, <3>1, <5>1
      <4> QED BY <4>1, <4>2
    <3>3. C[i].phase # "update" => LocalsOK(C[i])
      BY <1>6, <1>7, <2>0
    <3> QED BY <2>0, <3>1, <3>2, <3>3
  <2>2. \A i, j \in 1..Depth : i < j => /\ C[i].table < C[j].table
                                        /\ C[i].seen \cap C[j].names = {}
    <3> SUFFICES ASSUME NEW i \in 1..Depth, NEW j \in 1..Depth, i < j
                 PROVE  C[i].table < C[j].table /\ C[i].seen \cap C[j].names = {}
      OBVIOUS
    <3>1. blocks[i].table < blocks[j].table /\ blocks[i].seen \cap blocks[j].names = {}
      BY DEF ScopeInv, BlocksOK, Depth
    <3>2. C[i].table < C[j].table /\ C[j].names = blocks[j].names
      BY <1>8, <3>1 DEF Same
    <3>3. CASE i = Target
      <4>1. j = Depth /\ Target < Depth /\ x \notin blocks[j].names
        BY <1>1, <3>3
      <4>2. C[i].seen = blocks[i].seen \cup {x}
        BY <1>8, <3>3
      <4> QED BY <3>1, <3>2, <4>1, <4>2
    <3>4. CASE i # Target
      <4>1. C[i].seen = blocks[i].seen
        BY <1>8, <3>4
      <4> QED BY <3>1, <3>2, <4>1
    <3> QED BY <3>3, <3>4
  <2>3. \A i \in 1..Depth : /\ i < Depth => C[i].phase = "list"
                            /\ i > 1 => C[i].k \in {"if", "while", "for", "func"} /\ C[i].names \subseteq Ids
                            /\ C[i].k \in {"prog", "func", "if", "while"} => C[i].phase = "list"
                            /\ C[i].k = "func" => C[i].exit = NoName
    <3>1. \A i \in 1..Depth : /\ C[i].k = blocks[i].k /\ C[i].exit = blocks[i].exit
                              /\ C[i].names = blocks[i].names /\ C[i].phase = blocks[i].phase
      BY <1>8 DEF Same
    <3> QED BY <2>0, <3>1
  <2>4. C[1].k = "prog" /\ C[1].exit = NoName /\ C[1].table = 0
    <3>1. 1 \in 1..Depth
      OBVIOUS
    <3> QED BY <1>8, <2>0, <3>1 DEF Same
  <2> QED BY <1>6, <2>1, <2>2, <2>3, <2>4 DEF BlocksOK
<1> QED BY <1>6, <1>8, <1>9 DEF C

\* A new block.
CanFollow(B, p, b) ==
  /\ BlocksOK(B, p) /\ B[Len(B)].phase = "list"
  /\ b \in BlockT /\ b.k \in {"if", "while", "for", "func"}
  /\ b.table = p /\ b.seen = {} /\ b.locals = <<>> /\ b.names \subseteq Ids
  /\ b.k # "for" => b.phase = "list"
  /\ b.k = "func" => b.exit = NoName
  /\ \A i \in 1..Len(B) : B[i].seen \cap b.names = {}

\* A block is begun.
LEMMA AppendFacts ==
  \A B, p, b : p \in Nat /\ CanFollow(B, p, b) =>
    LET C == Append(B, b) IN
    /\ BlocksOK(C, p + 1) /\ Len(C) = Len(B) + 1 /\ C[Len(B) + 1] = b
    /\ \A i \in 1..Len(B) : C[i] = B[i]
<1> SUFFICES ASSUME NEW B, NEW p, NEW b, p \in Nat, CanFollow(B, p, b)
             PROVE  LET C == Append(B, b) IN
                    /\ BlocksOK(C, p + 1) /\ Len(C) = Len(B) + 1 /\ C[Len(B) + 1] = b
                    /\ \A i \in 1..Len(B) : C[i] = B[i]
  OBVIOUS
<1> DEFINE C == Append(B, b)
<1> USE DEF CanFollow
<1>1. B \in Seq(BlockT) /\ Len(B) \in Nat /\ Len(B) >= 1
  BY DEF BlocksOK
<1>2. /\ C \in Seq(BlockT) /\ Len(C) = Len(B) + 1 /\ C[Len(B) + 1] = b
      /\ \A i \in 1..Len(B) : C[i] = B[i]
  BY <1>1, AppendProperties
<1> HIDE DEF C
<1>3. LocalsOK(b)
  BY DEF LocalsOK
<1>4. \A i \in 1..Len(B) : B[i].table \in Nat /\ B[i].table < p
  <2>1. \A i \in 1..Len(B) : B[i] \in BlockT /\ B[i].table < p
    BY <1>1 DEF BlocksOK
  <2> QED BY <2>1 DEF BlockT
<1>5. \A i \in 1..Len(C) :
       /\ C[i].seen \subseteq C[i].names
       /\ C[i].table < p + 1
       /\ C[i].phase # "update" => LocalsOK(C[i])
       /\ i < Len(C) => C[i].phase = "list"
       /\ i > 1 => C[i].k \in {"if", "while", "for", "func"} /\ C[i].names \subseteq Ids
       /\ C[i].k \in {"prog", "func", "if", "while"} => C[i].phase = "list"
       /\ C[i].k = "func" => C[i].exit = NoName
  <2> SUFFICES ASSUME NEW i \in 1..Len(C)
               PROVE  /\ C[i].seen \subseteq C[i].names
                      /\ C[i].table < p + 1
                      /\ C[i].phase # "update" => LocalsOK(C[i])
                      /\ i < Len(C) => C[i].phase = "list"
                      /\ i > 1 => C[i].k \in {"if", "while", "for", "func"} /\ C[i].names \subseteq Ids
                      /\ C[i].k \in {"prog", "func", "if", "while"} => C[i].phase = "list"
                      /\ C[i].k = "func" => C[i].exit = NoName
    OBVIOUS
  <2>1. CASE i = Len(B) + 1
    BY <1>1, <1>2, <1>3, <2>1
  <2>2. CASE i \in 1..Len(B)
    BY <1>1, <1>2, <1>4, <2>2 DEF BlocksOK
  <2> QED BY <1>1, <1>2, <2>1, <2>2
<1>6. \A i, j \in 1..Len(C) : i < j => /\ C[i].table < C[j].table
                                       /\ C[i].seen \cap C[j].names = {}
  <2> SUFFICES ASSUME NEW i \in 1..Len(C), NEW j \in 1..Len(C), i < j
               PROVE  C[i].table < C[j].table /\ C[i].seen \cap C[j].names = {}
    OBVIOUS
  <2>1. i \in 1..Len(B) /\ C[i] = B[i]
    BY <1>1, <1>2
  <2>2. CASE j = Len(B) + 1
    BY <1>2, <1>4, <2>1, <2>2
  <2>3. CASE j \in 1..Len(B)
    BY <1>2, <2>1, <2>3 DEF BlocksOK
  <2> QED BY <1>1, <1>2, <2>2, <2>3
<1>7. C[1].k = "prog" /\ C[1].exit = NoName /\ C[1].table = 0
  BY <1>1, <1>2 DEF BlocksOK
<1>8. BlocksOK(C, p + 1)
  BY <1>1, <1>2, <1>5, <1>6, <1>7 DEF BlocksOK
<1> QED BY <1>2, <1>8 DEF C

-----------------------------------------------------------------------------
(* What a step does to the code.                                           *)

\* Emitting code appends it to the instructions and leaves those before it as they are.
LEMMA EmitFacts ==
  ASSUME instrs \in Seq(InstrT), NEW code \in Seq(InstrT), Emit(code)
  PROVE  /\ instrs' \in Seq(InstrT) /\ Len(instrs) \in Nat /\ Len(code) \in Nat
         /\ Len(instrs') = Len(instrs) + Len(code)
         /\ \A i \in 1..Len(instrs) : i \in 1..Len(instrs') /\ instrs'[i] = instrs[i]
         /\ \A i \in 1..Len(code) : Len(instrs) + i \in 1..Len(instrs') /\ instrs'[Len(instrs) + i] = code[i]
         /\ \A i \in 1..Len(instrs') : i \in 1..Len(instrs) \/ i - Len(instrs) \in 1..Len(code)
         /\ \A i \in 1..Len(instrs') : i \notin 1..Len(instrs) => instrs'[i] = code[i - Len(instrs)]
<1>1. /\ instrs' \in Seq(InstrT) /\ Len(instrs) \in Nat /\ Len(code) \in Nat
      /\ Len(instrs') = Len(instrs) + Len(code)
      /\ \A i \in 1..(Len(instrs) + Len(code)) :
           instrs'[i] = IF i <= Len(instrs) THEN instrs[i] ELSE code[i - Len(instrs)]
  BY ConcatProperties DEF Emit
<1>2. \A i \in 1..Len(instrs) : i \in 1..Len(instrs') /\ instrs'[i] = instrs[i]
  BY <1>1
<1>3. ASSUME NEW i \in 1..Len(code)
      PROVE  Len(instrs) + i \in 1..Len(instrs') /\ instrs'[Len(instrs) + i] = code[i]
  <2>1. Len(instrs) + i \in 1..(Len(instrs) + Len(code)) /\ ~(Len(instrs) + i <= Len(instrs))
        /\ (Len(instrs) + i) - Len(instrs) = i
    BY <1>1
  <2> QED BY <1>1, <2>1
<1>4. ASSUME NEW i \in 1..Len(instrs'), i \notin 1..Len(instrs)
      PROVE  i - Len(instrs) \in 1..Len(code) /\ instrs'[i] = code[i - Len(instrs)]
  <2>1. i \in 1..(Len(instrs) + Len(code)) /\ ~(i <= Len(instrs))
    BY <1>1, <1>4
  <2> QED BY <1>1, <2>1
<1> QED BY <1>1, <1>2, <1>3, <1>4

\* Blocks end from the innermost on, and keep what they were begun with.
Kept(B, C) ==
  /\ Len(C) <= Len(B)
  /\ \A i \in 1..Len(C) : /\ Same(B[i], C[i])
                          /\ B[i].phase = "update" => C[i].phase = "update"
                          /\ C[i].phase = "init" => B[i].phase = "init"

-----------------------------------------------------------------------------
(* Jumps: the labels of the blocks that have not ended are not placed yet, *)
(* and the jumps that have no place go there.                              *)

Jumping(b) == b.k \in {"if", "while", "for"}
Drawn(l) == \E m \in 0..(nl - 1) : l = LabelName(m)
Unplaced(l) == \A j \in 1..Len(instrs) : ~Places(j, l)

LabelsOK ==
  /\ \A i \in 1..Len(instrs) : instrs[i].op \in {"label", "jne"} => Drawn(instrs[i].label)
  /\ \A i, j \in 1..Len(instrs) : \A l : Places(i, l) /\ Places(j, l) => i = j
  /\ \A b \in 1..Depth : Jumping(blocks[b]) => Drawn(blocks[b].exit) /\ Unplaced(blocks[b].exit)
  /\ \A a, b \in 1..Depth : Jumping(blocks[a]) /\ Jumping(blocks[b]) /\ blocks[a].exit = blocks[b].exit => a = b
  /\ \A a \in 1..Depth : blocks[a].phase = "init" =>
       /\ Drawn(blocks[a].again) /\ Unplaced(blocks[a].again)
       /\ \A b \in 1..Depth : Jumping(blocks[b]) => blocks[b].exit # blocks[a].again

JumpsOK ==
  \A i \in 1..Len(instrs) : instrs[i].op = "jne" =>
    LET l == instrs[i].label IN
    /\ \A j \in 1..Len(instrs) : Places(j, l) => i < j /\ \A k \in i..j : instrs[k].op # "function"
    /\ \/ \E j \in 1..Len(instrs) : Places(j, l)
       \/ /\ \E b \in 1..Depth : Jumping(blocks[b]) /\ blocks[b].exit = l
          /\ \A k \in i..Len(instrs) : instrs[k].op # "function"

JumpInv == LabelsOK /\ JumpsOK

\* A step that does not begin a block and makes no jump: it may place a label
\* last, that of a block which ends with it or of the for whose header it is in.
LEMMA JumpsStay ==
  ASSUME TypeOK, JumpInv, ScopeInv, NEW code \in Seq(InstrT), Emit(code), UNCHANGED nl, Kept(blocks, blocks'),
         \A i \in 1..Len(code) : code[i].op \notin {"jne", "function"},
         \A i \in 1..Len(code) : code[i].op = "label" =>
           /\ i = Len(code) /\ Drawn(code[i].label) /\ Unplaced(code[i].label)
           /\ \A b \in 1..Len(blocks') : /\ Jumping(blocks[b]) => blocks[b].exit # code[i].label
                                         /\ blocks'[b].phase # "init",
         \A b \in 1..Depth : Jumping(blocks[b]) =>
           b \in 1..Len(blocks') \/ (Len(code) > 0 /\ code[Len(code)].op = "label" /\ code[Len(code)].label = blocks[b].exit),
         Len(blocks') \in Nat
  PROVE  JumpInv'
<1> DEFINE N == Len(instrs)
           M == Len(instrs')
<1>1. /\ N \in Nat /\ Len(code) \in Nat /\ M = N + Len(code)
      /\ \A i \in 1..N : i \in 1..M /\ instrs'[i] = instrs[i]
      /\ \A i \in 1..Len(code) : N + i \in 1..M /\ instrs'[N + i] = code[i]
      /\ \A i \in 1..M : i \in 1..N \/ i - N \in 1..Len(code)
      /\ \A i \in 1..M : i \notin 1..N => instrs'[i] = code[i - N]
  BY EmitFacts DEF TypeOK
<1>2. \A l : Drawn(l)' <=> Drawn(l)
  BY DEF Drawn
<1>3. \A i \in 1..N : \A l : Places(i, l)' <=> Places(i, l)
  BY <1>1 DEF Places
<1>4. \A i \in 1..M : \A l : i \notin 1..N /\ Places(i, l)' =>
        /\ i = M /\ Len(code) > 0 /\ code[Len(code)].op = "label" /\ code[Len(code)].label = l
        /\ Drawn(l) /\ Unplaced(l)
        /\ \A b \in 1..Len(blocks') : /\ Jumping(blocks[b]) => blocks[b].exit # l
                                      /\ blocks'[b].phase # "init"
  <2> SUFFICES ASSUME NEW i \in 1..M, NEW l, i \notin 1..N, Places(i, l)'
               PROVE  /\ i = M /\ Len(code) > 0 /\ code[Len(code)].op = "label" /\ code[Len(code)].label = l
                      /\ Drawn(l) /\ Unplaced(l)
                      /\ \A b \in 1..Len(blocks') : /\ Jumping(blocks[b]) => blocks[b].exit # l
                                                    /\ blocks'[b].phase # "init"
    OBVIOUS
  <2>1. i - N \in 1..Len(code) /\ code[i - N].op = "label" /\ code[i - N].label = l
    BY <1>1 DEF Places
  <2>2. i - N = Len(code)
    BY <2>1
  <2>3. i = M /\ Len(code) > 0
    BY <1>1, <2>1, <2>2
  <2> QED BY <2>1, <2>2, <2>3
<1>5. \A l : (Len(code) > 0 /\ code[Len(code)].op = "label" /\ code[Len(code)].label = l) =>
        \E j \in 1..M : Places(j, l)'
  <2> SUFFICES ASSUME NEW l, Len(code) > 0, code[Len(code)].op = "label", code[Len(code)].label = l
               PROVE  \E j \in 1..M : Places(j, l)'
    OBVIOUS
  <2>1. PICK j \in 1..M : instrs'[j] = code[Len(code)]
    <3>1. Len(code) \in 1..Len(code)
      BY <1>1
    <3> QED BY <1>1, <3>1
  <2> HIDE DEF M
  <2> QED BY <2>1 DEF Places
<1>6. Len(blocks') <= Depth /\ \A b \in 1..Len(blocks') :
        /\ b \in 1..Depth
        /\ Jumping(blocks'[b]) <=> Jumping(blocks[b])
        /\ blocks'[b].exit = blocks[b].exit /\ blocks'[b].again = blocks[b].again
        /\ blocks'[b].phase = "init" => blocks[b].phase = "init"
  BY TopFacts DEF Kept, Same, Jumping, Depth
<1> HIDE DEF N, M
<1>7. LabelsOK'
  <2>1. \A i \in 1..M : instrs'[i].op \in {"label", "jne"} => Drawn(instrs'[i].label)
    <3> SUFFICES ASSUME NEW i \in 1..M, instrs'[i].op \in {"label", "jne"} PROVE Drawn(instrs'[i].label)
      OBVIOUS
    <3>1. CASE i \in 1..N
      BY <1>1, <3>1 DEF JumpInv, LabelsOK, N
    <3>2. CASE i \notin 1..N
      <4>1. i - N \in 1..Len(code) /\ instrs'[i] = code[i - N]
        BY <1>1, <3>2
      <4> QED BY <4>1
    <3> QED BY <3>1, <3>2
  <2>2. \A i, j \in 1..M : \A l : Places(i, l)' /\ Places(j, l)' => i = j
    <3> SUFFICES ASSUME NEW i \in 1..M, NEW j \in 1..M, NEW l, Places(i, l)', Places(j, l)', i \in 1..N \/ j \notin 1..N
                 PROVE  i = j
      OBVIOUS
    <3>1. CASE i \notin 1..N /\ j \notin 1..N
      BY <1>4, <3>1
    <3>2. CASE i \in 1..N /\ j \in 1..N
      BY <1>3, <3>2 DEF JumpInv, LabelsOK, N
    <3>3. CASE i \in 1..N /\ j \notin 1..N
      BY <1>3, <1>4, <3>3 DEF Unplaced, N
    <3> QED BY <3>1, <3>2, <3>3
  <2>3. \A l : Unplaced(l) /\ ~(\E i \in 1..M : i \notin 1..N /\ Places(i, l)') => Unplaced(l)'
    BY <1>1, <1>3 DEF Unplaced, N, M
  <2>4. ASSUME NEW b \in 1..Len(blocks'), Jumping(blocks'[b])
        PROVE  Drawn(blocks'[b].exit) /\ Unplaced(blocks[b].exit)'
    <3>1. b \in 1..Depth /\ Jumping(blocks[b]) /\ blocks'[b].exit = blocks[b].exit
      BY <1>6, <2>4
    <3>2. PICK l : l = blocks[b].exit
      OBVIOUS
    <3>3. Drawn(l) /\ Unplaced(l)
      BY <3>1, <3>2 DEF JumpInv, LabelsOK
    <3>4. Unplaced(l)'
      BY <1>4, <2>3, <3>1, <3>2, <3>3
    <3> QED BY <3>1, <3>2, <3>3, <3>4
  <2>5. \A a, b \in 1..Len(blocks') : Jumping(blocks'[a]) /\ Jumping(blocks'[b]) /\ blocks'[a].exit = blocks'[b].exit => a = b
    BY <1>6 DEF JumpInv, LabelsOK
  <2>6. ASSUME NEW a \in 1..Len(blocks'), blocks'[a].phase = "init"
        PROVE  /\ Drawn(blocks'[a].again) /\ Unplaced(blocks[a].again)'
               /\ \A b \in 1..Len(blocks') : Jumping(blocks'[b]) => blocks'[b].exit # blocks'[a].again
    <3>1. a \in 1..Depth /\ blocks[a].phase = "init" /\ blocks'[a].again = blocks[a].again
      BY <1>6, <2>6
    <3>2. PICK l : l = blocks[a].again
      OBVIOUS
    <3>3. /\ Drawn(l) /\ Unplaced(l)
          /\ \A b \in 1..Depth : Jumping(blocks[b]) => blocks[b].exit # l
      BY <3>1, <3>2 DEF JumpInv, LabelsOK
    <3>4. Unplaced(l)'
      BY <1>4, <2>3, <2>6, <3>3
    <3> QED BY <1>6, <3>1, <3>2, <3>3, <3>4
  <2> QED
    <3>1. \A i \in 1..M : instrs'[i].op \in {"label", "jne"} => Drawn(instrs[i].label)'
      BY <1>2, <2>1
    <3>2. \A b \in 1..Len(blocks') : Jumping(blocks'[b]) => Drawn(blocks[b].exit)' /\ Unplaced(blocks[b].exit)'
      BY <1>2, <2>4
    <3>3. \A a \in 1..Len(blocks') : blocks'[a].phase = "init" =>
          /\ Drawn(blocks[a].again)' /\ Unplaced(blocks[a].again)'
          /\ \A b \in 1..Len(blocks') : Jumping(blocks'[b]) => blocks'[b].exit # blocks'[a].again
      BY <1>2, <2>6
    <3> QED BY <2>2, <2>5, <3>1, <3>2, <3>3 DEF LabelsOK, Depth, M
<1>8. JumpsOK'
  <2> SUFFICES ASSUME NEW i \in 1..M, instrs'[i].op = "jne", NEW l, l = instrs'[i].label
               PROVE  /\ \A j \in 1..M : Places(j, l)' => i < j /\ \A k \in i..j : instrs'[k].op # "function"
                      /\ \/ \E j \in 1..M : Places(j, l)'
                         \/ /\ \E b \in 1..Len(blocks') : Jumping(blocks'[b]) /\ blocks'[b].exit = l
                            /\ \A k \in i..M : instrs'[k].op # "function"
    BY DEF JumpsOK, Depth, M
  <2>1. i \in 1..N /\ instrs[i].op = "jne" /\ l = instrs[i].label
    <3>1. i \notin 1..N => i - N \in 1..Len(code) /\ instrs'[i] = code[i - N]
      BY <1>1
    <3>2. i \in 1..N
      BY <3>1
    <3> QED BY <1>1, <3>2
  <2>2. /\ \A j \in 1..N : Places(j, l) => i < j /\ \A k \in i..j : instrs[k].op # "function"
        /\ \/ \E j \in 1..N : Places(j, l)
           \/ /\ \E b \in 1..Depth : Jumping(blocks[b]) /\ blocks[b].exit = l
              /\ \A k \in i..N : instrs[k].op # "function"
    BY <2>1 DEF JumpInv, JumpsOK, N
  <2>3. \A k \in 1..M : instrs'[k].op = "function" => k \in 1..N /\ instrs[k].op = "function"
    <3> SUFFICES ASSUME NEW k \in 1..M, instrs'[k].op = "function" PROVE k \in 1..N /\ instrs[k].op = "function"
      OBVIOUS
    <3>1. k \notin 1..N => k - N \in 1..Len(code) /\ instrs'[k] = code[k - N]
      BY <1>1
    <3>2. k \in 1..N
      BY <3>1
    <3> QED BY <1>1, <3>2
  <2>4. ASSUME NEW j \in 1..M, Places(j, l)' PROVE i < j /\ \A k \in i..j : instrs'[k].op # "function"
    <3>1. CASE j \in 1..N
      <4>1. i < j /\ \A k \in i..j : instrs[k].op # "function"
        BY <1>3, <2>2, <2>4, <3>1
      <4>2. \A k \in i..j : k \in 1..M
        BY <1>1, <2>1, <3>1
      <4> QED BY <2>3, <4>1, <4>2
    <3>2. CASE j \notin 1..N
      <4>1. Unplaced(l)
        BY <1>4, <2>4, <3>2
      <4>2. \A k \in i..N : instrs[k].op # "function"
        BY <2>2, <4>1 DEF Unplaced, N
      <4>3. i < j /\ \A k \in i..j : k \in 1..M
        BY <1>1, <2>1, <3>2
      <4>4. \A k \in i..j : instrs'[k].op # "function"
        BY <1>1, <2>1, <2>3, <4>2, <4>3
      <4> QED BY <4>3, <4>4
    <3> QED BY <3>1, <3>2
  <2>5. CASE \E j \in 1..N : Places(j, l)
    <3>1. \E j \in 1..M : Places(j, l)'
      BY <1>1, <1>3, <2>5
    <3> QED BY <2>4, <3>1
  <2>6. CASE /\ \E b \in 1..Depth : Jumping(blocks[b]) /\ blocks[b].exit = l
             /\ \A k \in i..N : instrs[k].op # "function"
    <3>1. PICK b \in 1..Depth : Jumping(blocks[b]) /\ blocks[b].exit = l
      BY <2>6
    <3>2. CASE b \in 1..Len(blocks')
      <4>1. \A k \in i..M : instrs'[k].op # "function"
        <5>1. \A k \in i..M : k \in 1..M
          BY <1>1, <2>1
        <5> QED BY <1>1, <2>1, <2>3, <2>6, <5>1
      <4>2. Jumping(blocks'[b]) /\ blocks'[b].exit = l
        BY <1>6, <3>1, <3>2
      <4> QED BY <2>4, <3>2, <4>1, <4>2
    <3>3. CASE b \notin 1..Len(blocks')
      <4>1. \E j \in 1..M : Places(j, l)'
        BY <1>5, <3>1, <3>3
      <4> QED BY <2>4, <4>1
    <3> QED BY <3>2, <3>3
  <2> QED BY <2>2, <2>5, <2>6
<1> QED BY <1>7, <1>8 DEF JumpInv

\* Numbers drawn before a counter moved and numbers drawn by moving it are different.
LEMMA RangeFacts ==
  ASSUME NEW a \in Nat, NEW b \in Nat, a <= b
  PROVE  /\ \A m \in 0..(a - 1) : m \in 0..(b - 1) /\ m \in Nat
         /\ \A m \in a..(b - 1) : m \in 0..(b - 1) /\ m \in Nat
         /\ \A m \in 0..(a - 1), n \in a..(b - 1) : m # n
OBVIOUS

Fresh(l) == \E m \in nl..(nl' - 1) : l = LabelName(m)

\* A step after which all blocks are still there, and perhaps one more: labels
\* are drawn for it, and a jump goes to the end of a block. A function begins
\* where no block waits for its end.
LEMMA JumpsGrow ==
  ASSUME TypeOK, JumpInv, ScopeInv, NEW code \in Seq(InstrT), Emit(code), nl' \in Nat, nl <= nl',
         Len(blocks') \in {Depth, Depth + 1},
         \A i \in 1..Depth : Same(blocks[i], blocks'[i]) /\ (blocks'[i].phase = "init" => blocks[i].phase = "init"),
         Len(blocks') = Depth + 1 =>
           /\ Jumping(blocks'[Depth + 1]) => Fresh(blocks'[Depth + 1].exit)
           /\ blocks'[Depth + 1].phase = "init" =>
                Fresh(blocks'[Depth + 1].again) /\ blocks'[Depth + 1].again # blocks'[Depth + 1].exit,
         \A i \in 1..Len(code) : code[i].op = "label" =>
           /\ i = 1 /\ Fresh(code[i].label)
           /\ Len(blocks') = Depth + 1 => /\ blocks'[Depth + 1].exit # code[i].label
                                          /\ blocks'[Depth + 1].phase # "init",
         \A i \in 1..Len(code) : code[i].op = "jne" =>
           \E b \in 1..Len(blocks') : Jumping(blocks'[b]) /\ blocks'[b].exit = code[i].label,
         \A i \in 1..Len(code) : code[i].op = "function" =>
           /\ \A b \in 1..Depth : ~Jumping(blocks[b])
           /\ \A k \in 1..Len(code) : code[k].op # "jne"
  PROVE  JumpInv'
<1> DEFINE N == Len(instrs)
           M == Len(instrs')
           D == Depth
<1>1. /\ N \in Nat /\ Len(code) \in Nat /\ M = N + Len(code)
      /\ \A i \in 1..N : i \in 1..M /\ instrs'[i] = instrs[i]
      /\ \A i \in 1..Len(code) : N + i \in 1..M /\ instrs'[N + i] = code[i]
      /\ \A i \in 1..M : i \in 1..N \/ i - N \in 1..Len(code)
      /\ \A i \in 1..M : i \notin 1..N => i - N \in 1..Len(code) /\ instrs'[i] = code[i - N]
  BY EmitFacts DEF TypeOK
<1>2. /\ \A l : Drawn(l) => Drawn(l)' /\ ~Fresh(l)
      /\ \A l : Fresh(l) => Drawn(l)'
  <2>1. nl \in Nat
    BY DEF TypeOK
  <2>2. /\ \A m \in 0..(nl - 1) : m \in 0..(nl' - 1) /\ m \in Nat
        /\ \A m \in nl..(nl' - 1) : m \in 0..(nl' - 1) /\ m \in Nat
        /\ \A m \in 0..(nl - 1), n \in nl..(nl' - 1) : m # n
    BY <2>1, RangeFacts
  <2>5. \A l : Drawn(l) => ~Fresh(l)
    BY <2>2, NameFacts DEF Drawn, Fresh
  <2> QED BY <2>2, <2>5 DEF Drawn, Fresh
<1>3. \A i \in 1..N : \A l : Places(i, l)' <=> Places(i, l)
  BY <1>1 DEF Places
<1>4. \A i \in 1..M : \A l : i \notin 1..N /\ Places(i, l)' =>
        /\ i = N + 1 /\ Fresh(l)
        /\ Len(blocks') = D + 1 => blocks'[D + 1].exit # l /\ blocks'[D + 1].phase # "init"
  <2> SUFFICES ASSUME NEW i \in 1..M, NEW l, i \notin 1..N, Places(i, l)'
               PROVE  /\ i = N + 1 /\ Fresh(l)
                      /\ Len(blocks') = D + 1 => blocks'[D + 1].exit # l /\ blocks'[D + 1].phase # "init"
    OBVIOUS
  <2>1. i - N \in 1..Len(code) /\ code[i - N].op = "label" /\ code[i - N].label = l
    BY <1>1 DEF Places
  <2>2. i - N = 1
    BY <2>1
  <2> QED BY <1>1, <2>1, <2>2
<1>5. D \in Nat /\ \A b \in 1..D :
        /\ b \in 1..Len(blocks')
        /\ Jumping(blocks'[b]) <=> Jumping(blocks[b])
        /\ blocks'[b].exit = blocks[b].exit /\ blocks'[b].again = blocks[b].again
        /\ blocks'[b].phase = "init" => blocks[b].phase = "init"
  BY TopFacts DEF Same, Jumping
<1>6. \A b \in 1..Len(blocks') : b \in 1..D \/ (b = D + 1 /\ Len(blocks') = D + 1)
  BY <1>5
<1> HIDE DEF N, M, D
\* What is placed after the step is placed before, or fresh.
<1>7. \A l : Unplaced(l) /\ ~(\E i \in 1..M : i \notin 1..N /\ Places(i, l)') => Unplaced(l)'
  BY <1>1, <1>3 DEF Unplaced, N, M
<1>8. \A l : Drawn(l) /\ Unplaced(l) => Unplaced(l)'
  BY <1>2, <1>4, <1>7
<1>9. \A l : Fresh(l) => Unplaced(l)
  <2> SUFFICES ASSUME NEW l, NEW j \in 1..N, Places(j, l) PROVE ~Fresh(l)
    BY DEF Unplaced, N
  <2>1. Drawn(l)
    BY DEF JumpInv, LabelsOK, Places, N
  <2> QED BY <1>2, <2>1
<1>10. Len(blocks') = D + 1 =>
         /\ Jumping(blocks'[D + 1]) => Fresh(blocks'[D + 1].exit)
         /\ blocks'[D + 1].phase = "init" =>
              Fresh(blocks'[D + 1].again) /\ blocks'[D + 1].again # blocks'[D + 1].exit
  BY DEF D
\* The label of a block that is there is drawn, and not placed.
<1>11. ASSUME NEW b \in 1..Len(blocks'), Jumping(blocks'[b]), NEW l, l = blocks'[b].exit
       PROVE  Drawn(l)' /\ Unplaced(l)'
  <2>1. CASE b \in 1..D
    <3>1. Drawn(l) /\ Unplaced(l)
      BY <1>5, <1>11, <2>1 DEF JumpInv, LabelsOK, D
    <3> QED BY <1>2, <1>8, <3>1
  <2>2. CASE b = D + 1 /\ Len(blocks') = D + 1
    <3>1. Fresh(l) /\ l = blocks'[D + 1].exit
      BY <1>10, <1>11, <2>2
    <3> QED BY <1>2, <1>4, <1>7, <1>9, <2>2, <3>1
  <2> QED BY <1>6, <2>1, <2>2
<1>12. LabelsOK'
  <2>1. ASSUME NEW i \in 1..M, instrs'[i].op \in {"label", "jne"}, NEW l, l = instrs'[i].label PROVE Drawn(l)'
    <3>1. CASE i \in 1..N
      <4>1. Drawn(l)
        BY <1>1, <2>1, <3>1 DEF JumpInv, LabelsOK, N
      <4> QED BY <1>2, <4>1
    <3>2. CASE i \notin 1..N
      <4>1. i - N \in 1..Len(code) /\ instrs'[i] = code[i - N]
        BY <1>1, <3>2
      <4>2. CASE instrs'[i].op = "label"
        BY <1>2, <2>1, <4>1, <4>2
      <4>3. CASE instrs'[i].op = "jne"
        BY <1>11, <2>1, <4>1, <4>3
      <4> QED BY <2>1, <4>2, <4>3
    <3> QED BY <3>1, <3>2
  <2>2. \A i, j \in 1..M : \A l : Places(i, l)' /\ Places(j, l)' => i = j
    <3> SUFFICES ASSUME NEW i \in 1..M, NEW j \in 1..M, NEW l, Places(i, l)', Places(j, l)', i \in 1..N \/ j \notin 1..N
                 PROVE  i = j
      OBVIOUS
    <3>1. CASE i \notin 1..N /\ j \notin 1..N
      BY <1>4, <3>1
    <3>2. CASE i \in 1..N /\ j \in 1..N
      BY <1>3, <3>2 DEF JumpInv, LabelsOK, N
    <3>3. CASE i \in 1..N /\ j \notin 1..N
      BY <1>3, <1>4, <1>9, <3>3 DEF Unplaced, N
    <3> QED BY <3>1, <3>2, <3>3
  <2>3. ASSUME NEW a \in 1..Len(blocks'), NEW b \in 1..Len(blocks'), Jumping(blocks'[a]), Jumping(blocks'[b]),
               blocks'[a].exit = blocks'[b].exit, a <= b
        PROVE  a = b
    <3>1. CASE a \in 1..D /\ b \in 1..D
      BY <1>5, <2>3, <3>1 DEF JumpInv, LabelsOK, D
    <3>2. CASE a \in 1..D /\ b = D + 1 /\ Len(blocks') = D + 1
      <4>1. Drawn(blocks'[a].exit)
        BY <1>5, <2>3, <3>2 DEF JumpInv, LabelsOK, D
      <4>2. Fresh(blocks'[b].exit)
        BY <1>10, <2>3, <3>2
      <4> QED BY <1>2, <2>3, <4>1, <4>2
    <3> QED BY <1>5, <1>6, <2>3, <3>1, <3>2
  <2>4. ASSUME NEW a \in 1..Len(blocks'), blocks'[a].phase = "init", NEW l, l = blocks'[a].again
        PROVE  /\ Drawn(l)' /\ Unplaced(l)'
               /\ \A b \in 1..Len(blocks') : Jumping(blocks'[b]) => blocks'[b].exit # l
    <3>1. CASE a \in 1..D
      <4>1. /\ Drawn(l) /\ Unplaced(l)
            /\ \A b \in 1..D : Jumping(blocks[b]) => blocks[b].exit # l
        BY <1>5, <2>4, <3>1 DEF JumpInv, LabelsOK, D
      <4>2. ~Fresh(l) /\ Drawn(l)' /\ Unplaced(l)'
        BY <1>2, <1>8, <4>1
      <4>3. ASSUME NEW b \in 1..Len(blocks'), Jumping(blocks'[b]) PROVE blocks'[b].exit # l
        <5>1. CASE b \in 1..D
          BY <1>5, <4>1, <4>3, <5>1
        <5>2. CASE b = D + 1 /\ Len(blocks') = D + 1
          BY <1>10, <4>2, <4>3, <5>2
        <5> QED BY <1>6, <5>1, <5>2
      <4> QED BY <4>2, <4>3
    <3>2. CASE a = D + 1 /\ Len(blocks') = D + 1
      <4>1. Fresh(l) /\ l # blocks'[D + 1].exit
        BY <1>10, <2>4, <3>2
      <4>2. Drawn(l)' /\ Unplaced(l)'
        BY <1>2, <1>4, <1>7, <1>9, <2>4, <3>2, <4>1
      <4>3. ASSUME NEW b \in 1..D, Jumping(blocks'[b]) PROVE blocks'[b].exit # l
        <5>1. Drawn(blocks'[b].exit)
          BY <1>5, <4>3 DEF JumpInv, LabelsOK, D
        <5> QED BY <1>2, <4>1, <5>1
      <4> QED BY <1>6, <4>1, <4>2, <4>3
    <3> QED BY <1>6, <3>1, <3>2
  <2>5. \A a, b \in 1..Len(blocks') : Jumping(blocks'[a]) /\ Jumping(blocks'[b]) /\ blocks'[a].exit = blocks'[b].exit => a = b
    <3>1. \A a \in 1..Len(blocks') : a \in Int
      BY <1>5
    <3> QED BY <2>3, <3>1
  <2>6. \A b \in 1..Len(blocks') : Jumping(blocks'[b]) => Drawn(blocks[b].exit)' /\ Unplaced(blocks[b].exit)'
    BY <1>11
  <2>7. \A i \in 1..M : instrs'[i].op \in {"label", "jne"} => Drawn(instrs[i].label)'
    BY <2>1
  <2>8. \A a \in 1..Len(blocks') : blocks'[a].phase = "init" =>
          /\ Drawn(blocks[a].again)' /\ Unplaced(blocks[a].again)'
          /\ \A b \in 1..Len(blocks') : Jumping(blocks'[b]) => blocks'[b].exit # blocks'[a].again
    BY <2>4
  <2> QED BY ONLY <2>2, <2>5, <2>6, <2>7, <2>8 DEF LabelsOK, Depth, M
<1>13. ASSUME NEW k \in 1..M, instrs'[k].op = "function", k \notin 1..N
       PROVE  /\ \A b \in 1..D : ~Jumping(blocks[b])
              /\ \A i \in 1..Len(code) : code[i].op # "jne"
  BY <1>1, <1>13 DEF D
<1>14. JumpsOK'
  <2> SUFFICES ASSUME NEW i \in 1..M, instrs'[i].op = "jne", NEW l, l = instrs'[i].label
               PROVE  /\ \A j \in 1..M : Places(j, l)' => i < j /\ \A k \in i..j : instrs'[k].op # "function"
                      /\ \/ \E j \in 1..M : Places(j, l)'
                         \/ /\ \E b \in 1..Len(blocks') : Jumping(blocks'[b]) /\ blocks'[b].exit = l
                            /\ \A k \in i..M : instrs'[k].op # "function"
    BY DEF JumpsOK, Depth, M
  <2>1. CASE i \in 1..N
    <3>1. instrs[i].op = "jne" /\ l = instrs[i].label
      BY <1>1, <2>1
    <3>2. /\ \A j \in 1..N : Places(j, l) => i < j /\ \A k \in i..j : instrs[k].op # "function"
          /\ \/ \E j \in 1..N : Places(j, l)
             \/ /\ \E b \in 1..D : Jumping(blocks[b]) /\ blocks[b].exit = l
                /\ \A k \in i..N : instrs[k].op # "function"
      BY <2>1, <3>1 DEF JumpInv, JumpsOK, N, D
    <3>3. ~Fresh(l)
      BY <1>2, <2>1, <3>1 DEF JumpInv, LabelsOK, N
    <3>4. ASSUME NEW j \in 1..M, Places(j, l)' PROVE i < j /\ \A k \in i..j : instrs'[k].op # "function"
      <4>1. j \in 1..N /\ Places(j, l)
        BY <1>3, <1>4, <3>3, <3>4
      <4>2. i < j /\ \A k \in i..j : instrs[k].op # "function"
        BY <3>2, <4>1
      <4>3. \A k \in i..j : k \in 1..N
        BY <1>1, <2>1, <4>1
      <4> QED BY <1>1, <4>2, <4>3
    <3>5. CASE \E j \in 1..N : Places(j, l)
      <4>1. \E j \in 1..M : Places(j, l)'
        BY <1>1, <1>3, <3>5
      <4> QED BY <3>4, <4>1
    <3>6. CASE /\ \E b \in 1..D : Jumping(blocks[b]) /\ blocks[b].exit = l
               /\ \A k \in i..N : instrs[k].op # "function"
      <4>1. \E b \in 1..Len(blocks') : Jumping(blocks'[b]) /\ blocks'[b].exit = l
        BY <1>5, <3>6
      <4>2. \A k \in i..M : instrs'[k].op # "function"
        <5> SUFFICES ASSUME NEW k \in i..M, instrs'[k].op = "function" PROVE FALSE
          OBVIOUS
        <5>1. k \in 1..M
          BY <1>1, <2>1
        <5>2. CASE k \in 1..N
          BY <1>1, <3>6, <5>1, <5>2
        <5>3. CASE k \notin 1..N
          BY <1>13, <3>6, <5>1, <5>3
        <5> QED BY <5>2, <5>3
      <4> QED BY <3>4, <4>1, <4>2
    <3> QED BY <3>2, <3>5, <3>6
  <2>2. CASE i \notin 1..N
    <3>1. i - N \in 1..Len(code) /\ code[i - N].op = "jne" /\ code[i - N].label = l
      BY <1>1, <2>2
    <3>2. PICK b \in 1..Len(blocks') : Jumping(blocks'[b]) /\ blocks'[b].exit = l
      BY <3>1
    <3>3. Unplaced(l)'
      BY <1>11, <3>2
    <3>4. \A j \in 1..M : ~Places(j, l)'
      BY <3>3 DEF Unplaced, M
    <3>5. \A k \in i..M : instrs'[k].op # "function"
      <4> SUFFICES ASSUME NEW k \in i..M, instrs'[k].op = "function" PROVE FALSE
        OBVIOUS
      <4>1. k \in 1..M /\ k \notin 1..N
        BY <1>1, <2>2
      <4> QED BY <1>13, <3>1, <4>1
    <3> QED BY <3>2, <3>4, <3>5
  <2> QED BY <2>1, <2>2
<1> QED BY <1>12, <1>14 DEF JumpInv

-----------------------------------------------------------------------------
(* What the allocator is given: the values of unfinished expressions are   *)
(* usable, and what is deleted belongs to no block that goes on with its   *)
(* statements.                                                             *)

Now(n) == Usable(Len(instrs) + 1, n)
MakeOps == {"value", "compute", "retval"}

AllocInv ==
  /\ AllocatorInput
  /\ \A i \in 1..Len(instrs) : Makes(i) => \E m \in 0..(nt - 1) : instrs[i].def = Temp(m)
  /\ \A i \in 1..Len(instrs) : instrs[i].op = "delete" =>
       \E t \in 0..(np - 1), x \in Source :
         /\ instrs[i].def = VarName(t, x)
         /\ \A b \in 1..Depth : blocks[b].table = t => blocks[b].phase = "update"
  /\ \A i \in 1..Len(vals) : Now(vals[i].n)

\* The operation and the name of a DeleteTAC.
LEMMA DeleteIs ==
  ASSUME NEW c, NEW n, c = DeleteTAC(n)
  PROVE  c.op = "delete" /\ c.def = n
BY DEF DeleteTAC, Instr

\* What is appended to the code changes nothing of what came before.
LEMMA BeforeStays ==
  ASSUME TypeOK, NEW code \in Seq(InstrT), Emit(code)
  PROVE  \A i \in 1..(Len(instrs) + 1) : \A n :
           /\ DeletedBefore(i, n)' <=> DeletedBefore(i, n)
           /\ MadeBefore(i, n)' <=> MadeBefore(i, n)
           /\ Usable(i, n)' <=> Usable(i, n)
<1> DEFINE N == Len(instrs)
<1>1. N \in Nat /\ \A i \in 1..N : instrs'[i] = instrs[i]
  BY EmitFacts DEF TypeOK
<1> SUFFICES ASSUME NEW i \in 1..(N + 1), NEW n
             PROVE  /\ DeletedBefore(i, n)' <=> DeletedBefore(i, n)
                    /\ MadeBefore(i, n)' <=> MadeBefore(i, n)
                    /\ Usable(i, n)' <=> Usable(i, n)
  OBVIOUS
<1>2. \A j \in 1..(i - 1) : j \in 1..N
  BY <1>1
<1> HIDE DEF N
<1>3. DeletedBefore(i, n)' <=> DeletedBefore(i, n)
  BY <1>1, <1>2 DEF DeletedBefore
<1>4. MadeBefore(i, n)' <=> MadeBefore(i, n)
  BY <1>1, <1>2 DEF MadeBefore, Makes
<1> QED BY <1>3, <1>4 DEF Usable

\* A number drawn before is still within the counter, which only grows.
LEMMA Within ==
  ASSUME NEW a \in Nat, NEW b \in Nat, a <= b, NEW m \in 0..(a - 1)
  PROVE  m \in 0..(b - 1) /\ m < a
OBVIOUS

\* A step that deletes nothing and begins or ends blocks.
LEMMA AllocKeeps ==
  ASSUME TypeOK, AllocInv, NEW code \in Seq(InstrT), Emit(code),
         nt' \in Nat, np' \in Nat, nt <= nt', np <= np', Len(blocks') \in Nat,
         \A i \in 1..Len(code) : code[i].op # "delete",
         \A i \in 1..Len(code) : \A n \in code[i].uses : Now(n),
         \A i \in 1..Len(code) : code[i].op = "assign" => Now(code[i].def),
         \A i \in 1..Len(code) : code[i].op \in MakeOps =>
           /\ code[i].def = Temp(nt) /\ nt' = nt + 1
           /\ \A j \in 1..Len(code) : code[j].op \in MakeOps => j = i,
         \A i \in 1..Len(vals') :
           \/ Now(vals'[i].n)
           \/ \E j \in 1..Len(code) : code[j].op \in MakeOps /\ code[j].def = vals'[i].n,
         \A b \in 1..Len(blocks') :
           \/ blocks'[b].table >= np /\ blocks'[b].table \in Nat
           \/ \E a \in 1..Depth : /\ blocks[a].table = blocks'[b].table
                                  /\ blocks[a].phase = "update" => blocks'[b].phase = "update"
  PROVE  AllocInv'
<1> DEFINE N == Len(instrs)
           M == Len(instrs')
<1>1. /\ N \in Nat /\ Len(code) \in Nat /\ M = N + Len(code)
      /\ \A i \in 1..N : i \in 1..M /\ instrs'[i] = instrs[i]
      /\ \A i \in 1..Len(code) : N + i \in 1..M /\ instrs'[N + i] = code[i]
      /\ \A i \in 1..M : i \notin 1..N => i - N \in 1..Len(code) /\ instrs'[i] = code[i - N]
  BY EmitFacts DEF TypeOK
<1>2. \A i \in 1..(N + 1) : \A n :
           /\ DeletedBefore(i, n)' <=> DeletedBefore(i, n)
           /\ MadeBefore(i, n)' <=> MadeBefore(i, n)
           /\ Usable(i, n)' <=> Usable(i, n)
  BY BeforeStays DEF N
<1>3. nt \in Nat /\ np \in Nat
  BY DEF TypeOK
<1> HIDE DEF N, M
\* What can be used at the end of the code can be used further on.
<1>4. ASSUME NEW i \in (N + 1)..(M + 1), NEW n PROVE
        /\ DeletedBefore(i, n)' => DeletedBefore(N + 1, n)
        /\ MadeBefore(N + 1, n) => MadeBefore(i, n)'
        /\ Now(n) => Usable(i, n)'
  <2>1. ASSUME DeletedBefore(i, n)' PROVE DeletedBefore(N + 1, n)
    <3>1. PICK j \in 1..(i - 1) : instrs'[j] = DeleteTAC(n)
      BY <2>1 DEF DeletedBefore
    <3>2. j \in 1..M /\ instrs'[j].op = "delete"
      BY <1>1, <3>1, DeleteIs
    <3>3. j \in 1..N
      <4>1. j \notin 1..N => j - N \in 1..Len(code) /\ instrs'[j] = code[j - N]
        BY <1>1, <3>2
      <4> QED BY <3>2, <4>1
    <3>4. j \in 1..((N + 1) - 1) /\ instrs[j] = DeleteTAC(n)
      BY <1>1, <3>1, <3>3
    <3> QED BY <3>4 DEF DeletedBefore
  <2>2. ASSUME MadeBefore(N + 1, n) PROVE MadeBefore(i, n)'
    <3>1. PICK j \in 1..N : Makes(j) /\ instrs[j].def = n
      BY <1>1, <2>2 DEF MadeBefore
    <3>2. j \in 1..(i - 1) /\ instrs'[j] = instrs[j]
      BY <1>1, <3>1
    <3> QED BY <3>1, <3>2 DEF MadeBefore, Makes
  <2> QED BY <2>1, <2>2 DEF Now, Usable, N
<1>5. \A i \in 1..M : i \in 1..(N + 1) \/ i \in (N + 1)..(M + 1)
  BY <1>1
<1>6. \A i \in 1..N : \A n : MadeBefore(i, n) => \E m \in 0..(nt - 1) : n = Temp(m)
  <2> SUFFICES ASSUME NEW i \in 1..N, NEW n, MadeBefore(i, n) PROVE \E m \in 0..(nt - 1) : n = Temp(m)
    OBVIOUS
  <2>1. PICK j \in 1..(i - 1) : Makes(j) /\ instrs[j].def = n
    BY DEF MadeBefore
  <2>2. j \in 1..N
    BY <1>1
  <2> QED BY <2>1, <2>2 DEF AllocInv, N
<1>7. ASSUME NEW j \in 1..M, Makes(j)', j \in 1..N PROVE \E m \in 0..(nt - 1) : instrs'[j].def = Temp(m)
  <2>1. Makes(j) /\ instrs'[j] = instrs[j]
    BY <1>1, <1>7 DEF Makes
  <2> QED BY <1>7, <2>1 DEF AllocInv, N
<1>8. ASSUME NEW j \in 1..M, Makes(j)', j \notin 1..N
      PROVE  /\ j - N \in 1..Len(code) /\ instrs'[j] = code[j - N] /\ code[j - N].op \in MakeOps
             /\ instrs'[j].def = Temp(nt) /\ nt' = nt + 1
  <2>1. j - N \in 1..Len(code) /\ instrs'[j] = code[j - N]
    BY <1>1, <1>8
  <2>2. code[j - N].op \in MakeOps
    BY <1>8, <2>1 DEF Makes, MakeOps
  <2> QED BY <2>1, <2>2
<1>9. AllocatorInput'
  <2> SUFFICES ASSUME NEW i \in 1..M
               PROVE  /\ \A n \in instrs'[i].uses : Usable(i, n)'
                      /\ Makes(i)' => ~IsVar(instrs'[i].def) /\ \A n : n = instrs'[i].def => ~MadeBefore(i, n)'
                      /\ instrs'[i].op = "assign" => \A n : n = instrs'[i].def => Usable(i, n)'
                      /\ instrs'[i].op = "delete" =>
                           /\ IsVar(instrs'[i].def)
                           /\ \A n : n = instrs'[i].def => ~DeletedBefore(i, n)'
    BY DEF AllocatorInput, M
  <2>1. CASE i \in 1..N
    <3>1. instrs'[i] = instrs[i] /\ (Makes(i)' <=> Makes(i)) /\ i \in 1..(N + 1)
      BY <1>1, <2>1 DEF Makes
    <3>2. /\ \A n \in instrs[i].uses : Usable(i, n)
          /\ Makes(i) => ~IsVar(instrs[i].def) /\ ~MadeBefore(i, instrs[i].def)
          /\ instrs[i].op = "assign" => Usable(i, instrs[i].def)
          /\ instrs[i].op = "delete" => IsVar(instrs[i].def) /\ ~DeletedBefore(i, instrs[i].def)
      BY <2>1 DEF AllocInv, AllocatorInput, N
    <3> QED BY <1>2, <3>1, <3>2
  <2>2. CASE i \notin 1..N
    <3>1. i - N \in 1..Len(code) /\ instrs'[i] = code[i - N] /\ i \in (N + 1)..(M + 1)
      BY <1>1, <2>2
    <3>2. \A n \in instrs'[i].uses : Usable(i, n)'
      BY <1>4, <3>1
    <3>3. instrs'[i].op = "assign" => \A n : n = instrs'[i].def => Usable(i, n)'
      BY <1>4, <3>1
    <3>4. ASSUME Makes(i)' PROVE ~IsVar(instrs'[i].def) /\ \A n : n = instrs'[i].def => ~MadeBefore(i, n)'
      <4>1. code[i - N].op \in MakeOps /\ instrs'[i].def = Temp(nt) /\ ~IsVar(Temp(nt))
        BY <1>3, <1>8, <2>2, <3>4, NameFacts
      <4> SUFFICES ASSUME NEW n, n = Temp(nt), MadeBefore(i, n)' PROVE FALSE
        BY <4>1
      <4>2. PICK j \in 1..(i - 1) : Makes(j)' /\ instrs'[j].def = n
        BY DEF MadeBefore
      <4>3. j \in 1..M /\ j # i
        BY <1>1
      <4>4. CASE j \in 1..N
        <5>1. PICK m \in 0..(nt - 1) : n = Temp(m)
          BY <1>7, <4>2, <4>3, <4>4
        <5>2. m \in Nat /\ m # nt
          BY <1>3
        <5> QED BY <1>3, <5>1, <5>2, NameFacts
      <4>5. CASE j \notin 1..N
        <5>1. j - N \in 1..Len(code) /\ code[j - N].op \in MakeOps
          BY <1>8, <4>2, <4>3, <4>5
        <5>2. j - N = i - N
          BY <3>1, <4>1, <5>1
        <5> QED BY <1>1, <4>3, <5>2
      <4> QED BY <4>4, <4>5
    <3>5. instrs'[i].op # "delete"
      BY <3>1
    <3> QED BY <3>2, <3>3, <3>4, <3>5
  <2> QED BY <2>1, <2>2
<1>10. \A i \in 1..M : Makes(i)' => \E m \in 0..(nt' - 1) : instrs'[i].def = Temp(m)
  <2> SUFFICES ASSUME NEW i \in 1..M, Makes(i)' PROVE \E m \in 0..(nt' - 1) : instrs'[i].def = Temp(m)
    OBVIOUS
  <2>1. CASE i \in 1..N
    <3>1. PICK m \in 0..(nt - 1) : instrs'[i].def = Temp(m)
      BY <1>7, <2>1
    <3>2. m \in 0..(nt' - 1)
      BY <1>3, RangeFacts
    <3> QED BY <3>1, <3>2
  <2>2. CASE i \notin 1..N
    <3>1. instrs'[i].def = Temp(nt) /\ nt' = nt + 1
      BY <1>8, <2>2
    <3>2. nt \in 0..(nt' - 1)
      BY <1>3, <3>1
    <3> QED BY <3>1, <3>2
  <2> QED BY <2>1, <2>2
<1>11. \A i \in 1..M : instrs'[i].op = "delete" =>
         \E t \in 0..(np' - 1), x \in Source :
           /\ instrs'[i].def = VarName(t, x)
           /\ \A b \in 1..Len(blocks') : blocks'[b].table = t => blocks'[b].phase = "update"
  <2> SUFFICES ASSUME NEW i \in 1..M, instrs'[i].op = "delete"
               PROVE  \E t \in 0..(np' - 1), x \in Source :
                        /\ instrs'[i].def = VarName(t, x)
                        /\ \A b \in 1..Len(blocks') : blocks'[b].table = t => blocks'[b].phase = "update"
    OBVIOUS
  <2>1. i \in 1..N /\ instrs'[i] = instrs[i]
    <3>1. i \notin 1..N => i - N \in 1..Len(code) /\ instrs'[i] = code[i - N]
      BY <1>1
    <3>2. i \in 1..N
      BY <3>1
    <3> QED BY <1>1, <3>2
  <2>2. PICK t \in 0..(np - 1), x \in Source :
          /\ instrs[i].def = VarName(t, x)
          /\ \A b \in 1..Depth : blocks[b].table = t => blocks[b].phase = "update"
    BY <2>1 DEF AllocInv, N
  <2>3. t \in 0..(np' - 1) /\ t < np
    <3>1. t \in 0..(np - 1) /\ np <= np' /\ np' \in Nat
      BY <2>2
    <3> QED BY ONLY <1>3, <3>1, Within
  <2>4. \A b \in 1..Len(blocks') : blocks'[b].table = t => blocks'[b].phase = "update"
    <3>1. ASSUME NEW b \in 1..Len(blocks'), blocks'[b].table = t PROVE blocks'[b].phase = "update"
      <4>1. \/ blocks'[b].table >= np /\ blocks'[b].table \in Nat
            \/ \E a \in 1..Depth : /\ blocks[a].table = blocks'[b].table
                                   /\ blocks[a].phase = "update" => blocks'[b].phase = "update"
        OBVIOUS
      <4>2. ~(blocks'[b].table >= np)
        BY ONLY <1>3, <2>3, <3>1, np' \in Nat
      <4> QED BY ONLY <2>2, <3>1, <4>1, <4>2
    <3> QED BY <3>1
  <2>5. instrs'[i].def = VarName(t, x) /\ x \in Source
    BY ONLY <2>1, <2>2
  <2> QED BY ONLY <2>3, <2>4, <2>5
<1>12. ASSUME NEW i \in 1..Len(vals'), NEW n, n = vals'[i].n, NEW p, p = M + 1 PROVE Usable(p, n)'
  <2>0. p \in (N + 1)..(M + 1)
    BY <1>1, <1>12
  <2>1. CASE Now(n)
    BY <1>4, <2>0, <2>1
  <2>2. CASE \E j \in 1..Len(code) : code[j].op \in MakeOps /\ code[j].def = n
    <3>1. PICK j \in 1..Len(code) : code[j].op \in MakeOps /\ code[j].def = n
      BY <2>2
    <3>2. N + j \in 1..M /\ instrs'[N + j] = code[j]
      BY <1>1
    <3>3. PICK k \in 1..M : instrs'[k] = code[j]
      BY <3>2
    <3>4. k \in 1..(p - 1)
      BY <1>1, <1>12, <3>3
    <3>5. Makes(k)' /\ instrs'[k].def = n
      BY <3>1, <3>3 DEF Makes, MakeOps
    <3>6. MadeBefore(p, n)'
      BY <3>4, <3>5 DEF MadeBefore
    <3> QED BY <3>6 DEF Usable
  <2> QED BY <1>12, <2>1, <2>2
<1>13. \A i \in 1..Len(vals') : Now(vals[i].n)'
  BY <1>12 DEF Now, M
<1> QED BY <1>9, <1>10, <1>11, <1>13 DEF AllocInv, Depth, M

\* Code of up to three instructions as a sequence.
LEMMA CodeFacts ==
  ASSUME NEW a \in InstrT, NEW b \in InstrT, NEW c \in InstrT
  PROVE  /\ <<>> \in Seq(InstrT) /\ Len(<<>>) = 0
         /\ <<a>> \in Seq(InstrT) /\ Len(<<a>>) = 1 /\ <<a>>[1] = a
         /\ <<a, b>> \in Seq(InstrT) /\ Len(<<a, b>>) = 2 /\ <<a, b>>[1] = a /\ <<a, b>>[2] = b
         /\ <<a, b, c>> \in Seq(InstrT) /\ Len(<<a, b, c>>) = 3
         /\ <<a, b, c>>[1] = a /\ <<a, b, c>>[2] = b /\ <<a, b, c>>[3] = c
OBVIOUS

\* Code followed by one more instruction as a sequence.
LEMMA EndsWith ==
  ASSUME NEW code \in Seq(InstrT), NEW c \in InstrT
  PROVE  /\ code \o <<c>> \in Seq(InstrT) /\ Len(code) \in Nat /\ Len(code \o <<c>>) = Len(code) + 1
         /\ (code \o <<c>>)[Len(code) + 1] = c
         /\ \A i \in 1..(Len(code) + 1) :
              (i \in 1..Len(code) /\ (code \o <<c>>)[i] = code[i]) \/ i = Len(code) + 1
<1>1. <<c>> \in Seq(InstrT) /\ Len(<<c>>) = 1 /\ <<c>>[1] = c /\ Len(code) \in Nat
  OBVIOUS
<1>2. /\ code \o <<c>> \in Seq(InstrT) /\ Len(code \o <<c>>) = Len(code) + 1
      /\ \A i \in 1..(Len(code) + 1) :
           (code \o <<c>>)[i] = IF i <= Len(code) THEN code[i] ELSE <<c>>[i - Len(code)]
  BY <1>1, ConcatProperties
<1>3. (code \o <<c>>)[Len(code) + 1] = c
  BY <1>1, <1>2
<1>4. \A i \in 1..(Len(code) + 1) :
        (i \in 1..Len(code) /\ (code \o <<c>>)[i] = code[i]) \/ i = Len(code) + 1
  BY <1>1, <1>2
<1> QED BY <1>1, <1>2, <1>3, <1>4

\* A step that appends nothing.
LEMMA EmitNothing ==
  ASSUME TypeOK, UNCHANGED instrs
  PROVE  Emit(<<>>) /\ <<>> \in Seq(InstrT) /\ Len(<<>>) = 0
BY ConcatEmptySeq DEF TypeOK, Emit

\* The variables of a block that goes on with its statements are usable.
LEMMA NameUsable ==
  ASSUME TypeOK, ScopeInv, AllocInv, NEW b \in 1..Depth, blocks[b].phase # "update", NEW x \in Source
  PROVE  Now(VarName(blocks[b].table, x))
<1> DEFINE n == VarName(blocks[b].table, x)
<1>1. blocks[b].table \in Nat
  BY TopFacts DEF BlockT
<1>2. IsVar(n)
  BY <1>1, NameFacts
<1>3. ~DeletedBefore(Len(instrs) + 1, n)
  <2> SUFFICES ASSUME NEW j \in 1..((Len(instrs) + 1) - 1), instrs[j] = DeleteTAC(n) PROVE FALSE
    BY DEF DeletedBefore
  <2>1. j \in 1..Len(instrs)
    BY DEF TypeOK
  <2>2. instrs[j].op = "delete" /\ instrs[j].def = n
    BY DeleteIs
  <2>3. PICK t \in 0..(np - 1), y \in Source :
          /\ n = VarName(t, y)
          /\ \A a \in 1..Depth : blocks[a].table = t => blocks[a].phase = "update"
    BY <2>1, <2>2 DEF AllocInv
  <2>4. t \in Nat
    BY DEF TypeOK
  <2>5. blocks[b].table = t
    BY <1>1, <2>3, <2>4, NameFacts
  <2> QED BY <2>3, <2>5
<1> HIDE DEF n
<1>4. Now(n)
  BY <1>2, <1>3 DEF Now, Usable
<1> QED BY <1>4 DEF n

\* The end of a list of statements: its variables are deleted.
LEMMA AllocDelete ==
  ASSUME TypeOK, ScopeInv, AllocInv, NEW tail \in Seq(InstrT), Emit(Deletes \o tail), Top.phase = "list",
         \A i \in 1..Len(tail) : tail[i].op \in {"leave", "label"} /\ tail[i].uses = {},
         UNCHANGED <<nt, np>>, vals' = <<>>, Len(blocks') \in Nat,
         \A b \in 1..Len(blocks') :
           \E a \in 1..Depth : /\ blocks[a].table = blocks'[b].table
                               /\ blocks[a].phase = "update" => blocks'[b].phase = "update"
                               /\ a = Depth => blocks'[b].phase = "update"
  PROVE  /\ AllocInv'
         /\ Deletes \o tail \in Seq(InstrT)
         /\ Len(Deletes \o tail) = Len(Top.locals) + Len(tail)
         /\ \A i \in 1..(Len(Top.locals) + Len(tail)) :
              IF i <= Len(Top.locals) THEN (Deletes \o tail)[i].op = "delete"
              ELSE (Deletes \o tail)[i] = tail[i - Len(Top.locals)]
<1> DEFINE L == Top.locals
           W == Len(L)
           N == Len(instrs)
           M == Len(instrs')
           code == Deletes \o tail
           T == Top.table
<1>1. /\ L \in Seq(Names) /\ W \in Nat /\ T \in Nat /\ T < np /\ Top.seen \subseteq Source
      /\ \A m \in 1..W : \E x \in Top.seen : L[m] = VarName(T, x)
      /\ \A m, n \in 1..W : L[m] = L[n] => m = n
  <2>1. Top \in BlockT
    BY TopFacts
  <2>2. LocalsOK(Top) /\ T < np
    BY TopFacts DEF ScopeInv, BlocksOK, Depth
  <2> QED BY <2>1, <2>2 DEF BlockT, LocalsOK
<1>2. Deletes \in Seq(InstrT) /\ Len(Deletes) = W /\ \A i \in 1..W : Deletes[i] = DeleteTAC(L[i])
  <2>1. \A i \in 1..W : DeleteTAC(L[i]) \in InstrT
    <3>1. \A i \in 1..W : L[i] \in Names
      BY <1>1
    <3> QED BY <3>1, InstrFacts
  <2> HIDE DEF W
  <2>2. [i \in 1..W |-> DeleteTAC(L[i])] \in Seq(InstrT)
    BY <1>1, <2>1
  <2> QED BY <1>1, <2>2 DEF Deletes, W
<1>3. /\ code \in Seq(InstrT) /\ Len(code) = W + Len(tail) /\ Len(tail) \in Nat
      /\ \A i \in 1..(W + Len(tail)) : code[i] = IF i <= W THEN Deletes[i] ELSE tail[i - W]
  <2> HIDE DEF W
  <2>1. Len(tail) \in Nat
    OBVIOUS
  <2>2. /\ code \in Seq(InstrT) /\ Len(code) = Len(Deletes) + Len(tail)
        /\ \A i \in 1..(Len(Deletes) + Len(tail)) :
             code[i] = IF i <= Len(Deletes) THEN Deletes[i] ELSE tail[i - Len(Deletes)]
    <3>1. \A s1, s2 \in Seq(InstrT) :
            /\ s1 \o s2 \in Seq(InstrT) /\ Len(s1 \o s2) = Len(s1) + Len(s2)
            /\ \A i \in 1..(Len(s1) + Len(s2)) :
                 (s1 \o s2)[i] = IF i <= Len(s1) THEN s1[i] ELSE s2[i - Len(s1)]
      BY ConcatProperties
    <3>2. tail \in Seq(InstrT)
      OBVIOUS
    <3> QED BY <1>2, <3>1, <3>2, Zenon
  <2> HIDE DEF code
  <2> QED BY <1>2, <2>1, <2>2
<1> HIDE DEF code, W, L, T
\* An instruction of this code deletes a variable of the block, or is the
\* last.
<1>4. ASSUME NEW i \in 1..Len(code)
      PROVE  \/ i \in 1..W /\ code[i] = DeleteTAC(L[i])
             \/ i > W /\ code[i] = tail[i - W] /\ code[i].op \in {"leave", "label"} /\ code[i].uses = {}
  <2>1. CASE i <= W
    BY <1>1, <1>2, <1>3, <2>1
  <2>2. CASE i > W
    <3>1. i - W \in 1..Len(tail) /\ code[i] = tail[i - W]
      BY <1>1, <1>3, <2>2
    <3> QED BY <2>2, <3>1
  <2> QED BY <1>1, <2>1, <2>2
<1>5. \A i \in 1..Len(code) :
        /\ code[i].op \in {"delete", "leave", "label"} /\ code[i].uses = {}
        /\ code[i].op = "delete" => i \in 1..W /\ code[i].def = L[i]
  <2>1. \A n : DeleteTAC(n).uses = {} /\ DeleteTAC(n).op = "delete" /\ DeleteTAC(n).def = n
    BY DEF DeleteTAC, Instr
  <2> QED BY <1>4, <2>1
<1>6. /\ N \in Nat /\ Len(code) \in Nat /\ M = N + Len(code)
      /\ \A i \in 1..N : i \in 1..M /\ instrs'[i] = instrs[i]
      /\ \A i \in 1..M : i \notin 1..N => i - N \in 1..Len(code) /\ instrs'[i] = code[i - N]
  BY <1>3, EmitFacts DEF TypeOK, code
<1>7. \A i \in 1..(N + 1) : \A n :
           /\ DeletedBefore(i, n)' <=> DeletedBefore(i, n)
           /\ MadeBefore(i, n)' <=> MadeBefore(i, n)
           /\ Usable(i, n)' <=> Usable(i, n)
  BY <1>3, BeforeStays DEF N, code
<1> HIDE DEF N, M
\* Nothing of this table is deleted yet.
<1>8. ASSUME NEW j \in 1..N, NEW x \in Source, instrs[j].op = "delete", instrs[j].def = VarName(T, x) PROVE FALSE
  <2>1. PICK t \in 0..(np - 1), y \in Source :
          /\ instrs[j].def = VarName(t, y)
          /\ \A a \in 1..Depth : blocks[a].table = t => blocks[a].phase = "update"
    BY <1>8 DEF AllocInv, N
  <2>2. t \in Nat
    BY DEF TypeOK
  <2>3. t = T
    <3>1. VarName(t, y) = VarName(T, x) /\ T \in Nat /\ y \in Source
      BY <1>1, <1>8, <2>1
    <3> QED BY <2>2, <3>1, NameFacts
  <2>4. Depth \in 1..Depth /\ Top = blocks[Depth]
    BY TopFacts
  <2> QED BY <2>1, <2>3, <2>4 DEF T
<1>9. AllocatorInput'
  <2> SUFFICES ASSUME NEW i \in 1..M
               PROVE  /\ \A n \in instrs'[i].uses : Usable(i, n)'
                      /\ Makes(i)' => ~IsVar(instrs'[i].def) /\ \A n : n = instrs'[i].def => ~MadeBefore(i, n)'
                      /\ instrs'[i].op = "assign" => \A n : n = instrs'[i].def => Usable(i, n)'
                      /\ instrs'[i].op = "delete" =>
                           /\ IsVar(instrs'[i].def)
                           /\ \A n : n = instrs'[i].def => ~DeletedBefore(i, n)'
    BY DEF AllocatorInput, M
  <2>1. CASE i \in 1..N
    <3>1. instrs'[i] = instrs[i] /\ (Makes(i)' <=> Makes(i)) /\ i \in 1..(N + 1)
      BY <1>6, <2>1 DEF Makes
    <3>2. /\ \A n \in instrs[i].uses : Usable(i, n)
          /\ Makes(i) => ~IsVar(instrs[i].def) /\ ~MadeBefore(i, instrs[i].def)
          /\ instrs[i].op = "assign" => Usable(i, instrs[i].def)
          /\ instrs[i].op = "delete" => IsVar(instrs[i].def) /\ ~DeletedBefore(i, instrs[i].def)
      BY <2>1 DEF AllocInv, AllocatorInput, N
    <3> QED BY <1>7, <3>1, <3>2
  <2>2. CASE i \notin 1..N
    <3>1. i - N \in 1..Len(code) /\ instrs'[i] = code[i - N]
      BY <1>6, <2>2
    <3>2. instrs'[i].uses = {} /\ instrs'[i].op # "assign" /\ ~Makes(i)'
      BY <1>5, <3>1 DEF Makes
    <3>3. ASSUME instrs'[i].op = "delete", NEW n, n = instrs'[i].def PROVE IsVar(n) /\ ~DeletedBefore(i, n)'
      <4>1. i - N \in 1..W /\ n = L[i - N]
        BY <1>5, <3>1, <3>3
      <4>2. PICK x \in Source : n = VarName(T, x)
        BY <1>1, <4>1
      <4> SUFFICES ASSUME NEW j \in 1..(i - 1), instrs'[j] = DeleteTAC(n) PROVE FALSE
        BY <1>1, <4>2, NameFacts DEF DeletedBefore
      <4>3. j \in 1..M /\ j # i /\ instrs'[j].op = "delete" /\ instrs'[j].def = n
        BY <1>6, DeleteIs
      <4>4. CASE j \in 1..N
        BY <1>6, <1>8, <4>2, <4>3, <4>4
      <4>5. CASE j \notin 1..N
        <5>1. j - N \in 1..Len(code) /\ instrs'[j] = code[j - N]
          BY <1>6, <4>3, <4>5
        <5>2. j - N \in 1..W /\ n = L[j - N]
          BY <1>5, <4>3, <5>1
        <5>3. j - N = i - N
          BY <1>1, <4>1, <5>2
        <5> QED BY <1>6, <4>3, <5>3
      <4> QED BY <4>4, <4>5
    <3> QED BY <3>2, <3>3
  <2> QED BY <2>1, <2>2
<1>10. \A i \in 1..M : Makes(i)' => \E m \in 0..(nt' - 1) : instrs'[i].def = Temp(m)
  <2> SUFFICES ASSUME NEW i \in 1..M, Makes(i)' PROVE \E m \in 0..(nt' - 1) : instrs'[i].def = Temp(m)
    OBVIOUS
  <2>1. i \notin 1..N => i - N \in 1..Len(code) /\ instrs'[i] = code[i - N]
    BY <1>6
  <2>2. i \in 1..N
    BY <1>5, <2>1 DEF Makes
  <2>3. Makes(i) /\ instrs'[i] = instrs[i]
    BY <1>6, <2>2 DEF Makes
  <2> QED BY <2>2, <2>3 DEF AllocInv, N
<1>11. \A i \in 1..M : instrs'[i].op = "delete" =>
         \E t \in 0..(np' - 1), x \in Source :
           /\ instrs'[i].def = VarName(t, x)
           /\ \A b \in 1..Len(blocks') : blocks'[b].table = t => blocks'[b].phase = "update"
  <2> SUFFICES ASSUME NEW i \in 1..M, instrs'[i].op = "delete"
               PROVE  \E t \in 0..(np - 1), x \in Source :
                        /\ instrs'[i].def = VarName(t, x)
                        /\ \A b \in 1..Len(blocks') : blocks'[b].table = t => blocks'[b].phase = "update"
    OBVIOUS
  <2>1. CASE i \in 1..N
    <3>1. instrs'[i] = instrs[i]
      BY <1>6, <2>1
    <3>2. PICK t \in 0..(np - 1), x \in Source :
            /\ instrs[i].def = VarName(t, x)
            /\ \A b \in 1..Depth : blocks[b].table = t => blocks[b].phase = "update"
      BY <2>1, <3>1 DEF AllocInv, N
    <3>3. \A b \in 1..Len(blocks') : blocks'[b].table = t => blocks'[b].phase = "update"
      BY <3>2
    <3> QED BY <3>1, <3>2, <3>3
  <2>2. CASE i \notin 1..N
    <3>1. i - N \in 1..Len(code) /\ instrs'[i] = code[i - N]
      BY <1>6, <2>2
    <3>2. i - N \in 1..W /\ instrs'[i].def = L[i - N]
      BY <1>5, <3>1
    <3>3. PICK x \in Source : instrs'[i].def = VarName(T, x)
      BY <1>1, <3>2
    <3>4. T \in 0..(np - 1)
      BY <1>1 DEF TypeOK
    <3>5. \A a \in 1..Depth : blocks[a].table = T => a = Depth
      <4>1. ASSUME NEW a \in 1..Depth, a < Depth PROVE blocks[a].table # T
        <5>1. blocks[a].table < T /\ blocks[a].table \in Nat
          BY <4>1, TopFacts DEF ScopeInv, BlocksOK, Depth, T, BlockT
        <5> QED BY <1>1, <5>1
      <4>2. Depth \in Nat
        BY TopFacts
      <4> QED BY <4>1, <4>2
    <3>6. \A b \in 1..Len(blocks') : blocks'[b].table = T => blocks'[b].phase = "update"
      BY <3>5
    <3> QED BY <3>3, <3>4, <3>6
  <2> QED BY <2>1, <2>2
<1>12. \A i \in 1..Len(vals') : Now(vals[i].n)'
  OBVIOUS
<1>13. AllocInv'
  BY <1>9, <1>10, <1>11, <1>12 DEF AllocInv, Depth, M
<1>14. \A i \in 1..Len(code) : IF i <= W THEN code[i].op = "delete" ELSE code[i] = tail[i - W]
  <2>1. \A n : DeleteTAC(n).op = "delete"
    BY DEF DeleteTAC, Instr
  <2> QED BY <1>1, <1>4, <2>1
<1> QED BY <1>3, <1>13, <1>14 DEF code, W, L

-----------------------------------------------------------------------------
(* The steps, by what they do.                                             *)

Inv == TypeOK /\ ScopeInv /\ AllocInv /\ JumpInv

\* The end of a statement.
LEMMA FinishKeeps ==
  ASSUME Inv, NEW bs, BlocksOK(bs, np), Len(bs) = Depth,
         \A i \in 1..Depth : Same(blocks[i], bs[i]) /\ bs[i].phase = blocks[i].phase,
         NEW k \in Lasts, NEW code \in Seq(InstrT), Finish(bs, k, code),
         Top.phase \in {"list", "init", "update"}, UNCHANGED <<nt, nl, np>>,
         \A i \in 1..Len(code) : /\ code[i].op \in {"assign", "call", "return"}
                                 /\ \A n \in code[i].uses : Now(n)
                                 /\ code[i].op = "assign" => Now(code[i].def)
  PROVE  instrs' \in Seq(InstrT) /\ vals' = <<>> /\ ScopeInv' /\ AllocInv' /\ JumpInv'
<1> USE DEF Inv
<1>1. /\ Depth \in Nat /\ Depth >= 1 /\ Depth \in 1..Depth /\ Top = blocks[Depth] /\ Top \in BlockT
      /\ Top.phase # "list" => Depth > 1 /\ Top.k = "for"
  BY TopFacts
<1>2. \A b \in 1..Depth : b < Depth => blocks[b].phase = "list"
  BY DEF ScopeInv, BlocksOK, Depth
<1>3. Top.k = "for" => Jumping(Top) /\ Drawn(Top.exit) /\ Unplaced(Top.exit)
  BY <1>1 DEF JumpInv, LabelsOK, Jumping
<1>4. vals' = <<>>
  BY DEF Finish
\* What is left to show of a case: the code with its label, and the blocks.
<1>5. ASSUME NEW all \in Seq(InstrT), Emit(all), Kept(blocks, blocks'), Len(blocks') \in Nat,
             \A i \in 1..Len(all) : \/ i \in 1..Len(code) /\ all[i] = code[i]
                                    \/ i = Len(all) /\ \E l \in Names : all[i] = LabelTAC(l),
             \A i \in 1..Len(all) : all[i].op = "label" =>
               /\ i = Len(all) /\ Drawn(all[i].label) /\ Unplaced(all[i].label)
               /\ \A b \in 1..Len(blocks') : /\ Jumping(blocks[b]) => blocks[b].exit # all[i].label
                                             /\ blocks'[b].phase # "init",
             \A b \in 1..Depth : Jumping(blocks[b]) =>
               b \in 1..Len(blocks') \/ (Len(all) > 0 /\ all[Len(all)].op = "label" /\ all[Len(all)].label = blocks[b].exit)
      PROVE  instrs' \in Seq(InstrT) /\ AllocInv' /\ JumpInv'
  <2>1. \A l : LabelTAC(l).op = "label" /\ LabelTAC(l).uses = {}
    BY DEF LabelTAC, Instr
  <2>2. \A i \in 1..Len(all) :
          /\ all[i].op \in {"assign", "call", "return", "label"}
          /\ \A n \in all[i].uses : Now(n)
          /\ all[i].op = "assign" => Now(all[i].def)
    <3> SUFFICES ASSUME NEW i \in 1..Len(all)
                 PROVE  /\ all[i].op \in {"assign", "call", "return", "label"}
                        /\ \A n \in all[i].uses : Now(n)
                        /\ all[i].op = "assign" => Now(all[i].def)
      OBVIOUS
    <3>1. CASE i \in 1..Len(code) /\ all[i] = code[i]
      BY <3>1
    <3>2. CASE \E l \in Names : all[i] = LabelTAC(l)
      BY <2>1, <3>2
    <3> QED BY <1>5, <3>1, <3>2
  <2>3. \A b \in 1..Len(blocks') :
          \E a \in 1..Depth : /\ blocks[a].table = blocks'[b].table
                              /\ blocks[a].phase = "update" => blocks'[b].phase = "update"
    <3>1. \A b \in 1..Len(blocks') : b \in 1..Depth
      BY <1>1, <1>5 DEF Kept, Depth
    <3> QED BY <1>5, <3>1 DEF Kept, Same
  <2>4. nt \in Nat /\ np \in Nat /\ nt <= nt /\ np <= np /\ Len(vals') = 0
    BY <1>4 DEF TypeOK
  <2>5. AllocInv'
    <3>1. \A i \in 1..Len(all) : all[i].op # "delete" /\ all[i].op \notin MakeOps
      BY <2>2 DEF MakeOps
    <3> QED BY <1>5, <2>2, <2>3, <2>4, <3>1, AllocKeeps
  <2>6. \A i \in 1..Len(all) : all[i].op \notin {"jne", "function"}
    BY <2>2
  <2>7. JumpInv'
    BY <1>5, <2>6, JumpsStay
  <2>8. instrs' \in Seq(InstrT)
    BY <1>5, EmitFacts DEF TypeOK
  <2> QED BY <2>5, <2>7, <2>8
<1>6. \A i \in 1..Len(code) : code[i].op # "label"
  OBVIOUS
<1>7. Depth \in 1..Len(bs) /\ bs[Depth] \in BlockT /\ bs[Depth].k = Top.k /\ bs[Depth].phase = Top.phase
  BY <1>1 DEF Same, BlocksOK
<1>8. CASE Top.phase = "list"
  <2>1. Emit(code) /\ blocks' = Past(bs, k)
    BY <1>8 DEF Finish
  <2>2. BlocksOK(blocks', np) /\ Len(blocks') = Depth
        /\ \A i \in 1..Depth : Same(bs[i], blocks'[i]) /\ blocks'[i].phase = bs[i].phase
    BY <2>1, PastFacts
  <2>3. Kept(blocks, blocks')
    BY <1>1, <2>2 DEF Kept, Same, Depth
  <2>4. instrs' \in Seq(InstrT) /\ AllocInv' /\ JumpInv'
    BY <1>1, <1>5, <1>6, <2>1, <2>2, <2>3
  <2> QED BY <1>4, <2>2, <2>4 DEF ScopeInv
<1>9. CASE Top.phase = "init"
  <2> DEFINE c == LabelTAC(Top.again)
             all == code \o <<c>>
  <2>1. Emit(all) /\ blocks' = [bs EXCEPT ![Len(bs)].phase = "cond"]
    BY <1>9 DEF Finish
  <2>2. /\ BlocksOK(blocks', np) /\ Len(blocks') = Depth
        /\ \A i \in 1..Depth : /\ Same(bs[i], blocks'[i])
                               /\ blocks'[i].phase = IF i = Depth THEN "cond" ELSE bs[i].phase
    <3>1. bs[Len(bs)].k = "for" /\ bs[Len(bs)].phase # "update" /\ "cond" \in Phases
      BY <1>1, <1>7, <1>9 DEF Phases
    <3> DEFINE X == [bs EXCEPT ![Len(bs)].phase = "cond"]
    <3>2. /\ BlocksOK(X, np) /\ Len(X) = Len(bs)
          /\ \A i \in 1..Len(bs) : Same(bs[i], X[i]) /\ X[i].phase = IF i = Len(bs) THEN "cond" ELSE bs[i].phase
      BY ONLY <3>1, BlocksOK(bs, np), PhaseFacts
    <3> QED BY <2>1, <3>2
  <2>3. Kept(blocks, blocks') /\ \A b \in 1..Depth : blocks'[b].phase # "init"
    BY <1>1, <1>2, <1>9, <2>2 DEF Kept, Same, Depth
  <2>4. Top.again \in Names /\ c \in InstrT /\ c.op = "label" /\ c.label = Top.again
    BY <1>1, InstrFacts DEF BlockT, LabelTAC, Instr
  <2>5. /\ all \in Seq(InstrT) /\ Len(code) \in Nat /\ Len(all) = Len(code) + 1 /\ all[Len(all)] = c
        /\ \A i \in 1..Len(all) : (i \in 1..Len(code) /\ all[i] = code[i]) \/ i = Len(all)
    BY <2>4, EndsWith
  <2>6. /\ Drawn(Top.again) /\ Unplaced(Top.again)
        /\ \A b \in 1..Depth : Jumping(blocks[b]) => blocks[b].exit # Top.again
    BY <1>1, <1>9 DEF JumpInv, LabelsOK
  <2> HIDE DEF all
  <2>7. \A i \in 1..Len(all) : \/ i \in 1..Len(code) /\ all[i] = code[i]
                               \/ i = Len(all) /\ \E l \in Names : all[i] = LabelTAC(l)
    BY <2>4, <2>5
  <2>8. \A i \in 1..Len(all) : all[i].op = "label" =>
          /\ i = Len(all) /\ Drawn(all[i].label) /\ Unplaced(all[i].label)
          /\ \A b \in 1..Len(blocks') : /\ Jumping(blocks[b]) => blocks[b].exit # all[i].label
                                        /\ blocks'[b].phase # "init"
    <3> HIDE DEF c
    <3> QED BY <1>6, <2>2, <2>3, <2>4, <2>5, <2>6
  <2>9. instrs' \in Seq(InstrT) /\ AllocInv' /\ JumpInv'
    BY <1>1, <1>5, <2>1, <2>2, <2>3, <2>5, <2>7, <2>8
  <2> QED BY <1>4, <2>2, <2>9 DEF ScopeInv
<1>10. CASE Top.phase = "update"
  <2> DEFINE c == LabelTAC(Top.exit)
             all == code \o <<c>>
             R == SubSeq(bs, 1, Len(bs) - 1)
  <2>1. Emit(all) /\ blocks' = Past(R, "other")
    BY <1>10 DEF Finish
  <2>2. BlocksOK(R, np) /\ Len(R) = Depth - 1 /\ \A i \in 1..(Depth - 1) : R[i] = bs[i]
    <3>1. Len(bs) > 1 /\ R = SubSeq(bs, 1, Len(bs) - 1)
      BY <1>1, <1>10
    <3> HIDE DEF R
    <3>2. BlocksOK(R, np) /\ Len(R) = Len(bs) - 1 /\ \A i \in 1..Len(R) : R[i] = bs[i]
      BY <3>1, PopFacts
    <3> QED BY <3>2
  <2> HIDE DEF R
  <2>3. /\ BlocksOK(blocks', np) /\ Len(blocks') = Depth - 1
        /\ \A i \in 1..(Depth - 1) : Same(bs[i], blocks'[i]) /\ blocks'[i].phase = bs[i].phase
    <3>1. "other" \in Lasts
      BY DEF Lasts
    <3>2. /\ BlocksOK(Past(R, "other"), np) /\ Len(Past(R, "other")) = Len(R)
          /\ \A i \in 1..Len(R) : /\ Same(R[i], Past(R, "other")[i])
                                 /\ Past(R, "other")[i].phase = R[i].phase
      BY ONLY <2>2, <3>1, PastFacts
    <3> QED BY ONLY <2>1, <2>2, <3>2
  <2>4. \A b \in 1..(Depth - 1) : /\ b \in 1..Depth /\ Same(blocks[b], blocks'[b])
                                  /\ blocks'[b].phase = "list" /\ blocks[b].phase = "list"
    BY <1>1, <1>2, <2>3 DEF Same
  <2>5. Kept(blocks, blocks')
    BY <1>1, <2>3, <2>4 DEF Kept, Depth
  <2>6. Top.exit \in Names /\ c \in InstrT /\ c.op = "label" /\ c.label = Top.exit
    BY <1>1, InstrFacts DEF BlockT, LabelTAC, Instr
  <2>7. /\ all \in Seq(InstrT) /\ Len(code) \in Nat /\ Len(all) = Len(code) + 1 /\ all[Len(all)] = c
        /\ \A i \in 1..Len(all) : (i \in 1..Len(code) /\ all[i] = code[i]) \/ i = Len(all)
    BY <2>6, EndsWith
  <2>8. \A b \in 1..(Depth - 1) : Jumping(blocks[b]) => blocks[b].exit # Top.exit
    BY <1>1, <1>3, <1>10, <2>4 DEF JumpInv, LabelsOK
  <2> HIDE DEF all
  <2>9. \A i \in 1..Len(all) : \/ i \in 1..Len(code) /\ all[i] = code[i]
                               \/ i = Len(all) /\ \E l \in Names : all[i] = LabelTAC(l)
    BY <2>6, <2>7
  <2> HIDE DEF c
  <2>10. \A i \in 1..Len(all) : all[i].op = "label" =>
          /\ i = Len(all) /\ Drawn(all[i].label) /\ Unplaced(all[i].label)
          /\ \A b \in 1..Len(blocks') : /\ Jumping(blocks[b]) => blocks[b].exit # all[i].label
                                        /\ blocks'[b].phase # "init"
    BY <1>1, <1>3, <1>6, <1>10, <2>3, <2>4, <2>6, <2>7, <2>8
  <2>11. \A b \in 1..Depth : Jumping(blocks[b]) =>
           b \in 1..Len(blocks') \/ (Len(all) > 0 /\ all[Len(all)].op = "label" /\ all[Len(all)].label = blocks[b].exit)
    BY <1>1, <2>3, <2>6, <2>7
  <2>12. instrs' \in Seq(InstrT) /\ AllocInv' /\ JumpInv'
    <3>1. Len(blocks') \in Nat
      BY <1>1, <2>3
    <3> QED BY <1>5, <2>1, <2>5, <2>7, <2>9, <2>10, <2>11, <3>1
  <2> QED BY <1>4, <2>3, <2>12 DEF ScopeInv
<1> QED BY <1>8, <1>9, <1>10

\* A step of an expression.
LEMMA ExprKeeps ==
  ASSUME Inv, UNCHANGED <<blocks, nl, np>>, nt' \in Nat, nt <= nt',
         NEW code \in Seq(InstrT), Emit(code),
         \A i \in 1..Len(code) : code[i].op \in {"value", "compute", "push", "call", "retval"},
         \A i \in 1..Len(code) : \A n \in code[i].uses : Now(n),
         \A i \in 1..Len(code) : code[i].op \in MakeOps =>
           /\ code[i].def = Temp(nt) /\ nt' = nt + 1
           /\ \A j \in 1..Len(code) : code[j].op \in MakeOps => j = i,
         \A i \in 1..Len(vals') :
           \/ Now(vals'[i].n)
           \/ \E j \in 1..Len(code) : code[j].op \in MakeOps /\ code[j].def = vals'[i].n
  PROVE  instrs' \in Seq(InstrT) /\ ScopeInv' /\ AllocInv' /\ JumpInv'
<1> USE DEF Inv
<1>1. Depth \in Nat /\ Len(blocks') = Depth
  BY TopFacts DEF Depth
<1>2. ScopeInv'
  BY DEF ScopeInv
<1>3. AllocInv'
  <2>1. \A i \in 1..Len(code) : code[i].op # "delete" /\ code[i].op # "assign"
    OBVIOUS
  <2>2. \A b \in 1..Len(blocks') :
          \E a \in 1..Depth : /\ blocks[a].table = blocks'[b].table
                              /\ blocks[a].phase = "update" => blocks'[b].phase = "update"
    BY <1>1
  <2>3. np' \in Nat /\ np <= np'
    BY DEF TypeOK
  <2> QED BY <1>1, <2>1, <2>2, <2>3, AllocKeeps
<1>4. JumpInv'
  <2>1. Kept(blocks, blocks')
    BY <1>1 DEF Kept, Same, Depth
  <2>2. \A i \in 1..Len(code) : code[i].op \notin {"jne", "function", "label"}
    OBVIOUS
  <2> QED BY <1>1, <2>1, <2>2, JumpsStay
<1>5. instrs' \in Seq(InstrT)
  BY EmitFacts DEF TypeOK
<1> QED BY <1>2, <1>3, <1>4, <1>5

\* The values after some are taken off and one is put on.
LEMMA ValsFacts ==
  ASSUME TypeOK, NEW m \in {0, 1, 2}, Held >= m
  PROVE  /\ Held \in Nat /\ Pop(m) \in Seq(ValT) /\ Len(Pop(m)) = Held - m
         /\ Pop(0) = vals
         /\ \A i \in 1..(Held - m) : i \in 1..Held /\ Pop(m)[i] = vals[i]
         /\ \A v \in ValT : /\ Append(Pop(m), v) \in Seq(ValT) /\ Len(Append(Pop(m), v)) = Held - m + 1
                            /\ \A i \in 1..(Held - m + 1) :
                                 \/ i \in 1..Held /\ Append(Pop(m), v)[i] = vals[i]
                                 \/ i = Held - m + 1 /\ Append(Pop(m), v)[i] = v
<1> DEFINE P == Pop(m)
<1>1. vals \in Seq(ValT) /\ Held \in Nat
  BY DEF TypeOK, Held
<1>2. \A i \in 1..(Held - m) : vals[i] \in ValT /\ i \in 1..Held
  BY <1>1 DEF Held
<1>3. P \in Seq(ValT) /\ Len(P) = Held - m /\ \A i \in 1..(Held - m) : P[i] = vals[i]
  BY <1>1, <1>2, SubSeqProperties DEF Pop
<1>4. Pop(0) = vals
  BY <1>1, SubSeqFull DEF Pop, Held
<1> HIDE DEF P
<1>5. ASSUME NEW v \in ValT
      PROVE  /\ Append(P, v) \in Seq(ValT) /\ Len(Append(P, v)) = Held - m + 1
             /\ \A i \in 1..(Held - m + 1) :
                  \/ i \in 1..Held /\ Append(P, v)[i] = vals[i]
                  \/ i = Held - m + 1 /\ Append(P, v)[i] = v
  <2>1. /\ Append(P, v) \in Seq(ValT) /\ Len(Append(P, v)) = Len(P) + 1
        /\ \A i \in 1..Len(P) : Append(P, v)[i] = P[i]
        /\ Append(P, v)[Len(P) + 1] = v
    BY <1>3, AppendProperties
  <2> QED BY <1>1, <1>2, <1>3, <2>1
<1> QED BY <1>1, <1>2, <1>3, <1>4, <1>5 DEF P

-----------------------------------------------------------------------------
(* Types, and the steps one by one.                                        *)

TableInv ==
  /\ \A n \in types : n[1] = "t" => \E m \in 0..(nt - 1) : n = Temp(m)
  /\ \A i \in 1..Len(vals) : vals[i].role = "target" => IsVar(vals[i].n) /\ Top.phase # "cond"

AllInv == Inv /\ TableInv

Roles == {"value", "calling", "callee", "target"}

\* What the steps make use of.
LEMMA StateFacts ==
  ASSUME AllInv
  PROVE  /\ TypeOK /\ ScopeInv /\ AllocInv /\ JumpInv /\ TableInv /\ Inv
         /\ nt \in Nat /\ nl \in Nat /\ np \in Nat /\ types \subseteq Names
         /\ vals \in Seq(ValT) /\ Held \in Nat
         /\ \A i \in 1..Held : /\ vals[i] \in ValT /\ vals[i].n \in Names /\ vals[i].role \in Roles
                               /\ Now(vals[i].n)
                               /\ vals[i].role = "target" => IsVar(vals[i].n) /\ Top.phase # "cond"
         /\ Temp(nt) \in Names /\ Temp(nt) \notin types
         /\ NoName \in Names /\ Now(NoName)
<1>1. /\ TypeOK /\ ScopeInv /\ AllocInv /\ JumpInv /\ TableInv /\ Inv
      /\ nt \in Nat /\ nl \in Nat /\ np \in Nat /\ types \subseteq Names
      /\ vals \in Seq(ValT)
  BY DEF AllInv, Inv, TypeOK
<1>2. Held \in Nat /\ \A i \in 1..Held : vals[i] \in ValT
  BY <1>1 DEF Held
<1>3. \A i \in 1..Held : vals[i].n \in Names /\ vals[i].role \in Roles
  BY <1>2 DEF ValT, Roles
<1>4. \A i \in 1..Held : Now(vals[i].n) /\ (vals[i].role = "target" => IsVar(vals[i].n) /\ Top.phase # "cond")
  BY <1>1 DEF AllocInv, TableInv, Held
<1>5. Temp(nt) \in Names /\ Temp(nt)[1] = "t" /\ NoName \in Names
  BY <1>1, NameFacts
<1>6. Temp(nt) \notin types
  <2> SUFFICES ASSUME Temp(nt) \in types PROVE FALSE
    OBVIOUS
  <2>1. PICK m \in 0..(nt - 1) : Temp(nt) = Temp(m)
    BY <1>1, <1>5 DEF TableInv
  <2>2. m \in Nat /\ m # nt
    BY <1>1
  <2> QED BY <1>1, <2>1, <2>2, NameFacts
<1>7. Now(NoName)
  BY DEF Now, Usable
<1> QED BY <1>1, <1>2, <1>3, <1>4, <1>5, <1>6, <1>7

\* The table of types when nothing is put into it, by either put.
LEMMA TableKeeps ==
  ASSUME AllInv, nt' \in Nat, nt <= nt',
         \/ UNCHANGED <<types, replaced>>
         \/ \E n \in Names : PutFromSymbol(n) /\ IsVar(n)
         \/ Put(Temp(nt)) /\ nt' = nt + 1
         \/ \E f \in Funcs : Put(VarName(0, f)),
         \A i \in 1..Len(vals') : vals'[i].role = "target" => IsVar(vals'[i].n) /\ Top'.phase # "cond"
  PROVE  TableInv' /\ types' \subseteq Names
<1>1. /\ nt \in Nat /\ types \subseteq Names /\ Temp(nt) \in Names /\ Temp(nt) \notin types /\ TableInv
  BY StateFacts
<1>2. \A m \in 0..(nt - 1) : m \in 0..(nt' - 1)
  BY <1>1, RangeFacts
<1>3. types' \subseteq Names
  <2>1. CASE UNCHANGED <<types, replaced>>
    BY <1>1, <2>1
  <2>2. CASE \E n \in Names : PutFromSymbol(n) /\ IsVar(n)
    BY <1>1, <2>2 DEF PutFromSymbol
  <2>3. CASE Put(Temp(nt)) /\ nt' = nt + 1
    BY <1>1, <2>3 DEF Put
  <2>4. CASE \E f \in Funcs : Put(VarName(0, f))
    <3>1. PICK f \in Funcs : Put(VarName(0, f))
      BY <2>4
    <3>2. VarName(0, f) \in Names
      BY NameFacts DEF Source
    <3> QED BY <1>1, <3>1, <3>2 DEF Put
  <2> QED BY <2>1, <2>2, <2>3, <2>4
<1>4. \A n \in types' : n[1] = "t" => \E m \in 0..(nt' - 1) : n = Temp(m)
  <2> SUFFICES ASSUME NEW n \in types', n[1] = "t" PROVE \E m \in 0..(nt' - 1) : n = Temp(m)
    OBVIOUS
  <2>1. CASE n \in types
    BY <1>1, <1>2, <2>1 DEF TableInv
  <2>2. CASE n \notin types
    <3>1. \/ IsVar(n)
          \/ n = Temp(nt) /\ nt' = nt + 1
          \/ \E f \in Funcs : n = VarName(0, f)
      BY <2>2 DEF PutFromSymbol, Put
    <3>2. ~IsVar(n)
      BY DEF IsVar
    <3>3. \A f \in Funcs : IsVar(VarName(0, f))
      BY NameFacts DEF Source
    <3>4. n = Temp(nt) /\ nt' = nt + 1
      BY <3>1, <3>2, <3>3
    <3>5. nt \in 0..(nt' - 1)
      BY <1>1, <3>4
    <3> QED BY <3>4, <3>5
  <2> QED BY <2>1, <2>2
<1> QED BY <1>3, <1>4 DEF TableInv

\* What the code of an expression leaves has the name and the role it was made with.
LEMMA ValIs ==
  ASSUME NEW n \in Names, NEW r \in Roles
  PROVE  Val(n, r) \in ValT /\ Val(n, r).n = n /\ Val(n, r).role = r
BY DEF Val, ValT, Roles

\* All parts together.
LEMMA Together ==
  ASSUME instrs' \in Seq(InstrT), vals' \in Seq(ValT), nt' \in Nat, nl' \in Nat, np' \in Nat, types' \subseteq Names,
         ScopeInv', AllocInv', JumpInv', TableInv'
  PROVE  AllInv'
BY DEF AllInv, Inv, TypeOK

\* What an expression emits: straight code that uses what is there and makes at most one new name.
ExprCode(code) ==
  /\ code \in Seq(InstrT) /\ Emit(code)
  /\ \A i \in 1..Len(code) : code[i].op \in {"value", "compute", "push", "call", "retval"}
  /\ \A i \in 1..Len(code) : \A n \in code[i].uses : Now(n)
  /\ \A i \in 1..Len(code) : code[i].op \in MakeOps =>
       /\ code[i].def = Temp(nt) /\ nt' = nt + 1
       /\ \A j \in 1..Len(code) : code[j].op \in MakeOps => j = i

\* What it leaves: v in the place of the last m values.
ExprValue(code, m, v) ==
  /\ m \in {0, 1, 2} /\ Held >= m
  /\ v \in ValT /\ vals' = Append(Pop(m), v) /\ v.role # "target"
  /\ Now(v.n) \/ \E j \in 1..Len(code) : code[j].op \in MakeOps /\ code[j].def = v.n

\* What it does to the type table.
ExprTable ==
  \/ UNCHANGED <<types, replaced>>
  \/ \E n \in Names : PutFromSymbol(n) /\ IsVar(n)
  \/ Put(Temp(nt)) /\ nt' = nt + 1

\* An expression takes m values off and puts v on, which it may have made.
LEMMA ExprStep ==
  ASSUME AllInv, UNCHANGED <<blocks, nl, np>>, nt' \in Nat, nt <= nt',
         NEW code, ExprCode(code), NEW m, NEW v, ExprValue(code, m, v), ExprTable
  PROVE  AllInv'
<1> USE StateFacts DEF ExprCode, ExprValue, ExprTable
<1>1. /\ vals' \in Seq(ValT)
      /\ \A i \in 1..Len(vals') : (\E j \in 1..Held : vals'[i] = vals[j]) \/ vals'[i] = v
  <2>1. /\ vals' \in Seq(ValT) /\ Len(vals') = Held - m + 1
        /\ \A i \in 1..(Held - m + 1) :
             \/ i \in 1..Held /\ vals'[i] = vals[i]
             \/ i = Held - m + 1 /\ vals'[i] = v
    <3>1. \A w \in ValT : /\ Append(Pop(m), w) \in Seq(ValT) /\ Len(Append(Pop(m), w)) = Held - m + 1
                          /\ \A i \in 1..(Held - m + 1) :
                               \/ i \in 1..Held /\ Append(Pop(m), w)[i] = vals[i]
                               \/ i = Held - m + 1 /\ Append(Pop(m), w)[i] = w
      BY ValsFacts
    <3> QED BY <3>1
  <2> QED BY <2>1
<1>2. \A i \in 1..Len(vals') :
        \/ Now(vals'[i].n)
        \/ \E j \in 1..Len(code) : code[j].op \in MakeOps /\ code[j].def = vals'[i].n
  BY <1>1
<1>3. instrs' \in Seq(InstrT) /\ ScopeInv' /\ AllocInv' /\ JumpInv'
  BY <1>2, ExprKeeps
<1>4. \A i \in 1..Len(vals') : vals'[i].role = "target" => IsVar(vals'[i].n) /\ Top'.phase # "cond"
  <2>1. Top' = Top
    BY DEF Top, Depth
  <2>2. \A i \in 1..Held : vals[i].role = "target" => IsVar(vals[i].n) /\ Top.phase # "cond"
    OBVIOUS
  <2>3. v.role # "target"
    OBVIOUS
  <2> QED BY ONLY <1>1, <2>1, <2>2, <2>3
<1>5. TableInv' /\ types' \subseteq Names
  BY <1>4, TableKeeps
<1> QED BY <1>1, <1>3, <1>5, Together

\* IntLiteral::to_tac keeps the invariant: the temporary of the literal is new.
LEMMA IntLiteralStep == ASSUME AllInv, IntLiteral PROVE AllInv'
<1> DEFINE c == Value(Temp(nt))
<1> USE StateFacts
<1>1. /\ Emit(<<c>>) /\ UNCHANGED <<blocks, nl, np>> /\ nt' = nt + 1 /\ Put(Temp(nt))
      /\ vals' = Append(vals, Val(Temp(nt), "value"))
  BY DEF IntLiteral, Push
<1>2. c \in InstrT /\ c.op = "value" /\ c.uses = {} /\ c.def = Temp(nt)
  <2>1. c \in InstrT
    BY InstrFacts
  <2> QED BY <2>1 DEF Value, Instr
<1> HIDE DEF c
<1>3. <<c>> \in Seq(InstrT) /\ Len(<<c>>) = 1 /\ \A i \in 1..1 : i = 1 /\ <<c>>[i] = c
  BY <1>2
<1>4. /\ Val(Temp(nt), "value") \in ValT /\ Val(Temp(nt), "value").n = Temp(nt)
      /\ Val(Temp(nt), "value").role # "target" /\ Held >= 0
      /\ vals' = Append(Pop(0), Val(Temp(nt), "value"))
  BY <1>1, ValIs, ValsFacts DEF Roles
<1>5. nt' \in Nat /\ nt <= nt'
  BY <1>1
<1> DEFINE code == <<c>>
           v == Val(Temp(nt), "value")
<1> HIDE DEF code, v
<1>6. /\ code \in Seq(InstrT) /\ Emit(code)
      /\ \A i \in 1..Len(code) : code[i].op \in {"value", "compute", "push", "call", "retval"}
      /\ \A i \in 1..Len(code) : \A n \in code[i].uses : Now(n)
      /\ \A i \in 1..Len(code) : code[i].op \in MakeOps =>
           /\ code[i].def = Temp(nt) /\ nt' = nt + 1
           /\ \A j \in 1..Len(code) : code[j].op \in MakeOps => j = i
  BY <1>1, <1>2, <1>3 DEF code
<1>7. \E j \in 1..Len(code) : code[j].op \in MakeOps /\ code[j].def = v.n
  <2>1. 1 \in 1..Len(code) /\ code[1].op \in MakeOps /\ code[1].def = v.n
    BY ONLY <1>2, <1>3, <1>4 DEF MakeOps, code, v
  <2> QED BY <2>1
<1>8. v \in ValT /\ vals' = Append(Pop(0), v) /\ v.role # "target"
  BY <1>4 DEF v
<1>9. ExprCode(code)
  BY ONLY <1>6 DEF ExprCode
<1>10. ExprValue(code, 0, v)
  BY ONLY <1>4, <1>7, <1>8 DEF ExprValue
<1>11. ExprTable
  BY ONLY <1>1 DEF ExprTable
<1>12. AllInv
  OBVIOUS
<1> QED BY ONLY <1>1, <1>5, <1>9, <1>10, <1>11, <1>12, ExprStep

\* An expression without code.
LEMMA QuietStep ==
  ASSUME AllInv, UNCHANGED <<instrs, blocks, nt, nl, np>>, NEW m \in {0, 1, 2}, Held >= m,
         NEW n \in Names, Now(n), NEW r \in Roles \ {"target"}, vals' = Append(Pop(m), Val(n, r)),
         \/ UNCHANGED <<types, replaced>>
         \/ \E u \in Names : PutFromSymbol(u) /\ IsVar(u)
  PROVE  AllInv'
<1> USE StateFacts
<1> DEFINE code == <<>>
           v == Val(n, r)
<1>1. code \in Seq(InstrT) /\ Len(code) = 0 /\ Emit(code)
  BY EmitNothing
<1>2. v \in ValT /\ v.n = n /\ v.role # "target" /\ vals' = Append(Pop(m), v)
  BY ValIs
<1>3. nt' \in Nat /\ nt <= nt'
  OBVIOUS
<1> HIDE DEF code, v
<1>4. /\ \A i \in 1..Len(code) : code[i].op \in {"value", "compute", "push", "call", "retval"}
      /\ \A i \in 1..Len(code) : \A u \in code[i].uses : Now(u)
      /\ \A i \in 1..Len(code) : code[i].op \in MakeOps =>
           /\ code[i].def = Temp(nt) /\ nt' = nt + 1
           /\ \A j \in 1..Len(code) : code[j].op \in MakeOps => j = i
  BY <1>1
<1>5. ExprCode(code)
  BY ONLY <1>1, <1>4 DEF ExprCode
<1>6. ExprValue(code, m, v)
  <2>1. m \in {0, 1, 2} /\ Held >= m /\ Now(n)
    OBVIOUS
  <2> QED BY ONLY <1>2, <2>1 DEF ExprValue
<1>7. ExprTable
  BY DEF ExprTable
<1>8. AllInv /\ UNCHANGED <<blocks, nl, np>>
  OBVIOUS
<1> QED BY ONLY <1>3, <1>5, <1>6, <1>7, <1>8, ExprStep

\* An expression without code keeps the invariant: it leaves the empty name.
LEMMA UnsupportedStep == ASSUME AllInv, Unsupported PROVE AllInv'
<1>1. NoName \in Names /\ Now(NoName) /\ Held >= 0 /\ Pop(0) = vals
  BY StateFacts, ValsFacts
<1>2. /\ UNCHANGED <<instrs, blocks, nt, nl, np>> /\ UNCHANGED <<types, replaced>>
      /\ vals' = Append(Pop(0), Val(NoName, "calling"))
  BY <1>1 DEF Unsupported, Push
<1>3. "calling" \in Roles \ {"target"}
  BY DEF Roles
<1> QED BY <1>1, <1>2, <1>3, QuietStep

\* Identifier::to_tac keeps the invariant: the name it finds is in scope at this point.
LEMMA IdentStep == ASSUME AllInv, NEW x, Ident(x) PROVE AllInv'
<1>1. /\ x \in Visible /\ vals' = Append(vals, Val(GetName(x), "calling")) /\ PutFromSymbol(GetName(x))
      /\ UNCHANGED <<instrs, blocks, nt, nl, np>>
  BY DEF Ident, Push
<1>2. PICK i \in 1..Depth : x \in Seen(i)
  BY <1>1 DEF Visible
<1>3. /\ x \in Source /\ blocks[i].phase # "update" /\ GetName(x) = VarName(blocks[i].table, x)
      /\ blocks[i].table \in Nat
  BY <1>2, SeenFound, StateFacts
<1>4. Now(GetName(x))
  BY <1>3, NameUsable, StateFacts
<1>5. GetName(x) \in Names /\ IsVar(GetName(x))
  BY <1>3, NameFacts
<1>6. Held >= 0 /\ Pop(0) = vals
  BY StateFacts, ValsFacts
<1>7. "calling" \in Roles \ {"target"}
  BY DEF Roles
<1> QED BY <1>1, <1>4, <1>5, <1>6, <1>7, QuietStep

\* Choosing the function that is called keeps the invariant: only the role of the value changes.
LEMMA CalleeStep == ASSUME AllInv, Callee PROVE AllInv'
<1>1. /\ Held > 0 /\ vals' = Append(Pop(1), Val(vals[Held].n, "callee"))
      /\ UNCHANGED <<instrs, blocks, nt, nl, np, types, replaced>>
  BY DEF Callee
<1>2. Held >= 1 /\ vals[Held].n \in Names /\ Now(vals[Held].n)
  BY <1>1, StateFacts
<1>3. "callee" \in Roles \ {"target"}
  BY DEF Roles
<1> QED BY <1>1, <1>2, <1>3, QuietStep

\* An operation keeps the invariant: it uses the two values before it and makes one temporary.
LEMMA OperationStep == ASSUME AllInv, Operation PROVE AllInv'
<1> DEFINE l == vals[Held - 1].n
           r == vals[Held].n
           c == Compute(Temp(nt), l, r)
           code == <<c>>
           v == Val(Temp(nt), "value")
<1> USE StateFacts
<1>1. /\ Held >= 2 /\ Emit(code) /\ vals' = Append(Pop(2), v) /\ nt' = nt + 1
      /\ UNCHANGED <<blocks, nl, np>> /\ UNCHANGED <<types, replaced>>
  BY DEF Operation, Has
<1>2. l \in Names /\ Now(l) /\ r \in Names /\ Now(r)
  <2>1. Held \in 1..Held /\ Held - 1 \in 1..Held
    BY <1>1
  <2> QED BY <2>1
<1> HIDE DEF l, r
<1>3. c \in InstrT /\ c.op = "compute" /\ c.uses = {l, r} /\ c.def = Temp(nt)
  <2>1. c \in InstrT
    BY <1>2, InstrFacts
  <2> QED BY <2>1 DEF Compute, Instr
<1> HIDE DEF c
<1>4. code \in Seq(InstrT) /\ Len(code) = 1 /\ \A i \in 1..1 : i = 1 /\ code[i] = c
  BY <1>3
<1>5. v \in ValT /\ v.n = Temp(nt) /\ v.role # "target"
  BY ValIs DEF Roles
<1>6. nt' \in Nat /\ nt <= nt'
  BY <1>1
<1> HIDE DEF code, v
<1>7. /\ \A i \in 1..Len(code) : code[i].op \in {"value", "compute", "push", "call", "retval"}
      /\ \A i \in 1..Len(code) : \A n \in code[i].uses : Now(n)
      /\ \A i \in 1..Len(code) : code[i].op \in MakeOps =>
           /\ code[i].def = Temp(nt) /\ nt' = nt + 1
           /\ \A j \in 1..Len(code) : code[j].op \in MakeOps => j = i
  <2>1. \A i \in 1..Len(code) : /\ code[i].op \in {"value", "compute", "push", "call", "retval"}
                                /\ \A n \in code[i].uses : Now(n)
    BY <1>2, <1>3, <1>4
  <2>2. \A i, j \in 1..Len(code) : code[i].def = Temp(nt) /\ j = i
    BY <1>3, <1>4
  <2> QED BY ONLY <1>1, <2>1, <2>2
<1>8. \E j \in 1..Len(code) : code[j].op \in MakeOps /\ code[j].def = v.n
  <2>1. 1 \in 1..Len(code) /\ code[1].op \in MakeOps /\ code[1].def = v.n
    BY ONLY <1>3, <1>4, <1>5 DEF MakeOps
  <2> QED BY <2>1
<1>9. ExprCode(code)
  BY ONLY <1>1, <1>4, <1>7 DEF ExprCode
<1>10. ExprValue(code, 2, v)
  BY ONLY <1>1, <1>5, <1>8 DEF ExprValue
<1>11. ExprTable
  BY ONLY <1>1 DEF ExprTable
<1>12. AllInv
  OBVIOUS
<1> QED BY ONLY <1>1, <1>6, <1>9, <1>10, <1>11, <1>12, ExprStep

\* FunctionCallExpr::to_tac keeps the invariant: the result of the call is a new temporary.
LEMMA FunctionCallExprStep == ASSUME AllInv, FunctionCallExpr PROVE AllInv'
<1> DEFINE f == vals[Held].n
           c == CallTAC(f)
           d == RetvalTAC(Temp(nt))
           code == <<c, d>>
           v == Val(Temp(nt), "calling")
<1> USE StateFacts
<1>1. /\ Held >= 1 /\ Emit(code) /\ vals' = Append(Pop(1), v) /\ nt' = nt + 1
      /\ UNCHANGED <<blocks, nl, np>> /\ UNCHANGED <<types, replaced>>
  BY DEF FunctionCallExpr
<1>2. f \in Names /\ Now(f)
  BY <1>1
<1> HIDE DEF f
<1>3. /\ c \in InstrT /\ c.op = "call" /\ c.uses = {f}
      /\ d \in InstrT /\ d.op = "retval" /\ d.uses = {} /\ d.def = Temp(nt)
  <2>1. c \in InstrT /\ d \in InstrT
    BY <1>2, InstrFacts
  <2> QED BY <2>1 DEF CallTAC, RetvalTAC, Instr
<1> HIDE DEF c, d
<1>4. /\ code \in Seq(InstrT) /\ Len(code) = 2 /\ code[1] = c /\ code[2] = d
      /\ \A i \in 1..2 : i = 1 \/ i = 2
  BY <1>3
<1>5. v \in ValT /\ v.n = Temp(nt) /\ v.role # "target"
  BY ValIs DEF Roles
<1>6. nt' \in Nat /\ nt <= nt'
  BY <1>1
<1> HIDE DEF code, v
<1>7. /\ \A i \in 1..Len(code) : code[i].op \in {"value", "compute", "push", "call", "retval"}
      /\ \A i \in 1..Len(code) : \A n \in code[i].uses : Now(n)
      /\ \A i \in 1..Len(code) : code[i].op \in MakeOps =>
           /\ code[i].def = Temp(nt) /\ nt' = nt + 1
           /\ \A j \in 1..Len(code) : code[j].op \in MakeOps => j = i
  <2>1. \A i \in 1..Len(code) : code[i].op \in MakeOps => i = 2
    BY <1>3, <1>4 DEF MakeOps
  <2>2. \A i \in 1..Len(code) : code[i] = c \/ (i = 2 /\ code[i] = d)
    BY <1>4
  <2>3. \A i \in 1..Len(code) : /\ code[i].op \in {"value", "compute", "push", "call", "retval"}
                                /\ \A n \in code[i].uses : Now(n)
    BY <1>2, <1>3, <2>2
  <2>4. \A i \in 1..Len(code) : code[i].op \in MakeOps => code[i].def = Temp(nt)
    BY <1>3, <1>4, <2>1
  <2> QED BY ONLY <1>1, <2>1, <2>3, <2>4
<1>8. \E j \in 1..Len(code) : code[j].op \in MakeOps /\ code[j].def = v.n
  <2>1. 2 \in 1..Len(code) /\ code[2].op \in MakeOps /\ code[2].def = v.n
    BY ONLY <1>3, <1>4, <1>5 DEF MakeOps
  <2> QED BY <2>1
<1>9. ExprCode(code)
  BY ONLY <1>1, <1>4, <1>7 DEF ExprCode
<1>10. ExprValue(code, 1, v)
  BY ONLY <1>1, <1>5, <1>8 DEF ExprValue
<1>11. ExprTable
  BY ONLY <1>1 DEF ExprTable
<1>12. AllInv
  OBVIOUS
<1> QED BY ONLY <1>1, <1>6, <1>9, <1>10, <1>11, <1>12, ExprStep

\* Passing an argument keeps the invariant: the value that is pushed is taken off.
LEMMA ArgumentStep == ASSUME AllInv, Argument PROVE AllInv'
<1> DEFINE n == vals[Held].n
           c == PushTAC(n)
           code == <<c>>
<1> USE StateFacts
<1>1. /\ Held >= 1 /\ Emit(code) /\ vals' = Pop(1)
      /\ UNCHANGED <<blocks, nl, np>> /\ UNCHANGED nt /\ UNCHANGED <<types, replaced>>
  BY DEF Argument
<1>2. n \in Names /\ Now(n)
  BY <1>1
<1> HIDE DEF n
<1>3. c \in InstrT /\ c.op = "push" /\ c.uses = {n}
  <2>1. c \in InstrT
    BY <1>2, InstrFacts
  <2> QED BY <2>1 DEF PushTAC, Instr
<1> HIDE DEF c
<1>4. code \in Seq(InstrT) /\ Len(code) = 1 /\ \A i \in 1..1 : i = 1 /\ code[i] = c
  BY <1>3
<1> HIDE DEF code
<1>5. /\ vals' \in Seq(ValT)
      /\ \A i \in 1..Len(vals') : i \in 1..Held /\ vals'[i] = vals[i]
  <2>1. /\ Pop(1) \in Seq(ValT) /\ Len(Pop(1)) = Held - 1
        /\ \A i \in 1..(Held - 1) : i \in 1..Held /\ Pop(1)[i] = vals[i]
    BY <1>1, ValsFacts
  <2> QED BY <1>1, <2>1
<1>6. nt' \in Nat /\ nt <= nt'
  BY <1>1
<1>7. /\ \A i \in 1..Len(code) : code[i].op \in {"value", "compute", "push", "call", "retval"}
      /\ \A i \in 1..Len(code) : \A u \in code[i].uses : Now(u)
      /\ \A i \in 1..Len(code) : code[i].op \notin MakeOps
  BY <1>2, <1>3, <1>4 DEF MakeOps
<1>8. instrs' \in Seq(InstrT) /\ ScopeInv' /\ AllocInv' /\ JumpInv'
  <2>1. \A i \in 1..Len(vals') : Now(vals'[i].n)
    BY <1>5
  <2> QED BY <1>1, <1>4, <1>6, <1>7, <2>1, ExprKeeps
<1>9. TableInv' /\ types' \subseteq Names
  <2>1. Top' = Top
    BY <1>1 DEF Top, Depth
  <2> QED BY <1>1, <1>5, <1>6, <2>1, TableKeeps
<1> QED BY <1>1, <1>5, <1>6, <1>8, <1>9, Together

\* The statements that end as Finish says.
LEMMA FinishStep ==
  ASSUME AllInv, NEW bs, BlocksOK(bs, np), Len(bs) = Depth,
         \A i \in 1..Depth : Same(blocks[i], bs[i]) /\ bs[i].phase = blocks[i].phase,
         NEW k \in Lasts, NEW code \in Seq(InstrT), Finish(bs, k, code),
         Top.phase \in {"list", "init", "update"}, UNCHANGED <<nt, nl, np>>,
         \A i \in 1..Len(code) : /\ code[i].op \in {"assign", "call", "return"}
                                 /\ \A n \in code[i].uses : Now(n)
                                 /\ code[i].op = "assign" => Now(code[i].def),
         \/ UNCHANGED <<types, replaced>>
         \/ \E n \in Names : PutFromSymbol(n) /\ IsVar(n)
  PROVE  AllInv'
<1> USE StateFacts
<1>1. instrs' \in Seq(InstrT) /\ vals' = <<>> /\ ScopeInv' /\ AllocInv' /\ JumpInv'
  BY FinishKeeps
<1>2. vals' \in Seq(ValT) /\ \A i \in 1..Len(vals') : vals'[i].role = "target" => IsVar(vals'[i].n) /\ Top'.phase # "cond"
  BY <1>1
<1>3. nt' \in Nat /\ nl' \in Nat /\ np' \in Nat /\ nt <= nt'
  OBVIOUS
<1>4. TableInv' /\ types' \subseteq Names
  BY <1>2, <1>3, TableKeeps
<1> QED BY <1>1, <1>2, <1>3, <1>4, Together

\* The blocks themselves are what Finish may take.
LEMMA BlocksThemselves ==
  ASSUME ScopeInv
  PROVE  /\ BlocksOK(blocks, np) /\ Len(blocks) = Depth
         /\ \A i \in 1..Depth : Same(blocks[i], blocks[i]) /\ blocks[i].phase = blocks[i].phase
BY DEF ScopeInv, Depth, Same

\* The phases in which a statement can be.
LEMMA PhaseIs ==
  ASSUME ScopeInv
  PROVE  Top.phase # "cond" => Top.phase \in {"list", "init", "update"}
<1>1. Top.phase \in Phases
  BY TopFacts DEF BlockT
<1> QED BY <1>1 DEF Phases

\* A statement with one instruction, which is an assignment, call or return.
LEMMA FinishOne ==
  ASSUME AllInv, NEW k \in Lasts, NEW c \in InstrT, Finish(blocks, k, <<c>>), Top.phase # "cond",
         UNCHANGED <<nt, nl, np>>, c.op \in {"assign", "call", "return"}, \A n \in c.uses : Now(n),
         c.op = "assign" => Now(c.def),
         \/ UNCHANGED <<types, replaced>>
         \/ \E n \in Names : PutFromSymbol(n) /\ IsVar(n)
  PROVE  AllInv'
<1> DEFINE code == <<c>>
<1>1. code \in Seq(InstrT) /\ Len(code) = 1 /\ \A i \in 1..1 : code[i] = c
  OBVIOUS
<1>2. Finish(blocks, k, code)
  OBVIOUS
<1> HIDE DEF code
<1>3. \A i \in 1..Len(code) : /\ code[i].op \in {"assign", "call", "return"}
                              /\ \A n \in code[i].uses : Now(n)
                              /\ code[i].op = "assign" => Now(code[i].def)
  BY <1>1
<1> QED BY <1>1, <1>2, <1>3, StateFacts, BlocksThemselves, PhaseIs, FinishStep

\* A statement that emits no code ends and keeps the invariant.
LEMMA FinishNothing ==
  ASSUME AllInv, NEW bs, BlocksOK(bs, np), Len(bs) = Depth,
         \A i \in 1..Depth : Same(blocks[i], bs[i]) /\ bs[i].phase = blocks[i].phase,
         NEW k \in Lasts, Finish(bs, k, <<>>), Top.phase \in {"list", "init", "update"},
         UNCHANGED <<nt, nl, np>>, UNCHANGED <<types, replaced>>
  PROVE  AllInv'
<1> DEFINE code == <<>>
<1>1. code \in Seq(InstrT) /\ Len(code) = 0 /\ Finish(bs, k, code)
  OBVIOUS
<1> HIDE DEF code
<1>2. \A i \in 1..Len(code) : /\ code[i].op \in {"assign", "call", "return"}
                              /\ \A n \in code[i].uses : Now(n)
                              /\ code[i].op = "assign" => Now(code[i].def)
  BY <1>1
<1> QED BY <1>1, <1>2, FinishStep

\* VarDecl::to_tac keeps the invariant: the variable can be used from here on.
LEMMA VarDeclStep == ASSUME AllInv, NEW x, VarDecl(x) PROVE AllInv'
<1>1. /\ CanDeclare(x) /\ Finish(Declared(x), "other", <<>>) /\ UNCHANGED <<nt, nl, np>>
      /\ UNCHANGED <<types, replaced>>
  BY DEF VarDecl
<1>2. "other" \in Lasts /\ Top.phase \in {"list", "init", "update"}
  BY <1>1 DEF Lasts, CanDeclare, AtStatement
<1>3. /\ BlocksOK(Declared(x), np) /\ Len(Declared(x)) = Depth
      /\ \A i \in 1..Depth : Same(blocks[i], Declared(x)[i]) /\ Declared(x)[i].phase = blocks[i].phase
  BY <1>1, DeclaredFacts, StateFacts
<1> QED BY <1>1, <1>2, <1>3, FinishNothing

\* A statement without code keeps the invariant.
LEMMA SilentStmtStep == ASSUME AllInv, SilentStmt PROVE AllInv'
<1>1. /\ Finish(blocks, "other", <<>>) /\ UNCHANGED <<nt, nl, np>> /\ UNCHANGED <<types, replaced>>
      /\ Top.phase \in {"list", "init", "update"}
  BY DEF SilentStmt
<1>2. "other" \in Lasts
  BY DEF Lasts
<1> QED BY <1>1, <1>2, FinishNothing, StateFacts, BlocksThemselves

\* VarDeclInit::to_tac keeps the invariant: the variable is assigned the value of its initializer.
LEMMA VarDeclInitStep == ASSUME AllInv, VarDeclInit PROVE AllInv'
<1> DEFINE a == vals[1].n
           b == vals[2].n
           c == AssignTAC(a, b)
<1>1. /\ Held = 2 /\ vals[1].role = "target" /\ Finish(blocks, "other", <<c>>) /\ PutFromSymbol(a)
      /\ UNCHANGED <<nt, nl, np>>
  BY DEF VarDeclInit
<1>2. a \in Names /\ b \in Names /\ Now(a) /\ Now(b) /\ IsVar(a)
  BY <1>1, StateFacts
<1>3. c \in InstrT /\ c.op = "assign" /\ c.uses = {b} /\ c.def = a
  <2>1. c \in InstrT
    BY <1>2, InstrFacts
  <2> QED BY <2>1 DEF AssignTAC, Instr
<1>4. Top.phase # "cond"
  <2>1. 1 \in 1..Held
    BY <1>1
  <2> QED BY <1>1, <2>1, StateFacts
<1>5. "other" \in Lasts
  BY DEF Lasts
<1> HIDE DEF c, a, b
<1> QED BY <1>1, <1>2, <1>3, <1>4, <1>5, FinishOne

\* AssignmentStmt::to_tac keeps the invariant: its target is a variable in scope.
LEMMA AssignmentStep == ASSUME AllInv, Assignment PROVE AllInv'
<1> DEFINE a == vals[1].n
           b == vals[2].n
           c == AssignTAC(a, b)
<1>1. /\ Held = 2 /\ Finish(blocks, "other", <<c>>) /\ Top.phase # "cond"
      /\ UNCHANGED <<nt, nl, np>> /\ UNCHANGED <<types, replaced>>
  BY DEF Assignment
<1>2. a \in Names /\ b \in Names /\ Now(a) /\ Now(b)
  BY <1>1, StateFacts
<1>3. c \in InstrT /\ c.op = "assign" /\ c.uses = {b} /\ c.def = a
  <2>1. c \in InstrT
    BY <1>2, InstrFacts
  <2> QED BY <2>1 DEF AssignTAC, Instr
<1>5. "other" \in Lasts
  BY DEF Lasts
<1> HIDE DEF c, a, b
<1> QED BY <1>1, <1>2, <1>3, <1>5, FinishOne

\* FunctionCallStmt::to_tac keeps the invariant: a call emits no name.
LEMMA FunctionCallStmtStep == ASSUME AllInv, FunctionCallStmt PROVE AllInv'
<1> DEFINE a == vals[1].n
           c == CallTAC(a)
<1>1. /\ Held = 1 /\ Finish(blocks, "other", <<c>>) /\ Top.phase # "cond"
      /\ UNCHANGED <<nt, nl, np>> /\ UNCHANGED <<types, replaced>>
  BY DEF FunctionCallStmt
<1>2. a \in Names /\ Now(a)
  BY <1>1, StateFacts
<1>3. c \in InstrT /\ c.op = "call" /\ c.uses = {a}
  <2>1. c \in InstrT
    BY <1>2, InstrFacts
  <2> QED BY <2>1 DEF CallTAC, Instr
<1>5. "other" \in Lasts
  BY DEF Lasts
<1> HIDE DEF c, a
<1> QED BY <1>1, <1>2, <1>3, <1>5, FinishOne

\* ReturnStatement::to_tac keeps the invariant: the value that is returned is in scope.
LEMMA ReturnStatementStep == ASSUME AllInv, ReturnStatement PROVE AllInv'
<1> DEFINE a == vals[1].n
           c == ReturnTAC(a)
<1>1. /\ Held = 1 /\ Finish(blocks, "return", <<c>>) /\ Top.phase = "list"
      /\ UNCHANGED <<nt, nl, np>> /\ UNCHANGED <<types, replaced>>
  BY DEF ReturnStatement
<1>2. a \in Names /\ Now(a)
  BY <1>1, StateFacts
<1>3. c \in InstrT /\ c.op = "return" /\ c.uses = {a}
  <2>1. c \in InstrT
    BY <1>2, InstrFacts
  <2> QED BY <2>1 DEF ReturnTAC, Instr
<1>5. "return" \in Lasts /\ Top.phase # "cond"
  BY <1>1 DEF Lasts
<1> HIDE DEF c, a
<1> QED BY <1>1, <1>2, <1>3, <1>5, FinishOne

\* The declaration before an initializer keeps the invariant: the variable is in scope in its own initializer.
LEMMA BeginVarDeclInitStep == ASSUME AllInv, NEW x, BeginVarDeclInit(x) PROVE AllInv'
<1> DEFINE n == GetName(x)
           code == <<>>
<1> USE StateFacts
<1>1. /\ CanDeclare(x) /\ vals' = <<Val(n, "target")>> /\ blocks' = Declared(x)
      /\ UNCHANGED instrs /\ UNCHANGED <<nt, nl, np>> /\ UNCHANGED <<types, replaced>>
  BY DEF BeginVarDeclInit
<1>2. /\ BlocksOK(blocks', np) /\ Len(blocks') = Depth
      /\ \A i \in 1..Depth : Same(blocks[i], blocks'[i]) /\ blocks'[i].phase = blocks[i].phase
  BY <1>1, DeclaredFacts
<1>3. /\ Target \in 1..Depth /\ x \in Source /\ blocks[Target].phase # "update"
      /\ n = VarName(blocks[Target].table, x) /\ blocks[Target].table \in Nat
  BY <1>1, TargetFound
<1>4. n \in Names /\ IsVar(n) /\ Now(n)
  BY <1>3, NameFacts, NameUsable
<1>5. Depth \in Nat /\ Depth \in 1..Depth
  BY TopFacts
<1> HIDE DEF n
<1>6. /\ vals' \in Seq(ValT) /\ Len(vals') = 1
      /\ \A i \in 1..Len(vals') : vals'[i].n = n /\ vals'[i].role = "target"
  <2>1. Val(n, "target") \in ValT /\ Val(n, "target").n = n /\ Val(n, "target").role = "target"
    BY <1>4, ValIs DEF Roles
  <2> QED BY <1>1, <2>1
<1>7. code \in Seq(InstrT) /\ Len(code) = 0 /\ Emit(code)
  BY <1>1, EmitNothing
<1> HIDE DEF code
<1>8. nt' \in Nat /\ nl' \in Nat /\ np' \in Nat /\ nt <= nt' /\ np <= np' /\ Len(blocks') \in Nat
  BY <1>1, <1>2, <1>5
<1>9. AllocInv'
  <2>1. \A i \in 1..Len(vals') : Now(vals'[i].n)
    BY <1>4, <1>6
  <2>2. \A b \in 1..Len(blocks') :
          \E a \in 1..Depth : /\ blocks[a].table = blocks'[b].table
                              /\ blocks[a].phase = "update" => blocks'[b].phase = "update"
    BY <1>2 DEF Same
  <2>3. /\ \A i \in 1..Len(code) : code[i].op # "delete" /\ code[i].op # "assign" /\ code[i].op \notin MakeOps
        /\ \A i \in 1..Len(code) : \A m \in code[i].uses : Now(m)
    BY <1>7
  <2> QED BY <1>7, <1>8, <2>1, <2>2, <2>3, AllocKeeps
<1>10. JumpInv'
  <2>1. Kept(blocks, blocks')
    BY <1>2, <1>5 DEF Kept, Depth
  <2>2. \A i \in 1..Len(code) : code[i].op \notin {"jne", "function", "label"}
    BY <1>7
  <2>3. \A b \in 1..Depth : b \in 1..Len(blocks')
    BY <1>2
  <2> QED BY <1>1, <1>7, <1>8, <2>1, <2>2, <2>3, JumpsStay
<1>11. ScopeInv' /\ instrs' \in Seq(InstrT)
  BY <1>1, <1>2 DEF ScopeInv, TypeOK
<1>12. TableInv' /\ types' \subseteq Names
  <2>1. Top'.phase # "cond"
    <3>1. Top' = blocks'[Depth]
      BY <1>2 DEF Top, Depth
    <3>2. Top.phase # "cond"
      BY <1>1 DEF CanDeclare, AtStatement
    <3> QED BY <1>2, <1>5, <3>1, <3>2 DEF Top
  <2> QED BY <1>1, <1>4, <1>6, <1>8, <2>1, TableKeeps
<1> QED BY <1>6, <1>8, <1>9, <1>10, <1>11, <1>12, Together

\* What a new block holds.
LEMMA BlockFacts ==
  ASSUME AllInv, NEW k \in BlockKinds, NEW ph \in Phases, NEW e \in Names, NEW a \in Names,
         NEW names \in SUBSET Source
  PROVE  LET b == Block(k, ph, e, a, names) IN
         /\ b \in BlockT /\ b.k = k /\ b.phase = ph /\ b.exit = e /\ b.again = a /\ b.table = np
         /\ b.names = names /\ b.seen = {} /\ b.locals = <<>>
<1>1. np \in Nat /\ <<>> \in Seq(Names) /\ "none" \in Lasts
  BY StateFacts DEF Lasts
<1> QED BY <1>1 DEF Block, BlockT

\* A statement that begins a block; the code before it jumps to its end.
LEMMA BeginStep ==
  ASSUME AllInv, Top.phase = "list", vals' = <<>>, UNCHANGED nt, UNCHANGED <<types, replaced>>,
         NEW b \in BlockT, Begin(b), b.k \in {"if", "while", "for"}, b.table = np, b.seen = {}, b.locals = <<>>,
         b.k # "for" => b.phase = "list",
         nl' \in Nat, nl <= nl', Fresh(b.exit),
         b.phase = "init" => Fresh(b.again) /\ b.again # b.exit,
         NEW code \in Seq(InstrT), Emit(code),
         \A i \in 1..Len(code) : code[i].op \in {"cmp", "jne", "label"},
         \A i \in 1..Len(code) : \A n \in code[i].uses : Now(n),
         \A i \in 1..Len(code) : code[i].op = "jne" => code[i].label = b.exit,
         \A i \in 1..Len(code) : code[i].op = "label" =>
           i = 1 /\ Fresh(code[i].label) /\ b.exit # code[i].label /\ b.phase # "init"
  PROVE  AllInv'
<1> USE StateFacts
<1>1. b.names \subseteq Ids \ Visible /\ blocks' = Append(blocks, b) /\ np' = np + 1
  BY DEF Begin
<1>2. Depth \in Nat /\ Depth \in 1..Depth /\ Top = blocks[Depth]
  BY TopFacts
<1>3. \A i \in 1..Depth : blocks[i].seen \cap b.names = {}
  <2>1. \A i \in 1..Depth : blocks[i].phase = "list"
    BY <1>2 DEF ScopeInv, BlocksOK, Depth
  <2>2. \A i \in 1..Depth : blocks[i].seen \subseteq Visible
    BY <2>1 DEF Visible, Seen
  <2> QED BY <1>1, <2>2
<1>4. /\ BlocksOK(blocks', np + 1) /\ Len(blocks') = Depth + 1 /\ blocks'[Depth + 1] = b
      /\ \A i \in 1..Depth : blocks'[i] = blocks[i]
  <2>1. BlocksOK(blocks, np) /\ blocks[Len(blocks)].phase = "list" /\ b.names \subseteq Ids
        /\ b.k \in {"if", "while", "for", "func"} /\ (b.k = "func" => b.exit = NoName)
    BY <1>1, <1>2 DEF ScopeInv, Depth
  <2>2. \A i \in 1..Len(blocks) : blocks[i].seen \cap b.names = {}
    BY <1>3 DEF Depth
  <2>3. /\ BlocksOK(blocks', np + 1) /\ Len(blocks') = Len(blocks) + 1 /\ blocks'[Len(blocks) + 1] = b
        /\ \A i \in 1..Len(blocks) : blocks'[i] = blocks[i]
    <3>1. CanFollow(blocks, np, b)
      BY <2>1, <2>2 DEF CanFollow
    <3> QED BY <1>1, <3>1, AppendFacts
  <2> QED BY <2>3 DEF Depth
<1>5. nt' \in Nat /\ nt <= nt' /\ np' \in Nat /\ np <= np' /\ Len(blocks') \in Nat /\ Len(vals') = 0
  BY <1>1, <1>2, <1>4
<1>6. AllocInv'
  <2>1. /\ \A i \in 1..Len(code) : code[i].op # "delete" /\ code[i].op # "assign" /\ code[i].op \notin MakeOps
    BY DEF MakeOps
  <2>2. \A c \in 1..Len(blocks') :
           \/ blocks'[c].table >= np /\ blocks'[c].table \in Nat
           \/ \E a \in 1..Depth : /\ blocks[a].table = blocks'[c].table
                                  /\ blocks[a].phase = "update" => blocks'[c].phase = "update"
    <3>1. \A c \in 1..Len(blocks') : c \in 1..Depth \/ c = Depth + 1
      BY <1>2, <1>4
    <3> QED BY <1>4, <3>1
  <2>3. \A i \in 1..Len(vals') : Now(vals'[i].n)
    BY <1>5
  <2>4. \A i \in 1..Len(code) : \A n \in code[i].uses : Now(n)
    OBVIOUS
  <2> QED BY <1>5, <2>1, <2>2, <2>3, <2>4, AllocKeeps
<1>7. JumpInv'
  <2>1. Jumping(b)
    BY DEF Jumping
  <2>2. Depth + 1 \in 1..Len(blocks')
    BY <1>2, <1>4
  <2>3. \A i \in 1..Len(code) : code[i].op = "jne" =>
          \E c \in 1..Len(blocks') : Jumping(blocks'[c]) /\ blocks'[c].exit = code[i].label
    BY <1>4, <2>1, <2>2
  <2>4. \A i \in 1..Depth : Same(blocks[i], blocks'[i]) /\ (blocks'[i].phase = "init" => blocks[i].phase = "init")
    BY <1>4 DEF Same
  <2>5. Len(blocks') \in {Depth, Depth + 1}
    BY <1>4
  <2>6. /\ Jumping(blocks'[Depth + 1]) => Fresh(blocks'[Depth + 1].exit)
        /\ blocks'[Depth + 1].phase = "init" =>
             Fresh(blocks'[Depth + 1].again) /\ blocks'[Depth + 1].again # blocks'[Depth + 1].exit
    BY <1>4
  <2>7. \A i \in 1..Len(code) : code[i].op = "label" =>
           /\ i = 1 /\ Fresh(code[i].label)
           /\ blocks'[Depth + 1].exit # code[i].label /\ blocks'[Depth + 1].phase # "init"
    BY <1>4
  <2>8. \A i \in 1..Len(code) : code[i].op # "function"
    OBVIOUS
  <2> QED BY <2>3, <2>4, <2>5, <2>6, <2>7, <2>8, JumpsGrow
<1>8. ScopeInv'
  BY <1>1, <1>4 DEF ScopeInv
<1>9. instrs' \in Seq(InstrT)
  BY EmitFacts DEF TypeOK
<1>10. TableInv' /\ types' \subseteq Names
  BY <1>5, TableKeeps
<1>11. vals' \in Seq(ValT)
  OBVIOUS
<1> QED BY <1>5, <1>6, <1>7, <1>8, <1>9, <1>10, <1>11, Together

\* IfStmt::to_tac keeps the invariant: the jump over the body goes to a label that is drawn for it.
LEMMA IfStmtStep == ASSUME AllInv, NEW names \in SUBSET Ids, IfStmt(names) PROVE AllInv'
<1> DEFINE n == vals[1].n
           l == LabelName(nl)
           c == CmpLiteralTAC(n)
           d == JneTAC(l)
           code == <<c, d>>
           b == Block("if", "list", l, NoName, names)
<1> USE StateFacts
<1>1. /\ Held = 1 /\ Emit(code) /\ vals' = <<>> /\ Begin(b) /\ nl' = nl + 1 /\ UNCHANGED nt
      /\ UNCHANGED <<types, replaced>> /\ Top.phase = "list"
  BY DEF IfStmt
<1>2. n \in Names /\ Now(n) /\ l \in Names
  BY <1>1, NameFacts
<1>3. Fresh(l) /\ nl' \in Nat /\ nl <= nl'
  <2>1. nl \in nl..(nl' - 1)
    BY <1>1
  <2> QED BY <1>1, <2>1 DEF Fresh
<1>4. /\ b \in BlockT /\ b.k = "if" /\ b.phase = "list" /\ b.exit = l /\ b.table = np
      /\ b.seen = {} /\ b.locals = <<>>
  BY <1>2, BlockFacts DEF BlockKinds, Phases, Source
<1> HIDE DEF n, l
<1>5. /\ c \in InstrT /\ c.op = "cmp" /\ c.uses = {n}
      /\ d \in InstrT /\ d.op = "jne" /\ d.uses = {} /\ d.label = l
  <2>1. c \in InstrT /\ d \in InstrT
    BY <1>2, InstrFacts
  <2> QED BY <2>1 DEF CmpLiteralTAC, JneTAC, Instr
<1> HIDE DEF c, d
<1>6. /\ code \in Seq(InstrT) /\ Len(code) = 2
      /\ \A i \in 1..2 : code[i] = c \/ code[i] = d
  <2>1. code[1] = c /\ code[2] = d /\ \A i \in 1..2 : i = 1 \/ i = 2
    OBVIOUS
  <2> QED BY <1>5, <2>1
<1> HIDE DEF code, b
<1>7. \A i \in 1..Len(code) : /\ code[i].op \in {"cmp", "jne"}
                              /\ \A u \in code[i].uses : Now(u)
                              /\ code[i].op = "jne" => code[i].label = b.exit
  BY <1>2, <1>4, <1>5, <1>6
<1> QED BY <1>1, <1>3, <1>4, <1>6, <1>7, BeginStep

\* WhileStmt::to_tac keeps the invariant: the jump over the body goes to a label that is drawn for it.
LEMMA WhileStmtStep == ASSUME AllInv, NEW names \in SUBSET Ids, WhileStmt(names) PROVE AllInv'
<1> DEFINE n == vals[1].n
           l == LabelName(nl)
           e == LabelName(nl + 1)
           a == LabelTAC(l)
           c == CmpLiteralTAC(n)
           d == JneTAC(e)
           code == <<a, c, d>>
           b == Block("while", "list", e, l, names)
<1> USE StateFacts
<1>1. /\ Held = 1 /\ Emit(code) /\ vals' = <<>> /\ Begin(b) /\ nl' = nl + 2 /\ UNCHANGED nt
      /\ UNCHANGED <<types, replaced>> /\ Top.phase = "list"
  BY DEF WhileStmt
<1>2. n \in Names /\ Now(n) /\ l \in Names /\ e \in Names /\ e # l
  <2>1. nl + 1 \in Nat /\ nl + 1 # nl
    OBVIOUS
  <2> QED BY <1>1, <2>1, NameFacts
<1>3. Fresh(l) /\ Fresh(e) /\ nl' \in Nat /\ nl <= nl'
  <2>1. nl \in nl..(nl' - 1) /\ nl + 1 \in nl..(nl' - 1)
    BY <1>1
  <2> QED BY <1>1, <2>1 DEF Fresh
<1>4. /\ b \in BlockT /\ b.k = "while" /\ b.phase = "list" /\ b.exit = e /\ b.table = np
      /\ b.seen = {} /\ b.locals = <<>>
  BY <1>2, BlockFacts DEF BlockKinds, Phases, Source
<1> HIDE DEF n, l, e
<1>5. /\ a \in InstrT /\ a.op = "label" /\ a.uses = {} /\ a.label = l
      /\ c \in InstrT /\ c.op = "cmp" /\ c.uses = {n}
      /\ d \in InstrT /\ d.op = "jne" /\ d.uses = {} /\ d.label = e
  <2>1. a \in InstrT /\ c \in InstrT /\ d \in InstrT
    BY <1>2, InstrFacts
  <2> QED BY <2>1 DEF LabelTAC, CmpLiteralTAC, JneTAC, Instr
<1> HIDE DEF a, c, d
<1>6. /\ code \in Seq(InstrT) /\ Len(code) = 3
      /\ \A i \in 1..3 : (i = 1 /\ code[i] = a) \/ code[i] = c \/ code[i] = d
  <2>1. code[1] = a /\ code[2] = c /\ code[3] = d /\ \A i \in 1..3 : i = 1 \/ i = 2 \/ i = 3
    OBVIOUS
  <2> QED BY <1>5, <2>1
<1> HIDE DEF code, b
<1>7. \A i \in 1..Len(code) : /\ code[i].op \in {"cmp", "jne", "label"}
                              /\ \A u \in code[i].uses : Now(u)
  BY <1>2, <1>5, <1>6
<1>8. \A i \in 1..Len(code) :
        /\ code[i].op = "jne" => code[i].label = b.exit
        /\ code[i].op = "label" => i = 1 /\ Fresh(code[i].label) /\ b.exit # code[i].label /\ b.phase # "init"
  BY <1>2, <1>3, <1>4, <1>5, <1>6
<1> QED BY <1>1, <1>3, <1>4, <1>6, <1>7, <1>8, BeginStep

\* The part of ForStmt::to_tac before its condition keeps the invariant: two labels are drawn, one for its end.
LEMMA ForStmtStep == ASSUME AllInv, NEW names \in SUBSET Ids, ForStmt(names) PROVE AllInv'
<1> DEFINE l == LabelName(nl)
           e == LabelName(nl + 1)
           code == <<>>
           b == Block("for", "init", e, l, names)
<1> USE StateFacts
<1>1. /\ vals = <<>> /\ UNCHANGED instrs /\ vals' = <<>> /\ Begin(b) /\ nl' = nl + 2 /\ UNCHANGED nt
      /\ UNCHANGED <<types, replaced>> /\ Top.phase = "list"
  BY DEF ForStmt, AtStatement
<1>2. l \in Names /\ e \in Names /\ e # l
  <2>1. nl + 1 \in Nat /\ nl + 1 # nl
    OBVIOUS
  <2> QED BY <2>1, NameFacts
<1>3. Fresh(l) /\ Fresh(e) /\ nl' \in Nat /\ nl <= nl'
  <2>1. nl \in nl..(nl' - 1) /\ nl + 1 \in nl..(nl' - 1)
    BY <1>1
  <2> QED BY <1>1, <2>1 DEF Fresh
<1>4. /\ b \in BlockT /\ b.k = "for" /\ b.phase = "init" /\ b.exit = e /\ b.again = l /\ b.table = np
      /\ b.seen = {} /\ b.locals = <<>>
  BY <1>2, BlockFacts DEF BlockKinds, Phases, Source
<1> HIDE DEF l, e, b
<1>5. code \in Seq(InstrT) /\ Len(code) = 0 /\ Emit(code)
  BY <1>1, EmitNothing
<1> HIDE DEF code
<1>6. \A i \in 1..Len(code) : FALSE
  BY <1>5
<1> QED BY <1>1, <1>2, <1>3, <1>4, <1>5, <1>6, BeginStep

\* The part of ForStmt::to_tac after its condition keeps the invariant: the jump goes to the loop's end.
LEMMA ForConditionStep == ASSUME AllInv, ForCondition PROVE AllInv'
<1> DEFINE n == vals[1].n
           c == CmpLiteralTAC(n)
           d == JneTAC(Top.exit)
           code == <<c, d>>
<1> USE StateFacts
<1>1. /\ Held = 1 /\ Top.phase = "cond" /\ Emit(code) /\ vals' = <<>>
      /\ blocks' = [blocks EXCEPT ![Len(blocks)].phase = "list"]
      /\ UNCHANGED <<nt, nl, np>> /\ UNCHANGED <<types, replaced>>
  BY DEF ForCondition, Depth
<1>2. /\ Depth \in Nat /\ Depth >= 1 /\ Depth \in 1..Depth /\ Top = blocks[Depth] /\ Top \in BlockT
      /\ Top.k = "for"
  BY <1>1, TopFacts
<1>3. /\ BlocksOK(blocks', np) /\ Len(blocks') = Depth
      /\ \A i \in 1..Depth : /\ Same(blocks[i], blocks'[i])
                             /\ blocks'[i].phase = IF i = Depth THEN "list" ELSE blocks[i].phase
  <2> DEFINE X == [blocks EXCEPT ![Len(blocks)].phase = "list"]
  <2>1. "list" \in Phases /\ BlocksOK(blocks, np) /\ blocks[Len(blocks)].k = "for"
        /\ blocks[Len(blocks)].phase # "update"
    BY <1>1, <1>2 DEF Phases, ScopeInv, Depth
  <2>2. /\ BlocksOK(X, np) /\ Len(X) = Len(blocks)
        /\ \A i \in 1..Len(blocks) : /\ Same(blocks[i], X[i])
                                     /\ X[i].phase = IF i = Len(blocks) THEN "list" ELSE blocks[i].phase
    BY <2>1, PhaseFacts
  <2> QED BY <1>1, <2>2 DEF Depth
<1>4. n \in Names /\ Now(n) /\ Top.exit \in Names
  BY <1>1, <1>2 DEF BlockT
<1> HIDE DEF n
<1>5. /\ c \in InstrT /\ c.op = "cmp" /\ c.uses = {n}
      /\ d \in InstrT /\ d.op = "jne" /\ d.uses = {} /\ d.label = Top.exit
  <2>1. c \in InstrT /\ d \in InstrT
    BY <1>4, InstrFacts
  <2> QED BY <2>1 DEF CmpLiteralTAC, JneTAC, Instr
<1> HIDE DEF c, d
<1>6. code \in Seq(InstrT) /\ Len(code) = 2 /\ \A i \in 1..2 : code[i] = c \/ code[i] = d
  <2>1. code[1] = c /\ code[2] = d /\ \A i \in 1..2 : i = 1 \/ i = 2
    OBVIOUS
  <2> QED BY <1>5, <2>1
<1> HIDE DEF code
<1>7. /\ \A i \in 1..Len(code) : code[i].op \in {"cmp", "jne"}
      /\ \A i \in 1..Len(code) : \A u \in code[i].uses : Now(u)
      /\ \A i \in 1..Len(code) : code[i].op = "jne" => code[i].label = Top.exit
  BY <1>4, <1>5, <1>6
<1>8. nt' \in Nat /\ nl' \in Nat /\ np' \in Nat /\ nt <= nt' /\ nl <= nl' /\ np <= np' /\ Len(blocks') \in Nat
  BY <1>1, <1>2, <1>3
<1>9. AllocInv'
  <2>1. \A i \in 1..Len(code) : code[i].op # "delete" /\ code[i].op # "assign" /\ code[i].op \notin MakeOps
    BY <1>7 DEF MakeOps
  <2>2. \A b \in 1..Len(blocks') :
          \E a \in 1..Depth : /\ blocks[a].table = blocks'[b].table
                              /\ blocks[a].phase = "update" => blocks'[b].phase = "update"
    BY <1>1, <1>2, <1>3 DEF Same
  <2>3. \A i \in 1..Len(vals') : Now(vals'[i].n)
    BY <1>1
  <2> QED BY <1>1, <1>6, <1>7, <1>8, <2>1, <2>2, <2>3, AllocKeeps
<1>10. JumpInv'
  <2>1. \A i \in 1..Depth : Same(blocks[i], blocks'[i]) /\ (blocks'[i].phase = "init" => blocks[i].phase = "init")
    BY <1>3
  <2>2. Jumping(blocks'[Depth]) /\ blocks'[Depth].exit = Top.exit /\ Depth \in 1..Len(blocks')
    BY <1>2, <1>3 DEF Jumping, Same
  <2>3. \A i \in 1..Len(code) : code[i].op = "jne" =>
          \E b \in 1..Len(blocks') : Jumping(blocks'[b]) /\ blocks'[b].exit = code[i].label
    BY <1>7, <2>2
  <2>4. \A i \in 1..Len(code) : code[i].op # "label" /\ code[i].op # "function"
    BY <1>7
  <2>5. Len(blocks') = Depth /\ Len(blocks') # Depth + 1
    BY <1>2, <1>3
  <2> QED BY <1>1, <1>6, <1>8, <2>1, <2>3, <2>4, <2>5, JumpsGrow
<1>11. ScopeInv' /\ instrs' \in Seq(InstrT) /\ vals' \in Seq(ValT)
  BY <1>1, <1>3, <1>6, EmitFacts DEF ScopeInv, TypeOK
<1>12. TableInv' /\ types' \subseteq Names
  <2>1. \A i \in 1..Len(vals') : FALSE
    BY <1>1
  <2> QED BY <1>1, <1>8, <2>1, TableKeeps
<1> QED BY <1>8, <1>9, <1>10, <1>11, <1>12, Together

\* FuncDecl::to_tac keeps the invariant: the function's label is its own and its table is new.
LEMMA FuncDeclStep == ASSUME AllInv, NEW f \in Funcs, NEW names \in SUBSET Ids, FuncDecl(f, names) PROVE AllInv'
<1> DEFINE c == FuncLabel(VarName(0, f))
           d == SetupStackTAC
           code == <<c, d>>
           a == [blocks[1] EXCEPT !.seen = @ \cup {f}]
           b == Block("func", "list", NoName, NoName, names)
           B == <<a>>
<1> USE StateFacts
<1>1. /\ Depth = 1 /\ vals = <<>> /\ f \in blocks[1].names /\ names \subseteq Ids \ Visible
      /\ blocks' = <<a, b>> /\ np' = np + 1 /\ Emit(code) /\ Put(VarName(0, f)) /\ UNCHANGED <<vals, nt, nl>>
  BY DEF FuncDecl
<1>2. VarName(0, f) \in Names
  BY NameFacts DEF Source
<1>3. blocks[1] \in BlockT /\ blocks[1].k = "prog" /\ blocks[1].phase = "list" /\ BlocksOK(blocks, np)
  BY <1>1, TopFacts DEF Top, ScopeInv
<1>4. /\ a \in BlockT /\ Same(blocks[1], a) /\ a.phase = "list" /\ a.seen = blocks[1].seen \cup {f}
      /\ a.locals = blocks[1].locals
  BY <1>1, <1>3 DEF BlockT, Same, Source
<1>5. /\ b \in BlockT /\ b.k = "func" /\ b.phase = "list" /\ b.exit = NoName /\ b.table = np /\ b.names = names
      /\ b.seen = {} /\ b.locals = <<>>
  BY BlockFacts DEF BlockKinds, Phases, Source
<1> HIDE DEF a, b
<1>6. B \in Seq(BlockT) /\ Len(B) = 1 /\ B[1] = a /\ blocks' = Append(B, b)
  BY <1>1, <1>4, <1>5
<1> HIDE DEF B
<1>7. BlocksOK(B, np)
  <2>1. 1 \in 1..Len(blocks) /\ blocks[1].exit = NoName /\ blocks[1].table = 0 /\ blocks[1].table < np
        /\ blocks[1].seen \subseteq blocks[1].names /\ LocalsOK(blocks[1])
    BY <1>1, <1>3 DEF BlocksOK, Depth
  <2>2. LocalsOK(a)
    BY <1>4, <2>1 DEF LocalsOK, Same
  <2>3. a.seen \subseteq a.names
    BY <1>1, <1>4, <2>1 DEF Same
  <2> QED BY <1>3, <1>4, <1>6, <2>1, <2>2, <2>3 DEF BlocksOK, Same
<1>8. CanFollow(B, np, b)
  <2>1. blocks[1].seen \subseteq Visible
    BY <1>1, <1>3 DEF Visible, Seen
  <2>2. a.seen \cap names = {}
    BY <1>1, <1>4, <2>1, NamesDiffer
  <2> QED BY <1>1, <1>4, <1>5, <1>6, <1>7, <2>2 DEF CanFollow
<1>9. /\ BlocksOK(blocks', np + 1) /\ Len(blocks') = 2 /\ blocks'[2] = b /\ blocks'[1] = a
  <2> DEFINE X == Append(B, b)
  <2>1. /\ BlocksOK(X, np + 1) /\ Len(X) = Len(B) + 1 /\ X[Len(B) + 1] = b
        /\ \A i \in 1..Len(B) : X[i] = B[i]
    <3>1. np \in Nat
      OBVIOUS
    <3> QED BY <1>8, <3>1, AppendFacts
  <2>2. blocks' = X
    BY <1>6
  <2> HIDE DEF X
  <2> QED BY <1>6, <2>1, <2>2
<1>10. /\ c \in InstrT /\ c.op = "function" /\ c.uses = {}
       /\ d \in InstrT /\ d.op = "setup" /\ d.uses = {}
  <2>1. c \in InstrT /\ d \in InstrT
    BY <1>2, InstrFacts
  <2> QED BY <2>1 DEF FuncLabel, SetupStackTAC, Instr
<1> HIDE DEF c, d
<1>11. code \in Seq(InstrT) /\ Len(code) = 2 /\ \A i \in 1..2 : code[i] = c \/ code[i] = d
  <2>1. code[1] = c /\ code[2] = d /\ \A i \in 1..2 : i = 1 \/ i = 2
    OBVIOUS
  <2> QED BY <1>10, <2>1
<1> HIDE DEF code
<1>12. \A i \in 1..Len(code) : code[i].op \in {"function", "setup"} /\ code[i].uses = {}
  BY <1>10, <1>11
<1>13. nt' \in Nat /\ nl' \in Nat /\ np' \in Nat /\ nt <= nt' /\ nl <= nl' /\ np <= np' /\ Len(blocks') \in Nat
  BY <1>1, <1>9
<1>14. vals' = <<>> /\ vals' \in Seq(ValT) /\ \A i \in 1..Len(vals') : FALSE
  BY <1>1
<1>15. AllocInv'
  <2>1. \A i \in 1..Len(code) : code[i].op # "delete" /\ code[i].op # "assign" /\ code[i].op \notin MakeOps
    BY <1>12 DEF MakeOps
  <2>2. \A e \in 1..Len(blocks') :
           \/ blocks'[e].table >= np /\ blocks'[e].table \in Nat
           \/ \E i \in 1..Depth : /\ blocks[i].table = blocks'[e].table
                                  /\ blocks[i].phase = "update" => blocks'[e].phase = "update"
    <3>1. \A e \in 1..Len(blocks') : e = 1 \/ e = 2
      BY <1>9
    <3> QED BY <1>1, <1>3, <1>4, <1>5, <1>9, <3>1 DEF Same
  <2>3. \A i \in 1..Len(code) : \A n \in code[i].uses : Now(n)
    BY <1>12
  <2> QED BY <1>1, <1>11, <1>13, <1>14, <2>1, <2>2, <2>3, AllocKeeps
<1>16. JumpInv'
  <2>1. \A i \in 1..Depth : Same(blocks[i], blocks'[i]) /\ (blocks'[i].phase = "init" => blocks[i].phase = "init")
    BY <1>1, <1>4, <1>9
  <2>2. Depth + 1 = 2 /\ ~Jumping(blocks'[Depth + 1]) /\ blocks'[Depth + 1].phase # "init"
    BY <1>1, <1>5, <1>9 DEF Jumping
  <2>3. \A e \in 1..Depth : ~Jumping(blocks[e])
    BY <1>1, <1>3 DEF Jumping
  <2>4. \A i \in 1..Len(code) : code[i].op # "jne" /\ code[i].op # "label"
    BY <1>12
  <2> QED BY <1>1, <1>9, <1>11, <1>13, <2>1, <2>2, <2>3, <2>4, JumpsGrow
<1>17. ScopeInv' /\ instrs' \in Seq(InstrT)
  BY <1>1, <1>9, <1>11, EmitFacts DEF ScopeInv, TypeOK
<1>18. TableInv' /\ types' \subseteq Names
  BY <1>1, <1>13, <1>14, TableKeeps
<1> QED BY <1>13, <1>14, <1>15, <1>16, <1>17, <1>18, Together

\* The code that ends a list of statements, before its last instruction.
LEMMA DeletesAre ==
  ASSUME AllInv, Top.phase = "list"
  PROVE  Deletes \in Seq(InstrT)
<1>1. Top.locals \in Seq(Names)
  BY TopFacts, StateFacts DEF BlockT
<1> DEFINE L == Top.locals
<1>2. \A i \in 1..Len(L) : DeleteTAC(L[i]) \in InstrT
  <2>1. \A i \in 1..Len(L) : L[i] \in Names
    BY <1>1
  <2> QED BY <2>1, InstrFacts
<1> HIDE DEF L
<1>3. [i \in 1..Len(L) |-> DeleteTAC(L[i])] \in Seq(InstrT)
  <2>1. Len(L) \in Nat
    BY <1>1 DEF L
  <2> QED BY <1>2, <2>1
<1> QED BY <1>3 DEF Deletes, L

\* What is left to show of the end of a block: its last instruction, which is
\* the label of a block that ends, and the blocks.
LEMMA EndStep ==
  ASSUME AllInv, vals = <<>>, UNCHANGED <<vals, nt, nl, np, types, replaced>>, Top.phase = "list",
         NEW tail \in Seq(InstrT), Emit(Deletes \o tail), Len(tail) <= 1,
         \A i \in 1..Len(tail) : tail[i].op \in {"leave", "label"} /\ tail[i].uses = {},
         \A i \in 1..Len(tail) : tail[i].op = "label" => Jumping(Top) /\ tail[i].label = Top.exit,
         BlocksOK(blocks', np),
         \/ /\ Len(blocks') = Depth /\ blocks'[Depth].phase = "update"
            /\ \A i \in 1..Depth : Same(blocks[i], blocks'[i]) /\ (i < Depth => blocks'[i].phase = "list")
            /\ \A i \in 1..Len(tail) : tail[i].op # "label"
         \/ /\ Depth > 1 /\ Len(blocks') = Depth - 1
            /\ \A i \in 1..(Depth - 1) : Same(blocks[i], blocks'[i]) /\ blocks'[i].phase = "list"
            /\ Jumping(Top) => Len(tail) = 1 /\ tail[1].op = "label"
  PROVE  AllInv'
<1> USE StateFacts
<1> DEFINE W == Len(Top.locals)
           code == Deletes \o tail
<1>1. /\ Depth \in Nat /\ Depth >= 1 /\ Depth \in 1..Depth /\ Top = blocks[Depth] /\ Top \in BlockT
  BY TopFacts
<1>2. \A b \in 1..Depth : blocks[b].phase = "list"
  BY <1>1 DEF ScopeInv, BlocksOK, Depth
<1>3. Len(blocks') \in Nat /\ vals' = <<>> /\ Len(blocks') <= Depth
  BY <1>1
<1>4. \A b \in 1..Len(blocks') : /\ b \in 1..Depth /\ Same(blocks[b], blocks'[b]) /\ blocks'[b].phase # "init"
                                 /\ b = Depth => blocks'[b].phase = "update"
  BY <1>1
<1>5. /\ AllocInv' /\ code \in Seq(InstrT) /\ Len(code) = W + Len(tail)
      /\ \A i \in 1..(W + Len(tail)) : IF i <= W THEN code[i].op = "delete" ELSE code[i] = tail[i - W]
  <2>1. \A b \in 1..Len(blocks') :
          \E a \in 1..Depth : /\ blocks[a].table = blocks'[b].table
                              /\ blocks[a].phase = "update" => blocks'[b].phase = "update"
                              /\ a = Depth => blocks'[b].phase = "update"
    BY <1>2, <1>4 DEF Same
  <2>2. UNCHANGED <<nt, np>>
    OBVIOUS
  <2> QED BY <1>3, <2>1, <2>2, AllocDelete
<1>6. W \in Nat /\ Len(tail) \in Nat
  BY <1>1 DEF BlockT
<1>7. Emit(code)
  OBVIOUS
<1> HIDE DEF code, W
<1>8. ASSUME NEW i \in 1..Len(code), code[i].op # "delete"
      PROVE  /\ Len(tail) = 1 /\ i = Len(code) /\ code[i] = tail[1]
             /\ code[i].op \in {"leave", "label"}
             /\ code[i].op = "label" => Jumping(Top) /\ code[i].label = Top.exit
  <2>1. i > W /\ code[i] = tail[i - W]
    BY <1>5, <1>6, <1>8
  <2>2. i - W = 1 /\ Len(tail) = 1 /\ 1 \in 1..Len(tail)
    <3>1. i \in 1..(W + Len(tail)) /\ Len(tail) <= 1
      BY <1>5
    <3> DEFINE T == Len(tail)
    <3>2. T \in Nat /\ T <= 1 /\ i \in 1..(W + T) /\ W \in Nat /\ i > W
      BY <1>6, <2>1, <3>1
    <3> HIDE DEF T
    <3>3. i - W = 1 /\ T = 1
      BY <3>2
    <3> QED BY <3>3 DEF T
  <2> QED BY <1>5, <1>6, <2>1, <2>2
<1>9. JumpInv'
  <2>1. Kept(blocks, blocks')
    <3>1. \A b \in 1..Len(blocks') : blocks[b].phase # "update"
      BY <1>2, <1>4
    <3> QED BY <1>3, <1>4, <3>1 DEF Kept, Depth
  <2>2. \A i \in 1..Len(code) : code[i].op \notin {"jne", "function"}
    BY <1>8
  <2>3. Jumping(Top) => /\ Drawn(Top.exit) /\ Unplaced(Top.exit)
                        /\ \A b \in 1..Depth : Jumping(blocks[b]) /\ blocks[b].exit = Top.exit => b = Depth
    BY <1>1 DEF JumpInv, LabelsOK
  <2>4. ASSUME NEW i \in 1..Len(code), code[i].op = "label"
        PROVE  /\ i = Len(code) /\ Drawn(code[i].label) /\ Unplaced(code[i].label)
               /\ \A b \in 1..Len(blocks') : /\ Jumping(blocks[b]) => blocks[b].exit # code[i].label
                                             /\ blocks'[b].phase # "init"
    <3>1. i = Len(code) /\ Jumping(Top) /\ code[i].label = Top.exit /\ Len(tail) = 1 /\ code[i] = tail[1]
      BY <1>8, <2>4
    <3>2. Len(blocks') = Depth - 1
      <4>1. 1 \in 1..Len(tail) /\ tail[1].op = "label"
        BY <2>4, <3>1
      <4> QED BY <4>1
    <3>3. \A b \in 1..Len(blocks') : b # Depth
      BY <1>1, <3>2
    <3> QED BY <1>4, <2>3, <3>1, <3>3
  <2>5. \A b \in 1..Depth : Jumping(blocks[b]) =>
           b \in 1..Len(blocks') \/ (Len(code) > 0 /\ code[Len(code)].op = "label" /\ code[Len(code)].label = blocks[b].exit)
    <3> SUFFICES ASSUME NEW b \in 1..Depth, Jumping(blocks[b]), b \notin 1..Len(blocks')
                 PROVE  Len(code) > 0 /\ code[Len(code)].op = "label" /\ code[Len(code)].label = blocks[b].exit
      OBVIOUS
    <3>1. Len(blocks') = Depth - 1 /\ b = Depth
      BY <1>1
    <3>2. Jumping(Top) /\ Len(tail) = 1 /\ tail[1].op = "label" /\ 1 \in 1..Len(tail)
      BY <1>1, <3>1
    <3>3. Len(code) = W + 1 /\ Len(code) > 0 /\ Len(code) \in 1..Len(code) /\ Len(code) > W
      BY <1>5, <1>6, <3>2
    <3>4. tail[1].label = Top.exit
      BY <3>2
    <3>5. code[Len(code)] = tail[1]
      BY <1>5, <1>6, <3>2, <3>3
    <3> QED BY <1>1, <3>1, <3>2, <3>3, <3>4, <3>5
  <2>6. UNCHANGED nl
    OBVIOUS
  <2> QED BY <1>3, <1>5, <1>7, <2>1, <2>2, <2>4, <2>5, <2>6, JumpsStay
<1>10. ScopeInv' /\ instrs' \in Seq(InstrT) /\ vals' \in Seq(ValT)
  BY <1>3, <1>5, <1>7, EmitFacts DEF ScopeInv, TypeOK
<1>11. nt' \in Nat /\ nl' \in Nat /\ np' \in Nat /\ nt <= nt'
  OBVIOUS
<1>12. TableInv' /\ types' \subseteq Names
  <2>1. \A i \in 1..Len(vals') : FALSE
    BY <1>3
  <2> QED BY <1>11, <2>1, TableKeeps
<1> QED BY <1>5, <1>9, <1>10, <1>11, <1>12, Together

\* The end of a block keeps the invariant: its locals are deleted, its label is placed and nothing names it any more.
LEMMA EndBlockStep == ASSUME AllInv, EndBlock PROVE AllInv'
<1> USE StateFacts
<1>1. /\ vals = <<>> /\ UNCHANGED <<vals, nt, nl, np, types, replaced>> /\ Top.phase = "list" /\ Top.k # "prog"
  BY DEF EndBlock, AtStatement
<1>2. /\ Depth \in Nat /\ Depth > 1 /\ Depth \in 1..Depth /\ Top = blocks[Depth] /\ Top \in BlockT
      /\ \A b \in 1..Depth : blocks[b].phase = "list"
  <2>1. /\ Depth \in Nat /\ Depth >= 1 /\ Depth # 1 /\ Depth \in 1..Depth /\ Top = blocks[Depth] /\ Top \in BlockT
    BY <1>1, TopFacts
  <2> QED BY <1>1, <2>1 DEF ScopeInv, BlocksOK, Depth
<1>3. Top.k \in {"if", "while", "for", "func"}
  BY <1>1, <1>2 DEF BlockT, BlockKinds
<1>4. CASE Top.k = "for"
  <2> DEFINE tail == <<>>
  <2>1. Emit(Deletes) /\ blocks' = [blocks EXCEPT ![Len(blocks)].phase = "update"]
    BY <1>4 DEF EndBlock, Depth
  <2>2. tail \in Seq(InstrT) /\ Len(tail) = 0 /\ Emit(Deletes \o tail)
    BY <1>1, <2>1, DeletesAre, ConcatEmptySeq
  <2> HIDE DEF tail
  <2>3. /\ BlocksOK(blocks', np) /\ Len(blocks') = Depth
        /\ \A i \in 1..Depth : /\ Same(blocks[i], blocks'[i])
                               /\ blocks'[i].phase = IF i = Depth THEN "update" ELSE blocks[i].phase
    <3> DEFINE X == [blocks EXCEPT ![Len(blocks)].phase = "update"]
    <3>1. "update" \in Phases /\ BlocksOK(blocks, np) /\ blocks[Len(blocks)].k = "for"
      BY <1>2, <1>4 DEF Phases, ScopeInv, Depth
    <3>2. /\ BlocksOK(X, np) /\ Len(X) = Len(blocks)
          /\ \A i \in 1..Len(blocks) : /\ Same(blocks[i], X[i])
                                       /\ X[i].phase = IF i = Len(blocks) THEN "update" ELSE blocks[i].phase
      BY <3>1, PhaseFacts
    <3> QED BY <2>1, <3>2 DEF Depth
  <2>4. /\ Len(blocks') = Depth /\ blocks'[Depth].phase = "update"
        /\ \A i \in 1..Depth : Same(blocks[i], blocks'[i]) /\ (i < Depth => blocks'[i].phase = "list")
        /\ \A i \in 1..Len(tail) : tail[i].op # "label"
    BY <1>2, <2>2, <2>3
  <2>5. Len(tail) <= 1 /\ \A i \in 1..Len(tail) : FALSE
    BY <2>2
  <2> QED BY <1>1, <2>2, <2>3, <2>4, <2>5, EndStep
<1>5. CASE Top.k = "func"
  <2> DEFINE tail == IF Top.last = "return" THEN <<>> ELSE <<VoidReturnTAC>>
             X == SubSeq(blocks, 1, Len(blocks) - 1)
  <2>1. Emit(Deletes \o tail) /\ blocks' = X
    BY <1>5 DEF EndBlock, Depth
  <2>2. VoidReturnTAC \in InstrT /\ VoidReturnTAC.op = "leave" /\ VoidReturnTAC.uses = {}
    <3>1. VoidReturnTAC \in InstrT
      BY InstrFacts
    <3> QED BY <3>1 DEF VoidReturnTAC, Instr
  <2>3. tail \in Seq(InstrT) /\ Len(tail) <= 1 /\ \A i \in 1..Len(tail) : tail[i] = VoidReturnTAC
    BY <2>2
  <2> HIDE DEF tail
  <2>4. BlocksOK(X, np) /\ Len(X) = Len(blocks) - 1 /\ \A i \in 1..Len(X) : X[i] = blocks[i]
    BY <1>2, PopFacts DEF ScopeInv, Depth
  <2> HIDE DEF X
  <2>5. /\ Depth > 1 /\ Len(blocks') = Depth - 1 /\ BlocksOK(blocks', np)
        /\ \A i \in 1..(Depth - 1) : Same(blocks[i], blocks'[i]) /\ blocks'[i].phase = "list"
        /\ ~Jumping(Top)
    BY <1>2, <1>5, <2>1, <2>4 DEF Same, Depth, Jumping
  <2>6. \A i \in 1..Len(tail) : tail[i].op = "leave" /\ tail[i].uses = {}
    BY <2>2, <2>3
  <2> QED BY <1>1, <2>1, <2>3, <2>5, <2>6, EndStep
<1>6. CASE Top.k \in {"if", "while"}
  <2> DEFINE c == LabelTAC(Top.exit)
             tail == <<c>>
             X == SubSeq(blocks, 1, Len(blocks) - 1)
  <2>1. Emit(Deletes \o tail) /\ blocks' = Past(X, "other")
    BY <1>6 DEF EndBlock, Depth, Exit
  <2>2. c \in InstrT /\ c.op = "label" /\ c.uses = {} /\ c.label = Top.exit
    <3>1. c \in InstrT
      BY <1>2, InstrFacts DEF BlockT
    <3> QED BY <3>1 DEF LabelTAC, Instr
  <2> HIDE DEF c
  <2>3. tail \in Seq(InstrT) /\ Len(tail) = 1 /\ tail[1] = c /\ \A i \in 1..Len(tail) : tail[i] = c
    BY <2>2
  <2> HIDE DEF tail
  <2>4. BlocksOK(X, np) /\ Len(X) = Len(blocks) - 1 /\ \A i \in 1..Len(X) : X[i] = blocks[i]
    BY <1>2, PopFacts DEF ScopeInv, Depth
  <2> HIDE DEF X
  <2>5. /\ BlocksOK(blocks', np) /\ Len(blocks') = Len(X)
        /\ \A i \in 1..Len(X) : Same(X[i], blocks'[i]) /\ blocks'[i].phase = X[i].phase
    <3>1. "other" \in Lasts
      BY DEF Lasts
    <3> QED BY <2>1, <2>4, <3>1, PastFacts
  <2>6. /\ Depth > 1 /\ Len(blocks') = Depth - 1
        /\ \A i \in 1..(Depth - 1) : Same(blocks[i], blocks'[i]) /\ blocks'[i].phase = "list"
    <3>1. Len(X) = Depth - 1
      BY <2>4 DEF Depth
    <3>2. \A i \in 1..(Depth - 1) : i \in 1..Depth /\ X[i] = blocks[i] /\ blocks[i].phase = "list"
      BY <1>2, <2>4, <3>1
    <3> QED BY <1>2, <2>5, <3>1, <3>2
  <2>7. Jumping(Top)
    BY <1>6 DEF Jumping
  <2>8. \A i \in 1..Len(tail) : tail[i].op = "label" /\ tail[i].uses = {} /\ tail[i].label = Top.exit
    BY <2>2, <2>3
  <2>9. Len(tail) <= 1 /\ tail[1].op = "label"
    BY <2>2, <2>3
  <2> QED BY <1>1, <2>1, <2>3, <2>5, <2>6, <2>7, <2>8, <2>9, EndStep
<1> QED BY <1>3, <1>4, <1>5, <1>6

-----------------------------------------------------------------------------
(* The invariant, and what follows from it.                                *)

\* The invariant holds before any code is generated.
LEMMA AllInvInit == Init => AllInv
<1> SUFFICES ASSUME Init PROVE AllInv
  OBVIOUS
<1>1. /\ instrs = <<>> /\ vals = <<>> /\ nt = 0 /\ nl = 0 /\ np = 1 /\ types = {}
  BY DEF Init
<1>2. PICK names \in SUBSET Ids :
        blocks = <<[k |-> "prog", phase |-> "list", exit |-> NoName, again |-> NoName, table |-> 0,
                    names |-> names \cup Funcs, seen |-> {}, locals |-> <<>>, last |-> "none"]>>
  BY DEF Init
<1> DEFINE b == [k |-> "prog", phase |-> "list", exit |-> NoName, again |-> NoName, table |-> 0,
                 names |-> names \cup Funcs, seen |-> {}, locals |-> <<>>, last |-> "none"]
<1>3. b \in BlockT
  <2>1. NoName \in Names /\ <<>> \in Seq(Names) /\ names \cup Funcs \subseteq Source
    BY NameFacts DEF Source
  <2> QED BY <2>1 DEF BlockT, BlockKinds, Phases, Lasts
<1>4. /\ b.k = "prog" /\ b.phase = "list" /\ b.exit = NoName /\ b.table = 0 /\ b.seen = {}
      /\ b.locals = <<>> /\ b.again = NoName
  OBVIOUS
<1> HIDE DEF b
<1>5. blocks \in Seq(BlockT) /\ Len(blocks) = 1 /\ blocks[1] = b
  <2>1. blocks = <<b>>
    BY <1>2 DEF b
  <2> QED BY <1>3, <2>1
<1>6. ScopeInv
  <2>1. LocalsOK(b)
    BY <1>4 DEF LocalsOK
  <2>2. \A i \in 1..Len(blocks) : i = 1
    BY <1>5
  <2> QED BY <1>1, <1>4, <1>5, <2>1, <2>2 DEF ScopeInv, BlocksOK
<1>7. TypeOK
  BY <1>1 DEF TypeOK
<1>8. AllocInv
  BY <1>1 DEF AllocInv, AllocatorInput
<1>9. JumpInv
  <2>1. \A i \in 1..Depth : ~Jumping(blocks[i]) /\ blocks[i].phase # "init"
    BY <1>4, <1>5 DEF Jumping, Depth
  <2> QED BY <1>1, <2>1 DEF JumpInv, LabelsOK, JumpsOK
<1>10. TableInv
  BY <1>1 DEF TableInv
<1> QED BY <1>6, <1>7, <1>8, <1>9, <1>10 DEF AllInv, Inv

\* Every step of code generation keeps the invariant.
LEMMA AllInvNext == AllInv /\ [Next]_vars => AllInv'
<1> SUFFICES ASSUME AllInv, [Next]_vars PROVE AllInv'
  OBVIOUS
<1>1. CASE IntLiteral \/ Unsupported \/ Operation \/ Callee \/ Argument \/ FunctionCallExpr
  BY <1>1, IntLiteralStep, UnsupportedStep, OperationStep, CalleeStep, ArgumentStep, FunctionCallExprStep
<1>2. CASE \E x \in Ids \cup Funcs : Ident(x) \/ VarDecl(x)
  BY <1>2, IdentStep, VarDeclStep
<1>3. CASE \E x \in Ids : BeginVarDeclInit(x)
  BY <1>3, BeginVarDeclInitStep
<1>4. CASE VarDeclInit \/ Assignment \/ FunctionCallStmt \/ ReturnStatement \/ SilentStmt
  BY <1>4, VarDeclInitStep, AssignmentStep, FunctionCallStmtStep, ReturnStatementStep, SilentStmtStep
<1>5. CASE \E names \in SUBSET Ids : IfStmt(names) \/ WhileStmt(names) \/ ForStmt(names)
  BY <1>5, IfStmtStep, WhileStmtStep, ForStmtStep
<1>6. CASE ForCondition \/ EndBlock
  BY <1>6, ForConditionStep, EndBlockStep
<1>7. CASE \E f \in Funcs, names \in SUBSET Ids : FuncDecl(f, names)
  BY <1>7, FuncDeclStep
<1>8. CASE UNCHANGED vars
  <2>1. /\ instrs' = instrs /\ blocks' = blocks /\ vals' = vals /\ nt' = nt /\ nl' = nl /\ np' = np
        /\ types' = types /\ replaced' = replaced
    BY <1>8 DEF vars
  <2> USE <2>1
  <2>2. TypeOK'
    BY DEF AllInv, Inv, TypeOK
  <2>3. ScopeInv' /\ AllocInv' /\ JumpInv'
    <3> DEFINE code == <<>>
    <3>1. code \in Seq(InstrT) /\ Len(code) = 0 /\ Emit(code)
      BY StateFacts, EmitNothing
    <3> HIDE DEF code
    <3>2. Inv /\ nt' \in Nat /\ nt <= nt' /\ \A i \in 1..Len(vals') : Now(vals'[i].n)
      BY StateFacts DEF Held
    <3>3. \A i \in 1..Len(code) : FALSE
      BY <3>1
    <3> QED BY <3>1, <3>2, <3>3, ExprKeeps
  <2>4. TableInv'
    BY DEF AllInv, TableInv, Top, Depth
  <2> QED BY <2>2, <2>3, <2>4 DEF AllInv, Inv
<1> QED BY <1>1, <1>2, <1>3, <1>4, <1>5, <1>6, <1>7, <1>8 DEF Next

\* The types, the blocks, the names in the code, its jumps and the type table
\* are as the invariant says in every state that code generation reaches.
THEOREM InvariantHolds == Spec => []AllInv
BY AllInvInit, AllInvNext, PTL DEF Spec

\* The invariant says where every jump that was emitted lands.
LEMMA JumpInvLands == AllInv => JumpsLand
<1> SUFFICES ASSUME AllInv, NEW i \in 1..Len(instrs), instrs[i].op = "jne", NEW l, l = instrs[i].label
             PROVE  /\ \A j \in 1..Len(instrs) : Places(j, l) =>
                         /\ i < j /\ \A k \in i..j : instrs[k].op # "function" /\ (Places(k, l) => k = j)
                    /\ Depth = 1 => \E j \in 1..Len(instrs) : Places(j, l)
  BY DEF JumpsLand
<1>1. /\ \A j \in 1..Len(instrs) : Places(j, l) => i < j /\ \A k \in i..j : instrs[k].op # "function"
      /\ \/ \E j \in 1..Len(instrs) : Places(j, l)
         \/ \E b \in 1..Depth : Jumping(blocks[b]) /\ blocks[b].exit = l
  BY StateFacts DEF JumpInv, JumpsOK
<1>2. \A j, k \in 1..Len(instrs) : Places(j, l) /\ Places(k, l) => k = j
  BY StateFacts DEF JumpInv, LabelsOK
<1>3. \A j \in 1..Len(instrs) : \A k \in i..j : k \in 1..Len(instrs)
  OBVIOUS
<1>4. Depth = 1 => \A b \in 1..Depth : ~Jumping(blocks[b])
  <2>1. Depth = 1 => Top.k = "prog" /\ Top = blocks[1]
    BY StateFacts, TopFacts DEF Top
  <2> QED BY <2>1 DEF Jumping
<1> QED BY <1>1, <1>2, <1>3, <1>4

\* A name that the parser has seen declared is looked up in the map of the
\* block that declares it, however many maps around and inside it have the
\* name too (NamesToNames::get).
THEOREM LookupHolds == Spec => []LookupFindsDeclaration
<1>1. AllInv => LookupFindsDeclaration
  BY StateFacts, SeenFound DEF LookupFindsDeclaration
<1> QED BY <1>1, InvariantHolds, PTL

\* Every instruction that the allocator is given reads what was made before it
\* and not deleted, makes its temporary for the first time and deletes a
\* variable once: what RegAlloc assumes of its input.
THEOREM AllocatorInputHolds == Spec => []AllocatorInput
<1>1. AllInv => AllocatorInput
  BY DEF AllInv, Inv, AllocInv
<1> QED BY <1>1, InvariantHolds, PTL

\* Conditional jumps go to one place, further on in the same function.
THEOREM JumpsLandHolds == Spec => []JumpsLand
BY JumpInvLands, InvariantHolds, PTL

-----------------------------------------------------------------------------
(* The types that are replaced. A name has a type as soon as something     *)
(* reads or makes it, so that a function which has one when it is defined  *)
(* was read before.                                                        *)

Occurs(c, n) == n \in c.uses \/ n = c.def \/ n = c.label

\* A name is that of an unfinished expression, before or after a step, or in
\* the code.
InVals(n) == \E i \in 1..Len(vals) : vals[i].n = n
Left(n) == \E i \in 1..Len(vals') : vals'[i].n = n
InCode(code, n) == \E i \in 1..Len(code) : Occurs(code[i], n)

TypesInv ==
  /\ replaced \in Seq(Names)
  /\ TypesKept
  /\ \A n \in types : InVals(n) \/ InCode(instrs, n)

\* A step that replaces no type, and emits the names that it takes off.
LEMMA TypesStay ==
  ASSUME AllInv, TypesInv, NEW code \in Seq(InstrT), Emit(code), UNCHANGED replaced,
         \A i \in 1..Held : Left(vals[i].n) \/ InCode(code, vals[i].n),
         \A n \in types' : n \in types \/ Left(n) \/ InCode(code, n)
  PROVE  TypesInv'
<1>1. /\ \A i \in 1..Len(instrs) : i \in 1..Len(instrs') /\ instrs'[i] = instrs[i]
      /\ \A i \in 1..Len(code) : Len(instrs) + i \in 1..Len(instrs') /\ instrs'[Len(instrs) + i] = code[i]
  BY StateFacts, EmitFacts DEF TypeOK
<1>2. \A n : InCode(instrs, n) => InCode(instrs', n)
  BY <1>1 DEF InCode
<1>3. \A n : InCode(code, n) => InCode(instrs', n)
  BY <1>1 DEF InCode
<1>4. TypesKept'
  <2> SUFFICES ASSUME NEW k \in 1..Len(replaced), NEW n, n = replaced[k]
               PROVE  /\ \E i, j \in 1..Len(instrs') : i < j /\ n \in instrs'[i].uses /\ instrs'[j] = FuncLabel(n)
                      /\ \A m \in 1..Len(replaced) : replaced[m] = n => m = k
    BY DEF TypesKept
  <2>1. /\ \E i, j \in 1..Len(instrs) : i < j /\ n \in instrs[i].uses /\ instrs[j] = FuncLabel(n)
        /\ \A m \in 1..Len(replaced) : replaced[m] = n => m = k
    BY DEF TypesInv, TypesKept
  <2> QED BY <1>1, <2>1
<1>5. ASSUME NEW n \in types' PROVE Left(n) \/ InCode(instrs', n)
  <2>1. CASE n \in types
    <3>1. InVals(n) \/ InCode(instrs, n)
      BY <2>1 DEF TypesInv
    <3>2. InVals(n) => Left(n) \/ InCode(code, n)
      BY DEF InVals, Left, Held
    <3> QED BY <1>2, <1>3, <3>1, <3>2
  <2> QED BY <1>3, <1>5, <2>1
<1>6. replaced' \in Seq(Names)
  BY DEF TypesInv
<1> QED BY <1>4, <1>5, <1>6 DEF TypesInv, InVals, Left

\* What the values keep when m are taken off and one is put on.
LEMMA ValsLeft ==
  ASSUME AllInv, NEW m \in {0, 1, 2}, Held >= m, NEW v \in ValT
  PROVE  /\ vals' = Append(Pop(m), v) =>
              /\ Left(v.n)
              /\ \A i \in 1..(Held - m) : Left(vals[i].n)
         /\ vals' = Pop(m) => \A i \in 1..(Held - m) : Left(vals[i].n)
<1>1. /\ Held \in Nat /\ Pop(m) \in Seq(ValT) /\ Len(Pop(m)) = Held - m
      /\ \A i \in 1..(Held - m) : Pop(m)[i] = vals[i]
  BY StateFacts, ValsFacts
<1>2. /\ Len(Append(Pop(m), v)) = Held - m + 1
      /\ Append(Pop(m), v)[Held - m + 1] = v
      /\ \A i \in 1..(Held - m) : Append(Pop(m), v)[i] = vals[i]
  BY <1>1, AppendProperties
<1>3. /\ \A i \in 1..(Held - m) : i \in 1..(Held - m + 1)
      /\ Held - m + 1 \in 1..(Held - m + 1)
  BY <1>1
<1> QED BY <1>1, <1>2, <1>3 DEF Left

\* The code that Finish emits has that of the statement in it.
LEMMA FinishEmits ==
  ASSUME AllInv, NEW bs, NEW k, NEW code \in Seq(InstrT), Finish(bs, k, code),
         Top.phase \in {"list", "init", "update"}
  PROVE  /\ vals' = <<>>
         /\ \E all \in Seq(InstrT) : Emit(all) /\ \A n : InCode(code, n) => InCode(all, n)
<1>1. vals' = <<>>
  BY DEF Finish
<1>2. Emit(code) \/ \E l \in Names : Emit(code \o <<LabelTAC(l)>>)
  <2>1. Top.again \in Names /\ Top.exit \in Names
    BY StateFacts, TopFacts DEF BlockT
  <2> QED BY <2>1 DEF Finish
<1>3. ASSUME NEW l \in Names, Emit(code \o <<LabelTAC(l)>>)
      PROVE  \E all \in Seq(InstrT) : Emit(all) /\ \A n : InCode(code, n) => InCode(all, n)
  <2> DEFINE all == code \o <<LabelTAC(l)>>
  <2>1. LabelTAC(l) \in InstrT
    BY InstrFacts
  <2>2. all \in Seq(InstrT) /\ \A i \in 1..Len(code) : i \in 1..Len(all) /\ all[i] = code[i]
    <3> DEFINE t == <<LabelTAC(l)>>
    <3>1. t \in Seq(InstrT) /\ Len(t) = 1
      BY <2>1
    <3> HIDE DEF t
    <3>2. /\ code \o t \in Seq(InstrT) /\ Len(code \o t) = Len(code) + Len(t)
          /\ \A i \in 1..(Len(code) + Len(t)) : (code \o t)[i] = IF i <= Len(code) THEN code[i] ELSE t[i - Len(code)]
      BY <3>1, ConcatProperties
    <3>3. \A i \in 1..Len(code) : i \in 1..Len(code \o t) /\ (code \o t)[i] = code[i]
      BY <3>1, <3>2
    <3> QED BY <3>2, <3>3 DEF t
  <2> HIDE DEF all
  <2>3. \A n : InCode(code, n) => InCode(all, n)
    BY <2>2 DEF InCode
  <2>4. Emit(all)
    BY <1>3 DEF all
  <2> QED BY <2>2, <2>3, <2>4
<1> QED BY <1>1, <1>2, <1>3

\* A statement that ends with the values it took off in its code.
LEMMA TypesFinish ==
  ASSUME AllInv, TypesInv, NEW bs, NEW k, NEW code \in Seq(InstrT), Finish(bs, k, code),
         Top.phase \in {"list", "init", "update"}, UNCHANGED replaced,
         \A i \in 1..Held : InCode(code, vals[i].n),
         \A n \in types' : n \in types \/ InCode(code, n)
  PROVE  TypesInv'
<1>1. PICK all \in Seq(InstrT) : Emit(all) /\ \A n : InCode(code, n) => InCode(all, n)
  BY FinishEmits
<1> QED BY <1>1, TypesStay

\* One instruction, or two, and what occurs in them.
LEMMA OccursIn ==
  ASSUME NEW c \in InstrT, NEW d \in InstrT
  PROVE  /\ <<c>> \in Seq(InstrT) /\ <<c, d>> \in Seq(InstrT)
         /\ \A n : Occurs(c, n) => InCode(<<c>>, n) /\ InCode(<<c, d>>, n)
         /\ \A n : Occurs(d, n) => InCode(<<c, d>>, n)
<1>1. /\ <<c>> \in Seq(InstrT) /\ Len(<<c>>) = 1 /\ <<c>>[1] = c
      /\ <<c, d>> \in Seq(InstrT) /\ Len(<<c, d>>) = 2 /\ <<c, d>>[1] = c /\ <<c, d>>[2] = d
  BY CodeFacts
<1>2. 1 \in 1..1 /\ 1 \in 1..2 /\ 2 \in 1..2
  OBVIOUS
<1> QED BY <1>1, <1>2 DEF InCode

\* No value is left over by a statement, so it has two at most.
LEMMA HeldOf ==
  ASSUME AllInv
  PROVE  /\ vals = <<>> => \A i \in 1..Held : FALSE
         /\ Held = 1 => \A i \in 1..Held : i = 1
         /\ Held = 2 => \A i \in 1..Held : i = 1 \/ i = 2
         /\ \A i \in 1..Held : i \in 1..(Held - 1) \/ i = Held
         /\ Held >= 2 => \A i \in 1..Held : i \in 1..(Held - 2) \/ i = Held - 1 \/ i = Held
BY StateFacts DEF Held

\* Expressions: the temporary that a literal gets a type for is new, and the
\* names that are used up go into the code.
LEMMA TypesExpr ==
  ASSUME AllInv, TypesInv, IntLiteral \/ Unsupported \/ (\E x : Ident(x)) \/ Operation \/ Callee \/ Argument \/ FunctionCallExpr
  PROVE  TypesInv'
<1> USE StateFacts
<1>1. CASE IntLiteral
  <2> DEFINE c == Value(Temp(nt))
             v == Val(Temp(nt), "value")
  <2>1. Emit(<<c>>) /\ Put(Temp(nt)) /\ vals' = Append(Pop(0), v)
    BY <1>1, ValsFacts DEF IntLiteral, Push
  <2>2. c \in InstrT /\ v \in ValT /\ v.n = Temp(nt)
    BY InstrFacts, ValIs DEF Roles
  <2> HIDE DEF c, v
  <2>3. Left(Temp(nt)) /\ \A i \in 1..Held : Left(vals[i].n)
    BY <2>1, <2>2, ValsLeft
  <2>4. UNCHANGED replaced /\ \A n \in types' : n \in types \/ n = Temp(nt)
    BY <2>1 DEF Put
  <2>5. <<c>> \in Seq(InstrT)
    BY <2>2, OccursIn
  <2> DEFINE code == <<c>>
  <2>6. code \in Seq(InstrT) /\ Emit(code)
    BY <2>1, <2>5
  <2> HIDE DEF code
  <2> QED BY <2>3, <2>4, <2>6, TypesStay
<1>2. CASE Unsupported
  <2> DEFINE v == Val(NoName, "calling")
             code == <<>>
  <2>1. UNCHANGED <<instrs, types, replaced>> /\ vals' = Append(Pop(0), v)
    BY <1>2, ValsFacts DEF Unsupported, Push
  <2>2. v \in ValT
    BY ValIs DEF Roles
  <2> HIDE DEF v
  <2>3. \A i \in 1..Held : Left(vals[i].n)
    BY <2>1, <2>2, ValsLeft
  <2>4. code \in Seq(InstrT) /\ Emit(code)
    BY <2>1, EmitNothing
  <2> HIDE DEF code
  <2> QED BY <2>1, <2>3, <2>4, TypesStay
<1>3. ASSUME NEW x, Ident(x) PROVE TypesInv'
  <2> DEFINE u == GetName(x)
             v == Val(u, "calling")
             code == <<>>
  <2>1. UNCHANGED instrs /\ PutFromSymbol(u) /\ vals' = Append(Pop(0), v)
    BY <1>3, ValsFacts DEF Ident, Push
  <2>2. u \in Names
    <3>1. PICK i \in 1..Depth : x \in Seen(i)
      BY <1>3 DEF Ident, Visible
    <3>2. x \in Source /\ u = VarName(blocks[i].table, x) /\ blocks[i].table \in Nat
      BY <3>1, SeenFound
    <3> QED BY <3>2, NameFacts
  <2> HIDE DEF u
  <2>3. v \in ValT /\ v.n = u
    BY <2>2, ValIs DEF Roles
  <2> HIDE DEF v
  <2>4. Left(u) /\ \A i \in 1..Held : Left(vals[i].n)
    BY <2>1, <2>3, ValsLeft
  <2>5. code \in Seq(InstrT) /\ Emit(code)
    BY <2>1, EmitNothing
  <2>6. UNCHANGED replaced /\ \A n \in types' : n \in types \/ n = u
    BY <2>1 DEF PutFromSymbol
  <2> HIDE DEF code
  <2> QED BY <2>4, <2>5, <2>6, TypesStay
<1>4. CASE Operation
  <2> DEFINE l == vals[Held - 1].n
             r == vals[Held].n
             c == Compute(Temp(nt), l, r)
             v == Val(Temp(nt), "value")
             code == <<c>>
  <2>1. Held >= 2 /\ Emit(code) /\ UNCHANGED <<types, replaced>> /\ vals' = Append(Pop(2), v)
    BY <1>4 DEF Operation, Has
  <2>2. Held \in 1..Held /\ Held - 1 \in 1..Held
    BY <2>1
  <2>3. c \in InstrT /\ v \in ValT
    BY <2>2, InstrFacts, ValIs DEF Roles
  <2>4. Occurs(c, l) /\ Occurs(c, r)
    BY DEF Occurs, Compute, Instr
  <2> HIDE DEF c, v
  <2>5. code \in Seq(InstrT) /\ InCode(code, l) /\ InCode(code, r)
    BY <2>3, <2>4, OccursIn
  <2> HIDE DEF code
  <2>6. \A i \in 1..(Held - 2) : Left(vals[i].n)
    BY <2>1, <2>3, ValsLeft
  <2>7. \A i \in 1..Held : i \in 1..(Held - 2) \/ i = Held - 1 \/ i = Held
    BY <2>1, HeldOf
  <2>8. \A i \in 1..Held : Left(vals[i].n) \/ InCode(code, vals[i].n)
    BY <2>5, <2>6, <2>7
  <2> QED BY <2>1, <2>5, <2>8, TypesStay
<1>5. CASE Callee
  <2> DEFINE f == vals[Held].n
             v == Val(f, "callee")
             code == <<>>
  <2>1. Held >= 1 /\ UNCHANGED <<instrs, types, replaced>> /\ vals' = Append(Pop(1), v)
    BY <1>5 DEF Callee
  <2>2. v \in ValT /\ v.n = f
    <3>1. Held \in 1..Held
      BY <2>1
    <3>2. f \in Names
      BY <3>1
    <3> QED BY <3>2, ValIs DEF Roles
  <2> HIDE DEF v
  <2>3. Left(f) /\ \A i \in 1..(Held - 1) : Left(vals[i].n)
    BY <2>1, <2>2, ValsLeft
  <2>4. \A i \in 1..Held : Left(vals[i].n)
    BY <2>3, HeldOf
  <2>5. code \in Seq(InstrT) /\ Emit(code)
    BY <2>1, EmitNothing
  <2> HIDE DEF code
  <2> QED BY <2>1, <2>4, <2>5, TypesStay
<1>6. CASE Argument
  <2> DEFINE f == vals[Held].n
             c == PushTAC(f)
             code == <<c>>
  <2>1. Held >= 1 /\ Emit(code) /\ UNCHANGED <<types, replaced>> /\ vals' = Pop(1)
    BY <1>6 DEF Argument
  <2>2. c \in InstrT /\ Occurs(c, f)
    <3>1. Held \in 1..Held
      BY <2>1
    <3>2. c \in InstrT
      BY <3>1, InstrFacts
    <3> QED BY <3>2 DEF Occurs, PushTAC, Instr
  <2> HIDE DEF c
  <2>3. code \in Seq(InstrT) /\ InCode(code, f)
    BY <2>2, OccursIn
  <2> HIDE DEF code
  <2>4. \A i \in 1..(Held - 1) : Left(vals[i].n)
    <3>1. "value" \in Roles /\ NoName \in Names
      BY DEF Roles
    <3>2. PICK v \in ValT : TRUE
      BY <3>1, ValIs
    <3> QED BY <2>1, <3>2, ValsLeft
  <2>5. \A i \in 1..Held : Left(vals[i].n) \/ InCode(code, vals[i].n)
    BY <2>3, <2>4, HeldOf
  <2> QED BY <2>1, <2>3, <2>5, TypesStay
<1>7. CASE FunctionCallExpr
  <2> DEFINE f == vals[Held].n
             c == CallTAC(f)
             d == RetvalTAC(Temp(nt))
             v == Val(Temp(nt), "calling")
             code == <<c, d>>
  <2>1. Held >= 1 /\ Emit(code) /\ UNCHANGED <<types, replaced>> /\ vals' = Append(Pop(1), v)
    BY <1>7 DEF FunctionCallExpr
  <2>2. c \in InstrT /\ d \in InstrT /\ v \in ValT /\ Occurs(c, f)
    <3>1. Held \in 1..Held
      BY <2>1
    <3>2. c \in InstrT /\ d \in InstrT
      BY <3>1, InstrFacts
    <3>3. v \in ValT
      BY ValIs DEF Roles
    <3> QED BY <3>2, <3>3 DEF Occurs, CallTAC, Instr
  <2> HIDE DEF c, d, v
  <2>3. code \in Seq(InstrT) /\ InCode(code, f)
    BY <2>2, OccursIn
  <2> HIDE DEF code
  <2>4. \A i \in 1..(Held - 1) : Left(vals[i].n)
    BY <2>1, <2>2, ValsLeft
  <2>5. \A i \in 1..Held : Left(vals[i].n) \/ InCode(code, vals[i].n)
    BY <2>3, <2>4, HeldOf
  <2> QED BY <2>1, <2>3, <2>5, TypesStay
<1> QED BY <1>1, <1>2, <1>3, <1>4, <1>5, <1>6, <1>7

\* A statement without values or types of its own.
LEMMA TypesNothing ==
  ASSUME AllInv, TypesInv, NEW code \in Seq(InstrT), Emit(code), UNCHANGED <<types, replaced>>, vals = <<>>
  PROVE  TypesInv'
<1>1. \A i \in 1..Held : FALSE
  BY HeldOf
<1> QED BY <1>1, TypesStay

\* Statements: the values that one ends with are in its code, and the variable
\* that is initialized too.
LEMMA TypesStatement ==
  ASSUME AllInv, TypesInv,
         \/ \E x : VarDecl(x) \/ BeginVarDeclInit(x)
         \/ VarDeclInit \/ Assignment \/ FunctionCallStmt \/ ReturnStatement \/ SilentStmt
  PROVE  TypesInv'
<1> USE StateFacts
<1>1. ASSUME NEW bs, NEW k, Finish(bs, k, <<>>), vals = <<>>, Top.phase \in {"list", "init", "update"},
             UNCHANGED <<types, replaced>>
      PROVE  TypesInv'
  <2> DEFINE code == <<>>
  <2>1. code \in Seq(InstrT) /\ Finish(bs, k, code)
    BY <1>1
  <2> HIDE DEF code
  <2>2. \A i \in 1..Held : FALSE
    BY <1>1, HeldOf
  <2> QED BY <1>1, <2>1, <2>2, TypesFinish
<1>2. ASSUME NEW k, NEW c \in InstrT, Finish(blocks, k, <<c>>), Top.phase # "cond", UNCHANGED replaced,
             \A i \in 1..Held : Occurs(c, vals[i].n), \A n \in types' : n \in types \/ Occurs(c, n)
      PROVE  TypesInv'
  <2> DEFINE code == <<c>>
  <2>1. code \in Seq(InstrT) /\ Finish(blocks, k, code)
    BY <1>2
  <2>2. \A n : Occurs(c, n) => InCode(code, n)
    BY OccursIn
  <2> HIDE DEF code
  <2>3. Top.phase \in {"list", "init", "update"}
    BY <1>2, PhaseIs
  <2> QED BY <1>2, <2>1, <2>2, <2>3, TypesFinish
<1>3. ASSUME NEW x, VarDecl(x) PROVE TypesInv'
  BY <1>1, <1>3 DEF VarDecl, CanDeclare, AtStatement
<1>4. CASE SilentStmt
  BY <1>1, <1>4 DEF SilentStmt, AtStatement
<1>5. ASSUME NEW x, BeginVarDeclInit(x) PROVE TypesInv'
  <2> DEFINE code == <<>>
  <2>1. vals = <<>> /\ UNCHANGED instrs /\ UNCHANGED <<types, replaced>>
    BY <1>5 DEF BeginVarDeclInit, CanDeclare, AtStatement
  <2>2. code \in Seq(InstrT) /\ Emit(code)
    BY <2>1, EmitNothing
  <2> HIDE DEF code
  <2> QED BY <2>1, <2>2, TypesNothing
<1>6. CASE VarDeclInit \/ Assignment
  <2> DEFINE a == vals[1].n
             b == vals[2].n
             c == AssignTAC(a, b)
  <2>1. /\ Held = 2 /\ Finish(blocks, "other", <<c>>)
        /\ VarDeclInit => vals[1].role = "target" /\ PutFromSymbol(a)
        /\ Assignment => Top.phase # "cond" /\ UNCHANGED <<types, replaced>>
    BY <1>6 DEF VarDeclInit, Assignment
  <2>2. 1 \in 1..Held /\ 2 \in 1..Held /\ \A i \in 1..Held : i = 1 \/ i = 2
    BY <2>1, HeldOf
  <2>3. Top.phase # "cond"
    BY <1>6, <2>1, <2>2
  <2>4. c \in InstrT
    BY <2>2, InstrFacts
  <2>5. Occurs(c, a) /\ Occurs(c, b)
    BY DEF Occurs, AssignTAC, Instr
  <2> HIDE DEF c
  <2>6. UNCHANGED replaced /\ \A n \in types' : n \in types \/ n = a
    BY <1>6, <2>1 DEF PutFromSymbol
  <2>7. \A i \in 1..Held : Occurs(c, vals[i].n)
    BY <2>2, <2>5
  <2> QED BY <1>2, <2>1, <2>3, <2>4, <2>5, <2>6, <2>7
<1>7. CASE FunctionCallStmt \/ ReturnStatement
  <2> DEFINE a == vals[1].n
  <2>1. /\ Held = 1 /\ Top.phase # "cond" /\ UNCHANGED <<types, replaced>>
        /\ FunctionCallStmt => Finish(blocks, "other", <<CallTAC(a)>>)
        /\ ReturnStatement => Finish(blocks, "return", <<ReturnTAC(a)>>)
    BY <1>7 DEF FunctionCallStmt, ReturnStatement
  <2>2. 1 \in 1..Held /\ \A i \in 1..Held : i = 1
    BY <2>1, HeldOf
  <2>3. CallTAC(a) \in InstrT /\ ReturnTAC(a) \in InstrT
    BY <2>2, InstrFacts
  <2>4. Occurs(CallTAC(a), a) /\ Occurs(ReturnTAC(a), a)
    BY DEF Occurs, CallTAC, ReturnTAC, Instr
  <2>5. /\ \A i \in 1..Held : Occurs(CallTAC(a), vals[i].n) /\ Occurs(ReturnTAC(a), vals[i].n)
        /\ \A n \in types' : n \in types
    BY <2>1, <2>2, <2>4
  <2>6. CASE FunctionCallStmt
    BY <1>2, <2>1, <2>3, <2>5, <2>6
  <2>7. CASE ReturnStatement
    BY <1>2, <2>1, <2>3, <2>5, <2>7
  <2> QED BY <1>7, <2>6, <2>7
<1> QED BY <1>3, <1>4, <1>5, <1>6, <1>7

\* Blocks: the condition that one begins with is compared, and the end of one
\* has no value left.
LEMMA TypesBlock ==
  ASSUME AllInv, TypesInv,
         \/ \E names \in SUBSET Ids : IfStmt(names) \/ WhileStmt(names) \/ ForStmt(names)
         \/ ForCondition \/ EndBlock
  PROVE  TypesInv'
<1> USE StateFacts
<1>1. ASSUME NEW code \in Seq(InstrT), Emit(code), UNCHANGED <<types, replaced>>, Held = 1, InCode(code, vals[1].n)
      PROVE  TypesInv'
  <2>1. \A i \in 1..Held : i = 1
    BY <1>1, HeldOf
  <2> QED BY <1>1, <2>1, TypesStay
<1>2. ASSUME NEW e \in Names, NEW a \in Names, Held = 1
      PROVE  LET v == vals[1].n IN
             /\ CmpLiteralTAC(v) \in InstrT /\ JneTAC(e) \in InstrT /\ LabelTAC(a) \in InstrT
             /\ Occurs(CmpLiteralTAC(v), v)
  <2>1. 1 \in 1..Held
    BY <1>2
  <2>2. vals[1].n \in Names
    BY <2>1
  <2> QED BY <2>2, InstrFacts DEF Occurs, CmpLiteralTAC, Instr
<1>3. \A l \in Nat : LabelName(l) \in Names
  BY NameFacts
<1>4. ASSUME NEW names \in SUBSET Ids, IfStmt(names) PROVE TypesInv'
  <2> DEFINE c == CmpLiteralTAC(vals[1].n)
             d == JneTAC(LabelName(nl))
             code == <<c, d>>
  <2>1. Held = 1 /\ Emit(code) /\ UNCHANGED <<types, replaced>>
    BY <1>4 DEF IfStmt
  <2>2. c \in InstrT /\ d \in InstrT /\ Occurs(c, vals[1].n)
    BY <1>2, <1>3, <2>1
  <2> HIDE DEF c, d
  <2>3. code \in Seq(InstrT) /\ InCode(code, vals[1].n)
    BY <2>2, OccursIn
  <2> HIDE DEF code
  <2> QED BY <1>1, <2>1, <2>3
<1>5. ASSUME NEW names \in SUBSET Ids, WhileStmt(names) PROVE TypesInv'
  <2> DEFINE b == LabelTAC(LabelName(nl))
             c == CmpLiteralTAC(vals[1].n)
             d == JneTAC(LabelName(nl + 1))
             code == <<b, c, d>>
  <2>1. Held = 1 /\ Emit(code) /\ UNCHANGED <<types, replaced>>
    BY <1>5 DEF WhileStmt
  <2>2. b \in InstrT /\ c \in InstrT /\ d \in InstrT /\ Occurs(c, vals[1].n)
    <3>1. LabelName(nl) \in Names /\ LabelName(nl + 1) \in Names
      BY <1>3
    <3> QED BY <1>2, <2>1, <3>1
  <2> HIDE DEF b, c, d
  <2>3. code \in Seq(InstrT) /\ InCode(code, vals[1].n)
    <3>1. code \in Seq(InstrT) /\ Len(code) = 3 /\ code[2] = c
      BY <2>2, CodeFacts
    <3>2. 2 \in 1..Len(code)
      BY <3>1
    <3> HIDE DEF code
    <3> QED BY <2>2, <3>1, <3>2 DEF InCode
  <2> HIDE DEF code
  <2> QED BY <1>1, <2>1, <2>3
<1>6. ASSUME NEW names \in SUBSET Ids, ForStmt(names) PROVE TypesInv'
  <2> DEFINE code == <<>>
  <2>1. vals = <<>> /\ UNCHANGED instrs /\ UNCHANGED <<types, replaced>>
    BY <1>6 DEF ForStmt, AtStatement
  <2>2. code \in Seq(InstrT) /\ Emit(code)
    BY <2>1, EmitNothing
  <2> HIDE DEF code
  <2> QED BY <2>1, <2>2, TypesNothing
<1>7. CASE ForCondition
  <2> DEFINE c == CmpLiteralTAC(vals[1].n)
             d == JneTAC(Top.exit)
             code == <<c, d>>
  <2>1. Held = 1 /\ Emit(code) /\ UNCHANGED <<types, replaced>>
    BY <1>7 DEF ForCondition
  <2>2. c \in InstrT /\ d \in InstrT /\ Occurs(c, vals[1].n)
    <3>1. Top.exit \in Names
      BY TopFacts DEF BlockT
    <3> QED BY <1>2, <2>1, <3>1
  <2> HIDE DEF c, d
  <2>3. code \in Seq(InstrT) /\ InCode(code, vals[1].n)
    BY <2>2, OccursIn
  <2> HIDE DEF code
  <2> QED BY <1>1, <2>1, <2>3
<1>8. CASE EndBlock
  <2>1. /\ vals = <<>> /\ UNCHANGED <<types, replaced>> /\ Top.phase = "list"
        /\ \/ Emit(Deletes)
           \/ Emit(Deletes \o IF Top.last = "return" THEN <<>> ELSE <<VoidReturnTAC>>)
           \/ Emit(Deletes \o <<LabelTAC(Exit(Top))>>)
    BY <1>8 DEF EndBlock, AtStatement
  <2>2. Deletes \in Seq(InstrT)
    BY <2>1, DeletesAre
  <2>3. VoidReturnTAC \in InstrT /\ LabelTAC(Exit(Top)) \in InstrT
    <3>1. Exit(Top) \in Names
      BY TopFacts DEF BlockT, Exit
    <3> QED BY <3>1, InstrFacts
  <2> DEFINE tail == IF Top.last = "return" THEN <<>> ELSE <<VoidReturnTAC>>
  <2>4. tail \in Seq(InstrT) /\ <<LabelTAC(Exit(Top))>> \in Seq(InstrT)
    BY <2>3
  <2>5. \E code \in Seq(InstrT) : Emit(code)
    <3>1. Deletes \o tail \in Seq(InstrT) /\ Deletes \o <<LabelTAC(Exit(Top))>> \in Seq(InstrT)
      BY <2>2, <2>4, ConcatProperties
    <3> QED BY <2>1, <2>2, <3>1
  <2> QED BY <2>1, <2>5, TypesNothing
<1> QED BY <1>4, <1>5, <1>6, <1>7, <1>8

\* A function that has a type when it is defined: nothing made or placed it, so
\* the code reads it; and its label is in the code now, so that it is not
\* defined again.
LEMMA TypesFunc ==
  ASSUME AllInv, TypesInv, NEW f \in Funcs, NEW names \in SUBSET Ids, FuncDecl(f, names)
  PROVE  TypesInv'
<1> USE StateFacts
<1> DEFINE u == VarName(0, f)
           c == FuncLabel(u)
           d == SetupStackTAC
           code == <<c, d>>
<1>1. /\ vals = <<>> /\ Emit(code) /\ Put(u) /\ UNCHANGED vals
      /\ \A i \in 1..Len(instrs) : u # instrs[i].def /\ u # instrs[i].label
  BY DEF FuncDecl
<1>2. u \in Names
  BY NameFacts DEF Source
<1> HIDE DEF u
<1>3. c \in InstrT /\ d \in InstrT /\ Occurs(c, u) /\ c.label = u
  <2>1. c \in InstrT /\ d \in InstrT
    BY <1>2, InstrFacts
  <2> QED BY <2>1 DEF Occurs, FuncLabel, Instr
<1>4. \A j \in 1..Len(instrs) : instrs[j] # c
  BY <1>1, <1>3
<1> HIDE DEF c, d
<1>5. code \in Seq(InstrT) /\ InCode(code, u) /\ Len(code) = 2 /\ code[1] = c /\ 1 \in 1..Len(code)
  <2>1. code \in Seq(InstrT) /\ Len(code) = 2 /\ code[1] = c
    BY <1>3, CodeFacts
  <2>2. InCode(code, u)
    BY <1>3, OccursIn
  <2>3. 1 \in 1..2
    OBVIOUS
  <2> QED BY <2>1, <2>2, <2>3
<1> HIDE DEF code
<1>6. /\ Len(instrs) \in Nat
      /\ \A i \in 1..Len(instrs) : i \in 1..Len(instrs') /\ instrs'[i] = instrs[i] /\ i < Len(instrs) + 1
      /\ Len(instrs) + 1 \in 1..Len(instrs') /\ instrs'[Len(instrs) + 1] = c
  <2>1. /\ Len(instrs) \in Nat /\ Len(instrs') = Len(instrs) + Len(code)
        /\ \A i \in 1..Len(instrs) : i \in 1..Len(instrs') /\ instrs'[i] = instrs[i]
        /\ \A i \in 1..Len(code) : Len(instrs) + i \in 1..Len(instrs') /\ instrs'[Len(instrs) + i] = code[i]
    BY <1>1, <1>5, EmitFacts DEF TypeOK
  <2> QED BY <1>5, <2>1
<1>7. CASE u \notin types
  <2>1. UNCHANGED replaced /\ \A n \in types' : n \in types \/ n = u
    BY <1>1, <1>7 DEF Put
  <2>2. \A i \in 1..Held : FALSE
    BY <1>1, HeldOf
  <2> QED BY <1>1, <1>5, <2>1, <2>2, TypesStay
<1>8. CASE u \in types
  <2>1. replaced' = Append(replaced, u) /\ types' = types
    BY <1>1, <1>8 DEF Put
  <2>2. /\ replaced \in Seq(Names) /\ Len(replaced) \in Nat
        /\ replaced' \in Seq(Names) /\ Len(replaced') = Len(replaced) + 1
        /\ replaced'[Len(replaced) + 1] = u
        /\ \A k \in 1..Len(replaced) : replaced'[k] = replaced[k]
    <3>1. replaced \in Seq(Names)
      BY DEF TypesInv
    <3> QED BY <1>2, <2>1, <3>1, AppendProperties
  <2>3. PICK i \in 1..Len(instrs) : u \in instrs[i].uses
    <3>1. ~InVals(u)
      <4>1. \A i \in 1..Len(vals) : FALSE
        BY <1>1
      <4> QED BY <4>1 DEF InVals
    <3>2. InCode(instrs, u)
      BY <1>8, <3>1 DEF TypesInv
    <3> QED BY <1>1, <3>2 DEF InCode, Occurs
  <2>4. ASSUME NEW k \in 1..Len(replaced)
        PROVE  /\ replaced[k] # u
               /\ \E a, b \in 1..Len(instrs') : a < b /\ replaced[k] \in instrs'[a].uses /\ instrs'[b] = FuncLabel(replaced[k])
    <3>1. PICK a, b \in 1..Len(instrs) : a < b /\ replaced[k] \in instrs[a].uses /\ instrs[b] = FuncLabel(replaced[k])
      BY DEF TypesInv, TypesKept
    <3>2. replaced[k] # u
      BY <1>4, <3>1 DEF c
    <3> QED BY <1>6, <3>1, <3>2
  <2>5. \E a, b \in 1..Len(instrs') : a < b /\ u \in instrs'[a].uses /\ instrs'[b] = FuncLabel(u)
    BY <1>6, <2>3 DEF c
  <2>6. ASSUME NEW k \in 1..Len(replaced')
        PROVE  /\ \E a, b \in 1..Len(instrs') : a < b /\ replaced'[k] \in instrs'[a].uses /\ instrs'[b] = FuncLabel(replaced'[k])
               /\ \A m \in 1..Len(replaced') : replaced'[m] = replaced'[k] => m = k
    <3>1. \A m \in 1..Len(replaced') : m \in 1..Len(replaced) \/ m = Len(replaced) + 1
      BY <2>2
    <3>2. \A m, n \in 1..Len(replaced) : replaced[m] = replaced[n] => m = n
      BY DEF TypesInv, TypesKept
    <3>3. CASE k = Len(replaced) + 1
      <4>1. replaced'[k] = u
        BY <2>2, <3>3
      <4>2. \A m \in 1..Len(replaced') : replaced'[m] = u => m = k
        BY <2>2, <2>4, <3>1, <3>3
      <4> QED BY <2>5, <4>1, <4>2
    <3>4. CASE k \in 1..Len(replaced)
      <4>1. replaced'[k] = replaced[k]
        BY <2>2, <3>4
      <4>2. \A m \in 1..Len(replaced') : replaced'[m] = replaced[k] => m = k
        BY <2>2, <2>4, <3>1, <3>2, <3>4
      <4> QED BY <2>4, <3>4, <4>1, <4>2
    <3> QED BY <3>1, <3>3, <3>4
  <2>7. TypesKept'
    BY <2>6 DEF TypesKept
  <2>8. \A n \in types' : Left(n) \/ InCode(instrs', n)
    <3>1. \A n : InVals(n) => Left(n)
      BY <1>1 DEF InVals, Left
    <3>2. \A n : InCode(instrs, n) => InCode(instrs', n)
      BY <1>6 DEF InCode
    <3> QED BY <2>1, <3>1, <3>2 DEF TypesInv
  <2> QED BY <2>2, <2>7, <2>8 DEF TypesInv, InVals, Left
<1> QED BY <1>7, <1>8

\* Every step keeps what is known of the types.
LEMMA TypesNext == AllInv /\ TypesInv /\ [Next]_vars => TypesInv'
<1> SUFFICES ASSUME AllInv, TypesInv, [Next]_vars PROVE TypesInv'
  OBVIOUS
<1>1. CASE UNCHANGED vars
  BY <1>1 DEF vars, TypesInv, TypesKept, InVals
<1>2. CASE Next
  <2>1. CASE IntLiteral \/ Unsupported \/ Operation \/ Callee \/ Argument \/ FunctionCallExpr
    BY <2>1, TypesExpr
  <2>2. CASE \E x \in Ids \cup Funcs : Ident(x) \/ VarDecl(x)
    BY <2>2, TypesExpr, TypesStatement
  <2>3. CASE (\E x \in Ids : BeginVarDeclInit(x)) \/ VarDeclInit \/ Assignment \/ FunctionCallStmt \/ ReturnStatement \/ SilentStmt
    BY <2>3, TypesStatement
  <2>4. CASE \/ \E names \in SUBSET Ids : IfStmt(names) \/ WhileStmt(names) \/ ForStmt(names)
             \/ ForCondition \/ EndBlock
    BY <2>4, TypesBlock
  <2>5. CASE \E f \in Funcs, names \in SUBSET Ids : FuncDecl(f, names)
    BY <2>5, TypesFunc
  <2> QED BY <1>2, <2>1, <2>2, <2>3, <2>4, <2>5 DEF Next
<1> QED BY <1>1, <1>2

\* TypeTable::put takes the type of no name but a function's, and that once,
\* when the code reads the function before it defines it: after its definition,
\* and for variables and temporaries, the first type stays
\* (put_from_symbol, asm_utils.cpp).
THEOREM TypesKeptHolds == Spec => []TypesKept
<1>1. Init => TypesInv
  <2> SUFFICES ASSUME Init PROVE TypesInv
    OBVIOUS
  <2>1. types = {} /\ replaced = <<>>
    BY DEF Init
  <2>2. replaced \in Seq(Names) /\ \A k \in 1..Len(replaced) : FALSE
    BY <2>1
  <2> QED BY <2>1, <2>2 DEF TypesInv, TypesKept
<1>2. TypesInv => TypesKept
  BY DEF TypesInv
<1> QED BY <1>1, <1>2, AllInvInit, AllInvNext, TypesNext, PTL DEF Spec

=============================================================================
