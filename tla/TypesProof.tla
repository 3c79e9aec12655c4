----------------------------- MODULE TypesProof -----------------------------
(***************************************************************************)
(* Proofs about TypeRules and TypeExprs for every set of types that leads  *)
(* from no type back to itself: type_equals and can_cast_to answer by what *)
(* types stand for, a constructor fails exactly on types that contain a    *)
(* primitive directly, the operators accept what they are meant to, and    *)
(* what an access finds has the type that is declared there.               *)
(*                                                                         *)
(* Order: the shape of types; one section for each recursive function,     *)
(* first that it satisfies its definition and then what it computes; the   *)
(* machine and the theorems.                                               *)
(***************************************************************************)
EXTENDS TypeExprs, Recursion, SequenceTheorems, TLAPS

-----------------------------------------------------------------------------
(* The shape of types.                                                     *)

LEMMA Shape ==
  ASSUME NEW t \in Type
  PROVE  /\ height[t] \in Nat
         /\ t.k \in {"id", "parens", "ptr", "mut", "dyn", "array", "tuple", "func", "struct"}
         /\ t.k = "id" => t = TypeIdent(t.n)
         /\ t.k \in {"parens", "ptr", "mut", "dyn"} => t = [k |-> t.k, t |-> t.t]
         /\ t.k = "array" => t = StaticArray(t.t, t.size)
         /\ t.k = "tuple" => t = TupleType(t.ts) /\ t.ts \in Seq(Type)
         /\ t.k = "func" => t = FuncType(t.ts, t.t) /\ t.ts \in Seq(Type)
         /\ t.k = "struct" => t = StructWith(t.ms, t.decls) /\ t.ms \in Seq(MemberDecl)
<1>1. IsWritten(t) /\ height[t] \in Nat
  BY PartsAssumption
<1> QED BY <1>1 DEF IsWritten

\* What a type is made of, and what a name stands for, is lower.
LEMMA Lower ==
  ASSUME NEW t \in Type
  PROVE  /\ t.k \in {"parens", "ptr", "mut", "dyn", "array", "func"} =>
              t.t \in Type /\ height[t.t] < height[t]
         /\ t.k \in {"tuple", "func"} =>
              \A i \in DOMAIN t.ts : t.ts[i] \in Type /\ height[t.ts[i]] < height[t]
         /\ t.k = "struct" =>
              \A i \in DOMAIN t.ms : t.ms[i].type \in Type /\ height[t.ms[i].type] < height[t]
         /\ t.k = "id" /\ t.n \in DOMAIN AliasOf =>
              AliasOf[t.n] \in Type /\ height[AliasOf[t.n]] < height[t]
         /\ t.k = "id" /\ t.n \in DOMAIN StructOf =>
              StructOf[t.n] \in Type /\ height[StructOf[t.n]] < height[t]
<1>1. \A u \in Parts(t) \cup Named(t) : u \in Type /\ height[u] < height[t]
  BY PartsAssumption
<1>2. t.k \in {"parens", "ptr", "mut", "dyn", "array"} => t.t \in Parts(t)
  BY DEF Parts
<1>3. t.k = "func" => t.t \in Parts(t)
  BY DEF Parts
<1>4. t.k \in {"tuple", "func"} => \A i \in DOMAIN t.ts : t.ts[i] \in Parts(t)
  BY DEF Parts
<1>5. t.k = "struct" => \A i \in DOMAIN t.ms : t.ms[i].type \in Parts(t)
  BY DEF Parts
<1>6. t.k = "id" /\ t.n \in DOMAIN AliasOf => AliasOf[t.n] \in Named(t)
  BY DEF Named
<1>7. t.k = "id" /\ t.n \in DOMAIN StructOf => StructOf[t.n] \in Named(t)
  BY DEF Named
<1> QED BY <1>1, <1>2, <1>3, <1>4, <1>5, <1>6, <1>7

\* What holds of a type if it holds of all lower ones holds of every type.
LEMMA HeightInduction ==
  ASSUME NEW P,
         \A t \in Type : (\A u \in Type : height[u] < height[t] => u \in P) => t \in P
  PROVE  Type \subseteq P
<1>1. \A t \in Type : height[t] \in Nat
  BY Shape
<1> QED BY <1>1, DescentInduction

-----------------------------------------------------------------------------
(* unaliased.                                                              *)

Unalias(f, t) ==
  CASE t.k = "parens" -> f[t.t]
    [] t.k = "id" /\ t.n \in DOMAIN AliasOf -> f[AliasOf[t.n]]
    [] t.k = "id" /\ t.n \in DOMAIN StructOf -> StructOf[t.n]
    [] OTHER -> t

LEMMA UnaliasType ==
  ASSUME NEW f \in [Type -> Type], NEW t \in Type
  PROVE  Unalias(f, t) \in Type
<1>1. CASE t.k = "parens"
  BY <1>1, Lower DEF Unalias
<1>2. CASE t.k = "id" /\ t.n \in DOMAIN AliasOf
  BY <1>2, Lower DEF Unalias
<1>3. CASE t.k = "id" /\ t.n \in DOMAIN StructOf
  BY <1>3, NamesDiffer, Lower DEF Unalias
<1>4. CASE ~(t.k = "parens") /\ ~(t.k = "id" /\ t.n \in DOMAIN AliasOf \cup DOMAIN StructOf)
  BY <1>4 DEF Unalias
<1> QED BY <1>1, <1>2, <1>3, <1>4

LEMMA UnaliasedDef ==
  unaliased \in [Type -> Type] /\ \A t \in Type : unaliased[t] = Unalias(unaliased, t)
<1> DEFINE G == [f \in [Type -> Type] |-> [t \in Type |-> Unalias(f, t)]]
<1>1. G \in [[Type -> Type] -> [Type -> Type]]
  BY UnaliasType
<1>2. ASSUME NEW f \in [Type -> Type], NEW g \in [Type -> Type], NEW t \in Type,
             \A u \in Type : height[u] < height[t] => f[u] = g[u]
      PROVE  G[f][t] = G[g][t]
  <2>1. Unalias(f, t) = Unalias(g, t)
    BY <1>2, Lower DEF Unalias
  <2> QED BY <2>1
<1>3. LooksDown(G, Type, Type, height)
  <2>1. Type # {} /\ height \in [Type -> Nat]
    BY NamesAssumption, PartsAssumption
  <2>2. \A f, g \in [Type -> Type] : \A t \in Type :
          (\A u \in Type : height[u] < height[t] => f[u] = g[u]) => G[f][t] = G[g][t]
    BY <1>2
  <2> HIDE DEF G
  <2> QED BY <1>1, <2>1, <2>2 DEF LooksDown
<1>4. Solvable(G, Type, Type)
  <2> HIDE DEF G
  <2> QED BY <1>3, RecursionExists
<1>5. \E f : f = [t \in Type |-> Unalias(f, t)]
  BY <1>4 DEF Solvable
<1>6. unaliased = [t \in Type |-> Unalias(unaliased, t)]
  BY <1>5 DEF unaliased, Unalias
<1>7. \A t \in Type : unaliased[t] = Unalias(unaliased, t)
  BY <1>6
<1> DEFINE P == {t \in Type : unaliased[t] \in Type}
<1>8. ASSUME NEW t \in Type, \A u \in Type : height[u] < height[t] => u \in P
      PROVE  t \in P
  <2>1. CASE t.k = "parens"
    BY <1>7, <1>8, <2>1, Lower DEF Unalias
  <2>2. CASE t.k = "id" /\ t.n \in DOMAIN AliasOf
    BY <1>7, <1>8, <2>2, Lower DEF Unalias
  <2>3. CASE t.k = "id" /\ t.n \in DOMAIN StructOf
    BY <1>7, <2>3, NamesDiffer, Lower DEF Unalias
  <2>4. CASE ~(t.k = "parens") /\ ~(t.k = "id" /\ t.n \in DOMAIN AliasOf \cup DOMAIN StructOf)
    BY <1>7, <2>4 DEF Unalias
  <2> QED BY <2>1, <2>2, <2>3, <2>4
<1>9. Type \subseteq P
  <2> HIDE DEF P
  <2> QED BY <1>8, HeightInduction
<1> QED BY <1>6, <1>7, <1>9

\* What unaliased leads to: no parentheses and no name of another type, and
\* nothing higher than where it started.
Followed(a) == a.k # "parens" /\ (a.k = "id" => a.n \notin DOMAIN AliasOf \cup DOMAIN StructOf)

LEMMA UnaliasedHead ==
  ASSUME NEW t \in Type
  PROVE  /\ unaliased[t] \in Type
         /\ Followed(unaliased[t])
         /\ unaliased[t] # t => height[unaliased[t]] < height[t]
<1> DEFINE Q(u) == Followed(unaliased[u]) /\ (unaliased[u] # u => height[unaliased[u]] < height[u])
           P == {u \in Type : Q(u)}
<1>1. ASSUME NEW x \in Type, \A u \in Type : height[u] < height[x] => u \in P
      PROVE  x \in P
  <2>0. /\ unaliased[x] = Unalias(unaliased, x)
        /\ unaliased[x] \in Type /\ height[x] \in Nat
        /\ height[unaliased[x]] \in Nat
    BY UnaliasedDef, Shape
  <2>1. ASSUME NEW y \in Type, height[y] < height[x], unaliased[x] = unaliased[y] PROVE Q(x)
    <3>1. Q(y)
      BY <1>1, <2>1
    <3>2. height[y] \in Nat
      BY Shape
    <3> QED BY <2>0, <2>1, <3>1, <3>2
  <2>2. CASE x.k = "parens"
    <3>1. x.t \in Type /\ height[x.t] < height[x]
      BY <2>2, Lower
    <3> QED BY <2>0, <2>1, <2>2, <3>1 DEF Unalias
  <2>3. CASE x.k = "id" /\ x.n \in DOMAIN AliasOf
    <3>1. AliasOf[x.n] \in Type /\ height[AliasOf[x.n]] < height[x]
      BY <2>3, Lower
    <3>2. unaliased[x] = unaliased[AliasOf[x.n]]
      BY <2>0, <2>3, NamesDiffer DEF Unalias
    <3> HIDE DEF Q
    <3> QED BY <2>1, <3>1, <3>2
  <2>4. CASE x.k = "id" /\ x.n \in DOMAIN StructOf
    BY <2>0, <2>4, NamesDiffer, NamesAssumption, Lower DEF Unalias, Followed
  <2>5. CASE ~(x.k = "parens") /\ ~(x.k = "id" /\ x.n \in DOMAIN AliasOf \cup DOMAIN StructOf)
    BY <2>0, <2>5 DEF Unalias, Followed
  <2> HIDE DEF Q
  <2> QED BY <2>2, <2>3, <2>4, <2>5
<1>2. Type \subseteq P
  <2> HIDE DEF P
  <2> QED BY <1>1, HeightInduction
<1> QED BY <1>2, UnaliasedDef

\* It stops there.
LEMMA UnaliasedStops ==
  ASSUME NEW t \in Type, Followed(t)
  PROVE  unaliased[t] = t
BY UnaliasedDef DEF Unalias, Followed

LEMMA UnaliasedTwice ==
  ASSUME NEW t \in Type
  PROVE  unaliased[unaliased[t]] = unaliased[t]
BY UnaliasedHead, UnaliasedStops

-----------------------------------------------------------------------------
(* meaning and cloned. That their values are types is only known once they *)
(* are functions, so that RecursionExists does not apply: the same proof   *)
(* without a set of values, for both of them.                              *)

Outermost(how, t) == IF how = "meaning" THEN unaliased[t] ELSE t

Made(how, f, t) ==
  WithParts(f, Outermost(how, t),
            IF how = "clone" /\ t.k = "struct" /\ t.decls # "source" THEN "deleted" ELSE "source")

\* What a type's head is made of is lower than the type.
LEMMA HeadLower ==
  ASSUME NEW t \in Type, NEW a, a = unaliased[t]
  PROVE  /\ a \in Type
         /\ a.k \in {"ptr", "mut", "dyn", "array", "func"} =>
              a.t \in Type /\ height[a.t] < height[t]
         /\ a.k \in {"tuple", "func"} =>
              \A i \in DOMAIN a.ts : a.ts[i] \in Type /\ height[a.ts[i]] < height[t]
         /\ a.k = "struct" =>
              \A i \in DOMAIN a.ms : a.ms[i].type \in Type /\ height[a.ms[i].type] < height[t]
<1>1. a \in Type /\ (height[a] < height[t] \/ a = t)
  BY UnaliasedHead
<1>2. ASSUME NEW u \in Type, height[u] < height[a] PROVE height[u] < height[t]
  <2>1. height[u] \in Nat /\ height[a] \in Nat /\ height[t] \in Nat
    BY <1>1, Shape
  <2> QED BY <1>1, <1>2, <2>1
<1>3. a.k \in {"ptr", "mut", "dyn", "array", "func"} => a.t \in Type /\ height[a.t] < height[a]
  BY <1>1, Lower
<1>4. a.k \in {"tuple", "func"} =>
        \A i \in DOMAIN a.ts : a.ts[i] \in Type /\ height[a.ts[i]] < height[a]
  BY <1>1, Lower
<1>5. a.k = "struct" =>
        \A i \in DOMAIN a.ms : a.ms[i].type \in Type /\ height[a.ms[i].type] < height[a]
  BY <1>1, Lower
<1> QED BY <1>1, <1>2, <1>3, <1>4, <1>5

\* The head's class is one of eight.
LEMMA HeadKind ==
  ASSUME NEW t \in Type
  PROVE  unaliased[t].k \in {"id", "ptr", "mut", "dyn", "array", "tuple", "func", "struct"}
BY UnaliasedHead, Shape DEF Followed

\* Of a clone, the head is the type.
LEMMA PartsLower ==
  ASSUME NEW how \in {"meaning", "clone"}, NEW t \in Type, NEW a, a = Outermost(how, t)
  PROVE  /\ a.k \in {"id", "parens", "ptr", "mut", "dyn", "array", "tuple", "func", "struct"}
         /\ a.k \in {"parens", "ptr", "mut", "dyn", "array", "func"} =>
              a.t \in Type /\ height[a.t] < height[t]
         /\ a.k \in {"tuple", "func"} =>
              \A i \in DOMAIN a.ts : a.ts[i] \in Type /\ height[a.ts[i]] < height[t]
         /\ a.k = "struct" =>
              \A i \in DOMAIN a.ms : a.ms[i].type \in Type /\ height[a.ms[i].type] < height[t]
<1>1. CASE how = "meaning"
  <2>1. a = unaliased[t]
    BY <1>1 DEF Outermost
  <2>2. a.k \in {"id", "ptr", "mut", "dyn", "array", "tuple", "func", "struct"}
    BY <2>1, HeadKind
  <2> QED BY <2>1, <2>2, HeadLower
<1>2. CASE how = "clone"
  <2>1. a = t
    BY <1>2 DEF Outermost
  <2> QED BY <2>1, Shape, Lower
<1> QED BY <1>1, <1>2

LEMMA MadeLooksDown ==
  ASSUME NEW how \in {"meaning", "clone"}, NEW f, NEW g, NEW t \in Type,
         \A u \in Type : height[u] < height[t] => f[u] = g[u]
  PROVE  Made(how, f, t) = Made(how, g, t)
<1> DEFINE a == Outermost(how, t)
<1>1. /\ a.k \in {"parens", "ptr", "mut", "dyn", "array", "func"} => f[a.t] = g[a.t]
      /\ a.k \in {"tuple", "func"} => \A i \in DOMAIN a.ts : f[a.ts[i]] = g[a.ts[i]]
      /\ a.k = "struct" => \A i \in DOMAIN a.ms : f[a.ms[i].type] = g[a.ms[i].type]
      /\ a.k \in {"id", "parens", "ptr", "mut", "dyn", "array", "tuple", "func", "struct"}
  <2> HIDE DEF a
  <2>1. a = Outermost(how, t)
    BY DEF a
  <2> QED BY <2>1, PartsLower
<1>2. ASSUME NEW d PROVE WithParts(f, a, d) = WithParts(g, a, d)
  <2> HIDE DEF a
  <2>1. CASE a.k \in {"id", "parens", "ptr", "mut", "dyn", "array"}
    BY <1>1, <2>1 DEF WithParts
  <2>2. CASE a.k = "tuple"
    <3>1. [i \in DOMAIN a.ts |-> f[a.ts[i]]] = [i \in DOMAIN a.ts |-> g[a.ts[i]]]
      BY <1>1, <2>2
    <3> QED BY <2>2, <3>1 DEF WithParts
  <2>3. CASE a.k = "func"
    <3>1. [i \in DOMAIN a.ts |-> f[a.ts[i]]] = [i \in DOMAIN a.ts |-> g[a.ts[i]]]
      BY <1>1, <2>3
    <3>2. f[a.t] = g[a.t]
      BY <1>1, <2>3
    <3> QED BY <2>3, <3>1, <3>2 DEF WithParts
  <2>4. CASE a.k = "struct"
    <3>1. [i \in DOMAIN a.ms |-> [name |-> a.ms[i].name, type |-> f[a.ms[i].type]]]
            = [i \in DOMAIN a.ms |-> [name |-> a.ms[i].name, type |-> g[a.ms[i].type]]]
      BY <1>1, <2>4
    <3> QED BY <2>4, <3>1 DEF WithParts
  <2> QED BY <1>1, <2>1, <2>2, <2>3, <2>4
<1> QED BY <1>2 DEF Made

\* f is what is made of the types lower than n.
MadeBelow(how, f, n) ==
  /\ f = [t \in Type |-> f[t]]
  /\ \A t \in Type : height[t] < n => f[t] = Made(how, f, t)

LEMMA MadeAgree ==
  ASSUME NEW how \in {"meaning", "clone"}, NEW n \in Nat,
         NEW f, NEW g, MadeBelow(how, f, n), MadeBelow(how, g, n),
         NEW t \in Type, height[t] < n
  PROVE  f[t] = g[t]
<1> DEFINE P == {u \in Type : height[u] < n => f[u] = g[u]}
<1>1. ASSUME NEW x \in Type, \A u \in Type : height[u] < height[x] => u \in P
      PROVE  x \in P
  <2>1. SUFFICES ASSUME height[x] < n PROVE f[x] = g[x]
    OBVIOUS
  <2>2. \A u \in Type : height[u] < height[x] => f[u] = g[u]
    <3>1. height[x] \in Nat /\ \A u \in Type : height[u] \in Nat
      BY Shape
    <3> QED BY <1>1, <2>1, <3>1
  <2>3. Made(how, f, x) = Made(how, g, x)
    BY <2>2, MadeLooksDown
  <2> QED BY <2>1, <2>3 DEF MadeBelow
<1>2. Type \subseteq P
  <2> HIDE DEF P
  <2> QED BY <1>1, HeightInduction
<1> QED BY <1>2

LEMMA MadeExists ==
  ASSUME NEW how \in {"meaning", "clone"}, NEW n \in Nat
  PROVE  \E f : MadeBelow(how, f, n)
<1> DEFINE T == {m \in Nat : ~\E f : MadeBelow(how, f, m)}
           id == [m \in Nat |-> m]
<1>1. SUFFICES ASSUME T # {} PROVE FALSE
  <2>1. (~\E f : MadeBelow(how, f, n)) => n \in T
    OBVIOUS
  <2> HIDE DEF T
  <2> QED BY <2>1
<1>2. PICK m \in T : \A u \in T : id[m] <= id[u]
  <2>1. \A u \in T : id[u] \in Nat
    OBVIOUS
  <2> HIDE DEF T, id
  <2> QED BY <1>1, <2>1, LeastHeight
<1>3. m \in Nat /\ ~\E f : MadeBelow(how, f, m)
  OBVIOUS
<1>4. m # 0
  <2> DEFINE f == [t \in Type |-> t]
  <2>1. MadeBelow(how, f, 0)
    <3>1. \A t \in Type : ~(height[t] < 0)
      <4>1. \A t \in Type : height[t] \in Nat
        BY Shape
      <4> QED BY <4>1
    <3> QED BY <3>1 DEF MadeBelow
  <2> QED BY <1>3, <2>1
<1>5. m - 1 \in Nat /\ m - 1 \notin T
  BY <1>2, <1>3, <1>4
<1>6. PICK f : MadeBelow(how, f, m - 1)
  BY <1>5
<1> DEFINE g == [t \in Type |-> Made(how, f, t)]
<1>7. ASSUME NEW t \in Type, height[t] < m PROVE g[t] = Made(how, g, t)
  <2>1. ASSUME NEW u \in Type, height[u] < height[t] PROVE f[u] = g[u]
    <3>1. height[u] \in Nat /\ height[t] \in Nat
      BY Shape
    <3>2. height[u] < m - 1
      BY <1>3, <1>7, <2>1, <3>1
    <3> QED BY <1>6, <3>2 DEF MadeBelow
  <2>2. g[t] = Made(how, f, t)
    OBVIOUS
  <2> HIDE DEF g
  <2>3. Made(how, f, t) = Made(how, g, t)
    BY <2>1, MadeLooksDown
  <2> QED BY <2>2, <2>3
<1>8. g = [t \in Type |-> g[t]]
  OBVIOUS
<1>9. MadeBelow(how, g, m)
  <2> HIDE DEF g
  <2> QED BY <1>7, <1>8 DEF MadeBelow
<1> QED BY <1>3, <1>9

LEMMA MadeIsFunction ==
  ASSUME NEW how \in {"meaning", "clone"}
  PROVE  \E f : f = [t \in Type |-> Made(how, f, t)]
<1> DEFINE Of(t) == CHOOSE f : MadeBelow(how, f, height[t] + 1)
           F == [t \in Type |-> Of(t)[t]]
<1>1. ASSUME NEW t \in Type PROVE MadeBelow(how, Of(t), height[t] + 1)
  <2>1. height[t] + 1 \in Nat
    BY Shape
  <2> QED BY <2>1, MadeExists
<1>2. ASSUME NEW t \in Type, NEW u \in Type, height[u] < height[t] PROVE F[u] = Of(t)[u]
  <2>1. height[t] \in Nat /\ height[u] \in Nat
    BY Shape
  <2>2. MadeBelow(how, Of(t), height[t] + 1) /\ MadeBelow(how, Of(u), height[u] + 1)
    BY <1>1
  <2>3. MadeBelow(how, Of(t), height[u] + 1)
    <3> HIDE DEF Of
    <3>1. \A w \in Type : height[w] \in Nat
      BY Shape
    <3>2. \A w \in Type : height[w] < height[u] + 1 => height[w] < height[t] + 1
      BY <1>2, <2>1, <3>1
    <3> QED BY <2>2, <3>2 DEF MadeBelow
  <2>4. height[u] + 1 \in Nat /\ height[u] < height[u] + 1
    BY <2>1
  <2> HIDE DEF Of
  <2>5. Of(u)[u] = Of(t)[u]
    BY <2>2, <2>3, <2>4, MadeAgree
  <2> QED BY <2>5
<1>3. ASSUME NEW t \in Type PROVE F[t] = Made(how, F, t)
  <2>1. F[t] = Of(t)[t]
    <3> HIDE DEF Of
    <3> QED OBVIOUS
  <2>2. height[t] < height[t] + 1
    BY Shape
  <2>3. Of(t)[t] = Made(how, Of(t), t)
    <3>1. MadeBelow(how, Of(t), height[t] + 1)
      BY <1>1
    <3> HIDE DEF Of
    <3> QED BY <2>2, <3>1 DEF MadeBelow
  <2>4. Made(how, Of(t), t) = Made(how, F, t)
    <3> HIDE DEF F, Of
    <3> QED BY <1>2, MadeLooksDown
  <2> QED BY <2>1, <2>3, <2>4
<1>4. F = [t \in Type |-> Made(how, F, t)]
  <2>1. F = [t \in Type |-> F[t]]
    <3> HIDE DEF Of
    <3> QED OBVIOUS
  <2> HIDE DEF F
  <2> QED BY <1>3, <2>1
<1> HIDE DEF F
<1> QED BY <1>4

LEMMA MeaningDef ==
  /\ meaning \in [Type -> Type]
  /\ \A t \in Type : meaning[t] = WithParts(meaning, unaliased[t], "source")
<1>1. \E f : f = [t \in Type |-> Made("meaning", f, t)]
  BY MadeIsFunction
<1>2. \E f : f = [t \in Type |-> WithParts(f, unaliased[t], "source")]
  BY <1>1 DEF Made, Outermost
<1>3. meaning = [t \in Type |-> WithParts(meaning, unaliased[t], "source")]
  BY <1>2 DEF meaning
<1> QED BY <1>3, MeaningsAssumption

Left(t) == IF t.k = "struct" /\ t.decls # "source" THEN "deleted" ELSE "source"

LEMMA ClonedDef ==
  /\ cloned \in [Type -> Type]
  /\ \A t \in Type : cloned[t] = WithParts(cloned, t, Left(t))
<1>1. \E f : f = [t \in Type |-> Made("clone", f, t)]
  BY MadeIsFunction
<1>2. \E f : f = [t \in Type |-> WithParts(f, t, Left(t))]
  BY <1>1 DEF Made, Outermost, Left
<1>3. cloned = [t \in Type |-> WithParts(cloned, t, Left(t))]
  BY <1>2 DEF cloned, Left
<1> QED BY <1>3, MeaningsAssumption

\* What lists of types and of members stand for.
Meanings(ts) == [i \in DOMAIN ts |-> meaning[ts[i]]]
MemberMeanings(ms) == [i \in DOMAIN ms |-> [name |-> ms[i].name, type |-> meaning[ms[i].type]]]

LEMMA MeaningByKind ==
  ASSUME NEW t \in Type, NEW a, a = unaliased[t]
  PROVE  /\ meaning[t].k = a.k
         /\ a.k = "id" => meaning[t] = a
         /\ a.k \in {"ptr", "mut", "dyn"} => meaning[t] = [k |-> a.k, t |-> meaning[a.t]]
         /\ a.k = "array" => meaning[t] = StaticArray(meaning[a.t], a.size)
         /\ a.k = "tuple" => meaning[t] = TupleType(Meanings(a.ts))
         /\ a.k = "func" => meaning[t] = FuncType(Meanings(a.ts), meaning[a.t])
         /\ a.k = "struct" => meaning[t] = StructType(MemberMeanings(a.ms))
<1>1. meaning[t] = WithParts(meaning, a, "source")
  BY MeaningDef
<1>2. a.k \in {"id", "ptr", "mut", "dyn", "array", "tuple", "func", "struct"}
  BY HeadKind
<1>3. CASE a.k = "id"
  BY <1>1, <1>3 DEF WithParts
<1>4. CASE a.k \in {"ptr", "mut", "dyn"}
  <2>1. meaning[t] = [k |-> a.k, t |-> meaning[a.t]]
    BY <1>1, <1>4 DEF WithParts
  <2> QED BY <1>4, <2>1
<1>5. CASE a.k = "array"
  BY <1>1, <1>5 DEF WithParts, StaticArray
<1>6. CASE a.k = "tuple"
  BY <1>1, <1>6 DEF WithParts, TupleType, Meanings
<1>7. CASE a.k = "func"
  <2>1. meaning[t] = FuncType(Meanings(a.ts), meaning[a.t])
    BY <1>1, <1>7 DEF WithParts, Meanings
  <2>2. meaning[t].k = "func"
    BY <2>1 DEF FuncType
  <2> QED BY <1>7, <2>1, <2>2
<1>8. CASE a.k = "struct"
  <2>1. meaning[t] = StructType(MemberMeanings(a.ms))
    BY <1>1, <1>8 DEF WithParts, MemberMeanings, StructType
  <2>2. meaning[t].k = "struct"
    BY <2>1 DEF StructType, StructWith
  <2> QED BY <1>8, <2>1, <2>2
<1> QED BY <1>2, <1>3, <1>4, <1>5, <1>6, <1>7, <1>8

\* The same, kind by kind.
LEMMA IdMeaning ==
  ASSUME NEW t \in Type, NEW a, a = unaliased[t], a.k = "id"
  PROVE  meaning[t] = a
BY MeaningByKind

LEMMA RefMeaning ==
  ASSUME NEW t \in Type, NEW a, a = unaliased[t], a.k \in {"ptr", "mut", "dyn"}
  PROVE  meaning[t] = [k |-> a.k, t |-> meaning[a.t]]
BY MeaningByKind

LEMMA ArrayMeaning ==
  ASSUME NEW t \in Type, NEW a, a = unaliased[t], a.k = "array"
  PROVE  meaning[t] = StaticArray(meaning[a.t], a.size)
BY MeaningByKind

LEMMA TupleMeaning ==
  ASSUME NEW t \in Type, NEW a, a = unaliased[t], a.k = "tuple"
  PROVE  meaning[t] = TupleType(Meanings(a.ts))
BY MeaningByKind

LEMMA FuncMeaning ==
  ASSUME NEW t \in Type, NEW a, a = unaliased[t], a.k = "func"
  PROVE  meaning[t] = FuncType(Meanings(a.ts), meaning[a.t])
BY MeaningByKind

LEMMA StructMeaning ==
  ASSUME NEW t \in Type, NEW a, a = unaliased[t], a.k = "struct"
  PROVE  meaning[t] = StructType(MemberMeanings(a.ms))
BY MeaningByKind

\* What a type stands for is written without names and parentheses, and is
\* the same for what unaliased makes of the type.
LEMMA MeaningHead ==
  ASSUME NEW t \in Type
  PROVE  /\ meaning[t] \in Type
         /\ Followed(meaning[t])
         /\ unaliased[meaning[t]] = meaning[t]
         /\ meaning[unaliased[t]] = meaning[t]
<1>1. meaning[t] \in Type
  BY MeaningDef
<1>2. Followed(unaliased[t])
  BY UnaliasedHead
<1>3. meaning[t].k = unaliased[t].k /\ (unaliased[t].k = "id" => meaning[t] = unaliased[t])
  BY MeaningByKind
<1>4. Followed(meaning[t])
  BY <1>2, <1>3 DEF Followed
<1>5. meaning[unaliased[t]] = meaning[t]
  <2>1. unaliased[t] \in Type /\ unaliased[unaliased[t]] = unaliased[t]
    BY UnaliasedHead, UnaliasedTwice
  <2> QED BY <2>1, MeaningDef
<1> QED BY <1>1, <1>4, <1>5, UnaliasedStops

\* It stands for itself.
LEMMA MeaningTwice ==
  ASSUME NEW t \in Type
  PROVE  meaning[meaning[t]] = meaning[t]
<1> DEFINE P == {u \in Type : meaning[meaning[u]] = meaning[u]}
<1>1. ASSUME NEW x \in Type, \A u \in Type : height[u] < height[x] => u \in P
      PROVE  x \in P
  <2> DEFINE a == unaliased[x]
             m == meaning[x]
  <2>1. m \in Type /\ unaliased[m] = m
    BY MeaningHead
  <2>2. /\ a.k \in {"ptr", "mut", "dyn", "array", "func"} => meaning[meaning[a.t]] = meaning[a.t]
        /\ a.k \in {"tuple", "func"} => \A i \in DOMAIN a.ts : meaning[meaning[a.ts[i]]] = meaning[a.ts[i]]
        /\ a.k = "struct" =>
             \A i \in DOMAIN a.ms : meaning[meaning[a.ms[i].type]] = meaning[a.ms[i].type]
    BY <1>1, HeadLower
  <2>3. a.k \in {"id", "ptr", "mut", "dyn", "array", "tuple", "func", "struct"}
    BY HeadKind
  <2> HIDE DEF P
  <2>4. SUFFICES meaning[m] = m
    BY DEF P
  <2> HIDE DEF a, m
  <2>5. CASE a.k = "id"
    <3>1. m = a /\ m.k = "id"
      BY <2>5, MeaningByKind DEF a, m
    <3> QED BY <2>1, <3>1, MeaningByKind
  <2>6. CASE a.k \in {"ptr", "mut", "dyn"}
    <3>1. m = [k |-> a.k, t |-> meaning[a.t]]
      BY <2>6, MeaningByKind DEF a, m
    <3>2. meaning[m] = [k |-> m.k, t |-> meaning[m.t]]
      BY <2>1, <2>6, <3>1, MeaningByKind
    <3> QED BY <2>2, <2>6, <3>1, <3>2
  <2>7. CASE a.k = "array"
    <3>1. m = StaticArray(meaning[a.t], a.size)
      BY <2>7, MeaningByKind DEF a, m
    <3>2. m.k = "array"
      BY <3>1 DEF StaticArray
    <3>3. meaning[m] = StaticArray(meaning[m.t], m.size)
      BY <2>1, <3>2, MeaningByKind
    <3> QED BY <2>2, <2>7, <3>1, <3>3 DEF StaticArray
  <2>8. CASE a.k = "tuple"
    <3>1. m = TupleType(Meanings(a.ts))
      BY <2>8, MeaningByKind DEF a, m
    <3>2. m.k = "tuple" /\ m.ts = Meanings(a.ts)
      BY <3>1 DEF TupleType
    <3>3. meaning[m] = TupleType(Meanings(m.ts))
      BY <2>1, <3>2, MeaningByKind
    <3>4. Meanings(m.ts) = m.ts
      BY <2>2, <2>8, <3>2 DEF Meanings
    <3> QED BY <3>1, <3>2, <3>3, <3>4
  <2>9. CASE a.k = "func"
    <3>1. m = FuncType(Meanings(a.ts), meaning[a.t])
      BY <2>9, MeaningByKind DEF a, m
    <3>2. /\ m.k = "func" /\ m.t = meaning[a.t]
          /\ m.ts = Meanings(a.ts)
      BY <3>1 DEF FuncType
    <3>3. meaning[m] = FuncType(Meanings(m.ts), meaning[m.t])
      BY <2>1, <3>2, MeaningByKind
    <3>4. Meanings(m.ts) = m.ts
      BY <2>2, <2>9, <3>2 DEF Meanings
    <3>5. meaning[m.t] = m.t
      BY <2>2, <2>9, <3>2
    <3> QED BY <3>1, <3>2, <3>3, <3>4, <3>5
  <2>10. CASE a.k = "struct"
    <3>1. m = StructType(MemberMeanings(a.ms))
      BY <2>10, MeaningByKind DEF a, m
    <3>2. m.k = "struct" /\ m.ms = MemberMeanings(a.ms)
      BY <3>1 DEF StructType, StructWith
    <3>3. meaning[m] = StructType(MemberMeanings(m.ms))
      BY <2>1, <3>2, MeaningByKind
    <3>4. MemberMeanings(m.ms) = m.ms
      <4>1. DOMAIN MemberMeanings(a.ms) = DOMAIN a.ms
        BY DEF MemberMeanings
      <4>2. \A i \in DOMAIN a.ms : MemberMeanings(MemberMeanings(a.ms))[i] = MemberMeanings(a.ms)[i]
        BY <2>2, <2>10 DEF MemberMeanings
      <4>3. MemberMeanings(MemberMeanings(a.ms)) = MemberMeanings(a.ms)
        BY <4>1, <4>2 DEF MemberMeanings
      <4> QED BY <3>2, <4>3
    <3> QED BY <3>1, <3>2, <3>3, <3>4
  <2> QED BY <2>3, <2>5, <2>6, <2>7, <2>8, <2>9, <2>10
<1>2. Type \subseteq P
  <2> HIDE DEF P
  <2> QED BY <1>1, HeightInduction
<1> QED BY <1>2

LEMMA ParensMean ==
  ASSUME NEW t \in Type, t.k = "parens"
  PROVE  t.t \in Type /\ height[t.t] < height[t] /\ meaning[t] = meaning[t.t]
<1>1. t.t \in Type /\ height[t.t] < height[t]
  BY Lower
<1>2. unaliased[t] = unaliased[t.t]
  BY UnaliasedDef DEF Unalias
<1> QED BY <1>1, <1>2, MeaningDef

\* A clone stands for what the type does, whatever becomes of the declarations
\* in a struct's table.
LEMMA ClonedMeans ==
  ASSUME NEW t \in Type
  PROVE  cloned[t] \in Type /\ meaning[cloned[t]] = meaning[t]
<1> DEFINE P == {u \in Type : meaning[cloned[u]] = meaning[u]}
<1>1. ASSUME NEW x \in Type, \A u \in Type : height[u] < height[x] => u \in P
      PROVE  x \in P
  <2> DEFINE c == cloned[x]
  <2>1. c \in Type /\ c = WithParts(cloned, x, Left(x))
    BY ClonedDef
  <2>2. /\ x.k \in {"parens", "ptr", "mut", "dyn", "array", "func"} =>
             meaning[cloned[x.t]] = meaning[x.t]
        /\ x.k \in {"tuple", "func"} =>
             \A i \in DOMAIN x.ts : meaning[cloned[x.ts[i]]] = meaning[x.ts[i]]
        /\ x.k = "struct" =>
             \A i \in DOMAIN x.ms : meaning[cloned[x.ms[i].type]] = meaning[x.ms[i].type]
    BY <1>1, Lower
  <2>3. \A y \in {x, c} : y.k \notin {"id", "parens"} => unaliased[y] = y
    BY <2>1, UnaliasedStops DEF Followed
  <2> HIDE DEF P
  <2>4. SUFFICES meaning[c] = meaning[x]
    BY DEF P
  <2> HIDE DEF c
  <2>5. CASE x.k = "id"
    <3>1. c = x
      BY <2>1, <2>5 DEF WithParts
    <3> QED BY <3>1
  <2>6. CASE x.k \in {"parens", "ptr", "mut", "dyn"}
    <3>1. c = [k |-> x.k, t |-> cloned[x.t]]
      BY <2>1, <2>6 DEF WithParts
    <3>2. CASE x.k = "parens"
      BY <2>1, <2>2, <3>1, <3>2, ParensMean
    <3>3. CASE x.k \in {"ptr", "mut", "dyn"}
      <4>1. meaning[x] = [k |-> x.k, t |-> meaning[x.t]]
        BY <2>3, <3>3, RefMeaning
      <4>2. meaning[c] = [k |-> c.k, t |-> meaning[c.t]]
        BY <2>1, <2>3, <3>1, <3>3, RefMeaning
      <4> QED BY <2>2, <3>1, <3>3, <4>1, <4>2
    <3> QED BY <2>6, <3>2, <3>3
  <2>7. CASE x.k = "array"
    <3>1. c = StaticArray(cloned[x.t], x.size)
      BY <2>1, <2>7 DEF WithParts
    <3>2. c.k = "array" /\ c.t = cloned[x.t] /\ c.size = x.size
      BY <3>1 DEF StaticArray
    <3>3. meaning[x] = StaticArray(meaning[x.t], x.size)
      BY <2>3, <2>7, ArrayMeaning
    <3>4. meaning[c] = StaticArray(meaning[c.t], c.size)
      BY <2>1, <2>3, <3>2, ArrayMeaning
    <3> QED BY <2>2, <2>7, <3>2, <3>3, <3>4
  <2>8. CASE x.k = "tuple"
    <3>1. c.k = "tuple" /\ c.ts = [i \in DOMAIN x.ts |-> cloned[x.ts[i]]]
      BY <2>1, <2>8 DEF WithParts, TupleType
    <3>2. meaning[x] = TupleType(Meanings(x.ts))
      BY <2>3, <2>8, TupleMeaning
    <3>3. meaning[c] = TupleType(Meanings(c.ts))
      BY <2>1, <2>3, <3>1, TupleMeaning
    <3>4. Meanings(c.ts) = Meanings(x.ts)
      BY <2>2, <2>8, <3>1 DEF Meanings
    <3> QED BY <3>2, <3>3, <3>4
  <2>9. CASE x.k = "func"
    <3>1. c.k = "func" /\ c.t = cloned[x.t] /\ c.ts = [i \in DOMAIN x.ts |-> cloned[x.ts[i]]]
      BY <2>1, <2>9 DEF WithParts, FuncType
    <3>2. meaning[x] = FuncType(Meanings(x.ts), meaning[x.t])
      BY <2>3, <2>9, FuncMeaning
    <3>3. meaning[c] = FuncType(Meanings(c.ts), meaning[c.t])
      BY <2>1, <2>3, <3>1, FuncMeaning
    <3>4. Meanings(c.ts) = Meanings(x.ts)
      BY <2>2, <2>9, <3>1 DEF Meanings
    <3> QED BY <2>2, <2>9, <3>1, <3>2, <3>3, <3>4
  <2>10. CASE x.k = "struct"
    <3>1. /\ c.k = "struct"
          /\ c.ms = [i \in DOMAIN x.ms |-> [name |-> x.ms[i].name, type |-> cloned[x.ms[i].type]]]
      BY <2>1, <2>10 DEF WithParts, StructWith
    <3>2. meaning[x] = StructType(MemberMeanings(x.ms))
      BY <2>3, <2>10, StructMeaning
    <3>3. meaning[c] = StructType(MemberMeanings(c.ms))
      BY <2>1, <2>3, <3>1, StructMeaning
    <3>4. MemberMeanings(c.ms) = MemberMeanings(x.ms)
      <4>1. DOMAIN c.ms = DOMAIN x.ms
        BY <3>1
      <4>2. ASSUME NEW i \in DOMAIN x.ms
            PROVE  c.ms[i].name = x.ms[i].name /\ meaning[c.ms[i].type] = meaning[x.ms[i].type]
        BY <2>2, <2>10, <3>1
      <4> QED BY <4>1, <4>2 DEF MemberMeanings
    <3> QED BY <3>2, <3>3, <3>4
  <2> QED BY Shape, <2>5, <2>6, <2>7, <2>8, <2>9, <2>10
<1>2. Type \subseteq P
  <2> HIDE DEF P
  <2> QED BY <1>1, HeightInduction
<1> QED BY <1>2, ClonedDef

-----------------------------------------------------------------------------
(* equals.                                                                 *)

EqualHeads(f, a, b) ==
  LET AllEqual == Len(a.ts) = Len(b.ts) /\ \A i \in DOMAIN a.ts : f[a.ts[i]][b.ts[i]]
  IN  /\ a.k = b.k
      /\ CASE a.k = "id"     -> a = b
           [] a.k = "array"  -> f[a.t][b.t] /\ a.size = b.size
           [] a.k = "tuple"  -> AllEqual
           [] a.k = "func"   -> f[a.t][b.t] /\ AllEqual
           [] a.k = "struct" ->
                /\ Len(a.ms) = Len(b.ms)
                /\ \A i \in DOMAIN a.ms : /\ a.ms[i].name = b.ms[i].name
                                          /\ f[a.ms[i].type][b.ms[i].type]
           [] OTHER          -> f[a.t][b.t]

SameBelow(f, g, t) == \A u \in Type : height[u] < height[t] => f[u] = g[u]

LEMMA EqualHeadsLooksDown ==
  ASSUME NEW f, NEW g, NEW t \in Type, NEW b, SameBelow(f, g, t)
  PROVE  EqualHeads(f, unaliased[t], b) <=> EqualHeads(g, unaliased[t], b)
<1> USE DEF SameBelow
<1> DEFINE a == unaliased[t]
<1>1. /\ a.k \in {"ptr", "mut", "dyn", "array", "func"} => f[a.t] = g[a.t]
      /\ a.k \in {"tuple", "func"} => \A i \in DOMAIN a.ts : f[a.ts[i]] = g[a.ts[i]]
      /\ a.k = "struct" => \A i \in DOMAIN a.ms : f[a.ms[i].type] = g[a.ms[i].type]
  <2> HIDE DEF a
  <2>1. a = unaliased[t]
    BY DEF a
  <2> QED BY <2>1, HeadLower
<1>2. a.k \in {"id", "ptr", "mut", "dyn", "array", "tuple", "func", "struct"}
  BY HeadKind
<1> HIDE DEF a
<1>3. EqualHeads(f, a, b) <=> EqualHeads(g, a, b)
  <2>1. CASE a.k \in {"id", "ptr", "mut", "dyn", "array"}
    BY <1>1, <2>1 DEF EqualHeads
  <2>2. CASE a.k = "tuple"
    BY <1>1, <2>2 DEF EqualHeads
  <2>3. CASE a.k = "func"
    BY <1>1, <2>3 DEF EqualHeads
  <2>4. CASE a.k = "struct"
    BY <1>1, <2>4 DEF EqualHeads
  <2> QED BY <1>2, <2>1, <2>2, <2>3, <2>4
<1> QED BY <1>3 DEF a

LEMMA EqualsDef ==
  ASSUME NEW t \in Type, NEW u \in Type
  PROVE  /\ equals[t][u] \in BOOLEAN
         /\ equals[t][u] <=> EqualHeads(equals, unaliased[t], unaliased[u])
<1> DEFINE V == [Type -> BOOLEAN]
           G == [f \in [Type -> V] |->
                   [x \in Type |-> [y \in Type |-> EqualHeads(f, unaliased[x], unaliased[y])]]]
<1>1. G \in [[Type -> V] -> [Type -> V]]
  <2>1. \A f, a, b : EqualHeads(f, a, b) \in BOOLEAN
    BY DEF EqualHeads
  <2> QED BY <2>1
<1>2. ASSUME NEW f \in [Type -> V], NEW g \in [Type -> V], NEW x \in Type,
             \A y \in Type : height[y] < height[x] => f[y] = g[y]
      PROVE  G[f][x] = G[g][x]
  <2>1. SameBelow(f, g, x)
    BY <1>2 DEF SameBelow
  <2>2. ASSUME NEW y \in Type
        PROVE  EqualHeads(f, unaliased[x], unaliased[y]) <=> EqualHeads(g, unaliased[x], unaliased[y])
    BY <2>1, EqualHeadsLooksDown, Zenon
  <2>3. \A a, b : EqualHeads(f, a, b) \in BOOLEAN /\ EqualHeads(g, a, b) \in BOOLEAN
    BY DEF EqualHeads
  <2>4. \A y \in Type : EqualHeads(f, unaliased[x], unaliased[y]) = EqualHeads(g, unaliased[x], unaliased[y])
    BY <2>2, <2>3
  <2> QED BY <2>4
<1>3. LooksDown(G, Type, V, height)
  <2>1. V # {} /\ height \in [Type -> Nat]
    <3>1. [x \in Type |-> TRUE] \in V
      OBVIOUS
    <3> QED BY <3>1, PartsAssumption
  <2>2. \A f, g \in [Type -> V] : \A x \in Type :
          (\A y \in Type : height[y] < height[x] => f[y] = g[y]) => G[f][x] = G[g][x]
    BY <1>2
  <2> HIDE DEF G, V
  <2> QED BY <1>1, <2>1, <2>2 DEF LooksDown
<1>4. Solvable(G, Type, V)
  <2> HIDE DEF G, V
  <2> QED BY <1>3, RecursionExists
<1>5. \E f : f = [x \in Type |-> [y \in Type |-> EqualHeads(f, unaliased[x], unaliased[y])]]
  BY <1>4 DEF Solvable
<1>6. equals = [x \in Type |-> [y \in Type |-> EqualHeads(equals, unaliased[x], unaliased[y])]]
  BY <1>5 DEF equals, EqualHeads
<1>7. equals[t][u] = EqualHeads(equals, unaliased[t], unaliased[u])
  BY <1>6
<1>8. EqualHeads(equals, unaliased[t], unaliased[u]) \in BOOLEAN
  BY DEF EqualHeads
<1> QED BY <1>7, <1>8

LEMMA SameInterval ==
  ASSUME NEW m \in Nat, NEW n \in Nat, 1..m = 1..n
  PROVE  m = n
<1>1. CASE m < n
  <2>1. n \in 1..n /\ n \notin 1..m
    BY <1>1
  <2> QED BY <2>1
<1>2. CASE n < m
  <2>1. m \in 1..m /\ m \notin 1..n
    BY <1>2
  <2> QED BY <2>1
<1> QED BY <1>1, <1>2

\* Lists of types stand for the same if they do element by element.
LEMMA ListsMean ==
  ASSUME NEW r \in Seq(Type), NEW s \in Seq(Type)
  PROVE  Meanings(r) = Meanings(s)
           <=> Len(r) = Len(s) /\ \A i \in DOMAIN r : meaning[r[i]] = meaning[s[i]]
<1> USE DEF Meanings
<1>1. DOMAIN r = 1..Len(r) /\ DOMAIN s = 1..Len(s) /\ Len(r) \in Nat /\ Len(s) \in Nat
  OBVIOUS
<1>2. ASSUME Meanings(r) = Meanings(s)
      PROVE  Len(r) = Len(s) /\ \A i \in DOMAIN r : meaning[r[i]] = meaning[s[i]]
  <2>1. DOMAIN Meanings(r) = DOMAIN Meanings(s)
    BY <1>2
  <2>2. DOMAIN r = DOMAIN s
    BY <2>1
  <2>3. Len(r) = Len(s)
    BY <1>1, <2>2, SameInterval
  <2>4. \A i \in DOMAIN r : Meanings(r)[i] = Meanings(s)[i]
    BY <1>2
  <2> QED BY <2>2, <2>3, <2>4
<1>3. ASSUME Len(r) = Len(s), \A i \in DOMAIN r : meaning[r[i]] = meaning[s[i]]
      PROVE  Meanings(r) = Meanings(s)
  BY <1>1, <1>3
<1> QED BY <1>2, <1>3

LEMMA MembersMean ==
  ASSUME NEW r \in Seq(MemberDecl), NEW s \in Seq(MemberDecl)
  PROVE  MemberMeanings(r) = MemberMeanings(s)
           <=> /\ Len(r) = Len(s)
               /\ \A i \in DOMAIN r : /\ r[i].name = s[i].name
                                      /\ meaning[r[i].type] = meaning[s[i].type]
<1> USE DEF MemberMeanings
<1>1. DOMAIN r = 1..Len(r) /\ DOMAIN s = 1..Len(s) /\ Len(r) \in Nat /\ Len(s) \in Nat
  OBVIOUS
<1>2. ASSUME MemberMeanings(r) = MemberMeanings(s)
      PROVE  /\ Len(r) = Len(s)
             /\ \A i \in DOMAIN r : /\ r[i].name = s[i].name
                                    /\ meaning[r[i].type] = meaning[s[i].type]
  <2>1. DOMAIN MemberMeanings(r) = DOMAIN MemberMeanings(s)
    BY <1>2
  <2>2. DOMAIN r = DOMAIN s
    BY <2>1
  <2>3. Len(r) = Len(s)
    BY <1>1, <2>2, SameInterval
  <2>4. \A i \in DOMAIN r : MemberMeanings(r)[i].name = MemberMeanings(s)[i].name /\ MemberMeanings(r)[i].type = MemberMeanings(s)[i].type
    BY <1>2
  <2> QED BY <2>2, <2>3, <2>4
<1>3. ASSUME Len(r) = Len(s),
             \A i \in DOMAIN r : /\ r[i].name = s[i].name
                                 /\ meaning[r[i].type] = meaning[s[i].type]
      PROVE  MemberMeanings(r) = MemberMeanings(s)
  BY <1>1, <1>3
<1> QED BY <1>2, <1>3

\* EqualityIsMeaning of the parts is EqualityIsMeaning of the whole.
LEMMA EqualHeadsMean ==
  ASSUME NEW t \in Type, NEW u \in Type,
         \A v \in Type : height[v] < height[t] =>
            \A w \in Type : equals[v][w] <=> meaning[v] = meaning[w]
  PROVE  EqualHeads(equals, unaliased[t], unaliased[u]) <=> meaning[t] = meaning[u]
<1> DEFINE a == unaliased[t]
           b == unaliased[u]
<1>1. a \in Type /\ b \in Type /\ a = unaliased[t] /\ b = unaliased[u]
  BY UnaliasedHead
<1>2. meaning[t].k = a.k /\ meaning[u].k = b.k
  BY MeaningByKind
<1>3. a.k \in {"id", "ptr", "mut", "dyn", "array", "tuple", "func", "struct"}
  BY HeadKind
<1> HIDE DEF a, b
<1>4. CASE a.k # b.k
  BY <1>2, <1>4 DEF EqualHeads, a, b
<1>5. CASE a.k = "id" /\ b.k = "id"
  <2>1. meaning[t] = a /\ meaning[u] = b
    <3>1. meaning[t] = a
      BY <1>1, <1>5, IdMeaning
    <3>2. meaning[u] = b
      BY <1>1, <1>5, IdMeaning
    <3> QED BY <3>1, <3>2
  <2>2. EqualHeads(equals, a, b) <=> a = b
    BY <1>5 DEF EqualHeads
  <2> QED BY <2>1, <2>2 DEF a, b
<1>6. CASE a.k \in {"ptr", "mut", "dyn"} /\ b.k = a.k
  <2>1. meaning[t] = [k |-> a.k, t |-> meaning[a.t]] /\ meaning[u] = [k |-> b.k, t |-> meaning[b.t]]
    <3>1. meaning[t] = [k |-> a.k, t |-> meaning[a.t]]
      BY <1>1, <1>6, RefMeaning
    <3>2. meaning[u] = [k |-> b.k, t |-> meaning[b.t]]
      BY <1>1, <1>6, RefMeaning
    <3> QED BY <3>1, <3>2
  <2>2. EqualHeads(equals, a, b) <=> equals[a.t][b.t]
    BY <1>6 DEF EqualHeads
  <2>3. a.t \in Type /\ height[a.t] < height[t] /\ b.t \in Type
    BY <1>1, <1>6, HeadLower
  <2>4. equals[a.t][b.t] <=> meaning[a.t] = meaning[b.t]
    BY <2>3
  <2>5. meaning[t] = meaning[u] <=> meaning[a.t] = meaning[b.t]
    BY <1>6, <2>1
  <2> QED BY <2>2, <2>4, <2>5 DEF a, b
<1>7. CASE a.k = "array" /\ b.k = "array"
  <2>1. meaning[t] = StaticArray(meaning[a.t], a.size) /\ meaning[u] = StaticArray(meaning[b.t], b.size)
    <3>1. meaning[t] = StaticArray(meaning[a.t], a.size)
      BY <1>1, <1>7, ArrayMeaning
    <3>2. meaning[u] = StaticArray(meaning[b.t], b.size)
      BY <1>1, <1>7, ArrayMeaning
    <3> QED BY <3>1, <3>2
  <2>2. EqualHeads(equals, a, b) <=> equals[a.t][b.t] /\ a.size = b.size
    BY <1>7 DEF EqualHeads
  <2>3. a.t \in Type /\ height[a.t] < height[t] /\ b.t \in Type
    BY <1>1, <1>7, HeadLower
  <2>4. equals[a.t][b.t] <=> meaning[a.t] = meaning[b.t]
    BY <2>3
  <2>5. meaning[t] = meaning[u] <=> meaning[a.t] = meaning[b.t] /\ a.size = b.size
    BY <2>1 DEF StaticArray
  <2> QED BY <2>2, <2>4, <2>5 DEF a, b
<1>8. CASE a.k = "tuple" /\ b.k = "tuple"
  <2>1. meaning[t] = TupleType(Meanings(a.ts)) /\ meaning[u] = TupleType(Meanings(b.ts))
    <3>1. meaning[t] = TupleType(Meanings(a.ts))
      BY <1>1, <1>8, TupleMeaning
    <3>2. meaning[u] = TupleType(Meanings(b.ts))
      BY <1>1, <1>8, TupleMeaning
    <3> QED BY <3>1, <3>2
  <2>2. EqualHeads(equals, a, b) <=>
          Len(a.ts) = Len(b.ts) /\ \A i \in DOMAIN a.ts : equals[a.ts[i]][b.ts[i]]
    BY <1>8 DEF EqualHeads
  <2>3. a.ts \in Seq(Type) /\ b.ts \in Seq(Type)
    BY <1>1, <1>8, Shape
  <2>4. \A i \in DOMAIN a.ts : a.ts[i] \in Type /\ height[a.ts[i]] < height[t]
    BY <1>1, <1>8, HeadLower
  <2>5. ASSUME Len(a.ts) = Len(b.ts), NEW i \in DOMAIN a.ts
        PROVE  equals[a.ts[i]][b.ts[i]] <=> meaning[a.ts[i]] = meaning[b.ts[i]]
    <3>1. b.ts[i] \in Type
      BY <2>3, <2>5
    <3> QED BY <2>4, <3>1
  <2>6. Meanings(a.ts) = Meanings(b.ts) <=> Len(a.ts) = Len(b.ts) /\ \A i \in DOMAIN a.ts : meaning[a.ts[i]] = meaning[b.ts[i]]
    BY <2>3, ListsMean
  <2>7. meaning[t] = meaning[u] <=> Meanings(a.ts) = Meanings(b.ts)
    BY <2>1 DEF TupleType
  <2> QED BY <2>2, <2>5, <2>6, <2>7 DEF a, b
<1>9. CASE a.k = "func" /\ b.k = "func"
  <2>1. meaning[t] = FuncType(Meanings(a.ts), meaning[a.t]) /\ meaning[u] = FuncType(Meanings(b.ts), meaning[b.t])
    <3>1. meaning[t] = FuncType(Meanings(a.ts), meaning[a.t])
      BY <1>1, <1>9, FuncMeaning
    <3>2. meaning[u] = FuncType(Meanings(b.ts), meaning[b.t])
      BY <1>1, <1>9, FuncMeaning
    <3> QED BY <3>1, <3>2
  <2>2. EqualHeads(equals, a, b) <=>
          /\ equals[a.t][b.t]
          /\ Len(a.ts) = Len(b.ts) /\ \A i \in DOMAIN a.ts : equals[a.ts[i]][b.ts[i]]
    BY <1>9 DEF EqualHeads
  <2>3. a.ts \in Seq(Type) /\ b.ts \in Seq(Type)
    BY <1>1, <1>9, Shape
  <2>4. \A i \in DOMAIN a.ts : a.ts[i] \in Type /\ height[a.ts[i]] < height[t]
    BY <1>1, <1>9, HeadLower
  <2>5. ASSUME Len(a.ts) = Len(b.ts), NEW i \in DOMAIN a.ts
        PROVE  equals[a.ts[i]][b.ts[i]] <=> meaning[a.ts[i]] = meaning[b.ts[i]]
    <3>1. b.ts[i] \in Type
      BY <2>3, <2>5
    <3> QED BY <2>4, <3>1
  <2>6. Meanings(a.ts) = Meanings(b.ts) <=> Len(a.ts) = Len(b.ts) /\ \A i \in DOMAIN a.ts : meaning[a.ts[i]] = meaning[b.ts[i]]
    BY <2>3, ListsMean
  <2>7. a.t \in Type /\ height[a.t] < height[t] /\ b.t \in Type
    BY <1>1, <1>9, HeadLower
  <2>8. equals[a.t][b.t] <=> meaning[a.t] = meaning[b.t]
    BY <2>7
  <2>9. meaning[t] = meaning[u] <=> Meanings(a.ts) = Meanings(b.ts) /\ meaning[a.t] = meaning[b.t]
    BY <2>1 DEF FuncType
  <2> QED BY <2>2, <2>5, <2>6, <2>8, <2>9 DEF a, b
<1>10. CASE a.k = "struct" /\ b.k = "struct"
  <2>1. meaning[t] = StructType(MemberMeanings(a.ms)) /\ meaning[u] = StructType(MemberMeanings(b.ms))
    <3>1. meaning[t] = StructType(MemberMeanings(a.ms))
      BY <1>1, <1>10, StructMeaning
    <3>2. meaning[u] = StructType(MemberMeanings(b.ms))
      BY <1>1, <1>10, StructMeaning
    <3> QED BY <3>1, <3>2
  <2>2. EqualHeads(equals, a, b) <=>
          /\ Len(a.ms) = Len(b.ms)
          /\ \A i \in DOMAIN a.ms : /\ a.ms[i].name = b.ms[i].name
                                    /\ equals[a.ms[i].type][b.ms[i].type]
    BY <1>10 DEF EqualHeads
  <2>3. a.ms \in Seq(MemberDecl) /\ b.ms \in Seq(MemberDecl)
    BY <1>1, <1>10, Shape
  <2>4. \A i \in DOMAIN a.ms : a.ms[i].type \in Type /\ height[a.ms[i].type] < height[t]
    BY <1>1, <1>10, HeadLower
  <2>5. ASSUME Len(a.ms) = Len(b.ms), NEW i \in DOMAIN a.ms
        PROVE  equals[a.ms[i].type][b.ms[i].type] <=> meaning[a.ms[i].type] = meaning[b.ms[i].type]
    <3>1. b.ms[i].type \in Type
      <4>1. i \in DOMAIN b.ms
        BY <2>3, <2>5
      <4> QED BY <1>1, <1>10, <4>1, Lower
    <3> QED BY <2>4, <3>1
  <2>6. MemberMeanings(a.ms) = MemberMeanings(b.ms) <=> /\ Len(a.ms) = Len(b.ms)
                              /\ \A i \in DOMAIN a.ms : /\ a.ms[i].name = b.ms[i].name
                                                        /\ meaning[a.ms[i].type] = meaning[b.ms[i].type]
    BY <2>3, MembersMean
  <2>7. meaning[t] = meaning[u] <=> MemberMeanings(a.ms) = MemberMeanings(b.ms)
    BY <2>1 DEF StructType, StructWith
  <2> QED BY <2>2, <2>5, <2>6, <2>7 DEF a, b
<1> QED BY <1>3, <1>4, <1>5, <1>6, <1>7, <1>8, <1>9, <1>10

\* type_equals says of two types, however they are written, that they are
\* equal exactly if they stand for the same type.
LEMMA EqualsMeaning ==
  \A t, u \in Type : equals[t][u] <=> meaning[t] = meaning[u]
<1> DEFINE P == {t \in Type : \A u \in Type : equals[t][u] <=> meaning[t] = meaning[u]}
<1>1. ASSUME NEW t \in Type, \A v \in Type : height[v] < height[t] => v \in P
      PROVE  t \in P
  <2>1. \A v \in Type : height[v] < height[t] =>
           \A w \in Type : equals[v][w] <=> meaning[v] = meaning[w]
    BY <1>1
  <2>2. ASSUME NEW u \in Type PROVE equals[t][u] <=> meaning[t] = meaning[u]
    <3>1. EqualHeads(equals, unaliased[t], unaliased[u]) <=> meaning[t] = meaning[u]
      BY <2>1, EqualHeadsMean
    <3>2. equals[t][u] <=> EqualHeads(equals, unaliased[t], unaliased[u])
      BY EqualsDef
    <3> QED BY <3>1, <3>2
  <2> QED BY <2>2
<1>2. Type \subseteq P
  <2> HIDE DEF P
  <2> QED BY <1>1, HeightInduction
<1> QED BY <1>2

-----------------------------------------------------------------------------
(* canCast.                                                                *)

CastHeads(f, a, b) ==
  CASE a.k = "id"     -> \/ a = IntT /\ b.k = "ptr"
                         \/ b.k = "id" /\ (a = b \/ (a = IntT /\ b = FloatT))
    [] a.k = "ptr"    -> \/ Equals(a.t, b)
                         \/ b = IntT
                         \/ b.k = "ptr" /\ Equals(a.t, b.t)
    [] a.k = "mut"    -> b.k = "mut" /\ f[a.t][b.t]
    [] a.k = "dyn"    -> b.k = "ptr" /\ Equals(a.t, b.t)
    [] a.k = "tuple"  -> \/ Len(a.ts) = 1 /\ Equals(a.ts[1], b)
                         \/ Equals(a, b)
    [] a.k = "array"  -> \/ a.size = 1 /\ Equals(a.t, b)
                         \/ b.k = "array" /\ a.size = b.size /\ f[a.t][b.t]
    [] OTHER          -> Equals(a, b)

LEMMA CastHeadsLooksDown ==
  ASSUME NEW f, NEW g, NEW t \in Type, NEW b, SameBelow(f, g, t)
  PROVE  CastHeads(f, unaliased[t], b) <=> CastHeads(g, unaliased[t], b)
<1> DEFINE a == unaliased[t]
<1>1. a.k \in {"mut", "array"} => f[a.t] = g[a.t]
  BY HeadLower DEF SameBelow
<1> HIDE DEF a
<1>2. CastHeads(f, a, b) <=> CastHeads(g, a, b)
  <2>1. CASE a.k = "mut"
    BY <1>1, <2>1 DEF CastHeads
  <2>2. CASE a.k = "array"
    BY <1>1, <2>2 DEF CastHeads
  <2>3. CASE a.k \notin {"mut", "array"}
    BY <2>3 DEF CastHeads
  <2> QED BY <2>1, <2>2, <2>3
<1> QED BY <1>2 DEF a

\* The comparisons that canCast makes are of types.
LEMMA CastHeadsBoolean ==
  ASSUME NEW f \in [Type -> [Type -> BOOLEAN]], NEW t \in Type, NEW u \in Type
  PROVE  CastHeads(f, unaliased[t], unaliased[u]) \in BOOLEAN
<1> DEFINE a == unaliased[t]
           b == unaliased[u]
<1>1. /\ a \in Type /\ b \in Type
      /\ a.k \in {"ptr", "dyn", "array"} => a.t \in Type
      /\ b.k = "ptr" => b.t \in Type
  BY UnaliasedHead, HeadLower
<1>2. a.k = "tuple" /\ Len(a.ts) = 1 => a.ts[1] \in Type
  <2>1. a.k = "tuple" => a.ts \in Seq(Type)
    BY <1>1, Shape
  <2> HIDE DEF a
  <2> QED BY <2>1
<1>3. \A x, y \in Type : Equals(x, y) \in BOOLEAN
  BY EqualsDef DEF Equals
<1> HIDE DEF a, b
<1>4. a.k \in {"id", "ptr", "mut", "dyn", "array", "tuple", "func", "struct"}
  BY HeadKind DEF a
<1>5. CastHeads(f, a, b) \in BOOLEAN
  <2>1. CASE a.k \in {"id", "mut", "array", "tuple"}
    BY <2>1 DEF CastHeads
  <2>2. CASE a.k \in {"ptr", "dyn"}
    BY <2>2 DEF CastHeads
  <2>3. CASE a.k \in {"func", "struct"}
    <3>1. CastHeads(f, a, b) = Equals(a, b)
      BY <2>3 DEF CastHeads
    <3> QED BY <1>1, <1>3, <3>1
  <2> QED BY <1>4, <2>1, <2>2, <2>3
<1> QED BY <1>5 DEF a, b

LEMMA CanCastDef ==
  ASSUME NEW t \in Type, NEW u \in Type
  PROVE  canCast[t][u] = CastHeads(canCast, unaliased[t], unaliased[u])
<1> DEFINE V == [Type -> BOOLEAN]
           G == [f \in [Type -> V] |->
                   [x \in Type |-> [y \in Type |-> CastHeads(f, unaliased[x], unaliased[y])]]]
<1>1. G \in [[Type -> V] -> [Type -> V]]
  <2>1. ASSUME NEW f \in [Type -> V], NEW x \in Type, NEW y \in Type
        PROVE  CastHeads(f, unaliased[x], unaliased[y]) \in BOOLEAN
    BY CastHeadsBoolean
  <2> QED BY <2>1
<1>2. ASSUME NEW f \in [Type -> V], NEW g \in [Type -> V], NEW x \in Type,
             \A y \in Type : height[y] < height[x] => f[y] = g[y]
      PROVE  G[f][x] = G[g][x]
  <2>1. SameBelow(f, g, x)
    BY <1>2 DEF SameBelow
  <2>2. ASSUME NEW y \in Type
        PROVE  CastHeads(f, unaliased[x], unaliased[y]) <=> CastHeads(g, unaliased[x], unaliased[y])
    BY <2>1, CastHeadsLooksDown, Zenon
  <2>3. ASSUME NEW y \in Type
        PROVE  /\ CastHeads(f, unaliased[x], unaliased[y]) \in BOOLEAN
               /\ CastHeads(g, unaliased[x], unaliased[y]) \in BOOLEAN
    BY CastHeadsBoolean
  <2>4. \A y \in Type : CastHeads(f, unaliased[x], unaliased[y]) = CastHeads(g, unaliased[x], unaliased[y])
    BY <2>2, <2>3
  <2> QED BY <2>4
<1>3. LooksDown(G, Type, V, height)
  <2>1. V # {} /\ height \in [Type -> Nat]
    <3>1. [x \in Type |-> TRUE] \in V
      OBVIOUS
    <3> QED BY <3>1, PartsAssumption
  <2>2. \A f, g \in [Type -> V] : \A x \in Type :
          (\A y \in Type : height[y] < height[x] => f[y] = g[y]) => G[f][x] = G[g][x]
    BY <1>2
  <2> HIDE DEF G, V
  <2> QED BY <1>1, <2>1, <2>2 DEF LooksDown
<1>4. Solvable(G, Type, V)
  <2> HIDE DEF G, V
  <2> QED BY <1>3, RecursionExists
<1>5. \E f : f = [x \in Type |-> [y \in Type |-> CastHeads(f, unaliased[x], unaliased[y])]]
  BY <1>4 DEF Solvable
<1>6. canCast = [x \in Type |-> [y \in Type |-> CastHeads(canCast, unaliased[x], unaliased[y])]]
  BY <1>5 DEF canCast, CastHeads
<1> QED BY <1>6

\* A type is compared by what it stands for.
LEMMA EqualsRespects ==
  ASSUME NEW t \in Type, NEW u \in Type
  PROVE  /\ Equals(t, u) <=> meaning[t] = meaning[u]
         /\ Equals(meaning[t], u) <=> Equals(t, u)
         /\ Equals(t, unaliased[u]) <=> Equals(t, u)
         /\ Equals(t, meaning[u]) <=> Equals(t, u)
<1>1. /\ meaning[t] \in Type /\ meaning[meaning[t]] = meaning[t]
      /\ meaning[u] \in Type /\ meaning[meaning[u]] = meaning[u]
      /\ unaliased[u] \in Type /\ meaning[unaliased[u]] = meaning[u]
  BY MeaningHead, MeaningTwice, UnaliasedHead
<1> QED BY <1>1, EqualsMeaning DEF Equals

\* CastRespectsMeaning of the parts is CastRespectsMeaning of the whole.
LEMMA CastHeadsRespect ==
  ASSUME NEW t \in Type, NEW u \in Type,
         \A v \in Type : height[v] < height[t] =>
            \A w \in Type : canCast[v][w] <=> canCast[meaning[v]][meaning[w]]
  PROVE  CastHeads(canCast, unaliased[t], unaliased[u]) <=> CastHeads(canCast, meaning[t], meaning[u])
<1> DEFINE a == unaliased[t]
           b == unaliased[u]
           m == meaning[t]
           n == meaning[u]
<1>1. /\ a \in Type /\ b \in Type /\ m \in Type /\ n \in Type
      /\ a = unaliased[t] /\ b = unaliased[u]
  BY UnaliasedHead, MeaningHead
<1>2. m.k = a.k /\ n.k = b.k
  BY MeaningByKind
<1>3. a.k \in {"id", "ptr", "mut", "dyn", "array", "tuple", "func", "struct"}
  BY HeadKind
\* Only what is compared matters, and not as what it is written.
<1>4. Equals(a, b) <=> Equals(m, n)
  <2>1. meaning[a] = m /\ meaning[b] = n /\ meaning[m] = m /\ meaning[n] = n
    BY MeaningHead, MeaningTwice
  <2> HIDE DEF a, b, m, n
  <2> QED BY <1>1, <2>1, EqualsRespects
<1>5. ASSUME NEW x \in Type PROVE Equals(x, b) <=> Equals(meaning[x], n)
  <2>1. meaning[b] = n /\ meaning[n] = n /\ meaning[x] \in Type /\ meaning[meaning[x]] = meaning[x]
    BY MeaningHead, MeaningTwice
  <2> HIDE DEF a, b, m, n
  <2>2. Equals(x, b) <=> meaning[x] = n
    BY <1>1, <2>1, EqualsRespects
  <2>3. Equals(meaning[x], n) <=> meaning[x] = n
    BY <1>1, <2>1, EqualsRespects
  <2> QED BY <2>2, <2>3
<1>6. b.k = "id" => n = b
  BY MeaningByKind
<1>7. b = IntT <=> n = IntT
  BY <1>2, <1>6 DEF IntT, TypeIdent
<1>8. b.k \in {"ptr", "mut", "array"} => b.t \in Type /\ n.t = meaning[b.t]
  <2>1. b.k \in {"ptr", "mut"} => n = [k |-> b.k, t |-> meaning[b.t]]
    BY MeaningByKind
  <2>2. b.k = "array" => n = StaticArray(meaning[b.t], b.size)
    BY MeaningByKind
  <2>3. b.k \in {"ptr", "mut", "array"} => b.t \in Type
    BY HeadLower
  <2> HIDE DEF b, n
  <2> QED BY <2>1, <2>2, <2>3 DEF StaticArray
<1>9. b.k = "array" => n.size = b.size
  <2>1. b.k = "array" => n = StaticArray(meaning[b.t], b.size)
    BY MeaningByKind
  <2> HIDE DEF b, n
  <2> QED BY <2>1 DEF StaticArray
<1>10. a.k \in {"ptr", "mut", "dyn"} => m = [k |-> a.k, t |-> meaning[a.t]]
  BY MeaningByKind
<1>11. a.k = "array" => m = StaticArray(meaning[a.t], a.size)
  BY MeaningByKind
<1>12. a.k = "tuple" => m = TupleType(Meanings(a.ts))
  BY MeaningByKind
<1>13. a.k = "id" => m = a
  BY MeaningByKind
<1>14. a.k \in {"ptr", "mut", "dyn", "array"} => a.t \in Type /\ height[a.t] < height[t]
  BY HeadLower
<1> SUFFICES CastHeads(canCast, a, b) <=> CastHeads(canCast, m, n)
  OBVIOUS
<1> HIDE DEF a, b, m, n
<1>15. ASSUME NEW y \in Type, a.k \in {"mut", "array"}
       PROVE  canCast[a.t][y] <=> canCast[meaning[a.t]][meaning[y]]
  BY <1>14, <1>15
<1>16. CASE a.k = "id"
  BY <1>2, <1>6, <1>7, <1>13, <1>16 DEF CastHeads, FloatT, TypeIdent
<1>17. CASE a.k = "ptr"
  <2>1. m.t = meaning[a.t] /\ m.k = "ptr"
    BY <1>10, <1>17
  <2>2. Equals(a.t, b) <=> Equals(m.t, n)
    BY <1>5, <1>14, <1>17, <2>1
  <2>3. ASSUME b.k = "ptr" PROVE Equals(a.t, b.t) <=> Equals(m.t, n.t)
    <3>1. a.t \in Type /\ b.t \in Type /\ n.t = meaning[b.t]
      BY <1>8, <1>14, <1>17, <2>3
    <3>2. Equals(a.t, b.t) <=> meaning[a.t] = meaning[b.t]
      BY <3>1, EqualsRespects
    <3>3. /\ meaning[a.t] \in Type /\ meaning[meaning[a.t]] = meaning[a.t]
          /\ meaning[b.t] \in Type /\ meaning[meaning[b.t]] = meaning[b.t]
      BY <3>1, MeaningHead, MeaningTwice
    <3>4. Equals(meaning[a.t], meaning[b.t]) <=> meaning[a.t] = meaning[b.t]
      BY <3>3, EqualsRespects
    <3> QED BY <2>1, <3>1, <3>2, <3>4
  <2> QED BY <1>2, <1>7, <1>17, <2>1, <2>2, <2>3 DEF CastHeads
<1>18. CASE a.k = "mut"
  <2>1. m.t = meaning[a.t] /\ m.k = "mut"
    BY <1>10, <1>18
  <2>2. b.k = "mut" => (canCast[a.t][b.t] <=> canCast[m.t][n.t])
    BY <1>8, <1>15, <1>18, <2>1
  <2> QED BY <1>2, <1>18, <2>1, <2>2 DEF CastHeads
<1>19. CASE a.k = "dyn"
  <2>1. m.t = meaning[a.t] /\ m.k = "dyn"
    BY <1>10, <1>19
  <2>2. ASSUME b.k = "ptr" PROVE Equals(a.t, b.t) <=> Equals(m.t, n.t)
    <3>1. a.t \in Type /\ b.t \in Type /\ n.t = meaning[b.t]
      BY <1>8, <1>14, <1>19, <2>2
    <3>2. Equals(a.t, b.t) <=> meaning[a.t] = meaning[b.t]
      BY <3>1, EqualsRespects
    <3>3. /\ meaning[a.t] \in Type /\ meaning[meaning[a.t]] = meaning[a.t]
          /\ meaning[b.t] \in Type /\ meaning[meaning[b.t]] = meaning[b.t]
      BY <3>1, MeaningHead, MeaningTwice
    <3>4. Equals(meaning[a.t], meaning[b.t]) <=> meaning[a.t] = meaning[b.t]
      BY <3>3, EqualsRespects
    <3> QED BY <2>1, <3>1, <3>2, <3>4
  <2> QED BY <1>2, <1>19, <2>1, <2>2 DEF CastHeads
<1>20. CASE a.k = "tuple"
  <2>1. m.ts = Meanings(a.ts) /\ m.k = "tuple"
    BY <1>12, <1>20 DEF TupleType
  <2>2. a.ts \in Seq(Type)
    BY <1>1, <1>20, Shape
  <2>3. Len(m.ts) = Len(a.ts) /\ (Len(a.ts) = 1 => m.ts[1] = meaning[a.ts[1]] /\ a.ts[1] \in Type)
    BY <2>1, <2>2 DEF Meanings
  <2>4. Len(a.ts) = 1 => (Equals(a.ts[1], b) <=> Equals(m.ts[1], n))
    BY <1>5, <2>3
  <2> QED BY <1>4, <1>20, <2>1, <2>3, <2>4 DEF CastHeads
<1>21. CASE a.k = "array"
  <2>1. m.t = meaning[a.t] /\ m.size = a.size /\ m.k = "array"
    BY <1>11, <1>21 DEF StaticArray
  <2>2. Equals(a.t, b) <=> Equals(m.t, n)
    BY <1>5, <1>14, <1>21, <2>1
  <2>3. b.k = "array" => (canCast[a.t][b.t] <=> canCast[m.t][n.t])
    BY <1>8, <1>15, <1>21, <2>1
  <2> QED BY <1>2, <1>9, <1>21, <2>1, <2>2, <2>3 DEF CastHeads
<1>22. CASE a.k \in {"func", "struct"}
  BY <1>2, <1>4, <1>22 DEF CastHeads
<1> QED
  BY <1>3, <1>16, <1>17, <1>18, <1>19, <1>20, <1>21, <1>22

\* can_cast_to answers by what the two types stand for.
LEMMA CastRespects ==
  \A t, u \in Type : canCast[t][u] <=> canCast[meaning[t]][meaning[u]]
<1> DEFINE P == {t \in Type : \A u \in Type : canCast[t][u] <=> canCast[meaning[t]][meaning[u]]}
<1>1. ASSUME NEW t \in Type, \A v \in Type : height[v] < height[t] => v \in P
      PROVE  t \in P
  <2>1. \A v \in Type : height[v] < height[t] =>
           \A w \in Type : canCast[v][w] <=> canCast[meaning[v]][meaning[w]]
    BY <1>1
  <2>2. ASSUME NEW u \in Type PROVE canCast[t][u] <=> canCast[meaning[t]][meaning[u]]
    <3>1. CastHeads(canCast, unaliased[t], unaliased[u]) <=> CastHeads(canCast, meaning[t], meaning[u])
      BY <2>1, CastHeadsRespect
    <3>2. canCast[t][u] = CastHeads(canCast, unaliased[t], unaliased[u])
      BY CanCastDef
    <3>3. /\ meaning[t] \in Type /\ meaning[u] \in Type
          /\ unaliased[meaning[t]] = meaning[t] /\ unaliased[meaning[u]] = meaning[u]
      BY MeaningHead
    <3>4. canCast[meaning[t]][meaning[u]]
            = CastHeads(canCast, unaliased[meaning[t]], unaliased[meaning[u]])
      BY <3>3, CanCastDef
    <3>5. canCast[meaning[t]][meaning[u]] = CastHeads(canCast, meaning[t], meaning[u])
      BY <3>3, <3>4
    <3> QED BY <3>1, <3>2, <3>5
  <2> QED BY <2>2
<1>2. Type \subseteq P
  <2> HIDE DEF P
  <2> QED BY <1>1, HeightInduction
<1> QED BY <1>2

-----------------------------------------------------------------------------
(* sized and endsInAddress.                                                *)

SizedBy(f, t) ==
  CASE t.k = "id"     -> unaliased[t] # t /\ f[unaliased[t]]
    [] t.k = "tuple"  -> \A i \in DOMAIN t.ts : f[t.ts[i]]
    [] t.k = "struct" -> \A i \in DOMAIN t.ms : f[t.ms[i].type]
    [] t.k \in {"ptr", "func", "dyn"} -> TRUE
    [] OTHER          -> f[t.t]

LEMMA SizedByLooksDown ==
  ASSUME NEW f, NEW g, NEW t \in Type, SameBelow(f, g, t)
  PROVE  SizedBy(f, t) = SizedBy(g, t)
<1>1. t.k \in {"parens", "mut", "array"} => f[t.t] = g[t.t]
  BY Lower DEF SameBelow
<1>2. t.k = "tuple" => \A i \in DOMAIN t.ts : f[t.ts[i]] = g[t.ts[i]]
  BY Lower DEF SameBelow
<1>3. t.k = "struct" => \A i \in DOMAIN t.ms : f[t.ms[i].type] = g[t.ms[i].type]
  BY Lower DEF SameBelow
<1>4. unaliased[t] # t => f[unaliased[t]] = g[unaliased[t]]
  BY UnaliasedHead DEF SameBelow
<1>5. CASE t.k = "id"
  BY <1>4, <1>5 DEF SizedBy
<1>6. CASE t.k = "tuple"
  BY <1>2, <1>6 DEF SizedBy
<1>7. CASE t.k = "struct"
  BY <1>3, <1>7 DEF SizedBy
<1>8. CASE t.k \in {"ptr", "func", "dyn"}
  BY <1>8 DEF SizedBy
<1>9. CASE t.k \in {"parens", "mut", "array"}
  BY <1>1, <1>9 DEF SizedBy
<1> QED BY Shape, <1>5, <1>6, <1>7, <1>8, <1>9

LEMMA SizedByBoolean ==
  ASSUME NEW f, NEW t \in Type,
         t.k \in {"parens", "mut", "array"} => f[t.t] \in BOOLEAN
  PROVE  SizedBy(f, t) \in BOOLEAN
<1>1. CASE t.k \in {"id", "tuple", "struct", "ptr", "func", "dyn"}
  BY <1>1 DEF SizedBy
<1>2. CASE t.k \in {"parens", "mut", "array"}
  BY <1>2 DEF SizedBy
<1> QED BY Shape, <1>1, <1>2

LEMMA SizedDef ==
  \A t \in Type : sized[t] \in BOOLEAN /\ sized[t] = SizedBy(sized, t)
<1> DEFINE G == [f \in [Type -> BOOLEAN] |-> [x \in Type |-> SizedBy(f, x)]]
<1>1. G \in [[Type -> BOOLEAN] -> [Type -> BOOLEAN]]
  <2>1. ASSUME NEW f \in [Type -> BOOLEAN], NEW x \in Type PROVE SizedBy(f, x) \in BOOLEAN
    BY SizedByBoolean, Lower
  <2> QED BY <2>1
<1>2. ASSUME NEW f \in [Type -> BOOLEAN], NEW g \in [Type -> BOOLEAN], NEW x \in Type,
             \A y \in Type : height[y] < height[x] => f[y] = g[y]
      PROVE  G[f][x] = G[g][x]
  <2>1. SizedBy(f, x) = SizedBy(g, x)
    BY <1>2, SizedByLooksDown DEF SameBelow
  <2> QED BY <2>1
<1>3. LooksDown(G, Type, BOOLEAN, height)
  <2>1. \A f, g \in [Type -> BOOLEAN] : \A x \in Type :
          (\A y \in Type : height[y] < height[x] => f[y] = g[y]) => G[f][x] = G[g][x]
    BY <1>2
  <2> HIDE DEF G
  <2> QED BY <1>1, <2>1, PartsAssumption DEF LooksDown
<1>4. Solvable(G, Type, BOOLEAN)
  <2> HIDE DEF G
  <2> QED BY <1>3, RecursionExists
<1>5. \E f : f = [x \in Type |-> SizedBy(f, x)]
  BY <1>4 DEF Solvable
<1>6. sized = [x \in Type |-> SizedBy(sized, x)]
  BY <1>5 DEF sized, SizedBy
<1>7. \A t \in Type : sized[t] = SizedBy(sized, t)
  BY <1>6
<1> DEFINE P == {t \in Type : sized[t] \in BOOLEAN}
<1>8. ASSUME NEW t \in Type, \A u \in Type : height[u] < height[t] => u \in P
      PROVE  t \in P
  <2>1. t.k \in {"parens", "mut", "array"} => sized[t.t] \in BOOLEAN
    BY <1>8, Lower
  <2> QED BY <1>7, <2>1, SizedByBoolean
<1>9. Type \subseteq P
  <2> HIDE DEF P
  <2> QED BY <1>8, HeightInduction
<1> QED BY <1>7, <1>9

\* Mapping a type to whether each of its parts ends in an address, which is
\* where type_size stops.
endsInAddress[m \in Type] ==
  CASE m.k \in {"ptr", "func", "dyn"} -> TRUE
    [] m.k = "id"                     -> FALSE
    [] OTHER                          -> \A u \in Parts(m) : endsInAddress[u]

Ends(f, m) ==
  CASE m.k \in {"ptr", "func", "dyn"} -> TRUE
    [] m.k = "id"                     -> FALSE
    [] OTHER                          -> \A u \in Parts(m) : f[u]

LEMMA EndsDef ==
  \A t \in Type : /\ endsInAddress[t] \in BOOLEAN
                  /\ endsInAddress[t] <=> Ends(endsInAddress, t)
<1> DEFINE G == [f \in [Type -> BOOLEAN] |-> [x \in Type |-> Ends(f, x)]]
<1>0. \A f, x : Ends(f, x) \in BOOLEAN
  BY DEF Ends
<1>1. G \in [[Type -> BOOLEAN] -> [Type -> BOOLEAN]]
  BY <1>0
<1>2. ASSUME NEW f \in [Type -> BOOLEAN], NEW g \in [Type -> BOOLEAN], NEW x \in Type,
             \A y \in Type : height[y] < height[x] => f[y] = g[y]
      PROVE  G[f][x] = G[g][x]
  <2>1. \A u \in Parts(x) : f[u] = g[u]
    BY <1>2, PartsAssumption
  <2>2. Ends(f, x) <=> Ends(g, x)
    BY <2>1 DEF Ends
  <2> QED BY <1>0, <2>2
<1>3. LooksDown(G, Type, BOOLEAN, height)
  <2>1. \A f, g \in [Type -> BOOLEAN] : \A x \in Type :
          (\A y \in Type : height[y] < height[x] => f[y] = g[y]) => G[f][x] = G[g][x]
    BY <1>2
  <2> HIDE DEF G
  <2> QED BY <1>1, <2>1, PartsAssumption DEF LooksDown
<1>4. Solvable(G, Type, BOOLEAN)
  <2> HIDE DEF G
  <2> QED BY <1>3, RecursionExists
<1>5. \E f : f = [x \in Type |-> Ends(f, x)]
  BY <1>4 DEF Solvable
<1>6. endsInAddress = [x \in Type |-> Ends(endsInAddress, x)]
  BY <1>5 DEF endsInAddress, Ends
<1> QED BY <1>0, <1>6

\* type_size returns for a type exactly if all that it stands for leads to
\* an address.
LEMMA SizedMeaning ==
  \A t \in Type : sized[t] <=> endsInAddress[meaning[t]]
<1> DEFINE P == {t \in Type : sized[t] <=> endsInAddress[meaning[t]]}
<1>1. ASSUME NEW t \in Type, \A v \in Type : height[v] < height[t] => v \in P
      PROVE  t \in P
  <2> DEFINE m == meaning[t]
  <2>1. /\ sized[t] \in BOOLEAN /\ sized[t] = SizedBy(sized, t)
        /\ m \in Type
        /\ endsInAddress[m] <=> Ends(endsInAddress, m)
    BY SizedDef, EndsDef, MeaningHead
  <2>2. ASSUME NEW u \in Type, height[u] < height[t]
        PROVE  sized[u] <=> endsInAddress[meaning[u]]
    BY <1>1, <2>2
  <2>3. t.k \notin {"id", "parens"} => unaliased[t] = t
    BY UnaliasedStops DEF Followed
  <2> HIDE DEF P
  <2>4. SUFFICES sized[t] <=> endsInAddress[m]
    BY DEF P
  <2> HIDE DEF m
  <2>5. CASE t.k = "parens"
    <3>1. t.t \in Type /\ height[t.t] < height[t]
      BY <2>5, Lower
    <3>2. sized[t] = sized[t.t]
      BY <2>1, <2>5 DEF SizedBy
    <3>3. unaliased[t] = unaliased[t.t]
      BY <2>5, UnaliasedDef DEF Unalias
    <3>4. m = meaning[t.t]
      BY <3>1, <3>3, MeaningDef DEF m
    <3> QED BY <2>2, <3>1, <3>2, <3>4
  <2>6. CASE t.k = "id" /\ unaliased[t] = t
    <3>1. ~sized[t]
      BY <2>1, <2>6 DEF SizedBy
    <3>2. m = t
      BY <2>6, MeaningByKind DEF m
    <3>3. ~Ends(endsInAddress, m)
      BY <2>6, <3>2 DEF Ends
    <3> QED BY <2>1, <3>1, <3>3
  <2>7. CASE t.k = "id" /\ unaliased[t] # t
    <3>1. unaliased[t] \in Type /\ height[unaliased[t]] < height[t]
      BY <2>7, UnaliasedHead
    <3>2. sized[t] <=> sized[unaliased[t]]
      BY <2>1, <2>7 DEF SizedBy
    <3>3. m = meaning[unaliased[t]]
      BY MeaningHead DEF m
    <3> QED BY <2>2, <3>1, <3>2, <3>3
  <2>8. CASE t.k \in {"ptr", "func", "dyn"}
    <3>1. sized[t]
      BY <2>1, <2>8 DEF SizedBy
    <3>2. m.k = t.k
      BY <2>3, <2>8, MeaningByKind DEF m
    <3> QED BY <2>1, <2>8, <3>1, <3>2 DEF Ends
  <2>9. CASE t.k \in {"mut", "array"}
    <3>1. t.t \in Type /\ height[t.t] < height[t]
      BY <2>9, Lower
    <3>2. sized[t] = sized[t.t]
      BY <2>1, <2>9 DEF SizedBy
    <3>3. m.k = t.k
      BY <2>3, <2>9, MeaningByKind DEF m
    <3>4. m.t = meaning[t.t]
      <4>1. t.k = "mut" => m = [k |-> t.k, t |-> meaning[t.t]]
        BY <2>3, MeaningByKind DEF m
      <4>2. t.k = "array" => m = StaticArray(meaning[t.t], t.size)
        BY <2>3, MeaningByKind DEF m
      <4> QED BY <2>9, <4>1, <4>2 DEF StaticArray
    <3>5. Parts(m) = {meaning[t.t]}
      BY <2>9, <3>3, <3>4 DEF Parts
    <3>6. Ends(endsInAddress, m) <=> endsInAddress[meaning[t.t]]
      BY <2>9, <3>3, <3>5 DEF Ends
    <3> QED BY <2>1, <2>2, <3>1, <3>2, <3>6
  <2>10. CASE t.k = "tuple"
    <3>1. \A i \in DOMAIN t.ts : t.ts[i] \in Type /\ height[t.ts[i]] < height[t]
      BY <2>10, Lower
    <3>2. sized[t] <=> \A i \in DOMAIN t.ts : sized[t.ts[i]]
      BY <2>1, <2>10 DEF SizedBy
    <3>3. m = TupleType(Meanings(t.ts))
      BY <2>3, <2>10, MeaningByKind DEF m
    <3>4. m.k = "tuple" /\ m.ts = Meanings(t.ts)
      BY <3>3 DEF TupleType
    <3>5. Parts(m) = {meaning[t.ts[i]] : i \in DOMAIN t.ts}
      BY <3>4 DEF Parts, Meanings
    <3>6. Ends(endsInAddress, m) <=> \A i \in DOMAIN t.ts : endsInAddress[meaning[t.ts[i]]]
      BY <3>4, <3>5 DEF Ends
    <3>7. \A i \in DOMAIN t.ts : sized[t.ts[i]] <=> endsInAddress[meaning[t.ts[i]]]
      BY <2>2, <3>1
    <3> QED BY <2>1, <3>2, <3>6, <3>7
  <2>11. CASE t.k = "struct"
    <3>1. \A i \in DOMAIN t.ms : t.ms[i].type \in Type /\ height[t.ms[i].type] < height[t]
      BY <2>11, Lower
    <3>2. sized[t] <=> \A i \in DOMAIN t.ms : sized[t.ms[i].type]
      BY <2>1, <2>11 DEF SizedBy
    <3>3. m = StructType(MemberMeanings(t.ms))
      BY <2>3, <2>11, MeaningByKind DEF m
    <3>4. m.k = "struct" /\ m.ms = MemberMeanings(t.ms)
      BY <3>3 DEF StructType, StructWith
    <3>5. Parts(m) = {meaning[t.ms[i].type] : i \in DOMAIN t.ms}
      BY <3>4 DEF Parts, MemberMeanings
    <3>6. Ends(endsInAddress, m) <=> \A i \in DOMAIN t.ms : endsInAddress[meaning[t.ms[i].type]]
      BY <3>4, <3>5 DEF Ends
    <3>7. \A i \in DOMAIN t.ms : sized[t.ms[i].type] <=> endsInAddress[meaning[t.ms[i].type]]
      BY <2>2, <3>1
    <3> QED BY <2>1, <3>2, <3>6, <3>7
  <2> QED BY Shape, <2>5, <2>6, <2>7, <2>8, <2>9, <2>10, <2>11
<1>2. Type \subseteq P
  <2> HIDE DEF P
  <2> QED BY <1>1, HeightInduction
<1> QED BY <1>2

-----------------------------------------------------------------------------
(* The machine.                                                            *)

\* The inductive invariant: the type name and the operands are types.
TypesInv ==
  /\ typ \in Type
  /\ operands \in Seq(Type)

LEMMA InitTypes == Init => TypesInv
BY NamesAssumption DEF Init, TypesInv

\* A constructor leaves the operands, and what it builds is a type.
LEMMA BuildTypes ==
  ASSUME TypesInv, NEW r, Build(r)
  PROVE  TypesInv'
<1>1. CASE ~IsType(r) /\ Fails(r)
  BY <1>1 DEF Fails, TypesInv
<1>2. CASE IsType(r) /\ Fits(r, operands) /\ typ' = r /\ UNCHANGED <<operands, status>>
  BY <1>2 DEF Fits, TypesInv
<1> QED BY <1>1, <1>2 DEF Build

LEMMA GiveTypes ==
  ASSUME TypesInv, NEW n \in Nat, n <= Len(operands), NEW r, NEW t, GiveAndWrite(n, r, t)
  PROVE  TypesInv'
<1> DEFINE kept == SubSeq(operands, 1, Len(operands) - n)
           held == Append(kept, r)
<1>1. CASE ~IsType(r) /\ Fails(r)
  BY <1>1 DEF Fails, TypesInv
<1>2. CASE IsType(r) /\ Fits(t, held) /\ operands' = held /\ typ' = t /\ UNCHANGED status
  <2>1. kept \in Seq(Type)
    BY DEF TypesInv
  <2>2. held[Len(held)] = r /\ Len(held) \in DOMAIN held
    <3> HIDE DEF kept
    <3> QED BY <2>1
  <2>3. r \in Range(held)
    <3> HIDE DEF held
    <3> QED BY <2>2 DEF Range
  <2> HIDE DEF kept
  <2>4. r \in Type /\ t \in Type
    BY <1>2, <2>3 DEF Fits
  <2> QED BY <1>2, <2>1, <2>4 DEF TypesInv
<1> QED BY <1>1, <1>2 DEF GiveAndWrite

LEMMA NextTypes ==
  ASSUME TypesInv, Next
  PROVE  TypesInv'
<1>1. CASE Name
  BY <1>1, BuildTypes DEF Name
<1>2. CASE InParens
  BY <1>2, BuildTypes DEF InParens
<1>3. CASE Pointer
  BY <1>3, BuildTypes DEF Pointer
<1>4. CASE Mutable
  BY <1>4, BuildTypes DEF Mutable
<1>5. CASE Plural
  BY <1>5, BuildTypes DEF Plural
<1>6. CASE Sized
  BY <1>6, BuildTypes DEF Sized
<1>7. CASE Tuple
  BY <1>7, BuildTypes DEF Tuple
<1>8. CASE Function
  BY <1>8, BuildTypes DEF Function
<1>9. CASE Struct
  BY <1>9, BuildTypes DEF Struct
<1>10. Len(operands) \in Nat
  BY DEF TypesInv
<1>11. ASSUME NEW n \in {0, 1, 2}, Has(n), NEW r, Give(n, r) PROVE TypesInv'
  BY <1>10, <1>11, GiveTypes DEF Give, Has
<1>12. Has(0)
  BY <1>10 DEF Has
<1>13. CASE Literal
  BY <1>11, <1>12, <1>13 DEF Literal
<1>14. CASE Variable
  BY <1>10, <1>14, GiveTypes DEF Variable
<1>15. CASE Callee
  BY <1>11, <1>12, <1>15 DEF Callee
<1>16. CASE Math
  BY <1>11, <1>16 DEF Math
<1>17. CASE Bool
  BY <1>11, <1>17 DEF Bool
<1>18. CASE Logical
  BY <1>11, <1>18 DEF Logical
<1>19. CASE Call
  BY <1>11, <1>19 DEF Call
<1>20. CASE TupleExpr
  BY <1>11, <1>20 DEF TupleExpr
<1>21. CASE ArrayLit
  BY <1>11, <1>21 DEF ArrayLit
<1>22. CASE AddrOf
  BY <1>11, <1>22 DEF AddrOf
<1>23. CASE Deref
  BY <1>11, <1>23 DEF Deref
<1>24. CASE Cast
  BY <1>11, <1>24 DEF Cast
<1>25. CASE Bang
  BY <1>11, <1>25 DEF Bang
<1>26. CASE StructLit
  BY <1>11, <1>26 DEF StructLit
<1>27. CASE Member
  BY <1>11, <1>27 DEF Member
<1>28. CASE Index
  BY <1>11, <1>28 DEF Index
<1> QED
  BY <1>1, <1>2, <1>3, <1>4, <1>5, <1>6, <1>7, <1>8, <1>9, <1>13, <1>14, <1>15, <1>16, <1>17,
     <1>18, <1>19, <1>20, <1>21, <1>22, <1>23, <1>24, <1>25, <1>26, <1>27, <1>28 DEF Next

\* Every type name and every operand is a type that has been considered.
THEOREM TypesInvariant == Spec => []TypesInv
<1>1. TypesInv /\ [Next]_vars => TypesInv'
  <2>1. TypesInv /\ UNCHANGED vars => TypesInv'
    BY DEF TypesInv, vars
  <2> QED BY <2>1, NextTypes
<1> QED BY <1>1, InitTypes, PTL DEF Spec

-----------------------------------------------------------------------------
(* The properties.                                                         *)

LEMMA OperandsAreTypes ==
  ASSUME TypesInv
  PROVE  /\ Has(1) => Top \in Type
         /\ Has(2) => Below \in Type
<1>1. operands \in Seq(Type) /\ Len(operands) \in Nat
  BY DEF TypesInv
<1>2. Has(1) => Len(operands) \in DOMAIN operands /\ Top = operands[Len(operands)]
  BY <1>1 DEF Has, Top, Last
<1>3. Has(2) => Len(operands) - 1 \in DOMAIN operands
  BY <1>1 DEF Has
<1> QED BY <1>1, <1>2, <1>3 DEF Below

\* type_equals is equality of what types stand for, in every state, whatever
\* names are declared.
THEOREM EqualityTheorem == Spec => []EqualityIsMeaning
<1>1. TypesInv => EqualityIsMeaning
  BY OperandsAreTypes, EqualsMeaning DEF EqualityIsMeaning, Equals, Meaning, TypesInv
<1> QED BY <1>1, TypesInvariant, PTL

\* can_cast_to does not depend on how the two types are written.
THEOREM CastTheorem == Spec => []CastRespectsMeaning
<1>1. TypesInv => CastRespectsMeaning
  BY OperandsAreTypes, CastRespects DEF CastRespectsMeaning, CanCast, Meaning, TypesInv
<1> QED BY <1>1, TypesInvariant, PTL

\* The types that the constructors of tuples and structs fail on, which
\* ConstructorsReturn shows there to be: those that stand for a primitive or
\* have one among their parts, at any depth, with no address in between.
THEOREM AddressesTheorem ==
  \A t \in Type, name \in STRING, decls \in {"source", "own"} :
    /\ NewTuple(<<t>>) = Never <=> ~endsInAddress[Meaning(t)]
    /\ NewStruct(<<[name |-> name, type |-> t]>>, decls) = Never <=> ~endsInAddress[Meaning(t)]
<1> SUFFICES ASSUME NEW t \in Type, NEW name \in STRING, NEW decls \in {"source", "own"}
             PROVE  /\ NewTuple(<<t>>) = Never <=> ~endsInAddress[Meaning(t)]
                    /\ NewStruct(<<[name |-> name, type |-> t]>>, decls) = Never
                         <=> ~endsInAddress[Meaning(t)]
  OBVIOUS
<1>1. sized[t] <=> endsInAddress[meaning[t]]
  BY SizedMeaning
<1>2. NewTuple(<<t>>) # Never <=> sized[t]
  BY DEF NewTuple, TupleType, Never, HasSize
<1>3. NewStruct(<<[name |-> name, type |-> t]>>, decls) # Never <=> sized[t]
  BY DEF NewStruct, StructWith, Never, HasSize
<1> QED BY <1>1, <1>2, <1>3 DEF Meaning

-----------------------------------------------------------------------------
(* The rules.                                                              *)

\* A rule's failure is no type.
LEMMA ErrorIsNoType == Error \notin Type
BY Shape DEF Error

\* The primitives stand for themselves.
LEMMA Primitive ==
  ASSUME NEW p \in {IntT, FloatT, BoolT}
  PROVE  p \in Type /\ meaning[p] = p /\ p.k = "id"
<1>1. p \in Type /\ p.k = "id" /\ p.n \notin DOMAIN AliasOf \cup DOMAIN StructOf
  BY NamesAssumption DEF IntT, FloatT, BoolT, TypeIdent
<1>2. unaliased[p] = p
  BY <1>1, UnaliasedStops DEF Followed
<1> QED BY <1>1, <1>2, MeaningByKind

\* base_type gives the value's type unless an alias hides a `mut` from it,
\* in which case it gives the `mut`.
LEMMA BaseMeans ==
  ASSUME NEW t \in Type
  PROVE  /\ BaseType(t) \in Type
         /\ ~HidesMut(t) => meaning[BaseType(t)] = Value(t)
         /\ HidesMut(t) => BaseType(t) = t /\ meaning[BaseType(t)].k = "mut"
<1>1. meaning[t].k = unaliased[t].k
  BY MeaningByKind
<1>2. CASE t.k = "mut"
  <2>1. t.t \in Type
    BY <1>2, Lower
  <2>2. unaliased[t] = t
    BY <1>2, UnaliasedStops DEF Followed
  <2>3. meaning[t] = [k |-> t.k, t |-> meaning[t.t]]
    BY <1>2, <2>2, MeaningByKind
  <2>4. BaseType(t) = unaliased[t.t] /\ unaliased[t.t] \in Type /\ meaning[unaliased[t.t]] = meaning[t.t]
    BY <1>2, <2>1, UnaliasedHead, MeaningHead DEF BaseType, Unaliased
  <2>5. Value(t) = meaning[t.t]
    BY <1>2, <2>3 DEF Value, Meaning
  <2> QED BY <1>2, <2>4, <2>5 DEF HidesMut
<1>3. CASE t.k # "mut"
  BY <1>1, <1>3 DEF BaseType, HidesMut, Value, Meaning, Unaliased
<1> QED BY <1>2, <1>3

\* So comparing it with a primitive is comparing the value's type.
LEMMA BaseIs ==
  ASSUME NEW t \in Type, NEW p \in {IntT, FloatT, BoolT}
  PROVE  Equals(BaseType(t), p) <=> ~HidesMut(t) /\ Value(t) = p
<1>1. p \in Type /\ meaning[p] = p /\ p.k = "id"
  BY Primitive
<1>2. BaseType(t) \in Type
  BY BaseMeans
<1>3. Equals(BaseType(t), p) <=> meaning[BaseType(t)] = p
  BY <1>1, <1>2, EqualsRespects
<1> QED BY <1>1, <1>3, BaseMeans

LEMMA MathExact ==
  ASSUME NEW s \in Type, NEW t \in Type, NEW op
  PROVE  \/ MathRule(op, s, t) = Arithmetic(op, Value(s), Value(t))
         \/ MathRule(op, s, t) = Error /\ (HidesMut(s) \/ HidesMut(t))
<1>1. /\ Equals(BaseType(s), IntT) <=> ~HidesMut(s) /\ Value(s) = IntT
      /\ Equals(BaseType(s), FloatT) <=> ~HidesMut(s) /\ Value(s) = FloatT
      /\ Equals(BaseType(t), IntT) <=> ~HidesMut(t) /\ Value(t) = IntT
      /\ Equals(BaseType(t), FloatT) <=> ~HidesMut(t) /\ Value(t) = FloatT
  BY BaseIs
<1>2. IntT # FloatT
  BY DEF IntT, FloatT, TypeIdent
<1>3. CASE HidesMut(s) \/ HidesMut(t)
  BY <1>1, <1>3 DEF MathRule, IsNumeric
<1>4. CASE ~HidesMut(s) /\ ~HidesMut(t)
  BY <1>1, <1>2, <1>4 DEF MathRule, IsNumeric, Arithmetic
<1> QED BY <1>3, <1>4

LEMMA BoolExact ==
  ASSUME NEW s \in Type, NEW t \in Type
  PROVE  \/ BoolRule(s, t) = Comparison(Value(s) = BoolT /\ Value(t) = BoolT)
         \/ BoolRule(s, t) = Error /\ (HidesMut(s) \/ HidesMut(t))
<1>1. /\ Equals(BaseType(s), BoolT) <=> ~HidesMut(s) /\ Value(s) = BoolT
      /\ Equals(BaseType(t), BoolT) <=> ~HidesMut(t) /\ Value(t) = BoolT
  BY BaseIs
<1> QED BY <1>1 DEF BoolRule, Comparison

LEMMA LessExact ==
  ASSUME NEW s \in Type, NEW t \in Type
  PROVE  \/ LogicalRule("<", s, t) = Comparison({Value(s), Value(t)} \subseteq {IntT, FloatT})
         \/ LogicalRule("<", s, t) = Error /\ (HidesMut(s) \/ HidesMut(t))
<1>1. /\ Equals(BaseType(s), IntT) <=> ~HidesMut(s) /\ Value(s) = IntT
      /\ Equals(BaseType(s), FloatT) <=> ~HidesMut(s) /\ Value(s) = FloatT
      /\ Equals(BaseType(t), IntT) <=> ~HidesMut(t) /\ Value(t) = IntT
      /\ Equals(BaseType(t), FloatT) <=> ~HidesMut(t) /\ Value(t) = FloatT
  BY BaseIs
<1>2. LogicalRule("<", s, t) = IF IsNumeric(BaseType(s)) /\ IsNumeric(BaseType(t)) THEN BoolT ELSE Error
  BY DEF LogicalRule
<1> QED BY <1>1, <1>2 DEF IsNumeric, Comparison

LEMMA SameExact ==
  ASSUME NEW s \in Type, NEW t \in Type, ~HidesMut(s), ~HidesMut(t)
  PROVE  LogicalRule("==", s, t) = Comparison(Value(s) = Value(t))
<1>1. BaseType(s) \in Type /\ BaseType(t) \in Type
  BY BaseMeans
<1>2. meaning[BaseType(s)] = Value(s) /\ meaning[BaseType(t)] = Value(t)
  BY BaseMeans
<1>3. Equals(BaseType(s), BaseType(t)) <=> Value(s) = Value(t)
  BY <1>1, <1>2, EqualsRespects
<1>4. LogicalRule("==", s, t) = IF Equals(BaseType(s), BaseType(t)) THEN BoolT ELSE Error
  BY DEF LogicalRule
<1> QED BY <1>3, <1>4 DEF Comparison

LEMMA InExact ==
  ASSUME NEW s \in Type, NEW t \in Type, ~HidesMut(s), ~HidesArray(t)
  PROVE  LET l == Value(s)
             r == Value(t)
         IN  \/ LogicalRule("in", s, t) = Comparison(r.k = "array" /\ l = IF t.k = "mut" THEN r ELSE r.t)
             \/ LogicalRule("in", s, t) = Error /\ HidesMut(t)
<1>1. BaseType(s) \in Type /\ meaning[BaseType(s)] = Value(s)
  BY BaseMeans
<1>2. LogicalRule("in", s, t)
        = IF BaseType(t).k = "array" /\ Equals(BaseType(s), t.t) THEN BoolT ELSE Error
  BY DEF LogicalRule, InRule
<1>3. CASE t.k = "mut"
  <2>1. t.t \in Type
    BY <1>3, Lower
  <2>2. Equals(BaseType(s), t.t) <=> Value(s) = meaning[t.t]
    BY <1>1, <2>1, EqualsRespects
  <2>3. ~HidesMut(t)
    BY <1>3 DEF HidesMut
  <2>4. BaseType(t) = unaliased[t.t]
    BY <1>3 DEF BaseType, Unaliased
  <2>5. meaning[unaliased[t.t]] = meaning[t.t]
    BY <2>1, MeaningHead
  <2>6. Value(t) = meaning[t.t]
    BY <2>3, <2>4, <2>5, BaseMeans
  <2>7. BaseType(t).k = "array" <=> Value(t).k = "array"
    <3>1. meaning[t.t].k = unaliased[t.t].k
      BY <2>1, MeaningByKind
    <3> QED BY <2>4, <2>6, <3>1
  <2> QED BY <1>2, <1>3, <2>2, <2>6, <2>7 DEF Comparison
<1>4. CASE t.k = "array"
  <2>1. t.t \in Type /\ unaliased[t] = t
    BY <1>4, Lower, UnaliasedStops DEF Followed
  <2>2. Equals(BaseType(s), t.t) <=> Value(s) = meaning[t.t]
    BY <1>1, <2>1, EqualsRespects
  <2>3. meaning[t] = StaticArray(meaning[t.t], t.size)
    BY <1>4, <2>1, MeaningByKind
  <2>4. Value(t) = meaning[t] /\ Value(t).k = "array" /\ Value(t).t = meaning[t.t]
    BY <2>3 DEF Value, Meaning, StaticArray
  <2>5. BaseType(t).k = "array"
    BY <1>4 DEF BaseType
  <2> QED BY <1>2, <1>4, <2>2, <2>4, <2>5 DEF Comparison
<1>5. CASE t.k \notin {"mut", "array"}
  <2>1. BaseType(t).k # "array"
    BY <1>5 DEF BaseType
  <2>2. LogicalRule("in", s, t) = Error
    BY <1>2, <2>1
  <2>3. ~HidesMut(t) => Value(t).k # "array"
    <3>1. ~HidesMut(t) => Value(t) = meaning[t]
      BY <1>5, BaseMeans DEF BaseType
    <3>2. meaning[t].k = unaliased[t].k
      BY MeaningByKind
    <3> QED BY <1>5, <3>1, <3>2 DEF HidesArray, Unaliased
  <2> QED BY <2>2, <2>3 DEF Comparison
<1> QED BY <1>3, <1>4, <1>5

\* Every binary operator accepts exactly the operands that it is meant for.
THEOREM RulesTheorem == Spec => []RulesExact
<1>1. ASSUME TypesInv, Has(2), status = "running" PROVE RulesExact
  <2>1. Top \in Type /\ Below \in Type
    <3>1. Has(1)
      BY <1>1 DEF Has, TypesInv
    <3> QED BY <1>1, <3>1, OperandsAreTypes
  <2>2. \A op \in {"+", "%"} :
          \/ MathRule(op, Below, Top) = Arithmetic(op, Value(Below), Value(Top))
          \/ MathRule(op, Below, Top) = Error /\ (HidesMut(Below) \/ HidesMut(Top))
    BY <2>1, MathExact
  <2>3. \/ BoolRule(Below, Top) = Comparison(Value(Below) = BoolT /\ Value(Top) = BoolT)
        \/ BoolRule(Below, Top) = Error /\ (HidesMut(Below) \/ HidesMut(Top))
    BY <2>1, BoolExact
  <2>4. \/ LogicalRule("<", Below, Top) = Comparison({Value(Below), Value(Top)} \subseteq {IntT, FloatT})
        \/ LogicalRule("<", Below, Top) = Error /\ (HidesMut(Below) \/ HidesMut(Top))
    BY <2>1, LessExact
  <2>5. \/ HidesMut(Below) \/ HidesMut(Top)
        \/ LogicalRule("==", Below, Top) = Comparison(Value(Below) = Value(Top))
    BY <2>1, SameExact
  <2>6. \/ HidesMut(Below) \/ HidesArray(Top)
        \/ LogicalRule("in", Below, Top) =
             Comparison(Value(Top).k = "array" /\ Value(Below) = IF Top.k = "mut" THEN Value(Top) ELSE Value(Top).t)
        \/ LogicalRule("in", Below, Top) = Error /\ HidesMut(Top)
    BY <2>1, InExact
  <2> QED BY <2>2, <2>3, <2>4, <2>5, <2>6 DEF RulesExact
<1>2. TypesInv => RulesExact
  BY <1>1 DEF RulesExact
<1> QED BY <1>2, TypesInvariant, PTL
\* A pointer is followed to what it points to.
LEMMA DerefExact ==
  ASSUME NEW t \in Type
  PROVE  /\ DerefRule(t) # Error <=> t.k = "ptr"
         /\ t.k = "ptr" => meaning[t].k = "ptr" /\ meaning[DerefRule(t)] = meaning[t].t
<1>1. ASSUME t.k = "ptr"
      PROVE  DerefRule(t) # Error /\ meaning[t].k = "ptr" /\ meaning[DerefRule(t)] = meaning[t].t
  <2>1. t.t \in Type /\ unaliased[t] = t
    BY <1>1, Lower, UnaliasedStops DEF Followed
  <2>2. DerefRule(t) = cloned[unaliased[t.t]]
    BY <1>1 DEF DerefRule, Unaliased, Cloned
  <2>3. meaning[t] = [k |-> t.k, t |-> meaning[t.t]]
    BY <1>1, <2>1, MeaningByKind
  <2>4. meaning[unaliased[t.t]] = meaning[t.t] /\ unaliased[t.t] \in Type
    BY <2>1, MeaningHead, UnaliasedHead
  <2>5. cloned[unaliased[t.t]] \in Type /\ meaning[cloned[unaliased[t.t]]] = meaning[t.t]
    BY <2>4, ClonedMeans
  <2> QED BY <1>1, <2>2, <2>3, <2>5, ErrorIsNoType
<1>2. t.k # "ptr" => DerefRule(t) = Error
  BY DEF DerefRule
<1> QED BY <1>1, <1>2

\* An index gives an element, of an array, and takes whatever is an int.
LEMMA IndexExact ==
  ASSUME NEW s \in Type, NEW t \in Type
  PROVE  /\ IndexRule(s, t) # Error <=> s.k = "array" /\ Value(t) = IntT
         /\ s.k = "array" => meaning[s].k = "array"
         /\ IndexRule(s, t) # Error => meaning[IndexRule(s, t)] = meaning[s].t
<1>1. unaliased[t] \in Type /\ meaning[unaliased[t]] = meaning[t]
  BY UnaliasedHead, MeaningHead
<1>2. ~HidesMut(unaliased[t])
  BY UnaliasedTwice DEF HidesMut, Unaliased
<1>3. Value(unaliased[t]) = Value(t)
  BY <1>1 DEF Value, Meaning
<1>4. Equals(BaseType(unaliased[t]), IntT) <=> Value(t) = IntT
  BY <1>1, <1>2, <1>3, BaseIs
<1>5. IndexRule(s, t) = IF s.k = "array" /\ Value(t) = IntT THEN cloned[s.t] ELSE Error
  BY <1>4 DEF IndexRule, Unaliased, Cloned
<1>6. ASSUME s.k = "array"
      PROVE  cloned[s.t] # Error /\ meaning[s].k = "array" /\ meaning[cloned[s.t]] = meaning[s].t
  <2>1. s.t \in Type /\ unaliased[s] = s
    BY <1>6, Lower, UnaliasedStops DEF Followed
  <2>2. meaning[s] = StaticArray(meaning[s.t], s.size)
    <3>1. unaliased[s].k = "array" =>
            meaning[s] = StaticArray(meaning[unaliased[s].t], unaliased[s].size)
      BY MeaningByKind
    <3> QED BY <1>6, <2>1, <3>1
  <2>3. meaning[s].k = "array" /\ meaning[s].t = meaning[s.t]
    BY <2>2 DEF StaticArray
  <2>4. cloned[s.t] \in Type /\ meaning[cloned[s.t]] = meaning[s.t]
    BY <2>1, ClonedMeans
  <2> QED BY <2>3, <2>4, ErrorIsNoType
<1> QED BY <1>5, <1>6

\* A member's type is that of a declaration of its name, as long as there is
\* one that is not deleted.
LEMMA MemberExact ==
  ASSUME NEW t \in Type, t.k = "struct", NEW n, n \in Members(t)
  PROVE  IF t.decls = "deleted" THEN MemberRule(t, n) = Fault
         ELSE \E i \in DOMAIN t.ms :
                t.ms[i].name = n /\ meaning[MemberRule(t, n)] = meaning[t.ms[i].type]
<1> DEFINE I == {i \in 1..Len(t.ms) : t.ms[i].name = n}
<1>1. Len(t.ms) \in Nat /\ DOMAIN t.ms = 1..Len(t.ms)
  BY Shape
<1>2. I # {} /\ I \subseteq 1..Len(t.ms)
  BY <1>1 DEF Members
<1>3. PICK m \in I : \A i \in I : i <= m
  <2> HIDE DEF I
  <2>1. I \subseteq 0..Len(t.ms)
    BY <1>1, <1>2
  <2> QED BY <1>1, <1>2, <2>1, HasGreatest
<1>4. Max(I) \in I
  <2>1. \A i \in I : m >= i
    <3> HIDE DEF I
    <3>1. \A i \in I : i \in Nat
      BY <1>1, <1>2
    <3> QED BY <1>3, <3>1
  <2> HIDE DEF I
  <2> QED BY <2>1 DEF Max
<1>5. t.decls # "deleted" => MemberRule(t, n) = cloned[t.ms[Max(I)].type]
  BY <1>2 DEF MemberRule, SelectLastInSeq, Cloned
<1>6. t.ms[Max(I)].type \in Type
  BY <1>1, <1>4, Lower
<1>7. meaning[cloned[t.ms[Max(I)].type]] = meaning[t.ms[Max(I)].type]
  BY <1>6, ClonedMeans
<1>8. t.decls = "deleted" => MemberRule(t, n) = Fault
  BY DEF MemberRule
<1> QED BY <1>1, <1>4, <1>5, <1>7, <1>8

\* What is accepted after `*`, before `[` or after `.` has the type that is
\* declared there, although it is a clone of what is deleted at once; what a
\* literal's struct leaves behind is the one case in which a member is not
\* found.
THEOREM AccessTheorem == Spec => []AccessSound
<1>1. ASSUME TypesInv, Has(2), status = "running" PROVE AccessSound
  <2>1. Top \in Type /\ Below \in Type
    <3>1. Has(1)
      BY <1>1 DEF Has, TypesInv
    <3> QED BY <1>1, <3>1, OperandsAreTypes
  <2>2. ASSUME Top.k = "struct", NEW n \in Members(Top)
        PROVE  \/ Top.decls = "deleted" /\ MemberRule(Top, n) = Fault
               \/ \E i \in DOMAIN Top.ms :
                    Top.ms[i].name = n /\ Meaning(MemberRule(Top, n)) = Meaning(Top.ms[i].type)
    BY <2>1, <2>2, MemberExact DEF Meaning
  <2>3. DerefRule(Top) # Error =>
          Meaning(Top).k = "ptr" /\ Meaning(DerefRule(Top)) = Meaning(Top).t
    BY <2>1, DerefExact DEF Meaning
  <2>4. IndexRule(Below, Top) # Error =>
          Meaning(Below).k = "array" /\ Meaning(IndexRule(Below, Top)) = Meaning(Below).t
    BY <2>1, IndexExact DEF Meaning
  <2>5. Top.k = "ptr" => DerefRule(Top) # Error
    BY <2>1, DerefExact
  <2>6. (Below.k = "array" /\ Value(Top) = IntT) => IndexRule(Below, Top) # Error
    BY <2>1, IndexExact
  <2> QED BY <2>2, <2>3, <2>4, <2>5, <2>6 DEF AccessSound
<1>2. TypesInv => AccessSound
  BY <1>1 DEF AccessSound
<1> QED BY <1>2, TypesInvariant, PTL

-----------------------------------------------------------------------------
(* What the walk over statements assumes of types.                         *)

\* Typecheck's ComparisonAssumption, NameAssumption and MutAssumption hold of
\* the definitions here, for any types S of expressions and R of functions
\* of which none is an alias of a `mut`.
THEOREM WalkTheorem ==
  ASSUME NEW S \in SUBSET Type, NEW R \in SUBSET Type, \A t \in S : ~HidesMut(t)
  PROVE  LET compared == S \cup R \cup {BoolT} \cup {BaseType(t) : t \in S}
                           \cup {IdentRule(t) : t \in S} \cup {t.t : t \in {u \in S : u.k = "mut"}}
         IN  /\ \A t, u \in compared : Equals(t, u) <=> Meaning(t) = Meaning(u)
             /\ \A t \in S : Meaning(IdentRule(t)) = Meaning(t)
             /\ \A t \in S : /\ Meaning(t).k = "mut" <=> t.k = "mut"
                             /\ t.k = "mut" => Meaning(t) = Mut(Meaning(t.t))
                             /\ Meaning(BaseType(t)) = Value(t)
<1> DEFINE compared == S \cup R \cup {BoolT} \cup {BaseType(t) : t \in S}
                         \cup {IdentRule(t) : t \in S} \cup {t.t : t \in {u \in S : u.k = "mut"}}
<1>1. \A t \in S : BaseType(t) \in Type /\ Meaning(BaseType(t)) = Value(t)
  BY BaseMeans DEF Meaning
<1>2. \A t \in S : IdentRule(t) \in Type /\ Meaning(IdentRule(t)) = Meaning(t)
  BY UnaliasedHead, MeaningHead DEF IdentRule, Unaliased, Meaning
<1>3. ASSUME NEW t \in S
      PROVE  /\ Meaning(t).k = "mut" <=> t.k = "mut"
             /\ t.k = "mut" => t.t \in Type /\ Meaning(t) = Mut(Meaning(t.t))
  <2>1. ASSUME t.k = "mut" PROVE t.t \in Type /\ meaning[t] = Mut(meaning[t.t])
    <3>1. t.t \in Type /\ unaliased[t] = t
      BY <2>1, Lower, UnaliasedStops DEF Followed
    <3>2. unaliased[t].k = "mut" => meaning[t] = [k |-> unaliased[t].k, t |-> meaning[unaliased[t].t]]
      BY MeaningByKind
    <3> QED BY <2>1, <3>1, <3>2 DEF Mut
  <2>2. meaning[t].k = unaliased[t].k
    BY MeaningByKind
  <2>3. t.k # "mut" => unaliased[t].k # "mut"
    BY DEF HidesMut, Unaliased
  <2>4. t.k = "mut" => meaning[t].k = "mut"
    BY <2>1 DEF Mut
  <2> QED BY <2>1, <2>2, <2>3, <2>4 DEF Meaning
<1>4. compared \subseteq Type
  BY <1>1, <1>2, <1>3, Primitive
<1>5. \A t, u \in compared : Equals(t, u) <=> Meaning(t) = Meaning(u)
  <2> HIDE DEF compared
  <2> QED BY <1>4, EqualsMeaning DEF Equals, Meaning
<1> QED BY <1>1, <1>2, <1>3, <1>5
=============================================================================
