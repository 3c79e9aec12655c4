----------------------------- MODULE Recursion -----------------------------
(***************************************************************************)
(* Functions defined by recursion on data, such as types and trees: a      *)
(* function whose value at t depends on its values at what t is made of    *)
(* satisfies its definition, if every t has a height, a natural number     *)
(* above that of what it is made of. The height also serves for induction. *)
(* What recursion on numbers and finite sets needs is in the library; its  *)
(* theorems for other sets take an operator as a parameter.                *)
(***************************************************************************)
EXTENDS Integers, WellFoundedInduction, TLAPS

-----------------------------------------------------------------------------
(* Least and greatest elements.                                            *)

\* A set of natural numbers that is not empty has a least element.
LEMMA HasLeast ==
  ASSUME NEW S, S \subseteq Nat, S # {}
  PROVE  \E m \in S : \A x \in S : m <= x
<1> DEFINE R == OpToRel(<, Nat)
<1>1. IsWellFoundedOn(R, Nat)
  BY NatLessThanWellFounded
<1>2. \A a, b \in Nat : a < b => <<a, b>> \in R
  BY Zenon DEF OpToRel
<1> HIDE DEF R
<1>3. PICK m \in S : \A x \in S : ~(<<x, m>> \in R)
  BY <1>1, WFMin
<1>4. \A x \in S : ~(x < m)
  BY <1>2, <1>3
<1>5. \A x \in S : m <= x
  BY <1>4
<1> QED BY <1>5

\* A set of numbers up to N that is not empty has a greatest element.
LEMMA HasGreatest ==
  ASSUME NEW N \in Nat, NEW S, S \subseteq 0..N, S # {}
  PROVE  \E m \in S : \A t \in S : t <= m
<1> DEFINE T == {N - s : s \in S}
<1>1. PICK x \in T : \A y \in T : x <= y
  <2>1. \A s \in S : N - s \in Nat
    OBVIOUS
  <2>2. PICK s \in S : TRUE
    OBVIOUS
  <2>3. T \subseteq Nat /\ T # {}
    BY <2>1, <2>2
  <2> HIDE DEF T
  <2> QED BY <2>3, HasLeast
<1>2. PICK m \in S : x = N - m
  BY <1>1
<1>3. \A s \in S : N - m <= N - s
  BY <1>1, <1>2
<1>4. \A s \in S : s \in Nat
  OBVIOUS
<1> HIDE DEF T
<1> QED BY <1>3, <1>4

\* A set that is not empty has an element of least height.
LEMMA LeastHeight ==
  ASSUME NEW T, NEW h, \A t \in T : h[t] \in Nat, T # {}
  PROVE  \E t \in T : \A u \in T : h[t] <= h[u]
<1> DEFINE H == {h[t] : t \in T}
<1>1. H \subseteq Nat /\ H # {}
  OBVIOUS
<1>2. PICK x \in H : \A y \in H : x <= y
  <2> HIDE DEF H
  <2> QED BY <1>1, HasLeast
<1>3. PICK t \in T : x = h[t]
  BY <1>2
<1> QED BY <1>2, <1>3

-----------------------------------------------------------------------------
(* Recursion and induction along a height.                                 *)

\* G gives a function's value from its values at lower arguments.
LooksDown(G, S, V, h) ==
  /\ V # {}
  /\ h \in [S -> Nat]
  /\ G \in [[S -> V] -> [S -> V]]
  /\ \A f, g \in [S -> V] : \A t \in S :
       (\A u \in S : h[u] < h[t] => f[u] = g[u]) => G[f][t] = G[g][t]

Solvable(G, S, V) == \E f \in [S -> V] : f = G[f]

\* Such an equation has a solution.
LEMMA RecursionExists ==
  ASSUME NEW S, NEW V, NEW h, NEW G, LooksDown(G, S, V, h)
  PROVE  Solvable(G, S, V)
<1> USE DEF LooksDown
<1> PICK v \in V : TRUE
  OBVIOUS
<1> DEFINE Good(n) == {f \in [S -> V] : \A t \in S : h[t] < n => f[t] = G[f][t]}
\* Two functions that solve it below n agree there.
<1>1. ASSUME NEW n \in Nat, NEW f \in Good(n), NEW g \in Good(n), NEW t \in S, h[t] < n
      PROVE  f[t] = g[t]
  <2> DEFINE T == {u \in S : h[u] < n /\ f[u] # g[u]}
  <2>1. SUFFICES ASSUME T # {} PROVE FALSE
    BY <1>1
  <2>2. PICK x \in T : \A u \in T : h[x] <= h[u]
    <3>1. \A u \in T : h[u] \in Nat
      OBVIOUS
    <3> HIDE DEF T
    <3> QED BY <2>1, <3>1, LeastHeight
  <2>3. x \in S /\ h[x] < n /\ f[x] # g[x]
    BY <2>2
  <2>4. ASSUME NEW u \in S, h[u] < h[x] PROVE f[u] = g[u]
    <3>1. h[u] \in Nat /\ h[x] \in Nat
      BY <2>3
    <3>2. h[u] < n /\ u \notin T
      BY <2>2, <2>3, <2>4, <3>1
    <3> QED BY <3>2
  <2>5. f \in [S -> V] /\ g \in [S -> V]
    OBVIOUS
  <2>6. G[f][x] = G[g][x]
    BY <2>3, <2>4, <2>5
  <2>7. f[x] = G[f][x] /\ g[x] = G[g][x]
    BY <2>3
  <2> QED BY <2>3, <2>6, <2>7
\* There is one that solves it below n.
<1>2. ASSUME NEW n \in Nat PROVE Good(n) # {}
  <2> DEFINE T == {m \in Nat : Good(m) = {}}
             id == [m \in Nat |-> m]
  <2>1. SUFFICES ASSUME T # {} PROVE FALSE
    <3>1. Good(n) = {} => n \in T
      <4> HIDE DEF Good
      <4> QED OBVIOUS
    <3> HIDE DEF T, Good
    <3> QED BY <3>1
  <2>2. PICK m \in T : \A u \in T : id[m] <= id[u]
    <3>1. \A u \in T : id[u] \in Nat
      OBVIOUS
    <3> HIDE DEF T, id
    <3> QED BY <2>1, <3>1, LeastHeight
  <2>3. m \in Nat /\ Good(m) = {}
    BY <2>2
  <2>4. m # 0
    <3>1. [t \in S |-> v] \in Good(0)
      OBVIOUS
    <3> QED BY <2>3, <3>1
  <2>5. m - 1 \in Nat /\ m - 1 \notin T
    BY <2>2, <2>3, <2>4
  <2>6. PICK f \in [S -> V] : f \in Good(m - 1)
    BY <2>5
  <2>7. G[f] \in [S -> V]
    BY <2>6
  <2>8. ASSUME NEW t \in S, h[t] < m PROVE G[f][t] = G[G[f]][t]
    <3>1. ASSUME NEW u \in S, h[u] < h[t] PROVE f[u] = G[f][u]
      <4>1. h[u] \in Nat /\ h[t] \in Nat
        OBVIOUS
      <4>2. h[u] < m - 1
        BY <2>3, <2>8, <3>1, <4>1
      <4> QED BY <2>6, <4>2
    <3> QED BY <2>6, <2>7, <3>1
  <2>9. G[f] \in Good(m)
    BY <2>7, <2>8
  <2> QED BY <2>3, <2>9
\* They are put together.
<1> DEFINE Of(t) == CHOOSE f : f \in Good(h[t] + 1)
           F == [t \in S |-> Of(t)[t]]
<1>3. ASSUME NEW t \in S PROVE Of(t) \in Good(h[t] + 1)
  <2>1. h[t] + 1 \in Nat
    OBVIOUS
  <2>2. \E f : f \in Good(h[t] + 1)
    <3> HIDE DEF Good
    <3> QED BY <1>2, <2>1
  <2> HIDE DEF Good
  <2> QED BY <2>2, Zenon
<1>4. ASSUME NEW t \in S PROVE Of(t) \in [S -> V] /\ Of(t)[t] = G[Of(t)][t]
  <2>1. Of(t) \in Good(h[t] + 1)
    BY <1>3
  <2> HIDE DEF Of
  <2> QED BY <2>1
<1>5. F \in [S -> V]
  <2>1. \A t \in S : Of(t)[t] \in V
    <3> HIDE DEF Of
    <3> QED BY <1>4
  <2> HIDE DEF Of
  <2> QED BY <2>1
<1>6. ASSUME NEW t \in S, NEW u \in S, h[u] < h[t] PROVE F[u] = Of(t)[u]
  <2>1. Of(t) \in Good(h[t] + 1) /\ Of(u) \in Good(h[u] + 1)
    BY <1>3
  <2>2. h[t] \in Nat /\ h[u] \in Nat
    OBVIOUS
  <2>3. Of(t) \in Good(h[u] + 1)
    <3> HIDE DEF Of
    <3>1. Of(t) \in [S -> V] /\ \A w \in S : h[w] < h[t] + 1 => Of(t)[w] = G[Of(t)][w]
      BY <2>1
    <3>2. \A w \in S : h[w] < h[u] + 1 => h[w] < h[t] + 1
      <4>1. \A w \in S : h[w] \in Nat
        OBVIOUS
      <4> QED BY <1>6, <2>2, <4>1
    <3> QED BY <3>1, <3>2
  <2>4. h[u] < h[u] + 1 /\ h[u] + 1 \in Nat
    BY <2>2
  <2>5. Of(u)[u] = Of(t)[u]
    <3> HIDE DEF Good, Of
    <3> QED BY <1>1, <2>1, <2>3, <2>4
  <2> HIDE DEF Good, Of
  <2> QED BY <2>5
<1>7. ASSUME NEW t \in S PROVE F[t] = G[F][t]
  <2>1. F[t] = Of(t)[t]
    <3> HIDE DEF Of
    <3> QED OBVIOUS
  <2>2. G[F][t] = G[Of(t)][t]
    <3> HIDE DEF F, Of
    <3> QED BY <1>4, <1>5, <1>6
  <2> QED BY <1>4, <2>1, <2>2
<1>8. F = G[F]
  <2>1. G[F] \in [S -> V]
    <3> HIDE DEF F
    <3> QED BY <1>5
  <2> HIDE DEF F
  <2> QED BY <1>5, <1>7, <2>1
<1> HIDE DEF F
<1> QED BY <1>5, <1>8 DEF Solvable

\* What holds of t if it holds of everything lower holds of everything.
LEMMA DescentInduction ==
  ASSUME NEW S, NEW h, NEW P, \A t \in S : h[t] \in Nat,
         \A t \in S : (\A u \in S : h[u] < h[t] => u \in P) => t \in P
  PROVE  S \subseteq P
<1> DEFINE T == {t \in S : t \notin P}
<1>1. SUFFICES ASSUME T # {} PROVE FALSE
  OBVIOUS
<1>2. \A t \in T : h[t] \in Nat
  OBVIOUS
<1>3. PICK t \in T : \A u \in T : h[t] <= h[u]
  <2> HIDE DEF T
  <2> QED BY <1>1, <1>2, LeastHeight
<1>4. ASSUME NEW u \in S, h[u] < h[t] PROVE u \in P
  <2>1. h[u] \in Nat /\ h[t] \in Nat
    OBVIOUS
  <2> QED BY <1>3, <1>4, <2>1
<1> QED BY <1>4
=============================================================================
