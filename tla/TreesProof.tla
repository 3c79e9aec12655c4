----------------------------- MODULE TreesProof -----------------------------
(***************************************************************************)
(* Proofs about Trees for every program: the dump is the tree, breadth     *)
(* first, and the built-in functions outlive the program they are from.    *)
(*                                                                         *)
(* The nodes written and those in the queue make up one line, in which a   *)
(* step moves the border and which it only makes longer. What holds of the *)
(* dump is stated of a line A, of which the first n nodes are written, the *)
(* edges E and the root t, so that a step of the line is reasoned about    *)
(* apart from the queue.                                                   *)
(***************************************************************************)
EXTENDS TreeFind, Recursion, SequenceTheorems, TLAPS

-----------------------------------------------------------------------------
(* Lines.                                                                  *)

Item == [node : NodeSet, place : Seq(Nat), id : Nat]

Depth(item) == Len(item.place)

\* c is the k-th child of p.
IsKid(c, p, k) ==
  k \in DOMAIN p.node.kids /\ c.node = p.node.kids[k] /\ c.place = Append(p.place, k)

IsLine(A, n, t) ==
  /\ A \in Seq(Item) /\ n \in 0..Len(A) /\ Len(A) >= 1
  /\ A[1].node = t /\ A[1].place = <<>>

IdsInOrder(A) == \A i \in 1..Len(A) : A[i].id = i - 1

NoneTwice(A) == \A i, j \in 1..Len(A) : A[i].place = A[j].place => i = j

HasParent(A, n) ==
  \A j \in 2..Len(A) : \E i \in 1..n : i < j /\ \E k \in DOMAIN A[i].node.kids : IsKid(A[j], A[i], k)

HasKids(A, n, E) ==
  \A i \in 1..n : \A k \in DOMAIN A[i].node.kids :
    \E j \in 1..Len(A) : IsKid(A[j], A[i], k) /\ <<i - 1, j - 1>> \in E

OnlyKids(A, n, E) ==
  \A e \in E : \E i \in 1..n, j \in 1..Len(A) :
    i < j /\ e = <<i - 1, j - 1>> /\ \E k \in DOMAIN A[i].node.kids : IsKid(A[j], A[i], k)

\* What waits is at most one level below what is next.
ByDepth(A, n) ==
  /\ \A i, j \in 1..Len(A) : i <= j => Depth(A[i]) <= Depth(A[j])
  /\ n < Len(A) => \A j \in 1..Len(A) : Depth(A[j]) <= Depth(A[n + 1]) + 1

LineInv(A, n, E, t) ==
  /\ IsLine(A, n, t) /\ IdsInOrder(A) /\ NoneTwice(A)
  /\ HasParent(A, n) /\ HasKids(A, n, E) /\ OnlyKids(A, n, E) /\ ByDepth(A, n)

\* The children of p, of which the first has id m.
Kids(p, m) == [k \in DOMAIN p.node.kids |-> WithId(p.node.kids[k], Append(p.place, k), m + k - 1)]

\* What a longer place is made of.
LEMMA AppendIndex ==
  ASSUME NEW p \in Seq(Nat), NEW i \in Nat
  PROVE  /\ Len(Append(p, i)) = Len(p) + 1
         /\ \A m \in 1..Len(p) : Append(p, i)[m] = p[m]
         /\ Append(p, i)[Len(p) + 1] = i
BY AppendProperties

\* A longer place is made of a shorter one in one way.
LEMMA AppendUnique ==
  ASSUME NEW p \in Seq(Nat), NEW q \in Seq(Nat), NEW i \in Nat, NEW j \in Nat,
         Append(p, i) = Append(q, j)
  PROVE  p = q /\ i = j
<1> DEFINE r == Append(p, i)
<1>1. Len(r) = Len(p) + 1 /\ (\A m \in 1..Len(p) : r[m] = p[m]) /\ r[Len(p) + 1] = i
  BY AppendIndex
<1>2. Len(r) = Len(q) + 1 /\ (\A m \in 1..Len(q) : r[m] = q[m]) /\ r[Len(q) + 1] = j
  <2>1. /\ Len(Append(q, j)) = Len(q) + 1 /\ (\A m \in 1..Len(q) : Append(q, j)[m] = q[m])
        /\ Append(q, j)[Len(q) + 1] = j
    BY AppendIndex
  <2> QED BY <2>1
<1> HIDE DEF r
<1>3. Len(p) \in Nat /\ Len(q) \in Nat
  OBVIOUS
<1>4. Len(p) = Len(q)
  BY <1>1, <1>2, <1>3
<1>5. \A m \in 1..Len(p) : p[m] = q[m]
  BY <1>1, <1>2, <1>4
<1> QED BY <1>1, <1>2, <1>4, <1>5, SeqEqual

\* The children of a node are items, each one level below it.
LEMMA KidsAreItems ==
  ASSUME NEW p \in Item, NEW m \in Nat
  PROVE  LET K == Kids(p, m)
         IN  /\ K \in Seq(Item) /\ Len(K) = Len(p.node.kids)
             /\ p.node.kids \in Seq(NodeSet)
             /\ \A k \in 1..Len(K) : /\ IsKid(K[k], p, k) /\ K[k].id = m + k - 1
                                     /\ Depth(K[k]) = Depth(p) + 1
<1> DEFINE K == Kids(p, m)
<1>1. p.node \in NodeSet /\ p.place \in Seq(Nat)
  BY DEF Item
<1>2. p.node.kids \in Seq(NodeSet)
  BY <1>1, NodesAssumption
<1>3. DOMAIN p.node.kids = 1..Len(p.node.kids) /\ Len(p.node.kids) \in Nat
  BY <1>2
<1>4. ASSUME NEW k \in 1..Len(p.node.kids)
      PROVE  /\ K[k] \in Item /\ K[k].node = p.node.kids[k] /\ K[k].place = Append(p.place, k)
             /\ K[k].id = m + k - 1 /\ Depth(K[k]) = Depth(p) + 1
  <2>1. K[k] = WithId(p.node.kids[k], Append(p.place, k), m + k - 1)
    BY <1>3 DEF Kids
  <2>2. p.node.kids[k] \in NodeSet /\ k \in Nat /\ m + k - 1 \in Nat
    BY <1>2, <1>3
  <2>3. Append(p.place, k) \in Seq(Nat) /\ Len(Append(p.place, k)) = Len(p.place) + 1
    BY <1>1, <2>2
  <2> HIDE DEF K
  <2> QED BY <2>1, <2>2, <2>3 DEF WithId, Item, Depth
<1>5. DOMAIN K = 1..Len(p.node.kids)
  BY <1>3 DEF Kids
<1>6. K = [k \in 1..Len(p.node.kids) |-> K[k]]
  BY <1>3 DEF Kids
<1> HIDE DEF K
<1>7. K \in Seq(Item) /\ Len(K) = Len(p.node.kids)
  <2>1. K \in [1..Len(p.node.kids) -> Item]
    BY <1>4, <1>6
  <2> QED BY <1>3, <2>1
<1> QED BY <1>2, <1>3, <1>4, <1>7 DEF IsKid, K

\* A line stays one when its next node is written: its children, which are
\* nowhere yet, go to the end, with the edges to them.
LEMMA LineGrows ==
  ASSUME NEW A, NEW n, NEW E, NEW t, LineInv(A, n, E, t), n < Len(A)
  PROVE  LET K == Kids(A[n + 1], Len(A))
             F == E \cup {<<n, Len(A) + k - 1>> : k \in 1..Len(K)}
         IN  LineInv(A \o K, n + 1, F, t)
<1> DEFINE p == A[n + 1]
           L == Len(A)
           K == Kids(p, L)
           B == A \o K
           F == E \cup {<<n, L + k - 1>> : k \in 1..Len(K)}
<1>1. A \in Seq(Item) /\ L \in Nat /\ n \in Nat /\ n + 1 \in 1..L
  BY DEF LineInv, IsLine
<1>2. p \in Item
  BY <1>1
<1>3. /\ K \in Seq(Item) /\ Len(K) \in Nat /\ Len(K) = Len(p.node.kids)
      /\ p.node.kids \in Seq(NodeSet)
      /\ \A k \in 1..Len(K) : IsKid(K[k], p, k) /\ K[k].id = L + k - 1 /\ Depth(K[k]) = Depth(p) + 1
  <2> HIDE DEF p, L
  <2> QED BY <1>1, <1>2, KidsAreItems
<1> HIDE DEF K
<1>4. /\ B \in Seq(Item) /\ Len(B) = L + Len(K)
      /\ \A i \in 1..L : B[i] = A[i]
      /\ \A k \in 1..Len(K) : B[L + k] = K[k]
  <2> HIDE DEF p
  <2>1. A \in Seq(Item) /\ K \in Seq(Item)
    BY <1>1, <1>3
  <2>2. /\ B \in Seq(Item) /\ Len(B) = L + Len(K)
        /\ \A i \in 1..(L + Len(K)) : B[i] = IF i <= L THEN A[i] ELSE K[i - L]
    BY <2>1, ConcatProperties
  <2> HIDE DEF B, L
  <2>3. \A i \in 1..L : i \in 1..(L + Len(K)) /\ i <= L
    BY <1>1, <1>3
  <2>4. \A k \in 1..Len(K) : L + k \in 1..(L + Len(K)) /\ ~(L + k <= L) /\ (L + k) - L = k
    BY <1>1, <1>3
  <2> QED BY <2>2, <2>3, <2>4
<1>5. \A j \in 1..Len(B) : j \in 1..L \/ (j > L /\ j - L \in 1..Len(K) /\ B[j] = K[j - L])
  <2>1. SUFFICES ASSUME NEW j \in 1..Len(B), j \notin 1..L
                 PROVE  j > L /\ j - L \in 1..Len(K) /\ B[j] = K[j - L]
    OBVIOUS
  <2>2. j > L /\ j - L \in 1..Len(K) /\ L + (j - L) = j
    BY <1>1, <1>3, <1>4, <2>1
  <2> QED BY <1>4, <2>2
<1>6. DOMAIN p.node.kids = 1..Len(K)
  BY <1>3
<1>7. B[n + 1] = p /\ \A i \in 1..n : i \in 1..L /\ B[i] = A[i]
  BY <1>1, <1>4
<1> HIDE DEF p, L, B
<1>7a. L \in Nat /\ n \in Nat /\ Len(K) \in Nat /\ Len(B) = L + Len(K)
  BY <1>1, <1>3, <1>4
<1>8. IsLine(B, n + 1, t)
  <2>1. 1 \in 1..L /\ A[1].node = t /\ A[1].place = <<>>
    BY <1>1 DEF LineInv, IsLine, L
  <2>2. n + 1 \in 0..Len(B) /\ Len(B) >= 1
    BY <1>1, <1>3, <1>4
  <2> QED BY <1>4, <2>1, <2>2 DEF IsLine
<1>9. IdsInOrder(B)
  <2>1. SUFFICES ASSUME NEW j \in 1..Len(B) PROVE B[j].id = j - 1
    BY DEF IdsInOrder
  <2>2. CASE j \in 1..L
    BY <1>4, <2>2 DEF LineInv, IdsInOrder, L
  <2>3. CASE j > L /\ j - L \in 1..Len(K) /\ B[j] = K[j - L]
    <3>1. K[j - L].id = L + (j - L) - 1
      BY <1>3, <2>3
    <3> QED BY <1>7a, <2>3, <3>1
  <2> QED BY <1>5, <2>2, <2>3
<1>10. ASSUME NEW k \in 1..Len(K), NEW j \in 1..L PROVE K[k].place # A[j].place
  <2>1. SUFFICES ASSUME K[k].place = A[j].place PROVE FALSE
    OBVIOUS
  <2>2. K[k].place = Append(p.place, k) /\ p.place \in Seq(Nat) /\ k \in Nat
    <3>1. K[k].place = Append(p.place, k)
      BY <1>3 DEF IsKid
    <3>2. p.place \in Seq(Nat)
      BY <1>2 DEF Item
    <3> QED BY <3>1, <3>2
  <2>3. CASE j = 1
    <3>1. Append(p.place, k) = <<>>
      BY <2>1, <2>2, <2>3 DEF LineInv, IsLine
    <3> QED BY <2>2, <3>1
  <2>4. CASE j # 1
    <3>1. PICK i \in 1..n : i < j /\ \E m \in DOMAIN A[i].node.kids : IsKid(A[j], A[i], m)
      BY <2>4 DEF LineInv, HasParent, L
    <3>2. PICK m \in DOMAIN A[i].node.kids : IsKid(A[j], A[i], m)
      BY <3>1
    <3>3. A[i] \in Item /\ i \in 1..L
      BY <1>1, <1>7, <3>1 DEF L
    <3>4. A[i].place \in Seq(Nat) /\ m \in Nat
      <4>1. A[i].node.kids \in Seq(NodeSet)
        BY <3>3, NodesAssumption DEF Item
      <4> QED BY <3>3, <4>1 DEF Item
    <3>5. Append(p.place, k) = Append(A[i].place, m)
      BY <2>1, <2>2, <3>2 DEF IsKid
    <3>6. A[n + 1].place = A[i].place
      <4>1. p.place = A[i].place
        <5>1. p.place \in Seq(Nat) /\ k \in Nat
          BY <2>2
        <5>2. \A x, y \in Seq(Nat), a, b \in Nat : Append(x, a) = Append(y, b) => x = y
          BY AppendUnique
        <5> QED BY <3>4, <3>5, <5>1, <5>2, Zenon
      <4> QED BY <4>1 DEF p
    <3>7. n + 1 = i
      BY <1>1, <3>3, <3>6 DEF LineInv, NoneTwice, L
    <3> QED BY <1>1, <3>1, <3>7
  <2> QED BY <2>3, <2>4
<1>11. NoneTwice(B)
  <2>1. SUFFICES ASSUME NEW i \in 1..Len(B), NEW j \in 1..Len(B), B[i].place = B[j].place PROVE i = j
    BY DEF NoneTwice
  <2>2. CASE i \in 1..L /\ j \in 1..L
    BY <1>4, <2>1, <2>2 DEF LineInv, NoneTwice, L
  <2>3. CASE i \in 1..L /\ j \notin 1..L
    BY <1>4, <1>5, <1>10, <2>1, <2>3
  <2>4. CASE i \notin 1..L /\ j \in 1..L
    BY <1>4, <1>5, <1>10, <2>1, <2>4
  <2>5. CASE i \notin 1..L /\ j \notin 1..L
    <3>1. i - L \in 1..Len(K) /\ j - L \in 1..Len(K) /\ B[i] = K[i - L] /\ B[j] = K[j - L]
      BY <1>5, <2>5
    <3>2. Append(p.place, i - L) = Append(p.place, j - L)
      BY <1>3, <2>1, <3>1 DEF IsKid
    <3>3. p.place \in Seq(Nat) /\ i - L \in Nat /\ j - L \in Nat
      BY <1>2, <3>1 DEF Item
    <3>4. i - L = j - L
      BY <3>2, <3>3, AppendUnique
    <3> QED BY <1>1, <3>4
  <2> QED BY <2>2, <2>3, <2>4, <2>5
<1>12. HasParent(B, n + 1)
  <2>1. SUFFICES ASSUME NEW j \in 2..Len(B)
                 PROVE  \E i \in 1..(n + 1) :
                          i < j /\ \E k \in DOMAIN B[i].node.kids : IsKid(B[j], B[i], k)
    BY DEF HasParent
  <2>2. CASE j \in 1..L
    <3>1. PICK i \in 1..n : i < j /\ \E k \in DOMAIN A[i].node.kids : IsKid(A[j], A[i], k)
      BY <2>1, <2>2 DEF LineInv, HasParent, L
    <3>2. B[i] = A[i] /\ B[j] = A[j] /\ i \in 1..(n + 1)
      BY <1>1, <1>4, <1>7, <2>2, <3>1
    <3> QED BY <3>1, <3>2
  <2>3. CASE j \notin 1..L
    <3>1. j > L /\ j - L \in 1..Len(K) /\ B[j] = K[j - L] /\ j \in 1..Len(B)
      BY <1>5, <2>1, <2>3
    <3>2. IsKid(B[j], B[n + 1], j - L) /\ j - L \in DOMAIN B[n + 1].node.kids
      BY <1>3, <1>6, <1>7, <3>1
    <3>3. n + 1 \in 1..(n + 1) /\ n + 1 < j
      BY <1>1, <3>1
    <3> QED BY <3>2, <3>3
  <2> QED BY <2>2, <2>3
<1>13. HasKids(B, n + 1, F)
  <2>1. SUFFICES ASSUME NEW i \in 1..(n + 1), NEW k \in DOMAIN B[i].node.kids
                 PROVE  \E j \in 1..Len(B) : IsKid(B[j], B[i], k) /\ <<i - 1, j - 1>> \in F
    BY DEF HasKids
  <2>2. CASE i # n + 1
    <3>1. i \in 1..n /\ B[i] = A[i]
      BY <1>1, <1>7, <2>2
    <3>2. PICK j \in 1..L : IsKid(A[j], A[i], k) /\ <<i - 1, j - 1>> \in E
      BY <2>1, <3>1 DEF LineInv, HasKids, L
    <3>3. j \in 1..Len(B) /\ B[j] = A[j]
      BY <1>1, <1>3, <1>4
    <3> QED BY <3>1, <3>2, <3>3
  <2>3. CASE i = n + 1
    <3>1. k \in 1..Len(K) /\ B[i] = p
      BY <1>6, <1>7, <2>1, <2>3
    <3>2. L + k \in 1..Len(B) /\ B[L + k] = K[k]
      BY <1>7a, <1>4, <3>1
    <3>3. IsKid(B[L + k], B[i], k)
      BY <1>3, <3>1, <3>2
    <3>4. <<n, L + k - 1>> \in F
      BY <3>1 DEF L
    <3>5. i - 1 = n /\ (L + k) - 1 = L + k - 1
      BY <1>1, <2>3, <3>1
    <3> HIDE DEF F
    <3> QED BY <3>2, <3>3, <3>4, <3>5
  <2> QED BY <2>2, <2>3
<1>14. OnlyKids(B, n + 1, F)
  <2>1. SUFFICES ASSUME NEW e \in F
                 PROVE  \E i \in 1..(n + 1), j \in 1..Len(B) :
                          /\ i < j /\ e = <<i - 1, j - 1>>
                          /\ \E k \in DOMAIN B[i].node.kids : IsKid(B[j], B[i], k)
    BY DEF OnlyKids
  <2>2. CASE e \in E
    <3>1. PICK i \in 1..n, j \in 1..L :
            i < j /\ e = <<i - 1, j - 1>> /\ \E k \in DOMAIN A[i].node.kids : IsKid(A[j], A[i], k)
      BY <2>2 DEF LineInv, OnlyKids, L
    <3>2. i \in 1..(n + 1) /\ j \in 1..Len(B) /\ B[i] = A[i] /\ B[j] = A[j]
      BY <1>1, <1>3, <1>4, <1>7
    <3> QED BY <3>1, <3>2
  <2>3. CASE e \notin E
    <3>1. PICK k \in 1..Len(K) : e = <<n, L + k - 1>>
      BY <2>1, <2>3
    <3>2. L + k \in 1..Len(B) /\ B[L + k] = K[k]
      BY <1>7a, <1>4
    <3>3. IsKid(B[L + k], B[n + 1], k) /\ k \in DOMAIN B[n + 1].node.kids
      BY <1>3, <1>6, <1>7, <3>2
    <3>4. n + 1 < L + k /\ n + 1 \in 1..(n + 1) /\ e = <<(n + 1) - 1, (L + k) - 1>>
      BY <1>1, <3>1
    <3> HIDE DEF F
    <3> QED BY <3>2, <3>3, <3>4
  <2> QED BY <2>2, <2>3
<1>15. ByDepth(B, n + 1)
  <2> DEFINE D == Depth(p)
  <2>1. \A j \in 1..Len(B) : Depth(B[j]) \in Nat
    BY <1>4 DEF Depth, Item
  <2>2. D \in Nat
    BY <1>2 DEF Depth, Item
  <2>3. \A j \in 1..L : Depth(B[j]) <= D + 1
    BY <1>1, <1>4 DEF LineInv, ByDepth, p, L
  <2>4. \A j \in 1..Len(B) : j \notin 1..L => Depth(B[j]) = D + 1
    BY <1>3, <1>5
  <2>5. \A j \in 1..Len(B) : Depth(B[j]) <= D + 1
    BY <2>2, <2>3, <2>4
  <2>6. \A i, j \in 1..Len(B) : i <= j => Depth(B[i]) <= Depth(B[j])
    <3>1. SUFFICES ASSUME NEW i \in 1..Len(B), NEW j \in 1..Len(B), i <= j
                   PROVE  Depth(B[i]) <= Depth(B[j])
      OBVIOUS
    <3>2. CASE j \in 1..L
      <4>1. i \in 1..L
        BY <1>1, <3>1, <3>2
      <4> QED BY <1>4, <3>1, <3>2, <4>1 DEF LineInv, ByDepth, L
    <3>3. CASE j \notin 1..L
      BY <2>4, <2>5, <3>3
    <3> QED BY <3>2, <3>3
  <2>7. ASSUME n + 1 < Len(B) PROVE \A j \in 1..Len(B) : Depth(B[j]) <= Depth(B[(n + 1) + 1]) + 1
    <3>1. (n + 1) + 1 \in 1..Len(B) /\ n + 1 \in 1..Len(B) /\ n + 1 <= (n + 1) + 1
      BY <1>1, <1>3, <1>4, <2>7
    <3>2. D <= Depth(B[(n + 1) + 1])
      BY <1>7, <2>6, <3>1
    <3> HIDE DEF D
    <3> QED BY <2>1, <2>2, <2>5, <3>1, <3>2
  <2> QED BY <2>6, <2>7 DEF ByDepth
<1>16. LineInv(B, n + 1, F, t)
  <2> HIDE DEF F
  <2> QED BY <1>8, <1>9, <1>11, <1>12, <1>13, <1>14, <1>15 DEF LineInv
<1> QED BY <1>16 DEF B, F, K, p, L

-----------------------------------------------------------------------------
(* The invariant.                                                          *)

Labels == {Label(node) : node \in NodeSet}

Written == [item : Item, label : Labels]

\* What is written, followed by what waits.
LineOf(w, queue) ==
  [i \in 1..(Len(w) + Len(queue)) |-> IF i <= Len(w) THEN w[i].item ELSE queue[i - Len(w)]]

Line == LineOf(dot.written, nodes)

DumpTypes ==
  /\ prog \in Sources
  /\ nodes \in Seq(Item)
  /\ dot.written \in Seq(Written)
  /\ id = Len(dot.written) + Len(nodes)
  /\ \A i \in 1..Len(dot.written) : dot.written[i].label = Label(dot.written[i].item.node)

\* The destructor of the program, of which only the node itself is deleted.
DeleteInv ==
  /\ freed \subseteq {<<>>}
  /\ doomed \in {<<>>, <<[node |-> prog, place |-> <<>>]>>}

IInv == DumpTypes /\ LineInv(Line, Len(dot.written), dot.edges, prog) /\ DeleteInv

\* The line is a sequence, of nodes written and nodes that wait.
LEMMA LineIs ==
  ASSUME NEW w \in Seq(Written), NEW queue \in Seq(Item)
  PROVE  LET A == LineOf(w, queue)
             m == Len(w) + Len(queue)
         IN  /\ Len(w) \in Nat /\ Len(queue) \in Nat /\ m \in Nat
             /\ A \in Seq(Item) /\ Len(A) = m
             /\ \A i \in 1..Len(w) : i \in 1..m /\ A[i] = w[i].item
             /\ \A i \in 1..Len(queue) : Len(w) + i \in 1..m /\ A[Len(w) + i] = queue[i]
<1> DEFINE n == Len(w)
           m == n + Len(queue)
           A == LineOf(w, queue)
<1>1. n \in Nat /\ Len(queue) \in Nat /\ m \in Nat
  OBVIOUS
<1>2. \A i \in 1..n : w[i].item \in Item
  <2>1. \A i \in 1..n : w[i] \in Written
    OBVIOUS
  <2> QED BY <2>1 DEF Written
<1>3. A = [i \in 1..m |-> IF i <= n THEN w[i].item ELSE queue[i - n]]
  BY DEF LineOf
<1> HIDE DEF n, m, A
<1>4. m = n + Len(queue)
  BY DEF m
<1>5. \A i \in 1..n : i \in 1..m /\ A[i] = w[i].item
  BY <1>1, <1>3, <1>4
<1>6. ASSUME NEW i \in 1..Len(queue)
      PROVE  n + i \in 1..m /\ A[n + i] = queue[i]
  <2>1. n + i \in 1..m /\ ~(n + i <= n) /\ (n + i) - n = i
    BY <1>1, <1>4
  <2> QED BY <1>3, <2>1
<1>7. ASSUME NEW i \in 1..m PROVE A[i] \in Item
  <2>1. CASE i <= n
    <3>1. i \in 1..n
      BY <1>1, <2>1
    <3> QED BY <1>2, <1>5, <3>1
  <2>2. CASE ~(i <= n)
    <3>1. i - n \in 1..Len(queue) /\ A[i] = queue[i - n]
      BY <1>1, <1>3, <1>4, <2>2
    <3> QED BY <3>1
  <2> QED BY <2>1, <2>2
<1>8. A \in Seq(Item) /\ Len(A) = m
  <2>1. A \in [1..m -> Item]
    BY <1>3, <1>7
  <2> QED BY <1>1, <2>1
<1> QED BY <1>1, <1>5, <1>6, <1>8 DEF n, m, A

\* A round of the loop makes the line longer by the children of the node it
\* writes.
LEMMA VisitGrows ==
  ASSUME IInv, Visit
  PROVE  LET n == Len(dot.written)
             K == Kids(Line[n + 1], Len(Line))
         IN  /\ n < Len(Line) /\ DumpTypes'
             /\ Line' = Line \o K
             /\ Len(dot'.written) = n + 1
             /\ dot'.edges = dot.edges \cup {<<n, Len(Line) + k - 1>> : k \in 1..Len(K)}
<1> DEFINE w == dot.written
           n == Len(w)
           this == Head(nodes)
           K == Kids(this, id)
           entry == [item |-> this, label |-> Label(this.node)]
<1>1. DumpTypes /\ IdsInOrder(Line) /\ nodes # <<>>
  BY DEF IInv, LineInv, Visit
<1>2. /\ n \in Nat /\ Len(nodes) \in Nat /\ id \in Nat /\ id = n + Len(nodes)
      /\ Line \in Seq(Item) /\ Len(Line) = id
      /\ \A i \in 1..n : i \in 1..id /\ Line[i] = w[i].item
      /\ \A i \in 1..Len(nodes) : n + i \in 1..id /\ Line[n + i] = nodes[i]
  <2>1. dot.written \in Seq(Written) /\ nodes \in Seq(Item) /\ id = Len(dot.written) + Len(nodes)
    BY <1>1 DEF DumpTypes
  <2>2. Line = LineOf(dot.written, nodes)
    BY DEF Line
  <2> HIDE DEF n, w, this, K, entry
  <2>3. LET A == LineOf(dot.written, nodes)
            m == Len(dot.written) + Len(nodes)
        IN  /\ Len(dot.written) \in Nat /\ Len(nodes) \in Nat /\ m \in Nat
            /\ A \in Seq(Item) /\ Len(A) = m
            /\ \A i \in 1..Len(dot.written) : i \in 1..m /\ A[i] = dot.written[i].item
            /\ \A i \in 1..Len(nodes) : Len(dot.written) + i \in 1..m /\ A[Len(dot.written) + i] = nodes[i]
    BY <2>1, LineIs
  <2> QED BY <2>1, <2>2, <2>3 DEF n, w
<1>3. nodes \in Seq(Item) /\ w \in Seq(Written) /\ 1 \in 1..Len(nodes) /\ this = nodes[1]
  BY <1>1 DEF DumpTypes
<1>4. this \in Item /\ Line[n + 1] = this
  BY <1>2, <1>3
<1>5. this.id = n
  <2>1. n + 1 \in 1..Len(Line)
    BY <1>2, <1>3
  <2>2. Line[n + 1].id = (n + 1) - 1
    BY <1>1, <2>1 DEF IdsInOrder
  <2> QED BY <1>2, <1>4, <2>2
<1>6. Children(this) = K
  BY DEF Children, Kids
<1>7. /\ nodes' = Tail(nodes) \o K /\ id' = id + Len(K)
      /\ dot'.written = Append(w, entry)
      /\ dot'.edges = dot.edges \cup {<<this.id, c.id>> : c \in Range(K)}
      /\ prog' = prog
  BY <1>6 DEF Visit, Push
<1> HIDE DEF this, K
<1>8. /\ K \in Seq(Item) /\ Len(K) \in Nat
      /\ \A k \in 1..Len(K) : K[k].id = id + k - 1
  <2>1. K = Kids(this, id)
    BY DEF K
  <2>2. this \in Item /\ id \in Nat
    BY <1>2, <1>4
  <2> QED BY <2>1, <2>2, KidsAreItems
<1>9. entry \in Written
  <2>1. this.node \in NodeSet
    BY <1>4 DEF Item
  <2> QED BY <1>4, <2>1 DEF Labels, Written
<1>10. /\ dot'.written \in Seq(Written) /\ Len(dot'.written) = n + 1
       /\ \A i \in 1..n : dot'.written[i] = w[i]
       /\ dot'.written[n + 1] = entry
  BY <1>2, <1>3, <1>7, <1>9
<1>11. /\ Tail(nodes) \in Seq(Item) /\ Len(Tail(nodes)) = Len(nodes) - 1
       /\ \A i \in 1..(Len(nodes) - 1) : Tail(nodes)[i] = nodes[i + 1]
  BY <1>1, <1>3
<1>12. /\ nodes' \in Seq(Item) /\ Len(nodes') = Len(nodes) - 1 + Len(K)
       /\ \A i \in 1..(Len(nodes) - 1) : nodes'[i] = nodes[i + 1]
       /\ \A k \in 1..Len(K) : nodes'[Len(nodes) - 1 + k] = K[k]
  BY <1>2, <1>3, <1>7, <1>8, <1>11
<1> HIDE DEF w, n, entry
<1>13. DumpTypes'
  <2>1. id' = Len(dot'.written) + Len(nodes')
    BY <1>2, <1>7, <1>8, <1>10, <1>12
  <2>2. ASSUME NEW i \in 1..(n + 1)
        PROVE  dot'.written[i].label = Label(dot'.written[i].item.node)
    <3>1. CASE i \in 1..n
      BY <1>1, <1>10, <3>1 DEF DumpTypes, w, n
    <3>2. CASE i = n + 1
      BY <1>10, <3>2 DEF entry
    <3> QED BY <1>2, <3>1, <3>2
  <2>3. prog' \in Sources
    BY <1>1, <1>7 DEF DumpTypes
  <2> QED BY <1>10, <1>12, <2>1, <2>2, <2>3 DEF DumpTypes
<1>14. Line' = Line \o K
  <2>1. /\ Line' \in Seq(Item) /\ Len(Line') = id + Len(K)
        /\ \A i \in 1..(n + 1) : Line'[i] = dot'.written[i].item
        /\ \A i \in 1..(Len(nodes) - 1 + Len(K)) : Line'[n + 1 + i] = nodes'[i]
    <3>1. /\ Line' \in Seq(Item) /\ Len(Line') = id'
          /\ \A i \in 1..Len(dot'.written) : Line'[i] = dot'.written[i].item
          /\ \A i \in 1..Len(nodes') : Line'[Len(dot'.written) + i] = nodes'[i]
      <4>1. /\ dot'.written \in Seq(Written) /\ nodes' \in Seq(Item)
            /\ id' = Len(dot'.written) + Len(nodes')
        BY <1>13 DEF DumpTypes
      <4>2. Line' = LineOf(dot'.written, nodes')
        BY DEF Line
      <4>3. LET A == LineOf(dot'.written, nodes')
                m == Len(dot'.written) + Len(nodes')
            IN  /\ A \in Seq(Item) /\ Len(A) = m
                /\ \A i \in 1..Len(dot'.written) : A[i] = dot'.written[i].item
                /\ \A i \in 1..Len(nodes') : A[Len(dot'.written) + i] = nodes'[i]
        BY <4>1, LineIs
      <4> QED BY <4>1, <4>2, <4>3
    <3> QED BY <1>7, <1>10, <1>12, <3>1
  <2>2. /\ Line \o K \in Seq(Item) /\ Len(Line \o K) = id + Len(K)
        /\ \A i \in 1..id : (Line \o K)[i] = Line[i]
        /\ \A k \in 1..Len(K) : (Line \o K)[id + k] = K[k]
    <3>1. Line \in Seq(Item) /\ K \in Seq(Item)
      BY <1>2, <1>8
    <3>2. /\ Line \o K \in Seq(Item) /\ Len(Line \o K) = id + Len(K)
          /\ \A i \in 1..(id + Len(K)) : (Line \o K)[i] = IF i <= id THEN Line[i] ELSE K[i - id]
      BY <1>2, <3>1, ConcatProperties
    <3>3. /\ \A i \in 1..id : i \in 1..(id + Len(K)) /\ i <= id
          /\ \A k \in 1..Len(K) : id + k \in 1..(id + Len(K)) /\ ~(id + k <= id) /\ (id + k) - id = k
      BY <1>2, <1>8
    <3> QED BY <3>2, <3>3
  <2>3. ASSUME NEW i \in 1..(id + Len(K)) PROVE Line'[i] = (Line \o K)[i]
    <3>1. CASE i \in 1..n
      <4>1. i \in 1..(n + 1) /\ i \in 1..id
        BY <1>2, <3>1
      <4>2. Line'[i] = w[i].item
        BY <1>10, <2>1, <3>1, <4>1
      <4>3. Line[i] = w[i].item
        BY <1>2, <3>1 DEF n
      <4> QED BY <2>2, <4>1, <4>2, <4>3
    <3>2. CASE i = n + 1
      <4>1. i \in 1..(n + 1) /\ i \in 1..id
        BY <1>2, <1>3, <3>2
      <4> QED BY <1>4, <1>10, <2>1, <2>2, <3>2, <4>1 DEF entry
    <3>3. CASE i > n + 1 /\ i <= id
      <4> DEFINE j == i - (n + 1)
      <4>1. /\ j \in 1..(Len(nodes) - 1) /\ j \in 1..(Len(nodes) - 1 + Len(K))
            /\ j + 1 \in 1..Len(nodes) /\ n + 1 + j = i /\ n + (j + 1) = i /\ i \in 1..id
        BY <1>2, <1>8, <3>3
      <4> HIDE DEF j
      <4>2. Line'[i] = nodes[j + 1]
        BY <1>12, <2>1, <4>1
      <4>3. Line[i] = nodes[j + 1]
        BY <1>2, <4>1
      <4> QED BY <2>2, <4>1, <4>2, <4>3
    <3>4. CASE i > id
      <4> DEFINE k == i - id
      <4>1. /\ k \in 1..Len(K) /\ id + k = i /\ Len(nodes) - 1 + k \in 1..(Len(nodes) - 1 + Len(K))
            /\ n + 1 + (Len(nodes) - 1 + k) = i
        BY <1>2, <1>3, <1>8, <3>4
      <4> HIDE DEF k
      <4>2. Line'[i] = K[k]
        BY <1>12, <2>1, <4>1
      <4> QED BY <2>2, <4>1, <4>2
    <3> QED BY <1>2, <1>8, <2>3, <3>1, <3>2, <3>3, <3>4
  <2> QED BY <1>2, <1>8, <2>1, <2>2, <2>3, SeqEqual
<1>15. dot'.edges = dot.edges \cup {<<n, id + k - 1>> : k \in 1..Len(K)}
  <2>1. Range(K) = {K[k] : k \in 1..Len(K)}
    BY <1>8 DEF Range
  <2>2. {<<this.id, c.id>> : c \in Range(K)} = {<<n, id + k - 1>> : k \in 1..Len(K)}
    BY <1>5, <1>8, <2>1
  <2> QED BY <1>7, <2>2
<1>16. K = Kids(Line[n + 1], Len(Line)) /\ n < Len(Line) /\ Len(Line) = id
  BY <1>2, <1>3, <1>4 DEF K
<1> HIDE DEF n
<1> QED BY <1>10, <1>13, <1>14, <1>15, <1>16 DEF n, w

\* A program forgets its nodes.
LEMMA ProgForgets ==
  ASSUME DumpTypes
  PROVE  prog \in NodeSet /\ ~prog.owns
<1>1. prog \in NodeSet /\ prog = ProgramSource(prog.kids)
  BY SourcesAssumption DEF DumpTypes
<1>2. \A ns : ProgramSource(ns).owns = FALSE
  BY DEF ProgramSource, Forgetful
<1>3. ProgramSource(prog.kids).owns = FALSE
  BY <1>2
<1> QED BY <1>1, <1>3, Zenon

-----------------------------------------------------------------------------
(* The theorems.                                                           *)

\* Before the loop the line is the program, which waits.
LEMMA InitIInv == Init => IInv
<1> SUFFICES ASSUME Init PROVE IInv
  OBVIOUS
<1> DEFINE root == WithId(prog, <<>>, 0)
<1>1. prog \in Sources /\ prog \in NodeSet
  BY SourcesAssumption DEF Init
<1>2. root \in Item /\ root.node = prog /\ root.place = <<>> /\ root.id = 0
  BY <1>1 DEF WithId, Item
<1>3. /\ nodes = <<root>> /\ id = 1 /\ dot.written = <<>> /\ dot.edges = {} /\ freed = {}
      /\ doomed = <<[node |-> prog, place |-> <<>>]>>
  BY DEF Init
<1> HIDE DEF root
<1>4. nodes \in Seq(Item) /\ Len(nodes) = 1 /\ nodes[1] = root
  BY <1>2, <1>3
<1>5. dot.written \in Seq(Written) /\ Len(dot.written) = 0
  BY <1>3
<1>6. DumpTypes
  BY <1>1, <1>3, <1>4, <1>5 DEF DumpTypes
<1>7. Line \in Seq(Item) /\ Len(Line) = 1 /\ Line[1] = root
  <2>1. Line = [j \in 1..1 |-> root]
    BY <1>4, <1>5 DEF Line, LineOf
  <2> QED BY <1>2, <2>1
<1>8. LineInv(Line, 0, {}, prog)
  <2>1. IsLine(Line, 0, prog)
    BY <1>2, <1>7 DEF IsLine
  <2>2. IdsInOrder(Line) /\ NoneTwice(Line)
    BY <1>2, <1>7 DEF IdsInOrder, NoneTwice
  <2>3. HasParent(Line, 0) /\ HasKids(Line, 0, {}) /\ OnlyKids(Line, 0, {})
    BY <1>7 DEF HasParent, HasKids, OnlyKids
  <2>4. ByDepth(Line, 0)
    <3>1. Depth(root) = 0
      BY <1>2 DEF Depth
    <3> QED BY <1>7, <3>1 DEF ByDepth
  <2> QED BY <2>1, <2>2, <2>3, <2>4 DEF LineInv
<1>9. DeleteInv
  BY <1>3 DEF DeleteInv
<1> QED BY <1>3, <1>5, <1>6, <1>8, <1>9 DEF IInv

\* A round of the loop keeps the invariant.
LEMMA VisitKept ==
  ASSUME IInv, Visit
  PROVE  IInv'
<1> DEFINE n == Len(dot.written)
           K == Kids(Line[n + 1], Len(Line))
           F == dot.edges \cup {<<n, Len(Line) + k - 1>> : k \in 1..Len(K)}
<1>1. /\ n < Len(Line) /\ DumpTypes' /\ Line' = Line \o K
      /\ Len(dot'.written) = n + 1 /\ dot'.edges = F
  BY VisitGrows
<1>2. LineInv(Line, n, dot.edges, prog)
  BY DEF IInv
<1>3. LineInv(Line \o K, n + 1, F, prog)
  BY <1>1, <1>2, LineGrows
<1>4. UNCHANGED <<prog, doomed, freed>>
  BY DEF Visit
<1>5. LineInv(Line', Len(dot'.written), dot'.edges, prog')
  <2> HIDE DEF n, K, F
  <2> QED BY <1>1, <1>3, <1>4
<1>6. DeleteInv'
  BY <1>4 DEF IInv, DeleteInv
<1> QED BY <1>1, <1>5, <1>6 DEF IInv

\* So does a destructor: the program's deletes no other node.
LEMMA DeleteKept ==
  ASSUME IInv, Delete
  PROVE  IInv'
<1> DEFINE root == [node |-> prog, place |-> <<>>]
<1>1. UNCHANGED <<prog, nodes, id, dot>>
  BY DEF Delete
<1>2. DumpTypes' /\ LineInv(Line', Len(dot'.written), dot'.edges, prog')
  BY <1>1 DEF IInv, DumpTypes, Line
<1>3. doomed = <<root>> /\ Head(doomed) = root /\ Tail(doomed) = <<>>
  BY DEF IInv, DeleteInv, Delete
<1>4. Owned(root) = <<>>
  BY ProgForgets DEF IInv, Owned
<1>5. freed' = freed \cup {<<>>} /\ doomed' = <<>>
  <2>1. freed' = freed \cup {root.place} /\ doomed' = Owned(root) \o <<>>
    BY <1>3 DEF Delete
  <2> QED BY <1>4, <2>1
<1>6. DeleteInv'
  BY <1>5 DEF IInv, DeleteInv
<1> QED BY <1>2, <1>6 DEF IInv

\* The invariant holds throughout the dump and the deletion.
THEOREM Invariant == Spec => []IInv
<1>1. Init => IInv
  BY InitIInv
<1>2. IInv /\ [Next]_vars => IInv'
  <2> SUFFICES ASSUME IInv, [Next]_vars PROVE IInv'
    OBVIOUS
  <2>1. CASE Visit
    BY <2>1, VisitKept
  <2>2. CASE Delete
    BY <2>2, DeleteKept
  <2>3. CASE UNCHANGED vars
    BY <2>3 DEF vars, IInv, DumpTypes, Line, DeleteInv
  <2> QED BY <2>1, <2>2, <2>3 DEF Next
<1> QED BY <1>1, <1>2, PTL DEF Spec

\* What IInv says of the line, of the queue and of what is written.
LEMMA InvLine ==
  ASSUME IInv
  PROVE  /\ LineInv(Line, Len(dot.written), dot.edges, prog)
         /\ Len(dot.written) \in Nat /\ Len(nodes) \in Nat
         /\ Len(Line) = Len(dot.written) + Len(nodes)
         /\ DOMAIN dot.written = 1..Len(dot.written) /\ DOMAIN nodes = 1..Len(nodes)
         /\ \A i \in 1..Len(dot.written) :
              /\ i \in 1..Len(Line) /\ dot.written[i].item = Line[i]
              /\ dot.written[i].label = Label(Line[i].node)
         /\ \A i \in 1..Len(nodes) :
              Len(dot.written) + i \in 1..Len(Line) /\ nodes[i] = Line[Len(dot.written) + i]
<1>1. /\ dot.written \in Seq(Written) /\ nodes \in Seq(Item)
      /\ \A i \in 1..Len(dot.written) : dot.written[i].label = Label(dot.written[i].item.node)
      /\ LineInv(Line, Len(dot.written), dot.edges, prog)
  BY DEF IInv, DumpTypes
<1>2. LET A == LineOf(dot.written, nodes)
          m == Len(dot.written) + Len(nodes)
      IN  /\ Len(dot.written) \in Nat /\ Len(nodes) \in Nat /\ m \in Nat
          /\ A \in Seq(Item) /\ Len(A) = m
          /\ \A i \in 1..Len(dot.written) : i \in 1..m /\ A[i] = dot.written[i].item
          /\ \A i \in 1..Len(nodes) : Len(dot.written) + i \in 1..m /\ A[Len(dot.written) + i] = nodes[i]
  BY <1>1, LineIs
<1>3. DOMAIN dot.written = 1..Len(dot.written) /\ DOMAIN nodes = 1..Len(nodes)
  BY <1>1
<1>4. Line = LineOf(dot.written, nodes)
  BY DEF Line
<1> QED BY <1>1, <1>2, <1>3, <1>4

\* The dump is breadth first and numbered in the order in which it is
\* written, whatever the program.
THEOREM DumpIsBreadthFirst == Spec => []LevelByLevel
<1>1. IInv => LevelByLevel
  <2> SUFFICES ASSUME IInv PROVE LevelByLevel
    OBVIOUS
  <2> DEFINE n == Len(dot.written)
  <2>1. \A i \in DOMAIN dot.written : dot.written[i].item.id = i - 1
    BY InvLine DEF LineInv, IdsInOrder
  <2>2. ASSUME NEW i \in DOMAIN nodes, NEW j \in DOMAIN nodes, i < j
        PROVE  Len(nodes[i].place) <= Len(nodes[j].place)
    <3>1. /\ n + i \in 1..Len(Line) /\ n + j \in 1..Len(Line)
          /\ nodes[i] = Line[n + i] /\ nodes[j] = Line[n + j]
      BY <2>2, InvLine
    <3>2. n + i <= n + j
      BY <2>2, InvLine
    <3>3. Depth(Line[n + i]) <= Depth(Line[n + j])
      BY <3>1, <3>2, InvLine DEF LineInv, ByDepth
    <3> QED BY <3>1, <3>3 DEF Depth
  <2>3. ASSUME NEW e \in dot.edges PROVE e[1] < e[2]
    <3>1. PICK i \in 1..n, j \in 1..Len(Line) : i < j /\ e = <<i - 1, j - 1>>
      BY InvLine DEF LineInv, OnlyKids
    <3> QED BY <3>1, InvLine
  <2> QED BY <2>1, <2>2, <2>3 DEF LevelByLevel
<1> QED BY <1>1, Invariant, PTL

\* At its end the dump is the tree, whatever the program: every node once,
\* with an edge to each of its children and to nothing else.
THEOREM DumpIsTheTree == Spec => []DumpIsTree
<1>1. IInv => DumpIsTree
  <2> DEFINE w == dot.written
             IsChild(c, this, k) == /\ c.item.place = Append(this.item.place, k)
                                    /\ c.label = Label(this.item.node.kids[k])
  <2> SUFFICES ASSUME IInv, nodes = <<>>
               PROVE  /\ w # <<>> /\ w[1].item.node = prog
                      /\ \A i, j \in DOMAIN w : w[i].item.place = w[j].item.place => i = j
                      /\ \A i \in DOMAIN w : \A k \in DOMAIN w[i].item.node.kids :
                           \E j \in DOMAIN w : IsChild(w[j], w[i], k) /\ <<i - 1, j - 1>> \in dot.edges
                      /\ \A e \in dot.edges : \E i, j \in DOMAIN w :
                           e = <<i - 1, j - 1>>
                             /\ \E k \in DOMAIN w[i].item.node.kids : IsChild(w[j], w[i], k)
    BY Zenon DEF DumpIsTree
  <2>1. /\ DOMAIN w = 1..Len(Line) /\ Len(w) = Len(Line) /\ Len(Line) \in Nat
        /\ \A i \in 1..Len(Line) : w[i].item = Line[i] /\ w[i].label = Label(Line[i].node)
        /\ LineInv(Line, Len(Line), dot.edges, prog)
    BY InvLine
  <2>2. ASSUME NEW i \in DOMAIN w, NEW j \in DOMAIN w, NEW k, IsKid(Line[j], Line[i], k)
        PROVE  IsChild(w[j], w[i], k)
    BY <2>1, <2>2 DEF IsKid
  <2> HIDE DEF w, IsChild
  <2>3. w # <<>> /\ w[1].item.node = prog
    <3>1. 1 \in 1..Len(Line) /\ Line[1].node = prog
      BY <2>1 DEF LineInv, IsLine
    <3> QED BY <2>1, <3>1
  <2>4. \A i, j \in DOMAIN w : w[i].item.place = w[j].item.place => i = j
    BY <2>1 DEF LineInv, NoneTwice
  <2>5. ASSUME NEW i \in DOMAIN w, NEW k \in DOMAIN w[i].item.node.kids
        PROVE  \E j \in DOMAIN w : IsChild(w[j], w[i], k) /\ <<i - 1, j - 1>> \in dot.edges
    <3>1. PICK j \in 1..Len(Line) : IsKid(Line[j], Line[i], k) /\ <<i - 1, j - 1>> \in dot.edges
      BY <2>1 DEF LineInv, HasKids
    <3> QED BY <2>1, <2>2, <3>1
  <2>6. ASSUME NEW e \in dot.edges
        PROVE  \E i, j \in DOMAIN w :
                 e = <<i - 1, j - 1>> /\ \E k \in DOMAIN w[i].item.node.kids : IsChild(w[j], w[i], k)
    <3>1. PICK i \in 1..Len(Line), j \in 1..Len(Line) :
            e = <<i - 1, j - 1>> /\ \E k \in DOMAIN Line[i].node.kids : IsKid(Line[j], Line[i], k)
      BY <2>1 DEF LineInv, OnlyKids
    <3> QED BY <2>1, <2>2, <3>1
  <2> QED BY <2>3, <2>4, <2>5, <2>6
<1> QED BY <1>1, Invariant, PTL

\* The deletion of a program leaves the functions it declares, and with them
\* what the built-in symbols point at.
THEOREM BuiltinsAreKept == Spec => []BuiltinsLive
<1>1. IInv => BuiltinsLive
  BY DEF IInv, DeleteInv, BuiltinsLive
<1> QED BY <1>1, Invariant, PTL


-----------------------------------------------------------------------------
(* find. Places below a child, and which of them is the first.             *)

LEMMA Longer ==
  ASSUME NEW i \in Nat, NEW p \in Seq(Nat), NEW r, r = <<i>> \o p
  PROVE  /\ r \in Seq(Nat) /\ Len(r) = Len(p) + 1 /\ r # <<>>
         /\ r[1] = i
         /\ \A k \in 1..Len(p) : r[k + 1] = p[k]
OBVIOUS

LEMMA SamePlace ==
  ASSUME NEW i \in Nat, NEW j \in Nat, NEW p \in Seq(Nat), NEW q \in Seq(Nat),
         <<i>> \o p = <<j>> \o q
  PROVE  i = j /\ p = q
<1> DEFINE r == <<i>> \o p
<1>1. /\ Len(r) = Len(p) + 1 /\ r[1] = i /\ \A k \in 1..Len(p) : r[k + 1] = p[k]
      /\ Len(r) = Len(q) + 1 /\ r[1] = j /\ \A k \in 1..Len(q) : r[k + 1] = q[k]
  BY Longer
<1> HIDE DEF r
<1>2. Len(p) \in Nat /\ Len(q) \in Nat
  OBVIOUS
<1>3. Len(p) = Len(q)
  BY <1>1, <1>2
<1>4. \A k \in 1..Len(p) : p[k] = q[k]
  BY <1>1, <1>3
<1>5. p = q
  BY <1>3, <1>4, SeqEqual
<1> QED BY <1>1, <1>5

\* A place and one below or beside it are in the order of their first
\* children, and if it is the same of the rest.
LEMMA BeforeBelow ==
  ASSUME NEW i \in Nat, NEW j \in Nat, NEW p \in Seq(Nat), NEW q \in Seq(Nat)
  PROVE  Before(<<i>> \o p, <<j>> \o q) <=> (i < j \/ (i = j /\ Before(p, q)))
<1> DEFINE r == <<i>> \o p
           s == <<j>> \o q
<1>1. /\ Len(r) = Len(p) + 1 /\ r[1] = i /\ \A k \in 1..Len(p) : r[k + 1] = p[k]
      /\ Len(s) = Len(q) + 1 /\ s[1] = j /\ \A k \in 1..Len(q) : s[k + 1] = q[k]
  BY Longer
<1>2. Len(p) \in Nat /\ Len(q) \in Nat
  OBVIOUS
<1> HIDE DEF r, s
<1>3. ASSUME i < j PROVE Before(r, s)
  <2>1. 0 \in 0..Len(r) /\ 0 < Len(s) /\ r[0 + 1] < s[0 + 1]
    BY <1>1, <1>2, <1>3
  <2> QED BY <2>1 DEF Before
<1>4. ASSUME i = j, Before(p, q) PROVE Before(r, s)
  <2>1. PICK m \in 0..Len(p) : /\ m < Len(q)
                               /\ \A k \in 1..m : p[k] = q[k]
                               /\ m = Len(p) \/ p[m + 1] < q[m + 1]
    BY <1>4 DEF Before
  <2>2. m + 1 \in 0..Len(r) /\ m + 1 < Len(s)
    BY <1>1, <1>2, <2>1
  <2>3. ASSUME NEW k \in 1..(m + 1) PROVE r[k] = s[k]
    <3>1. CASE k = 1
      BY <1>1, <1>4, <3>1
    <3>2. CASE k # 1
      <4>1. k - 1 \in 1..m /\ k - 1 \in 1..Len(p) /\ k - 1 \in 1..Len(q) /\ (k - 1) + 1 = k
        BY <1>2, <2>1, <3>2
      <4> QED BY <1>1, <2>1, <4>1
    <3> QED BY <3>1, <3>2
  <2>4. m + 1 = Len(r) \/ r[(m + 1) + 1] < s[(m + 1) + 1]
    <3>1. CASE m = Len(p)
      BY <1>1, <3>1
    <3>2. CASE m # Len(p)
      <4>1. m + 1 \in 1..Len(p) /\ m + 1 \in 1..Len(q)
        BY <1>2, <2>1, <3>2
      <4> QED BY <1>1, <2>1, <3>2, <4>1
    <3> QED BY <3>1, <3>2
  <2> QED BY <2>2, <2>3, <2>4 DEF Before
<1>5. ASSUME Before(r, s) PROVE i < j \/ (i = j /\ Before(p, q))
  <2>1. PICK m \in 0..Len(r) : /\ m < Len(s)
                               /\ \A k \in 1..m : r[k] = s[k]
                               /\ m = Len(r) \/ r[m + 1] < s[m + 1]
    BY <1>5 DEF Before
  <2>2. CASE m = 0
    BY <1>1, <1>2, <2>1, <2>2
  <2>3. CASE m # 0
    <3>1. i = j
      BY <1>1, <2>1, <2>3
    <3>2. m - 1 \in 0..Len(p) /\ m - 1 < Len(q)
      BY <1>1, <1>2, <2>1, <2>3
    <3>3. ASSUME NEW k \in 1..(m - 1) PROVE p[k] = q[k]
      <4>1. k \in 1..Len(p) /\ k \in 1..Len(q) /\ k + 1 \in 1..m
        BY <1>2, <3>2
      <4> QED BY <1>1, <2>1, <4>1
    <3>4. m - 1 = Len(p) \/ p[(m - 1) + 1] < q[(m - 1) + 1]
      <4>1. CASE m = Len(r)
        BY <1>1, <1>2, <4>1
      <4>2. CASE m # Len(r)
        <5>1. m \in 1..Len(p) /\ m \in 1..Len(q) /\ (m - 1) + 1 = m
          BY <1>1, <1>2, <2>1, <2>3, <4>2
        <5> QED BY <1>1, <2>1, <4>2, <5>1
      <4> QED BY <4>1, <4>2
    <3> QED BY <3>1, <3>2, <3>3, <3>4 DEF Before
  <2> QED BY <2>2, <2>3
<1> QED BY <1>3, <1>4, <1>5 DEF r, s

\* A node comes before those below it.
LEMMA RootFirst ==
  ASSUME NEW S, S \subseteq Seq(Nat), <<>> \in S
  PROVE  First(S) = {<<>>}
<1>1. ASSUME NEW p \in S, p # <<>> PROVE Before(<<>>, p) /\ ~Before(p, <<>>)
  <2>1. p \in Seq(Nat) /\ Len(p) \in Nat /\ Len(p) > 0
    BY <1>1, EmptySeq
  <2>2. 0 \in 0..Len(<<>>) /\ 0 < Len(p) /\ 0 = Len(<<>>)
    BY <2>1
  <2> QED BY <2>2 DEF Before
<1> QED BY <1>1 DEF First

\* P are the places below the children in I, which H gives for each child, R
\* those of them that F keeps, and S those in R below the first child.
FromChildren(I, H, F, P, R, S) ==
  /\ I \subseteq Nat
  /\ \A i \in I : /\ H[i] \subseteq Seq(Nat)
                  /\ F[i] = First(H[i])
                  /\ H[i] # {} => F[i] # {}
  /\ P = UNION {Below(i, H[i]) : i \in I}
  /\ R = UNION {Below(i, F[i]) : i \in I}
  /\ S = {p \in R : \A q \in R : p[1] <= q[1]}

\* The first place below a node is the first one of the first child that
\* has any.
LEMMA FirstOfChildren ==
  ASSUME NEW I, NEW H, NEW F, NEW P, NEW R, NEW S, FromChildren(I, H, F, P, R, S)
  PROVE  S = First(P) /\ (P # {} => S # {})
<1> USE DEF FromChildren
<1>1. \A i \in I : F[i] \subseteq H[i]
  BY DEF First
<1>2. \A i \in I : i \in Nat /\ \A p \in H[i] : p \in Seq(Nat)
  OBVIOUS
<1>3. \A i \in I : \A p \in H[i] : <<i>> \o p \in P
  <2>1. \A i \in I : \A p \in H[i] : <<i>> \o p \in Below(i, H[i])
    BY DEF Below
  <2> QED BY <2>1
<1>4. \A i \in I : \A p \in F[i] : <<i>> \o p \in R
  <2>1. \A i \in I : \A p \in F[i] : <<i>> \o p \in Below(i, F[i])
    BY DEF Below
  <2> QED BY <2>1
<1>5. \A r \in P : \E i \in I : \E p \in H[i] : r = <<i>> \o p
  BY DEF Below
<1>6. \A r \in R : \E i \in I : \E p \in F[i] : r = <<i>> \o p
  BY DEF Below
<1>7. \A i \in I : \A p \in H[i] : (<<i>> \o p)[1] = i
  BY <1>2, Longer
<1>8. ASSUME NEW r \in S PROVE r \in First(P)
  <2>1. r \in R /\ \A q \in R : r[1] <= q[1]
    OBVIOUS
  <2>2. PICK i \in I : \E p \in F[i] : r = <<i>> \o p
    BY <1>6, <2>1
  <2>3. PICK p \in F[i] : r = <<i>> \o p
    BY <2>2
  <2>4. p \in H[i] /\ r \in P /\ r[1] = i
    BY <1>1, <1>3, <1>7, <2>3
  <2>5. ASSUME NEW q \in P PROVE q = r \/ Before(r, q)
    <3>1. PICK j \in I : \E s \in H[j] : q = <<j>> \o s
      BY <1>5
    <3>2. PICK s \in H[j] : q = <<j>> \o s
      BY <3>1
    <3>3. PICK t \in F[j] : TRUE
      BY <3>2
    <3>4. <<j>> \o t \in R /\ (<<j>> \o t)[1] = j
      BY <1>1, <1>4, <1>7, <3>3
    <3>5. i <= j
      BY <2>1, <2>4, <3>4
    <3>6. i \in Nat /\ j \in Nat /\ p \in Seq(Nat) /\ s \in Seq(Nat)
      BY <1>2, <2>4, <3>2
    <3>7. CASE i = j
      <4>1. s = p \/ Before(p, s)
        BY <2>3, <3>2, <3>7 DEF First
      <4> QED BY <2>3, <3>2, <3>6, <3>7, <4>1, BeforeBelow
    <3>8. CASE i < j
      BY <2>3, <3>2, <3>6, <3>8, BeforeBelow
    <3> QED BY <3>5, <3>6, <3>7, <3>8
  <2> QED BY <2>4, <2>5 DEF First
<1>9. ASSUME NEW r \in First(P) PROVE r \in S
  <2>1. r \in P /\ \A q \in P : q = r \/ Before(r, q)
    BY DEF First
  <2>2. PICK i \in I : \E p \in H[i] : r = <<i>> \o p
    BY <1>5, <2>1
  <2>3. PICK p \in H[i] : r = <<i>> \o p
    BY <2>2
  <2>4. r[1] = i /\ i \in Nat /\ p \in Seq(Nat)
    BY <1>2, <1>7, <2>3
  <2>5. ASSUME NEW j \in I, NEW s \in H[j] PROVE (i = j /\ p = s) \/ i < j \/ (i = j /\ Before(p, s))
    <3>1. j \in Nat /\ s \in Seq(Nat)
      BY <1>2
    <3>2. <<j>> \o s = r \/ Before(r, <<j>> \o s)
      BY <1>3, <2>1
    <3>3. CASE <<j>> \o s = r
      BY <2>3, <2>4, <3>1, <3>3, SamePlace
    <3>4. CASE Before(r, <<j>> \o s)
      BY <2>3, <2>4, <3>1, <3>4, BeforeBelow
    <3> QED BY <3>2, <3>3, <3>4
  <2>6. p \in F[i]
    <3>1. \A s \in H[i] : s = p \/ Before(p, s)
      BY <2>4, <2>5
    <3> QED BY <3>1 DEF First
  <2>7. ASSUME NEW q \in R PROVE r[1] <= q[1]
    <3>1. PICK j \in I : \E s \in F[j] : q = <<j>> \o s
      BY <1>6
    <3>2. PICK s \in F[j] : q = <<j>> \o s
      BY <3>1
    <3>3. s \in H[j] /\ q[1] = j /\ j \in Nat
      BY <1>1, <1>2, <1>7, <3>2
    <3>4. i <= j
      BY <2>4, <2>5, <3>3
    <3> QED BY <2>4, <3>3, <3>4
  <2> QED BY <1>4, <2>3, <2>6, <2>7
<1>10. ASSUME P # {} PROVE S # {}
  <2> DEFINE J == {i \in I : H[i] # {}}
  <2>1. J \subseteq Nat /\ J # {}
    BY <1>5, <1>10
  <2>2. PICK m \in J : \A j \in J : m <= j
    <3> HIDE DEF J
    <3> QED BY <2>1, HasLeast
  <2>3. PICK t \in F[m] : TRUE
    BY <2>2
  <2>4. <<m>> \o t \in R /\ (<<m>> \o t)[1] = m
    BY <1>1, <1>4, <1>7, <2>3
  <2>5. ASSUME NEW q \in R PROVE m <= q[1]
    <3>1. PICK j \in I : \E s \in F[j] : q = <<j>> \o s
      BY <1>6
    <3>2. PICK s \in F[j] : q = <<j>> \o s
      BY <3>1
    <3>3. s \in H[j] /\ q[1] = j
      BY <1>1, <1>7, <3>2
    <3>4. H[j] # {}
      BY <3>3
    <3>5. j \in J
      BY <3>4
    <3> HIDE DEF J
    <3> QED BY <2>2, <3>3, <3>5
  <2>6. <<m>> \o t \in S
    <3> HIDE DEF J
    <3> QED BY <2>4, <2>5
  <2> QED BY <2>6
<1> QED BY <1>8, <1>9, <1>10

-----------------------------------------------------------------------------
(* find and places satisfy their definitions, and find the same.           *)

Results == [Conds -> SUBSET Seq(Nat)]

FindIn(f, n) == [cond \in Conds |->
  LET results == UNION {Below(i, f[n.kids[i]][cond]) : i \in DOMAIN n.kids}
  IN  IF n \in cond THEN {<<>>} ELSE {p \in results : \A q \in results : p[1] <= q[1]}]

PlacesIn(f, n) == [cond \in Conds |->
  {p \in {<<>>} : n \in cond}
    \cup UNION {Below(i, f[n.kids[i]][cond]) : i \in DOMAIN n.kids}]

LEMMA KidsLower ==
  ASSUME NEW n \in NodeSet
  PROVE  /\ DOMAIN n.kids \subseteq Nat
         /\ \A i \in DOMAIN n.kids : n.kids[i] \in NodeSet /\ nodeHeight[n.kids[i]] < nodeHeight[n]
<1>1. n.kids \in Seq(NodeSet)
  BY NodesAssumption
<1>2. DOMAIN n.kids = 1..Len(n.kids) /\ \A i \in DOMAIN n.kids : n.kids[i] \in NodeSet
  BY <1>1
<1> QED BY <1>2, HeightAssumption

LEMMA BelowAreResults ==
  ASSUME NEW f, NEW n \in NodeSet, \A i \in DOMAIN n.kids : f[n.kids[i]] \in Results,
         NEW cond \in Conds
  PROVE  UNION {Below(i, f[n.kids[i]][cond]) : i \in DOMAIN n.kids} \subseteq Seq(Nat)
<1>1. ASSUME NEW i \in DOMAIN n.kids PROVE Below(i, f[n.kids[i]][cond]) \subseteq Seq(Nat)
  <2>1. i \in Nat /\ f[n.kids[i]][cond] \subseteq Seq(Nat)
    BY KidsLower DEF Results
  <2>2. \A p \in Seq(Nat) : <<i>> \o p \in Seq(Nat)
    BY <2>1, Longer
  <2> QED BY <2>1, <2>2 DEF Below
<1> QED BY <1>1

LEMMA FindResult ==
  ASSUME NEW f, NEW n \in NodeSet, \A i \in DOMAIN n.kids : f[n.kids[i]] \in Results
  PROVE  FindIn(f, n) \in Results
<1>1. ASSUME NEW cond \in Conds PROVE FindIn(f, n)[cond] \subseteq Seq(Nat)
  <2>1. UNION {Below(i, f[n.kids[i]][cond]) : i \in DOMAIN n.kids} \subseteq Seq(Nat)
    BY BelowAreResults
  <2>2. <<>> \in Seq(Nat)
    OBVIOUS
  <2> QED BY <2>1, <2>2 DEF FindIn
<1>2. FindIn(f, n) = [cond \in Conds |-> FindIn(f, n)[cond]]
  BY DEF FindIn
<1>3. [cond \in Conds |-> FindIn(f, n)[cond]] \in Results
  BY <1>1 DEF Results
<1> QED BY <1>2, <1>3

LEMMA FindDef ==
  \A n \in NodeSet : find[n] \in Results /\ find[n] = FindIn(find, n)
<1> DEFINE G == [f \in [NodeSet -> Results] |-> [n \in NodeSet |-> FindIn(f, n)]]
<1>1. G \in [[NodeSet -> Results] -> [NodeSet -> Results]]
  BY FindResult, KidsLower
<1>2. ASSUME NEW f \in [NodeSet -> Results], NEW g \in [NodeSet -> Results], NEW n \in NodeSet,
             \A u \in NodeSet : nodeHeight[u] < nodeHeight[n] => f[u] = g[u]
      PROVE  G[f][n] = G[g][n]
  <2>1. \A i \in DOMAIN n.kids : f[n.kids[i]] = g[n.kids[i]]
    BY <1>2, KidsLower
  <2>2. ASSUME NEW cond \in Conds
        PROVE  UNION {Below(i, f[n.kids[i]][cond]) : i \in DOMAIN n.kids}
                 = UNION {Below(i, g[n.kids[i]][cond]) : i \in DOMAIN n.kids}
    BY <2>1
  <2>3. FindIn(f, n) = FindIn(g, n)
    BY <2>2 DEF FindIn
  <2> QED BY <2>3
<1>3. LooksDown(G, NodeSet, Results, nodeHeight)
  <2>1. Results # {} /\ nodeHeight \in [NodeSet -> Nat]
    <3>1. [cond \in Conds |-> {}] \in Results
      BY DEF Results
    <3> QED BY <3>1, HeightAssumption
  <2>2. \A f, g \in [NodeSet -> Results] : \A n \in NodeSet :
          (\A u \in NodeSet : nodeHeight[u] < nodeHeight[n] => f[u] = g[u]) => G[f][n] = G[g][n]
    BY <1>2
  <2> HIDE DEF G
  <2> QED BY <1>1, <2>1, <2>2 DEF LooksDown
<1>4. \E f : f = [n \in NodeSet |-> FindIn(f, n)]
  <2>1. Solvable(G, NodeSet, Results)
    <3> HIDE DEF G
    <3> QED BY <1>3, RecursionExists
  <2> QED BY <2>1 DEF Solvable
<1>5. find = [n \in NodeSet |-> FindIn(find, n)]
  BY <1>4 DEF find, FindIn
<1>6. \A n \in NodeSet : find[n] = FindIn(find, n)
  BY <1>5
<1> DEFINE P == {n \in NodeSet : find[n] \in Results}
<1>7. ASSUME NEW n \in NodeSet, \A u \in NodeSet : nodeHeight[u] < nodeHeight[n] => u \in P
      PROVE  n \in P
  <2>1. \A i \in DOMAIN n.kids : find[n.kids[i]] \in Results
    BY <1>7, KidsLower
  <2>2. FindIn(find, n) \in Results
    BY <2>1, FindResult
  <2> QED BY <1>6, <2>2
<1>8. NodeSet \subseteq P
  <2> HIDE DEF P
  <2> QED BY <1>7, HeightAssumption, DescentInduction
<1> QED BY <1>6, <1>8

LEMMA PlacesResult ==
  ASSUME NEW f, NEW n \in NodeSet, \A i \in DOMAIN n.kids : f[n.kids[i]] \in Results
  PROVE  PlacesIn(f, n) \in Results
<1>1. ASSUME NEW cond \in Conds PROVE PlacesIn(f, n)[cond] \subseteq Seq(Nat)
  <2>1. UNION {Below(i, f[n.kids[i]][cond]) : i \in DOMAIN n.kids} \subseteq Seq(Nat)
    BY BelowAreResults
  <2>2. <<>> \in Seq(Nat)
    OBVIOUS
  <2> QED BY <2>1, <2>2 DEF PlacesIn
<1>2. PlacesIn(f, n) = [cond \in Conds |-> PlacesIn(f, n)[cond]]
  BY DEF PlacesIn
<1>3. [cond \in Conds |-> PlacesIn(f, n)[cond]] \in Results
  BY <1>1 DEF Results
<1> QED BY <1>2, <1>3

LEMMA PlacesDef ==
  \A n \in NodeSet : places[n] \in Results /\ places[n] = PlacesIn(places, n)
<1> DEFINE G == [f \in [NodeSet -> Results] |-> [n \in NodeSet |-> PlacesIn(f, n)]]
<1>1. G \in [[NodeSet -> Results] -> [NodeSet -> Results]]
  BY PlacesResult, KidsLower
<1>2. ASSUME NEW f \in [NodeSet -> Results], NEW g \in [NodeSet -> Results], NEW n \in NodeSet,
             \A u \in NodeSet : nodeHeight[u] < nodeHeight[n] => f[u] = g[u]
      PROVE  G[f][n] = G[g][n]
  <2>1. \A i \in DOMAIN n.kids : f[n.kids[i]] = g[n.kids[i]]
    BY <1>2, KidsLower
  <2>2. PlacesIn(f, n) = PlacesIn(g, n)
    BY <2>1 DEF PlacesIn
  <2> QED BY <2>2
<1>3. LooksDown(G, NodeSet, Results, nodeHeight)
  <2>1. Results # {} /\ nodeHeight \in [NodeSet -> Nat]
    <3>1. [cond \in Conds |-> {}] \in Results
      BY DEF Results
    <3> QED BY <3>1, HeightAssumption
  <2>2. \A f, g \in [NodeSet -> Results] : \A n \in NodeSet :
          (\A u \in NodeSet : nodeHeight[u] < nodeHeight[n] => f[u] = g[u]) => G[f][n] = G[g][n]
    BY <1>2
  <2> HIDE DEF G
  <2> QED BY <1>1, <2>1, <2>2 DEF LooksDown
<1>4. \E f : f = [n \in NodeSet |-> PlacesIn(f, n)]
  <2>1. Solvable(G, NodeSet, Results)
    <3> HIDE DEF G
    <3> QED BY <1>3, RecursionExists
  <2> QED BY <2>1 DEF Solvable
<1>5. places = [n \in NodeSet |-> PlacesIn(places, n)]
  BY <1>4 DEF places, PlacesIn
<1>6. \A n \in NodeSet : places[n] = PlacesIn(places, n)
  BY <1>5
<1> DEFINE P == {n \in NodeSet : places[n] \in Results}
<1>7. ASSUME NEW n \in NodeSet, \A u \in NodeSet : nodeHeight[u] < nodeHeight[n] => u \in P
      PROVE  n \in P
  <2>1. \A i \in DOMAIN n.kids : places[n.kids[i]] \in Results
    BY <1>7, KidsLower
  <2>2. PlacesIn(places, n) \in Results
    BY <2>1, PlacesResult
  <2> QED BY <1>6, <2>2
<1>8. NodeSet \subseteq P
  <2> HIDE DEF P
  <2> QED BY <1>7, HeightAssumption, DescentInduction
<1> QED BY <1>6, <1>8

-----------------------------------------------------------------------------
\* Of any node, find returns the first of the places below it.
LEMMA FindsFirst ==
  \A n \in NodeSet : \A cond \in Conds :
    /\ find[n][cond] = First(places[n][cond])
    /\ places[n][cond] # {} => find[n][cond] # {}
<1> DEFINE Q(n, cond) ==
             /\ find[n][cond] = First(places[n][cond])
             /\ places[n][cond] # {} => find[n][cond] # {}
           P == {n \in NodeSet : \A cond \in Conds : Q(n, cond)}
<1>1. ASSUME NEW n \in NodeSet, \A u \in NodeSet : nodeHeight[u] < nodeHeight[n] => u \in P
      PROVE  n \in P
  <2>1. \A i \in DOMAIN n.kids : n.kids[i] \in NodeSet /\ n.kids[i] \in P
    BY <1>1, KidsLower
  <2>2. SUFFICES ASSUME NEW cond \in Conds PROVE Q(n, cond)
    OBVIOUS
  <2> DEFINE I == DOMAIN n.kids
             H == [i \in I |-> places[n.kids[i]][cond]]
             F == [i \in I |-> find[n.kids[i]][cond]]
             B == UNION {Below(i, H[i]) : i \in I}
             R == UNION {Below(i, F[i]) : i \in I}
             S == {p \in R : \A q \in R : p[1] <= q[1]}
  <2>3. \A i \in I : /\ H[i] \subseteq Seq(Nat)
                     /\ F[i] = First(H[i])
                     /\ H[i] # {} => F[i] # {}
    <3>1. \A i \in I : Q(n.kids[i], cond)
      BY <2>1
    <3>2. \A i \in I : places[n.kids[i]][cond] \subseteq Seq(Nat)
      BY <2>1, PlacesDef DEF Results
    <3>3. \A i \in I : H[i] = places[n.kids[i]][cond] /\ F[i] = find[n.kids[i]][cond]
      OBVIOUS
    <3> HIDE DEF I, H, F
    <3> QED BY <3>1, <3>2, <3>3
  <2>4. S = First(B) /\ (B # {} => S # {})
    <3>1. I \subseteq Nat
      BY KidsLower
    <3>2. /\ B = UNION {Below(i, H[i]) : i \in I}
          /\ R = UNION {Below(i, F[i]) : i \in I}
          /\ S = {p \in R : \A q \in R : p[1] <= q[1]}
      OBVIOUS
    <3> HIDE DEF I, H, F, B, R, S
    <3>3. FromChildren(I, H, F, B, R, S)
      BY <2>3, <3>1, <3>2 DEF FromChildren
    <3> QED BY <3>3, FirstOfChildren
  <2>5. find[n][cond] = IF n \in cond THEN {<<>>} ELSE S
    <3>1. R = UNION {Below(i, find[n.kids[i]][cond]) : i \in DOMAIN n.kids}
      OBVIOUS
    <3>2. find[n][cond] = FindIn(find, n)[cond]
      BY FindDef
    <3> HIDE DEF R
    <3> QED BY <3>1, <3>2 DEF FindIn
  <2>6. places[n][cond] = {p \in {<<>>} : n \in cond} \cup B
    <3>1. B = UNION {Below(i, places[n.kids[i]][cond]) : i \in DOMAIN n.kids}
      OBVIOUS
    <3>2. places[n][cond] = PlacesIn(places, n)[cond]
      BY PlacesDef
    <3> HIDE DEF B
    <3> QED BY <3>1, <3>2 DEF PlacesIn
  <2>7. CASE n \in cond
    <3>1. <<>> \in places[n][cond] /\ places[n][cond] \subseteq Seq(Nat)
      BY <2>6, <2>7, PlacesDef DEF Results
    <3>2. First(places[n][cond]) = {<<>>}
      BY <3>1, RootFirst
    <3> QED BY <2>5, <2>7, <3>2
  <2>8. CASE n \notin cond
    <3>1. find[n][cond] = S /\ places[n][cond] = B
      BY <2>5, <2>6, <2>8
    <3> HIDE DEF S, B
    <3> QED BY <2>4, <3>1
  <2> QED BY <2>7, <2>8
<1>2. NodeSet \subseteq P
  <2> HIDE DEF P
  <2> QED BY <1>1, HeightAssumption, DescentInduction
<1>3. ASSUME NEW n \in NodeSet, NEW cond \in Conds PROVE Q(n, cond)
  <2> HIDE DEF Q
  <2> QED BY <1>2
<1> QED BY <1>3

\* find returns the first node that the condition holds of, in every program.
THEOREM FindsTheFirst == Spec => []FindIsFirst
<1>1. IInv => FindIsFirst
  <2> SUFFICES ASSUME IInv PROVE FindIsFirst
    OBVIOUS
  <2>1. prog \in NodeSet
    BY ProgForgets DEF IInv
  <2> QED BY <2>1, FindsFirst DEF FindIsFirst, Find
<1> QED BY <1>1, Invariant, PTL
=============================================================================
