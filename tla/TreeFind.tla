------------------------------ MODULE TreeFind ------------------------------
(***************************************************************************)
(* The search through a tree, ASTNode::find (ast.cpp), against a reference *)
(* that looks at all the places of the tree. A condition is the set of the *)
(* nodes that it holds of. The node that is returned is known by its place *)
(* below the node searched, as in Trees: there may be others equal to it.  *)
(***************************************************************************)
EXTENDS Trees

CONSTANTS
  Conds,      \* the conditions nodes are searched for
  nodeHeight  \* the function from nodes to the height of what is below them

\* A tree is built from its leaves: no node is below itself.
ASSUME HeightAssumption ==
  /\ nodeHeight \in [NodeSet -> Nat]
  /\ \A n \in NodeSet : \A i \in DOMAIN n.kids : nodeHeight[n.kids[i]] < nodeHeight[n]

Below(i, places) == {<<i>> \o p : p \in places}

\* find: the node itself, or the result of the first child that has one; no
\* place for nullptr.
find[n \in NodeSet] == [cond \in Conds |->
  LET results == UNION {Below(i, find[n.kids[i]][cond]) : i \in DOMAIN n.kids}
  IN  IF n \in cond THEN {<<>>} ELSE {p \in results : \A q \in results : p[1] <= q[1]}]

\* Mutant of Find: a match below a later child is preferred to one before.
findLast[n \in NodeSet] == [cond \in Conds |->
  LET results == UNION {Below(i, findLast[n.kids[i]][cond]) : i \in DOMAIN n.kids}
  IN  IF n \in cond THEN {<<>>} ELSE {p \in results : \A q \in results : p[1] >= q[1]}]
FindLast(n, cond) == findLast[n][cond]

Find(n, cond) == find[n][cond]

-----------------------------------------------------------------------------
\* The places of the nodes below n, and n itself, of which cond holds.
places[n \in NodeSet] == [cond \in Conds |->
  {p \in {<<>>} : n \in cond}
    \cup UNION {Below(i, places[n.kids[i]][cond]) : i \in DOMAIN n.kids}]

\* A place comes before those below it and those to the right of it: after
\* what they have in common it ends, or turns to an earlier child.
Before(p, q) ==
  \E m \in 0..Len(p) :
    /\ m < Len(q)
    /\ \A j \in 1..m : p[j] = q[j]
    /\ m = Len(p) \/ p[m + 1] < q[m + 1]

First(S) == {p \in S : \A q \in S : q = p \/ Before(p, q)}

\* find returns the first node that the condition holds of, in the order of
\* the text, and nothing only if there is none.
FindIsFirst ==
  \A cond \in Conds :
    LET hits == places[prog][cond]
    IN  /\ Find(prog, cond) = First(hits)
        /\ hits # {} => Find(prog, cond) # {}
=============================================================================
