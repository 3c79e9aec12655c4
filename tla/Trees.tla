------------------------------- MODULE Trees -------------------------------
(***************************************************************************)
(* What the compiler does with a whole tree from its root down: the dump   *)
(* of --graph, tree_dotfile (debug_tree.cpp), and the destructors that run *)
(* when the parser's state is deleted. A node is known by its place, the   *)
(* sequence of child numbers that leads to it: two nodes of a tree may be  *)
(* equal records. Places are not part of the program's state; they stand   *)
(* for the pointers.                                                       *)
(***************************************************************************)
EXTENDS Nodes, SequencesExt

CONSTANTS
  NodeSet,    \* the nodes of the programs, at whatever depth
  Sources     \* the programs

\* Children are nodes.
ASSUME NodesAssumption ==
  \A n \in NodeSet : n.kids \in Seq(NodeSet)

ASSUME SourcesAssumption ==
  \A s \in Sources : s \in NodeSet /\ s = ProgramSource(s.kids)

VARIABLES
  prog,     \* the ProgramSource
  nodes,    \* the queue of tree_dotfile: nodes with their ids
  id,       \* the next id
  dot,      \* what is written: the nodes with their labels, and the edges
  doomed,   \* nodes that a destructor in progress will delete, the next one first
  freed     \* places whose node has been deleted

vars == <<prog, nodes, id, dot, doomed, freed>>

\* Identifiers and literals are labelled with their value, other nodes with
\* the name of their class.
Label(n) ==
  IF n.k \in {"Ident", "TypeIdent", "IntLiteral", "FloatLiteral", "BoolLiteral"}
  THEN n.v ELSE n.k

WithId(node, place, i) == [node |-> node, place |-> place, id |-> i]

-----------------------------------------------------------------------------
Init ==
  /\ prog \in Sources
  /\ nodes = <<WithId(prog, <<>>, 0)>>
  /\ id = 1
  /\ dot = [written |-> <<>>, edges |-> {}]
  /\ doomed = <<[node |-> prog, place |-> <<>>]>>
  /\ freed = {}

\* Mutant of Children: the id is the same for every child.
ChildrenAlike(this) ==
  [i \in DOMAIN this.node.kids |-> WithId(this.node.kids[i], Append(this.place, i), id)]

Children(this) ==
  [i \in DOMAIN this.node.kids |-> WithId(this.node.kids[i], Append(this.place, i), id + i - 1)]

\* Mutant of Push: the children go before the nodes that wait.
PushBefore(queue, children) == children \o queue

Push(queue, children) == queue \o children

\* Mutant of Visit: the node goes back into the queue.
VisitAgain ==
  /\ nodes # <<>>
  /\ nodes' = Append(Tail(nodes), Head(nodes))
  /\ UNCHANGED <<prog, id, dot, doomed, freed>>

\* One round of tree_dotfile's loop.
Visit ==
  LET this == Head(nodes)
      children == Children(this)
  IN  /\ nodes # <<>>
      /\ nodes' = Push(Tail(nodes), children)
      /\ id' = id + Len(children)
      /\ dot' = [written |-> Append(dot.written, [item |-> this, label |-> Label(this.node)]),
                 edges |-> dot.edges \cup {<<this.id, c.id>> : c \in Range(children)}]
      /\ UNCHANGED <<prog, doomed, freed>>

Owned(this) ==
  IF this.node.owns
  THEN [i \in DOMAIN this.node.kids |-> [node |-> this.node.kids[i], place |-> Append(this.place, i)]]
  ELSE <<>>

\* One destructor; that of the program is called by ~ParserState, once the
\* dump is written.
Delete ==
  LET this == Head(doomed)
  IN  /\ nodes = <<>> /\ doomed # <<>>
      /\ freed' = freed \cup {this.place}
      /\ doomed' = Owned(this) \o Tail(doomed)
      /\ UNCHANGED <<prog, nodes, id, dot>>

Next == Visit \/ Delete

\* The loop and the destructors run on one thread that nothing stops.
Spec == Init /\ [][Next]_vars /\ WF_vars(Next)

-----------------------------------------------------------------------------
(* Properties.                                                             *)

\* The dump is breadth first: the ids follow the order in which the nodes
\* are written, and no node is written after a deeper one or before its
\* parent; equal subtrees of the program are told apart.
LevelByLevel ==
  /\ \A i \in DOMAIN dot.written : dot.written[i].item.id = i - 1
  /\ \A i, j \in DOMAIN nodes : i < j => Len(nodes[i].place) <= Len(nodes[j].place)
  /\ \A e \in dot.edges : e[1] < e[2]

\* At its end the dump is the tree: it begins with the program, no node is
\* in it twice, every child of a node in it is in it with the label of the
\* child and an edge from the node, and there is no other edge.
DumpIsTree ==
  LET w == dot.written
      IsChild(c, this, k) == /\ c.item.place = Append(this.item.place, k)
                             /\ c.label = Label(this.item.node.kids[k])
  IN  nodes = <<>> =>
        /\ w # <<>> /\ w[1].item.node = prog
        /\ \A i, j \in DOMAIN w : w[i].item.place = w[j].item.place => i = j
        /\ \A i \in DOMAIN w : \A k \in DOMAIN w[i].item.node.kids :
             \E j \in DOMAIN w : IsChild(w[j], w[i], k) /\ <<i - 1, j - 1>> \in dot.edges
        /\ \A e \in dot.edges : \E i, j \in DOMAIN w :
             e = <<i - 1, j - 1>> /\ \E k \in DOMAIN w[i].item.node.kids : IsChild(w[j], w[i], k)

\* The symbols of the functions in BUILTIN_DECLS outlive the program they
\* were parsed from: setup_symtable keeps a clone of its table, whose symbols
\* point at the same declarations, and deletes the rest.
BuiltinsLive ==
  \A p \in freed : p # <<>> => prog.kids[p[1]].k # "FuncDecl"

\* The loop ends, and the state is deleted.
DumpEnds == <>(nodes = <<>>)
=============================================================================
