----------------------------- MODULE TypeGraph -----------------------------
(***************************************************************************)
(* The graph of dependencies between types (pkg/compiler/depend.go): nodes *)
(* and edges are added while Go source is compiled, an edge that completes *)
(* a cycle is refused, and genCode writes the code that creates the types, *)
(* each after the types it needs.                                          *)
(*                                                                         *)
(* The three recursive functions, hasCycleHelper, dfsHelper and            *)
(* makeRequiredTypes, are one depth-first search, taken step by step with  *)
(* the stack of their calls; "mode" says which of the three it is.         *)
(***************************************************************************)
EXTENDS Integers, Sequences

CONSTANT Node  \* the types that are not basic: basic ones get no edges

VARIABLES
    nodes,     \* dfsNodes
    children,  \* [Node -> node.children]; dedupChildren is the set of them
    stale,     \* dfsState.stale
    order,     \* dfsOrder
    visited,   \* the nodes with node.visited
    made,      \* the nodes with node.made
    out,       \* the nodes whose code has been written, in that order; the
               \* set of them has node.printed
    mode,      \* "idle", or the search that runs: "cycle", "order" or "gen"
    edge,      \* [par, ch] of the addChild call in progress
    roots,     \* the nodes the search still has to start from
    stack      \* the calls in progress, innermost last: [node, next child]

graph == <<nodes, children>>
search == <<mode, edge, roots, stack>>
vars == <<nodes, children, stale, order, visited, made, out, mode, edge, roots, stack>>
-----------------------------------------------------------------------------
Elems(s) == {s[i] : i \in DOMAIN s}

NoEdge == [par |-> {}, ch |-> {}]

Init ==
    /\ nodes = <<>>
    /\ children = [n \in Node |-> <<>>]
    /\ stale = FALSE
    /\ order = <<>>
    /\ visited = {}
    /\ made = {}
    /\ out = <<>>
    /\ mode = "idle"
    /\ edge = NoEdge
    /\ roots = <<>>
    /\ stack = <<>>

\* newDfsNode for a type that has no node yet. The graph's stale flag is not
\* touched: the "stale: true" of the composite literal is the node's own.
NewNode(n) ==
    /\ mode = "idle"
    /\ n \notin Elems(nodes)
    /\ nodes' = Append(nodes, n)
    /\ UNCHANGED <<children, stale, order, visited, made, out, search>>

\* addChild puts the edge in, and hasCycle begins with markGraphUnVisited.
InsertEdge(p, c) ==
    /\ children' = [children EXCEPT ![p] = Append(@, c)]
    /\ stale' = TRUE
    /\ order' = <<>>
    /\ visited' = {}
    /\ mode' = "cycle"
    /\ edge' = [par |-> p, ch |-> c]
    /\ roots' = nodes
    /\ UNCHANGED <<nodes, made, out, stack>>

\* Defect: the dedupChildren test is missing.
AddChild_Twice(p, c) ==
    /\ mode = "idle"
    /\ p # c
    /\ {p, c} \subseteq Elems(nodes)
    /\ InsertEdge(p, c)

\* addChild, called with two different nodes. (Of a child that is there
\* already, and of a basic type, it returns with nothing changed.)
AddChild(p, c) ==
    /\ mode = "idle"
    /\ p # c
    /\ {p, c} \subseteq Elems(nodes)
    /\ c \notin Elems(children[p])
    /\ InsertEdge(p, c)

\* genCode: doDFS first when the order is stale (it, too, begins with
\* markGraphUnVisited), then makeRequiredTypes of the nodes in that order.
GenCode ==
    /\ mode = "idle"
    /\ IF stale
       THEN /\ mode' = "order"
            /\ roots' = nodes
            /\ order' = <<>>
            /\ visited' = {}
            /\ stale' = FALSE
       ELSE /\ mode' = "gen"
            /\ roots' = order
            /\ UNCHANGED <<order, visited, stale>>
    /\ UNCHANGED <<graph, made, out, edge, stack>>

\* reset: an empty graph; the next nodes are new objects.
Reset ==
    /\ mode = "idle"
    /\ nodes' = <<>>
    /\ children' = [n \in Node |-> <<>>]
    /\ order' = <<>>
    /\ visited' = {}
    /\ made' = {}
    /\ out' = <<>>
    /\ stale' = FALSE
    /\ UNCHANGED search
-----------------------------------------------------------------------------
\* Defect: makeRequiredTypes goes by the flag of the other searches.
Marked_Visited == visited

\* The flag that keeps the search from entering a node a second time.
Marked == IF mode = "gen" THEN made ELSE visited

\* The guard and the first statements of the three helpers, for a root or for
\* a child: nothing for a marked node, else mark it and go on with its children.
Enter(n, below) ==
    IF n \in Marked
    THEN /\ stack' = below
         /\ UNCHANGED <<visited, made>>
    ELSE /\ stack' = Append(below, [node |-> n, next |-> 1])
         /\ visited' = IF mode = "gen" THEN visited ELSE visited \cup {n}
         /\ made' = IF mode = "gen" THEN made \cup {n} ELSE made

Top == stack[Len(stack)]

Below == SubSeq(stack, 1, Len(stack) - 1)

\* Defect: the node is not deleted from ancestors when its call returns.
Ancestors_Kept == visited

\* hasCycleHelper's ancestors: entered at the call, deleted at its end.
Ancestors == {stack[i].node : i \in DOMAIN stack}

\* The next call at the top level: the loops of hasCycle, doDFS and genCode.
NextRoot ==
    /\ mode # "idle"
    /\ stack = <<>>
    /\ roots # <<>>
    /\ Enter(Head(roots), stack)
    /\ roots' = Tail(roots)
    /\ UNCHANGED <<graph, stale, order, out, mode, edge>>

\* Defect: a child that was visited is passed over before it is looked up
\* among the ancestors.
ClosesCycle_Late(n) == mode = "cycle" /\ n \in Ancestors /\ n \notin visited

ClosesCycle(n) == mode = "cycle" /\ n \in Ancestors

\* The next child of the innermost call that ends no cycle.
NextChild ==
    /\ stack # <<>>
    /\ Top.next <= Len(children[Top.node])
    /\ LET ch == children[Top.node][Top.next]
       IN  /\ ~ClosesCycle(ch)
           /\ Enter(ch, Append(Below, [Top EXCEPT !.next = @ + 1]))
    /\ UNCHANGED <<graph, stale, order, out, mode, edge, roots>>

\* A child that is an ancestor: the calls return true, and addChild takes the
\* edge out again and panics. The front end recovers and goes on with this graph.
CycleFound ==
    /\ stack # <<>>
    /\ Top.next <= Len(children[Top.node])
    /\ ClosesCycle(children[Top.node][Top.next])
    /\ children' = [children EXCEPT ![edge.par] = SubSeq(@, 1, Len(@) - 1)]
    /\ mode' = "idle"
    /\ edge' = NoEdge
    /\ roots' = <<>>
    /\ stack' = <<>>
    /\ UNCHANGED <<nodes, stale, order, visited, made, out>>

\* Defect: the order is built from the other end.
Finish_Front ==
    /\ stack # <<>>
    /\ Top.next > Len(children[Top.node])
    /\ order' = IF mode = "order" THEN <<Top.node>> \o order ELSE order
    /\ out' = IF mode = "gen" /\ Top.node \notin Elems(out)
              THEN Append(out, Top.node) ELSE out
    /\ stack' = Below
    /\ UNCHANGED <<graph, stale, visited, made, mode, edge, roots>>

\* The end of a call, after the last child: dfsHelper appends to the order,
\* makeRequiredTypes blooms (every node has an entry in codeMap).
Finish ==
    /\ stack # <<>>
    /\ Top.next > Len(children[Top.node])
    /\ order' = IF mode = "order" THEN Append(order, Top.node) ELSE order
    /\ out' = IF mode = "gen" /\ Top.node \notin Elems(out)
              THEN Append(out, Top.node) ELSE out
    /\ stack' = Below
    /\ UNCHANGED <<graph, stale, visited, made, mode, edge, roots>>

\* The loop over the roots has ended: addChild returns, doDFS goes back to
\* genCode, genCode returns.
Done ==
    /\ mode # "idle"
    /\ stack = <<>>
    /\ roots = <<>>
    /\ mode' = IF mode = "order" THEN "gen" ELSE "idle"
    /\ roots' = IF mode = "order" THEN order ELSE <<>>
    /\ edge' = NoEdge
    /\ UNCHANGED <<graph, stale, order, visited, made, out, stack>>

Next ==
    \/ \E n \in Node : NewNode(n)
    \/ \E p, c \in Node : AddChild(p, c)
    \/ GenCode
    \/ Reset
    \/ NextRoot
    \/ NextChild
    \/ CycleFound
    \/ Finish
    \/ Done

Spec == Init /\ [][Next]_vars
-----------------------------------------------------------------------------
Injective(s) == \A i, j \in DOMAIN s : s[i] = s[j] => i = j

\* The shape of the state: no node is listed twice among the nodes, among the
\* children of a node or in the output, and the children have nodes.
TypeOK ==
    /\ nodes \in Seq(Node) /\ Injective(nodes)
    /\ children \in [Node -> Seq(Node)]
    /\ \A n \in Node : Injective(children[n]) /\ Elems(children[n]) \subseteq Elems(nodes)
    /\ stale \in BOOLEAN
    /\ order \in Seq(Node)
    /\ visited \subseteq Node
    /\ made \subseteq Node
    /\ out \in Seq(Node) /\ Injective(out)
    /\ mode \in {"idle", "cycle", "order", "gen"}
    /\ roots \in Seq(Node)
    /\ stack \in Seq([node : Node, next : Nat \ {0}])

Kids(n) == Elems(children[n])

\* Of any nodes of S, some have no children among them: kids has no cycle in S.
NoCycle(kids, S) ==
    \A T \in SUBSET S : T # {} => \E n \in T : Elems(kids[n]) \cap T = {}

\* Except while addChild tries a new edge, the graph has no cycle: the search
\* of hasCycle misses none, whatever the order of nodes and children.
Acyclic == mode # "cycle" => NoCycle(children, Node)

\* addChild backs an edge out only when the graph with it has a cycle: types
\* that are needed along several paths are no cycles (depend.go:173).
RefusesOnlyCycles ==
    [][CycleFound => ~NoCycle(children, Node)]_vars

\* A node's children come before it in s.
ChildrenFirst(s) ==
    \A i \in DOMAIN s : \A c \in Kids(s[i]) : \E j \in 1 .. i - 1 : s[j] = c

\* An order that is not stale has every node that has children, each once and
\* after all of its children, whatever was refused or added before.
OrderIsTopological ==
    mode \in {"idle", "gen"} /\ ~stale =>
        /\ ChildrenFirst(order)
        /\ Injective(order)
        /\ \A n \in Node : Kids(n) # {} => n \in Elems(order)

\* After genCode the code of every node in the order has been written: the
\* flags made and printed of earlier calls hide none.
AllWritten == mode = "idle" /\ ~stale => Elems(order) \subseteq Elems(out)

\* The code of a type is written after the code of the types it depends on at
\* that time, also when earlier calls of genCode wrote some of them.
DependenciesFirst ==
    [][\A n \in Elems(out') \ Elems(out) : Kids(n) \subseteq Elems(out)]_vars
=============================================================================
