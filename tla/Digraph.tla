------------------------------ MODULE Digraph ------------------------------
(***************************************************************************)
(* The directed graph every Microcode component is stored in.  A graph is  *)
(* a record of the four containers of the C++ template:                    *)
(*   nodes  the set of node ids                                            *)
(*   edges  a function from pairs of node ids to the data of the edge      *)
(*   succ   for each node the set of its direct successors                 *)
(*   pred   for each node the set of its direct predecessors               *)
(* The lists of successors and predecessors are redundant with the edges   *)
(* and are maintained by hand in the code, so they are kept apart here;    *)
(* their order, which nothing below tells apart, is abstracted to a set.   *)
(* What the code demands by an ASSUMPTION is a separate Can... predicate.  *)
(* The operators only touch their four fields, so they apply to any record *)
(* that has them.                                                          *)
(***************************************************************************)
EXTENDS Integers, Functions

\* The function f with the values of g on the domain of g.
Overlay(f, g) ==
  [e \in DOMAIN f \cup DOMAIN g |-> IF e \in DOMAIN g THEN g[e] ELSE f[e]]

\* One edge with its data.
OneEdge(e, data) == [d \in {e} |-> data]

Successors(G, n) == G.succ[n]
Predecessors(G, n) == G.pred[n]

EmptyDigraph == [nodes |-> {}, edges |-> << >>, succ |-> << >>, pred |-> << >>]

CanInsertNodes(G, N) == N \cap G.nodes = {}

InsertNodes(G, N) ==
  [G EXCEPT !.nodes = @ \cup N,
            !.succ  = [n \in DOMAIN @ \cup N |-> IF n \in N THEN {} ELSE G.succ[n]],
            !.pred  = [n \in DOMAIN @ \cup N |-> IF n \in N THEN {} ELSE G.pred[n]]]

\* E maps the new edges to their data.
CanInsertEdges(G, E) ==
  \A e \in DOMAIN E : /\ e \notin DOMAIN G.edges
                      /\ e[1] \in G.nodes
                      /\ e[2] \in G.nodes

\* A slip: the predecessor lists are forgotten.
InsertEdgesOneSided(G, E) ==
  [G EXCEPT !.edges = Overlay(@, E),
            !.succ  = [n \in DOMAIN @ |->
                         G.succ[n] \cup {m \in G.nodes : <<n, m>> \in DOMAIN E}]]

InsertEdges(G, E) ==
  [G EXCEPT !.edges = Overlay(@, E),
            !.succ  = [n \in DOMAIN @ |->
                         G.succ[n] \cup {m \in G.nodes : <<n, m>> \in DOMAIN E}],
            !.pred  = [n \in DOMAIN @ |->
                         G.pred[n] \cup {m \in G.nodes : <<m, n>> \in DOMAIN E}]]

CanEraseEdges(G, D) ==
  \A e \in D : e[1] \in G.nodes /\ e[2] \in G.nodes /\ e[2] \in G.succ[e[1]]

EraseEdges(G, D) ==
  [G EXCEPT !.edges = Restrict(@, DOMAIN @ \ D),
            !.succ  = [n \in DOMAIN @ |-> {m \in G.succ[n] : <<n, m>> \notin D}],
            !.pred  = [n \in DOMAIN @ |-> {m \in G.pred[n] : <<m, n>> \notin D}]]

\* The edges that erasing the node n takes along, found through the two lists.
IncidentEdges(G, n) ==
  {<<n, m>> : m \in G.succ[n]} \cup {<<m, n>> : m \in G.pred[n]}

EraseNode(G, n) ==
  LET H == EraseEdges(G, IncidentEdges(G, n))
  IN  [H EXCEPT !.nodes = @ \ {n},
                !.succ  = Restrict(@, DOMAIN @ \ {n}),
                !.pred  = Restrict(@, DOMAIN @ \ {n})]

(***************************************************************************)
(* What the hand-maintained lists promise: they mirror the edges exactly.  *)
(***************************************************************************)
IsDigraph(G) ==
  /\ DOMAIN G.edges \subseteq G.nodes \X G.nodes
  /\ DOMAIN G.succ = G.nodes
  /\ DOMAIN G.pred = G.nodes
  /\ \A n \in G.nodes : G.succ[n] = {m \in G.nodes : <<n, m>> \in DOMAIN G.edges}
  /\ \A n \in G.nodes : G.pred[n] = {m \in G.nodes : <<m, n>> \in DOMAIN G.edges}

=============================================================================
