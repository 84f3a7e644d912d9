----------------------- MODULE ProgramComponentProofs -----------------------
(***************************************************************************)
(* What the operations on digraphs and on components preserve and return,  *)
(* for every graph and every argument.                                     *)
(***************************************************************************)
EXTENDS ProgramComponent, FiniteSetTheorems, TLAPS

Fields == {"nodes", "edges", "succ", "pred", "entry", "exits"}

\* The inductive shape of a component: lists that mirror the edges, exits that
\* are the sinks, an entry among the nodes.
Good(C) ==
  /\ DOMAIN C = Fields
  /\ IsDigraph(C)
  /\ C.exits = {n \in C.nodes : C.succ[n] = {}}
  /\ C.entry \in C.nodes

\* What the operations that create nodes return: a good component whose new
\* nodes are the ids given out meanwhile.
Grown(C, r, fresh) ==
  /\ r.fresh \in Nat
  /\ r.fresh >= fresh
  /\ Good(r.comp)
  /\ r.comp.nodes = C.nodes \cup (fresh + 1)..r.fresh
  /\ r.comp.entry = C.entry

Apart(C, O) == C.nodes \cap O.nodes = {}

\* The edges that do not touch the node n.
EdgesApartFrom(G, n) == {d \in DOMAIN G.edges : d[1] # n /\ d[2] # n}

-----------------------------------------------------------------------------
\* Inserting nodes keeps the lists in step with the edges.
LEMMA InsertNodesKeeps ==
  ASSUME NEW G, DOMAIN G = Fields, IsDigraph(G), NEW N, CanInsertNodes(G, N)
  PROVE  LET H == InsertNodes(G, N)
         IN  /\ DOMAIN H = Fields
             /\ IsDigraph(H)
             /\ H.nodes = G.nodes \cup N
             /\ H.edges = G.edges
             /\ H.entry = G.entry
             /\ H.exits = G.exits
             /\ \A n \in G.nodes : H.succ[n] = G.succ[n]
             /\ \A n \in N : H.succ[n] = {}
<1> DEFINE H == InsertNodes(G, N)
<1>1. /\ DOMAIN H = Fields
      /\ H.nodes = G.nodes \cup N
      /\ H.edges = G.edges
      /\ H.entry = G.entry
      /\ H.exits = G.exits
      /\ H.succ = [n \in DOMAIN G.succ \cup N |-> IF n \in N THEN {} ELSE G.succ[n]]
      /\ H.pred = [n \in DOMAIN G.pred \cup N |-> IF n \in N THEN {} ELSE G.pred[n]]
  BY DEF InsertNodes, Fields
<1>2. IsDigraph(H)
  BY <1>1 DEF IsDigraph, CanInsertNodes
<1> QED
  BY <1>1, <1>2 DEF IsDigraph, CanInsertNodes

\* Inserting edges between nodes of the graph keeps the lists in step.
LEMMA InsertEdgesKeeps ==
  ASSUME NEW G, DOMAIN G = Fields, IsDigraph(G),
         NEW E, DOMAIN E \subseteq G.nodes \X G.nodes
  PROVE  LET H == InsertEdges(G, E)
         IN  /\ DOMAIN H = Fields
             /\ IsDigraph(H)
             /\ H.nodes = G.nodes
             /\ H.edges = Overlay(G.edges, E)
             /\ H.entry = G.entry
             /\ H.exits = G.exits
             /\ \A n \in G.nodes :
                  H.succ[n] = G.succ[n] \cup {m \in G.nodes : <<n, m>> \in DOMAIN E}
<1> DEFINE H == InsertEdges(G, E)
<1>1. /\ DOMAIN H = Fields
      /\ H.nodes = G.nodes
      /\ H.edges = Overlay(G.edges, E)
      /\ H.entry = G.entry
      /\ H.exits = G.exits
      /\ H.succ = [n \in DOMAIN G.succ |->
                     G.succ[n] \cup {m \in G.nodes : <<n, m>> \in DOMAIN E}]
      /\ H.pred = [n \in DOMAIN G.pred |->
                     G.pred[n] \cup {m \in G.nodes : <<m, n>> \in DOMAIN E}]
  BY DEF InsertEdges, Fields
<1>2. IsDigraph(H)
  BY <1>1 DEF IsDigraph, Overlay
<1> QED
  BY <1>1, <1>2 DEF IsDigraph

\* Erasing any set of edges keeps the lists in step.
LEMMA EraseEdgesKeeps ==
  ASSUME NEW G, DOMAIN G = Fields, IsDigraph(G), NEW D
  PROVE  LET H == EraseEdges(G, D)
         IN  /\ DOMAIN H = Fields
             /\ IsDigraph(H)
             /\ H.nodes = G.nodes
             /\ H.edges = Restrict(G.edges, DOMAIN G.edges \ D)
             /\ H.entry = G.entry
             /\ H.exits = G.exits
             /\ \A n \in G.nodes : H.succ[n] = {m \in G.succ[n] : <<n, m>> \notin D}
<1> DEFINE H == EraseEdges(G, D)
<1>1. /\ DOMAIN H = Fields
      /\ H.nodes = G.nodes
      /\ H.edges = Restrict(G.edges, DOMAIN G.edges \ D)
      /\ H.entry = G.entry
      /\ H.exits = G.exits
      /\ H.succ = [n \in DOMAIN G.succ |-> {m \in G.succ[n] : <<n, m>> \notin D}]
      /\ H.pred = [n \in DOMAIN G.pred |-> {m \in G.pred[n] : <<m, n>> \notin D}]
  BY DEF EraseEdges, Restrict, Fields
<1>2. IsDigraph(H)
  BY <1>1 DEF IsDigraph, Restrict
<1> QED
  BY <1>1, <1>2 DEF IsDigraph

\* Erasing a node takes exactly its own edges along.
LEMMA EraseNodeKeeps ==
  ASSUME NEW G, DOMAIN G = Fields, IsDigraph(G), NEW n \in G.nodes
  PROVE  LET H == EraseNode(G, n)
         IN  /\ DOMAIN H = Fields
             /\ IsDigraph(H)
             /\ H.nodes = G.nodes \ {n}
             /\ H.edges = Restrict(G.edges, EdgesApartFrom(G, n))
             /\ H.entry = G.entry
             /\ H.exits = G.exits
             /\ \A m \in H.nodes : H.succ[m] = G.succ[m] \ {n}
<1> DEFINE D == EraseEdges(G, IncidentEdges(G, n))
           H == EraseNode(G, n)
<1>1. /\ DOMAIN D = Fields
      /\ IsDigraph(D)
      /\ D.nodes = G.nodes
      /\ D.edges = Restrict(G.edges, DOMAIN G.edges \ IncidentEdges(G, n))
      /\ D.entry = G.entry
      /\ D.exits = G.exits
      /\ \A m \in G.nodes : D.succ[m] = {k \in G.succ[m] : <<m, k>> \notin IncidentEdges(G, n)}
  BY EraseEdgesKeeps DEF Restrict
<1>2. /\ DOMAIN H = Fields
      /\ H.nodes = G.nodes \ {n}
      /\ H.edges = D.edges
      /\ H.entry = G.entry
      /\ H.exits = G.exits
      /\ H.succ = [m \in DOMAIN D.succ \ {n} |-> D.succ[m]]
      /\ H.pred = [m \in DOMAIN D.pred \ {n} |-> D.pred[m]]
  BY <1>1 DEF EraseNode, Restrict, Fields
<1>3. DOMAIN G.edges \ IncidentEdges(G, n) = EdgesApartFrom(G, n)
  <2>1. ASSUME NEW d \in DOMAIN G.edges
        PROVE  d \in IncidentEdges(G, n) <=> (d[1] = n \/ d[2] = n)
    <3>1. d \in G.nodes \X G.nodes /\ d = <<d[1], d[2]>>
      BY DEF IsDigraph
    <3>2. ASSUME d[1] = n PROVE d \in IncidentEdges(G, n)
      BY <3>1, <3>2 DEF IsDigraph, IncidentEdges
    <3>3. ASSUME d[2] = n PROVE d \in IncidentEdges(G, n)
      BY <3>1, <3>3 DEF IsDigraph, IncidentEdges
    <3>4. ASSUME d \in IncidentEdges(G, n) PROVE d[1] = n \/ d[2] = n
      BY <3>1, <3>4 DEF IncidentEdges
    <3> QED
      BY <3>2, <3>3, <3>4
  <2> QED
    BY <2>1 DEF EdgesApartFrom
<1>4. \A d \in DOMAIN H.edges : d[1] # n /\ d[2] # n
  BY <1>1, <1>2, <1>3 DEF Restrict, EdgesApartFrom
<1>5. DOMAIN H.edges \subseteq H.nodes \X H.nodes
  BY <1>1, <1>2, <1>4 DEF IsDigraph, Restrict
<1>6. IsDigraph(H)
  BY <1>1, <1>2, <1>4, <1>5 DEF IsDigraph, Restrict
<1>7. ASSUME NEW m \in H.nodes PROVE H.succ[m] = G.succ[m] \ {n}
  <2>1. H.succ[m] = {k \in G.succ[m] : <<m, k>> \notin IncidentEdges(G, n)}
    BY <1>1, <1>2 DEF IsDigraph
  <2>2. ASSUME NEW k \in G.succ[m] PROVE <<m, k>> \in IncidentEdges(G, n) <=> k = n
    <3>1. <<m, k>> \in DOMAIN G.edges /\ m # n /\ k \in G.nodes /\ m \in G.nodes
      BY <1>2 DEF IsDigraph
    <3>2. k = n => <<m, k>> \in IncidentEdges(G, n)
      BY <3>1 DEF IsDigraph, IncidentEdges
    <3>3. <<m, k>> \in IncidentEdges(G, n) => k = n
      BY <3>1 DEF IncidentEdges
    <3> QED
      BY <3>2, <3>3
  <2> QED
    BY <2>1, <2>2
<1> QED
  BY <1>1, <1>2, <1>3, <1>6, <1>7

-----------------------------------------------------------------------------
\* A fresh component is good.
LEMMA NewComponentGood ==
  ASSUME NEW id
  PROVE  Good(NewComponent(id)) /\ NewComponent(id).nodes = {id}
BY DEF Good, NewComponent, IsDigraph, Fields

\* New nodes are exits.
LEMMA AddNodesGood ==
  ASSUME NEW C, Good(C), NEW N, CanInsertNodes(C, N)
  PROVE  LET R == AddNodes(C, N)
         IN  Good(R) /\ R.nodes = C.nodes \cup N /\ R.edges = C.edges /\ R.entry = C.entry
<1> DEFINE H == InsertNodes(C, N)
           R == AddNodes(C, N)
<1>1. /\ DOMAIN H = Fields
      /\ IsDigraph(H)
      /\ H.nodes = C.nodes \cup N
      /\ H.edges = C.edges
      /\ H.entry = C.entry
      /\ H.exits = C.exits
      /\ \A n \in C.nodes : H.succ[n] = C.succ[n]
      /\ \A n \in N : H.succ[n] = {}
  BY InsertNodesKeeps DEF Good
<1>2. /\ DOMAIN R = Fields
      /\ R.nodes = H.nodes
      /\ R.edges = H.edges
      /\ R.succ = H.succ
      /\ R.pred = H.pred
      /\ R.entry = H.entry
      /\ R.exits = H.exits \cup N
  BY <1>1 DEF AddNodes, Fields
<1>3. IsDigraph(R)
  BY <1>1, <1>2 DEF IsDigraph
<1> QED
  BY <1>1, <1>2, <1>3 DEF Good

\* New edges take their sources out of the exits.
LEMMA AddEdgesGood ==
  ASSUME NEW C, Good(C), NEW E, DOMAIN E \subseteq C.nodes \X C.nodes
  PROVE  LET R == AddEdges(C, E)
         IN  /\ Good(R)
             /\ R.nodes = C.nodes
             /\ R.edges = Overlay(C.edges, E)
             /\ R.entry = C.entry
<1> DEFINE H == InsertEdges(C, E)
           R == AddEdges(C, E)
<1>1. /\ DOMAIN H = Fields
      /\ IsDigraph(H)
      /\ H.nodes = C.nodes
      /\ H.edges = Overlay(C.edges, E)
      /\ H.entry = C.entry
      /\ H.exits = C.exits
      /\ \A n \in C.nodes :
           H.succ[n] = C.succ[n] \cup {m \in C.nodes : <<n, m>> \in DOMAIN E}
  <2>1. DOMAIN C = Fields /\ IsDigraph(C)
    BY DEF Good
  <2>2. /\ DOMAIN H = Fields
        /\ IsDigraph(H)
        /\ H.nodes = C.nodes
        /\ H.entry = C.entry
        /\ H.exits = C.exits
    BY <2>1, InsertEdgesKeeps, Zenon
  <2>3. /\ H.edges = Overlay(C.edges, E)
        /\ \A n \in C.nodes :
             H.succ[n] = C.succ[n] \cup {m \in C.nodes : <<n, m>> \in DOMAIN E}
    BY <2>1 DEF InsertEdges, Fields, IsDigraph
  <2> QED
    BY <2>2, <2>3
<1>2. /\ DOMAIN R = Fields
      /\ R.nodes = H.nodes
      /\ R.edges = H.edges
      /\ R.succ = H.succ
      /\ R.pred = H.pred
      /\ R.entry = H.entry
      /\ R.exits = H.exits \ {e[1] : e \in DOMAIN E}
  BY <1>1 DEF AddEdges, Fields
<1>3. IsDigraph(R)
  BY <1>1, <1>2 DEF IsDigraph
<1>4. ASSUME NEW n \in C.nodes
      PROVE  n \in {e[1] : e \in DOMAIN E} <=> {m \in C.nodes : <<n, m>> \in DOMAIN E} # {}
  <2>1. ASSUME NEW e \in DOMAIN E, e[1] = n PROVE \E m \in C.nodes : <<n, m>> \in DOMAIN E
    <3>1. e = <<e[1], e[2]>> /\ e[2] \in C.nodes
      OBVIOUS
    <3> QED
      BY <2>1, <3>1
  <2>2. ASSUME NEW m \in C.nodes, <<n, m>> \in DOMAIN E PROVE \E e \in DOMAIN E : e[1] = n
    BY <2>2
  <2> QED
    BY <2>1, <2>2
<1>5. R.exits = {n \in R.nodes : R.succ[n] = {}}
  <2> HIDE DEF H, R
  <2>1. C.exits = {n \in C.nodes : C.succ[n] = {}}
    BY DEF Good
  <2>2. \A n \in C.nodes :
          R.succ[n] = {} <=> C.succ[n] = {} /\ n \notin {e[1] : e \in DOMAIN E}
    BY <1>1, <1>2, <1>4
  <2> QED
    BY <1>1, <1>2, <2>1, <2>2
<1> QED
  BY <1>1, <1>2, <1>3, <1>5 DEF Good

\* Nodes that lose their last edge become exits.
LEMMA RemoveEdgesGood ==
  ASSUME NEW C, Good(C), NEW S, CanEraseEdges(C, S)
  PROVE  LET R == RemoveEdges(C, S)
         IN  Good(R) /\ R.nodes = C.nodes
<1> DEFINE H == EraseEdges(C, S)
           R == RemoveEdges(C, S)
<1>1. /\ DOMAIN H = Fields
      /\ IsDigraph(H)
      /\ H.nodes = C.nodes
      /\ H.entry = C.entry
      /\ H.exits = C.exits
      /\ \A n \in C.nodes : H.succ[n] = {m \in C.succ[n] : <<n, m>> \notin S}
  BY EraseEdgesKeeps, ZenonT(60) DEF Good
<1>2. /\ DOMAIN R = Fields
      /\ R.nodes = H.nodes
      /\ R.edges = H.edges
      /\ R.succ = H.succ
      /\ R.pred = H.pred
      /\ R.entry = H.entry
      /\ R.exits = H.exits \cup {m \in {e[1] : e \in S} : H.succ[m] = {}}
  BY <1>1 DEF RemoveEdges, Fields
<1>3. IsDigraph(R)
  BY <1>1, <1>2 DEF IsDigraph
<1>4. ASSUME NEW n \in C.nodes, n \notin {e[1] : e \in S} PROVE H.succ[n] = C.succ[n]
  <2>1. \A m \in C.succ[n] : <<n, m>> \notin S
    BY <1>4
  <2> QED
    BY <1>1, <2>1
<1>5. {e[1] : e \in S} \subseteq C.nodes
  BY DEF CanEraseEdges
<1>6. \A n \in C.nodes : C.succ[n] = {} => H.succ[n] = {}
  BY <1>1
<1>7. R.exits = {n \in R.nodes : R.succ[n] = {}}
  BY <1>1, <1>2, <1>4, <1>5, <1>6 DEF Good
<1> QED
  BY <1>1, <1>2, <1>3, <1>7 DEF Good

\* Removing a node without a self-loop turns the predecessors it leaves without
\* successors into exits.
LEMMA RemoveNodeGood ==
  ASSUME NEW C, Good(C), NEW n, CanRemoveNode(C, n)
  PROVE  LET R == RemoveNode(C, n)
         IN  /\ Good(R)
             /\ R.nodes = C.nodes \ {n}
             /\ R.edges = Restrict(C.edges, EdgesApartFrom(C, n))
             /\ R.entry = C.entry
<1> DEFINE H == EraseNode(C, n)
           R == RemoveNode(C, n)
<1>0. n \in C.nodes /\ n # C.entry /\ n \notin C.succ[n] /\ DOMAIN C = Fields /\ IsDigraph(C)
  BY DEF Good, CanRemoveNode
<1>1. /\ DOMAIN H = Fields
      /\ IsDigraph(H)
      /\ H.nodes = C.nodes \ {n}
      /\ H.edges = Restrict(C.edges, EdgesApartFrom(C, n))
      /\ H.entry = C.entry
      /\ H.exits = C.exits
      /\ \A m \in H.nodes : H.succ[m] = C.succ[m] \ {n}
  BY <1>0, EraseNodeKeeps
<1>2. /\ DOMAIN R = Fields
      /\ R.nodes = H.nodes
      /\ R.edges = H.edges
      /\ R.succ = H.succ
      /\ R.pred = H.pred
      /\ R.entry = H.entry
      /\ R.exits = (H.exits \ {n}) \cup {m \in C.pred[n] : H.succ[m] = {}}
  BY <1>1 DEF RemoveNode, Fields
<1>3. IsDigraph(R)
  <2>1. IsDigraph(H)
    BY <1>1
  <2> HIDE DEF H, R
  <2> QED
    BY <1>2, <2>1 DEF IsDigraph
<1>4. C.pred[n] \subseteq C.nodes \ {n}
  BY <1>0 DEF IsDigraph
<1>5. \A m \in C.nodes : n \in C.succ[m] <=> m \in C.pred[n]
  BY <1>0 DEF IsDigraph
<1>6. R.exits = {m \in R.nodes : R.succ[m] = {}}
  BY <1>1, <1>2, <1>4, <1>5 DEF Good
<1> QED
  BY <1>0, <1>1, <1>2, <1>3, <1>6 DEF Good

-----------------------------------------------------------------------------
\* The number of instructions inserted so far grows along the list.
LEMMA InsertedBounds ==
  ASSUME NEW S, NEW I \in Seq(S), NEW i \in 0..Len(I)
  PROVE  /\ Inserted(I, i) \in Nat
         /\ Inserted(I, i) <= Inserted(I, Len(I))
         /\ i < Len(I) /\ ~IsEmptyInstruction(I[Len(I)])
              => Inserted(I, i) < Inserted(I, Len(I))
         /\ Inserted(I, 0) = 0
<1> DEFINE K(m) == {j \in 1..m : ~IsEmptyInstruction(I[j])}
<1>1. Len(I) \in Nat
  OBVIOUS
<1>2. IsFiniteSet(1..Len(I))
  BY <1>1, FS_Interval
<1>3. K(Len(I)) \in SUBSET (1..Len(I)) /\ K(i) \in SUBSET K(Len(I))
  OBVIOUS
<1>4. IsFiniteSet(K(Len(I))) /\ IsFiniteSet(K(i))
  <2> HIDE DEF K
  <2> QED
    BY <1>2, <1>3, FS_Subset
<1>5. /\ Cardinality(K(i)) \in Nat
      /\ Cardinality(K(Len(I))) \in Nat
      /\ Cardinality(K(i)) <= Cardinality(K(Len(I)))
      /\ Cardinality(K(Len(I))) = Cardinality(K(i)) => K(Len(I)) = K(i)
  <2> HIDE DEF K
  <2> QED
    BY <1>3, <1>4, FS_Subset, FS_CardinalityType
<1>6. i < Len(I) /\ ~IsEmptyInstruction(I[Len(I)]) => K(Len(I)) # K(i)
  BY <1>1
<1>7. Cardinality(K(0)) = 0
  <2>1. K(0) = {}
    OBVIOUS
  <2> QED
    BY <2>1, FS_EmptySet
<1>8. /\ Inserted(I, i) = Cardinality(K(i))
      /\ Inserted(I, Len(I)) = Cardinality(K(Len(I)))
      /\ Inserted(I, 0) = Cardinality(K(0))
  BY DEF Inserted
<1> HIDE DEF K
<1> QED
  BY <1>5, <1>6, <1>7, <1>8

\* insert_sequence keeps the component good and takes the ids it counted.
LEMMA InsertSequenceGood ==
  ASSUME NEW C, Good(C), NEW fresh \in Nat, C.nodes \subseteq 1..fresh,
         NEW S, NEW I \in Seq(S), NEW src, NEW tgt, CanInsertSequence(C, src, I, tgt)
  PROVE  Grown(C, InsertSequence(C, src, I, tgt, fresh), fresh)
<1> DEFINE r == InsertSequence(C, src, I, tgt, fresh)
           at(i) == ChainNode(src, I, tgt, fresh, i)
           kept  == {i \in 1..Len(I) : ~IsEmptyInstruction(I[i])}
           made  == Inserted(I, Len(I)) - (IF EndsInTarget(I, tgt) THEN 1 ELSE 0)
           link(i) == <<at(i - 1), at(i)>>
           chain == [e \in {link(i) : i \in kept} |-> I[CHOOSE i \in kept : e = link(i)]]
           N == (fresh + 1)..(fresh + made)
           A == AddNodes(C, N)
<1>1. r = [comp |-> AddEdges(A, chain), last |-> at(Len(I)), fresh |-> fresh + made]
  BY DEF InsertSequence
<1>2. Len(I) \in Nat /\ Len(I) > 0
  BY DEF CanInsertSequence
<1>3. src \in C.nodes /\ (tgt # 0 => tgt \in C.nodes)
  BY DEF CanInsertSequence
<1>4. made \in Nat
  <2>1. Inserted(I, Len(I)) \in Nat /\ Inserted(I, 0) = 0
    BY <1>2, InsertedBounds
  <2>2. EndsInTarget(I, tgt) => 0 < Inserted(I, Len(I))
    <3>1. 0 \in 0..Len(I)
      BY <1>2
    <3>2. EndsInTarget(I, tgt) => Inserted(I, 0) < Inserted(I, Len(I))
      BY <1>2, <3>1, InsertedBounds DEF EndsInTarget
    <3> QED
      BY <2>1, <3>2
  <2> QED
    BY <2>1, <2>2
<1>5. Good(A) /\ A.nodes = C.nodes \cup N /\ A.entry = C.entry
  <2>1. CanInsertNodes(C, N)
    BY <1>4 DEF CanInsertNodes
  <2> HIDE DEF N
  <2> QED
    BY <2>1, AddNodesGood
<1>6. ASSUME NEW i \in 0..Len(I) PROVE at(i) \in C.nodes \cup N
  <2>1. /\ Inserted(I, i) \in Nat
        /\ Inserted(I, Len(I)) \in Nat
        /\ Inserted(I, i) <= Inserted(I, Len(I))
        /\ i < Len(I) /\ ~IsEmptyInstruction(I[Len(I)])
             => Inserted(I, i) < Inserted(I, Len(I))
    BY <1>2, InsertedBounds
  <2>2. CASE Inserted(I, i) = 0
    BY <1>3, <2>2 DEF ChainNode
  <2>3. CASE Inserted(I, i) # 0 /\ i = Len(I) /\ EndsInTarget(I, tgt)
    BY <1>3, <2>3 DEF ChainNode, EndsInTarget
  <2>4. CASE Inserted(I, i) # 0 /\ ~(i = Len(I) /\ EndsInTarget(I, tgt))
    <3>1. at(i) = fresh + Inserted(I, i)
      BY <2>4 DEF ChainNode
    <3>2. Inserted(I, i) <= made
      <4>1. CASE EndsInTarget(I, tgt)
        BY <1>2, <2>1, <2>4, <4>1 DEF EndsInTarget
      <4>2. CASE ~EndsInTarget(I, tgt)
        BY <2>1, <4>2
      <4> QED
        BY <4>1, <4>2
    <3> HIDE DEF made, at
    <3> QED
      BY <1>4, <2>1, <2>4, <3>1, <3>2
  <2> QED
    BY <2>2, <2>3, <2>4
<1>7. DOMAIN chain \subseteq A.nodes \X A.nodes
  <2>1. ASSUME NEW i \in kept PROVE link(i) \in A.nodes \X A.nodes
    <3>1. i \in 0..Len(I) /\ i - 1 \in 0..Len(I)
      BY <1>2
    <3>2. at(i) \in A.nodes /\ at(i - 1) \in A.nodes
      <4> HIDE DEF at, N, A
      <4> QED
        BY <1>5, <1>6, <3>1
    <3> QED
      BY <3>2
  <2>2. DOMAIN chain = {link(i) : i \in kept}
    OBVIOUS
  <2> HIDE DEF chain, link, kept, A
  <2> QED
    BY <2>1, <2>2
<1>8. /\ Good(AddEdges(A, chain))
      /\ AddEdges(A, chain).nodes = A.nodes
      /\ AddEdges(A, chain).entry = A.entry
  <2> HIDE DEF A, chain
  <2> QED
    BY <1>5, <1>7, AddEdgesGood, Zenon
<1>9. r.comp = AddEdges(A, chain) /\ r.fresh = fresh + made
  <2> HIDE DEF A, chain, made, at
  <2> QED
    BY <1>1
<1>10. /\ r.fresh \in Nat
      /\ r.fresh >= fresh
      /\ Good(r.comp)
      /\ r.comp.nodes = C.nodes \cup (fresh + 1)..r.fresh
      /\ r.comp.entry = C.entry
  <2> HIDE DEF r, A, chain, made, at
  <2> QED
    BY <1>4, <1>5, <1>8, <1>9
<1> QED
  BY <1>10 DEF Grown

\* insert_branching likewise.
LEMMA InsertBranchingGood ==
  ASSUME NEW C, Good(C), NEW fresh \in Nat, C.nodes \subseteq 1..fresh,
         NEW gik, NEW arg, NEW src, NEW t0 \in Nat, NEW t1 \in Nat,
         CanInsertBranching(C, gik, src, t0, t1)
  PROVE  Grown(C, InsertBranching(C, gik, arg, src, t0, t1, fresh), fresh)
<1> DEFINE r == InsertBranching(C, gik, arg, src, t0, t1, fresh)
           v0 == IF t0 = 0 THEN fresh + 1 ELSE t0
           f0 == IF t0 = 0 THEN fresh + 1 ELSE fresh
           v1 == IF t1 = 0 THEN f0 + 1 ELSE t1
           f1 == IF t1 = 0 THEN f0 + 1 ELSE f0
           guards == [e \in {<<src, v0>>, <<src, v1>>} |->
                        [gik |-> IF e[2] = v0 THEN gik ELSE Negated(gik), arg |-> arg]]
           N == (fresh + 1)..f1
           A == AddNodes(C, N)
<1>1. r = [comp |-> AddEdges(A, guards), fst |-> v0, snd |-> v1, fresh |-> f1]
  BY DEF InsertBranching
<1>2. f1 \in Nat /\ f1 >= fresh
  OBVIOUS
<1>3. Good(A) /\ A.nodes = C.nodes \cup N /\ A.entry = C.entry
  <2>1. CanInsertNodes(C, N)
    BY <1>2 DEF CanInsertNodes
  <2> HIDE DEF N
  <2> QED
    BY <2>1, AddNodesGood
<1>4. src \in A.nodes /\ v0 \in A.nodes /\ v1 \in A.nodes
  <2>1. /\ src \in C.nodes
        /\ t0 # 0 => t0 \in C.nodes
        /\ t1 # 0 => t1 \in C.nodes
    BY DEF CanInsertBranching
  <2>2. v0 \in C.nodes \cup N
    BY <2>1
  <2>3. v1 \in C.nodes \cup N
    BY <2>1
  <2> HIDE DEF A, N, v0, v1
  <2> QED
    BY <1>3, <2>1, <2>2, <2>3
<1>5. DOMAIN guards \subseteq A.nodes \X A.nodes
  <2>1. DOMAIN guards = {<<src, v0>>, <<src, v1>>}
    OBVIOUS
  <2> HIDE DEF A, guards, v0, v1
  <2> QED
    BY <1>4, <2>1
<1>6. /\ Good(AddEdges(A, guards))
      /\ AddEdges(A, guards).nodes = A.nodes
      /\ AddEdges(A, guards).entry = A.entry
  <2> HIDE DEF A, guards
  <2> QED
    BY <1>3, <1>5, AddEdgesGood, Zenon
<1>7. r.comp = AddEdges(A, guards) /\ r.fresh = f1
  <2> HIDE DEF A, guards, f1, v0, v1
  <2> QED
    BY <1>1
<1>8. /\ r.fresh \in Nat
      /\ r.fresh >= fresh
      /\ Good(r.comp)
      /\ r.comp.nodes = C.nodes \cup (fresh + 1)..r.fresh
      /\ r.comp.entry = C.entry
  <2> HIDE DEF r, A, guards, f1
  <2> QED
    BY <1>2, <1>3, <1>6, <1>7
<1> QED
  BY <1>8 DEF Grown

-----------------------------------------------------------------------------
\* Two components without a common node make one good component, joined by an
\* edge from a node of the first to the entry of the second.
LEMMA AppendByEdgeGood ==
  ASSUME NEW C, Good(C), NEW O, Good(O), Apart(C, O),
         NEW x \in C.nodes, NEW I
  PROVE  LET R == AppendByEdge(C, O, x, I)
         IN  /\ Good(R)
             /\ R.nodes = C.nodes \cup O.nodes
             /\ R.entry = C.entry
             /\ R.edges = Overlay(Overlay(C.edges, O.edges), OneEdge(<<x, O.entry>>, I))
<1> DEFINE U == [C EXCEPT !.nodes = @ \cup O.nodes,
                     !.edges = Overlay(@, O.edges),
                     !.succ  = Overlay(@, O.succ),
                     !.pred  = Overlay(@, O.pred),
                     !.exits = @ \cup O.exits]
           j == <<x, O.entry>>
           E == OneEdge(j, I)
           R == AppendByEdge(C, O, x, I)
<1>1. /\ DOMAIN U = Fields
      /\ U.nodes = C.nodes \cup O.nodes
      /\ U.edges = Overlay(C.edges, O.edges)
      /\ U.succ = Overlay(C.succ, O.succ)
      /\ U.pred = Overlay(C.pred, O.pred)
      /\ U.entry = C.entry
      /\ U.exits = C.exits \cup O.exits
  BY DEF Good, Fields
<1>2. IsDigraph(C) /\ IsDigraph(O)
  BY DEF Good
<1>3. IsDigraph(U)
  <2>1. DOMAIN U.edges = DOMAIN C.edges \cup DOMAIN O.edges
    BY <1>1 DEF Overlay
  <2>2. DOMAIN U.succ = U.nodes /\ DOMAIN U.pred = U.nodes
    BY <1>1, <1>2 DEF IsDigraph, Overlay
  <2>3. DOMAIN U.edges \subseteq U.nodes \X U.nodes
    BY <1>1, <1>2, <2>1 DEF IsDigraph
  <2>4. ASSUME NEW n \in U.nodes
        PROVE  U.succ[n] = {m \in U.nodes : <<n, m>> \in DOMAIN U.edges}
    <3> HIDE DEF U
    <3>1. CASE n \in O.nodes
      <4>1. U.succ[n] = O.succ[n] /\ n \notin C.nodes
        BY <1>1, <1>2, <2>2, <3>1 DEF IsDigraph, Overlay, Apart
      <4> QED
        BY <1>1, <1>2, <2>1, <3>1, <4>1 DEF IsDigraph
    <3>2. CASE n \notin O.nodes
      <4>1. U.succ[n] = C.succ[n] /\ n \in C.nodes
        BY <1>1, <1>2, <2>2, <3>2 DEF IsDigraph, Overlay
      <4> QED
        BY <1>1, <1>2, <2>1, <3>2, <4>1 DEF IsDigraph
    <3> QED
      BY <3>1, <3>2
  <2>5. ASSUME NEW n \in U.nodes
        PROVE  U.pred[n] = {m \in U.nodes : <<m, n>> \in DOMAIN U.edges}
    <3> HIDE DEF U
    <3>1. CASE n \in O.nodes
      <4>1. U.pred[n] = O.pred[n] /\ n \notin C.nodes
        BY <1>1, <1>2, <2>2, <3>1 DEF IsDigraph, Overlay, Apart
      <4> QED
        BY <1>1, <1>2, <2>1, <3>1, <4>1 DEF IsDigraph
    <3>2. CASE n \notin O.nodes
      <4>1. U.pred[n] = C.pred[n] /\ n \in C.nodes
        BY <1>1, <1>2, <2>2, <3>2 DEF IsDigraph, Overlay
      <4> QED
        BY <1>1, <1>2, <2>1, <3>2, <4>1 DEF IsDigraph
    <3> QED
      BY <3>1, <3>2
  <2> HIDE DEF U
  <2> QED
    BY <2>2, <2>3, <2>4, <2>5 DEF IsDigraph
<1>4. Good(U)
  <2>1. U.exits = {n \in U.nodes : U.succ[n] = {}}
    <3> HIDE DEF U
    <3>1. \A n \in U.nodes : U.succ[n] = IF n \in O.nodes THEN O.succ[n] ELSE C.succ[n]
      BY <1>1, <1>2 DEF IsDigraph, Overlay
    <3> QED
      BY <1>1, <3>1 DEF Good, Apart
  <2> HIDE DEF U
  <2> QED
    BY <1>1, <1>3, <2>1 DEF Good
<1>5. R = AddEdges(U, E)
  BY DEF AppendByEdge
<1>6. DOMAIN E \subseteq U.nodes \X U.nodes /\ DOMAIN E = {j}
  <2>1. x \in U.nodes /\ O.entry \in U.nodes
    BY <1>1 DEF Good
  <2> HIDE DEF U
  <2> QED
    BY <2>1 DEF OneEdge
<1>7. /\ Good(R)
      /\ R.nodes = U.nodes
      /\ R.entry = U.entry
      /\ R.edges = Overlay(U.edges, E)
  <2> HIDE DEF U, E, R, j
  <2> QED
    BY <1>4, <1>5, <1>6, AddEdgesGood
<1>8. R.edges = Overlay(Overlay(C.edges, O.edges), OneEdge(j, I))
  <2> HIDE DEF U, R
  <2> QED
    BY <1>1, <1>7
<1>9. Good(R) /\ R.nodes = C.nodes \cup O.nodes /\ R.entry = C.entry
  <2> HIDE DEF U, R
  <2> QED
    BY <1>1, <1>7
<1> HIDE DEF U
<1> QED
  BY <1>8, <1>9

\* The part of it that the invariants of a population need.
LEMMA AppendByEdgeNodes ==
  ASSUME NEW C, Good(C), NEW O, Good(O), Apart(C, O),
         NEW x \in C.nodes, NEW I
  PROVE  /\ Good(AppendByEdge(C, O, x, I))
         /\ AppendByEdge(C, O, x, I).nodes = C.nodes \cup O.nodes
<1> DEFINE R == AppendByEdge(C, O, x, I)
<1>1. /\ Good(R)
      /\ R.nodes = C.nodes \cup O.nodes
      /\ R.entry = C.entry
      /\ R.edges = Overlay(Overlay(C.edges, O.edges), OneEdge(<<x, O.entry>>, I))
  BY AppendByEdgeGood
<1> QED
  BY <1>1

\* The nodes and the edges of O as they are after O's entry became x.
Redirected(O, x, n) == IF n = O.entry THEN x ELSE n
Moved(O, x, e) == <<Redirected(O, x, e[1]), Redirected(O, x, e[2])>>

\* Merging keeps the component good, its edges as they are, and every edge of O,
\* redirected to x where it touched O's entry.
LEMMA AppendByMergingEdges ==
  ASSUME NEW C, Good(C), NEW O, Good(O), Apart(C, O),
         NEW x, CanMerge(C, O, x)
  PROVE  LET R == AppendByMerging(C, O, x)
         IN  /\ Good(R)
             /\ R.nodes = C.nodes \cup (O.nodes \ {O.entry})
             /\ R.entry = C.entry
             /\ R.edges = [d \in DOMAIN R.edges |-> R.edges[d]]
             /\ DOMAIN R.edges = DOMAIN C.edges \cup {Moved(O, x, e) : e \in DOMAIN O.edges}
             /\ \A e \in DOMAIN C.edges : R.edges[e] = C.edges[e]
             /\ \A e \in DOMAIN O.edges : R.edges[Moved(O, x, e)] = O.edges[e]
<1> DEFINE en == O.entry
           A == AppendByEdge(C, O, x, Nop)
           B == RemoveNode(A, en)
           out == [e \in {<<x, n>> : n \in O.succ[en]} |-> O.edges[<<en, e[2]>>]]
           in  == [e \in {<<n, x>> : n \in O.pred[en]} |-> O.edges[<<e[1], en>>]]
           B1 == AddEdges(B, out)
           R == AddEdges(B1, in)
           at(n) == IF n = en THEN x ELSE n
           moved(e) == <<at(e[1]), at(e[2])>>
           inner == {d \in DOMAIN O.edges : d[1] # en /\ d[2] # en}
<1>1. /\ C.nodes \cap O.nodes = {}
      /\ IsDigraph(C)
      /\ IsDigraph(O)
      /\ x \in C.nodes
      /\ x \notin O.nodes
      /\ en \in O.nodes
      /\ en \notin C.nodes
      /\ en \notin O.succ[en]
      /\ C.entry \in C.nodes
  BY DEF Good, CanMerge, CanAppend, Apart
<1>2. /\ O.succ[en] = {m \in O.nodes : <<en, m>> \in DOMAIN O.edges}
      /\ O.pred[en] = {m \in O.nodes : <<m, en>> \in DOMAIN O.edges}
      /\ DOMAIN O.edges \subseteq O.nodes \X O.nodes
      /\ DOMAIN C.edges \subseteq C.nodes \X C.nodes
      /\ <<en, en>> \notin DOMAIN O.edges
  BY <1>1 DEF IsDigraph
<1>3. /\ Good(A)
      /\ A.nodes = C.nodes \cup O.nodes
      /\ A.entry = C.entry
      /\ A.edges = Overlay(Overlay(C.edges, O.edges), OneEdge(<<x, en>>, Nop))
  BY <1>1, AppendByEdgeGood
<1>4. CanRemoveNode(A, en)
  <2> HIDE DEF A
  <2>1. <<en, en>> \notin DOMAIN A.edges
    BY <1>1, <1>2, <1>3 DEF Overlay, OneEdge
  <2>2. en \notin A.succ[en]
    BY <1>1, <1>3, <2>1, SMTT(30) DEF Good, IsDigraph
  <2> QED
    BY <1>1, <1>3, <2>2 DEF CanRemoveNode
<1>5. /\ Good(B)
      /\ B.nodes = (C.nodes \cup O.nodes) \ {en}
      /\ B.entry = C.entry
      /\ B.edges = Restrict(A.edges, EdgesApartFrom(A, en))
  <2> HIDE DEF A
  <2> QED
    BY <1>3, <1>4, RemoveNodeGood
<1>6. /\ DOMAIN B.edges = DOMAIN C.edges \cup inner
      /\ \A e \in DOMAIN C.edges : B.edges[e] = C.edges[e]
      /\ \A e \in inner : B.edges[e] = O.edges[e]
  <2> HIDE DEF A, B
  <2>1. \A d \in DOMAIN C.edges : /\ d[1] # en /\ d[2] # en
                                  /\ d \notin DOMAIN O.edges
                                  /\ d # <<x, en>>
    BY <1>1, <1>2
  <2>2. \A d \in inner : d # <<x, en>>
    OBVIOUS
  <2>3. DOMAIN A.edges = (DOMAIN C.edges \cup DOMAIN O.edges) \cup {<<x, en>>}
    BY <1>3 DEF Overlay, OneEdge
  <2>4. \A d \in DOMAIN A.edges : d[1] # en /\ d[2] # en <=> d \in DOMAIN C.edges \cup inner
    BY <2>1, <2>3
  <2>5. DOMAIN B.edges = DOMAIN C.edges \cup inner
    BY <1>5, <2>3, <2>4 DEF Restrict, EdgesApartFrom
  <2>6. \A e \in DOMAIN B.edges : B.edges[e] = A.edges[e]
    BY <1>5 DEF Restrict, EdgesApartFrom
  <2>7. \A e \in DOMAIN C.edges : A.edges[e] = C.edges[e]
    BY <1>3, <2>1 DEF Overlay, OneEdge
  <2>8. \A e \in inner : A.edges[e] = O.edges[e]
    BY <1>3, <2>2 DEF Overlay, OneEdge
  <2> QED
    BY <2>5, <2>6, <2>7, <2>8
<1>7. /\ Good(B1)
      /\ B1.nodes = B.nodes
      /\ B1.entry = B.entry
      /\ B1.edges = Overlay(B.edges, out)
  <2>1. DOMAIN out \subseteq B.nodes \X B.nodes
    <3>1. DOMAIN out = {<<x, n>> : n \in O.succ[en]}
      OBVIOUS
    <3>2. O.succ[en] \subseteq O.nodes \ {en}
      BY <1>1, <1>2
    <3> HIDE DEF B, out
    <3> QED
      BY <1>1, <1>5, <3>1, <3>2
  <2> HIDE DEF B, out
  <2> QED
    BY <1>5, <2>1, AddEdgesGood, Zenon
<1>8. /\ Good(R)
      /\ R.nodes = B.nodes
      /\ R.entry = B.entry
      /\ R.edges = Overlay(B1.edges, in)
  <2>1. DOMAIN in \subseteq B1.nodes \X B1.nodes
    <3>1. DOMAIN in = {<<n, x>> : n \in O.pred[en]}
      OBVIOUS
    <3>2. O.pred[en] \subseteq O.nodes \ {en}
      BY <1>1, <1>2
    <3> HIDE DEF B, B1, in
    <3> QED
      BY <1>1, <1>5, <1>7, <3>1, <3>2
  <2> HIDE DEF B1, in
  <2> QED
    BY <1>7, <2>1, AddEdgesGood, Zenon
<1>9. /\ DOMAIN R.edges = DOMAIN C.edges \cup {moved(e) : e \in DOMAIN O.edges}
      /\ \A e \in DOMAIN C.edges : R.edges[e] = C.edges[e]
      /\ \A e \in DOMAIN O.edges : R.edges[moved(e)] = O.edges[e]
  <2>1. DOMAIN R.edges = (DOMAIN B.edges \cup DOMAIN out) \cup DOMAIN in
    <3> HIDE DEF B, B1, R, in, out
    <3> QED
      BY <1>7, <1>8 DEF Overlay
  <2>2. /\ DOMAIN out = {<<x, n>> : n \in O.succ[en]}
        /\ DOMAIN in = {<<n, x>> : n \in O.pred[en]}
    OBVIOUS
  <2>3. ASSUME NEW e \in DOMAIN O.edges
        PROVE  \/ e \in inner /\ moved(e) = e
               \/ e[1] = en /\ e[2] # en /\ moved(e) = <<x, e[2]>> /\ e[2] \in O.succ[en]
                            /\ e = <<en, e[2]>>
               \/ e[1] # en /\ e[2] = en /\ moved(e) = <<e[1], x>> /\ e[1] \in O.pred[en]
                            /\ e = <<e[1], en>>
    <3>1. e = <<e[1], e[2]>> /\ e[1] \in O.nodes /\ e[2] \in O.nodes
      BY <1>2
    <3>2. CASE e[1] = en
      BY <1>2, <3>1, <3>2
    <3>3. CASE e[2] = en
      BY <1>2, <3>1, <3>3
    <3>4. CASE e[1] # en /\ e[2] # en
      BY <3>1, <3>4
    <3> QED
      BY <3>2, <3>3, <3>4
  <2>4. DOMAIN R.edges = DOMAIN C.edges \cup {moved(e) : e \in DOMAIN O.edges}
    <3>1. inner \subseteq {moved(e) : e \in DOMAIN O.edges}
      BY <2>3
    <3>2. ASSUME NEW n \in O.succ[en] PROVE <<x, n>> \in {moved(e) : e \in DOMAIN O.edges}
      <4>1. <<en, n>> \in DOMAIN O.edges /\ n # en
        BY <1>2
      <4>2. moved(<<en, n>>) = <<x, n>>
        BY <4>1
      <4> QED
        BY <4>1, <4>2
    <3>3. ASSUME NEW n \in O.pred[en] PROVE <<n, x>> \in {moved(e) : e \in DOMAIN O.edges}
      <4>1. <<n, en>> \in DOMAIN O.edges /\ n # en
        BY <1>2
      <4>2. moved(<<n, en>>) = <<n, x>>
        BY <4>1
      <4> QED
        BY <4>1, <4>2
    <3>4. ASSUME NEW e \in DOMAIN O.edges
          PROVE  moved(e) \in (inner \cup DOMAIN out) \cup DOMAIN in
      <4> HIDE DEF moved, inner, in, out
      <4> QED
        BY <2>2, <2>3
    <3> HIDE DEF moved, inner, in, out, R, B
    <3> QED
      BY <1>6, <2>1, <2>2, <3>1, <3>2, <3>3, <3>4
  <2>5. /\ \A d \in DOMAIN in : R.edges[d] = in[d]
        /\ \A d \in DOMAIN out \ DOMAIN in : R.edges[d] = out[d]
        /\ \A d \in DOMAIN B.edges \ (DOMAIN in \cup DOMAIN out) : R.edges[d] = B.edges[d]
    <3> HIDE DEF B, B1, R, in, out
    <3> QED
      BY <1>7, <1>8 DEF Overlay
  <2>6. /\ \A d \in DOMAIN out : d[1] = x /\ d[2] \in O.nodes
        /\ \A d \in DOMAIN in : d[1] \in O.nodes /\ d[2] = x
    <3>1. O.succ[en] \subseteq O.nodes /\ O.pred[en] \subseteq O.nodes
      BY <1>2
    <3> HIDE DEF in, out
    <3> QED
      BY <2>2, <3>1
  <2>7. ASSUME NEW e \in DOMAIN C.edges PROVE R.edges[e] = C.edges[e]
    <3>1. e[1] \in C.nodes /\ e[2] \in C.nodes
      BY <1>2
    <3> HIDE DEF B, R, in, out, inner
    <3>2. e \notin DOMAIN in \cup DOMAIN out
      BY <1>1, <2>6, <3>1
    <3> QED
      BY <1>6, <2>5, <3>2
  <2>8. ASSUME NEW e \in DOMAIN O.edges PROVE R.edges[moved(e)] = O.edges[e]
    <3>1. CASE e \in inner /\ moved(e) = e
      <4>1. e[1] \in O.nodes /\ e[2] \in O.nodes
        BY <1>2
      <4> HIDE DEF B, R, in, out, inner, moved
      <4>2. e \notin DOMAIN in \cup DOMAIN out
        BY <1>1, <2>6, <4>1
      <4> QED
        BY <1>6, <2>5, <3>1, <4>2
    <3>2. CASE e[2] \in O.succ[en] /\ moved(e) = <<x, e[2]>> /\ e = <<en, e[2]>>
      <4>1. <<x, e[2]>> \in DOMAIN out /\ out[<<x, e[2]>>] = O.edges[e]
        BY <3>2
      <4>2. <<x, e[2]>> \notin DOMAIN in
        <5> HIDE DEF in
        <5> QED
          BY <1>1, <2>6
      <4> HIDE DEF B, R, in, out, moved
      <4> QED
        BY <2>5, <3>2, <4>1, <4>2
    <3>3. CASE e[1] \in O.pred[en] /\ moved(e) = <<e[1], x>> /\ e = <<e[1], en>>
      <4>1. <<e[1], x>> \in DOMAIN in /\ in[<<e[1], x>>] = O.edges[e]
        BY <3>3
      <4> HIDE DEF B, R, in, out, moved
      <4> QED
        BY <2>5, <3>3, <4>1
    <3> HIDE DEF moved, inner, R
    <3> QED
      BY <2>3, <3>1, <3>2, <3>3
  <2> HIDE DEF moved, R
  <2> QED
    BY <2>4, <2>7, <2>8
<1>10. AppendByMerging(C, O, x) = R
  BY DEF AppendByMerging
<1>11. R.nodes = C.nodes \cup (O.nodes \ {O.entry}) /\ R.entry = C.entry
  <2> HIDE DEF R, B1, B
  <2> QED
    BY <1>1, <1>5, <1>7, <1>8
<1>12. R.edges = [d \in DOMAIN R.edges |-> R.edges[d]]
  <2> HIDE DEF R, B1, in
  <2> QED
    BY <1>8 DEF Overlay
<1>13. \A e : Moved(O, x, e) = moved(e)
  BY DEF Moved, Redirected
<1>14. /\ DOMAIN R.edges = DOMAIN C.edges \cup {Moved(O, x, e) : e \in DOMAIN O.edges}
       /\ \A e \in DOMAIN O.edges : R.edges[Moved(O, x, e)] = O.edges[e]
  <2> HIDE DEF R, moved
  <2> QED
    BY <1>9, <1>13
<1> HIDE DEF R, moved
<1> QED
  BY <1>8, <1>9, <1>10, <1>11, <1>12, <1>14

\* Merging keeps the component good and is the gluing of the two graphs: every
\* edge of O survives, redirected to x where it touched O's entry, and the
\* edges of C are as before.
LEMMA AppendByMergingGlues ==
  ASSUME NEW C, Good(C), NEW O, Good(O), Apart(C, O),
         NEW x, CanMerge(C, O, x)
  PROVE  LET R == AppendByMerging(C, O, x)
             G == Glued(C, O, x)
         IN  /\ Good(R)
             /\ R.nodes = G.nodes
             /\ R.edges = G.edges
             /\ R.entry = G.entry
<1> DEFINE en == O.entry
           R == AppendByMerging(C, O, x)
           at(n) == IF n = en THEN x ELSE n
           moved(e) == <<at(e[1]), at(e[2])>>
<1>1. /\ C.nodes \cap O.nodes = {}
      /\ IsDigraph(C)
      /\ IsDigraph(O)
      /\ x \in C.nodes
      /\ x \notin O.nodes
      /\ en \in O.nodes
      /\ en \notin C.nodes
      /\ en \notin O.succ[en]
  BY DEF Good, CanMerge, CanAppend, Apart
<1>2. /\ DOMAIN O.edges \subseteq O.nodes \X O.nodes
      /\ DOMAIN C.edges \subseteq C.nodes \X C.nodes
      /\ <<en, en>> \notin DOMAIN O.edges
  BY <1>1 DEF IsDigraph
<1>8. /\ Good(R)
      /\ R.nodes = C.nodes \cup (O.nodes \ {en})
      /\ R.entry = C.entry
      /\ R.edges = [d \in DOMAIN R.edges |-> R.edges[d]]
      /\ DOMAIN R.edges = DOMAIN C.edges \cup {Moved(O, x, e) : e \in DOMAIN O.edges}
      /\ \A e \in DOMAIN C.edges : R.edges[e] = C.edges[e]
      /\ \A e \in DOMAIN O.edges : R.edges[Moved(O, x, e)] = O.edges[e]
  BY AppendByMergingEdges
<1>9. /\ DOMAIN R.edges = DOMAIN C.edges \cup {moved(e) : e \in DOMAIN O.edges}
      /\ \A e \in DOMAIN C.edges : R.edges[e] = C.edges[e]
      /\ \A e \in DOMAIN O.edges : R.edges[moved(e)] = O.edges[e]
  <2>1. \A e \in DOMAIN O.edges : Moved(O, x, e) = moved(e)
    BY DEF Moved, Redirected
  <2> HIDE DEF R, moved
  <2> QED
    BY <1>8, <2>1
<1>10. ASSUME NEW e \in DOMAIN O.edges
       PROVE  /\ moved(e) \notin DOMAIN C.edges
              /\ \A d \in DOMAIN O.edges : moved(d) = moved(e) => d = e
  <2>1. \A d \in DOMAIN O.edges : d = <<d[1], d[2]>> /\ d[1] \in O.nodes /\ d[2] \in O.nodes
    BY <1>2
  <2>2. \A n, m \in O.nodes : at(n) = at(m) => n = m
    BY <1>1
  <2>3. \A d \in DOMAIN O.edges : moved(d)[1] = at(d[1]) /\ moved(d)[2] = at(d[2])
    OBVIOUS
  <2>4. ~(e[1] = en /\ e[2] = en)
    BY <1>2, <2>1
  <2>5. moved(e)[1] \notin C.nodes \/ moved(e)[2] \notin C.nodes
    BY <1>1, <2>1, <2>4
  <2>6. moved(e) \notin DOMAIN C.edges
    <3> HIDE DEF moved
    <3> QED
      BY <1>2, <2>5
  <2>7. ASSUME NEW d \in DOMAIN O.edges, moved(d) = moved(e) PROVE d = e
    <3> HIDE DEF moved, at
    <3>1. d[1] = e[1] /\ d[2] = e[2]
      BY <2>1, <2>2, <2>3, <2>7
    <3> QED
      BY <2>1, <3>1
  <2> QED
    BY <2>6, <2>7
<1>11. R.edges = Glued(C, O, x).edges
  <2> DEFINE G == [d \in DOMAIN C.edges \cup {moved(e) : e \in DOMAIN O.edges} |->
                     IF d \in DOMAIN C.edges THEN C.edges[d]
                     ELSE O.edges[CHOOSE e \in DOMAIN O.edges : moved(e) = d]]
  <2>1. Glued(C, O, x).edges = G
    BY DEF Glued
  <2>2. ASSUME NEW d \in DOMAIN R.edges PROVE R.edges[d] = G[d]
    <3>1. CASE d \in DOMAIN C.edges
      <4> HIDE DEF R, moved
      <4> QED
        BY <1>9, <3>1
    <3>2. CASE d \notin DOMAIN C.edges
      <4> HIDE DEF R, moved
      <4>1. PICK e \in DOMAIN O.edges : d = moved(e)
        BY <1>9, <3>2
      <4>2. (CHOOSE f \in DOMAIN O.edges : moved(f) = d) = e
        BY <1>10, <4>1
      <4>3. G[d] = O.edges[e]
        BY <1>9, <3>2, <4>1, <4>2
      <4> QED
        BY <1>9, <4>1, <4>3
    <3> QED
      BY <3>1, <3>2
  <2>3. R.edges = [d \in DOMAIN R.edges |-> R.edges[d]]
    BY <1>8
  <2>4. DOMAIN R.edges = DOMAIN G
    <3> HIDE DEF R, moved
    <3> QED
      BY <1>9
  <2>5. G = [d \in DOMAIN G |-> G[d]]
    OBVIOUS
  <2> HIDE DEF R, G, moved
  <2> QED
    BY <2>1, <2>2, <2>3, <2>4, <2>5
<1>13. R.nodes = Glued(C, O, x).nodes /\ R.entry = Glued(C, O, x).entry
  <2>1. /\ Glued(C, O, x).nodes = C.nodes \cup (O.nodes \ {en})
        /\ Glued(C, O, x).entry = C.entry
    BY DEF Glued
  <2> HIDE DEF R
  <2> QED
    BY <1>8, <2>1
<1> QED
  BY <1>8, <1>11, <1>13
=============================================================================
