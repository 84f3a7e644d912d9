------------------------- MODULE RecoveryGraphProofs -------------------------
(***************************************************************************)
(* What the recovery does to its component, for every component and every  *)
(* instruction: the edges of the pieces the recogniser builds, of a piece  *)
(* merged into the program, and of a case added to a switch.               *)
(***************************************************************************)
EXTENDS Recovery, ProgramComponentProofs

\* The instructions insert_sequence takes.
Plain(I) == ~IsEmptyInstruction(I) /\ ~IsGuard(I)

\* D has the edges of C, unchanged.
Keeps(C, D) == \A e \in DOMAIN C.edges : e \in DOMAIN D.edges /\ D.edges[e] = C.edges[e]

\* D is C with the nodes N and edges at the pairs P added.
Gains(C, D, N, P) ==
  /\ Good(D)
  /\ D.entry = C.entry
  /\ D.nodes = C.nodes \cup N
  /\ DOMAIN D.edges = DOMAIN C.edges \cup P
  /\ Keeps(C, D)

-----------------------------------------------------------------------------
\* Each instruction of a list that is not empty counts.
LEMMA InsertedCounts ==
  ASSUME NEW S, NEW I \in Seq(S), NEW i \in 1..Len(I)
  PROVE  Inserted(I, i) = Inserted(I, i - 1) + (IF IsEmptyInstruction(I[i]) THEN 0 ELSE 1)
<1> DEFINE K(m) == {j \in 1..m : ~IsEmptyInstruction(I[j])}
<1>1. i - 1 \in Nat /\ Len(I) \in Nat
  OBVIOUS
<1>2. IsFiniteSet(K(i - 1))
  <2>1. IsFiniteSet(1..(i - 1))
    BY <1>1, FS_Interval
  <2>2. K(i - 1) \in SUBSET (1..(i - 1))
    OBVIOUS
  <2> HIDE DEF K
  <2> QED
    BY <2>1, <2>2, FS_Subset
<1>3. Cardinality(K(i - 1)) \in Nat
  <2> HIDE DEF K
  <2> QED
    BY <1>2, FS_CardinalityType
<1>4. CASE IsEmptyInstruction(I[i])
  <2>1. K(i) = K(i - 1)
    BY <1>4
  <2>2. Inserted(I, i) = Inserted(I, i - 1)
    BY <2>1 DEF Inserted
  <2>3. Inserted(I, i - 1) \in Nat
    BY <1>3 DEF Inserted
  <2> QED
    BY <1>4, <2>2, <2>3
<1>5. CASE ~IsEmptyInstruction(I[i])
  <2>1. K(i) = K(i - 1) \cup {i} /\ i \notin K(i - 1)
    BY <1>5
  <2>2. Cardinality(K(i)) = Cardinality(K(i - 1)) + 1
    <3> HIDE DEF K
    <3> QED
      BY <1>2, <2>1, FS_AddElement
  <2>3. Inserted(I, i) = Cardinality(K(i)) /\ Inserted(I, i - 1) = Cardinality(K(i - 1))
    BY DEF Inserted
  <2> HIDE DEF K
  <2> QED
    BY <1>5, <2>2, <2>3
<1> QED
  BY <1>4, <1>5

\* The instructions of the list that are inserted, the edge each is put on, and
\* the chain they make.
Kept(I) == {i \in 1..Len(I) : ~IsEmptyInstruction(I[i])}
Link(src, I, tgt, f, i) == <<ChainNode(src, I, tgt, f, i - 1), ChainNode(src, I, tgt, f, i)>>
ChainOf(src, I, tgt, f) ==
  [e \in {Link(src, I, tgt, f, i) : i \in Kept(I)} |->
     I[CHOOSE i \in Kept(I) : e = Link(src, I, tgt, f, i)]]

\* What insert_sequence returns, edge by edge.
Inserts(C, src, I, tgt, f, r) ==
  /\ Good(r.comp)
  /\ r.comp.entry = C.entry
  /\ r.comp.nodes = C.nodes \cup (f + 1)..r.fresh
  /\ r.fresh = f + (Inserted(I, Len(I)) - (IF EndsInTarget(I, tgt) THEN 1 ELSE 0))
  /\ r.last = ChainNode(src, I, tgt, f, Len(I))
  /\ r.comp.edges = Overlay(C.edges, ChainOf(src, I, tgt, f))

\* It returns that.
LEMMA InsertSequenceEdges ==
  ASSUME NEW C, Good(C), NEW f \in Nat, C.nodes \subseteq 1..f,
         NEW S, NEW I \in Seq(S), NEW src, NEW tgt, CanInsertSequence(C, src, I, tgt)
  PROVE  Inserts(C, src, I, tgt, f, InsertSequence(C, src, I, tgt, f))
<1> DEFINE r == InsertSequence(C, src, I, tgt, f)
           at(i) == ChainNode(src, I, tgt, f, i)
           kept  == {i \in 1..Len(I) : ~IsEmptyInstruction(I[i])}
           made  == Inserted(I, Len(I)) - (IF EndsInTarget(I, tgt) THEN 1 ELSE 0)
           chain == [e \in {<<at(i - 1), at(i)>> : i \in kept} |->
                       I[CHOOSE i \in kept : e = <<at(i - 1), at(i)>>]]
           A == AddNodes(C, (f + 1)..(f + made))
<1>1. r = [comp |-> AddEdges(A, chain), last |-> at(Len(I)), fresh |-> f + made]
  BY DEF InsertSequence
<1>2. Grown(C, r, f)
  BY InsertSequenceGood
<1>3. A.edges = C.edges /\ DOMAIN A = Fields
  <2>1. DOMAIN C = Fields
    BY DEF Good
  <2> QED
    BY <2>1 DEF AddNodes, InsertNodes, Fields
<1>4. AddEdges(A, chain).edges = Overlay(C.edges, chain)
  <2> HIDE DEF A, chain
  <2> QED
    BY <1>3 DEF AddEdges, InsertEdges, Fields
<1>5. r.comp = AddEdges(A, chain) /\ r.last = at(Len(I)) /\ r.fresh = f + made
  <2> HIDE DEF A, chain, made, at
  <2> QED
    BY <1>1
<1>6. chain = ChainOf(src, I, tgt, f)
  BY DEF ChainOf, Link, Kept
<1> HIDE DEF r, A, chain
<1>7. /\ Good(r.comp)
      /\ r.comp.entry = C.entry
      /\ r.comp.nodes = C.nodes \cup (f + 1)..r.fresh
      /\ r.fresh = f + made
      /\ r.last = at(Len(I))
      /\ r.comp.edges = Overlay(C.edges, ChainOf(src, I, tgt, f))
  <2> HIDE DEF made, at
  <2> QED
    BY <1>2, <1>4, <1>5, <1>6 DEF Grown
<1> QED
  BY <1>7 DEF r, Inserts

\* The links differ from each other and from the edges there are, and what an
\* edge function E with the chain on top of the edges of C then says.
LinksAreNew(C, src, I, tgt, f) ==
  /\ \A i, j \in Kept(I) : Link(src, I, tgt, f, i) = Link(src, I, tgt, f, j) => i = j
  /\ \A i \in Kept(I) : Link(src, I, tgt, f, i) \notin DOMAIN C.edges

HasChain(C, E, src, I, tgt, f) ==
  /\ DOMAIN E = DOMAIN C.edges \cup {Link(src, I, tgt, f, i) : i \in Kept(I)}
  /\ \A i \in Kept(I) : E[Link(src, I, tgt, f, i)] = I[i]
  /\ \A e \in DOMAIN C.edges : E[e] = C.edges[e]

\* The chain disturbs no edge the component has.
LEMMA ChainEdges ==
  ASSUME NEW C, NEW f, NEW I, NEW src, NEW tgt, LinksAreNew(C, src, I, tgt, f)
  PROVE  HasChain(C, Overlay(C.edges, ChainOf(src, I, tgt, f)), src, I, tgt, f)
<1> DEFINE lk(i) == Link(src, I, tgt, f, i)
           K == Kept(I)
           ch == ChainOf(src, I, tgt, f)
<1>1. ch = [e \in {lk(i) : i \in K} |-> I[CHOOSE i \in K : e = lk(i)]]
  BY DEF ChainOf
<1>2. /\ \A i, j \in K : lk(i) = lk(j) => i = j
      /\ \A i \in K : lk(i) \notin DOMAIN C.edges
  BY DEF LinksAreNew
<1> HIDE DEF lk, K, ch
<1>3. DOMAIN ch = {lk(i) : i \in K}
  BY <1>1
<1>4. ASSUME NEW i \in K PROVE ch[lk(i)] = I[i]
  <2>1. (CHOOSE j \in K : lk(i) = lk(j)) = i
    BY <1>2
  <2> QED
    BY <1>1, <2>1
<1>5. /\ DOMAIN Overlay(C.edges, ch) = DOMAIN C.edges \cup {lk(i) : i \in K}
      /\ \A i \in K : Overlay(C.edges, ch)[lk(i)] = I[i]
      /\ \A e \in DOMAIN C.edges : Overlay(C.edges, ch)[e] = C.edges[e]
  BY <1>2, <1>3, <1>4 DEF Overlay
<1> QED
  BY <1>5 DEF lk, K, ch, HasChain

\* One instruction out of a node without successors.
OneInserted(C, src, I, f, r) ==
  /\ Gains(C, r.comp, {f + 1},
           {<<src, f + 1>>})
  /\ r.fresh = f + 1
  /\ r.last = f + 1
  /\ r.comp.edges[<<src, f + 1>>] = I[1]

\* insert_sequence inserts one instruction behind a sink.
LEMMA InsertOne ==
  ASSUME NEW C, Good(C), NEW f \in Nat, C.nodes \subseteq 1..f,
         NEW src \in C.nodes, C.succ[src] = {},
         NEW S, NEW I \in Seq(S), Len(I) = 1, Plain(I[1])
  PROVE  OneInserted(C, src, I, f, InsertSequence(C, src, I, 0, f))
<1> DEFINE r == InsertSequence(C, src, I, 0, f)
<1>1. I # << >> /\ 0 \in 0..Len(I) /\ 1 \in 1..Len(I)
  <2>1. Len(<< >>) = 0 /\ Len(I) # 0
    OBVIOUS
  <2>2. I # << >>
    BY <2>1, Zenon
  <2> QED
    BY <2>2
<1>2. CanInsertSequence(C, src, I, 0)
  <2>1. \A i \in 1..Len(I) : ~IsGuard(I[i])
    BY <1>1 DEF Plain, IsEmptyInstruction, IsGuard
  <2> QED
    BY <1>1, <2>1 DEF CanInsertSequence
<1>3. Inserted(I, 0) = 0 /\ Inserted(I, 1) = 1
  <2>1. Inserted(I, 0) = 0
    BY <1>1, InsertedBounds
  <2>2. Inserted(I, 1) = Inserted(I, 1 - 1) + (IF IsEmptyInstruction(I[1]) THEN 0 ELSE 1)
    BY ONLY <1>1, InsertedCounts, I \in Seq(S)
  <2> QED
    BY <2>1, <2>2 DEF Plain
<1>4. EndsInTarget(I, 0) = FALSE
  BY <1>1 DEF EndsInTarget, Plain
<1>5. /\ ChainNode(src, I, 0, f, 0) = src
      /\ ChainNode(src, I, 0, f, 1) = f + 1
  BY <1>1, <1>3, <1>4 DEF ChainNode
<1>6. /\ Good(r.comp)
      /\ r.comp.entry = C.entry
      /\ r.comp.nodes = C.nodes \cup (f + 1)..r.fresh
      /\ r.fresh = f + (Inserted(I, Len(I)) - (IF EndsInTarget(I, 0) THEN 1 ELSE 0))
      /\ r.last = ChainNode(src, I, 0, f, Len(I))
      /\ r.comp.edges = Overlay(C.edges, ChainOf(src, I, 0, f))
  <2>1. Inserts(C, src, I, 0, f, r)
    BY ONLY <1>2, InsertSequenceEdges, Good(C), f \in Nat, C.nodes \subseteq 1..f, I \in Seq(S)
  <2> HIDE DEF r
  <2> QED
    BY <2>1 DEF Inserts
<1>7. /\ Kept(I) = {1}
      /\ Link(src, I, 0, f, 1) = <<src, f + 1>>
  BY <1>1, <1>5 DEF Kept, Plain, Link
<1>8. /\ <<src, f + 1>> \notin DOMAIN C.edges
  BY DEF Good, IsDigraph
<1>9. HasChain(C, Overlay(C.edges, ChainOf(src, I, 0, f)), src, I, 0, f)
  <2>1. LinksAreNew(C, src, I, 0, f)
    BY <1>7, <1>8 DEF LinksAreNew
  <2> QED
    BY ONLY <2>1, ChainEdges
<1> HIDE DEF r
<1>10. /\ DOMAIN r.comp.edges = DOMAIN C.edges \cup {<<src, f + 1>>}
       /\ r.comp.edges[<<src, f + 1>>] = I[1]
       /\ Keeps(C, r.comp)
  <2>1. /\ {Link(src, I, 0, f, i) : i \in Kept(I)} = {<<src, f + 1>>}
        /\ 1 \in Kept(I)
    BY ONLY <1>7
  <2> QED
    BY ONLY <1>6, <1>7, <1>9, <2>1 DEF Keeps, HasChain
<1>11. r.fresh = f + 1 /\ r.last = f + 1 /\ r.comp.nodes = C.nodes \cup {f + 1}
  BY <1>3, <1>4, <1>5, <1>6
<1>12. Gains(C, r.comp, {f + 1}, {<<src, f + 1>>})
  BY ONLY <1>6, <1>10, <1>11 DEF Gains
<1> QED
  BY <1>10, <1>11, <1>12 DEF r, OneInserted

\* Two instructions that end in a node the component has.
TwoInsertedInto(C, src, I, tgt, f, r) ==
  /\ Gains(C, r.comp, {f + 1},
           {<<src, f + 1>>, <<f + 1, tgt>>})
  /\ r.fresh = f + 1
  /\ r.last = tgt
  /\ r.comp.edges[<<src, f + 1>>] = I[1]
  /\ r.comp.edges[<<f + 1, tgt>>] = I[2]

\* insert_sequence inserts two instructions between a sink and a given node.
LEMMA InsertTwoInto ==
  ASSUME NEW C, Good(C), NEW f \in Nat, C.nodes \subseteq 1..f,
         NEW src \in C.nodes, C.succ[src] = {}, NEW tgt \in C.nodes,
         NEW S, NEW I \in Seq(S), Len(I) = 2, Plain(I[1]), Plain(I[2])
  PROVE  TwoInsertedInto(C, src, I, tgt, f, InsertSequence(C, src, I, tgt, f))
<1> DEFINE r == InsertSequence(C, src, I, tgt, f)
<1>1. I # << >> /\ 0 \in 0..Len(I) /\ 1 \in 1..Len(I) /\ 2 \in 1..Len(I)
  <2>1. Len(<< >>) = 0 /\ Len(I) # 0
    OBVIOUS
  <2>2. I # << >>
    BY <2>1, Zenon
  <2> QED
    BY <2>2
<1>2. CanInsertSequence(C, src, I, tgt)
  <2>1. \A i \in 1..Len(I) : ~IsGuard(I[i])
    BY <1>1 DEF Plain, IsEmptyInstruction, IsGuard
  <2> QED
    BY <1>1, <2>1 DEF CanInsertSequence
<1>3. Inserted(I, 0) = 0 /\ Inserted(I, 1) = 1 /\ Inserted(I, 2) = 2
  <2>1. Inserted(I, 0) = 0
    BY <1>1, InsertedBounds
  <2>2. Inserted(I, 1) = Inserted(I, 1 - 1) + (IF IsEmptyInstruction(I[1]) THEN 0 ELSE 1)
    BY ONLY <1>1, InsertedCounts, I \in Seq(S)
  <2>3. Inserted(I, 2) = Inserted(I, 2 - 1) + (IF IsEmptyInstruction(I[2]) THEN 0 ELSE 1)
    BY ONLY <1>1, InsertedCounts, I \in Seq(S)
  <2> QED
    BY <2>1, <2>2, <2>3 DEF Plain
<1>4. EndsInTarget(I, tgt) = TRUE
  BY <1>1 DEF EndsInTarget, Plain
<1>5. /\ ChainNode(src, I, tgt, f, 0) = src
      /\ ChainNode(src, I, tgt, f, 1) = f + 1
      /\ ChainNode(src, I, tgt, f, 2) = tgt
  BY <1>1, <1>3, <1>4 DEF ChainNode
<1>6. /\ Good(r.comp)
      /\ r.comp.entry = C.entry
      /\ r.comp.nodes = C.nodes \cup (f + 1)..r.fresh
      /\ r.fresh = f + (Inserted(I, Len(I)) - (IF EndsInTarget(I, tgt) THEN 1 ELSE 0))
      /\ r.last = ChainNode(src, I, tgt, f, Len(I))
      /\ r.comp.edges = Overlay(C.edges, ChainOf(src, I, tgt, f))
  <2>1. Inserts(C, src, I, tgt, f, r)
    BY ONLY <1>2, InsertSequenceEdges, Good(C), f \in Nat, C.nodes \subseteq 1..f, I \in Seq(S)
  <2> HIDE DEF r
  <2> QED
    BY <2>1 DEF Inserts
<1>7. /\ Kept(I) = {1, 2}
      /\ Link(src, I, tgt, f, 1) = <<src, f + 1>>
      /\ Link(src, I, tgt, f, 2) = <<f + 1, tgt>>
  BY <1>1, <1>5 DEF Kept, Plain, Link
<1>8. /\ <<src, f + 1>> \notin DOMAIN C.edges
      /\ <<f + 1, tgt>> \notin DOMAIN C.edges
  BY DEF Good, IsDigraph
<1>9. HasChain(C, Overlay(C.edges, ChainOf(src, I, tgt, f)), src, I, tgt, f)
  <2>1. LinksAreNew(C, src, I, tgt, f)
    BY <1>7, <1>8, SMTT(30) DEF LinksAreNew
  <2> QED
    BY ONLY <2>1, ChainEdges
<1> HIDE DEF r
<1>10. /\ DOMAIN r.comp.edges = DOMAIN C.edges \cup {<<src, f + 1>>, <<f + 1, tgt>>}
       /\ r.comp.edges[<<src, f + 1>>] = I[1]
       /\ r.comp.edges[<<f + 1, tgt>>] = I[2]
       /\ Keeps(C, r.comp)
  <2>1. /\ {Link(src, I, tgt, f, i) : i \in Kept(I)} = {<<src, f + 1>>, <<f + 1, tgt>>}
        /\ 1 \in Kept(I) /\ 2 \in Kept(I)
    BY ONLY <1>7
  <2> QED
    BY ONLY <1>6, <1>7, <1>9, <2>1 DEF Keeps, HasChain
<1>11. r.fresh = f + 1 /\ r.last = tgt /\ r.comp.nodes = C.nodes \cup {f + 1}
  BY <1>3, <1>4, <1>5, <1>6
<1>12. Gains(C, r.comp, {f + 1}, {<<src, f + 1>>, <<f + 1, tgt>>})
  BY ONLY <1>6, <1>10, <1>11 DEF Gains
<1> QED
  BY <1>10, <1>11, <1>12 DEF r, TwoInsertedInto

\* An empty instruction behind another: the target is not reached.
OneInsertedOfTwo(C, src, I, tgt, f, r) ==
  /\ Gains(C, r.comp, {f + 1},
           {<<src, f + 1>>})
  /\ r.fresh = f + 1
  /\ r.last = f + 1
  /\ r.comp.edges[<<src, f + 1>>] = I[1]

\* insert_sequence drops an empty instruction at the end of a list.
LEMMA InsertSkipping ==
  ASSUME NEW C, Good(C), NEW f \in Nat, C.nodes \subseteq 1..f,
         NEW src \in C.nodes, C.succ[src] = {}, NEW tgt \in C.nodes,
         NEW S, NEW I \in Seq(S), Len(I) = 2, Plain(I[1]), IsEmptyInstruction(I[2])
  PROVE  OneInsertedOfTwo(C, src, I, tgt, f, InsertSequence(C, src, I, tgt, f))
<1> DEFINE r == InsertSequence(C, src, I, tgt, f)
<1>1. I # << >> /\ 0 \in 0..Len(I) /\ 1 \in 1..Len(I) /\ 2 \in 1..Len(I)
  <2>1. Len(<< >>) = 0 /\ Len(I) # 0
    OBVIOUS
  <2>2. I # << >>
    BY <2>1, Zenon
  <2> QED
    BY <2>2
<1>2. CanInsertSequence(C, src, I, tgt)
  <2>1. \A i \in 1..Len(I) : ~IsGuard(I[i])
    BY <1>1 DEF Plain, IsEmptyInstruction, IsGuard
  <2> QED
    BY <1>1, <2>1 DEF CanInsertSequence
<1>3. Inserted(I, 0) = 0 /\ Inserted(I, 1) = 1 /\ Inserted(I, 2) = 1
  <2>1. Inserted(I, 0) = 0
    BY <1>1, InsertedBounds
  <2>2. Inserted(I, 1) = Inserted(I, 1 - 1) + (IF IsEmptyInstruction(I[1]) THEN 0 ELSE 1)
    BY ONLY <1>1, InsertedCounts, I \in Seq(S)
  <2>3. Inserted(I, 2) = Inserted(I, 2 - 1) + (IF IsEmptyInstruction(I[2]) THEN 0 ELSE 1)
    BY ONLY <1>1, InsertedCounts, I \in Seq(S)
  <2> QED
    BY <2>1, <2>2, <2>3 DEF Plain
<1>4. EndsInTarget(I, tgt) = FALSE
  BY <1>1 DEF EndsInTarget, Plain
<1>5. /\ ChainNode(src, I, tgt, f, 0) = src
      /\ ChainNode(src, I, tgt, f, 1) = f + 1
      /\ ChainNode(src, I, tgt, f, 2) = f + 1
  BY <1>1, <1>3, <1>4 DEF ChainNode
<1>6. /\ Good(r.comp)
      /\ r.comp.entry = C.entry
      /\ r.comp.nodes = C.nodes \cup (f + 1)..r.fresh
      /\ r.fresh = f + (Inserted(I, Len(I)) - (IF EndsInTarget(I, tgt) THEN 1 ELSE 0))
      /\ r.last = ChainNode(src, I, tgt, f, Len(I))
      /\ r.comp.edges = Overlay(C.edges, ChainOf(src, I, tgt, f))
  <2>1. Inserts(C, src, I, tgt, f, r)
    BY ONLY <1>2, InsertSequenceEdges, Good(C), f \in Nat, C.nodes \subseteq 1..f, I \in Seq(S)
  <2> HIDE DEF r
  <2> QED
    BY <2>1 DEF Inserts
<1>7. /\ Kept(I) = {1}
      /\ Link(src, I, tgt, f, 1) = <<src, f + 1>>
  BY <1>1, <1>5 DEF Kept, Plain, Link
<1>8. /\ <<src, f + 1>> \notin DOMAIN C.edges
  BY DEF Good, IsDigraph
<1>9. HasChain(C, Overlay(C.edges, ChainOf(src, I, tgt, f)), src, I, tgt, f)
  <2>1. LinksAreNew(C, src, I, tgt, f)
    BY <1>7, <1>8 DEF LinksAreNew
  <2> QED
    BY ONLY <2>1, ChainEdges
<1> HIDE DEF r
<1>10. /\ DOMAIN r.comp.edges = DOMAIN C.edges \cup {<<src, f + 1>>}
       /\ r.comp.edges[<<src, f + 1>>] = I[1]
       /\ Keeps(C, r.comp)
  <2>1. /\ {Link(src, I, tgt, f, i) : i \in Kept(I)} = {<<src, f + 1>>}
        /\ 1 \in Kept(I)
    BY ONLY <1>7
  <2> QED
    BY ONLY <1>6, <1>7, <1>9, <2>1 DEF Keeps, HasChain
<1>11. r.fresh = f + 1 /\ r.last = f + 1 /\ r.comp.nodes = C.nodes \cup {f + 1}
  BY <1>3, <1>4, <1>5, <1>6
<1>12. Gains(C, r.comp, {f + 1}, {<<src, f + 1>>})
  BY ONLY <1>6, <1>10, <1>11 DEF Gains
<1> QED
  BY <1>10, <1>11, <1>12 DEF r, OneInsertedOfTwo

\* Three instructions.
ThreeInserted(C, src, I, f, r) ==
  /\ Gains(C, r.comp, {f + 1, f + 2, f + 3},
           {<<src, f + 1>>, <<f + 1, f + 2>>, <<f + 2, f + 3>>})
  /\ r.fresh = f + 3
  /\ r.last = f + 3
  /\ r.comp.edges[<<src, f + 1>>] = I[1]
  /\ r.comp.edges[<<f + 1, f + 2>>] = I[2]
  /\ r.comp.edges[<<f + 2, f + 3>>] = I[3]

\* insert_sequence inserts three instructions behind a sink.
LEMMA InsertThree ==
  ASSUME NEW C, Good(C), NEW f \in Nat, C.nodes \subseteq 1..f,
         NEW src \in C.nodes, C.succ[src] = {},
         NEW S, NEW I \in Seq(S), Len(I) = 3, Plain(I[1]), Plain(I[2]), Plain(I[3])
  PROVE  ThreeInserted(C, src, I, f, InsertSequence(C, src, I, 0, f))
<1> DEFINE r == InsertSequence(C, src, I, 0, f)
<1>1. I # << >> /\ 0 \in 0..Len(I) /\ 1 \in 1..Len(I) /\ 2 \in 1..Len(I) /\ 3 \in 1..Len(I)
  <2>1. Len(<< >>) = 0 /\ Len(I) # 0
    OBVIOUS
  <2>2. I # << >>
    BY <2>1, Zenon
  <2> QED
    BY <2>2
<1>2. CanInsertSequence(C, src, I, 0)
  <2>1. \A i \in 1..Len(I) : ~IsGuard(I[i])
    BY <1>1 DEF Plain, IsEmptyInstruction, IsGuard
  <2> QED
    BY <1>1, <2>1 DEF CanInsertSequence
<1>3. Inserted(I, 0) = 0 /\ Inserted(I, 1) = 1 /\ Inserted(I, 2) = 2 /\ Inserted(I, 3) = 3
  <2>1. Inserted(I, 0) = 0
    BY <1>1, InsertedBounds
  <2>2. Inserted(I, 1) = Inserted(I, 1 - 1) + (IF IsEmptyInstruction(I[1]) THEN 0 ELSE 1)
    BY ONLY <1>1, InsertedCounts, I \in Seq(S)
  <2>3. Inserted(I, 2) = Inserted(I, 2 - 1) + (IF IsEmptyInstruction(I[2]) THEN 0 ELSE 1)
    BY ONLY <1>1, InsertedCounts, I \in Seq(S)
  <2>4. Inserted(I, 3) = Inserted(I, 3 - 1) + (IF IsEmptyInstruction(I[3]) THEN 0 ELSE 1)
    BY ONLY <1>1, InsertedCounts, I \in Seq(S)
  <2> QED
    BY <2>1, <2>2, <2>3, <2>4 DEF Plain
<1>4. EndsInTarget(I, 0) = FALSE
  BY <1>1 DEF EndsInTarget, Plain
<1>5. /\ ChainNode(src, I, 0, f, 0) = src
      /\ ChainNode(src, I, 0, f, 1) = f + 1
      /\ ChainNode(src, I, 0, f, 2) = f + 2
      /\ ChainNode(src, I, 0, f, 3) = f + 3
  BY <1>1, <1>3, <1>4 DEF ChainNode
<1>6. /\ Good(r.comp)
      /\ r.comp.entry = C.entry
      /\ r.comp.nodes = C.nodes \cup (f + 1)..r.fresh
      /\ r.fresh = f + (Inserted(I, Len(I)) - (IF EndsInTarget(I, 0) THEN 1 ELSE 0))
      /\ r.last = ChainNode(src, I, 0, f, Len(I))
      /\ r.comp.edges = Overlay(C.edges, ChainOf(src, I, 0, f))
  <2>1. Inserts(C, src, I, 0, f, r)
    BY ONLY <1>2, InsertSequenceEdges, Good(C), f \in Nat, C.nodes \subseteq 1..f, I \in Seq(S)
  <2> HIDE DEF r
  <2> QED
    BY <2>1 DEF Inserts
<1>7. /\ Kept(I) = {1, 2, 3}
      /\ Link(src, I, 0, f, 1) = <<src, f + 1>>
      /\ Link(src, I, 0, f, 2) = <<f + 1, f + 2>>
      /\ Link(src, I, 0, f, 3) = <<f + 2, f + 3>>
  BY <1>1, <1>5 DEF Kept, Plain, Link
<1>8. /\ <<src, f + 1>> \notin DOMAIN C.edges
      /\ <<f + 1, f + 2>> \notin DOMAIN C.edges
      /\ <<f + 2, f + 3>> \notin DOMAIN C.edges
  BY DEF Good, IsDigraph
<1>9. HasChain(C, Overlay(C.edges, ChainOf(src, I, 0, f)), src, I, 0, f)
  <2>1. LinksAreNew(C, src, I, 0, f)
    BY <1>7, <1>8 DEF LinksAreNew
  <2> QED
    BY ONLY <2>1, ChainEdges
<1> HIDE DEF r
<1>10. /\ DOMAIN r.comp.edges = DOMAIN C.edges \cup {<<src, f + 1>>, <<f + 1, f + 2>>, <<f + 2, f + 3>>}
       /\ r.comp.edges[<<src, f + 1>>] = I[1]
       /\ r.comp.edges[<<f + 1, f + 2>>] = I[2]
       /\ r.comp.edges[<<f + 2, f + 3>>] = I[3]
       /\ Keeps(C, r.comp)
  <2>1. /\ {Link(src, I, 0, f, i) : i \in Kept(I)} = {<<src, f + 1>>, <<f + 1, f + 2>>, <<f + 2, f + 3>>}
        /\ 1 \in Kept(I) /\ 2 \in Kept(I) /\ 3 \in Kept(I)
    BY ONLY <1>7
  <2> QED
    BY ONLY <1>6, <1>7, <1>9, <2>1 DEF Keeps, HasChain
<1>11. r.fresh = f + 3 /\ r.last = f + 3 /\ r.comp.nodes = C.nodes \cup {f + 1, f + 2, f + 3}
  BY <1>3, <1>4, <1>5, <1>6
<1>12. Gains(C, r.comp, {f + 1, f + 2, f + 3}, {<<src, f + 1>>, <<f + 1, f + 2>>, <<f + 2, f + 3>>})
  BY ONLY <1>6, <1>10, <1>11 DEF Gains
<1> QED
  BY <1>10, <1>11, <1>12 DEF r, ThreeInserted

\* Two guards to fresh nodes.
GuardsInserted(C, gik, arg, src, f, r) ==
  /\ Gains(C, r.comp, {f + 1, f + 2}, {<<src, f + 1>>, <<src, f + 2>>})
  /\ r.fresh = f + 2 /\ r.fst = f + 1 /\ r.snd = f + 2
  /\ r.comp.edges[<<src, f + 1>>] = Ins(gik, arg)
  /\ r.comp.edges[<<src, f + 2>>] = Ins(Negated(gik), arg)

\* insert_branching inserts a guard and its negation, each before a new node.
LEMMA InsertGuards ==
  ASSUME NEW C, Good(C), NEW f \in Nat, C.nodes \subseteq 1..f,
         NEW src \in C.nodes, C.succ[src] = {}, NEW gik \in {"EQ", "NE"}, NEW arg
  PROVE  GuardsInserted(C, gik, arg, src, f, InsertBranching(C, gik, arg, src, 0, 0, f))
<1> DEFINE r == InsertBranching(C, gik, arg, src, 0, 0, f)
           guards == [e \in {<<src, f + 1>>, <<src, f + 2>>} |->
                        [gik |-> IF e[2] = f + 1 THEN gik ELSE Negated(gik), arg |-> arg]]
           A == AddNodes(C, (f + 1)..(f + 2))
<1>1. Grown(C, r, f)
  <2>1. CanInsertBranching(C, gik, src, 0, 0)
    BY DEF CanInsertBranching
  <2>2. 0 \in Nat
    OBVIOUS
  <2> QED
    BY <2>1, <2>2, InsertBranchingGood
<1>2. r = [comp |-> AddEdges(A, guards), fst |-> f + 1, snd |-> f + 2, fresh |-> f + 2]
  <2>1. (f + 1) + 1 = f + 2
    OBVIOUS
  <2> QED
    BY <2>1 DEF InsertBranching
<1>3. A.edges = C.edges /\ DOMAIN A = Fields
  <2>1. DOMAIN C = Fields
    BY DEF Good
  <2> QED
    BY <2>1 DEF AddNodes, InsertNodes, Fields
<1>4. AddEdges(A, guards).edges = Overlay(C.edges, guards)
  <2> HIDE DEF A, guards
  <2> QED
    BY <1>3 DEF AddEdges, InsertEdges, Fields
<1>5. r.comp = AddEdges(A, guards) /\ r.fst = f + 1 /\ r.snd = f + 2 /\ r.fresh = f + 2
  <2> HIDE DEF A, guards
  <2> QED
    BY <1>2
<1>6. /\ DOMAIN guards = {<<src, f + 1>>, <<src, f + 2>>}
      /\ guards[<<src, f + 1>>] = Ins(gik, arg)
      /\ guards[<<src, f + 2>>] = Ins(Negated(gik), arg)
  BY DEF Ins
<1>7. <<src, f + 1>> \notin DOMAIN C.edges /\ <<src, f + 2>> \notin DOMAIN C.edges
  BY DEF Good, IsDigraph
<1> HIDE DEF r, A, guards
<1>8. /\ DOMAIN r.comp.edges = DOMAIN C.edges \cup {<<src, f + 1>>, <<src, f + 2>>}
      /\ r.comp.edges[<<src, f + 1>>] = Ins(gik, arg)
      /\ r.comp.edges[<<src, f + 2>>] = Ins(Negated(gik), arg)
      /\ Keeps(C, r.comp)
  BY <1>4, <1>5, <1>6, <1>7 DEF Overlay, Keeps
<1>9. /\ Good(r.comp)
      /\ r.comp.entry = C.entry
      /\ r.comp.nodes = C.nodes \cup {f + 1, f + 2}
  BY <1>1, <1>5 DEF Grown
<1>10. Gains(C, r.comp, {f + 1, f + 2}, {<<src, f + 1>>, <<src, f + 2>>})
  BY ONLY <1>8, <1>9 DEF Gains
<1> QED
  BY <1>5, <1>8, <1>10 DEF r, GuardsInserted

-----------------------------------------------------------------------------
\* A new component has one node and no edges.
LEMMA NewComponentEmpty ==
  ASSUME NEW en \in Nat \ {0}
  PROVE  /\ Good(NewComponent(en))
         /\ NewComponent(en).nodes = {en}
         /\ NewComponent(en).nodes \subseteq 1..en
         /\ NewComponent(en).entry = en
         /\ NewComponent(en).succ[en] = {}
         /\ NewComponent(en).edges = << >>
         /\ DOMAIN NewComponent(en).edges = {}
<1>1. Good(NewComponent(en)) /\ NewComponent(en).nodes = {en}
  BY NewComponentGood
<1>2. /\ NewComponent(en).entry = en
      /\ NewComponent(en).succ[en] = {}
      /\ NewComponent(en).edges = << >>
  BY DEF NewComponent
<1>3. DOMAIN << >> = {}
  OBVIOUS
<1> QED
  BY <1>1, <1>2, <1>3

\* A piece of one instruction.
LEMMA OnePiece ==
  ASSUME NEW en \in Nat \ {0}, NEW I, Plain(I)
  PROVE  /\ Gains(NewComponent(en), Straight(en, <<I>>).comp, {en + 1}, {<<en, en + 1>>})
         /\ Straight(en, <<I>>).fresh = en + 1
         /\ Straight(en, <<I>>).comp.edges[<<en, en + 1>>] = I
<1> DEFINE C == NewComponent(en)
           J == <<I>>
           r == InsertSequence(C, en, J, 0, en)
<1>1. Good(C) /\ C.nodes \subseteq 1..en /\ en \in C.nodes /\ C.succ[en] = {} /\ en \in Nat
  BY NewComponentEmpty
<1>2. J \in Seq({I}) /\ Len(J) = 1 /\ J[1] = I
  OBVIOUS
<1>3. Straight(en, J).comp = r.comp /\ Straight(en, J).fresh = r.fresh
  BY DEF Straight
<1> HIDE DEF C, J
<1>4. Plain(J[1])
  BY <1>2
<1>5. OneInserted(C, en, J, en, r)
  BY ONLY <1>1, <1>2, <1>4, InsertOne
<1> HIDE DEF r
<1>6. /\ Gains(C, Straight(en, J).comp, {en + 1}, {<<en, en + 1>>})
      /\ Straight(en, J).fresh = en + 1
      /\ Straight(en, J).comp.edges[<<en, en + 1>>] = I
  BY <1>2, <1>3, <1>5 DEF OneInserted
<1> QED
  BY <1>6 DEF C, J

\* The piece of a return.
LEMMA ReturnPiece ==
  ASSUME NEW en \in Nat \ {0}, NEW I, NEW J, NEW K, Plain(I), Plain(J), Plain(K)
  PROVE  /\ Gains(NewComponent(en), Straight(en, <<I, J, K>>).comp, {en + 1, en + 2, en + 3},
                  {<<en, en + 1>>, <<en + 1, en + 2>>, <<en + 2, en + 3>>})
         /\ Straight(en, <<I, J, K>>).fresh = en + 3
         /\ Straight(en, <<I, J, K>>).comp.edges[<<en, en + 1>>] = I
         /\ Straight(en, <<I, J, K>>).comp.edges[<<en + 1, en + 2>>] = J
         /\ Straight(en, <<I, J, K>>).comp.edges[<<en + 2, en + 3>>] = K
<1> DEFINE C == NewComponent(en)
           L == <<I, J, K>>
           r == InsertSequence(C, en, L, 0, en)
<1>1. Good(C) /\ C.nodes \subseteq 1..en /\ en \in C.nodes /\ C.succ[en] = {} /\ en \in Nat
  BY NewComponentEmpty
<1>2. L \in Seq({I, J, K}) /\ Len(L) = 3 /\ L[1] = I /\ L[2] = J /\ L[3] = K
  OBVIOUS
<1>3. Straight(en, L).comp = r.comp /\ Straight(en, L).fresh = r.fresh
  BY DEF Straight
<1> HIDE DEF C, L
<1>4. Plain(L[1]) /\ Plain(L[2]) /\ Plain(L[3])
  BY <1>2
<1>5. ThreeInserted(C, en, L, en, r)
  BY ONLY <1>1, <1>2, <1>4, InsertThree
<1> HIDE DEF r
<1>6. /\ Gains(C, Straight(en, L).comp, {en + 1, en + 2, en + 3},
               {<<en, en + 1>>, <<en + 1, en + 2>>, <<en + 2, en + 3>>})
      /\ Straight(en, L).fresh = en + 3
      /\ Straight(en, L).comp.edges[<<en, en + 1>>] = I
      /\ Straight(en, L).comp.edges[<<en + 1, en + 2>>] = J
      /\ Straight(en, L).comp.edges[<<en + 2, en + 3>>] = K
  BY <1>2, <1>3, <1>5 DEF ThreeInserted
<1> QED
  BY <1>6 DEF C, L

\* A node is a sink if no edge leaves it.
LEMMA SinkWithoutEdges ==
  ASSUME NEW C, Good(C), NEW n \in C.nodes, \A e \in DOMAIN C.edges : e[1] # n
  PROVE  C.succ[n] = {}
<1>1. C.succ[n] = {m \in C.nodes : <<n, m>> \in DOMAIN C.edges}
  BY DEF Good, IsDigraph
<1>2. \A m : <<n, m>>[1] = n
  OBVIOUS
<1> QED
  BY <1>1, <1>2

\* The start of a piece that branches, and its two ends.
Branched(en, gik, b) ==
  /\ Good(b.comp) /\ b.comp.entry = en
  /\ b.comp.nodes = {en, en + 1, en + 2}
  /\ b.fresh = en + 2 /\ b.fst = en + 1 /\ b.snd = en + 2
  /\ DOMAIN b.comp.edges = {<<en, en + 1>>, <<en, en + 2>>}
  /\ b.comp.edges[<<en, en + 1>>] = Ins(gik, "zf")
  /\ b.comp.edges[<<en, en + 2>>] = Ins(Negated(gik), "zf")
  /\ b.comp.succ[en + 1] = {}
  /\ b.comp.succ[en + 2] = {}

\* A branching inserted into a component of one node.
LEMMA BranchedPiece ==
  ASSUME NEW en \in Nat \ {0}, NEW gik \in {"EQ", "NE"}
  PROVE  Branched(en, gik, InsertBranching(NewComponent(en), gik, "zf", en, 0, 0, en))
<1> DEFINE C == NewComponent(en)
           B == InsertBranching(C, gik, "zf", en, 0, 0, en)
<1>1. /\ Good(C) /\ C.nodes = {en} /\ C.nodes \subseteq 1..en /\ C.entry = en
      /\ C.succ[en] = {} /\ DOMAIN C.edges = {}
  BY NewComponentEmpty
<1> HIDE DEF C
<1>2. GuardsInserted(C, gik, "zf", en, en, B)
  BY <1>1, InsertGuards
<1> HIDE DEF B
<1>3. /\ Gains(C, B.comp, {en + 1, en + 2}, {<<en, en + 1>>, <<en, en + 2>>})
      /\ B.fresh = en + 2 /\ B.fst = en + 1 /\ B.snd = en + 2
      /\ B.comp.edges[<<en, en + 1>>] = Ins(gik, "zf")
      /\ B.comp.edges[<<en, en + 2>>] = Ins(Negated(gik), "zf")
  BY <1>2 DEF GuardsInserted
<1>4. /\ Good(B.comp) /\ B.comp.entry = en
      /\ B.comp.nodes = {en, en + 1, en + 2}
      /\ DOMAIN B.comp.edges = {<<en, en + 1>>, <<en, en + 2>>}
  BY <1>1, <1>3 DEF Gains
<1>5. B.comp.succ[en + 1] = {} /\ B.comp.succ[en + 2] = {}
  BY <1>4, SinkWithoutEdges
<1>6. Branched(en, gik, B)
  BY <1>3, <1>4, <1>5 DEF Branched
<1> QED
  BY <1>6 DEF B, C

\* The pieces that branch: a conditional jump, and the conditional moves with
\* and without an extension.
ConditionalShape(en, taken, F) ==
  /\ Good(F.comp) /\ F.comp.entry = en /\ F.fresh = en + 4
  /\ F.comp.nodes = {en, en + 1, en + 2, en + 3, en + 4}
  /\ DOMAIN F.comp.edges =
       {<<en, en + 1>>, <<en, en + 2>>, <<en + 1, en + 3>>, <<en + 2, en + 4>>}
  /\ F.comp.edges[<<en, en + 1>>] = Ins("EQ", "zf")
  /\ F.comp.edges[<<en, en + 2>>] = Ins("NE", "zf")
  /\ F.comp.edges[<<en + 1, en + 3>>] = Ins("IPADD", taken)
  /\ F.comp.edges[<<en + 2, en + 4>>] = Ins("IPADD", 1)

\* The recognised code of a conditional jump has the shape above.
LEMMA ConditionalPiece ==
  ASSUME NEW en \in Nat \ {0}, NEW taken
  PROVE  ConditionalShape(en, taken, Conditional(en, taken))
<1> DEFINE I == <<Ins("IPADD", taken)>>
           J == <<Ins("IPADD", 1)>>
           b == InsertBranching(NewComponent(en), "EQ", "zf", en, 0, 0, en)
           s == InsertSequence(b.comp, b.fst, I, 0, b.fresh)
           r == InsertSequence(s.comp, b.snd, J, 0, s.fresh)
           F == [comp |-> r.comp, fresh |-> r.fresh]
<1>1. Conditional(en, taken) = F
  BY DEF Conditional
<1>2. Branched(en, "EQ", b)
  BY BranchedPiece
<1>3. /\ I \in Seq({I[1]}) /\ Len(I) = 1 /\ I[1] = Ins("IPADD", taken) /\ Plain(I[1])
      /\ J \in Seq({J[1]}) /\ Len(J) = 1 /\ J[1] = Ins("IPADD", 1) /\ Plain(J[1])
  BY DEF Plain, Ins, IsGuard, IsEmptyInstruction
<1> HIDE DEF I, J, b
<1>4. OneInserted(b.comp, en + 1, I, en + 2, s)
  <2>1. /\ Good(b.comp) /\ b.comp.nodes \subseteq 1..(en + 2) /\ en + 1 \in b.comp.nodes
        /\ b.comp.succ[en + 1] = {} /\ b.fst = en + 1 /\ b.fresh = en + 2 /\ en + 2 \in Nat
    BY <1>2 DEF Branched
  <2> QED
    BY ONLY <1>3, <2>1, InsertOne
<1> HIDE DEF s
<1>5. /\ Good(s.comp) /\ s.comp.entry = en /\ s.fresh = en + 3
      /\ s.comp.nodes = {en, en + 1, en + 2, en + 3}
      /\ DOMAIN s.comp.edges = {<<en, en + 1>>, <<en, en + 2>>, <<en + 1, en + 3>>}
      /\ s.comp.edges[<<en, en + 1>>] = Ins("EQ", "zf")
      /\ s.comp.edges[<<en, en + 2>>] = Ins("NE", "zf")
      /\ s.comp.edges[<<en + 1, en + 3>>] = Ins("IPADD", taken)
  BY <1>2, <1>3, <1>4 DEF Branched, OneInserted, Gains, Keeps, Negated
<1>6. OneInserted(s.comp, en + 2, J, en + 3, r)
  <2>1. /\ Good(s.comp) /\ s.comp.nodes \subseteq 1..(en + 3) /\ en + 2 \in s.comp.nodes
        /\ b.snd = en + 2 /\ s.fresh = en + 3 /\ en + 3 \in Nat
    BY <1>2, <1>5 DEF Branched
  <2>2. s.comp.succ[en + 2] = {}
    BY <1>5, <2>1, SinkWithoutEdges
  <2> QED
    BY ONLY <1>3, <2>1, <2>2, InsertOne
<1> HIDE DEF r
<1>7. ConditionalShape(en, taken, F)
  BY <1>3, <1>5, <1>6 DEF ConditionalShape, OneInserted, Gains, Keeps
<1> QED
  BY <1>1, <1>7

\* The move into a register of 4 bytes: the copy joins the other branch.
NarrowMoveShape(en, F) ==
  /\ Good(F.comp) /\ F.comp.entry = en /\ F.fresh = en + 4
  /\ F.comp.nodes = {en, en + 1, en + 2, en + 3, en + 4}
  /\ DOMAIN F.comp.edges =
       {<<en, en + 1>>, <<en, en + 2>>, <<en + 1, en + 3>>, <<en + 3, en + 2>>, <<en + 2, en + 4>>}
  /\ F.comp.edges[<<en, en + 1>>] = Ins("NE", "zf")
  /\ F.comp.edges[<<en, en + 2>>] = Ins("EQ", "zf")
  /\ F.comp.edges[<<en + 1, en + 3>>] = Ins("SET", 0)
  /\ F.comp.edges[<<en + 3, en + 2>>] = Ins("SET", 0)
  /\ F.comp.edges[<<en + 2, en + 4>>] = Ins("IPADD", 1)

\* The recognised code of a conditional move of 32 bits has the shape above.
LEMMA NarrowMovePiece ==
  ASSUME NEW en \in Nat \ {0}
  PROVE  NarrowMoveShape(en, ConditionalMove(en, Ins("SET", 0)))
<1> DEFINE I == <<Ins("SET", 0), Ins("SET", 0)>>
           J == <<Ins("IPADD", 1)>>
           b == InsertBranching(NewComponent(en), "NE", "zf", en, 0, 0, en)
           s == InsertSequence(b.comp, b.fst, I, b.snd, b.fresh)
           r == InsertSequence(s.comp, b.snd, J, 0, s.fresh)
           F == [comp |-> r.comp, fresh |-> r.fresh]
<1>1. ConditionalMove(en, Ins("SET", 0)) = F
  BY DEF ConditionalMove
<1>2. Branched(en, "NE", b)
  BY BranchedPiece
<1>3. /\ I \in Seq({I[1], I[2]}) /\ Len(I) = 2 /\ I[1] = Ins("SET", 0) /\ I[2] = Ins("SET", 0)
      /\ Plain(I[1]) /\ Plain(I[2])
      /\ J \in Seq({J[1]}) /\ Len(J) = 1 /\ J[1] = Ins("IPADD", 1) /\ Plain(J[1])
  BY DEF Plain, Ins, IsGuard, IsEmptyInstruction, Empty
<1> HIDE DEF I, J, b
<1>4. TwoInsertedInto(b.comp, en + 1, I, en + 2, en + 2, s)
  <2>1. /\ Good(b.comp) /\ b.comp.nodes \subseteq 1..(en + 2) /\ en + 1 \in b.comp.nodes
        /\ b.comp.succ[en + 1] = {} /\ b.fst = en + 1 /\ b.fresh = en + 2 /\ en + 2 \in Nat
        /\ b.snd = en + 2 /\ en + 2 \in b.comp.nodes
    BY <1>2 DEF Branched
  <2> QED
    BY ONLY <1>3, <2>1, InsertTwoInto
<1> HIDE DEF s
<1>5. /\ Good(s.comp) /\ s.comp.entry = en /\ s.fresh = en + 3
      /\ s.comp.nodes = {en, en + 1, en + 2, en + 3}
      /\ DOMAIN s.comp.edges = {<<en, en + 1>>, <<en, en + 2>>, <<en + 1, en + 3>>, <<en + 3, en + 2>>}
      /\ s.comp.edges[<<en, en + 1>>] = Ins("NE", "zf")
      /\ s.comp.edges[<<en, en + 2>>] = Ins("EQ", "zf")
      /\ s.comp.edges[<<en + 1, en + 3>>] = Ins("SET", 0)
      /\ s.comp.edges[<<en + 3, en + 2>>] = Ins("SET", 0)
  BY <1>2, <1>3, <1>4 DEF Branched, TwoInsertedInto, Gains, Keeps, Negated
<1>6. OneInserted(s.comp, en + 2, J, en + 3, r)
  <2>1. /\ Good(s.comp) /\ s.comp.nodes \subseteq 1..(en + 3) /\ en + 2 \in s.comp.nodes
        /\ b.snd = en + 2 /\ s.fresh = en + 3 /\ en + 3 \in Nat
    BY <1>2, <1>5 DEF Branched
  <2>2. s.comp.succ[en + 2] = {}
    BY <1>5, <2>1, SinkWithoutEdges
  <2> QED
    BY ONLY <1>3, <2>1, <2>2, InsertOne
<1> HIDE DEF r
<1>7. NarrowMoveShape(en, F)
  BY <1>3, <1>5, <1>6 DEF NarrowMoveShape, OneInserted, Gains, Keeps
<1> QED
  BY <1>1, <1>7

\* The move into a register of 8 bytes: the copy ends in a node of its own.
WideMoveShape(en, F) ==
  /\ Good(F.comp) /\ F.comp.entry = en /\ F.fresh = en + 4
  /\ F.comp.nodes = {en, en + 1, en + 2, en + 3, en + 4}
  /\ DOMAIN F.comp.edges =
       {<<en, en + 1>>, <<en, en + 2>>, <<en + 1, en + 3>>, <<en + 2, en + 4>>}
  /\ F.comp.edges[<<en, en + 1>>] = Ins("NE", "zf")
  /\ F.comp.edges[<<en, en + 2>>] = Ins("EQ", "zf")
  /\ F.comp.edges[<<en + 1, en + 3>>] = Ins("SET", 0)
  /\ F.comp.edges[<<en + 2, en + 4>>] = Ins("IPADD", 1)

\* The recognised code of a conditional move of 64 bits has the shape above.
LEMMA WideMovePiece ==
  ASSUME NEW en \in Nat \ {0}
  PROVE  WideMoveShape(en, ConditionalMove(en, Empty))
<1> DEFINE I == <<Ins("SET", 0), Empty>>
           J == <<Ins("IPADD", 1)>>
           b == InsertBranching(NewComponent(en), "NE", "zf", en, 0, 0, en)
           s == InsertSequence(b.comp, b.fst, I, b.snd, b.fresh)
           r == InsertSequence(s.comp, b.snd, J, 0, s.fresh)
           F == [comp |-> r.comp, fresh |-> r.fresh]
<1>1. ConditionalMove(en, Empty) = F
  BY DEF ConditionalMove
<1>2. Branched(en, "NE", b)
  BY BranchedPiece
<1>3. /\ I \in Seq({I[1], I[2]}) /\ Len(I) = 2 /\ I[1] = Ins("SET", 0) /\ I[2] = Empty
      /\ Plain(I[1]) /\ IsEmptyInstruction(I[2])
      /\ J \in Seq({J[1]}) /\ Len(J) = 1 /\ J[1] = Ins("IPADD", 1) /\ Plain(J[1])
  BY DEF Plain, Ins, IsGuard, IsEmptyInstruction, Empty
<1> HIDE DEF I, J, b
<1>4. OneInsertedOfTwo(b.comp, en + 1, I, en + 2, en + 2, s)
  <2>1. /\ Good(b.comp) /\ b.comp.nodes \subseteq 1..(en + 2) /\ en + 1 \in b.comp.nodes
        /\ b.comp.succ[en + 1] = {} /\ b.fst = en + 1 /\ b.fresh = en + 2 /\ en + 2 \in Nat
        /\ b.snd = en + 2 /\ en + 2 \in b.comp.nodes
    BY <1>2 DEF Branched
  <2> QED
    BY ONLY <1>3, <2>1, InsertSkipping
<1> HIDE DEF s
<1>5. /\ Good(s.comp) /\ s.comp.entry = en /\ s.fresh = en + 3
      /\ s.comp.nodes = {en, en + 1, en + 2, en + 3}
      /\ DOMAIN s.comp.edges = {<<en, en + 1>>, <<en, en + 2>>, <<en + 1, en + 3>>}
      /\ s.comp.edges[<<en, en + 1>>] = Ins("NE", "zf")
      /\ s.comp.edges[<<en, en + 2>>] = Ins("EQ", "zf")
      /\ s.comp.edges[<<en + 1, en + 3>>] = Ins("SET", 0)
  BY <1>2, <1>3, <1>4 DEF Branched, OneInsertedOfTwo, Gains, Keeps, Negated
<1>6. OneInserted(s.comp, en + 2, J, en + 3, r)
  <2>1. /\ Good(s.comp) /\ s.comp.nodes \subseteq 1..(en + 3) /\ en + 2 \in s.comp.nodes
        /\ b.snd = en + 2 /\ s.fresh = en + 3 /\ en + 3 \in Nat
    BY <1>2, <1>5 DEF Branched
  <2>2. s.comp.succ[en + 2] = {}
    BY <1>5, <2>1, SinkWithoutEdges
  <2> QED
    BY ONLY <1>3, <2>1, <2>2, InsertOne
<1> HIDE DEF r
<1>7. WideMoveShape(en, F)
  BY <1>3, <1>5, <1>6 DEF WideMoveShape, OneInserted, Gains, Keeps
<1> QED
  BY <1>1, <1>7

-----------------------------------------------------------------------------
\* D is C with O attached to its node x.
Joined(C, O, x, D) ==
  /\ Good(D) /\ D.entry = C.entry /\ Keeps(C, D)
  /\ D.nodes = C.nodes \cup (O.nodes \ {O.entry})
  /\ DOMAIN D.edges = DOMAIN C.edges \cup {Moved(O, x, e) : e \in DOMAIN O.edges}
  /\ \A e \in DOMAIN O.edges : D.edges[Moved(O, x, e)] = O.edges[e]

\* What merging a piece with fresh nodes into an exit makes.
LEMMA MergeJoins ==
  ASSUME NEW C, Good(C), NEW f \in Nat, C.nodes \subseteq 1..f,
         NEW x \in C.nodes, C.succ[x] = {},
         NEW O, Good(O), O.entry = f + 1, \A n \in O.nodes : n > f,
         <<f + 1, f + 1>> \notin DOMAIN O.edges
  PROVE  Joined(C, O, x, AppendByMerging(C, O, x))
<1> DEFINE R == AppendByMerging(C, O, x)
<1>1. Apart(C, O)
  BY DEF Apart
<1>2. CanMerge(C, O, x)
  BY DEF CanMerge, CanAppend, Good, IsDigraph
<1>3. /\ Good(R)
      /\ R.nodes = C.nodes \cup (O.nodes \ {O.entry})
      /\ R.entry = C.entry
      /\ R.edges = [d \in DOMAIN R.edges |-> R.edges[d]]
      /\ DOMAIN R.edges = DOMAIN C.edges \cup {Moved(O, x, e) : e \in DOMAIN O.edges}
      /\ \A e \in DOMAIN C.edges : R.edges[e] = C.edges[e]
      /\ \A e \in DOMAIN O.edges : R.edges[Moved(O, x, e)] = O.edges[e]
  BY <1>1, <1>2, AppendByMergingEdges
<1> HIDE DEF R
<1>4. Joined(C, O, x, R)
  BY <1>3 DEF Joined, Keeps
<1> QED
  BY <1>4 DEF R
-----------------------------------------------------------------------------
\* An edge from u to v, its instruction, and an assignment of a register to IP.
Leads(C, u, v) == <<u, v>> \in DOMAIN C.edges
Along(C, u, v) == C.edges[<<u, v>>]
Jumps(C, u, w) == Leads(C, u, w) /\ IsSwitchInstruction(Along(C, u, w))

\* An assignment to IP stands alone, and only the havoc of the temporaries, and
\* nothing more, may follow it.
StandsAlone(C, u, w) ==
  /\ \A v : /\ Leads(C, u, v) => v = w
            /\ Leads(C, v, w) => v = u
  /\ \A t : Leads(C, w, t) =>
       /\ Along(C, w, t).gik = "HAVOC"
       /\ \A v : /\ Leads(C, w, v) => v = t
                 /\ ~Leads(C, t, v)
                 /\ Leads(C, v, t) => v = w

\* Going back from any node one gets to the entry: each node but the entry is
\* behind one that was made before it.
Climbs(C) == \A n \in C.nodes : n # C.entry => \E u : Leads(C, u, n) /\ u < n

\* Nothing is behind a STOP, and nothing else leads there.
StopsLast(C) ==
  \A u, v : Leads(C, u, v) /\ Along(C, u, v).gik = "STOP" =>
    \A w : ~Leads(C, v, w) /\ (Leads(C, w, v) => w = u)

\* The code of a native instruction, whatever its kind: no edge leads back to its
\* entry, every other node is behind an edge, and of two edges out of a node both
\* are guards.
Piece(en, F) ==
  /\ Good(F.comp) /\ F.comp.entry = en
  /\ F.fresh \in Nat /\ F.fresh > en
  /\ \A n \in F.comp.nodes : n \in Nat /\ n >= en /\ n <= F.fresh
  /\ \A u, v : Leads(F.comp, u, v) => v # en
  /\ \E v : Leads(F.comp, en, v)
  /\ \A n \in F.comp.nodes : n # en => \E u : Leads(F.comp, u, n)
  /\ \A u, v, w : Leads(F.comp, u, v) /\ Leads(F.comp, u, w) /\ v # w
                    => IsGuard(Along(F.comp, u, v))
  /\ \A u, w : Jumps(F.comp, u, w) => StandsAlone(F.comp, u, w)
  /\ \A u, v : Leads(F.comp, u, v) /\ Along(F.comp, u, v).gik = "IPADD"
                    => Along(F.comp, u, v).arg \in Int
  /\ Climbs(F.comp) /\ StopsLast(F.comp)

\* L says at which address each node of C is executed if its entry is at ip.
Adds(I) == IF I.gik = "IPADD" THEN I.arg ELSE 0

AddressesFrom(C, ip, L) ==
  /\ L \in [C.nodes -> Int]
  /\ L[C.entry] = ip
  /\ \A u, v : Leads(C, u, v) /\ ~Jumps(C, u, v) => L[v] = L[u] + Adds(Along(C, u, v))

\* Every address of B is the one of an open exit.
OpenAt(C, L, B) == \A b \in B : \E m \in OpenExits(C) : L[m] = b

\* What the recognised code of an instruction with the offsets B says.
Offset(F, B) ==
  \A ip \in Int : \E L : AddressesFrom(F.comp, ip, L) /\ OpenAt(F.comp, L, {ip + b : b \in B})

\* A sink is a node no edge leaves.
LEMMA Sinks ==
  ASSUME NEW C, Good(C), NEW n \in C.nodes
  PROVE  C.succ[n] = {} <=> \A v : ~Leads(C, n, v)
BY DEF Good, IsDigraph, Leads

\* An exit is open if an instruction other than STOP leads to it.
LEMMA OpenExit ==
  ASSUME NEW C, Good(C), NEW n
  PROVE  n \in OpenExits(C) <=>
           /\ n \in C.nodes
           /\ \A v : ~Leads(C, n, v)
           /\ \E u : Leads(C, u, n) /\ Along(C, u, n).gik # "STOP"
<1>1. /\ \A u, v : <<u, v>> \in DOMAIN C.edges => u \in C.nodes /\ v \in C.nodes
      /\ \A m \in C.nodes : \A v : v \in C.succ[m] <=> <<m, v>> \in DOMAIN C.edges
      /\ \A m \in C.nodes : \A v : v \in C.pred[m] <=> <<v, m>> \in DOMAIN C.edges
      /\ \A m : m \in C.exits <=> m \in C.nodes /\ C.succ[m] = {}
  BY DEF Good, IsDigraph
<1>2. n \in C.exits <=> n \in C.nodes /\ \A v : <<n, v>> \notin DOMAIN C.edges
  BY <1>1
<1> QED
  BY <1>1, <1>2 DEF OpenExits, Leads, Along

\* The code of a native instruction that is one Microcode instruction.
LEMMA OneCode ==
  ASSUME NEW en \in Nat \ {0}, NEW I, Plain(I), I.gik = "IPADD" => I.arg \in Int
  PROVE  /\ Piece(en, Straight(en, <<I>>))
         /\ I.gik = "IPADD" => Offset(Straight(en, <<I>>), {I.arg})
         /\ IsSwitchInstruction(I) => \E u, w : Jumps(Straight(en, <<I>>).comp, u, w)
         /\ Offset(Straight(en, <<I>>), {})
<1> DEFINE F == Straight(en, <<I>>)
<1>1. /\ Good(F.comp) /\ F.comp.entry = en /\ F.fresh = en + 1
      /\ F.comp.nodes = {en, en + 1}
      /\ DOMAIN F.comp.edges = {<<en, en + 1>>}
      /\ F.comp.edges[<<en, en + 1>>] = I
  <2>1. /\ Gains(NewComponent(en), F.comp, {en + 1}, {<<en, en + 1>>})
        /\ F.fresh = en + 1
        /\ F.comp.edges[<<en, en + 1>>] = I
    BY OnePiece
  <2> HIDE DEF F
  <2> QED
    BY <2>1, NewComponentEmpty DEF Gains
<1> HIDE DEF F
<1>2. \A u, v : Leads(F.comp, u, v) <=> u = en /\ v = en + 1
  BY <1>1 DEF Leads
<1>3. Along(F.comp, en, en + 1) = I
  BY <1>1 DEF Along
<1>4. Piece(en, F)
  <2>1. \A u, w : Jumps(F.comp, u, w) => StandsAlone(F.comp, u, w)
    BY <1>2 DEF Jumps, StandsAlone
  <2>2. Climbs(F.comp)
    BY <1>1, <1>2 DEF Climbs
  <2>3. StopsLast(F.comp)
    BY <1>2 DEF StopsLast
  <2> QED
    BY <1>1, <1>2, <1>3, <2>1, <2>2, <2>3 DEF Piece, Plain
<1>5. IsSwitchInstruction(I) => \E u, w : Jumps(F.comp, u, w)
  BY <1>2, <1>3 DEF Jumps
<1>6. en + 1 \in OpenExits(F.comp) <=> I.gik # "STOP"
  BY <1>1, <1>2, <1>3, OpenExit
<1>7. ASSUME NEW ip \in Int
      PROVE  \E L : /\ AddressesFrom(F.comp, ip, L)
                    /\ I.gik = "IPADD" => L[en + 1] = ip + I.arg
  <2> DEFINE L == [n \in F.comp.nodes |-> IF n = en THEN ip ELSE ip + Adds(I)]
  <2>1. Adds(I) \in Int
    BY DEF Adds
  <2>2. L \in [F.comp.nodes -> Int] /\ L[en] = ip /\ L[en + 1] = ip + Adds(I)
    BY <1>1, <2>1
  <2> HIDE DEF L
  <2>3. AddressesFrom(F.comp, ip, L)
    BY <1>1, <1>2, <1>3, <2>2 DEF AddressesFrom
  <2> QED
    BY <2>2, <2>3 DEF Adds
<1>8. Offset(F, {})
  BY <1>7 DEF Offset, OpenAt
<1>9. I.gik = "IPADD" => Offset(F, {I.arg})
  BY <1>6, <1>7 DEF Offset, OpenAt
<1> QED
  BY <1>4, <1>5, <1>8, <1>9 DEF F

\* The code of a return.
LEMMA ReturnCode ==
  ASSUME NEW en \in Nat \ {0}
  PROVE  /\ Piece(en, Straight(en, <<Ins("DEREF", 0), Ins("IPREG", 0), Ins("HAVOC", 0)>>))
         /\ Offset(Straight(en, <<Ins("DEREF", 0), Ins("IPREG", 0), Ins("HAVOC", 0)>>), {})
         /\ \E u, w : Jumps(Straight(en, <<Ins("DEREF", 0), Ins("IPREG", 0), Ins("HAVOC", 0)>>).comp, u, w)
<1> DEFINE F == Straight(en, <<Ins("DEREF", 0), Ins("IPREG", 0), Ins("HAVOC", 0)>>)
<1>1. /\ Good(F.comp) /\ F.comp.entry = en /\ F.fresh = en + 3
      /\ F.comp.nodes = {en, en + 1, en + 2, en + 3}
      /\ DOMAIN F.comp.edges = {<<en, en + 1>>, <<en + 1, en + 2>>, <<en + 2, en + 3>>}
      /\ F.comp.edges[<<en, en + 1>>] = Ins("DEREF", 0)
      /\ F.comp.edges[<<en + 1, en + 2>>] = Ins("IPREG", 0)
      /\ F.comp.edges[<<en + 2, en + 3>>] = Ins("HAVOC", 0)
  <2>0. Plain(Ins("DEREF", 0)) /\ Plain(Ins("IPREG", 0)) /\ Plain(Ins("HAVOC", 0))
    BY DEF Plain, Ins, IsGuard, IsEmptyInstruction
  <2>1. /\ Gains(NewComponent(en), F.comp, {en + 1, en + 2, en + 3},
                  {<<en, en + 1>>, <<en + 1, en + 2>>, <<en + 2, en + 3>>})
        /\ F.fresh = en + 3
        /\ F.comp.edges[<<en, en + 1>>] = Ins("DEREF", 0)
        /\ F.comp.edges[<<en + 1, en + 2>>] = Ins("IPREG", 0)
        /\ F.comp.edges[<<en + 2, en + 3>>] = Ins("HAVOC", 0)
    BY <2>0, ReturnPiece
  <2> HIDE DEF F
  <2> QED
    BY <2>1, NewComponentEmpty DEF Gains
<1> HIDE DEF F
<1>2. \A u, v : Leads(F.comp, u, v) <=> \/ u = en /\ v = en + 1
                                        \/ u = en + 1 /\ v = en + 2
                                        \/ u = en + 2 /\ v = en + 3
  BY <1>1 DEF Leads
<1>3. /\ Along(F.comp, en, en + 1).gik = "DEREF"
      /\ Along(F.comp, en + 1, en + 2).gik = "IPREG"
      /\ Along(F.comp, en + 2, en + 3).gik = "HAVOC"
  BY <1>1 DEF Along, Ins
<1>4. Piece(en, F)
  <2>1. \A u, w : Jumps(F.comp, u, w) => u = en + 1 /\ w = en + 2
    BY <1>2, <1>3 DEF Jumps, IsSwitchInstruction
  <2>2. StandsAlone(F.comp, en + 1, en + 2)
    BY <1>2, <1>3 DEF StandsAlone
  <2>3. Climbs(F.comp)
    BY <1>1, <1>2 DEF Climbs
  <2>4. StopsLast(F.comp)
    BY <1>2, <1>3 DEF StopsLast
  <2> QED
    BY <1>1, <1>2, <1>3, <2>1, <2>2, <2>3, <2>4 DEF Piece
<1>5. \E u, w : Jumps(F.comp, u, w)
  BY <1>2, <1>3 DEF Jumps, IsSwitchInstruction
<1>6. Offset(F, {})
  <2> SUFFICES ASSUME NEW ip \in Int PROVE \E L : AddressesFrom(F.comp, ip, L)
    BY DEF Offset, OpenAt
  <2> DEFINE L == [n \in F.comp.nodes |-> ip]
  <2>1. AddressesFrom(F.comp, ip, L)
    BY <1>1, <1>2, <1>3 DEF AddressesFrom, Adds
  <2> QED
    BY <2>1
<1> QED
  BY <1>4, <1>5, <1>6 DEF F

\* The code of a conditional jump.
LEMMA ConditionalCode ==
  ASSUME NEW en \in Nat \ {0}, NEW by \in Int
  PROVE  Piece(en, Conditional(en, by)) /\ Offset(Conditional(en, by), {1, by})
<1> DEFINE F == Conditional(en, by)
<1>1. ConditionalShape(en, by, F)
  BY ConditionalPiece
<1> HIDE DEF F
<1>2. /\ Good(F.comp) /\ F.comp.entry = en /\ F.fresh = en + 4
      /\ F.comp.nodes = {en, en + 1, en + 2, en + 3, en + 4}
  BY <1>1 DEF ConditionalShape
<1>3. \A u, v : Leads(F.comp, u, v) <=>
             \/ u = en /\ v = en + 1
             \/ u = en /\ v = en + 2
             \/ u = en + 1 /\ v = en + 3
             \/ u = en + 2 /\ v = en + 4
  BY <1>1 DEF ConditionalShape, Leads
<1>4. /\ Along(F.comp, en, en + 1) = Ins("EQ", "zf")
      /\ Along(F.comp, en, en + 2) = Ins("NE", "zf")
      /\ Along(F.comp, en + 1, en + 3) = Ins("IPADD", by)
      /\ Along(F.comp, en + 2, en + 4) = Ins("IPADD", 1)
  BY <1>1 DEF ConditionalShape, Along
<1>5. Piece(en, F)
  <2>1. \A u, w : ~Jumps(F.comp, u, w)
    BY <1>3, <1>4 DEF Jumps, IsSwitchInstruction, Ins
  <2>2. \A u, v : Leads(F.comp, u, v) /\ Along(F.comp, u, v).gik = "IPADD"
                    => Along(F.comp, u, v).arg \in Int
    BY <1>3, <1>4 DEF Ins
  <2>3. \A u, v, w : Leads(F.comp, u, v) /\ Leads(F.comp, u, w) /\ v # w
                    => IsGuard(Along(F.comp, u, v))
    BY <1>3, <1>4 DEF Ins, IsGuard
  <2>4. \A n \in F.comp.nodes : n # en => \E u : Leads(F.comp, u, n)
    <3>1. \A n \in F.comp.nodes : n # en => n = en + 1 \/ n = en + 2 \/ n = en + 3 \/ n = en + 4
      BY <1>2
    <3>2. /\ Leads(F.comp, en, en + 1) /\ Leads(F.comp, en, en + 2)
          /\ Leads(F.comp, en + 1, en + 3) /\ Leads(F.comp, en + 2, en + 4)
      BY <1>3
    <3> QED
      BY ONLY <3>1, <3>2
  <2>5. \A n \in F.comp.nodes : n \in Nat /\ n >= en /\ n <= F.fresh
    BY <1>2
  <2>6. /\ \A u, v : Leads(F.comp, u, v) => v # en
        /\ \E v : Leads(F.comp, en, v)
    BY <1>3
  <2>7. Climbs(F.comp)
    <3>1. \A n \in F.comp.nodes : n # en => n = en + 1 \/ n = en + 2 \/ n = en + 3 \/ n = en + 4
      BY <1>2
    <3>2. /\ Leads(F.comp, en, en + 1) /\ Leads(F.comp, en, en + 2)
          /\ Leads(F.comp, en + 1, en + 3) /\ Leads(F.comp, en + 2, en + 4)
      BY <1>3
    <3>3. en < en + 1 /\ en < en + 2 /\ en + 1 < en + 3 /\ en + 2 < en + 4
      OBVIOUS
    <3> QED
      BY ONLY <1>2, <3>1, <3>2, <3>3 DEF Climbs
  <2>8. StopsLast(F.comp)
    <3>1. \A u, v : Leads(F.comp, u, v) => Along(F.comp, u, v).gik # "STOP"
      BY <1>3, <1>4 DEF Ins
    <3> QED
      BY <3>1 DEF StopsLast
  <2> QED
    BY <1>2, <2>1, <2>2, <2>3, <2>4, <2>5, <2>6, <2>7, <2>8 DEF Piece
<1>6. en + 3 \in OpenExits(F.comp) /\ en + 4 \in OpenExits(F.comp)
  <2>1. en + 3 \in OpenExits(F.comp)
    <3>1. en + 3 \in F.comp.nodes /\ \A v : ~Leads(F.comp, en + 3, v)
      BY <1>2, <1>3
    <3>2. Leads(F.comp, en + 1, en + 3) /\ Along(F.comp, en + 1, en + 3).gik # "STOP"
      BY <1>3, <1>4 DEF Ins
    <3> QED
      BY ONLY <1>2, <3>1, <3>2, OpenExit
  <2>2. en + 4 \in OpenExits(F.comp)
    <3>1. en + 4 \in F.comp.nodes /\ \A v : ~Leads(F.comp, en + 4, v)
      BY <1>2, <1>3
    <3>2. Leads(F.comp, en + 2, en + 4) /\ Along(F.comp, en + 2, en + 4).gik # "STOP"
      BY <1>3, <1>4 DEF Ins
    <3> QED
      BY ONLY <1>2, <3>1, <3>2, OpenExit
  <2> QED
    BY <2>1, <2>2
<1>7. ASSUME NEW ip \in Int
      PROVE  \E L : AddressesFrom(F.comp, ip, L) /\ L[en + 3] = ip + by /\ L[en + 4] = ip + 1
  <2> DEFINE L == [n \in F.comp.nodes |-> IF n = en + 3 THEN ip + by ELSE IF n = en + 4 THEN ip + 1 ELSE ip]
  <2>1. /\ L \in [F.comp.nodes -> Int]
        /\ L[en] = ip /\ L[en + 1] = ip /\ L[en + 2] = ip /\ L[en + 3] = ip + by /\ L[en + 4] = ip + 1
    BY <1>2
  <2> HIDE DEF L
  <2>2. AddressesFrom(F.comp, ip, L)
    BY <1>2, <1>3, <1>4, <2>1 DEF AddressesFrom, Adds, Jumps, IsSwitchInstruction, Ins
  <2> QED
    BY <2>1, <2>2
<1>8. Offset(F, {1, by})
  BY <1>6, <1>7 DEF Offset, OpenAt
<1> QED
  BY <1>5, <1>8 DEF F

\* The code of a conditional move into 4 bytes.
LEMMA NarrowMoveCode ==
  ASSUME NEW en \in Nat \ {0}
  PROVE  Piece(en, ConditionalMove(en, Ins("SET", 0))) /\ Offset(ConditionalMove(en, Ins("SET", 0)), {1})
<1> DEFINE F == ConditionalMove(en, Ins("SET", 0))
<1>1. NarrowMoveShape(en, F)
  BY NarrowMovePiece
<1> HIDE DEF F
<1>2. /\ Good(F.comp) /\ F.comp.entry = en /\ F.fresh = en + 4
      /\ F.comp.nodes = {en, en + 1, en + 2, en + 3, en + 4}
  BY <1>1 DEF NarrowMoveShape
<1>3. \A u, v : Leads(F.comp, u, v) <=>
             \/ u = en /\ v = en + 1
             \/ u = en /\ v = en + 2
             \/ u = en + 1 /\ v = en + 3
             \/ u = en + 3 /\ v = en + 2
             \/ u = en + 2 /\ v = en + 4
  BY <1>1 DEF NarrowMoveShape, Leads
<1>4. /\ Along(F.comp, en, en + 1) = Ins("NE", "zf")
      /\ Along(F.comp, en, en + 2) = Ins("EQ", "zf")
      /\ Along(F.comp, en + 1, en + 3) = Ins("SET", 0)
      /\ Along(F.comp, en + 3, en + 2) = Ins("SET", 0)
      /\ Along(F.comp, en + 2, en + 4) = Ins("IPADD", 1)
  BY <1>1 DEF NarrowMoveShape, Along
<1>5. Piece(en, F)
  <2>1. \A u, w : ~Jumps(F.comp, u, w)
    BY <1>3, <1>4 DEF Jumps, IsSwitchInstruction, Ins
  <2>2. \A u, v : Leads(F.comp, u, v) /\ Along(F.comp, u, v).gik = "IPADD"
                    => Along(F.comp, u, v).arg \in Int
    BY <1>3, <1>4 DEF Ins
  <2>3. \A u, v, w : Leads(F.comp, u, v) /\ Leads(F.comp, u, w) /\ v # w
                    => IsGuard(Along(F.comp, u, v))
    BY <1>3, <1>4 DEF Ins, IsGuard
  <2>4. \A n \in F.comp.nodes : n # en => \E u : Leads(F.comp, u, n)
    <3>1. \A n \in F.comp.nodes : n # en => n = en + 1 \/ n = en + 2 \/ n = en + 3 \/ n = en + 4
      BY <1>2
    <3>2. /\ Leads(F.comp, en, en + 1) /\ Leads(F.comp, en, en + 2)
          /\ Leads(F.comp, en + 1, en + 3) /\ Leads(F.comp, en + 2, en + 4)
      BY <1>3
    <3> QED
      BY ONLY <3>1, <3>2
  <2>5. \A n \in F.comp.nodes : n \in Nat /\ n >= en /\ n <= F.fresh
    BY <1>2
  <2>6. /\ \A u, v : Leads(F.comp, u, v) => v # en
        /\ \E v : Leads(F.comp, en, v)
    BY <1>3
  <2>7. Climbs(F.comp)
    <3>1. \A n \in F.comp.nodes : n # en => n = en + 1 \/ n = en + 2 \/ n = en + 3 \/ n = en + 4
      BY <1>2
    <3>2. /\ Leads(F.comp, en, en + 1) /\ Leads(F.comp, en, en + 2)
          /\ Leads(F.comp, en + 1, en + 3) /\ Leads(F.comp, en + 2, en + 4)
      BY <1>3
    <3>3. en < en + 1 /\ en < en + 2 /\ en + 1 < en + 3 /\ en + 2 < en + 4
      OBVIOUS
    <3> QED
      BY ONLY <1>2, <3>1, <3>2, <3>3 DEF Climbs
  <2>8. StopsLast(F.comp)
    <3>1. \A u, v : Leads(F.comp, u, v) => Along(F.comp, u, v).gik # "STOP"
      BY <1>3, <1>4 DEF Ins
    <3> QED
      BY <3>1 DEF StopsLast
  <2> QED
    BY <1>2, <2>1, <2>2, <2>3, <2>4, <2>5, <2>6, <2>7, <2>8 DEF Piece
<1>6. en + 4 \in OpenExits(F.comp)
  <2>1. en + 4 \in OpenExits(F.comp)
    <3>1. en + 4 \in F.comp.nodes /\ \A v : ~Leads(F.comp, en + 4, v)
      BY <1>2, <1>3
    <3>2. Leads(F.comp, en + 2, en + 4) /\ Along(F.comp, en + 2, en + 4).gik # "STOP"
      BY <1>3, <1>4 DEF Ins
    <3> QED
      BY ONLY <1>2, <3>1, <3>2, OpenExit
  <2> QED
    BY <2>1
<1>7. ASSUME NEW ip \in Int
      PROVE  \E L : AddressesFrom(F.comp, ip, L) /\ L[en + 4] = ip + 1
  <2> DEFINE L == [n \in F.comp.nodes |-> IF n = en + 4 THEN ip + 1 ELSE ip]
  <2>1. /\ L \in [F.comp.nodes -> Int]
        /\ L[en] = ip /\ L[en + 1] = ip /\ L[en + 2] = ip /\ L[en + 3] = ip /\ L[en + 4] = ip + 1
    BY <1>2
  <2> HIDE DEF L
  <2>2. AddressesFrom(F.comp, ip, L)
    BY <1>2, <1>3, <1>4, <2>1 DEF AddressesFrom, Adds, Jumps, IsSwitchInstruction, Ins
  <2> QED
    BY <2>1, <2>2
<1>8. Offset(F, {1})
  BY <1>6, <1>7 DEF Offset, OpenAt
<1> QED
  BY <1>5, <1>8 DEF F

\* The code of a conditional move into 8 bytes.
LEMMA WideMoveCode ==
  ASSUME NEW en \in Nat \ {0}
  PROVE  Piece(en, ConditionalMove(en, Empty)) /\ Offset(ConditionalMove(en, Empty), {1})
<1> DEFINE F == ConditionalMove(en, Empty)
<1>1. WideMoveShape(en, F)
  BY WideMovePiece
<1> HIDE DEF F
<1>2. /\ Good(F.comp) /\ F.comp.entry = en /\ F.fresh = en + 4
      /\ F.comp.nodes = {en, en + 1, en + 2, en + 3, en + 4}
  BY <1>1 DEF WideMoveShape
<1>3. \A u, v : Leads(F.comp, u, v) <=>
             \/ u = en /\ v = en + 1
             \/ u = en /\ v = en + 2
             \/ u = en + 1 /\ v = en + 3
             \/ u = en + 2 /\ v = en + 4
  BY <1>1 DEF WideMoveShape, Leads
<1>4. /\ Along(F.comp, en, en + 1) = Ins("NE", "zf")
      /\ Along(F.comp, en, en + 2) = Ins("EQ", "zf")
      /\ Along(F.comp, en + 1, en + 3) = Ins("SET", 0)
      /\ Along(F.comp, en + 2, en + 4) = Ins("IPADD", 1)
  BY <1>1 DEF WideMoveShape, Along
<1>5. Piece(en, F)
  <2>1. \A u, w : ~Jumps(F.comp, u, w)
    BY <1>3, <1>4 DEF Jumps, IsSwitchInstruction, Ins
  <2>2. \A u, v : Leads(F.comp, u, v) /\ Along(F.comp, u, v).gik = "IPADD"
                    => Along(F.comp, u, v).arg \in Int
    BY <1>3, <1>4 DEF Ins
  <2>3. \A u, v, w : Leads(F.comp, u, v) /\ Leads(F.comp, u, w) /\ v # w
                    => IsGuard(Along(F.comp, u, v))
    BY <1>3, <1>4 DEF Ins, IsGuard
  <2>4. \A n \in F.comp.nodes : n # en => \E u : Leads(F.comp, u, n)
    <3>1. \A n \in F.comp.nodes : n # en => n = en + 1 \/ n = en + 2 \/ n = en + 3 \/ n = en + 4
      BY <1>2
    <3>2. /\ Leads(F.comp, en, en + 1) /\ Leads(F.comp, en, en + 2)
          /\ Leads(F.comp, en + 1, en + 3) /\ Leads(F.comp, en + 2, en + 4)
      BY <1>3
    <3> QED
      BY ONLY <3>1, <3>2
  <2>5. \A n \in F.comp.nodes : n \in Nat /\ n >= en /\ n <= F.fresh
    BY <1>2
  <2>6. /\ \A u, v : Leads(F.comp, u, v) => v # en
        /\ \E v : Leads(F.comp, en, v)
    BY <1>3
  <2>7. Climbs(F.comp)
    <3>1. \A n \in F.comp.nodes : n # en => n = en + 1 \/ n = en + 2 \/ n = en + 3 \/ n = en + 4
      BY <1>2
    <3>2. /\ Leads(F.comp, en, en + 1) /\ Leads(F.comp, en, en + 2)
          /\ Leads(F.comp, en + 1, en + 3) /\ Leads(F.comp, en + 2, en + 4)
      BY <1>3
    <3>3. en < en + 1 /\ en < en + 2 /\ en + 1 < en + 3 /\ en + 2 < en + 4
      OBVIOUS
    <3> QED
      BY ONLY <1>2, <3>1, <3>2, <3>3 DEF Climbs
  <2>8. StopsLast(F.comp)
    <3>1. \A u, v : Leads(F.comp, u, v) => Along(F.comp, u, v).gik # "STOP"
      BY <1>3, <1>4 DEF Ins
    <3> QED
      BY <3>1 DEF StopsLast
  <2> QED
    BY <1>2, <2>1, <2>2, <2>3, <2>4, <2>5, <2>6, <2>7, <2>8 DEF Piece
<1>6. en + 3 \in OpenExits(F.comp) /\ en + 4 \in OpenExits(F.comp)
  <2>1. en + 3 \in OpenExits(F.comp)
    <3>1. en + 3 \in F.comp.nodes /\ \A v : ~Leads(F.comp, en + 3, v)
      BY <1>2, <1>3
    <3>2. Leads(F.comp, en + 1, en + 3) /\ Along(F.comp, en + 1, en + 3).gik # "STOP"
      BY <1>3, <1>4 DEF Ins
    <3> QED
      BY ONLY <1>2, <3>1, <3>2, OpenExit
  <2>2. en + 4 \in OpenExits(F.comp)
    <3>1. en + 4 \in F.comp.nodes /\ \A v : ~Leads(F.comp, en + 4, v)
      BY <1>2, <1>3
    <3>2. Leads(F.comp, en + 2, en + 4) /\ Along(F.comp, en + 2, en + 4).gik # "STOP"
      BY <1>3, <1>4 DEF Ins
    <3> QED
      BY ONLY <1>2, <3>1, <3>2, OpenExit
  <2> QED
    BY <2>1, <2>2
<1>7. ASSUME NEW ip \in Int
      PROVE  \E L : AddressesFrom(F.comp, ip, L) /\ L[en + 4] = ip + 1
  <2> DEFINE L == [n \in F.comp.nodes |-> IF n = en + 4 THEN ip + 1 ELSE ip]
  <2>1. /\ L \in [F.comp.nodes -> Int]
        /\ L[en] = ip /\ L[en + 1] = ip /\ L[en + 2] = ip /\ L[en + 3] = ip /\ L[en + 4] = ip + 1
    BY <1>2
  <2> HIDE DEF L
  <2>2. AddressesFrom(F.comp, ip, L)
    BY <1>2, <1>3, <1>4, <2>1 DEF AddressesFrom, Adds, Jumps, IsSwitchInstruction, Ins
  <2> QED
    BY <2>1, <2>2
<1>8. Offset(F, {1})
  BY <1>6, <1>7 DEF Offset, OpenAt
<1> QED
  BY <1>5, <1>8 DEF F

\* How far from its own address an instruction other than an indirect jump goes on.
Offsets(N) ==
  CASE N.op \in {"nop", "cmov32", "cmov64"} -> {1}
    [] N.op = "jmp" -> {N.by}
    [] N.op = "jne" -> {1, N.by}
    [] OTHER        -> {}

\* The code the recogniser makes of any native instruction.
IsCodeOf(N, en, F) ==
  /\ Piece(en, F)
  /\ Offset(F, Offsets(N))
  /\ N.op \in {"jmpreg", "ret"} => \E u, w : Jumps(F.comp, u, w)

\* Whatever instruction is recognised, its code is one piece that goes on at the
\* addresses the instruction may go on at.
LEMMA RecognisedCode ==
  ASSUME NEW en \in Nat \ {0}, NEW N, N.op \in Recognisable, N.by \in Int
  PROVE  IsCodeOf(N, en, Recognised(N, en))
<1> DEFINE F == Recognised(N, en)
<1>0. /\ N.op \in {"nop", "jmp", "jne", "jmpreg", "ret", "cmov32", "cmov64", "exit"}
      /\ 1 \in Int
  BY DEF Recognisable
<1>1. /\ \A a \in Int : /\ Plain(Ins("IPADD", a)) /\ Ins("IPADD", a).gik = "IPADD"
                        /\ Ins("IPADD", a).arg = a
                        /\ ~IsSwitchInstruction(Ins("IPADD", a))
      /\ Plain(Ins("IPREG", 0)) /\ Ins("IPREG", 0).gik # "IPADD"
      /\ IsSwitchInstruction(Ins("IPREG", 0))
      /\ Plain(Ins("STOP", 0)) /\ Ins("STOP", 0).gik # "IPADD"
      /\ ~IsSwitchInstruction(Ins("STOP", 0))
  BY DEF Plain, Ins, IsGuard, IsEmptyInstruction, IsSwitchInstruction
<1>2. CASE N.op = "nop"
  <2>1. F = Straight(en, <<Ins("IPADD", 1)>>) /\ Offsets(N) = {1}
    BY <1>2 DEF Recognised, Offsets
  <2>2. /\ Piece(en, Straight(en, <<Ins("IPADD", 1)>>))
        /\ Offset(Straight(en, <<Ins("IPADD", 1)>>), {Ins("IPADD", 1).arg})
    BY <1>1, OneCode
  <2> QED
    BY <1>1, <1>2, <2>1, <2>2 DEF IsCodeOf
<1>3. CASE N.op = "jmp"
  <2>1. F = Straight(en, <<Ins("IPADD", N.by)>>) /\ Offsets(N) = {N.by}
    BY <1>3 DEF Recognised, Offsets
  <2>2. /\ Piece(en, Straight(en, <<Ins("IPADD", N.by)>>))
        /\ Offset(Straight(en, <<Ins("IPADD", N.by)>>), {Ins("IPADD", N.by).arg})
    BY <1>1, OneCode
  <2> QED
    BY <1>1, <1>3, <2>1, <2>2 DEF IsCodeOf
<1>4. CASE N.op = "jne"
  <2>1. F = Conditional(en, N.by) /\ Offsets(N) = {1, N.by}
    BY <1>4 DEF Recognised, Offsets
  <2> QED
    BY <1>4, <2>1, ConditionalCode DEF IsCodeOf
<1>5. CASE N.op = "jmpreg"
  <2>1. F = Straight(en, <<Ins("IPREG", 0)>>) /\ Offsets(N) = {}
    BY <1>5 DEF Recognised, Offsets
  <2>2. /\ Piece(en, Straight(en, <<Ins("IPREG", 0)>>))
        /\ Offset(Straight(en, <<Ins("IPREG", 0)>>), {})
        /\ \E u, w : Jumps(Straight(en, <<Ins("IPREG", 0)>>).comp, u, w)
    BY <1>1, OneCode
  <2> QED
    BY <2>1, <2>2 DEF IsCodeOf
<1>6. CASE N.op = "ret"
  <2>1. /\ F = Straight(en, <<Ins("DEREF", 0), Ins("IPREG", 0), Ins("HAVOC", 0)>>)
        /\ Offsets(N) = {}
    BY <1>6 DEF Recognised, Offsets
  <2> QED
    BY <2>1, ReturnCode DEF IsCodeOf
<1>7. CASE N.op = "cmov32"
  <2>1. F = ConditionalMove(en, Ins("SET", 0)) /\ Offsets(N) = {1}
    BY <1>7 DEF Recognised, Offsets
  <2> QED
    BY <1>7, <2>1, NarrowMoveCode DEF IsCodeOf
<1>8. CASE N.op = "cmov64"
  <2>1. F = ConditionalMove(en, Empty) /\ Offsets(N) = {1}
    BY <1>8 DEF Recognised, Offsets
  <2> QED
    BY <1>8, <2>1, WideMoveCode DEF IsCodeOf
<1>9. CASE N.op = "exit"
  <2>1. F = Straight(en, <<Ins("STOP", 0)>>) /\ Offsets(N) = {}
    BY <1>9 DEF Recognised, Offsets
  <2>2. /\ Piece(en, Straight(en, <<Ins("STOP", 0)>>))
        /\ Offset(Straight(en, <<Ins("STOP", 0)>>), {})
    BY <1>1, OneCode
  <2> QED
    BY <1>9, <2>1, <2>2 DEF IsCodeOf
<1> QED
  BY <1>0, <1>2, <1>3, <1>4, <1>5, <1>6, <1>7, <1>8, <1>9

-----------------------------------------------------------------------------
\* The nodes T are erased from C, which lead nowhere, and code with the nodes from
\* f + 1 to l is put behind the node x, which led to nodes of T only. What the
\* recovery does to its component always has this form.
Grafted(C, D, x, f, l, T) ==
  /\ Good(D) /\ D.entry = C.entry
  /\ f \in Nat /\ l \in Nat /\ l > f
  /\ \A n \in C.nodes : n \in Nat /\ n <= f
  /\ x \in C.nodes /\ x \notin T
  /\ \A t \in T : t \in C.nodes /\ t # C.entry /\ \A v : ~Leads(C, t, v)
  /\ \A v : Leads(C, x, v) => v \in T
  /\ \A n \in D.nodes : (n \in C.nodes /\ n \notin T) \/ (n \in Nat /\ n > f /\ n <= l)
  /\ \A n \in C.nodes : n \notin T => n \in D.nodes
  /\ \A u, v : Leads(C, u, v) /\ v \notin T
                 => Leads(D, u, v) /\ Along(D, u, v) = Along(C, u, v)
  /\ \A u, v : Leads(D, u, v) =>
       \/ Leads(C, u, v) /\ v \notin T /\ u # x
       \/ (u = x \/ u > f) /\ v > f
  /\ \E v : Leads(D, x, v)

\* The code behind x is well-formed.
WellFormed(D, f) ==
  /\ \A n \in D.nodes : n > f => \E u : Leads(D, u, n)
  /\ \A u, v, w : Leads(D, u, v) /\ Leads(D, u, w) /\ v > f /\ w > f /\ v # w
                    => IsGuard(Along(D, u, v))
  /\ \A u, w : Jumps(D, u, w) /\ w > f => StandsAlone(D, u, w)
  /\ \A u, v : Leads(D, u, v) /\ v > f /\ Along(D, u, v).gik = "IPADD"
                    => Along(D, u, v).arg \in Int

\* How the nodes of a piece with the entry f + 1 are renamed when it is merged
\* into x, and back.
There(x, f, n) == IF n = f + 1 THEN x ELSE n
Back(x, f, n) == IF n = x THEN f + 1 ELSE n

Merged(C, O, D, x, f) ==
  /\ \A u, v : Leads(D, u, v) => \/ Leads(C, u, v)
                                 \/ /\ Leads(O, Back(x, f, u), v)
                                    /\ u = x \/ u > f + 1
                                    /\ v > f + 1
  /\ \A u, v : Leads(O, u, v) =>
       /\ Leads(D, There(x, f, u), v)
       /\ Along(D, There(x, f, u), v) = Along(O, u, v)
  /\ \A u, v : Leads(C, u, v) =>
       /\ Leads(D, u, v)
       /\ Along(D, u, v) = Along(C, u, v)
       /\ u # x /\ u \in C.nodes /\ v \in C.nodes
  /\ \A n : n \in D.nodes <=> n \in C.nodes \/ (n \in O.nodes /\ n # f + 1)
  /\ \A u, v : Leads(O, u, v) => u \in O.nodes /\ v \in O.nodes /\ v > f + 1 /\ u > f
  /\ \A n \in O.nodes : n \in Nat /\ n > f
  /\ \A n \in C.nodes : n \in Nat /\ n <= f
  /\ x \in C.nodes
  /\ f \in Nat

\* Where code may be merged: the exit x of a component with nodes up to f.
CanExtend(C, f, x) ==
  /\ Good(C) /\ f \in Nat /\ C.nodes \subseteq 1..f
  /\ x \in C.nodes /\ C.succ[x] = {}

\* The edges of a piece merged into x.
LEMMA MergedEdges ==
  ASSUME NEW C, NEW f, NEW x, CanExtend(C, f, x), NEW F, Piece(f + 1, F)
  PROVE  /\ Merged(C, F.comp, AppendByMerging(C, F.comp, x), x, f)
         /\ Good(AppendByMerging(C, F.comp, x))
         /\ AppendByMerging(C, F.comp, x).entry = C.entry
<1> DEFINE O == F.comp
           D == AppendByMerging(C, O, x)
<1>1. /\ f \in Nat /\ x \in C.nodes /\ Good(C) /\ C.succ[x] = {} /\ C.nodes \subseteq 1..f
      /\ \A n \in C.nodes : n \in Nat /\ n <= f
  BY DEF CanExtend
<1>2. /\ Good(O) /\ O.entry = f + 1
      /\ \A n \in O.nodes : n \in Nat /\ n > f
      /\ \A u, v : Leads(O, u, v) => v # f + 1
  BY <1>1 DEF Piece
<1>3. Joined(C, O, x, D)
  <2>1. <<f + 1, f + 1>> \notin DOMAIN O.edges
    BY <1>2 DEF Leads
  <2> QED
    BY <1>1, <1>2, <2>1, MergeJoins
<1> HIDE DEF D, O
<1>4. /\ \A u, v : Leads(C, u, v) => u \in C.nodes /\ v \in C.nodes /\ v \in C.succ[u]
      /\ \A u, v : Leads(O, u, v) => u \in O.nodes /\ v \in O.nodes
  BY <1>1, <1>2 DEF Good, IsDigraph, Leads
<1>5. \A u, v : Leads(O, u, v) => u > f /\ v > f + 1
  BY <1>1, <1>2, <1>4
<1>6. \A u, v : Leads(O, u, v) => Moved(O, x, <<u, v>>) = <<There(x, f, u), v>>
  BY <1>2 DEF Moved, Redirected, There
<1>7. \A u, v : Leads(O, u, v) =>
        /\ Leads(D, There(x, f, u), v)
        /\ Along(D, There(x, f, u), v) = Along(O, u, v)
  BY <1>3, <1>6 DEF Joined, Leads, Along
<1>8. \A u, v : Leads(C, u, v) =>
        /\ Leads(D, u, v)
        /\ Along(D, u, v) = Along(C, u, v)
        /\ u # x
  BY <1>1, <1>3, <1>4 DEF Joined, Keeps, Leads, Along
<1>9. ASSUME NEW u, NEW v, Leads(D, u, v), ~Leads(C, u, v)
      PROVE  Leads(O, Back(x, f, u), v) /\ (u = x \/ u > f + 1) /\ v > f + 1
  <2>1. PICK e \in DOMAIN O.edges : <<u, v>> = Moved(O, x, e)
    BY <1>3, <1>9 DEF Joined, Leads
  <2>2. PICK a, b : e = <<a, b>>
    BY <1>2 DEF Good, IsDigraph
  <2>3. Leads(O, a, b)
    BY <2>1, <2>2 DEF Leads
  <2>4. u = There(x, f, a) /\ v = b
    BY <1>6, <2>1, <2>2, <2>3
  <2>5. a # x /\ a \in Nat /\ a > f
    BY <1>1, <1>2, <1>4, <2>3
  <2> QED
    BY <1>1, <1>5, <2>3, <2>4, <2>5 DEF There, Back
<1>10. \A n : n \in D.nodes <=> n \in C.nodes \/ (n \in O.nodes /\ n # f + 1)
  BY <1>2, <1>3 DEF Joined
<1>11. Merged(C, O, D, x, f)
  BY <1>1, <1>2, <1>4, <1>5, <1>7, <1>8, <1>9, <1>10 DEF Merged
<1>12. Good(D) /\ D.entry = C.entry
  BY <1>3 DEF Joined
<1> QED
  BY <1>11, <1>12 DEF D, O

\* The merged code is behind x and well-formed.
LEMMA MergedCode ==
  ASSUME NEW C, NEW f, NEW x, CanExtend(C, f, x), NEW F, Piece(f + 1, F), NEW D,
         Merged(C, F.comp, D, x, f), Good(D), D.entry = C.entry
  PROVE  Grafted(C, D, x, f, F.fresh, {}) /\ WellFormed(D, f)
<1> DEFINE O == F.comp
           at(n) == There(x, f, n)
           of(n) == Back(x, f, n)
<1>1. /\ Good(O) /\ O.entry = f + 1
      /\ F.fresh \in Nat /\ F.fresh > f + 1
      /\ \A n \in O.nodes : n \in Nat /\ n >= f + 1 /\ n <= F.fresh
      /\ \E v : Leads(O, f + 1, v)
      /\ \A n \in O.nodes : n # f + 1 => \E u : Leads(O, u, n)
      /\ \A u, v, w : Leads(O, u, v) /\ Leads(O, u, w) /\ v # w => IsGuard(Along(O, u, v))
      /\ \A u, w : Jumps(O, u, w) => StandsAlone(O, u, w)
      /\ \A u, v : Leads(O, u, v) /\ Along(O, u, v).gik = "IPADD" => Along(O, u, v).arg \in Int
  BY DEF Piece
<1>2. /\ \A u, v : Leads(D, u, v) =>
           \/ Leads(C, u, v)
           \/ Leads(O, of(u), v) /\ (u = x \/ u > f + 1) /\ v > f + 1
      /\ \A u, v : Leads(O, u, v) => Leads(D, at(u), v) /\ Along(D, at(u), v) = Along(O, u, v)
      /\ \A u, v : Leads(C, u, v) =>
           /\ Leads(D, u, v)
           /\ Along(D, u, v) = Along(C, u, v)
           /\ u # x /\ u \in C.nodes /\ v \in C.nodes
      /\ \A n : n \in D.nodes <=> n \in C.nodes \/ (n \in O.nodes /\ n # f + 1)
      /\ \A u, v : Leads(O, u, v) => u \in O.nodes /\ v \in O.nodes /\ v > f + 1 /\ u > f
      /\ \A n \in O.nodes : n \in Nat /\ n > f
      /\ \A n \in C.nodes : n \in Nat /\ n <= f
      /\ x \in C.nodes
      /\ f \in Nat
  BY DEF Merged
<1>3. /\ \A n : at(n) = IF n = f + 1 THEN x ELSE n
      /\ \A n : of(n) = IF n = x THEN f + 1 ELSE n
  BY DEF There, Back
<1> HIDE DEF O, at, of
<1>4. \A u, v : Leads(C, u, v) => u <= f /\ v <= f /\ u \in Nat /\ v \in Nat
  BY <1>2
<1>5. \A n : of(n) = n \/ (of(n) = f + 1 /\ n = x)
  BY <1>3
\* A new edge, seen from the piece.
<1>6. ASSUME NEW u, NEW v, Leads(D, u, v), v > f
      PROVE  /\ Leads(O, of(u), v) /\ (u = x \/ u > f + 1)
             /\ Along(D, u, v) = Along(O, of(u), v)
             /\ at(of(u)) = u
  <2>1. ~Leads(C, u, v)
    BY <1>2, <1>4, <1>6
  <2>2. Leads(O, of(u), v) /\ (u = x \/ u > f + 1)
    BY <1>2, <1>6, <2>1
  <2>3. of(u) \in Nat
    BY <1>2, <2>2
  <2>4. at(of(u)) = u
    BY <1>2, <1>3, <2>2
  <2> QED
    BY <1>2, <2>2, <2>4
<1>7. Grafted(C, D, x, f, F.fresh, {})
  <2>1. \E v : Leads(D, x, v)
    BY <1>1, <1>2, <1>3
  <2>2. \A n \in D.nodes : n \in C.nodes \/ (n \in Nat /\ n > f /\ n <= F.fresh)
    BY <1>1, <1>2
  <2>3. \A v : ~Leads(C, x, v)
    BY <1>2
  <2>4. \A u, v : Leads(D, u, v) => \/ Leads(C, u, v) /\ u # x
                                    \/ (u = x \/ u > f) /\ v > f
    <3>1. \A u, v : Leads(O, u, v) => v \in Nat
      BY <1>2
    <3>2. ASSUME NEW u, NEW v, Leads(D, u, v), ~Leads(C, u, v)
          PROVE  (u = x \/ u > f) /\ v > f
      <4>1. Leads(O, of(u), v) /\ (u = x \/ u > f + 1) /\ v > f + 1
        BY <1>2, <3>2
      <4>2. u # x => u \in Nat
        BY <1>2, <1>5, <4>1
      <4> QED
        BY <1>2, <3>1, <4>1, <4>2
    <3> QED
      BY <1>2, <3>2
  <2>5. F.fresh > f
    BY <1>1, <1>2
  <2> QED
    BY <1>1, <1>2, <2>1, <2>2, <2>3, <2>4, <2>5 DEF Grafted
<1>8. \A n \in D.nodes : n > f => \E u : Leads(D, u, n)
  <2> SUFFICES ASSUME NEW n \in D.nodes, n > f PROVE \E u : Leads(D, u, n)
    OBVIOUS
  <2>1. n \in O.nodes /\ n # f + 1
    BY <1>2
  <2> QED
    BY <1>1, <1>2, <2>1
<1>9. \A u, v, w : Leads(D, u, v) /\ Leads(D, u, w) /\ v > f /\ w > f /\ v # w
                    => IsGuard(Along(D, u, v))
  BY <1>1, <1>6
<1>10. ASSUME NEW u, NEW w, Jumps(D, u, w), w > f
       PROVE  StandsAlone(D, u, w)
  <2>1. /\ Leads(O, of(u), w) /\ (u = x \/ u > f + 1)
        /\ Along(D, u, w) = Along(O, of(u), w) /\ at(of(u)) = u
    BY <1>6, <1>10 DEF Jumps
  <2>2. StandsAlone(O, of(u), w)
    BY <1>1, <1>10, <2>1 DEF Jumps
  <2>3. w \in Nat /\ w > f + 1 /\ w # x /\ of(w) = w /\ at(w) = w
    BY <1>2, <1>3, <2>1
  <2>4. ASSUME NEW v, Leads(D, u, v) PROVE v = w
    <3>1. v > f
      <4>1. ~Leads(C, u, v)
        <5>1. u = x \/ ~(u <= f) \/ u \notin Nat
          BY <1>2, <2>1
        <5> QED
          BY <1>2, <1>4, <5>1
      <4>2. Leads(O, of(u), v) /\ v > f + 1
        BY <1>2, <2>4, <4>1
      <4>3. v \in Nat
        BY <1>2, <4>2
      <4> QED
        BY <1>2, <4>2, <4>3
    <3>2. Leads(O, of(u), v)
      BY <1>6, <2>4, <3>1
    <3> QED
      BY <2>2, <3>2 DEF StandsAlone
  <2>5. ASSUME NEW v, Leads(D, v, w) PROVE v = u
    <3>1. Leads(O, of(v), w) /\ at(of(v)) = v
      BY <1>6, <1>10, <2>5
    <3>2. of(v) = of(u)
      BY <2>2, <3>1 DEF StandsAlone
    <3> QED
      BY <2>1, <3>1, <3>2
  <2>6. ASSUME NEW t, Leads(D, w, t)
        PROVE  /\ Along(D, w, t).gik = "HAVOC"
               /\ \A v : /\ Leads(D, w, v) => v = t
                         /\ ~Leads(D, t, v)
                         /\ Leads(D, v, t) => v = w
    <3>0. \A v : ~Leads(C, w, v)
      BY <1>2, <1>4, <2>3
    <3>1. \A v : Leads(D, w, v) => Leads(O, w, v) /\ v \in Nat /\ v > f + 1
      BY <1>2, <2>3, <3>0
    <3>2. /\ Leads(O, w, t) /\ t \in Nat /\ t > f + 1 /\ t # x /\ of(t) = t /\ at(w) = w
      BY <1>2, <1>3, <2>3, <2>6, <3>1
    <3>3. /\ Along(O, w, t).gik = "HAVOC"
          /\ \A v : /\ Leads(O, w, v) => v = t
                    /\ ~Leads(O, t, v)
                    /\ Leads(O, v, t) => v = w
      BY <2>2, <3>2 DEF StandsAlone
    <3>4. Along(D, w, t) = Along(O, w, t)
      BY <1>2, <3>2
    <3>5. \A v : ~Leads(D, t, v)
      BY <1>2, <1>4, <3>2, <3>3
    <3>6. \A v : Leads(D, v, t) => v = w
      <4> SUFFICES ASSUME NEW v, Leads(D, v, t) PROVE v = w
        OBVIOUS
      <4>1. t > f
        BY <1>2, <3>2
      <4>2. Leads(O, of(v), t) /\ at(of(v)) = v
        BY <1>6, <4>1
      <4> QED
        BY <3>2, <3>3, <4>2
    <3> QED
      BY <3>1, <3>3, <3>4, <3>5, <3>6
  <2> QED
    BY <2>4, <2>5, <2>6 DEF StandsAlone
<1>11. \A u, v : Leads(D, u, v) /\ v > f /\ Along(D, u, v).gik = "IPADD"
                    => Along(D, u, v).arg \in Int
  BY <1>1, <1>6
<1> QED
  BY <1>7, <1>8, <1>9, <1>10, <1>11 DEF WellFormed

\* A new edge of the merged component is an edge of the piece.
LEMMA MergedEdge ==
  ASSUME NEW C, NEW O, NEW D, NEW x, NEW f, Merged(C, O, D, x, f),
         NEW u, NEW v, Leads(D, u, v), v > f
  PROVE  /\ Leads(O, Back(x, f, u), v) /\ (u = x \/ u > f + 1)
         /\ Along(D, u, v) = Along(O, Back(x, f, u), v)
<1>1. ~Leads(C, u, v)
  BY DEF Merged
<1>2. Leads(O, Back(x, f, u), v) /\ (u = x \/ u > f + 1)
  BY <1>1 DEF Merged
<1>3. Back(x, f, u) \in Nat /\ x \in Nat /\ x <= f /\ f \in Nat
  BY <1>2 DEF Merged
<1>4. There(x, f, Back(x, f, u)) = u
  <2>1. u = x => Back(x, f, u) = f + 1 /\ There(x, f, f + 1) = x
    BY DEF There, Back
  <2>2. u # x => Back(x, f, u) = u /\ u # f + 1
    BY <1>2, <1>3 DEF Back
  <2> QED
    BY <2>1, <2>2 DEF There
<1>5. Along(D, There(x, f, Back(x, f, u)), v) = Along(O, Back(x, f, u), v)
  BY <1>2 DEF Merged
<1> QED
  BY <1>2, <1>4, <1>5

\* The code behind x goes back to x, and nothing is behind a STOP of it.
StandsBehind(D, f) ==
  /\ \A n \in D.nodes : n > f => \E u : Leads(D, u, n) /\ u < n
  /\ \A u, v : Leads(D, u, v) /\ v > f /\ Along(D, u, v).gik = "STOP" =>
       \A w : ~Leads(D, v, w) /\ (Leads(D, w, v) => w = u)

\* That is so of a merged piece.
LEMMA MergedStands ==
  ASSUME NEW C, NEW f, NEW x, NEW F, Piece(f + 1, F), NEW D, Merged(C, F.comp, D, x, f)
  PROVE  StandsBehind(D, f)
<1> DEFINE O == F.comp
<1>1. /\ f \in Nat /\ x \in Nat /\ x <= f /\ O.entry = f + 1
      /\ Climbs(O) /\ StopsLast(O)
      /\ \A n : n \in D.nodes <=> n \in C.nodes \/ (n \in O.nodes /\ n # f + 1)
      /\ \A u, v : Leads(O, u, v) => u \in O.nodes /\ v \in O.nodes /\ v > f + 1 /\ u > f
      /\ \A n \in O.nodes : n \in Nat /\ n > f
      /\ \A n \in C.nodes : n \in Nat /\ n <= f
      /\ \A u, v : Leads(O, u, v) => Leads(D, There(x, f, u), v)
      /\ \A u, v : Leads(C, u, v) => u \in C.nodes
  BY DEF Merged, Piece
<1>2. \A u, v : Leads(D, u, v) /\ v > f =>
        /\ Leads(O, Back(x, f, u), v) /\ (u = x \/ u > f + 1)
        /\ Along(D, u, v) = Along(O, Back(x, f, u), v)
  BY MergedEdge
<1>3. \A u, v : Leads(D, u, v) => Leads(C, u, v) \/ (Leads(O, Back(x, f, u), v) /\ v > f + 1)
  BY DEF Merged
<1> HIDE DEF O
<1>4. ASSUME NEW n \in D.nodes, n > f
      PROVE  \E u : Leads(D, u, n) /\ u < n
  <2>1. n \in O.nodes /\ n # f + 1 /\ n \in Nat
    BY <1>1, <1>4
  <2>2. PICK u : Leads(O, u, n) /\ u < n
    BY <1>1, <2>1 DEF Climbs
  <2>3. There(x, f, u) < n
    BY <1>1, <1>4, <2>1, <2>2 DEF There
  <2> QED
    BY <1>1, <2>2, <2>3
<1>5. ASSUME NEW u, NEW v, Leads(D, u, v), v > f, Along(D, u, v).gik = "STOP", NEW w
      PROVE  ~Leads(D, v, w) /\ (Leads(D, w, v) => w = u)
  <2>1. /\ Leads(O, Back(x, f, u), v) /\ (u = x \/ u > f + 1)
        /\ Along(O, Back(x, f, u), v).gik = "STOP"
    BY <1>2, <1>5
  <2>2. \A z : ~Leads(O, v, z) /\ (Leads(O, z, v) => z = Back(x, f, u))
    BY <1>1, <2>1 DEF StopsLast
  <2>3. v \in Nat /\ v # x /\ Back(x, f, v) = v /\ v \notin C.nodes
    BY <1>1, <1>5, <2>1 DEF Back
  <2>4. ~Leads(D, v, w)
    BY <1>1, <1>3, <2>2, <2>3
  <2>5. ASSUME Leads(D, w, v) PROVE w = u
    <3>1. Leads(O, Back(x, f, w), v) /\ (w = x \/ w > f + 1)
      BY <1>2, <1>5, <2>5
    <3>2. Back(x, f, w) = Back(x, f, u)
      BY <2>2, <3>1
    <3>3. \A z : z = x \/ z > f + 1 => \/ Back(x, f, z) = f + 1 /\ z = x
                                       \/ Back(x, f, z) = z /\ z > f + 1
      BY DEF Back
    <3> QED
      BY <1>1, <2>1, <3>1, <3>2, <3>3
  <2> QED
    BY <2>4, <2>5
<1> QED
  BY <1>4, <1>5 DEF StandsBehind

\* The exits among the new nodes are the reported ones, or lie behind a STOP.
ExitsReported(D, f, open) ==
  /\ \A n \in open : /\ n \in D.nodes /\ n > f
                     /\ \A v : ~Leads(D, n, v)
                     /\ \E u : Leads(D, u, n) /\ Along(D, u, n).gik # "STOP"
  /\ \A n \in D.nodes : n > f /\ (\A v : ~Leads(D, n, v)) /\ n \notin open =>
       \A u : Leads(D, u, n) => Along(D, u, n).gik = "STOP"

\* The open exits of a piece are what the merged component has to report.
LEMMA MergedExits ==
  ASSUME NEW C, NEW f, NEW x, NEW F, Piece(f + 1, F), NEW D, Merged(C, F.comp, D, x, f)
  PROVE  ExitsReported(D, f, OpenExits(F.comp))
<1> DEFINE O == F.comp
<1>1. /\ Good(O) /\ f \in Nat /\ x \in Nat /\ x <= f
      /\ \E v : Leads(O, f + 1, v)
      /\ \A n : n \in D.nodes <=> n \in C.nodes \/ (n \in O.nodes /\ n # f + 1)
      /\ \A u, v : Leads(O, u, v) => u \in O.nodes /\ v \in O.nodes /\ v > f + 1 /\ u > f
      /\ \A n \in O.nodes : n \in Nat /\ n > f
      /\ \A n \in C.nodes : n \in Nat /\ n <= f
  BY DEF Merged, Piece
<1> HIDE DEF O
<1>2. ASSUME NEW n \in O.nodes, n # f + 1
      PROVE  /\ n \in D.nodes /\ n > f /\ n # x
             /\ (\A v : ~Leads(D, n, v)) <=> (\A v : ~Leads(O, n, v))
             /\ \A u : Leads(D, u, n) => /\ Leads(O, Back(x, f, u), n)
                                         /\ Along(D, u, n) = Along(O, Back(x, f, u), n)
             /\ \A u : Leads(O, u, n) => /\ Leads(D, There(x, f, u), n)
                                         /\ Along(D, There(x, f, u), n) = Along(O, u, n)
  <2>1. n \in D.nodes /\ n > f /\ n # x /\ n \in Nat
    BY <1>1, <1>2
  <2>2. Back(x, f, n) = n /\ There(x, f, n) = n
    BY <1>2, <2>1 DEF There, Back
  <2>3. \A u : Leads(O, u, n) => /\ Leads(D, There(x, f, u), n)
                                 /\ Along(D, There(x, f, u), n) = Along(O, u, n)
    BY DEF Merged, O
  <2>4. \A u : Leads(D, u, n) => /\ Leads(O, Back(x, f, u), n)
                                 /\ Along(D, u, n) = Along(O, Back(x, f, u), n)
    BY <2>1, MergedEdge DEF O
  <2>5. \A v : Leads(O, n, v) => Leads(D, n, v)
    BY <2>2 DEF Merged, O
  <2>6. \A v : Leads(D, n, v) => Leads(O, n, v)
    <3>1. \A v : ~Leads(C, n, v)
      BY <2>1 DEF Merged
    <3> QED
      BY <2>2, <3>1 DEF Merged, O
  <2> QED
    BY <2>1, <2>3, <2>4, <2>5, <2>6
<1>3. ASSUME NEW n \in OpenExits(O)
      PROVE  /\ n \in D.nodes /\ n > f
             /\ \A v : ~Leads(D, n, v)
             /\ \E u : Leads(D, u, n) /\ Along(D, u, n).gik # "STOP"
  <2>1. /\ n \in O.nodes
        /\ \A v : ~Leads(O, n, v)
        /\ \E u : Leads(O, u, n) /\ Along(O, u, n).gik # "STOP"
    BY <1>1, OpenExit
  <2>2. n # f + 1
    BY <1>1, <2>1
  <2> QED
    BY <1>2, <2>1, <2>2
<1>4. ASSUME NEW n \in D.nodes, n > f, \A v : ~Leads(D, n, v), n \notin OpenExits(O),
             NEW u, Leads(D, u, n)
      PROVE  Along(D, u, n).gik = "STOP"
  <2>1. n \in O.nodes /\ n # f + 1
    BY <1>1, <1>4
  <2>2. /\ \A v : ~Leads(O, n, v)
        /\ Leads(O, Back(x, f, u), n)
        /\ Along(D, u, n) = Along(O, Back(x, f, u), n)
    BY <1>2, <1>4, <2>1
  <2> QED
    BY <1>1, <1>4, <2>1, <2>2, OpenExit
<1> QED
  BY <1>3, <1>4 DEF ExitsReported, O

\* If C has an assignment of addresses to nodes, so has the merged component.
Labelled(D, f, K) ==
  /\ K \in [D.nodes -> Int]
  /\ \A u, v : Leads(D, u, v) /\ ~Jumps(D, u, v) /\ v > f
                 => K[v] = K[u] + Adds(Along(D, u, v))

\* The piece F has the addresses L if its entry is where x is by the addresses M.
HasAddresses(C, f, x, F, D, M, L) ==
  /\ Piece(f + 1, F) /\ Merged(C, F.comp, D, x, f)
  /\ M \in [C.nodes -> Int] /\ AddressesFrom(F.comp, M[x], L)

TakesAddresses(C, f, F, D, M, L, K) ==
  /\ Labelled(D, f, K)
  /\ \A n \in C.nodes : K[n] = M[n]
  /\ \A n \in F.comp.nodes : n # f + 1 => K[n] = L[n]

\* With the addresses of the piece the merged component has addresses too.
LEMMA MergedAddresses ==
  ASSUME NEW C, NEW f, NEW x, NEW F, NEW D, NEW M, NEW L,
         HasAddresses(C, f, x, F, D, M, L)
  PROVE  \E K : TakesAddresses(C, f, F, D, M, L, K)
<1> DEFINE O == F.comp
           K == [n \in D.nodes |-> IF n \in C.nodes THEN M[n] ELSE L[n]]
<1>0. /\ Piece(f + 1, F) /\ Merged(C, F.comp, D, x, f)
      /\ M \in [C.nodes -> Int] /\ AddressesFrom(F.comp, M[x], L)
  BY DEF HasAddresses
<1>1. /\ f \in Nat /\ x \in C.nodes /\ x \in Nat /\ x <= f /\ O.entry = f + 1
      /\ \A n : n \in D.nodes <=> n \in C.nodes \/ (n \in O.nodes /\ n # f + 1)
      /\ \A u, v : Leads(O, u, v) => u \in O.nodes /\ v \in O.nodes /\ v > f + 1 /\ u > f
      /\ \A n \in O.nodes : n \in Nat /\ n > f
      /\ \A n \in C.nodes : n \in Nat /\ n <= f
  BY <1>0 DEF Merged, Piece
<1> HIDE DEF O
<1>2. /\ L \in [O.nodes -> Int] /\ L[f + 1] = M[x]
      /\ \A u, v : Leads(O, u, v) /\ ~Jumps(O, u, v) => L[v] = L[u] + Adds(Along(O, u, v))
  BY <1>0, <1>1 DEF AddressesFrom, O
<1>3. /\ K \in [D.nodes -> Int]
      /\ \A n \in C.nodes : K[n] = M[n]
      /\ \A n \in O.nodes : n # f + 1 => K[n] = L[n]
  <2>1. \A n \in D.nodes : (IF n \in C.nodes THEN M[n] ELSE L[n]) \in Int
    BY <1>0, <1>1, <1>2
  <2>2. \A n \in O.nodes : n \notin C.nodes
    BY <1>1
  <2> QED
    BY <1>1, <2>1, <2>2
<1> HIDE DEF K
<1>4. ASSUME NEW u, NEW v, Leads(D, u, v), ~Jumps(D, u, v), v > f
      PROVE  K[v] = K[u] + Adds(Along(D, u, v))
  <2>1. /\ Leads(O, Back(x, f, u), v) /\ (u = x \/ u > f + 1)
        /\ Along(D, u, v) = Along(O, Back(x, f, u), v)
    BY <1>0, <1>4, MergedEdge DEF O
  <2>2. ~Jumps(O, Back(x, f, u), v)
    BY <1>4, <2>1 DEF Jumps
  <2>3. L[v] = L[Back(x, f, u)] + Adds(Along(D, u, v))
    BY <1>2, <2>1, <2>2
  <2>4. K[v] = L[v]
    BY <1>1, <1>3, <2>1
  <2>5. K[u] = L[Back(x, f, u)]
    <3>1. CASE u = x
      BY <1>1, <1>2, <1>3, <3>1 DEF Back
    <3>2. CASE u # x
      <4>1. Back(x, f, u) = u /\ u \in O.nodes /\ u # f + 1
        BY <1>1, <2>1, <3>2 DEF Back
      <4> QED
        BY <1>3, <4>1
    <3> QED
      BY <3>1, <3>2
  <2> QED
    BY <2>3, <2>4, <2>5
<1>5. Labelled(D, f, K)
  BY <1>3, <1>4 DEF Labelled
<1> QED
  BY <1>3, <1>5 DEF TakesAddresses, O

-----------------------------------------------------------------------------
\* Where a case can be hung on the default of a switch: it leads nowhere, or it is
\* the head of a new switch and leads to one node that leads nowhere.
After(C, d) == {t \in C.nodes : Leads(C, d, t)}

CanHang(C, f, info) ==
  /\ Good(C) /\ f \in Nat /\ C.nodes \subseteq 1..f
  /\ info.default \in C.nodes
  /\ info.havoc => \A t : ~Leads(C, info.default, t)
  /\ \A t : Leads(C, info.default, t) =>
       /\ t # C.entry
       /\ \A v : ~Leads(C, t, v)
       /\ \A v : Leads(C, info.default, v) => v = t

\* What adding the case for ip makes: a comparison behind the default d, two
\* guards, and the havoc of the temporaries before the case.
AddedCase(C, d, ip, f, r) ==
  /\ Grafted(C, r.comp, d, f, f + 4, After(C, d))
  /\ r.fresh = f + 4 /\ r.begin = f + 4 /\ r.default = f + 3
  /\ \/ r.erased = 0 /\ After(C, d) = {}
     \/ After(C, d) = {r.erased}
  /\ \A u, v : v > f => (Leads(r.comp, u, v) <=>
       \/ u = d /\ v = f + 1
       \/ u = f + 1 /\ v = f + 2
       \/ u = f + 1 /\ v = f + 3
       \/ u = f + 2 /\ v = f + 4)
  /\ Along(r.comp, d, f + 1) = Ins("XOR", ip)
  /\ Along(r.comp, f + 1, f + 2) = Ins("EQ", "tmp")
  /\ Along(r.comp, f + 1, f + 3) = Ins("NE", "tmp")
  /\ Along(r.comp, f + 2, f + 4) = Ins("HAVOC", 0)

\* B is C without the nodes T, which lead nowhere.
Bared(C, B, T) ==
  /\ Good(B) /\ B.entry = C.entry
  /\ B.nodes = C.nodes \ T
  /\ \A u, v : Leads(B, u, v) <=> Leads(C, u, v) /\ v \notin T
  /\ \A u, v : Leads(B, u, v) => Along(B, u, v) = Along(C, u, v)

\* Erasing a node that leads nowhere.
LEMMA RemoveSink ==
  ASSUME NEW C, Good(C), NEW t \in C.nodes, t # C.entry, \A v : ~Leads(C, t, v)
  PROVE  Bared(C, RemoveNode(C, t), {t})
<1> DEFINE B == RemoveNode(C, t)
<1>1. CanRemoveNode(C, t)
  BY DEF CanRemoveNode, Good, IsDigraph, Leads
<1>2. /\ Good(B)
      /\ B.nodes = C.nodes \ {t}
      /\ B.edges = Restrict(C.edges, EdgesApartFrom(C, t))
      /\ B.entry = C.entry
  BY <1>1, RemoveNodeGood
<1> HIDE DEF B
<1>3. \A u, v : <<u, v>> \in EdgesApartFrom(C, t) <=> Leads(C, u, v) /\ v # t
  BY DEF EdgesApartFrom, Leads
<1>4. /\ DOMAIN B.edges = EdgesApartFrom(C, t)
      /\ \A e \in EdgesApartFrom(C, t) : B.edges[e] = C.edges[e]
  BY <1>2 DEF Restrict, EdgesApartFrom
<1>5. Bared(C, B, {t})
  BY <1>2, <1>3, <1>4 DEF Bared, Leads, Along
<1> QED
  BY <1>5 DEF B

\* add_case_to_switch makes the added case where one can hang.
LEMMA CaseIsAdded ==
  ASSUME NEW C, NEW f, NEW info, CanHang(C, f, info), NEW ip
  PROVE  AddedCase(C, info.default, ip, f, AddCase(C, info, ip, f))
<1> DEFINE d == info.default
           T == After(C, d)
           tail == HavocTail(C, info)
           bare == IF tail = 0 THEN C ELSE RemoveNode(C, tail)
           I == <<Ins("XOR", ip)>>
           H == <<Ins("HAVOC", 0)>>
           x == InsertSequence(bare, d, I, 0, f)
           b == InsertBranching(x.comp, "EQ", "tmp", x.last, 0, 0, x.fresh)
           h == InsertSequence(b.comp, b.fst, H, 0, b.fresh)
           r == [comp |-> h.comp, fresh |-> h.fresh, begin |-> h.last, default |-> b.snd,
                 erased |-> tail]
<1>1. AddCase(C, info, ip, f) = r
  BY DEF AddCase, CaseAdded
<1>2. /\ Good(C) /\ f \in Nat /\ d \in C.nodes
      /\ \A n \in C.nodes : n \in Nat /\ n >= 1 /\ n <= f
      /\ \A u, v : Leads(C, u, v) => u \in C.nodes /\ v \in C.nodes
      /\ \A v : v \in C.succ[d] <=> Leads(C, d, v)
      /\ T = C.succ[d]
  BY DEF CanHang, Good, IsDigraph, Leads, After
<1>3. \/ tail = 0 /\ T = {}
      \/ tail \in C.nodes /\ tail # 0 /\ T = {tail} /\ tail # C.entry /\ \A v : ~Leads(C, tail, v)
  <2>1. CASE info.havoc \/ C.succ[d] = {}
    BY <1>2, <2>1 DEF CanHang, HavocTail
  <2>2. CASE ~info.havoc /\ C.succ[d] # {}
    <3>1. tail \in C.succ[d]
      BY <2>2 DEF HavocTail
    <3> HIDE DEF tail
    <3>2. /\ tail \in C.nodes /\ tail # 0 /\ tail # C.entry
          /\ \A v : ~Leads(C, tail, v)
          /\ \A v : Leads(C, d, v) => v = tail
      BY <1>2, <3>1 DEF CanHang
    <3>3. T = {tail}
      <4> HIDE DEF T
      <4> QED
        BY <1>2, <3>1, <3>2
    <3> QED
      BY <3>2, <3>3
  <2> QED
    BY <2>1, <2>2
<1> HIDE DEF T, tail
<1>4. Bared(C, bare, T)
  <2>1. CASE tail = 0
    <3>1. T = {} /\ bare = C
      BY <1>2, <1>3, <2>1
    <3> HIDE DEF bare
    <3> QED
      BY <1>2, <3>1 DEF Bared
  <2>2. CASE tail # 0
    <3>1. /\ tail \in C.nodes /\ T = {tail} /\ tail # C.entry /\ \A v : ~Leads(C, tail, v)
          /\ bare = RemoveNode(C, tail)
      BY <1>3, <2>2
    <3> HIDE DEF bare
    <3>2. Bared(C, RemoveNode(C, tail), {tail})
      BY <1>2, <3>1, RemoveSink
    <3> QED
      BY <3>1, <3>2
  <2> QED
    BY <2>1, <2>2
<1> HIDE DEF bare
<1>5. d \notin T
  BY <1>2, <1>3
<1>6. /\ Good(bare) /\ bare.nodes \subseteq 1..f /\ d \in bare.nodes /\ bare.entry = C.entry
      /\ bare.succ[d] = {}
  <2>1. \A v : ~Leads(bare, d, v)
    BY <1>2, <1>4 DEF Bared
  <2>2. Good(bare) /\ bare.nodes \subseteq 1..f /\ d \in bare.nodes /\ bare.entry = C.entry
    BY <1>2, <1>4, <1>5 DEF Bared
  <2> QED
    BY <2>1, <2>2, Sinks
<1>7. /\ I \in Seq({I[1]}) /\ Len(I) = 1 /\ I[1] = Ins("XOR", ip) /\ Plain(I[1])
      /\ H \in Seq({H[1]}) /\ Len(H) = 1 /\ H[1] = Ins("HAVOC", 0) /\ Plain(H[1])
  BY DEF Plain, Ins, IsGuard, IsEmptyInstruction
<1> HIDE DEF I, H
<1>8. OneInserted(bare, d, I, f, x)
  BY ONLY <1>2, <1>6, <1>7, InsertOne
<1> HIDE DEF x
<1>9. /\ Good(x.comp) /\ x.comp.entry = C.entry /\ x.fresh = f + 1 /\ x.last = f + 1
      /\ x.comp.nodes = bare.nodes \cup {f + 1}
      /\ \A u, v : Leads(x.comp, u, v) <=> Leads(bare, u, v) \/ (u = d /\ v = f + 1)
      /\ \A u, v : Leads(bare, u, v) => Along(x.comp, u, v) = Along(bare, u, v)
      /\ Along(x.comp, d, f + 1) = Ins("XOR", ip)
  BY <1>6, <1>7, <1>8 DEF OneInserted, Gains, Keeps, Leads, Along
<1>10. \A u, v : Leads(bare, u, v) => /\ u \in Nat /\ u <= f /\ v \in Nat /\ v <= f
                                      /\ u # d
  BY <1>2, <1>4, <1>6 DEF Bared, Good, IsDigraph, Leads
<1>11. GuardsInserted(x.comp, "EQ", "tmp", f + 1, f + 1, b)
  <2>1. f + 1 \in x.comp.nodes /\ x.comp.nodes \subseteq 1..(f + 1) /\ f + 1 \in Nat
    BY <1>2, <1>6, <1>9
  <2>2. x.comp.succ[f + 1] = {}
    <3>1. \A v : ~Leads(x.comp, f + 1, v)
      BY <1>2, <1>9, <1>10
    <3> QED
      BY <1>9, <2>1, <3>1, Sinks
  <2>3. /\ Good(x.comp) /\ x.last = f + 1 /\ x.fresh = f + 1
    BY <1>9
  <2> QED
    BY ONLY <2>1, <2>2, <2>3, InsertGuards
<1> HIDE DEF b
<1>12. (f + 1) + 1 = f + 2 /\ (f + 1) + 2 = f + 3
  BY <1>2
<1>13. /\ Good(b.comp) /\ b.comp.entry = C.entry
       /\ b.fresh = f + 3 /\ b.fst = f + 2 /\ b.snd = f + 3
       /\ b.comp.nodes = bare.nodes \cup {f + 1, f + 2, f + 3}
       /\ \A u, v : Leads(b.comp, u, v) <=> \/ Leads(bare, u, v)
                                            \/ u = d /\ v = f + 1
                                            \/ u = f + 1 /\ v = f + 2
                                            \/ u = f + 1 /\ v = f + 3
       /\ \A u, v : Leads(bare, u, v) => Along(b.comp, u, v) = Along(bare, u, v)
       /\ Along(b.comp, d, f + 1) = Ins("XOR", ip)
       /\ Along(b.comp, f + 1, f + 2) = Ins("EQ", "tmp")
       /\ Along(b.comp, f + 1, f + 3) = Ins("NE", "tmp")
  <2>1. /\ Good(b.comp) /\ b.comp.entry = x.comp.entry
        /\ b.fresh = f + 3 /\ b.fst = f + 2 /\ b.snd = f + 3
        /\ b.comp.nodes = x.comp.nodes \cup {f + 2, f + 3}
        /\ DOMAIN b.comp.edges = DOMAIN x.comp.edges \cup {<<f + 1, f + 2>>, <<f + 1, f + 3>>}
        /\ Keeps(x.comp, b.comp)
        /\ b.comp.edges[<<f + 1, f + 2>>] = Ins("EQ", "tmp")
        /\ b.comp.edges[<<f + 1, f + 3>>] = Ins("NE", "tmp")
    BY <1>11, <1>12 DEF GuardsInserted, Gains, Negated
  <2>2. \A u, v : Leads(b.comp, u, v) <=> \/ Leads(x.comp, u, v)
                                          \/ u = f + 1 /\ v = f + 2
                                          \/ u = f + 1 /\ v = f + 3
    BY <2>1 DEF Leads
  <2>3. \A u, v : Leads(x.comp, u, v) => Along(b.comp, u, v) = Along(x.comp, u, v)
    BY <2>1 DEF Leads, Along, Keeps
  <2> QED
    BY <1>9, <2>1, <2>2, <2>3 DEF Along
<1>14. OneInserted(b.comp, f + 2, H, f + 3, h)
  <2>1. f + 2 \in b.comp.nodes /\ b.comp.nodes \subseteq 1..(f + 3) /\ f + 3 \in Nat
    BY <1>2, <1>6, <1>13
  <2>2. b.comp.succ[f + 2] = {}
    <3>1. \A v : ~Leads(b.comp, f + 2, v)
      BY <1>2, <1>10, <1>13
    <3> QED
      BY <1>13, <2>1, <3>1, Sinks
  <2>3. /\ Good(b.comp) /\ b.fst = f + 2 /\ b.fresh = f + 3
    BY <1>13
  <2> QED
    BY ONLY <1>7, <2>1, <2>2, <2>3, InsertOne
<1>15. r.comp = h.comp /\ r.fresh = h.fresh /\ r.begin = h.last /\ r.default = b.snd /\ r.erased = tail
  OBVIOUS
<1> HIDE DEF h, r
<1>16. /\ Good(r.comp) /\ r.comp.entry = C.entry
       /\ r.fresh = f + 4 /\ r.begin = f + 4 /\ r.default = f + 3
       /\ r.comp.nodes = bare.nodes \cup {f + 1, f + 2, f + 3, f + 4}
       /\ \A u, v : Leads(r.comp, u, v) <=> \/ Leads(bare, u, v)
                                            \/ u = d /\ v = f + 1
                                            \/ u = f + 1 /\ v = f + 2
                                            \/ u = f + 1 /\ v = f + 3
                                            \/ u = f + 2 /\ v = f + 4
       /\ \A u, v : Leads(bare, u, v) => Along(r.comp, u, v) = Along(bare, u, v)
       /\ Along(r.comp, d, f + 1) = Ins("XOR", ip)
       /\ Along(r.comp, f + 1, f + 2) = Ins("EQ", "tmp")
       /\ Along(r.comp, f + 1, f + 3) = Ins("NE", "tmp")
       /\ Along(r.comp, f + 2, f + 4) = Ins("HAVOC", 0)
  <2>0. (f + 3) + 1 = f + 4
    BY <1>2
  <2>1. /\ Good(h.comp) /\ h.comp.entry = b.comp.entry
        /\ h.fresh = f + 4 /\ h.last = f + 4
        /\ h.comp.nodes = b.comp.nodes \cup {f + 4}
        /\ DOMAIN h.comp.edges = DOMAIN b.comp.edges \cup {<<f + 2, f + 4>>}
        /\ Keeps(b.comp, h.comp)
        /\ h.comp.edges[<<f + 2, f + 4>>] = Ins("HAVOC", 0)
    BY <1>7, <1>14, <2>0 DEF OneInserted, Gains
  <2>2. \A u, v : Leads(h.comp, u, v) <=> \/ Leads(b.comp, u, v)
                                          \/ u = f + 2 /\ v = f + 4
    BY <2>1 DEF Leads
  <2>3. \A u, v : Leads(b.comp, u, v) => Along(h.comp, u, v) = Along(b.comp, u, v)
    BY <2>1 DEF Leads, Along, Keeps
  <2> QED
    BY <1>13, <1>15, <2>1, <2>2, <2>3 DEF Along
<1>17. Grafted(C, r.comp, d, f, f + 4, T)
  <2>1. /\ \A t \in T : t \in C.nodes /\ t # C.entry /\ \A v : ~Leads(C, t, v)
        /\ \A v : Leads(C, d, v) => v \in T
    BY <1>2, <1>3
  <2>2. \A n : n \in r.comp.nodes <=> \/ n \in C.nodes /\ n \notin T
                                      \/ n \in {f + 1, f + 2, f + 3, f + 4}
    BY <1>4, <1>16 DEF Bared
  <2>3. \A n \in r.comp.nodes : (n \in C.nodes /\ n \notin T) \/ (n \in Nat /\ n > f /\ n <= f + 4)
    BY <1>2, <2>2
  <2>4. \A n \in C.nodes : n \notin T => n \in r.comp.nodes
    BY <2>2
  <2>5. \A u, v : Leads(C, u, v) /\ v \notin T
                 => Leads(r.comp, u, v) /\ Along(r.comp, u, v) = Along(C, u, v)
    BY <1>4, <1>16 DEF Bared
  <2>6. \A u, v : Leads(r.comp, u, v) =>
       \/ Leads(C, u, v) /\ v \notin T /\ u # d
       \/ (u = d \/ u > f) /\ v > f
    BY <1>2, <1>4, <1>10, <1>16 DEF Bared
  <2>7. \E v : Leads(r.comp, d, v)
    BY <1>16
  <2> QED
    BY <1>2, <1>5, <1>16, <2>1, <2>3, <2>4, <2>5, <2>6, <2>7 DEF Grafted
<1>18. \A u, v : v > f => (Leads(r.comp, u, v) <=>
       \/ u = d /\ v = f + 1
       \/ u = f + 1 /\ v = f + 2
       \/ u = f + 1 /\ v = f + 3
       \/ u = f + 2 /\ v = f + 4)
  <2>1. \A u, v : v > f => ~Leads(bare, u, v)
    BY <1>2, <1>10
  <2> QED
    BY <1>16, <2>1
<1>19. AddedCase(C, d, ip, f, r)
  BY <1>3, <1>15, <1>16, <1>17, <1>18 DEF AddedCase, T
<1> QED
  BY <1>1, <1>19 DEF d

-----------------------------------------------------------------------------
(***************************************************************************)
(* Why cases can always be added: the shape of a switch in the recovered   *)
(* component, and that neither code merged behind the thread nor a case of *)
(* any switch spoils it.  Everything here is about one component, one      *)
(* record of a switch and one position of the thread; the specification's  *)
(* steps are in RecoveryProofs.                                            *)
(***************************************************************************)
\* The component with nodes up to f: nothing leads to its entry, of two edges out
\* of a node both are guards, and what is added to IP is a number.
GraphOK(C, f) ==
  /\ Good(C) /\ f \in Nat /\ C.nodes \subseteq 1..f /\ C.entry = 1
  /\ \A u : ~Leads(C, u, 1)
  /\ \A u, v, w : Leads(C, u, v) /\ Leads(C, u, w) /\ v # w => IsGuard(Along(C, u, v))
  /\ \A u, v : Leads(C, u, v) /\ Along(C, u, v).gik = "IPADD" => Along(C, u, v).arg \in Int

\* N are the nodes some execution visited, S the switches: an indirect jump leads
\* to its head alone, and until it is a switch the code behind it is untouched.
JumpsOK(C, S, N) ==
  \A u, w : Jumps(C, u, w) =>
    /\ \A v : /\ Leads(C, u, v) => v = w
              /\ Leads(C, v, w) => v = u
    /\ w \notin DOMAIN S => /\ StandsAlone(C, u, w)
                            /\ w \notin N
                            /\ \A t : Leads(C, w, t) => t \notin N

(***************************************************************************)
(* A switch with the head h: its points, where a comparison hangs, are the *)
(* head and the node before each case on the branch where the comparison   *)
(* fails; its chain are the nodes of the comparisons.  A case begins at g, *)
(* its comparison leads to g - 3, the guards to g - 2 and g - 1.           *)
(***************************************************************************)
IsPoint(h, info, p) == p = h \/ \E a \in DOMAIN info.cases : p = info.cases[a] - 1

InChain(h, info, n) ==
  \/ n = h
  \/ \E a \in DOMAIN info.cases :
       n = info.cases[a] - 3 \/ n = info.cases[a] - 2 \/ n = info.cases[a] - 1

CaseOK(C, h, info, g) ==
  /\ g \in Nat /\ g >= h + 4
  /\ g \in C.nodes
  /\ Leads(C, g - 3, g - 2) /\ Along(C, g - 3, g - 2) = Ins("EQ", "tmp")
  /\ Leads(C, g - 3, g - 1) /\ Along(C, g - 3, g - 1) = Ins("NE", "tmp")
  /\ Leads(C, g - 2, g) /\ Along(C, g - 2, g) = Ins("HAVOC", 0)
  /\ \A v : /\ Leads(C, g - 3, v) => v = g - 2 \/ v = g - 1
            /\ Leads(C, g - 2, v) => v = g
            /\ Leads(C, v, g - 3) => IsPoint(h, info, v)
            /\ Leads(C, v, g - 2) => v = g - 3
            /\ Leads(C, v, g - 1) => v = g - 3
            /\ Leads(C, v, g) => v = g - 2

\* The case a is the one compared with at the point p, and the first behind it.
ComparedAt(C, info, p, a) ==
  /\ p < info.cases[a] - 3
  /\ Leads(C, p, info.cases[a] - 3)
  /\ Along(C, p, info.cases[a] - 3) = Ins("XOR", a)
  /\ \A v : Leads(C, p, v) => v = info.cases[a] - 3
  /\ \A b \in DOMAIN info.cases : info.cases[b] > p + 1 => info.cases[b] >= info.cases[a]

SwitchShape(C, h, info) ==
  /\ h \in C.nodes
  /\ \A a, b \in DOMAIN info.cases :
       a = b \/ info.cases[a] + 4 <= info.cases[b] \/ info.cases[b] + 4 <= info.cases[a]
  /\ \A a \in DOMAIN info.cases : /\ CaseOK(C, h, info, info.cases[a])
                                  /\ info.cases[a] <= info.default + 1
  /\ IsPoint(h, info, info.default)
  /\ \A p : IsPoint(h, info, p) /\ p # info.default
              => \E a \in DOMAIN info.cases : ComparedAt(C, info, p, a)

SwitchOK(C, h, info) ==
  /\ SwitchShape(C, h, info)
  /\ info.havoc
  /\ \E u : Jumps(C, u, h)
  /\ \A v : ~Leads(C, info.default, v)

SwitchesOK(C, S) ==
  /\ \A h \in DOMAIN S : SwitchOK(C, h, S[h])
  /\ \A h, k \in DOMAIN S : S[h].default = S[k].default => h = k

\* The thread in the chain of a switch is before the case of its IP.
ThreadIn(h, info, n, ip, tmp) ==
  InChain(h, info, n) =>
    /\ ip \in DOMAIN info.cases
    /\ info.cases[ip] > n + 1
    /\ \A a \in DOMAIN info.cases :
         /\ n = info.cases[a] - 3 => (tmp = 0 <=> ip = a)
         /\ n = info.cases[a] - 2 => ip = a

-----------------------------------------------------------------------------
\* Both the code behind x and the code there was are well-formed.
LEMMA GraftGraph ==
  ASSUME NEW C, NEW f, GraphOK(C, f),
         NEW D, NEW x, NEW l, NEW T, Grafted(C, D, x, f, l, T), WellFormed(D, f)
  PROVE  GraphOK(D, l)
<1>1. /\ f \in Nat /\ l \in Nat /\ l > f /\ Good(D) /\ D.entry = 1 /\ f >= 1
      /\ \A n \in C.nodes : n \in Nat /\ n >= 1 /\ n <= f
      /\ \A u, v : Leads(C, u, v) => u \in C.nodes /\ v \in C.nodes
  BY DEF GraphOK, Grafted, Good, IsDigraph, Leads
<1>2. \A u, v : Leads(D, u, v) =>
        \/ Leads(C, u, v) /\ v \notin T /\ u # x
        \/ (u = x \/ u > f) /\ v > f
  BY DEF Grafted
<1>3. \A u, v : Leads(C, u, v) /\ v \notin T
                 => Leads(D, u, v) /\ Along(D, u, v) = Along(C, u, v)
  BY DEF Grafted
<1>4. D.nodes \subseteq 1..l
  <2>1. \A n \in D.nodes : n \in C.nodes \/ (n \in Nat /\ n > f /\ n <= l)
    BY DEF Grafted
  <2> QED
    BY <1>1, <2>1
<1>5. \A u : ~Leads(D, u, 1)
  BY <1>1, <1>2 DEF GraphOK
<1>6. ASSUME NEW u, NEW v, NEW w, Leads(D, u, v), Leads(D, u, w), v # w
      PROVE  IsGuard(Along(D, u, v))
  <2>1. CASE Leads(C, u, v) /\ v \notin T /\ u # x
    <3>1. ~(u > f)
      BY <1>1, <2>1
    <3>2. Leads(C, u, w)
      BY <1>2, <1>6, <2>1, <3>1
    <3> QED
      BY <1>3, <1>6, <2>1, <3>2 DEF GraphOK
  <2>2. CASE (u = x \/ u > f) /\ v > f
    <3>1. ~(Leads(C, u, w) /\ u # x)
      BY <1>1, <2>2
    <3>2. w > f
      BY <1>2, <1>6, <3>1
    <3> QED
      BY <1>6, <2>2, <3>2 DEF WellFormed
  <2> QED
    BY <1>2, <1>6, <2>1, <2>2
<1>7. ASSUME NEW u, NEW v, Leads(D, u, v), Along(D, u, v).gik = "IPADD"
      PROVE  Along(D, u, v).arg \in Int
  BY <1>2, <1>3, <1>7 DEF GraphOK, WellFormed
<1> QED
  BY <1>1, <1>4, <1>5, <1>6, <1>7 DEF GraphOK

\* The case that is added is well-formed.
LEMMA CaseWellFormed ==
  ASSUME NEW C, NEW f \in Nat, NEW d, NEW ip, NEW r, AddedCase(C, d, ip, f, r)
  PROVE  WellFormed(r.comp, f)
<1> DEFINE D == r.comp
<1>1. /\ \A n \in D.nodes : n \in C.nodes \/ (n \in Nat /\ n > f /\ n <= f + 4)
      /\ \A n \in C.nodes : n \in Nat /\ n <= f
  BY DEF AddedCase, Grafted
<1>2. \A u, v : v > f => (Leads(D, u, v) <=>
       \/ u = d /\ v = f + 1
       \/ u = f + 1 /\ v = f + 2
       \/ u = f + 1 /\ v = f + 3
       \/ u = f + 2 /\ v = f + 4)
  BY DEF AddedCase
<1>3. /\ Along(D, d, f + 1).gik = "XOR"
      /\ Along(D, f + 1, f + 2).gik = "EQ"
      /\ Along(D, f + 1, f + 3).gik = "NE"
      /\ Along(D, f + 2, f + 4).gik = "HAVOC"
  BY DEF AddedCase, Ins
<1>4. d \in Nat /\ d <= f
  BY DEF AddedCase, Grafted
<1> HIDE DEF D
<1>5. \A n \in D.nodes : n > f => \E u : Leads(D, u, n)
  <2>1. \A n \in D.nodes : n > f => n = f + 1 \/ n = f + 2 \/ n = f + 3 \/ n = f + 4
    BY <1>1
  <2>2. Leads(D, d, f + 1) /\ Leads(D, f + 1, f + 2) /\ Leads(D, f + 1, f + 3) /\ Leads(D, f + 2, f + 4)
    BY <1>2
  <2> QED
    BY ONLY <2>1, <2>2
<1>6. \A u, v, w : Leads(D, u, v) /\ Leads(D, u, w) /\ v > f /\ w > f /\ v # w
                    => IsGuard(Along(D, u, v))
  BY <1>2, <1>3, <1>4 DEF IsGuard
<1>7. \A u, w : w > f => ~Jumps(D, u, w)
  BY <1>2, <1>3 DEF Jumps, IsSwitchInstruction
<1>8. \A u, v : Leads(D, u, v) /\ v > f => Along(D, u, v).gik # "IPADD"
  BY <1>2, <1>3
<1> QED
  BY <1>5, <1>6, <1>7, <1>8 DEF WellFormed, D

\* So is the case that is added.
LEMMA CaseStands ==
  ASSUME NEW C, NEW f \in Nat, NEW d, NEW ip, NEW r, AddedCase(C, d, ip, f, r)
  PROVE  StandsBehind(r.comp, f)
<1> DEFINE D == r.comp
<1>1. /\ \A n \in D.nodes : n \in C.nodes \/ (n \in Nat /\ n > f /\ n <= f + 4)
      /\ \A n \in C.nodes : n \in Nat /\ n <= f
      /\ d \in Nat /\ d <= f
  BY DEF AddedCase, Grafted
<1>2. \A u, v : v > f => (Leads(D, u, v) <=>
       \/ u = d /\ v = f + 1
       \/ u = f + 1 /\ v = f + 2
       \/ u = f + 1 /\ v = f + 3
       \/ u = f + 2 /\ v = f + 4)
  BY DEF AddedCase
<1>3. /\ Along(D, d, f + 1).gik = "XOR"
      /\ Along(D, f + 1, f + 2).gik = "EQ"
      /\ Along(D, f + 1, f + 3).gik = "NE"
      /\ Along(D, f + 2, f + 4).gik = "HAVOC"
  BY DEF AddedCase, Ins
<1> HIDE DEF D
<1>4. ASSUME NEW n \in D.nodes, n > f
      PROVE  \E u : Leads(D, u, n) /\ u < n
  <2>1. n = f + 1 \/ n = f + 2 \/ n = f + 3 \/ n = f + 4
    BY <1>1, <1>4
  <2>2. Leads(D, d, f + 1) /\ Leads(D, f + 1, f + 2) /\ Leads(D, f + 1, f + 3) /\ Leads(D, f + 2, f + 4)
    BY <1>2
  <2>3. d < f + 1 /\ f + 1 < f + 2 /\ f + 1 < f + 3 /\ f + 2 < f + 4
    BY <1>1
  <2> QED
    BY ONLY <2>1, <2>2, <2>3
<1>5. \A u, v : Leads(D, u, v) /\ v > f => Along(D, u, v).gik # "STOP"
  BY <1>2, <1>3
<1> QED
  BY <1>4, <1>5 DEF StandsBehind, D

-----------------------------------------------------------------------------
\* What is erased is the havoc behind the head x of a switch.
ErasedOK(C, x, T) ==
  \A t \in T : /\ \A u : Leads(C, u, t) => u = x /\ Along(C, u, t).gik = "HAVOC"
               /\ \E u : Jumps(C, u, x)

\* An edge between nodes there were before is kept, and none is added.
LEMMA OldEdges ==
  ASSUME NEW C, NEW f, GraphOK(C, f),
         NEW D, NEW x, NEW l, NEW T, Grafted(C, D, x, f, l, T),
         NEW u, NEW v
  PROVE  /\ Leads(C, u, v) /\ v \notin T => Leads(D, u, v) /\ Along(D, u, v) = Along(C, u, v)
         /\ Leads(D, u, v) /\ v \in C.nodes => Leads(C, u, v) /\ v \notin T
         /\ Leads(D, u, v) /\ u \in C.nodes /\ u # x => Leads(C, u, v) /\ v \notin T
         /\ Leads(C, u, v) /\ v \notin T => u # x
<1>1. /\ \A n \in C.nodes : n \in Nat /\ n <= f
      /\ f \in Nat
      /\ Leads(C, u, v) => u \in C.nodes /\ v \in C.nodes
  BY DEF GraphOK, Grafted, Good, IsDigraph, Leads
<1>2. Leads(D, u, v) => \/ Leads(C, u, v) /\ v \notin T /\ u # x
                        \/ (u = x \/ u > f) /\ v > f
  BY DEF Grafted
<1>3. /\ Leads(C, u, v) /\ v \notin T => Leads(D, u, v) /\ Along(D, u, v) = Along(C, u, v)
      /\ Leads(C, x, v) => v \in T
  BY DEF Grafted
<1> QED
  BY <1>1, <1>2, <1>3

\* Both go on to hold when code is put behind a node to which no STOP leads.
LEMMA GraftStands ==
  ASSUME NEW C, NEW f, GraphOK(C, f), Climbs(C), StopsLast(C),
         NEW D, NEW x, NEW l, NEW T, Grafted(C, D, x, f, l, T), StandsBehind(D, f),
         \A u : Leads(C, u, x) => Along(C, u, x).gik # "STOP"
  PROVE  Climbs(D) /\ StopsLast(D)
<1>1. /\ f \in Nat /\ D.entry = C.entry
      /\ \A n \in C.nodes : n \in Nat /\ n <= f
      /\ \A n \in D.nodes : (n \in C.nodes /\ n \notin T) \/ (n \in Nat /\ n > f)
      /\ \A u, v : Leads(D, u, v) => v \in D.nodes
      /\ \A u, v : Leads(C, u, v) => u \in C.nodes /\ v \in C.nodes
  BY DEF GraphOK, Grafted, Good, IsDigraph, Leads
<1>2. \A u, v : /\ Leads(C, u, v) /\ v \notin T => Leads(D, u, v) /\ Along(D, u, v) = Along(C, u, v)
                /\ Leads(D, u, v) /\ v \in C.nodes => Leads(C, u, v) /\ v \notin T
                /\ Leads(D, u, v) /\ u \in C.nodes /\ u # x => Leads(C, u, v) /\ v \notin T
  BY OldEdges
<1>3. ASSUME NEW n \in D.nodes, n # D.entry
      PROVE  \E u : Leads(D, u, n) /\ u < n
  <2>1. CASE n \in C.nodes /\ n \notin T
    <3>1. PICK u : Leads(C, u, n) /\ u < n
      BY <1>1, <1>3, <2>1 DEF Climbs
    <3> QED
      BY <1>2, <2>1, <3>1
  <2>2. CASE n \in Nat /\ n > f
    BY <2>2 DEF StandsBehind
  <2> QED
    BY <1>1, <2>1, <2>2
<1>4. ASSUME NEW u, NEW v, Leads(D, u, v), Along(D, u, v).gik = "STOP", NEW w
      PROVE  ~Leads(D, v, w) /\ (Leads(D, w, v) => w = u)
  <2>1. CASE v \in C.nodes
    <3>1. Leads(C, u, v) /\ v \notin T /\ Along(C, u, v).gik = "STOP"
      BY <1>2, <1>4, <2>1
    <3>2. v # x /\ \A z : ~Leads(C, v, z) /\ (Leads(C, z, v) => z = u)
      BY <3>1 DEF StopsLast
    <3> QED
      BY <1>2, <2>1, <3>2
  <2>2. CASE v \in Nat /\ v > f
    BY <1>4, <2>2 DEF StandsBehind
  <2> QED
    BY <1>1, <1>4, <2>1, <2>2
<1> QED
  BY <1>3, <1>4 DEF Climbs, StopsLast

\* The shape of a switch is not spoilt by what is put behind a node that leads
\* nowhere, nor by the erasure behind the head of another switch.
LEMMA ShapeIsKept ==
  ASSUME NEW C, NEW f, GraphOK(C, f), NEW h, NEW info, SwitchShape(C, h, info),
         \A u : Leads(C, u, h) => Jumps(C, u, h), \E u : Leads(C, u, h),
         NEW D, NEW x, NEW l, NEW T, Grafted(C, D, x, f, l, T), ErasedOK(C, x, T)
  PROVE  SwitchShape(D, h, info)
<1>1. \A u, v : /\ Leads(C, u, v) /\ v \notin T => Leads(D, u, v) /\ Along(D, u, v) = Along(C, u, v)
                /\ Leads(D, u, v) /\ v \in C.nodes => Leads(C, u, v) /\ v \notin T
                /\ Leads(D, u, v) /\ u \in C.nodes /\ u # x => Leads(C, u, v) /\ v \notin T
                /\ Leads(C, u, v) /\ v \notin T => u # x
  BY OldEdges
<1>2. /\ \A n \in C.nodes : n \in Nat /\ n <= f
      /\ \A n \in C.nodes : n \notin T => n \in D.nodes
      /\ \A t \in T : \A v : ~Leads(C, t, v)
      /\ \A t \in T : \A u : Leads(C, u, t) => u = x /\ Along(C, u, t).gik = "HAVOC"
      /\ \A u, v : Leads(C, u, v) => u \in C.nodes /\ v \in C.nodes
  BY DEF GraphOK, Grafted, ErasedOK, Good, IsDigraph, Leads
<1>3. h \in D.nodes
  <2>1. h \in C.nodes
    BY DEF SwitchShape
  <2>2. PICK u : Leads(C, u, h) /\ Along(C, u, h).gik = "IPREG"
    BY DEF Jumps, IsSwitchInstruction
  <2>3. h \notin T
    BY <1>2, <2>2
  <2> QED
    BY <1>2, <2>1, <2>3
<1>4. ASSUME NEW a \in DOMAIN info.cases
      PROVE  CaseOK(D, h, info, info.cases[a])
  <2> DEFINE g == info.cases[a]
  <2>1. CaseOK(C, h, info, g)
    BY DEF SwitchShape
  <2> HIDE DEF g
  <2>2. /\ g \in Nat /\ g >= h + 4 /\ g \in C.nodes
        /\ Leads(C, g - 3, g - 2) /\ Along(C, g - 3, g - 2) = Ins("EQ", "tmp")
        /\ Leads(C, g - 3, g - 1) /\ Along(C, g - 3, g - 1) = Ins("NE", "tmp")
        /\ Leads(C, g - 2, g) /\ Along(C, g - 2, g) = Ins("HAVOC", 0)
        /\ \A v : /\ Leads(C, g - 3, v) => v = g - 2 \/ v = g - 1
                  /\ Leads(C, g - 2, v) => v = g
                  /\ Leads(C, v, g - 3) => IsPoint(h, info, v)
                  /\ Leads(C, v, g - 2) => v = g - 3
                  /\ Leads(C, v, g - 1) => v = g - 3
                  /\ Leads(C, v, g) => v = g - 2
    BY <2>1 DEF CaseOK
  <2>3. /\ Ins("EQ", "tmp").gik = "EQ" /\ Ins("NE", "tmp").gik = "NE" /\ Ins("HAVOC", 0).gik = "HAVOC"
    BY DEF Ins
  <2>4. g - 3 \notin T /\ g - 2 \notin T /\ g - 1 \notin T
    BY <1>2, <2>2, <2>3
  <2>5. g \notin T
    <3> SUFFICES ASSUME g \in T PROVE FALSE
      OBVIOUS
    <3>1. g - 2 = x
      BY <1>2, <2>2
    <3>2. PICK u : Leads(C, u, x) /\ Along(C, u, x).gik = "IPREG"
      BY DEF ErasedOK, Jumps, IsSwitchInstruction
    <3>3. u = g - 3 /\ Along(C, u, x).gik = "EQ"
      BY <2>2, <2>3, <3>1, <3>2
    <3> QED
      BY <3>2, <3>3
  <2>6. g - 3 \in C.nodes /\ g - 2 \in C.nodes /\ g - 1 \in C.nodes /\ g - 3 # x /\ g - 2 # x
    BY <1>1, <1>2, <2>2, <2>4, <2>5
  <2>7. /\ Leads(D, g - 3, g - 2) /\ Along(D, g - 3, g - 2) = Ins("EQ", "tmp")
        /\ Leads(D, g - 3, g - 1) /\ Along(D, g - 3, g - 1) = Ins("NE", "tmp")
        /\ Leads(D, g - 2, g) /\ Along(D, g - 2, g) = Ins("HAVOC", 0)
    BY <1>1, <2>2, <2>4, <2>5
  <2>8. \A v : /\ Leads(D, g - 3, v) => v = g - 2 \/ v = g - 1
               /\ Leads(D, g - 2, v) => v = g
               /\ Leads(D, v, g - 3) => IsPoint(h, info, v)
               /\ Leads(D, v, g - 2) => v = g - 3
               /\ Leads(D, v, g - 1) => v = g - 3
               /\ Leads(D, v, g) => v = g - 2
    BY <1>1, <2>2, <2>6
  <2> QED
    BY <1>2, <2>2, <2>5, <2>7, <2>8 DEF CaseOK, g
<1>5. ASSUME NEW p, NEW a \in DOMAIN info.cases, ComparedAt(C, info, p, a)
      PROVE  ComparedAt(D, info, p, a)
  <2> DEFINE g == info.cases[a]
  <2>1. /\ Leads(C, p, g - 3) /\ Along(C, p, g - 3) = Ins("XOR", a)
        /\ \A v : Leads(C, p, v) => v = g - 3
    BY <1>5 DEF ComparedAt
  <2>2. Leads(C, g - 3, g - 2)
    BY DEF SwitchShape, CaseOK
  <2> HIDE DEF g
  <2>3. g - 3 \notin T
    BY <1>2, <2>2
  <2>4. p # x /\ p \in C.nodes
    BY <1>1, <1>2, <2>1, <2>3
  <2>5. /\ Leads(D, p, g - 3) /\ Along(D, p, g - 3) = Ins("XOR", a)
        /\ \A v : Leads(D, p, v) => v = g - 3
    BY <1>1, <2>1, <2>3, <2>4
  <2> QED
    BY <1>5, <2>5 DEF ComparedAt, g
<1> QED
  BY <1>3, <1>4, <1>5 DEF SwitchShape

\* The record of a switch with one more case.
HasCase(new, info, ip, r) ==
  /\ DOMAIN new.cases = DOMAIN info.cases \cup {ip}
  /\ new.cases[ip] = r.begin
  /\ \A a \in DOMAIN info.cases : a # ip => new.cases[a] = info.cases[a]
  /\ new.default = r.default
  /\ new.havoc = TRUE

\* WithCase makes that record.
LEMMA CasesWith ==
  ASSUME NEW info, NEW ip, NEW r
  PROVE  HasCase(WithCase(info, ip, r), info, ip, r)
<1> DEFINE new == WithCase(info, ip, r)
<1>1. /\ new.cases = Overlay(info.cases, [a \in {ip} |-> r.begin])
      /\ new.default = r.default
      /\ new.havoc = TRUE
  BY DEF WithCase
<1> HIDE DEF new
<1>2. HasCase(new, info, ip, r)
  BY <1>1 DEF Overlay, HasCase
<1> QED
  BY <1>2 DEF new

\* With the case added the switch has its shape again, and its new default leads
\* nowhere.
LEMMA ShapeWithCase ==
  ASSUME NEW C, NEW f, GraphOK(C, f), NEW h, NEW info, SwitchShape(C, h, info),
         \A u : Leads(C, u, h) => Jumps(C, u, h), \E u : Leads(C, u, h),
         NEW ip, ip \notin DOMAIN info.cases,
         NEW r, AddedCase(C, info.default, ip, f, r),
         ErasedOK(C, info.default, After(C, info.default))
  PROVE  /\ SwitchShape(r.comp, h, WithCase(info, ip, r))
         /\ \A v : ~Leads(r.comp, WithCase(info, ip, r).default, v)
<1> DEFINE D == r.comp
           d == info.default
           new == WithCase(info, ip, r)
<1>1. /\ DOMAIN new.cases = DOMAIN info.cases \cup {ip}
      /\ new.cases[ip] = f + 4
      /\ \A a \in DOMAIN info.cases : a # ip /\ new.cases[a] = info.cases[a]
      /\ new.default = f + 3
  <2>1. r.begin = f + 4 /\ r.default = f + 3
    BY DEF AddedCase
  <2>2. HasCase(new, info, ip, r)
    BY CasesWith
  <2> HIDE DEF new
  <2> QED
    BY <2>1, <2>2 DEF HasCase
<1>2. Grafted(C, D, d, f, f + 4, After(C, d))
  BY DEF AddedCase
<1>3. SwitchShape(D, h, info)
  BY <1>2, ShapeIsKept
<1>4. /\ f \in Nat /\ h \in Nat /\ h <= f /\ d \in Nat /\ d <= f /\ d \in C.nodes
      /\ \A n \in C.nodes : n \in Nat /\ n <= f
      /\ \A u, v : Leads(C, u, v) => u \in C.nodes /\ v \in C.nodes
      /\ \A u, v : Leads(D, u, v) => u \in D.nodes /\ v \in D.nodes
      /\ \A n \in D.nodes : n \in Nat /\ n <= f + 4
  BY <1>2 DEF SwitchShape, GraphOK, Grafted, Good, IsDigraph, Leads
<1>5. \A u, v : v > f => (Leads(D, u, v) <=>
       \/ u = d /\ v = f + 1
       \/ u = f + 1 /\ v = f + 2
       \/ u = f + 1 /\ v = f + 3
       \/ u = f + 2 /\ v = f + 4)
  BY DEF AddedCase
<1>6. \A u, v : Leads(D, u, v) =>
       \/ Leads(C, u, v) /\ u # d
       \/ (u = d \/ u > f) /\ v > f
  BY <1>2 DEF Grafted
<1>7. /\ Along(D, d, f + 1) = Ins("XOR", ip)
      /\ Along(D, f + 1, f + 2) = Ins("EQ", "tmp")
      /\ Along(D, f + 1, f + 3) = Ins("NE", "tmp")
      /\ Along(D, f + 2, f + 4) = Ins("HAVOC", 0)
  BY DEF AddedCase
<1> HIDE DEF new, D
<1>8. \A u, v : Leads(D, u, v) /\ (u > f \/ u = d) => v > f
  BY <1>4, <1>6
<1>9. \A p : IsPoint(h, info, p) => IsPoint(h, new, p)
  BY <1>1 DEF IsPoint
<1>10. IsPoint(h, info, d)
  BY DEF SwitchShape
<1>11. IsPoint(h, new, d) /\ IsPoint(h, new, f + 3)
  <2>1. f + 3 = new.cases[ip] - 1
    BY <1>1, <1>4
  <2> QED
    BY <1>1, <1>9, <1>10, <2>1 DEF IsPoint
<1>12. \A a \in DOMAIN info.cases : /\ info.cases[a] \in Nat /\ info.cases[a] <= f
                                    /\ info.cases[a] <= d + 1
  BY <1>4 DEF SwitchShape, CaseOK
<1>13. ASSUME NEW a \in DOMAIN info.cases
       PROVE  /\ CaseOK(D, h, new, new.cases[a])
              /\ new.cases[a] <= new.default + 1
  <2>1. CaseOK(D, h, info, info.cases[a])
    BY <1>3 DEF SwitchShape
  <2>2. CaseOK(D, h, new, info.cases[a])
    BY <1>9, <2>1 DEF CaseOK
  <2> QED
    BY <1>1, <1>4, <1>12, <2>2
<1>14. CaseOK(D, h, new, f + 4)
  <2>1. (f + 4) - 3 = f + 1 /\ (f + 4) - 2 = f + 2 /\ (f + 4) - 1 = f + 3 /\ f + 4 >= h + 4
    BY <1>4
  <2>2. Leads(D, f + 1, f + 2) /\ Leads(D, f + 1, f + 3) /\ Leads(D, f + 2, f + 4)
    BY <1>4, <1>5
  <2>3. f + 4 \in D.nodes
    BY <1>4, <2>2
  <2>4. \A v : /\ Leads(D, f + 1, v) => v = f + 2 \/ v = f + 3
               /\ Leads(D, f + 2, v) => v = f + 4
               /\ Leads(D, v, f + 1) => v = d
               /\ Leads(D, v, f + 2) => v = f + 1
               /\ Leads(D, v, f + 3) => v = f + 1
               /\ Leads(D, v, f + 4) => v = f + 2
    BY <1>4, <1>5, <1>8
  <2> QED
    BY <1>4, <1>7, <1>11, <2>1, <2>2, <2>3, <2>4 DEF CaseOK
<1>15. \A v : ~Leads(D, f + 3, v)
  BY <1>4, <1>5, <1>8
<1>16. ASSUME NEW p, IsPoint(h, new, p), p # new.default
       PROVE  \E a \in DOMAIN new.cases : ComparedAt(D, new, p, a)
  <2>1. IsPoint(h, info, p)
    <3>1. p # f + 3
      BY <1>1, <1>16
    <3>2. p = h \/ \E a \in DOMAIN new.cases : p = new.cases[a] - 1
      BY <1>16 DEF IsPoint
    <3>3. p # new.cases[ip] - 1
      BY <1>1, <1>4, <3>1
    <3> QED
      BY <1>1, <3>2, <3>3 DEF IsPoint
  <2>2. CASE p = d
    <3>1. ComparedAt(D, new, d, ip)
      <4>1. (f + 4) - 3 = f + 1 /\ d < f + 1
        BY <1>4
      <4>2. Leads(D, d, f + 1) /\ \A v : Leads(D, d, v) => v = f + 1
        BY <1>4, <1>5, <1>8
      <4>3. \A b \in DOMAIN new.cases : new.cases[b] > d + 1 => new.cases[b] >= new.cases[ip]
        BY <1>1, <1>4, <1>12
      <4> QED
        BY <1>1, <1>7, <4>1, <4>2, <4>3 DEF ComparedAt
    <3> QED
      BY <1>1, <2>2, <3>1
  <2>3. CASE p # d
    <3>1. PICK a \in DOMAIN info.cases : ComparedAt(D, info, p, a)
      BY <1>3, <2>1, <2>3 DEF SwitchShape
    <3>2. new.cases[a] = info.cases[a] /\ new.cases[ip] >= info.cases[a]
      BY <1>1, <1>4, <1>12
    <3>3. ComparedAt(D, new, p, a)
      BY <1>1, <3>1, <3>2 DEF ComparedAt
    <3> QED
      BY <1>1, <3>3
  <2> QED
    BY <2>2, <2>3
<1>17. h \in D.nodes
  BY <1>3 DEF SwitchShape
<1>18. ASSUME NEW a \in DOMAIN new.cases, NEW b \in DOMAIN new.cases
       PROVE  a = b \/ new.cases[a] + 4 <= new.cases[b] \/ new.cases[b] + 4 <= new.cases[a]
  <2>1. CASE a \in DOMAIN info.cases /\ b \in DOMAIN info.cases
    BY <1>1, <2>1 DEF SwitchShape
  <2>2. CASE a = ip \/ b = ip
    BY <1>1, <1>4, <1>12, <2>2
  <2> QED
    BY <1>1, <2>1, <2>2
<1>19. new.cases[ip] <= new.default + 1
  BY <1>1, <1>4
<1>20. SwitchShape(D, h, new)
  BY <1>1, <1>11, <1>13, <1>14, <1>16, <1>17, <1>18, <1>19 DEF SwitchShape
<1> QED
  BY <1>1, <1>15, <1>20 DEF D, new

-----------------------------------------------------------------------------
\* The facts of one case, with its nodes named.
LEMMA CaseNodes ==
  ASSUME NEW C, NEW h, NEW info, SwitchShape(C, h, info),
         NEW a \in DOMAIN info.cases, NEW g, g = info.cases[a]
  PROVE  /\ g \in Nat /\ g >= h + 4 /\ g \in C.nodes /\ g <= info.default + 1
         /\ Leads(C, g - 3, g - 2) /\ Along(C, g - 3, g - 2) = Ins("EQ", "tmp")
         /\ Leads(C, g - 3, g - 1) /\ Along(C, g - 3, g - 1) = Ins("NE", "tmp")
         /\ Leads(C, g - 2, g) /\ Along(C, g - 2, g) = Ins("HAVOC", 0)
         /\ \A v : /\ Leads(C, g - 3, v) => v = g - 2 \/ v = g - 1
                   /\ Leads(C, g - 2, v) => v = g
                   /\ Leads(C, v, g - 3) => IsPoint(h, info, v)
                   /\ Leads(C, v, g - 2) => v = g - 3
                   /\ Leads(C, v, g - 1) => v = g - 3
                   /\ Leads(C, v, g) => v = g - 2
BY DEF SwitchShape, CaseOK

\* What leads from a point of a switch is the comparison with a case.
LEMMA PointEdge ==
  ASSUME NEW C, NEW h, NEW info, SwitchOK(C, h, info),
         NEW p, IsPoint(h, info, p), NEW v, Leads(C, p, v)
  PROVE  \E a \in DOMAIN info.cases : /\ ComparedAt(C, info, p, a)
                                      /\ v = info.cases[a] - 3
                                      /\ Along(C, p, v) = Ins("XOR", a)
<1>1. p # info.default
  BY DEF SwitchOK
<1>2. PICK a \in DOMAIN info.cases : ComparedAt(C, info, p, a)
  BY <1>1 DEF SwitchOK, SwitchShape
<1>3. v = info.cases[a] - 3
  BY <1>2 DEF ComparedAt
<1> QED
  BY <1>2, <1>3 DEF ComparedAt

\* The chain of a switch is entered at its head only.
LEMMA ChainEdge ==
  ASSUME NEW C, NEW h, NEW info, SwitchOK(C, h, info),
         NEW v, InChain(h, info, v), v # h, NEW n, Leads(C, n, v)
  PROVE  InChain(h, info, n) /\ ~Jumps(C, n, v)
<1>1. PICK a \in DOMAIN info.cases :
        v = info.cases[a] - 3 \/ v = info.cases[a] - 2 \/ v = info.cases[a] - 1
  BY DEF InChain
<1> DEFINE g == info.cases[a]
<1>2. /\ g \in Nat
      /\ Along(C, g - 3, g - 2) = Ins("EQ", "tmp")
      /\ Along(C, g - 3, g - 1) = Ins("NE", "tmp")
      /\ Leads(C, n, g - 3) => IsPoint(h, info, n)
      /\ Leads(C, n, g - 2) => n = g - 3
      /\ Leads(C, n, g - 1) => n = g - 3
  BY CaseNodes DEF SwitchOK
<1>3. CASE v = g - 3
  <2>1. IsPoint(h, info, n)
    BY <1>2, <1>3
  <2>2. \E b : Along(C, n, v) = Ins("XOR", b)
    BY <2>1, PointEdge
  <2> QED
    BY <2>1, <2>2 DEF IsPoint, InChain, Jumps, IsSwitchInstruction, Ins
<1>4. CASE v = g - 2 \/ v = g - 1
  <2>1. n = g - 3
    BY <1>2, <1>4
  <2>2. InChain(h, info, n)
    BY <2>1 DEF InChain
  <2>3. ~Jumps(C, n, v)
    BY <1>2, <1>4, <2>1 DEF Jumps, IsSwitchInstruction, Ins
  <2> QED
    BY <2>2, <2>3
<1> QED
  BY <1>1, <1>3, <1>4

\* The head of an indirect jump is in the chain of no other switch.
LEMMA HeadsAreApart ==
  ASSUME NEW C, NEW h, NEW info, SwitchOK(C, h, info), NEW n, NEW w, Jumps(C, n, w),
         InChain(h, info, w)
  PROVE  w = h
BY ChainEdge DEF Jumps

\* Every point of a switch is in its chain.
LEMMA PointsInChain ==
  ASSUME NEW h, NEW info, NEW p, IsPoint(h, info, p)
  PROVE  InChain(h, info, p)
BY DEF IsPoint, InChain

\* At every indirect jump a case can be added.
InfoOf(S, h) == IF h \in DOMAIN S THEN S[h] ELSE NewSwitch(h)

\* Where an indirect jump leads, a case can hang on the default of its switch, or
\* on its head while it is none.
LEMMA HeadHangs ==
  ASSUME NEW C, NEW f, GraphOK(C, f), NEW S, SwitchesOK(C, S), NEW N, JumpsOK(C, S, N),
         NEW n, NEW h, Jumps(C, n, h), NEW info, info = InfoOf(S, h)
  PROVE  /\ CanHang(C, f, info)
         /\ ErasedOK(C, info.default, After(C, info.default))
         /\ SwitchShape(C, h, info)
         /\ \A u : Leads(C, u, h) => Jumps(C, u, h)
         /\ \E u : Leads(C, u, h)
<1>1. /\ \A u : Leads(C, u, h) => Jumps(C, u, h)
      /\ Leads(C, n, h)
  BY DEF JumpsOK, Jumps
<1>2. /\ Good(C) /\ f \in Nat /\ C.nodes \subseteq 1..f /\ C.entry = 1
      /\ \A u : ~Leads(C, u, 1)
      /\ \A u, v : Leads(C, u, v) => u \in C.nodes /\ v \in C.nodes
      /\ \A m \in C.nodes : m \in Nat
  BY DEF GraphOK, Good, IsDigraph, Leads
<1>3. CASE h \in DOMAIN S
  <2>1. SwitchOK(C, h, info)
    BY <1>3 DEF InfoOf, SwitchesOK
  <2>2. \A v : ~Leads(C, info.default, v)
    BY <2>1 DEF SwitchOK
  <2>3. After(C, info.default) = {}
    BY <2>2 DEF After
  <2>4. info.default \in C.nodes
    <3>1. IsPoint(h, info, info.default) /\ SwitchShape(C, h, info)
      BY <2>1 DEF SwitchOK, SwitchShape
    <3>2. CASE info.default = h
      BY <1>1, <1>2, <3>2
    <3>3. ASSUME NEW a \in DOMAIN info.cases, info.default = info.cases[a] - 1
          PROVE  info.default \in C.nodes
      <4>1. Leads(C, info.cases[a] - 3, info.cases[a] - 1)
        BY <3>1, CaseNodes
      <4> QED
        BY <1>2, <3>3, <4>1
    <3> QED
      BY <3>1, <3>2, <3>3 DEF IsPoint
  <2>5. CanHang(C, f, info)
    BY <1>2, <2>2, <2>4 DEF CanHang
  <2> QED
    BY <1>1, <2>1, <2>3, <2>5 DEF SwitchOK, ErasedOK
<1>4. CASE h \notin DOMAIN S
  <2>1. info = NewSwitch(h)
    BY <1>4 DEF InfoOf
  <2>2. info.default = h /\ ~info.havoc /\ DOMAIN info.cases = {}
    BY <2>1 DEF NewSwitch
  <2>3. StandsAlone(C, n, h)
    BY <1>4 DEF JumpsOK
  <2>4. \A t : Leads(C, h, t) => /\ t # 1
                                 /\ \A v : ~Leads(C, t, v)
                                 /\ \A v : Leads(C, h, v) => v = t
                                 /\ \A u : Leads(C, u, t) => u = h /\ Along(C, u, t).gik = "HAVOC"
    BY <1>2, <2>3 DEF StandsAlone
  <2>5. CanHang(C, f, info)
    BY <1>1, <1>2, <2>2, <2>4 DEF CanHang
  <2>6. ErasedOK(C, info.default, After(C, info.default))
    <3>1. \A t \in After(C, h) : Leads(C, h, t)
      BY DEF After
    <3> QED
      BY <2>2, <2>4, <3>1 DEF ErasedOK
  <2>7. SwitchShape(C, h, info)
    BY <1>1, <1>2, <2>2 DEF SwitchShape, IsPoint
  <2> QED
    BY <1>1, <2>5, <2>6, <2>7
<1> QED
  BY <1>3, <1>4

\* A switch whose default is not x stays one.
LEMMA SwitchIsKept ==
  ASSUME NEW C, NEW f, GraphOK(C, f), NEW S, NEW N, JumpsOK(C, S, N),
         NEW h, NEW info, SwitchOK(C, h, info),
         NEW D, NEW x, NEW l, NEW T, Grafted(C, D, x, f, l, T), ErasedOK(C, x, T),
         info.default # x
  PROVE  SwitchOK(D, h, info)
<1>1. PICK n : Jumps(C, n, h)
  BY DEF SwitchOK
<1>2. /\ Leads(C, n, h) /\ Along(C, n, h).gik = "IPREG"
      /\ \A u : Leads(C, u, h) => u = n
  BY <1>1 DEF Jumps, JumpsOK, IsSwitchInstruction
<1>3. \A u, v : /\ Leads(C, u, v) /\ v \notin T => Leads(D, u, v) /\ Along(D, u, v) = Along(C, u, v)
                /\ Leads(D, u, v) /\ u \in C.nodes /\ u # x => Leads(C, u, v) /\ v \notin T
  BY OldEdges
<1>4. SwitchShape(D, h, info)
  <2>1. SwitchShape(C, h, info)
    BY DEF SwitchOK
  <2>2. /\ \A u : Leads(C, u, h) => Jumps(C, u, h)
        /\ \E u : Leads(C, u, h)
    BY <1>1, <1>2
  <2> QED
    BY <2>1, <2>2, ShapeIsKept
<1>5. Jumps(D, n, h)
  <2>1. h \notin T
    BY <1>2 DEF ErasedOK
  <2> QED
    BY <1>2, <1>3, <2>1 DEF Jumps, IsSwitchInstruction
<1>6. \A v : ~Leads(D, info.default, v)
  <2>1. info.default \in C.nodes
    <3>1. /\ \A u, v : Leads(C, u, v) => u \in C.nodes /\ v \in C.nodes
      BY DEF GraphOK, Good, IsDigraph, Leads
    <3>2. IsPoint(h, info, info.default) /\ SwitchShape(C, h, info)
      BY DEF SwitchOK, SwitchShape
    <3>3. ASSUME NEW a \in DOMAIN info.cases, info.default = info.cases[a] - 1
          PROVE  info.default \in C.nodes
      <4>1. Leads(C, info.cases[a] - 3, info.cases[a] - 1)
        BY <3>2, CaseNodes
      <4> QED
        BY <3>1, <3>3, <4>1
    <3> QED
      BY <1>2, <3>1, <3>2, <3>3 DEF IsPoint
  <2>2. \A v : ~Leads(C, info.default, v)
    BY DEF SwitchOK
  <2> QED
    BY <1>3, <2>1, <2>2
<1> QED
  BY <1>4, <1>5, <1>6 DEF SwitchOK

\* Code merged behind a node that is no default leaves the switches as they are.
LEMMA SwitchesAreKept ==
  ASSUME NEW C, NEW f, GraphOK(C, f), NEW S, SwitchesOK(C, S), NEW N, JumpsOK(C, S, N),
         NEW D, NEW x, NEW l, Grafted(C, D, x, f, l, {}),
         \A h \in DOMAIN S : S[h].default # x
  PROVE  SwitchesOK(D, S)
<1>1. ErasedOK(C, x, {})
  BY DEF ErasedOK
<1>2. \A h \in DOMAIN S : SwitchOK(D, h, S[h])
  BY <1>1, SwitchIsKept DEF SwitchesOK
<1> QED
  BY <1>2 DEF SwitchesOK

\* A default is a node of the component.
LEMMA DefaultIsOld ==
  ASSUME NEW C, NEW f, GraphOK(C, f), NEW h, NEW info, SwitchOK(C, h, info)
  PROVE  info.default \in Nat /\ info.default <= f
<1>1. /\ \A n \in C.nodes : n \in Nat /\ n <= f
      /\ \A u, v : Leads(C, u, v) => u \in C.nodes /\ v \in C.nodes
  BY DEF GraphOK, Good, IsDigraph, Leads
<1>2. IsPoint(h, info, info.default) /\ SwitchShape(C, h, info) /\ h \in C.nodes
  BY DEF SwitchOK, SwitchShape
<1>3. ASSUME NEW a \in DOMAIN info.cases, info.default = info.cases[a] - 1
      PROVE  info.default \in C.nodes
  <2>1. Leads(C, info.cases[a] - 3, info.cases[a] - 1)
    BY <1>2, CaseNodes
  <2> QED
    BY <1>1, <1>3, <2>1
<1> QED
  BY <1>1, <1>2, <1>3 DEF IsPoint

\* Nor does a case added to one switch spoil it or another.
LEMMA SwitchesWithCase ==
  ASSUME NEW C, NEW f, GraphOK(C, f), NEW S, SwitchesOK(C, S), NEW N, JumpsOK(C, S, N),
         NEW n, NEW h, Jumps(C, n, h), NEW info, info = InfoOf(S, h),
         NEW ip, ip \notin DOMAIN info.cases,
         NEW r, AddedCase(C, info.default, ip, f, r),
         NEW U, DOMAIN U = DOMAIN S \cup {h}, U[h] = WithCase(info, ip, r),
         \A k \in DOMAIN S : k # h => U[k] = S[k]
  PROVE  SwitchesOK(r.comp, U)
<1> DEFINE D == r.comp
           new == WithCase(info, ip, r)
           T == After(C, info.default)
<1>1. /\ ErasedOK(C, info.default, T)
      /\ SwitchShape(C, h, info)
      /\ \A u : Leads(C, u, h) => Jumps(C, u, h)
      /\ \E u : Leads(C, u, h)
  BY HeadHangs
<1>2. Grafted(C, D, info.default, f, f + 4, T) /\ r.default = f + 3
  BY DEF AddedCase
<1>3. /\ SwitchShape(D, h, new)
      /\ \A v : ~Leads(D, new.default, v)
  BY <1>1, ShapeWithCase
<1>4. new.havoc = TRUE /\ new.default = f + 3
  <2>1. HasCase(new, info, ip, r)
    BY CasesWith
  <2> HIDE DEF new
  <2> QED
    BY <1>2, <2>1 DEF HasCase
<1> HIDE DEF D, new, T
<1>5. /\ DOMAIN U = DOMAIN S \cup {h}
      /\ U[h] = new
      /\ \A k \in DOMAIN S : k # h => U[k] = S[k]
  BY DEF new
<1>6. Jumps(D, n, h)
  <2>1. h \notin T
    BY <1>1 DEF ErasedOK, Jumps, IsSwitchInstruction
  <2>2. Leads(D, n, h) /\ Along(D, n, h) = Along(C, n, h)
    BY <1>2, <2>1, OldEdges DEF Jumps
  <2> QED
    BY <2>2 DEF Jumps
<1>7. SwitchOK(D, h, U[h])
  BY <1>3, <1>4, <1>5, <1>6 DEF SwitchOK
<1>8. ASSUME NEW k \in DOMAIN S, k # h
      PROVE  SwitchOK(D, k, S[k])
  <2>1. SwitchOK(C, k, S[k])
    BY DEF SwitchesOK
  <2>2. S[k].default # info.default
    <3>1. CASE h \in DOMAIN S
      BY <1>8, <3>1 DEF SwitchesOK, InfoOf
    <3>2. CASE h \notin DOMAIN S
      <4>1. info.default = h
        BY <3>2 DEF InfoOf, NewSwitch
      <4>2. InChain(k, S[k], S[k].default)
        BY <2>1, PointsInChain DEF SwitchOK, SwitchShape
      <4> QED
        BY <1>8, <2>1, <4>1, <4>2, HeadsAreApart
    <3> QED
      BY <3>1, <3>2
  <2> QED
    BY <1>1, <1>2, <2>1, <2>2, SwitchIsKept
<1>9. ASSUME NEW k \in DOMAIN S, k # h
      PROVE  S[k].default # f + 3
  <2>1. S[k].default \in Nat /\ S[k].default <= f /\ f \in Nat
    BY DefaultIsOld DEF SwitchesOK, GraphOK
  <2> QED
    BY <2>1
<1>10. \A k, m \in DOMAIN U : U[k].default = U[m].default => k = m
  BY <1>4, <1>5, <1>9 DEF SwitchesOK
<1> QED
  BY <1>5, <1>7, <1>8, <1>10 DEF SwitchesOK, D

-----------------------------------------------------------------------------
\* What is put behind x, which is not behind an indirect jump still untouched,
\* leaves the indirect jumps as they are and brings untouched ones.
LEMMA JumpsAreKept ==
  ASSUME NEW C, NEW f, GraphOK(C, f), NEW S, NEW N, JumpsOK(C, S, N), N \subseteq C.nodes,
         NEW D, NEW x, NEW l, NEW T, Grafted(C, D, x, f, l, T), WellFormed(D, f),
         NEW U, DOMAIN S \subseteq DOMAIN U,
         \A u, w : Jumps(C, u, w) /\ w \notin DOMAIN U =>
           x # w /\ \A t : Leads(C, w, t) => x # t /\ t \notin T
  PROVE  JumpsOK(D, U, N)
<1>1. \A u, v : /\ Leads(C, u, v) /\ v \notin T => Leads(D, u, v) /\ Along(D, u, v) = Along(C, u, v)
                /\ Leads(D, u, v) /\ v \in C.nodes => Leads(C, u, v) /\ v \notin T
                /\ Leads(D, u, v) /\ u \in C.nodes /\ u # x => Leads(C, u, v) /\ v \notin T
                /\ Leads(C, u, v) /\ v \notin T => u # x
  BY OldEdges
<1>2. /\ \A n \in C.nodes : n \in Nat /\ n <= f
      /\ f \in Nat
      /\ \A u, v : Leads(C, u, v) => u \in C.nodes /\ v \in C.nodes
      /\ \A u, v : Leads(D, u, v) => u \in D.nodes /\ v \in D.nodes
      /\ \A n \in D.nodes : n \in C.nodes \/ (n \in Nat /\ n > f)
      /\ x \in C.nodes
  BY DEF GraphOK, Grafted, Good, IsDigraph, Leads
<1>3. SUFFICES ASSUME NEW u, NEW w, Jumps(D, u, w)
               PROVE  /\ \A v : /\ Leads(D, u, v) => v = w
                                /\ Leads(D, v, w) => v = u
                      /\ w \notin DOMAIN U => /\ StandsAlone(D, u, w)
                                              /\ w \notin N
                                              /\ \A t : Leads(D, w, t) => t \notin N
  BY DEF JumpsOK
<1>4. CASE w \in C.nodes
  <2>1. Leads(C, u, w) /\ w \notin T /\ u # x /\ u \in C.nodes
    BY <1>1, <1>2, <1>3, <1>4 DEF Jumps
  <2>2. Jumps(C, u, w)
    BY <1>1, <1>3, <2>1 DEF Jumps
  <2>3. /\ \A v : Leads(C, u, v) => v = w
        /\ \A v : Leads(C, v, w) => v = u
        /\ w \notin DOMAIN S => /\ StandsAlone(C, u, w)
                                /\ w \notin N
                                /\ \A t : Leads(C, w, t) => t \notin N
    BY <2>2 DEF JumpsOK
  <2>4. \A v : (Leads(D, u, v) => v = w) /\ (Leads(D, v, w) => v = u)
    BY <1>1, <1>4, <2>1, <2>3
  <2>5. CASE w \notin DOMAIN U
    <3>1. x # w /\ \A t : Leads(C, w, t) => x # t /\ t \notin T
      BY <2>2, <2>5
    <3>2. \A t : Leads(D, w, t) => Leads(C, w, t)
      BY <1>1, <1>4, <3>1
    <3>3. StandsAlone(C, u, w)
      BY <2>3, <2>5
    <3>4. ASSUME NEW t, Leads(D, w, t)
          PROVE  /\ Along(D, w, t).gik = "HAVOC"
                 /\ \A v : /\ Leads(D, w, v) => v = t
                           /\ ~Leads(D, t, v)
                           /\ Leads(D, v, t) => v = w
      <4>1. Leads(C, w, t) /\ t \in C.nodes /\ x # t /\ t \notin T
        BY <1>2, <3>1, <3>2, <3>4
      <4>2. /\ Along(C, w, t).gik = "HAVOC"
            /\ \A v : /\ Leads(C, w, v) => v = t
                      /\ ~Leads(C, t, v)
                      /\ Leads(C, v, t) => v = w
        BY <3>3, <4>1 DEF StandsAlone
      <4> QED
        BY <1>1, <3>2, <4>1, <4>2
    <3>5. StandsAlone(D, u, w)
      BY <2>4, <3>4 DEF StandsAlone
    <3>6. w \notin N /\ \A t : Leads(D, w, t) => t \notin N
      BY <2>3, <2>5, <3>2
    <3> QED
      BY <2>4, <3>5, <3>6
  <2> QED
    BY <2>4, <2>5
<1>5. CASE w \notin C.nodes
  <2>1. w > f
    BY <1>2, <1>3, <1>5 DEF Jumps
  <2>2. StandsAlone(D, u, w)
    BY <1>3, <2>1 DEF WellFormed
  <2>3. \A t : Leads(D, w, t) => t \notin C.nodes
    BY <1>1, <1>2, <1>5
  <2> QED
    BY <1>5, <2>2, <2>3 DEF StandsAlone
<1> QED
  BY <1>4, <1>5

\* Code merged behind a node that was visited.
LEMMA JumpsMerged ==
  ASSUME NEW C, NEW f, GraphOK(C, f), NEW S, NEW N, JumpsOK(C, S, N), N \subseteq C.nodes,
         NEW D, NEW x, NEW l, Grafted(C, D, x, f, l, {}), WellFormed(D, f), x \in N
  PROVE  JumpsOK(D, S, N)
<1>1. \A u, w : Jumps(C, u, w) /\ w \notin DOMAIN S =>
           x # w /\ \A t : Leads(C, w, t) => x # t /\ t \notin {}
  BY DEF JumpsOK
<1> QED
  BY <1>1, JumpsAreKept

\* A case added to the switch with the head h.
LEMMA JumpsWithCase ==
  ASSUME NEW C, NEW f, GraphOK(C, f), NEW S, SwitchesOK(C, S),
         NEW N, JumpsOK(C, S, N), N \subseteq C.nodes,
         NEW n, NEW h, Jumps(C, n, h), NEW info, info = InfoOf(S, h),
         NEW ip, ip \notin DOMAIN info.cases,
         NEW r, AddedCase(C, info.default, ip, f, r),
         NEW U, DOMAIN U = DOMAIN S \cup {h}
  PROVE  JumpsOK(r.comp, U, N)
<1> DEFINE D == r.comp
           d == info.default
           T == After(C, d)
<1>1. Grafted(C, D, d, f, f + 4, T) /\ f \in Nat
  BY DEF AddedCase, GraphOK
<1>2. WellFormed(D, f)
  BY <1>1, CaseWellFormed
<1>3. ErasedOK(C, d, T) /\ SwitchShape(C, h, info)
  BY HeadHangs
<1>4. \E u : Leads(C, u, d) /\ (d # h => ~Jumps(C, u, d) /\ Along(C, u, d).gik # "HAVOC")
  <2>1. CASE d = h
    BY <2>1 DEF Jumps
  <2>2. CASE d # h
    <3>1. IsPoint(h, info, d)
      BY <1>3 DEF SwitchShape
    <3>2. PICK a \in DOMAIN info.cases : d = info.cases[a] - 1
      BY <2>2, <3>1 DEF IsPoint
    <3>3. /\ Leads(C, info.cases[a] - 3, info.cases[a] - 1)
          /\ Along(C, info.cases[a] - 3, info.cases[a] - 1) = Ins("NE", "tmp")
      BY <1>3, CaseNodes
    <3> QED
      BY <3>2, <3>3 DEF Jumps, IsSwitchInstruction, Ins
  <2> QED
    BY <2>1, <2>2
<1> HIDE DEF D, d, T
<1>5. ASSUME NEW u, NEW w, Jumps(C, u, w), w \notin DOMAIN U
      PROVE  d # w /\ \A t : Leads(C, w, t) => d # t /\ t \notin T
  <2>1. w # h /\ w \notin DOMAIN S
    BY <1>5
  <2>2. StandsAlone(C, u, w) /\ \A v : Leads(C, v, w) => v = u
    BY <1>5, <2>1 DEF JumpsOK
  <2>3. PICK m : Leads(C, m, d) /\ (d # h => ~Jumps(C, m, d) /\ Along(C, m, d).gik # "HAVOC")
    BY <1>4
  <2>4. d # w
    BY <1>5, <2>1, <2>2, <2>3
  <2>5. ASSUME NEW t, Leads(C, w, t) PROVE d # t /\ t \notin T
    <3>1. Along(C, w, t).gik = "HAVOC" /\ \A v : Leads(C, v, t) => v = w
      BY <2>2, <2>5 DEF StandsAlone
    <3>2. d # t
      <4>1. CASE d = h
        <5>1. Leads(C, n, h) /\ Along(C, n, h).gik = "IPREG"
          BY DEF Jumps, IsSwitchInstruction
        <5> QED
          BY <3>1, <4>1, <5>1
      <4>2. CASE d # h
        BY <2>3, <3>1, <4>2
      <4> QED
        BY <4>1, <4>2
    <3>3. t \notin T
      BY <1>3, <2>4, <2>5 DEF ErasedOK
    <3> QED
      BY <3>2, <3>3
  <2> QED
    BY <2>4, <2>5
<1> QED
  BY <1>1, <1>2, <1>5, JumpsAreKept DEF D

\* Both, for the case r of ip that goes into the switch with the head h.
CaseGoesIn(C, f, S, N, n, h, ip, r, U) ==
  /\ GraphOK(C, f) /\ SwitchesOK(C, S) /\ JumpsOK(C, S, N) /\ N \subseteq C.nodes
  /\ Jumps(C, n, h)
  /\ ip \notin DOMAIN InfoOf(S, h).cases
  /\ AddedCase(C, InfoOf(S, h).default, ip, f, r)
  /\ DOMAIN U = DOMAIN S \cup {h}
  /\ U[h] = WithCase(InfoOf(S, h), ip, r)
  /\ \A k \in DOMAIN S : k # h => U[k] = S[k]

\* Every switch and every indirect jump is as it should be afterwards.
LEMMA CaseIsIn ==
  ASSUME NEW C, NEW f, NEW S, NEW N, NEW n, NEW h, NEW ip, NEW r, NEW U,
         CaseGoesIn(C, f, S, N, n, h, ip, r, U)
  PROVE  SwitchesOK(r.comp, U) /\ JumpsOK(r.comp, U, N)
<1>1. PICK info : info = InfoOf(S, h)
  OBVIOUS
<1>2. /\ GraphOK(C, f) /\ SwitchesOK(C, S) /\ JumpsOK(C, S, N) /\ N \subseteq C.nodes
      /\ Jumps(C, n, h)
      /\ ip \notin DOMAIN info.cases
      /\ AddedCase(C, info.default, ip, f, r)
      /\ DOMAIN U = DOMAIN S \cup {h}
      /\ U[h] = WithCase(info, ip, r)
      /\ \A k \in DOMAIN S : k # h => U[k] = S[k]
  BY <1>1 DEF CaseGoesIn
<1>3. SwitchesOK(r.comp, U)
  BY ONLY <1>1, <1>2, SwitchesWithCase
<1>4. JumpsOK(r.comp, U, N)
  BY ONLY <1>1, <1>2, JumpsWithCase
<1> QED
  BY <1>3, <1>4

\* The thread moves from n to v, and v counts as visited: of the code behind an
\* indirect jump only a head with a switch is ever entered.
LEMMA JumpsVisited ==
  ASSUME NEW C, NEW S, NEW N, JumpsOK(C, S, N), NEW n \in N, NEW v, Leads(C, n, v),
         Jumps(C, n, v) => v \in DOMAIN S,
         NEW M, \A m \in M : m \in N \/ m = v
  PROVE  JumpsOK(C, S, M)
<1>1. ASSUME NEW u, NEW w, Jumps(C, u, w), w \notin DOMAIN S
      PROVE  v # w /\ \A t : Leads(C, w, t) => v # t
  <2>1. StandsAlone(C, u, w) /\ w \notin N
    BY <1>1 DEF JumpsOK
  <2>2. v # w
    BY <1>1, <2>1 DEF StandsAlone
  <2>3. ASSUME NEW t, Leads(C, w, t) PROVE v # t
    BY <2>1, <2>3 DEF StandsAlone
  <2> QED
    BY <2>2, <2>3
<1> QED
  BY <1>1 DEF JumpsOK

-----------------------------------------------------------------------------
\* The four kinds of edges in the chain of a switch.
ComparesWith(C, h, info, n, v, a) ==
  /\ IsPoint(h, info, n) /\ ComparedAt(C, info, n, a)
  /\ v = info.cases[a] - 3 /\ Along(C, n, v) = Ins("XOR", a)
Agrees(C, info, n, v, a) ==
  n = info.cases[a] - 3 /\ v = info.cases[a] - 2 /\ Along(C, n, v) = Ins("EQ", "tmp")
Differs(C, info, n, v, a) ==
  n = info.cases[a] - 3 /\ v = info.cases[a] - 1 /\ Along(C, n, v) = Ins("NE", "tmp")
EntersCase(C, info, n, v, a) ==
  n = info.cases[a] - 2 /\ v = info.cases[a] /\ Along(C, n, v) = Ins("HAVOC", 0)

\* Each edge out of a node of the chain but the default is of one of these kinds.
LEMMA ChainSteps ==
  ASSUME NEW C, NEW h, NEW info, SwitchOK(C, h, info),
         NEW n, InChain(h, info, n), NEW v, Leads(C, n, v)
  PROVE  \E a \in DOMAIN info.cases :
           \/ ComparesWith(C, h, info, n, v, a)
           \/ Agrees(C, info, n, v, a)
           \/ Differs(C, info, n, v, a)
           \/ EntersCase(C, info, n, v, a)
<1>1. CASE IsPoint(h, info, n)
  BY <1>1, PointEdge DEF ComparesWith
<1>2. CASE ~IsPoint(h, info, n)
  <2>1. PICK a \in DOMAIN info.cases : n = info.cases[a] - 3 \/ n = info.cases[a] - 2
    BY <1>2 DEF InChain, IsPoint
  <2> DEFINE g == info.cases[a]
  <2>0. SwitchShape(C, h, info)
    BY DEF SwitchOK
  <2>2. /\ g \in Nat
        /\ Along(C, g - 3, g - 2) = Ins("EQ", "tmp")
        /\ Along(C, g - 3, g - 1) = Ins("NE", "tmp")
        /\ Along(C, g - 2, g) = Ins("HAVOC", 0)
        /\ \A w : /\ Leads(C, g - 3, w) => w = g - 2 \/ w = g - 1
                  /\ Leads(C, g - 2, w) => w = g
    <3>1. CaseOK(C, h, info, g)
      BY <2>0 DEF SwitchShape
    <3> HIDE DEF g
    <3> QED
      BY <3>1 DEF CaseOK
  <2>3. CASE n = g - 3
    <3>1. v = g - 2 \/ v = g - 1
      BY <2>2, <2>3
    <3>2. Agrees(C, info, n, v, a) \/ Differs(C, info, n, v, a)
      BY <2>2, <2>3, <3>1 DEF Agrees, Differs
    <3> QED
      BY <3>2
  <2>4. CASE n = g - 2
    <3>1. v = g
      BY <2>2, <2>4
    <3>2. EntersCase(C, info, n, v, a)
      BY <2>2, <2>4, <3>1 DEF EntersCase
    <3> QED
      BY <3>2
  <2> QED
    BY <2>1, <2>3, <2>4
<1> QED
  BY <1>1, <1>2

\* The thread executes the instruction I, with these values of IP and of the
\* temporary before and after.
Executes(I, ip, tmp, ip2, tmp2) ==
  /\ ~IsSwitchInstruction(I)
  /\ ip2 = ip + Adds(I)
  /\ tmp2 = IF I.gik = "XOR" THEN (IF ip = I.arg THEN 0 ELSE 1) ELSE tmp
  /\ IsGuard(I) /\ I.arg = "tmp" => (tmp = 0 <=> I.gik = "EQ")

\* The spacing of the cases of one switch.
LEMMA CasesApart ==
  ASSUME NEW C, NEW h, NEW info, SwitchShape(C, h, info),
         NEW a \in DOMAIN info.cases, NEW b \in DOMAIN info.cases
  PROVE  /\ info.cases[a] \in Nat /\ info.cases[b] \in Nat
         /\ h \in Int => info.cases[a] >= h + 4 /\ info.cases[b] >= h + 4
         /\ a = b \/ info.cases[a] + 4 <= info.cases[b] \/ info.cases[b] + 4 <= info.cases[a]
BY DEF SwitchShape, CaseOK

\* The thread in the chain stays before the case of its IP, until it enters it.
LEMMA ThreadMoves ==
  ASSUME NEW C, NEW h \in Nat, NEW info, SwitchOK(C, h, info),
         NEW n, NEW v, Leads(C, n, v), v # h,
         NEW ip \in Int, NEW tmp, NEW ip2, NEW tmp2, ThreadIn(h, info, n, ip, tmp),
         Executes(Along(C, n, v), ip, tmp, ip2, tmp2)
  PROVE  /\ ThreadIn(h, info, v, ip2, tmp2)
         /\ InChain(h, info, n) => ip2 = ip
         /\ InChain(h, info, n) /\ ~InChain(h, info, v)
              => \E a \in DOMAIN info.cases : v = info.cases[a] /\ ip = a
<1>1. CASE ~InChain(h, info, n)
  <2>1. ~InChain(h, info, v)
    BY <1>1, ChainEdge
  <2> QED
    BY <1>1, <2>1 DEF ThreadIn
<1>2. CASE InChain(h, info, n)
  <2>1. /\ ip \in DOMAIN info.cases
        /\ info.cases[ip] > n + 1
        /\ \A a \in DOMAIN info.cases :
             /\ n = info.cases[a] - 3 => (tmp = 0 <=> ip = a)
             /\ n = info.cases[a] - 2 => ip = a
    BY <1>2 DEF ThreadIn
  <2>2. PICK a \in DOMAIN info.cases :
           \/ ComparesWith(C, h, info, n, v, a)
           \/ Agrees(C, info, n, v, a)
           \/ Differs(C, info, n, v, a)
           \/ EntersCase(C, info, n, v, a)
    BY <1>2, ChainSteps
  <2>3. \A b, c \in DOMAIN info.cases :
          /\ info.cases[b] \in Nat /\ info.cases[b] >= h + 4
          /\ b = c \/ info.cases[b] + 4 <= info.cases[c] \/ info.cases[c] + 4 <= info.cases[b]
    BY CasesApart DEF SwitchOK
  <2>4. /\ Ins("XOR", a).gik = "XOR" /\ Ins("XOR", a).arg = a
        /\ Ins("EQ", "tmp").gik = "EQ" /\ Ins("EQ", "tmp").arg = "tmp"
        /\ Ins("NE", "tmp").gik = "NE" /\ Ins("NE", "tmp").arg = "tmp"
        /\ Ins("HAVOC", 0).gik = "HAVOC"
    BY DEF Ins
  <2>5. ip2 = ip
    BY <2>2, <2>4 DEF Executes, Adds, ComparesWith, Agrees, Differs, EntersCase
  <2>6. CASE ComparesWith(C, h, info, n, v, a)
    <3>1. /\ v = info.cases[a] - 3 /\ tmp2 = IF ip = a THEN 0 ELSE 1
          /\ info.cases[ip] >= info.cases[a]
      BY <2>1, <2>4, <2>6 DEF ComparesWith, ComparedAt, Executes
    <3>2. /\ info.cases[ip] > v + 1
          /\ \A b \in DOMAIN info.cases : /\ v = info.cases[b] - 3 => b = a
                                          /\ v # info.cases[b] - 2
      BY <2>1, <2>3, <3>1
    <3>3. InChain(h, info, v)
      BY <3>1 DEF InChain
    <3> QED
      BY <2>1, <2>5, <3>1, <3>2, <3>3 DEF ThreadIn
  <2>7. CASE Agrees(C, info, n, v, a)
    <3>1. n = info.cases[a] - 3 /\ v = info.cases[a] - 2 /\ tmp = 0
      BY <2>4, <2>7 DEF Agrees, Executes, IsGuard
    <3>2. ip = a
      BY <2>1, <3>1
    <3>3. /\ info.cases[ip] > v + 1
          /\ \A b \in DOMAIN info.cases : /\ v = info.cases[b] - 2 => b = a
                                          /\ v # info.cases[b] - 3
      BY <2>3, <3>1, <3>2
    <3>4. InChain(h, info, v)
      BY <3>1 DEF InChain
    <3> QED
      BY <2>1, <2>5, <3>2, <3>3, <3>4 DEF ThreadIn
  <2>8. CASE Differs(C, info, n, v, a)
    <3>1. n = info.cases[a] - 3 /\ v = info.cases[a] - 1 /\ tmp # 0
      BY <2>4, <2>8 DEF Differs, Executes, IsGuard
    <3>2. ip # a
      BY <2>1, <3>1
    <3>3. /\ info.cases[ip] > v + 1
          /\ \A b \in DOMAIN info.cases : v # info.cases[b] - 2 /\ v # info.cases[b] - 3
      BY <2>1, <2>3, <3>1, <3>2
    <3>4. InChain(h, info, v)
      BY <3>1 DEF InChain
    <3> QED
      BY <2>1, <2>5, <3>3, <3>4 DEF ThreadIn
  <2>9. CASE EntersCase(C, info, n, v, a)
    <3>1. n = info.cases[a] - 2 /\ v = info.cases[a]
      BY <2>9 DEF EntersCase
    <3>2. ip = a
      BY <2>1, <3>1
    <3>3. ~InChain(h, info, v)
      BY <2>3, <3>1 DEF InChain
    <3> QED
      BY <2>5, <3>1, <3>2, <3>3 DEF ThreadIn
  <2> QED
    BY <2>2, <2>5, <2>6, <2>7, <2>8, <2>9 DEF ThreadIn
<1> QED
  BY <1>1, <1>2

-----------------------------------------------------------------------------
\* The thread at n, in whatever chains n is.
ThreadOK(S, n, ip, tmp) == \A h \in DOMAIN S : ThreadIn(h, S[h], n, ip, tmp)

\* The thread never stands at a default: the case of its IP is not behind it.
LEMMA ThreadNotAtDefault ==
  ASSUME NEW C, NEW f, GraphOK(C, f), NEW S, SwitchesOK(C, S), NEW n,
         NEW ip, NEW tmp, ThreadOK(S, n, ip, tmp),
         NEW h \in DOMAIN S
  PROVE  S[h].default # n
<1> SUFFICES ASSUME S[h].default = n PROVE FALSE
  OBVIOUS
<1>1. SwitchShape(C, h, S[h]) /\ IsPoint(h, S[h], n)
  BY DEF SwitchesOK, SwitchOK, SwitchShape
<1>2. InChain(h, S[h], n)
  BY <1>1, PointsInChain
<1>3. ip \in DOMAIN S[h].cases /\ S[h].cases[ip] > n + 1
  BY <1>2 DEF ThreadOK, ThreadIn
<1>4. S[h].cases[ip] \in Nat /\ S[h].cases[ip] <= n + 1
  BY <1>1, <1>3, CaseNodes
<1>5. n \in Nat
  BY DefaultIsOld DEF SwitchesOK
<1> QED
  BY <1>3, <1>4, <1>5

\* Executing an instruction other than an indirect jump.
LEMMA ThreadGoesOn ==
  ASSUME NEW C, NEW f, GraphOK(C, f), NEW S, SwitchesOK(C, S), NEW N, JumpsOK(C, S, N),
         NEW n, NEW v, Leads(C, n, v),
         NEW ip \in Int, NEW tmp, NEW ip2, NEW tmp2, ThreadOK(S, n, ip, tmp),
         Executes(Along(C, n, v), ip, tmp, ip2, tmp2)
  PROVE  ThreadOK(S, v, ip2, tmp2)
<1> SUFFICES ASSUME NEW h \in DOMAIN S PROVE ThreadIn(h, S[h], v, ip2, tmp2)
  BY DEF ThreadOK
<1>1. SwitchOK(C, h, S[h]) /\ ThreadIn(h, S[h], n, ip, tmp)
  BY DEF SwitchesOK, ThreadOK
<1>2. h \in Nat
  BY <1>1 DEF SwitchOK, SwitchShape, GraphOK
<1>3. v # h
  <2>1. PICK u : Jumps(C, u, h)
    BY <1>1 DEF SwitchOK
  <2>2. \A m : Leads(C, m, h) => m = u
    BY <2>1 DEF JumpsOK
  <2> QED
    BY <2>1, <2>2 DEF Executes, Jumps
<1> QED
  BY <1>1, <1>2, <1>3, ThreadMoves

\* An indirect jump to an address the switch has a case for.
LEMMA ThreadEnters ==
  ASSUME NEW C, NEW f, GraphOK(C, f), NEW S, SwitchesOK(C, S),
         NEW n, NEW w \in DOMAIN S, Jumps(C, n, w), NEW ip \in DOMAIN S[w].cases, NEW tmp
  PROVE  ThreadOK(S, w, ip, tmp)
<1> SUFFICES ASSUME NEW h \in DOMAIN S PROVE ThreadIn(h, S[h], w, ip, tmp)
  BY DEF ThreadOK
<1>1. SwitchOK(C, h, S[h])
  BY DEF SwitchesOK
<1>2. CASE w # h
  BY <1>1, <1>2, HeadsAreApart DEF ThreadIn
<1>3. CASE w = h
  <2>1. SwitchShape(C, w, S[w]) /\ w \in Nat
    BY <1>1, <1>3 DEF SwitchOK, SwitchShape, GraphOK
  <2>2. \A a \in DOMAIN S[w].cases : S[w].cases[a] \in Nat /\ S[w].cases[a] >= w + 4
    BY <2>1, CaseNodes
  <2> QED
    BY <1>3, <2>1, <2>2 DEF ThreadIn
<1> QED
  BY <1>2, <1>3

\* The entry of the program is in no chain.
LEMMA ThreadBegins ==
  ASSUME NEW C, NEW f, GraphOK(C, f), NEW S, SwitchesOK(C, S), NEW ip, NEW tmp
  PROVE  ThreadOK(S, 1, ip, tmp)
<1> SUFFICES ASSUME NEW h \in DOMAIN S, InChain(h, S[h], 1) PROVE FALSE
  BY DEF ThreadOK, ThreadIn
<1>1. SwitchOK(C, h, S[h])
  BY DEF SwitchesOK
<1>2. SwitchShape(C, h, S[h]) /\ h \in 1..f /\ h # 1 /\ f \in Nat
  BY <1>1 DEF SwitchOK, SwitchShape, GraphOK, Jumps
<1>3. \A a \in DOMAIN S[h].cases : S[h].cases[a] \in Nat /\ S[h].cases[a] >= h + 4
  BY <1>2, CaseNodes
<1> QED
  BY <1>2, <1>3 DEF InChain

-----------------------------------------------------------------------------
\* A thread in a chain can go on, and by nothing but a comparison, a guard or the
\* havoc of temporaries.
LEMMA ChainGoesOn ==
  ASSUME NEW C, NEW h, NEW info, SwitchOK(C, h, info),
         NEW n, InChain(h, info, n), n # info.default
  PROVE  /\ \E v : Leads(C, n, v)
         /\ \A v : Leads(C, n, v) => Along(C, n, v).gik \in {"XOR", "EQ", "NE", "HAVOC"}
<1>1. \E v : Leads(C, n, v)
  <2>1. SwitchShape(C, h, info)
    BY DEF SwitchOK
  <2>2. CASE IsPoint(h, info, n)
    BY <2>1, <2>2 DEF SwitchShape, ComparedAt
  <2>3. CASE ~IsPoint(h, info, n)
    <3>1. PICK a \in DOMAIN info.cases : n = info.cases[a] - 3 \/ n = info.cases[a] - 2
      BY <2>3 DEF InChain, IsPoint
    <3>2. CaseOK(C, h, info, info.cases[a])
      BY <2>1 DEF SwitchShape
    <3> QED
      BY <3>1, <3>2 DEF CaseOK
  <2> QED
    BY <2>2, <2>3
<1>2. ASSUME NEW v, Leads(C, n, v)
      PROVE  Along(C, n, v).gik \in {"XOR", "EQ", "NE", "HAVOC"}
  <2>1. \E a \in DOMAIN info.cases :
           \/ ComparesWith(C, h, info, n, v, a)
           \/ Agrees(C, info, n, v, a)
           \/ Differs(C, info, n, v, a)
           \/ EntersCase(C, info, n, v, a)
    BY <1>2, ChainSteps
  <2> QED
    BY <2>1 DEF ComparesWith, Agrees, Differs, EntersCase, Ins
<1> QED
  BY <1>1, <1>2

\* Until the thread at n has entered the case of its IP it has to pass the point
\* m, where that case hangs.
AwaitedIn(C, h, info, n, ip, m) ==
  /\ InChain(h, info, n) /\ IsPoint(h, info, m) /\ m > n
  /\ Leads(C, m, info.cases[ip] - 3)

Awaited(C, S, n, ip, m) == \E h \in DOMAIN S : AwaitedIn(C, h, S[h], n, ip, m)

\* Where it goes it comes nearer to that point, and at last to the point itself.
LEMMA ThreadComesNearer ==
  ASSUME NEW C, NEW h \in Nat, NEW info, SwitchOK(C, h, info),
         NEW n, NEW v, Leads(C, n, v),
         NEW ip, NEW tmp, NEW ip2, NEW tmp2, ThreadIn(h, info, n, ip, tmp),
         Executes(Along(C, n, v), ip, tmp, ip2, tmp2), ip2 = ip,
         NEW m, AwaitedIn(C, h, info, n, ip, m), m # v
  PROVE  AwaitedIn(C, h, info, v, ip2, m)
<1>1. /\ InChain(h, info, n) /\ IsPoint(h, info, m) /\ m > n
      /\ Leads(C, m, info.cases[ip] - 3)
  BY DEF AwaitedIn
<1>2. /\ ip \in DOMAIN info.cases /\ info.cases[ip] > n + 1
      /\ \A a \in DOMAIN info.cases : n = info.cases[a] - 3 => (tmp = 0 <=> ip = a)
      /\ \A a \in DOMAIN info.cases : n = info.cases[a] - 2 => ip = a
  BY <1>1 DEF ThreadIn
<1>3. \A b, c \in DOMAIN info.cases :
        /\ info.cases[b] \in Nat /\ info.cases[b] >= h + 4
        /\ b = c \/ info.cases[b] + 4 <= info.cases[c] \/ info.cases[c] + 4 <= info.cases[b]
  BY CasesApart DEF SwitchOK
<1>4. n \in Int /\ n >= h
  BY <1>1, <1>3 DEF InChain
<1>5. PICK c \in DOMAIN info.cases : m = info.cases[c] - 1
  BY <1>1, <1>4 DEF IsPoint
<1>6. m < info.cases[ip] - 3
  <2>1. PICK b \in DOMAIN info.cases : /\ ComparedAt(C, info, m, b)
                                       /\ info.cases[ip] - 3 = info.cases[b] - 3
    BY <1>1, PointEdge
  <2> QED
    BY <2>1 DEF ComparedAt
<1>7. PICK a \in DOMAIN info.cases :
         \/ ComparesWith(C, h, info, n, v, a)
         \/ Agrees(C, info, n, v, a)
         \/ Differs(C, info, n, v, a)
         \/ EntersCase(C, info, n, v, a)
  BY <1>1, ChainSteps
<1>8. CASE ComparesWith(C, h, info, n, v, a)
  <2>1. v = info.cases[a] - 3 /\ (info.cases[c] > n + 1 => info.cases[c] >= info.cases[a])
    BY <1>8 DEF ComparesWith, ComparedAt
  <2>2. m > v
    BY <1>1, <1>3, <1>4, <1>5, <2>1
  <2>3. InChain(h, info, v)
    BY <2>1 DEF InChain
  <2> QED
    BY <1>1, <2>2, <2>3 DEF AwaitedIn
<1>9. CASE Agrees(C, info, n, v, a)
  <2>1. n = info.cases[a] - 3 /\ Along(C, n, v) = Ins("EQ", "tmp")
    BY <1>9 DEF Agrees
  <2>2. tmp = 0
    BY <2>1 DEF Executes, IsGuard, Ins
  <2>3. ip = a
    BY <1>2, <2>1, <2>2
  <2> QED
    BY <1>1, <1>3, <1>4, <1>5, <1>6, <2>1, <2>3
<1>10. CASE Differs(C, info, n, v, a)
  <2>1. n = info.cases[a] - 3 /\ v = info.cases[a] - 1
    BY <1>10 DEF Differs
  <2>2. m > v
    BY <1>1, <1>3, <1>5, <2>1
  <2>3. InChain(h, info, v)
    BY <2>1 DEF InChain
  <2> QED
    BY <1>1, <2>2, <2>3 DEF AwaitedIn
<1>11. CASE EntersCase(C, info, n, v, a)
  <2>1. n = info.cases[a] - 2
    BY <1>11 DEF EntersCase
  <2>2. ip = a
    BY <1>2, <2>1
  <2> QED
    BY <1>1, <1>3, <1>4, <1>5, <1>6, <2>1, <2>2
<1> QED
  BY <1>7, <1>8, <1>9, <1>10, <1>11

\* The same in all chains.
LEMMA NearerInAll ==
  ASSUME NEW C, NEW f, GraphOK(C, f), NEW S, SwitchesOK(C, S), NEW N, JumpsOK(C, S, N),
         NEW n, NEW v, Leads(C, n, v),
         NEW ip \in Int, NEW tmp, NEW ip2, NEW tmp2, ThreadOK(S, n, ip, tmp),
         Executes(Along(C, n, v), ip, tmp, ip2, tmp2),
         NEW m, Awaited(C, S, n, ip, m), m # v
  PROVE  Awaited(C, S, v, ip2, m)
<1>1. PICK h \in DOMAIN S : AwaitedIn(C, h, S[h], n, ip, m)
  BY DEF Awaited
<1>2. SwitchOK(C, h, S[h]) /\ ThreadIn(h, S[h], n, ip, tmp)
  BY DEF SwitchesOK, ThreadOK
<1>3. h \in Nat
  BY <1>2 DEF SwitchOK, SwitchShape, GraphOK
<1>4. InChain(h, S[h], n) /\ S[h].default # n
  BY <1>1, ThreadNotAtDefault DEF AwaitedIn
<1>5. Along(C, n, v).gik \in {"XOR", "EQ", "NE", "HAVOC"}
  BY <1>2, <1>4, ChainGoesOn
<1>6. ip2 = ip
  BY <1>5 DEF Executes, Adds
<1>7. AwaitedIn(C, h, S[h], v, ip2, m)
  BY ONLY <1>1, <1>2, <1>3, <1>6, ThreadComesNearer,
     Leads(C, n, v), Executes(Along(C, n, v), ip, tmp, ip2, tmp2), m # v
<1> QED
  BY <1>7 DEF Awaited

\* A thread that cannot go on, or that is about to do something else than what
\* the instructions in a chain do, awaits nothing.
LEMMA NothingAwaited ==
  ASSUME NEW C, NEW f, GraphOK(C, f), NEW S, SwitchesOK(C, S), NEW n,
         NEW ip, NEW tmp, ThreadOK(S, n, ip, tmp),
         \/ \A v : ~Leads(C, n, v)
         \/ \E v : Leads(C, n, v) /\ Along(C, n, v).gik \in {"STOP", "DEREF", "IPREG"},
         NEW m
  PROVE  ~Awaited(C, S, n, ip, m)
<1> SUFFICES ASSUME NEW h \in DOMAIN S, InChain(h, S[h], n) PROVE FALSE
  BY DEF Awaited, AwaitedIn
<1>1. SwitchOK(C, h, S[h]) /\ S[h].default # n
  BY ThreadNotAtDefault DEF SwitchesOK
<1> QED
  BY <1>1, ChainGoesOn

-----------------------------------------------------------------------------
(***************************************************************************)
(* The addresses.  Nodes outside the chains have an address, the one at    *)
(* which a thread executes the code behind them: the entry has EntryPoint, *)
(* an annotated node its annotation K, a case the address it is for, and   *)
(* an instruction between such nodes adds to it.                           *)
(***************************************************************************)
Chained(S, n) == \E h \in DOMAIN S : InChain(h, S[h], n)

IsCase(S, n, a) == \E h \in DOMAIN S : a \in DOMAIN S[h].cases /\ n = S[h].cases[a]

LabelsOK(C, S, K, L) ==
  /\ L \in [C.nodes -> Int]
  /\ L[1] = EntryPoint
  /\ \A n \in DOMAIN K : n \in C.nodes /\ ~Chained(S, n) /\ L[n] = K[n]
  /\ \A n, a : IsCase(S, n, a) => ~Chained(S, n) /\ L[n] = a
  /\ \A u, v : Leads(C, u, v) /\ ~Chained(S, u) /\ ~Jumps(C, u, v)
                 => L[v] = L[u] + Adds(Along(C, u, v))

\* Chains and cases are nodes; a case is behind the havoc of temporaries, and the
\* node before it behind a comparison.
LEMMA ChainedNodes ==
  ASSUME NEW C, NEW f, GraphOK(C, f), NEW S, SwitchesOK(C, S), NEW n, Chained(S, n)
  PROVE  n \in C.nodes
<1>1. PICK h \in DOMAIN S : InChain(h, S[h], n)
  BY DEF Chained
<1>2. SwitchShape(C, h, S[h])
  BY DEF SwitchesOK, SwitchOK
<1>3. \A u, v : Leads(C, u, v) => u \in C.nodes /\ v \in C.nodes
  BY DEF GraphOK, Good, IsDigraph, Leads
<1>4. CASE n = h
  BY <1>2, <1>4 DEF SwitchShape
<1>5. ASSUME NEW a \in DOMAIN S[h].cases,
             n = S[h].cases[a] - 3 \/ n = S[h].cases[a] - 2 \/ n = S[h].cases[a] - 1
      PROVE  n \in C.nodes
  <2>1. CaseOK(C, h, S[h], S[h].cases[a])
    BY <1>2 DEF SwitchShape
  <2>2. /\ Leads(C, S[h].cases[a] - 3, S[h].cases[a] - 2)
        /\ Leads(C, S[h].cases[a] - 3, S[h].cases[a] - 1)
    BY <2>1 DEF CaseOK
  <2> QED
    BY <1>3, <1>5, <2>2
<1> QED
  BY <1>1, <1>4, <1>5 DEF InChain

\* A case lies behind the havoc of its comparison's branch.
LEMMA CasesAreBehind ==
  ASSUME NEW C, NEW f, GraphOK(C, f), NEW S, SwitchesOK(C, S), NEW n, NEW a, IsCase(S, n, a)
  PROVE  /\ n \in C.nodes
         /\ \E u : /\ Leads(C, u, n) /\ Along(C, u, n).gik = "HAVOC"
                   /\ \E w : Leads(C, w, u) /\ Along(C, w, u).gik = "EQ"
<1>1. PICK h \in DOMAIN S : a \in DOMAIN S[h].cases /\ n = S[h].cases[a]
  BY DEF IsCase
<1>2. CaseOK(C, h, S[h], n)
  BY <1>1 DEF SwitchesOK, SwitchOK, SwitchShape
<1>3. /\ Leads(C, n - 2, n) /\ Along(C, n - 2, n) = Ins("HAVOC", 0)
      /\ Leads(C, n - 3, n - 2) /\ Along(C, n - 3, n - 2) = Ins("EQ", "tmp")
      /\ n \in C.nodes
  BY <1>2 DEF CaseOK
<1> QED
  BY <1>3 DEF Ins

\* Code merged behind x, which is in no chain, goes on from the address of x.
MergesLabels(C, f, S, K, M, D, x, l, J, L) ==
  /\ GraphOK(C, f) /\ SwitchesOK(C, S) /\ LabelsOK(C, S, K, M)
  /\ Grafted(C, D, x, f, l, {}) /\ ~Chained(S, x)
  /\ Labelled(D, f, L) /\ \A n \in C.nodes : L[n] = M[n]
  /\ DOMAIN J = DOMAIN K \cup {x} /\ J[x] = M[x]
  /\ \A n \in DOMAIN K : n # x => J[n] = K[n]

\* With it the merged component keeps its addresses.
LEMMA LabelsMerged ==
  ASSUME NEW C, NEW f, NEW S, NEW K, NEW M, NEW D, NEW x, NEW l, NEW J, NEW L,
         MergesLabels(C, f, S, K, M, D, x, l, J, L)
  PROVE  LabelsOK(D, S, J, L)
<1>0. /\ GraphOK(C, f) /\ SwitchesOK(C, S) /\ LabelsOK(C, S, K, M)
      /\ Grafted(C, D, x, f, l, {}) /\ ~Chained(S, x)
      /\ Labelled(D, f, L) /\ \A n \in C.nodes : L[n] = M[n]
      /\ DOMAIN J = DOMAIN K \cup {x} /\ J[x] = M[x]
      /\ \A n \in DOMAIN K : n # x => J[n] = K[n]
  BY DEF MergesLabels
<1>1. /\ 1 \in C.nodes /\ x \in C.nodes
      /\ \A n \in C.nodes : n \in D.nodes
      /\ \A u, v : Leads(C, u, v) => u \in C.nodes /\ v \in C.nodes
      /\ L \in [D.nodes -> Int]
  BY <1>0 DEF GraphOK, Grafted, Good, IsDigraph, Leads, Labelled
<1>2. L[1] = EntryPoint
  BY <1>0, <1>1 DEF LabelsOK
<1>3. \A n \in DOMAIN J : n \in D.nodes /\ ~Chained(S, n) /\ L[n] = J[n]
  BY <1>0, <1>1 DEF LabelsOK
<1>4. \A n, a : IsCase(S, n, a) => ~Chained(S, n) /\ L[n] = a
  BY <1>0, CasesAreBehind DEF LabelsOK
<1>5. ASSUME NEW u, NEW v, Leads(D, u, v), ~Chained(S, u), ~Jumps(D, u, v)
      PROVE  L[v] = L[u] + Adds(Along(D, u, v))
  <2>1. CASE v > f
    BY <1>0, <1>5, <2>1 DEF Labelled
  <2>2. CASE ~(v > f)
    <3>1. Leads(C, u, v)
      BY <1>0, <1>5, <2>2 DEF Grafted
    <3>2. Along(D, u, v) = Along(C, u, v)
      BY <1>0, <3>1 DEF Grafted
    <3>3. ~Jumps(C, u, v)
      BY <1>0, <1>5, <3>1, <3>2 DEF Jumps
    <3>4. M[v] = M[u] + Adds(Along(C, u, v))
      BY <1>0, <1>5, <3>1, <3>3 DEF LabelsOK
    <3> QED
      BY <1>0, <1>1, <3>1, <3>2, <3>4
  <2> QED
    BY <2>1, <2>2
<1> QED
  BY <1>1, <1>2, <1>3, <1>4, <1>5 DEF LabelsOK

\* The thread follows the addresses; where it leaves a chain it is at the case of
\* its IP.
LEMMA LabelsFollowed ==
  ASSUME NEW C, NEW f, GraphOK(C, f), NEW S, SwitchesOK(C, S), NEW N, JumpsOK(C, S, N),
         NEW K, NEW L, LabelsOK(C, S, K, L),
         NEW n, NEW v, Leads(C, n, v),
         NEW ip \in Int, NEW tmp, NEW ip2, NEW tmp2, ThreadOK(S, n, ip, tmp),
         Executes(Along(C, n, v), ip, tmp, ip2, tmp2),
         ~Chained(S, n) => ip = L[n], ~Chained(S, v)
  PROVE  ip2 = L[v]
<1>1. CASE ~Chained(S, n)
  <2>1. ~Jumps(C, n, v) /\ ip2 = ip + Adds(Along(C, n, v))
    BY DEF Jumps, Executes
  <2>2. L[v] = L[n] + Adds(Along(C, n, v))
    BY <1>1, <2>1 DEF LabelsOK
  <2> QED
    BY <1>1, <2>1, <2>2
<1>2. CASE Chained(S, n)
  <2>1. PICK h \in DOMAIN S : InChain(h, S[h], n)
    BY <1>2 DEF Chained
  <2>2. ~InChain(h, S[h], v)
    BY DEF Chained
  <2>3. SwitchOK(C, h, S[h]) /\ ThreadIn(h, S[h], n, ip, tmp)
    BY DEF SwitchesOK, ThreadOK
  <2>4. h \in Nat /\ v # h
    BY <2>2, <2>3 DEF SwitchOK, SwitchShape, GraphOK, InChain
  <2>5. /\ ip2 = ip
        /\ \E a \in DOMAIN S[h].cases : v = S[h].cases[a] /\ ip = a
    BY <2>1, <2>2, <2>3, <2>4, ThreadMoves
  <2>6. IsCase(S, v, ip)
    BY <2>5 DEF IsCase
  <2> QED
    BY <2>5, <2>6 DEF LabelsOK
<1> QED
  BY <1>1, <1>2

\* With the case of ip in the switch h the chains and the cases are the old ones,
\* the head, and the nodes of that case.
ChainsGrow(S, U, f, h, ip) ==
  /\ \A m : Chained(U, m) <=> Chained(S, m) \/ m = h \/ m = f + 1 \/ m = f + 2 \/ m = f + 3
  /\ \A m, a : IsCase(U, m, a) <=> IsCase(S, m, a) \/ (m = f + 4 /\ a = ip)

\* That is so for the switch and the case add_case_to_switch returns.
LEMMA ChainsWithCase ==
  ASSUME NEW C, NEW f, NEW S, NEW N, NEW n, NEW h, NEW ip, NEW r, NEW U,
         CaseGoesIn(C, f, S, N, n, h, ip, r, U)
  PROVE  ChainsGrow(S, U, f, h, ip)
<1> DEFINE info == InfoOf(S, h)
           new == WithCase(info, ip, r)
<1>1. /\ DOMAIN U = DOMAIN S \cup {h} /\ U[h] = new
      /\ \A k \in DOMAIN S : k # h => U[k] = S[k]
      /\ ip \notin DOMAIN info.cases
  BY DEF CaseGoesIn
<1>2. f \in Nat /\ r.begin = f + 4
  BY DEF CaseGoesIn, GraphOK, AddedCase
<1>3. HasCase(new, info, ip, r)
  BY CasesWith
<1>4. /\ h \in DOMAIN S => info = S[h]
      /\ h \notin DOMAIN S => DOMAIN info.cases = {}
  BY DEF InfoOf, NewSwitch
<1> HIDE DEF info, new
<1>5. /\ DOMAIN new.cases = DOMAIN info.cases \cup {ip}
      /\ new.cases[ip] = f + 4
      /\ \A a \in DOMAIN info.cases : a # ip /\ new.cases[a] = info.cases[a]
  BY <1>1, <1>2, <1>3 DEF HasCase
<1>6. \A m : InChain(h, new, m) <=> InChain(h, info, m) \/ m = f + 1 \/ m = f + 2 \/ m = f + 3
  <2>1. (f + 4) - 3 = f + 1 /\ (f + 4) - 2 = f + 2 /\ (f + 4) - 1 = f + 3
    BY <1>2
  <2> QED
    BY <1>5, <2>1 DEF InChain
<1>7. \A m : InChain(h, info, m) <=> m = h \/ (h \in DOMAIN S /\ InChain(h, S[h], m))
  BY <1>4 DEF InChain
<1>8. \A m : Chained(U, m) <=> Chained(S, m) \/ m = h \/ m = f + 1 \/ m = f + 2 \/ m = f + 3
  <2>1. \A m : Chained(U, m) <=> \/ InChain(h, new, m)
                                 \/ \E k \in DOMAIN S : k # h /\ InChain(k, S[k], m)
    BY <1>1 DEF Chained
  <2>2. \A m : Chained(S, m) <=> \/ h \in DOMAIN S /\ InChain(h, S[h], m)
                                 \/ \E k \in DOMAIN S : k # h /\ InChain(k, S[k], m)
    BY DEF Chained
  <2> QED
    BY <1>6, <1>7, <2>1, <2>2
<1>9. \A m, a : IsCase(U, m, a) <=> IsCase(S, m, a) \/ (m = f + 4 /\ a = ip)
  <2>1. \A m, a : IsCase(U, m, a) <=>
          \/ a \in DOMAIN new.cases /\ m = new.cases[a]
          \/ \E k \in DOMAIN S : k # h /\ a \in DOMAIN S[k].cases /\ m = S[k].cases[a]
    BY <1>1 DEF IsCase
  <2>2. \A m, a : IsCase(S, m, a) <=>
          \/ h \in DOMAIN S /\ a \in DOMAIN S[h].cases /\ m = S[h].cases[a]
          \/ \E k \in DOMAIN S : k # h /\ a \in DOMAIN S[k].cases /\ m = S[k].cases[a]
    BY DEF IsCase
  <2>3. \A m, a : a \in DOMAIN new.cases /\ m = new.cases[a] <=>
          \/ h \in DOMAIN S /\ a \in DOMAIN S[h].cases /\ m = S[h].cases[a]
          \/ m = f + 4 /\ a = ip
    BY <1>4, <1>5
  <2> QED
    BY <2>1, <2>2, <2>3
<1> QED
  BY <1>8, <1>9 DEF ChainsGrow

\* A new case has the address it is for; the rest keeps its addresses.
LEMMA LabelsWithCase ==
  ASSUME NEW C, NEW f, NEW S, NEW N, NEW n, NEW h, NEW ip \in Int, NEW r, NEW U,
         CaseGoesIn(C, f, S, N, n, h, ip, r, U),
         NEW K, DOMAIN K \subseteq N, NEW M, LabelsOK(C, S, K, M)
  PROVE  \E L : LabelsOK(r.comp, U, K, L)
<1> DEFINE D == r.comp
           d == InfoOf(S, h).default
           T == After(C, d)
           L == [m \in D.nodes |-> IF m \in C.nodes THEN M[m] ELSE IF m = f + 4 THEN ip ELSE 0]
<1>1. /\ GraphOK(C, f) /\ SwitchesOK(C, S) /\ JumpsOK(C, S, N) /\ N \subseteq C.nodes
      /\ Jumps(C, n, h)
      /\ AddedCase(C, d, ip, f, r)
  BY DEF CaseGoesIn
<1>2. Grafted(C, D, d, f, f + 4, T)
  BY <1>1 DEF AddedCase
<1>3. ChainsGrow(S, U, f, h, ip)
  BY ChainsWithCase
<1>4. /\ CanHang(C, f, InfoOf(S, h))
      /\ ErasedOK(C, d, T)
      /\ SwitchShape(C, h, InfoOf(S, h))
  BY <1>1, HeadHangs
<1>5. Chained(U, d)
  <2>1. IsPoint(h, InfoOf(S, h), d)
    BY <1>4 DEF SwitchShape
  <2>2. CASE h \in DOMAIN S
    <3>1. InChain(h, S[h], d)
      BY <2>1, <2>2, PointsInChain DEF InfoOf
    <3> QED
      BY <1>3, <2>2, <3>1 DEF ChainsGrow, Chained
  <2>3. CASE h \notin DOMAIN S
    <3>1. d = h
      BY <2>3 DEF InfoOf, NewSwitch
    <3> QED
      BY <1>3, <3>1 DEF ChainsGrow
  <2> QED
    BY <2>2, <2>3
<1>6. ASSUME h \notin DOMAIN S
      PROVE  d = h /\ h \notin N /\ \A t \in T : t \notin N
  <2>1. d = h
    BY <1>6 DEF InfoOf, NewSwitch
  <2>2. h \notin N /\ \A t : Leads(C, h, t) => t \notin N
    BY <1>1, <1>6 DEF JumpsOK
  <2> QED
    BY <2>1, <2>2 DEF After
<1>7. ASSUME h \in DOMAIN S
      PROVE  T = {} /\ Chained(S, h)
  <2>1. SwitchOK(C, h, S[h]) /\ d = S[h].default
    BY <1>1, <1>7 DEF SwitchesOK, InfoOf
  <2>2. InChain(h, S[h], h)
    BY DEF InChain
  <2> QED
    BY <1>7, <2>1, <2>2 DEF SwitchOK, After, Chained
<1> HIDE DEF d, T
<1>8. /\ f \in Nat /\ h \in C.nodes /\ 1 \in C.nodes /\ 1 \notin T
      /\ \A m \in C.nodes : m \in Nat /\ m <= f
      /\ \A u, v : Leads(C, u, v) => u \in C.nodes /\ v \in C.nodes
      /\ \A u, v : Leads(D, u, v) => u \in D.nodes /\ v \in D.nodes
      /\ \A m \in C.nodes : m \notin T => m \in D.nodes
      /\ \A m \in D.nodes : (m \in C.nodes /\ m \notin T) \/ (m \in Nat /\ m > f)
      /\ \A m : Chained(S, m) => m \in C.nodes
  <2>1. \A m : Chained(S, m) => m \in C.nodes
    BY <1>1, ChainedNodes
  <2>2. C.entry = 1 /\ C.entry \in C.nodes /\ f \in Nat
    BY <1>1 DEF GraphOK, Good
  <2>3. /\ \A u, v : Leads(C, u, v) => u \in C.nodes /\ v \in C.nodes
        /\ \A u, v : Leads(D, u, v) => u \in D.nodes /\ v \in D.nodes
    BY <1>1, <1>2 DEF GraphOK, Grafted, Good, IsDigraph, Leads
  <2> QED
    BY <1>1, <1>2, <2>1, <2>2, <2>3 DEF Grafted, Jumps
<1>9. f + 4 \in D.nodes
  <2>1. Leads(D, f + 2, f + 4)
    BY <1>1, <1>8 DEF AddedCase
  <2> QED
    BY <1>8, <2>1
<1>10. /\ M \in [C.nodes -> Int]
       /\ M[1] = EntryPoint
  BY DEF LabelsOK
<1>11. /\ L \in [D.nodes -> Int]
       /\ \A m \in D.nodes : m \in C.nodes => L[m] = M[m]
       /\ L[f + 4] = ip
  <2>1. f + 4 \notin C.nodes
    BY <1>8
  <2> HIDE DEF D
  <2> QED
    BY <1>9, <1>10, <2>1
<1> HIDE DEF L, D
<1>12. ASSUME NEW m \in DOMAIN K
       PROVE  m \in D.nodes /\ ~Chained(U, m) /\ L[m] = K[m]
  <2>1. m \in C.nodes /\ ~Chained(S, m) /\ M[m] = K[m] /\ m \in N
    BY DEF LabelsOK
  <2>2. m # h /\ m \notin T
    BY <1>6, <1>7, <2>1
  <2>3. ~Chained(U, m)
    BY <1>3, <1>8, <2>1, <2>2 DEF ChainsGrow
  <2> QED
    BY <1>8, <1>11, <2>1, <2>2, <2>3
<1>13. ASSUME NEW m, NEW a, IsCase(U, m, a)
       PROVE  ~Chained(U, m) /\ L[m] = a
  <2>1. CASE IsCase(S, m, a)
    <3>1. ~Chained(S, m) /\ M[m] = a
      BY <2>1 DEF LabelsOK
    <3>2. /\ m \in C.nodes
          /\ \E u : /\ Leads(C, u, m) /\ Along(C, u, m).gik = "HAVOC"
                    /\ \E w : Leads(C, w, u) /\ Along(C, w, u).gik = "EQ"
      BY <1>1, <2>1, CasesAreBehind
    <3>3. PICK u : /\ Leads(C, u, m) /\ Along(C, u, m).gik = "HAVOC"
                   /\ \E w : Leads(C, w, u) /\ Along(C, w, u).gik = "EQ"
      BY <3>2
    <3>4. m # h
      BY <1>1, <3>3 DEF JumpsOK, Jumps, IsSwitchInstruction
    <3>5. m \notin T
      <4>1. SUFFICES ASSUME m \in T PROVE FALSE
        OBVIOUS
      <4>2. u = d /\ \E w : Jumps(C, w, d)
        BY <1>4, <3>3, <4>1 DEF ErasedOK
      <4>3. PICK w : Leads(C, w, d) /\ Along(C, w, d).gik = "EQ"
        BY <3>3, <4>2
      <4>4. PICK z : Jumps(C, z, d)
        BY <4>2
      <4>5. z = w
        BY <1>1, <4>3, <4>4 DEF JumpsOK
      <4> QED
        BY <4>3, <4>4, <4>5 DEF Jumps, IsSwitchInstruction
    <3>6. ~Chained(U, m)
      BY <1>3, <1>8, <3>1, <3>2, <3>4 DEF ChainsGrow
    <3> QED
      BY <1>8, <1>11, <3>1, <3>2, <3>5, <3>6
  <2>2. CASE m = f + 4 /\ a = ip
    <3>1. ~Chained(S, m) /\ m # h
      BY <1>8, <2>2
    <3>2. ~Chained(U, m)
      BY <1>3, <1>8, <2>2, <3>1 DEF ChainsGrow
    <3> QED
      BY <1>11, <2>2, <3>2
  <2> QED
    BY <1>3, <1>13, <2>1, <2>2 DEF ChainsGrow
<1>14. ASSUME NEW u, NEW v, Leads(D, u, v), ~Chained(U, u), ~Jumps(D, u, v)
       PROVE  L[v] = L[u] + Adds(Along(D, u, v))
  <2>1. ~(v > f)
    <3>1. SUFFICES ASSUME v > f PROVE FALSE
      OBVIOUS
    <3>2. u = d \/ u = f + 1 \/ u = f + 2
      BY <1>1, <1>14, <3>1 DEF AddedCase, D
    <3> QED
      BY <1>3, <1>5, <1>14, <3>2 DEF ChainsGrow
  <2>2. Leads(C, u, v) /\ v \notin T
    BY <1>2, <1>14, <2>1 DEF Grafted
  <2>3. Along(D, u, v) = Along(C, u, v)
    BY <1>2, <2>2 DEF Grafted
  <2>4. ~Chained(S, u) /\ ~Jumps(C, u, v)
    BY <1>3, <1>14, <2>2, <2>3 DEF ChainsGrow, Jumps
  <2>5. M[v] = M[u] + Adds(Along(C, u, v))
    BY <2>2, <2>4 DEF LabelsOK
  <2>6. u \in C.nodes /\ v \in C.nodes /\ u \in D.nodes /\ v \in D.nodes
    BY <1>8, <1>14, <2>2
  <2> QED
    BY <1>11, <2>3, <2>5, <2>6
<1>15. L[1] = EntryPoint
  BY <1>8, <1>10, <1>11
<1>16. LabelsOK(D, U, K, L)
  BY <1>11, <1>12, <1>13, <1>14, <1>15 DEF LabelsOK
<1> QED
  BY <1>16 DEF D
=============================================================================
