---------------------- MODULE ProgramConstructionProofs ----------------------
(***************************************************************************)
(* The invariants of ProgramConstruction for any number of components, any *)
(* size and any order of operations.  The inductive invariant says of each *)
(* living component that it is good, and of any two that they are apart;   *)
(* the bounds of the model play no part in it.                             *)
(***************************************************************************)
EXTENDS ProgramConstruction, ProgramComponentProofs

Inv ==
  /\ fresh \in Nat
  /\ Alive \subseteq Objects
  /\ \A o \in Alive : Good(comps[o]) /\ comps[o].nodes \subseteq 1..fresh
  /\ NodesNotShared

\* A step keeps old ids out of the components that did not have them.
NothingResurrected ==
  \A n \in 1..fresh :
    (\A o \in Alive : n \notin comps[o].nodes)
      => \A o \in DOMAIN comps' : n \notin comps'[o].nodes

\* What every operation on one component has to show for Inv to be preserved:
\* a good component, made of the nodes it had and of fresh ones.
LEMMA UpdateKeeps ==
  ASSUME Inv, NEW o \in Alive, NEW C, Good(C),
         fresh' \in Nat, fresh' >= fresh,
         C.nodes \subseteq comps[o].nodes \cup (fresh + 1)..fresh',
         comps' = [comps EXCEPT ![o] = C]
  PROVE  Inv' /\ NothingResurrected
<1>1. /\ DOMAIN comps' = Alive
      /\ comps'[o] = C
      /\ \A p \in Alive : p # o => comps'[p] = comps[p]
  BY DEF Alive
<1>2. \A p \in Alive : comps[p].nodes \subseteq 1..fresh
  BY DEF Inv
<1>3. \A p \in Alive : Good(comps'[p]) /\ comps'[p].nodes \subseteq 1..fresh'
  BY <1>1, <1>2 DEF Inv
<1>4. ASSUME NEW p \in Alive, NEW q \in Alive, p # q
      PROVE  comps'[p].nodes \cap comps'[q].nodes = {}
  <2>1. comps[p].nodes \cap comps[q].nodes = {}
    BY <1>4 DEF Inv, NodesNotShared
  <2>2. CASE p = o
    BY <1>1, <1>2, <1>4, <2>1, <2>2 DEF Inv
  <2>3. CASE q = o
    BY <1>1, <1>2, <1>4, <2>1, <2>3 DEF Inv
  <2>4. CASE p # o /\ q # o
    BY <1>1, <2>1, <2>4
  <2> QED
    BY <2>2, <2>3, <2>4
<1>5. Inv'
  BY <1>1, <1>3, <1>4 DEF Inv, NodesNotShared, Alive
<1>6. NothingResurrected
  BY <1>1 DEF NothingResurrected, Inv
<1> QED
  BY <1>5, <1>6

\* The same for a component that takes over the nodes of another, which dies.
LEMMA AbsorbKeeps ==
  ASSUME Inv, NEW o \in Alive, NEW p \in Alive, o # p, NEW C, Good(C),
         C.nodes \subseteq comps[o].nodes \cup comps[p].nodes,
         comps' = Absorb(o, p, C),
         UNCHANGED fresh
  PROVE  Inv' /\ NothingResurrected
<1>1. /\ DOMAIN comps' = Alive \ {p}
      /\ comps'[o] = C
      /\ \A q \in Alive \ {p} : q # o => comps'[q] = comps[q]
  BY DEF Absorb
<1>2. \A q \in Alive \ {p} : Good(comps'[q]) /\ comps'[q].nodes \subseteq 1..fresh
  BY <1>1 DEF Inv
<1>3. ASSUME NEW q \in Alive \ {p}, NEW r \in Alive \ {p}, q # r
      PROVE  comps'[q].nodes \cap comps'[r].nodes = {}
  <2>1. /\ comps[q].nodes \cap comps[r].nodes = {}
        /\ comps[q].nodes \cap comps[p].nodes = {}
        /\ comps[r].nodes \cap comps[p].nodes = {}
    BY <1>3 DEF Inv, NodesNotShared
  <2>2. CASE q = o
    BY <1>1, <1>3, <2>1, <2>2
  <2>3. CASE r = o
    BY <1>1, <1>3, <2>1, <2>3
  <2>4. CASE q # o /\ r # o
    BY <1>1, <2>1, <2>4
  <2> QED
    BY <2>2, <2>3, <2>4
<1>4. Inv'
  BY <1>1, <1>2, <1>3 DEF Inv, NodesNotShared, Alive
<1>5. NothingResurrected
  BY <1>1 DEF NothingResurrected
<1> QED
  BY <1>4, <1>5

\* The lists enumerated by Next are sequences.
LEMMA ListsAreSequences == InstructionLists \subseteq Seq(Instructions)
<1> SUFFICES ASSUME NEW k \in 1..MaxList, NEW I \in [1..k -> Instructions]
             PROVE  I \in Seq(Instructions)
  BY DEF InstructionLists
<1>1. k \in Nat
  BY ConstructionAssumption
<1> QED
  BY <1>1

\* No component exists at first.
LEMMA Initially == Init => Inv
BY DEF Init, Inv, NodesNotShared, Alive

\* Every operation preserves the invariant and resurrects no node.
LEMMA StepKeeps ==
  ASSUME Inv, [Next]_vars
  PROVE  Inv' /\ NothingResurrected
<1>0. fresh \in Nat
  BY DEF Inv
<1>1. ASSUME NEW o \in Objects, Construct(o) PROVE Inv' /\ NothingResurrected
  <2> DEFINE N == NewComponent(fresh + 1)
  <2>1. Good(N) /\ N.nodes = {fresh + 1}
    BY NewComponentGood
  <2>2. /\ DOMAIN comps' = Alive \cup {o}
        /\ o \notin Alive
        /\ comps'[o] = N
        /\ \A p \in Alive : comps'[p] = comps[p]
        /\ fresh' = fresh + 1
    BY <1>1 DEF Construct
  <2> HIDE DEF N
  <2>3. \A p \in Alive : comps[p].nodes \subseteq 1..fresh
    BY DEF Inv
  <2>4. \A p \in Alive \cup {o} : Good(comps'[p]) /\ comps'[p].nodes \subseteq 1..(fresh + 1)
    BY <1>0, <2>1, <2>2, <2>3 DEF Inv
  <2>5. \A p \in Alive : comps'[p].nodes \cap comps'[o].nodes = {}
    BY <1>0, <2>1, <2>2, <2>3
  <2>6. \A p, q \in Alive \cup {o} : p # q => comps'[p].nodes \cap comps'[q].nodes = {}
    BY <2>2, <2>5 DEF Inv, NodesNotShared
  <2>7. Inv'
    BY <1>0, <2>2, <2>4, <2>6 DEF Inv, NodesNotShared, Alive
  <2>8. NothingResurrected
    BY <1>0, <2>1, <2>2 DEF NothingResurrected
  <2> QED
    BY <2>7, <2>8
<1>2. ASSUME NEW o \in Objects, Destroy(o) PROVE Inv' /\ NothingResurrected
  <2>1. /\ DOMAIN comps' = Alive \ {o}
        /\ \A p \in Alive \ {o} : comps'[p] = comps[p]
        /\ fresh' = fresh
    BY <1>2 DEF Destroy, Restrict
  <2>2. Inv'
    BY <2>1 DEF Inv, NodesNotShared, Alive
  <2>3. NothingResurrected
    BY <2>1 DEF NothingResurrected
  <2> QED
    BY <2>2, <2>3
<1>3. ASSUME NEW o \in Alive, InsertNode(o) PROVE Inv' /\ NothingResurrected
  <2> DEFINE C == AddNodes(comps[o], {fresh + 1})
  <2>1. Good(comps[o]) /\ CanInsertNodes(comps[o], {fresh + 1})
    BY <1>0 DEF Inv, CanInsertNodes
  <2>2. Good(C) /\ C.nodes = comps[o].nodes \cup {fresh + 1}
    BY <2>1, AddNodesGood
  <2>3. comps' = [comps EXCEPT ![o] = C] /\ fresh' = fresh + 1
    BY <1>3 DEF InsertNode
  <2> HIDE DEF C
  <2>4. /\ fresh' \in Nat /\ fresh' >= fresh
        /\ C.nodes \subseteq comps[o].nodes \cup (fresh + 1)..fresh'
    BY <1>0, <2>2, <2>3
  <2> QED
    BY <2>2, <2>3, <2>4, UpdateKeeps
<1>4. ASSUME NEW o \in Alive, NEW n \in 1..fresh, MarkEntry(o, n)
      PROVE  Inv' /\ NothingResurrected
  <2> DEFINE C == [comps[o] EXCEPT !.entry = n]
  <2>1. Good(comps[o]) /\ n \in comps[o].nodes
    BY <1>4 DEF Inv, MarkEntry
  <2>2. /\ DOMAIN C = Fields
        /\ C.nodes = comps[o].nodes /\ C.edges = comps[o].edges
        /\ C.succ = comps[o].succ /\ C.pred = comps[o].pred
        /\ C.exits = comps[o].exits /\ C.entry = n
    BY <2>1 DEF Good, Fields
  <2>3. comps' = [comps EXCEPT ![o] = C] /\ fresh' = fresh
    BY <1>4 DEF MarkEntry
  <2> HIDE DEF C
  <2>4. Good(C)
    BY <2>1, <2>2 DEF Good, IsDigraph
  <2>5. /\ fresh' \in Nat /\ fresh' >= fresh
        /\ C.nodes \subseteq comps[o].nodes \cup (fresh + 1)..fresh'
    BY <1>0, <2>1, <2>2, <2>3 DEF Inv
  <2> QED
    BY <2>3, <2>4, <2>5, UpdateKeeps
<1>5. ASSUME NEW o \in Alive, NEW n \in 1..fresh, Erase(o, n)
      PROVE  Inv' /\ NothingResurrected
  <2> DEFINE C == RemoveNode(comps[o], n)
  <2>1. Good(comps[o]) /\ CanRemoveNode(comps[o], n)
    BY <1>5 DEF Inv, Erase
  <2>2. Good(C) /\ C.nodes = comps[o].nodes \ {n}
    BY <2>1, RemoveNodeGood
  <2>3. comps' = [comps EXCEPT ![o] = C] /\ fresh' = fresh
    BY <1>5 DEF Erase
  <2> HIDE DEF C
  <2>4. /\ fresh' \in Nat /\ fresh' >= fresh
        /\ C.nodes \subseteq comps[o].nodes \cup (fresh + 1)..fresh'
    BY <1>0, <2>2, <2>3
  <2> QED
    BY <2>2, <2>3, <2>4, UpdateKeeps
<1>6. ASSUME NEW o \in Alive, NEW e \in (1..fresh) \X (1..fresh), EraseEdge(o, e)
      PROVE  Inv' /\ NothingResurrected
  <2> DEFINE C == RemoveEdges(comps[o], {e})
  <2>1. Good(comps[o]) /\ CanEraseEdges(comps[o], {e})
    BY <1>6 DEF Inv, EraseEdge
  <2>2. Good(C) /\ C.nodes = comps[o].nodes
    BY <2>1, RemoveEdgesGood
  <2>3. comps' = [comps EXCEPT ![o] = C] /\ fresh' = fresh
    BY <1>6 DEF EraseEdge
  <2> HIDE DEF C
  <2>4. /\ fresh' \in Nat /\ fresh' >= fresh
        /\ C.nodes \subseteq comps[o].nodes \cup (fresh + 1)..fresh'
    BY <1>0, <2>2, <2>3
  <2> QED
    BY <2>2, <2>3, <2>4, UpdateKeeps
<1>7. ASSUME NEW o \in Alive, NEW e \in (1..fresh) \X (1..fresh), NEW I, InsertEdge(o, e, I)
      PROVE  Inv' /\ NothingResurrected
  <2> DEFINE C == AddEdges(comps[o], OneEdge(e, I))
  <2>1. DOMAIN OneEdge(e, I) \subseteq comps[o].nodes \X comps[o].nodes
    BY <1>7 DEF InsertEdge, CanInsertEdges, OneEdge
  <2>2. Good(C) /\ C.nodes = comps[o].nodes
    BY <2>1, AddEdgesGood DEF Inv
  <2>3. comps' = [comps EXCEPT ![o] = C] /\ fresh' = fresh
    BY <1>7 DEF InsertEdge
  <2> HIDE DEF C
  <2>4. /\ fresh' \in Nat /\ fresh' >= fresh
        /\ C.nodes \subseteq comps[o].nodes \cup (fresh + 1)..fresh'
    BY <1>0, <2>2, <2>3
  <2> QED
    BY <2>2, <2>3, <2>4, UpdateKeeps
<1>8. ASSUME NEW o \in Alive, NEW src, NEW I \in InstructionLists, NEW tgt,
             Sequence(o, src, I, tgt)
      PROVE  Inv' /\ NothingResurrected
  <2> DEFINE r == InsertSequence(comps[o], src, I, tgt, fresh)
  <2>1. Good(comps[o]) /\ comps[o].nodes \subseteq 1..fresh
    BY DEF Inv
  <2>2. CanInsertSequence(comps[o], src, I, tgt) /\ I \in Seq(Instructions)
    BY <1>8, ListsAreSequences DEF Sequence
  <2>3. Grown(comps[o], r, fresh)
    BY <1>0, <2>1, <2>2, InsertSequenceGood, Zenon
  <2>4. comps' = [comps EXCEPT ![o] = r.comp] /\ fresh' = r.fresh
    BY <1>8 DEF Sequence
  <2> HIDE DEF r
  <2>5. /\ fresh' \in Nat /\ fresh' >= fresh
        /\ r.comp.nodes \subseteq comps[o].nodes \cup (fresh + 1)..fresh'
        /\ Good(r.comp)
    BY <2>3, <2>4 DEF Grown
  <2> QED
    BY <2>4, <2>5, UpdateKeeps
<1>9. ASSUME NEW o \in Alive, NEW gik, NEW src, NEW t0 \in 0..fresh, NEW t1 \in 0..fresh,
             Branching(o, gik, src, t0, t1)
      PROVE  Inv' /\ NothingResurrected
  <2> DEFINE r == InsertBranching(comps[o], gik, 0, src, t0, t1, fresh)
  <2>1. Good(comps[o]) /\ comps[o].nodes \subseteq 1..fresh /\ t0 \in Nat /\ t1 \in Nat
    BY DEF Inv
  <2>2. CanInsertBranching(comps[o], gik, src, t0, t1)
    BY <1>9 DEF Branching
  <2>3. Grown(comps[o], r, fresh)
    BY <1>0, <2>1, <2>2, InsertBranchingGood, Zenon
  <2>4. comps' = [comps EXCEPT ![o] = r.comp] /\ fresh' = r.fresh
    BY <1>9 DEF Branching
  <2> HIDE DEF r
  <2>5. /\ fresh' \in Nat /\ fresh' >= fresh
        /\ r.comp.nodes \subseteq comps[o].nodes \cup (fresh + 1)..fresh'
        /\ Good(r.comp)
    BY <2>3, <2>4 DEF Grown
  <2> QED
    BY <2>4, <2>5, UpdateKeeps
<1>10. ASSUME NEW o \in Alive, NEW p \in Alive, NEW x, AttachByMerging(o, p, x)
       PROVE  Inv' /\ NothingResurrected
  <2> DEFINE C == AppendByMerging(comps[o], comps[p], x)
  <2>1. /\ o # p /\ CanMerge(comps[o], comps[p], x)
        /\ Good(comps[o]) /\ Good(comps[p])
        /\ Apart(comps[o], comps[p])
    BY <1>10 DEF Inv, NodesNotShared, AttachByMerging, Apart
  <2>2. Good(C) /\ C.nodes = Glued(comps[o], comps[p], x).nodes
    BY <2>1, AppendByMergingGlues
  <2>3. C.nodes \subseteq comps[o].nodes \cup comps[p].nodes
    <3> HIDE DEF C
    <3> QED
      BY <2>2 DEF Glued
  <2>4. comps' = Absorb(o, p, C) /\ UNCHANGED fresh
    BY <1>10 DEF AttachByMerging
  <2> HIDE DEF C
  <2> QED
    BY <2>1, <2>2, <2>3, <2>4, AbsorbKeeps
<1>11. ASSUME NEW o \in Alive, NEW p \in Alive, NEW x, NEW I, AttachByEdge(o, p, x, I)
       PROVE  Inv' /\ NothingResurrected
  <2> DEFINE C == AppendByEdge(comps[o], comps[p], x, I)
  <2>1. /\ o # p /\ x \in comps[o].nodes
        /\ Good(comps[o]) /\ Good(comps[p])
        /\ Apart(comps[o], comps[p])
    BY <1>11 DEF Inv, NodesNotShared, AttachByEdge, CanAppend, Good, Apart
  <2>2. Good(C) /\ C.nodes = comps[o].nodes \cup comps[p].nodes
    BY <2>1, AppendByEdgeNodes
  <2>3. comps' = Absorb(o, p, C) /\ UNCHANGED fresh
    BY <1>11 DEF AttachByEdge
  <2> HIDE DEF C
  <2> QED
    BY <2>1, <2>2, <2>3, AbsorbKeeps
<1>12. ASSUME UNCHANGED vars PROVE Inv' /\ NothingResurrected
  BY <1>12 DEF vars, Inv, NodesNotShared, Alive, NothingResurrected
<1> QED
  BY <1>1, <1>2, <1>3, <1>4, <1>5, <1>6, <1>7, <1>8, <1>9, <1>10, <1>11, <1>12 DEF Next

\* The inductive invariant holds in every behaviour.
LEMMA Invariance == Spec => []Inv
<1>1. Inv /\ [Next]_vars => Inv'
  BY StepKeeps
<1> QED
  BY Initially, <1>1, PTL DEF Spec

-----------------------------------------------------------------------------
\* The shape of the components and the range of their ids.
THEOREM TypeCorrect == Spec => []TypeOK
<1>1. Inv => TypeOK
  BY DEF Inv, TypeOK, Good, IsComponentRecord, Fields
<1> QED
  BY Invariance, <1>1, PTL

\* The lists of successors and predecessors never drift from the edges.
THEOREM ListsAlwaysMirror == Spec => []ListsMirrorEdges
<1>1. Inv => ListsMirrorEdges
  BY DEF Inv, ListsMirrorEdges, Good
<1> QED
  BY Invariance, <1>1, PTL

\* The exits never drift from the sinks.
THEOREM ExitsAlwaysSinks == Spec => []ExitsAreSinks
<1>1. Inv => ExitsAreSinks
  BY DEF Inv, ExitsAreSinks, Good
<1> QED
  BY Invariance, <1>1, PTL

\* Living components never share a node.
THEOREM NodesNeverShared == Spec => []NodesNotShared
<1>1. Inv => NodesNotShared
  BY DEF Inv
<1> QED
  BY Invariance, <1>1, PTL

\* Merging is gluing, in every state and at every exit.
THEOREM MergingAlwaysGlues == Spec => []MergeGlues
<1>1. Inv => MergeGlues
  <2> SUFFICES ASSUME Inv, NEW o \in Alive, NEW p \in Alive, NEW x \in comps[o].exits,
                      o # p, CanMerge(comps[o], comps[p], x)
               PROVE  LET R == AppendByMerging(comps[o], comps[p], x)
                          G == Glued(comps[o], comps[p], x)
                      IN  R.nodes = G.nodes /\ R.edges = G.edges /\ R.entry = G.entry
    BY DEF MergeGlues
  <2>1. /\ Good(comps[o]) /\ Good(comps[p])
        /\ Apart(comps[o], comps[p])
    BY DEF Inv, NodesNotShared, Apart
  <2> QED
    BY <2>1, AppendByMergingGlues
<1> QED
  BY Invariance, <1>1, PTL

\* An id that left every living component never comes back.
THEOREM IdsNeverReused == Spec => IdsNotReused
<1>1. Inv /\ [Next]_vars => [\A n \in 1..fresh :
         (\A o \in Alive : n \notin comps[o].nodes)
           => \A o \in DOMAIN comps' : n \notin comps'[o].nodes]_vars
  BY StepKeeps DEF NothingResurrected
<1> QED
  BY Invariance, <1>1, PTL DEF Spec, IdsNotReused
=============================================================================
