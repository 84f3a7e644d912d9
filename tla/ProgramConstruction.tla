------------------------- MODULE ProgramConstruction -------------------------
(***************************************************************************)
(* A population of program components under construction, driven by every  *)
(* operation of the class program_component in every order its ASSUMPTIONs *)
(* admit.  The recogniser builds a component per native instruction and    *)
(* the analysis merges it into the program being recovered, after which    *)
(* the recognised component is destroyed; all of them draw their node ids  *)
(* from one global counter.                                                *)
(***************************************************************************)
EXTENDS ProgramComponent

CONSTANTS
  Objects,      \* the program_component objects that may be alive
  Instructions, \* the instructions inserted into sequences and edges
  MaxNode,      \* bound: the last node id handed out
  MaxEdges,     \* bound: edges in a component that one more is inserted into
  MaxList       \* bound: the longest list given to insert_sequence

ASSUME ConstructionAssumption ==
  /\ MaxNode \in Nat
  /\ MaxEdges \in Nat
  /\ MaxList \in Nat

VARIABLES
  comps, \* a function from the objects that are alive to their components
  fresh  \* the last node id given out by generate_next_fresh_node_id

vars == <<comps, fresh>>

Alive == DOMAIN comps

Emitted == {I \in Instructions : ~IsEmptyInstruction(I)}

InstructionLists == UNION {[1..k -> Instructions] : k \in 1..MaxList}

Init ==
  /\ comps = << >>
  /\ fresh = 0

\* A slip: the id of a node that is in no living component is given out again.
ConstructRecycling(o) ==
  LET used == UNION {comps[p].nodes : p \in Alive}
      id == CHOOSE n \in 1..(fresh + 1) : n \notin used
  IN  /\ o \in Objects \ Alive
      /\ fresh < MaxNode
      /\ comps' = [p \in Alive \cup {o} |-> IF p = o THEN NewComponent(id) ELSE comps[p]]
      /\ fresh' = fresh + 1

Construct(o) ==
  /\ o \in Objects \ Alive
  /\ fresh < MaxNode
  /\ comps' = [p \in Alive \cup {o} |-> IF p = o THEN NewComponent(fresh + 1) ELSE comps[p]]
  /\ fresh' = fresh + 1

\* A recognition that failed: its component is destroyed unused.
Destroy(o) ==
  /\ o \in Alive
  /\ comps' = Restrict(comps, Alive \ {o})
  /\ UNCHANGED fresh

MarkEntry(o, n) ==
  /\ n \in comps[o].nodes
  /\ comps' = [comps EXCEPT ![o].entry = n]
  /\ UNCHANGED fresh

InsertNode(o) ==
  /\ fresh < MaxNode
  /\ comps' = [comps EXCEPT ![o] = AddNodes(@, {fresh + 1})]
  /\ fresh' = fresh + 1

InsertEdge(o, e, I) ==
  /\ CanInsertEdges(comps[o], OneEdge(e, I))
  /\ Cardinality(DOMAIN comps[o].edges) < MaxEdges
  /\ comps' = [comps EXCEPT ![o] = AddEdges(@, OneEdge(e, I))]
  /\ UNCHANGED fresh

EraseEdge(o, e) ==
  /\ CanEraseEdges(comps[o], {e})
  /\ comps' = [comps EXCEPT ![o] = RemoveEdges(@, {e})]
  /\ UNCHANGED fresh

Erase(o, n) ==
  /\ CanRemoveNode(comps[o], n)
  /\ comps' = [comps EXCEPT ![o] = RemoveNode(@, n)]
  /\ UNCHANGED fresh

Sequence(o, src, I, tgt) ==
  LET r == InsertSequence(comps[o], src, I, tgt, fresh)
  IN  /\ CanInsertSequence(comps[o], src, I, tgt)
      /\ r.fresh <= MaxNode
      /\ comps' = [comps EXCEPT ![o] = r.comp]
      /\ fresh' = r.fresh

Branching(o, gik, src, t0, t1) ==
  LET r == InsertBranching(comps[o], gik, 0, src, t0, t1, fresh)
  IN  /\ CanInsertBranching(comps[o], gik, src, t0, t1)
      /\ r.fresh <= MaxNode
      /\ comps' = [comps EXCEPT ![o] = r.comp]
      /\ fresh' = r.fresh

\* A component without the object p, which was attached to the object o and is
\* destroyed afterwards, as every caller does: its nodes live on in o only.
Absorb(o, p, C) == [q \in Alive \ {p} |-> IF q = o THEN C ELSE comps[q]]

AttachByEdge(o, p, x, I) ==
  /\ o # p
  /\ CanAppend(comps[o], x)
  /\ comps' = Absorb(o, p, AppendByEdge(comps[o], comps[p], x, I))
  /\ UNCHANGED fresh

AttachByMerging(o, p, x) ==
  /\ o # p
  /\ CanMerge(comps[o], comps[p], x)
  /\ comps' = Absorb(o, p, AppendByMerging(comps[o], comps[p], x))
  /\ UNCHANGED fresh

Next ==
  \/ \E o \in Objects : Construct(o) \/ Destroy(o)
  \/ \E o \in Alive :
       \/ InsertNode(o)
       \/ \E n \in 1..fresh : MarkEntry(o, n) \/ Erase(o, n)
       \/ \E e \in (1..fresh) \X (1..fresh) :
            EraseEdge(o, e) \/ \E I \in Emitted : InsertEdge(o, e, I)
       \/ \E src \in 1..fresh, I \in InstructionLists, tgt \in 0..fresh :
            Sequence(o, src, I, tgt)
       \/ \E gik \in {"EQ", "NE"}, src \in 1..fresh, t0, t1 \in 0..fresh :
            Branching(o, gik, src, t0, t1)
       \/ \E p \in Alive, x \in 1..fresh :
            AttachByMerging(o, p, x) \/ \E I \in Emitted : AttachByEdge(o, p, x, I)

Spec == Init /\ [][Next]_vars

-----------------------------------------------------------------------------
(***************************************************************************)
(* The type of a component and of the whole population.                    *)
(***************************************************************************)
IsComponentRecord(C) ==
  DOMAIN C = {"nodes", "edges", "succ", "pred", "entry", "exits"}

TypeOK ==
  /\ fresh \in Nat
  /\ Alive \subseteq Objects
  /\ \A o \in Alive : /\ IsComponentRecord(comps[o])
                      /\ comps[o].nodes \subseteq 1..fresh
                      /\ comps[o].entry \in comps[o].nodes

\* The successor and predecessor lists mirror the edges in every component,
\* whatever was inserted, erased, appended or merged before: the execution
\* follows the lists, the writer and the search for a goal follow both.
ListsMirrorEdges == \A o \in Alive : IsDigraph(comps[o])

\* The hand-maintained set of exits is exactly the set of nodes without a
\* successor: the analysis asks the lists whether to recognise more code and
\* the exits what is left to explore, and asserts that they agree.
ExitsAreSinks ==
  \A o \in Alive : comps[o].exits = {n \in comps[o].nodes : comps[o].succ[n] = {}}

\* No node id is ever in two living components: find_component is determined,
\* and merging a recognised component never meets a node that is already there.
NodesNotShared ==
  \A o, p \in Alive : o # p => comps[o].nodes \cap comps[p].nodes = {}

\* Merging a recognised component into an exit yields the glued graph: no
\* instruction of the fragment is lost, none is invented, loops through its
\* entry included, and what was recovered before is untouched.
MergeGlues ==
  \A o, p \in Alive : \A x \in comps[o].exits :
    o # p /\ CanMerge(comps[o], comps[p], x) =>
      LET R == AppendByMerging(comps[o], comps[p], x)
          G == Glued(comps[o], comps[p], x)
      IN  R.nodes = G.nodes /\ R.edges = G.edges /\ R.entry = G.entry

\* A node that was given out and is in no living component never comes back.
IdsNotReused ==
  [][\A n \in 1..fresh :
       (\A o \in Alive : n \notin comps[o].nodes)
         => \A o \in DOMAIN comps' : n \notin comps'[o].nodes]_vars

=============================================================================
