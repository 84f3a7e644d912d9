-------------------------- MODULE ProgramComponent --------------------------
(***************************************************************************)
(* A component of a Microcode program: a digraph whose edges carry         *)
(* instructions, with an entry node and a set of exit nodes that every     *)
(* operation updates by hand.  The operations are functions from the       *)
(* component before to the component after; those that create nodes take   *)
(* the last node id given out so far (the static counter of                *)
(* generate_next_fresh_node_id) and return, next to the component, the     *)
(* node the C++ method returns and the new value of the counter.           *)
(*                                                                         *)
(* An instruction is a record [gik, arg]: its kind and its one argument    *)
(* the models tell apart.                                                  *)
(***************************************************************************)
EXTENDS Digraph, FiniteSets, Sequences

\* A default-constructed instruction, which insert_sequence skips.
IsEmptyInstruction(I) == I.gik = "EMPTY"
IsGuard(I) == I.gik \in {"EQ", "NE"}
Nop == [gik |-> "NOP", arg |-> 0]

NewComponent(id) ==
  [nodes |-> {id}, edges |-> << >>, succ |-> [n \in {id} |-> {}],
   pred |-> [n \in {id} |-> {}], entry |-> id, exits |-> {id}]

AddNodes(C, N) == [InsertNodes(C, N) EXCEPT !.exits = @ \cup N]

\* A slip: the sources of the new edges stay exits.
AddEdgesKeepingExits(C, E) == InsertEdges(C, E)

AddEdges(C, E) == [InsertEdges(C, E) EXCEPT !.exits = @ \ {e[1] : e \in DOMAIN E}]

\* A slip: the entry node may be erased.
CanRemoveAnyNode(C, n) == n \in C.nodes /\ n \notin C.succ[n]

\* The predecessors are copied before the graph is changed and asked for their
\* successors afterwards, which only works for a node without a self-loop.
CanRemoveNode(C, n) == n \in C.nodes /\ n # C.entry /\ n \notin C.succ[n]

RemoveNode(C, n) ==
  LET D == EraseNode(C, n)
  IN  [D EXCEPT !.exits = (@ \ {n}) \cup {m \in C.pred[n] : D.succ[m] = {}}]

RemoveEdges(C, S) ==
  LET D == EraseEdges(C, S)
  IN  [D EXCEPT !.exits = @ \cup {m \in {e[1] : e \in S} : D.succ[m] = {}}]

(***************************************************************************)
(* insert_sequence: a chain of instructions out of a node without          *)
(* successors.  Empty instructions are skipped; the chain ends in tgt, if  *)
(* tgt is not 0, but only when the LAST instruction of the list is not     *)
(* empty.                                                                  *)
(***************************************************************************)
CanInsertSequence(C, src, I, tgt) ==
  /\ I # << >>
  /\ src \in C.nodes
  /\ tgt = 0 \/ tgt \in C.nodes
  /\ C.succ[src] = {}
  /\ \A i \in 1..Len(I) : ~IsGuard(I[i])

\* How many of the first i instructions of the list are inserted.
Inserted(I, i) == Cardinality({j \in 1..i : ~IsEmptyInstruction(I[j])})

EndsInTarget(I, tgt) == tgt # 0 /\ ~IsEmptyInstruction(I[Len(I)])

\* The node the loop stands at after the first i instructions of the list.
ChainNode(src, I, tgt, fresh, i) ==
  IF Inserted(I, i) = 0 THEN src
  ELSE IF i = Len(I) /\ EndsInTarget(I, tgt) THEN tgt
  ELSE fresh + Inserted(I, i)

\* A slip: the ids of the chain are numbered from the counter, which is not moved.
InsertSequenceUncounted(C, src, I, tgt, fresh) ==
  [comp |-> AddEdges(AddNodes(C, {fresh + 1}), OneEdge(<<src, fresh + 1>>, I[1])),
   last |-> fresh + 1, fresh |-> fresh]

InsertSequence(C, src, I, tgt, fresh) ==
  LET at(i) == ChainNode(src, I, tgt, fresh, i)
      kept  == {i \in 1..Len(I) : ~IsEmptyInstruction(I[i])}
      made  == Inserted(I, Len(I)) - (IF EndsInTarget(I, tgt) THEN 1 ELSE 0)
      link(i) == <<at(i - 1), at(i)>>
      chain == [e \in {link(i) : i \in kept} |->
                  I[CHOOSE i \in kept : e = link(i)]]
  IN  [comp |-> AddEdges(AddNodes(C, (fresh + 1)..(fresh + made)), chain),
       last |-> at(Len(I)), fresh |-> fresh + made]

(***************************************************************************)
(* insert_branching: the two guards out of a node without successors, to   *)
(* the given targets (0 asks for a fresh node).  fst is the target on      *)
(* which the guard gik holds.                                              *)
(***************************************************************************)
CanInsertBranching(C, gik, src, t0, t1) ==
  /\ gik \in {"EQ", "NE"}
  /\ src \in C.nodes
  /\ t0 = 0 \/ t0 \in C.nodes
  /\ t1 = 0 \/ t1 \in C.nodes
  /\ t0 = 0 \/ t0 # t1          \* the two edges must be different ones
  /\ C.succ[src] = {}

Negated(gik) == IF gik = "EQ" THEN "NE" ELSE "EQ"

InsertBranching(C, gik, arg, src, t0, t1, fresh) ==
  LET v0 == IF t0 = 0 THEN fresh + 1 ELSE t0
      f0 == IF t0 = 0 THEN fresh + 1 ELSE fresh
      v1 == IF t1 = 0 THEN f0 + 1 ELSE t1
      f1 == IF t1 = 0 THEN f0 + 1 ELSE f0
      guards == [e \in {<<src, v0>>, <<src, v1>>} |->
                   [gik |-> IF e[2] = v0 THEN gik ELSE Negated(gik), arg |-> arg]]
  IN  [comp |-> AddEdges(AddNodes(C, (fresh + 1)..f1), guards),
       fst |-> v0, snd |-> v1, fresh |-> f1]

(***************************************************************************)
(* append_by_edge and append_by_merging_exit_and_entry: a copy of the      *)
(* component O is attached to the exit x of C, through an edge, or by      *)
(* identifying x with the entry of O.                                      *)
(***************************************************************************)
CanAppend(C, x) == x \in C.exits

AppendByEdge(C, O, x, I) ==
  LET U == [C EXCEPT !.nodes = @ \cup O.nodes,
                     !.edges = Overlay(@, O.edges),
                     !.succ  = Overlay(@, O.succ),
                     !.pred  = Overlay(@, O.pred),
                     !.exits = @ \cup O.exits]
  IN  AddEdges(U, OneEdge(<<x, O.entry>>, I))

CanMerge(C, O, x) == CanAppend(C, x) /\ O.entry \notin O.succ[O.entry]

\* A slip: only the edges out of O's entry are redirected to x.
AppendByMergingOutOnly(C, O, x) ==
  AddEdges(RemoveNode(AppendByEdge(C, O, x, Nop), O.entry),
           [e \in {<<x, n>> : n \in O.succ[O.entry]} |-> O.edges[<<O.entry, e[2]>>]])

AppendByMerging(C, O, x) ==
  LET A == AppendByEdge(C, O, x, Nop)
      B == RemoveNode(A, O.entry)
      out == [e \in {<<x, n>> : n \in O.succ[O.entry]} |-> O.edges[<<O.entry, e[2]>>]]
      in  == [e \in {<<n, x>> : n \in O.pred[O.entry]} |-> O.edges[<<e[1], O.entry>>]]
  IN  AddEdges(AddEdges(B, out), in)

(***************************************************************************)
(* What merging is for: C and O glued together at x, every node of O but   *)
(* its entry kept, every edge of O kept with its instruction.              *)
(***************************************************************************)
Glued(C, O, x) ==
  LET at(n) == IF n = O.entry THEN x ELSE n
      moved(e) == <<at(e[1]), at(e[2])>>
  IN  [nodes |-> C.nodes \cup (O.nodes \ {O.entry}),
       edges |-> [d \in DOMAIN C.edges \cup {moved(e) : e \in DOMAIN O.edges} |->
                    IF d \in DOMAIN C.edges THEN C.edges[d]
                    ELSE O.edges[CHOOSE e \in DOMAIN O.edges : moved(e) = d]],
       entry |-> C.entry]

=============================================================================
