--------------------------- MODULE RecoveryProofs ---------------------------
(***************************************************************************)
(* The invariants of Recovery, for every native program and every bound.   *)
(* The inductive invariant comes in layers, each proved with the help of   *)
(* the ones before:                                                        *)
(*   ShapeInv      the component, its switches and indirect jumps, the     *)
(*                 histories, and where the thread may be among them;      *)
(*   RecordsInv    what recovery_properties records is in the program;     *)
(*   ExitsInv      what is left to explore;                                *)
(*   BranchesInv   the branchings recorded are the choices made;           *)
(*   AddressesInv  the addresses at which nodes are executed;              *)
(*   OutcomeInv    what run returns.                                       *)
(*   SearchInv     what the search for the next goal relies on.            *)
(***************************************************************************)
EXTENDS RecoveryGraphProofs, SequenceTheorems, WellFoundedInduction, NaturalsInduction

-----------------------------------------------------------------------------
\* The histories H are paths of C from its entry, of which the last one ends at
\* the node n; what they visited.
Walks(C, H, n) ==
  /\ H \in Seq(Seq(Nat))
  /\ \A e \in 1..Len(H) : /\ Len(H[e]) > 0
                          /\ H[e][1] = 1
                          /\ \A i \in 1..(Len(H[e]) - 1) : Leads(C, H[e][i], H[e][i + 1])
  /\ Len(H) > 0 => H[Len(H)][Len(H[Len(H)])] = n

SeenIn(H) == {n \in Nat : \E e \in 1..Len(H) : \E i \in 1..Len(H[e]) : H[e][i] = n}

\* The node where the last execution stands was visited.
LEMMA LastIsSeen ==
  ASSUME NEW C, NEW H, NEW n, Walks(C, H, n), Len(H) > 0
  PROVE  n \in SeenIn(H)
<1>1. Len(H) \in 1..Len(H) /\ H[Len(H)] \in Seq(Nat)
  BY DEF Walks
<1>2. Len(H[Len(H)]) \in 1..Len(H[Len(H)])
  <2>1. Len(H[Len(H)]) \in Nat /\ Len(H[Len(H)]) > 0
    BY <1>1 DEF Walks
  <2> QED
    BY <2>1
<1>3. H[Len(H)][Len(H[Len(H)])] = n /\ n \in Nat
  BY <1>1, <1>2, ElementOfSeq DEF Walks
<1> QED
  BY <1>1, <1>2, <1>3 DEF SeenIn

\* Walks stay walks if the edges to visited nodes are kept.
LEMMA WalksKept ==
  ASSUME NEW C, NEW H, NEW n, Walks(C, H, n),
         NEW D, \A u, v : Leads(C, u, v) /\ v \in SeenIn(H) => Leads(D, u, v)
  PROVE  Walks(D, H, n)
<1>1. ASSUME NEW e \in 1..Len(H), NEW i \in 1..(Len(H[e]) - 1)
      PROVE  Leads(D, H[e][i], H[e][i + 1])
  <2>1. H[e] \in Seq(Nat)
    BY DEF Walks
  <2>2. i + 1 \in 1..Len(H[e]) /\ H[e][i + 1] \in Nat
    BY <2>1
  <2>3. H[e][i + 1] \in SeenIn(H)
    BY <2>2 DEF SeenIn
  <2> QED
    BY <2>3 DEF Walks
<1> QED
  BY <1>1 DEF Walks

\* The last execution goes on to v.
Visited(H, v) == [H EXCEPT ![Len(H)] = Append(@, v)]

\* The histories stay walks, and v was visited now.
LEMMA WalkGoesOn ==
  ASSUME NEW C, NEW H, NEW n, Walks(C, H, n), Len(H) > 0, NEW v \in Nat, Leads(C, n, v)
  PROVE  /\ Walks(C, Visited(H, v), v)
         /\ Len(Visited(H, v)) = Len(H)
         /\ SeenIn(Visited(H, v)) = SeenIn(H) \cup {v}
         /\ v \in SeenIn(Visited(H, v))
<1> DEFINE l == Len(H)
           G == Visited(H, v)
           h == H[l]
<1>1. /\ H \in Seq(Seq(Nat)) /\ l \in Nat /\ l \in 1..l /\ h \in Seq(Nat)
      /\ Len(h) \in Nat /\ Len(h) > 0 /\ h[1] = 1 /\ h[Len(h)] = n
      /\ \A i \in 1..(Len(h) - 1) : Leads(C, h[i], h[i + 1])
  BY DEF Walks
<1>2. /\ Append(h, v) \in Seq(Nat) /\ Len(Append(h, v)) = Len(h) + 1
      /\ \A i \in 1..Len(h) : Append(h, v)[i] = h[i]
      /\ Append(h, v)[Len(h) + 1] = v
  BY <1>1
<1>3. /\ G \in Seq(Seq(Nat)) /\ Len(G) = l
      /\ G[l] = Append(h, v)
      /\ \A e \in 1..l : e # l => G[e] = H[e]
  BY <1>1, <1>2, ExceptSeq DEF Visited
<1> HIDE DEF G
<1>4. \A i \in 1..Len(h) : Leads(C, Append(h, v)[i], Append(h, v)[i + 1])
  <2> TAKE i \in 1..Len(h)
  <2>1. CASE i = Len(h)
    BY <1>1, <1>2, <2>1
  <2>2. CASE i # Len(h)
    <3>1. i \in 1..(Len(h) - 1) /\ i + 1 \in 1..Len(h)
      BY <1>1, <2>2
    <3> QED
      BY <1>1, <1>2, <3>1
  <2> QED
    BY <2>1, <2>2
<1>5. Append(h, v)[1] = 1
  BY <1>1, <1>2
<1>6. ASSUME NEW e \in 1..Len(G)
      PROVE  /\ Len(G[e]) > 0
             /\ G[e][1] = 1
             /\ \A i \in 1..(Len(G[e]) - 1) : Leads(C, G[e][i], G[e][i + 1])
  <2>1. CASE e = l
    <3> DEFINE A == Append(h, v)
    <3>1. G[e] = A /\ Len(A) - 1 = Len(h) /\ Len(A) > 0
      BY <1>1, <1>2, <1>3, <2>1
    <3>2. A[1] = 1 /\ \A i \in 1..Len(h) : Leads(C, A[i], A[i + 1])
      BY <1>4, <1>5
    <3> HIDE DEF A
    <3> QED
      BY ONLY <3>1, <3>2
  <2>2. CASE e # l
    BY <1>3, <1>6, <2>2 DEF Walks
  <2> QED
    BY <2>1, <2>2
<1>7. Walks(C, G, v)
  BY <1>1, <1>2, <1>3, <1>6 DEF Walks
<1>8. v \in SeenIn(G)
  BY <1>1, <1>3, <1>7, LastIsSeen
<1>9. ASSUME NEW m \in SeenIn(G) PROVE m \in SeenIn(H) \/ m = v
  <2>0. PICK e \in 1..l : \E i \in 1..Len(G[e]) : G[e][i] = m
    BY <1>3 DEF SeenIn
  <2>1. PICK i \in 1..Len(G[e]) : G[e][i] = m
    BY <2>0
  <2>2. CASE e # l
    BY <1>3, <2>1, <2>2 DEF SeenIn
  <2>3. CASE e = l
    <3>1. CASE i = Len(h) + 1
      BY <1>2, <1>3, <2>1, <2>3, <3>1
    <3>2. CASE i # Len(h) + 1
      <4>1. i \in 1..Len(h)
        BY <1>1, <1>2, <1>3, <2>3, <3>2
      <4> QED
        BY <1>1, <1>2, <1>3, <2>1, <2>3, <4>1 DEF SeenIn
    <3> QED
      BY <3>1, <3>2
  <2> QED
    BY <2>2, <2>3
<1>10. ASSUME NEW m \in SeenIn(H) PROVE m \in SeenIn(G)
  <2>0. PICK e \in 1..l : \E i \in 1..Len(H[e]) : H[e][i] = m
    BY DEF SeenIn
  <2>1. PICK i \in 1..Len(H[e]) : H[e][i] = m
    BY <2>0
  <2>2. CASE e # l
    BY <1>3, <2>1, <2>2 DEF SeenIn
  <2>3. CASE e = l
    <3>1. i \in 1..Len(Append(h, v)) /\ Append(h, v)[i] = m
      BY <1>1, <1>2, <2>1, <2>3
    <3> QED
      BY <1>1, <1>3, <3>1 DEF SeenIn
  <2> QED
    BY <2>2, <2>3
<1> QED
  BY <1>3, <1>7, <1>8, <1>9, <1>10 DEF G

\* An execution begins at the entry.
LEMMA WalkBegins ==
  ASSUME NEW C, NEW H, NEW n, Walks(C, H, n)
  PROVE  /\ Walks(C, Append(H, <<1>>), 1)
         /\ Len(Append(H, <<1>>)) = Len(H) + 1
         /\ SeenIn(Append(H, <<1>>)) = SeenIn(H) \cup {1}
<1> DEFINE G == Append(H, <<1>>)
<1>1. H \in Seq(Seq(Nat)) /\ Len(H) \in Nat
  BY DEF Walks
<1>2. /\ <<1>> \in Seq(Nat) /\ Len(<<1>>) = 1 /\ <<1>>[1] = 1
      /\ Len(<<1>>) - 1 = 0
  OBVIOUS
<1>3. /\ G \in Seq(Seq(Nat)) /\ Len(G) = Len(H) + 1
      /\ \A e \in 1..Len(H) : G[e] = H[e]
      /\ G[Len(H) + 1] = <<1>>
  BY <1>1, <1>2
<1> HIDE DEF G
<1>4. ASSUME NEW e \in 1..Len(G)
      PROVE  /\ Len(G[e]) > 0
             /\ G[e][1] = 1
             /\ \A i \in 1..(Len(G[e]) - 1) : Leads(C, G[e][i], G[e][i + 1])
  <2>1. CASE e = Len(H) + 1
    BY <1>2, <1>3, <2>1
  <2>2. CASE e # Len(H) + 1
    <3>1. e \in 1..Len(H)
      BY <1>1, <1>3, <2>2
    <3> QED
      BY <1>3, <3>1 DEF Walks
  <2> QED
    BY <2>1, <2>2
<1>5. G[Len(G)][Len(G[Len(G)])] = 1
  BY <1>2, <1>3
<1>6. Walks(C, G, 1)
  BY <1>3, <1>4, <1>5 DEF Walks
<1>7. ASSUME NEW m \in SeenIn(G) PROVE m \in SeenIn(H) \/ m = 1
  <2>0. PICK e \in 1..Len(G) : \E i \in 1..Len(G[e]) : G[e][i] = m
    BY DEF SeenIn
  <2>1. PICK i \in 1..Len(G[e]) : G[e][i] = m
    BY <2>0
  <2>2. CASE e = Len(H) + 1
    BY <1>2, <1>3, <2>1, <2>2
  <2>3. CASE e # Len(H) + 1
    <3>1. e \in 1..Len(H)
      BY <1>1, <1>3, <2>3
    <3> QED
      BY <1>3, <2>1, <3>1 DEF SeenIn
  <2> QED
    BY <2>2, <2>3
<1>8. ASSUME NEW m \in SeenIn(H) PROVE m \in SeenIn(G)
  <2>0. PICK e \in 1..Len(H) : \E i \in 1..Len(H[e]) : H[e][i] = m
    BY DEF SeenIn
  <2>1. PICK i \in 1..Len(H[e]) : H[e][i] = m
    BY <2>0
  <2>2. e \in 1..Len(G) /\ G[e] = H[e]
    BY <1>1, <1>3
  <2> QED
    BY <2>1, <2>2 DEF SeenIn
<1>9. 1 \in SeenIn(G)
  BY <1>1, <1>3, <1>6, LastIsSeen
<1> QED
  BY <1>3, <1>6, <1>7, <1>8, <1>9 DEF G

\* What an execution visited are nodes of the component.
LEMMA SeenAreNodes ==
  ASSUME NEW C, NEW f, GraphOK(C, f), NEW H, NEW n, Walks(C, H, n)
  PROVE  SeenIn(H) \subseteq C.nodes
<1> SUFFICES ASSUME NEW m \in SeenIn(H) PROVE m \in C.nodes
  OBVIOUS
<1>1. C.entry = 1 /\ C.entry \in C.nodes /\ \A u, v : Leads(C, u, v) => v \in C.nodes
  BY DEF GraphOK, Good, IsDigraph, Leads
<1>2. PICK e \in 1..Len(H) : \E i \in 1..Len(H[e]) : H[e][i] = m
  BY DEF SeenIn
<1>3. PICK i \in 1..Len(H[e]) : H[e][i] = m
  BY <1>2
<1>4. CASE i = 1
  BY <1>1, <1>3, <1>4 DEF Walks
<1>5. CASE i # 1
  <2>1. H[e] \in Seq(Nat) /\ Len(H[e]) \in Nat
    BY DEF Walks
  <2>2. i - 1 \in 1..(Len(H[e]) - 1) /\ (i - 1) + 1 = i
    BY <1>5, <2>1
  <2>3. Leads(C, H[e][i - 1], H[e][(i - 1) + 1])
    BY <2>2 DEF Walks
  <2> QED
    BY <1>1, <1>3, <2>2, <2>3
<1> QED
  BY <1>4, <1>5

-----------------------------------------------------------------------------
(***************************************************************************)
(* The first layer: the shape of what was recovered, and where the thread  *)
(* may be in it.                                                           *)
(***************************************************************************)
Seen == SeenIn(histories)

ShapeInv ==
  /\ image \in Images
  /\ GraphOK(comp, fresh)
  /\ cpu \in [node : comp.nodes, ip : Int, tmp : {0, 1}]
  /\ Walks(comp, histories, cpu.node)
  /\ JumpsOK(comp, switches, Seen)
  /\ SwitchesOK(comp, switches)
  /\ current > 0 => ThreadOK(switches, cpu.node, cpu.ip, cpu.tmp)

Ends == {"", "killed", "crashed", "stopped", "faulted", "timeout"}

RecordsInv ==
  /\ DOMAIN known \subseteq Seen
  /\ DOMAIN unexplored \subseteq comp.nodes
  /\ \A e \in visited : e \in DOMAIN comp.edges /\ e[2] \in Seen
  /\ branchings \in Seq(SUBSET Nat) /\ Len(branchings) = current
  /\ endings \in Seq(Ends) /\ Len(endings) = current
  /\ outcome \in {"", "done", "no goal", "not implemented", "timeout"}

\* The steps by which the thread goes on to v: along any edge but an indirect
\* jump, through an indirect jump to an address that has a case, and through one
\* to an address that gets its case now.
GoesOn(v) ==
  /\ Running
  /\ Leads(comp, cpu.node, v)
  /\ cpu'.node = v /\ cpu' \in [node : comp.nodes, ip : Int, tmp : {0, 1}]
  /\ Executes(Along(comp, cpu.node, v), cpu.ip, cpu.tmp, cpu'.ip, cpu'.tmp)
  /\ Visit(v)
  /\ unexplored' = Left
  /\ GoOnOrTimeOut
  /\ UNCHANGED <<image, program, known, switches, outcome>>

Jumped(v, ip) ==
  /\ Running
  /\ Jumps(comp, cpu.node, v)
  /\ ip \in DOMAIN image \cup {EntryPoint}
  /\ cpu' = [cpu EXCEPT !.node = v, !.ip = ip]
  /\ Visit(v)
  /\ GoOnOrTimeOut
  /\ UNCHANGED <<image, known, visited, branchings, outcome>>

EntersOld(v, ip) ==
  /\ Jumped(v, ip)
  /\ v \in DOMAIN switches /\ ip \in DOMAIN switches[v].cases
  /\ unexplored' = Left
  /\ UNCHANGED <<program, switches>>

EntersNew(v, ip, r) ==
  /\ Jumped(v, ip)
  /\ ip \notin DOMAIN InfoOf(switches, v).cases
  /\ AddedCase(comp, InfoOf(switches, v).default, ip, fresh, r)
  /\ comp' = r.comp /\ fresh' = r.fresh
  /\ switches' = Overlay(switches, [h \in {v} |-> WithCase(InfoOf(switches, v), ip, r)])
  /\ unexplored' = AddUnexplored(Without(Left, {r.erased}), ip, CaseExits(r))

\* The only instruction behind n is a STOP.
Halts(C, n) ==
  \E w : /\ Leads(C, n, w) /\ Along(C, n, w).gik = "STOP"
         /\ \A v : Leads(C, n, v) => v = w

\* The execution ends at a node without successors or at an instruction that
\* fails, or run returns between two executions, or nothing happens.
Dies ==
  /\ Running
  /\ \E how \in {"killed", "crashed", "stopped", "faulted"} :
       End(how) /\ (how = "stopped" => Halts(comp, cpu.node))
  /\ \/ /\ \A v : ~Leads(comp, cpu.node, v)
        /\ unexplored' = unexplored
     \/ /\ \E v : Leads(comp, cpu.node, v) /\ Along(comp, cpu.node, v).gik \in {"STOP", "DEREF"}
        /\ unexplored' = Left
  /\ outcome' = outcome

Returns ==
  /\ ~Running /\ outcome = ""
  /\ outcome' \in {"done", "no goal", "not implemented", "timeout"}
  /\ outcome' = "done" => DOMAIN unexplored = {}
  /\ UNCHANGED <<unexplored, endings>>

Rests ==
  /\ Dies \/ Returns \/ UNCHANGED <<unexplored, endings, outcome>>
  /\ UNCHANGED <<image, program, cpu, known, switches, visited, histories, branchings>>

\* What recognising an instruction does to the component.
Merges(F) ==
  /\ IsCodeOf(Instruction, fresh + 1, F)
  /\ Merged(comp, F.comp, comp', cpu.node, fresh)
  /\ Grafted(comp, comp', cpu.node, fresh, fresh', {})
  /\ WellFormed(comp', fresh)
  /\ ExitsReported(comp', fresh, OpenExits(F.comp))
  /\ unexplored' = AddUnexplored(unexplored, cpu.ip, OpenExits(F.comp))

\* The edges out of the thread's node.
LEMMA ThreadEdges ==
  ASSUME GraphOK(comp, fresh), cpu.node \in comp.nodes
  PROVE  /\ \A v : v \in comp.succ[cpu.node] <=> Leads(comp, cpu.node, v)
         /\ \A v : Leads(comp, cpu.node, v) => v \in comp.nodes
         /\ \A v : Out(v) = Along(comp, cpu.node, v)
BY DEF GraphOK, Good, IsDigraph, Leads, Along, Out

\* Recognising an instruction merges its code behind the thread's node.
LEMMA RecogniseMerges ==
  ASSUME ShapeInv, Recognise
  PROVE  Merges(Recognised(Instruction, fresh + 1))
<1> DEFINE F == Recognised(Instruction, fresh + 1)
           D == AppendByMerging(comp, F.comp, cpu.node)
<1>1. /\ Instruction.op \in Recognisable /\ comp' = D /\ fresh' = F.fresh
      /\ comp.succ[cpu.node] = {}
      /\ unexplored' = AddUnexplored(unexplored, cpu.ip, OpenExits(F.comp))
  BY DEF Recognise, AtUnknownCode
<1>2. Instruction.by \in Int
  <2>1. CASE cpu.ip \in DOMAIN image
    BY <2>1, RecoveryAssumption DEF ShapeInv, Instruction
  <2>2. CASE cpu.ip \notin DOMAIN image
    BY <2>2 DEF Instruction, Nowhere
  <2> QED
    BY <2>1, <2>2
<1>3. fresh \in Nat /\ fresh + 1 \in Nat \ {0} /\ Good(comp) /\ cpu.node \in comp.nodes
  BY DEF ShapeInv, GraphOK
<1>4. IsCodeOf(Instruction, fresh + 1, F)
  BY <1>1, <1>2, <1>3, RecognisedCode
<1> HIDE DEF F
<1>5. Piece(fresh + 1, F)
  BY <1>4 DEF IsCodeOf
<1>6. CanExtend(comp, fresh, cpu.node)
  BY <1>1, <1>3 DEF CanExtend, ShapeInv, GraphOK
<1>7. /\ Merged(comp, F.comp, D, cpu.node, fresh)
      /\ Good(D)
      /\ D.entry = comp.entry
  BY <1>5, <1>6, MergedEdges
<1> HIDE DEF D
<1>8. Grafted(comp, D, cpu.node, fresh, F.fresh, {}) /\ WellFormed(D, fresh)
  BY <1>5, <1>6, <1>7, MergedCode
<1>9. ExitsReported(D, fresh, OpenExits(F.comp))
  BY <1>5, <1>7, MergedExits
<1>10. Merges(F)
  BY <1>1, <1>4, <1>7, <1>8, <1>9 DEF Merges
<1> QED
  BY <1>10 DEF F

\* Of two edges out of the thread's node both carry guards.
LEMMA BranchesAreGuards ==
  ASSUME ShapeInv, NEW v, ExecuteBranching(v)
  PROVE  Leads(comp, cpu.node, v) /\ IsGuard(Along(comp, cpu.node, v))
<1>1. GraphOK(comp, fresh) /\ cpu.node \in comp.nodes
  BY DEF ShapeInv
<1>2. v \in comp.succ[cpu.node] /\ Cardinality(comp.succ[cpu.node]) = 2
  BY DEF ExecuteBranching
<1>3. PICK w \in comp.succ[cpu.node] : w # v
  <2>1. comp.succ[cpu.node] # {v}
    <3>1. Cardinality({v}) = 1
      BY FS_Singleton
    <3> QED
      BY <1>2, <3>1
  <2> QED
    BY <1>2, <2>1
<1>4. Leads(comp, cpu.node, v) /\ Leads(comp, cpu.node, w)
  BY <1>1, <1>2, <1>3, ThreadEdges
<1> QED
  BY <1>1, <1>3, <1>4 DEF GraphOK

\* Executing an instruction and taking a branch are steps along an edge.
LEMMA ExecuteGoesOn ==
  ASSUME ShapeInv, NEW v, Execute(v)
  PROVE  GoesOn(v) /\ UNCHANGED <<visited, branchings>>
<1> DEFINE I == Along(comp, cpu.node, v)
<1>1. /\ GraphOK(comp, fresh) /\ cpu.node \in comp.nodes
      /\ cpu \in [node : comp.nodes, ip : Int, tmp : {0, 1}]
  BY DEF ShapeInv
<1>2. /\ Running /\ comp.succ[cpu.node] = {v}
      /\ Out(v).gik \in {"IPADD", "XOR", "HAVOC", "SET", "DEREF"}
      /\ cpu' = [Effect(Out(v)) EXCEPT !.node = v]
  BY DEF Execute, OnlyEdge
<1>3. Leads(comp, cpu.node, v) /\ v \in comp.nodes /\ Out(v) = I
  BY <1>1, <1>2, ThreadEdges
<1>4. I.gik = "IPADD" => I.arg \in Int
  BY <1>1, <1>3 DEF GraphOK
<1> HIDE DEF I
<1>5. /\ cpu'.node = v
      /\ cpu'.ip = cpu.ip + Adds(I)
      /\ cpu'.tmp = IF I.gik = "XOR" THEN (IF cpu.ip = I.arg THEN 0 ELSE 1) ELSE cpu.tmp
      /\ cpu' \in [node : comp.nodes, ip : Int, tmp : {0, 1}]
  <2>1. CASE I.gik = "IPADD"
    <3>1. Effect(I) = [cpu EXCEPT !.ip = @ + I.arg] /\ Adds(I) = I.arg /\ I.gik # "XOR"
      BY <2>1 DEF Effect, Adds
    <3>2. cpu.ip + I.arg \in Int
      BY <1>1, <1>4, <2>1
    <3>3. Effect(I).ip = cpu.ip + I.arg /\ Effect(I).tmp = cpu.tmp /\ Effect(I).node = cpu.node
      BY <1>1, <3>1
    <3>4. Effect(I) \in [node : comp.nodes, ip : Int, tmp : {0, 1}]
      BY <1>1, <3>1, <3>2
    <3> QED
      BY <1>2, <1>3, <3>1, <3>3, <3>4
  <2>2. CASE I.gik = "XOR"
    <3>1. /\ Effect(I) = [cpu EXCEPT !.tmp = IF cpu.ip = I.arg THEN 0 ELSE 1]
          /\ Adds(I) = 0
      BY <2>2 DEF Effect, Adds
    <3>2. /\ Effect(I).ip = cpu.ip + 0 /\ Effect(I).node = cpu.node
          /\ Effect(I).tmp = IF cpu.ip = I.arg THEN 0 ELSE 1
      BY <1>1, <3>1
    <3>3. Effect(I) \in [node : comp.nodes, ip : Int, tmp : {0, 1}]
      BY <1>1, <3>1
    <3> QED
      BY <1>2, <1>3, <2>2, <3>1, <3>2, <3>3
  <2>3. CASE I.gik # "IPADD" /\ I.gik # "XOR"
    BY <1>1, <1>2, <1>3, <2>3 DEF Effect, Adds
  <2> QED
    BY <2>1, <2>2, <2>3
<1>6. ~IsSwitchInstruction(I) /\ ~IsGuard(I)
  BY <1>2, <1>3 DEF IsSwitchInstruction, IsGuard
<1>7. Executes(I, cpu.ip, cpu.tmp, cpu'.ip, cpu'.tmp)
  BY <1>5, <1>6 DEF Executes
<1> QED
  BY <1>2, <1>3, <1>5, <1>7 DEF GoesOn, Execute, I

\* Taking a branch is a step along its edge.
LEMMA BranchGoesOn ==
  ASSUME ShapeInv, NEW v, ExecuteBranching(v)
  PROVE  GoesOn(v)
<1> DEFINE I == Along(comp, cpu.node, v)
<1>1. /\ GraphOK(comp, fresh) /\ cpu.node \in comp.nodes
      /\ cpu \in [node : comp.nodes, ip : Int, tmp : {0, 1}]
  BY DEF ShapeInv
<1>2. Leads(comp, cpu.node, v) /\ v \in comp.nodes /\ Out(v) = I /\ IsGuard(I)
  BY <1>1, BranchesAreGuards, ThreadEdges
<1> HIDE DEF I
<1>3. /\ cpu'.node = v /\ cpu'.ip = cpu.ip /\ cpu'.tmp = cpu.tmp
      /\ cpu' \in [node : comp.nodes, ip : Int, tmp : {0, 1}]
  BY <1>1, <1>2 DEF ExecuteBranching
<1>4. /\ I.gik # "IPADD" /\ I.gik # "XOR" /\ ~IsSwitchInstruction(I)
      /\ Adds(I) = 0
  BY <1>2 DEF IsGuard, IsSwitchInstruction, Adds
<1>5. I.arg = "tmp" => (cpu.tmp = 0 <=> I.gik = "EQ")
  <2>1. TRUE \in Holds(I)
    BY <1>2 DEF ExecuteBranching
  <2> QED
    BY <2>1 DEF Holds
<1>6. cpu'.ip = cpu.ip + 0
  BY <1>1, <1>3
<1>7. Executes(I, cpu.ip, cpu.tmp, cpu'.ip, cpu'.tmp)
  BY <1>3, <1>4, <1>5, <1>6 DEF Executes
<1> QED
  BY <1>2, <1>3, <1>7 DEF GoesOn, ExecuteBranching, I

\* What an indirect jump does.
LEMMA SwitchEnters ==
  ASSUME ShapeInv, NEW v, ExecuteSwitch(v)
  PROVE  \E ip : EntersOld(v, ip) \/ \E r : EntersNew(v, ip, r)
<1>1. GraphOK(comp, fresh) /\ cpu.node \in comp.nodes
  BY DEF ShapeInv
<1>2. Running /\ Jumps(comp, cpu.node, v)
  BY <1>1, ThreadEdges DEF ExecuteSwitch, OnlyEdge, Jumps
<1> DEFINE info == InfoOf(switches, v)
<1>3. info = IF v \in DOMAIN switches THEN switches[v] ELSE NewSwitch(v)
  BY DEF InfoOf
<1>4. CanHang(comp, fresh, info)
  BY <1>1, <1>2, HeadHangs DEF ShapeInv
<1>5. PICK ip \in DOMAIN image \cup {EntryPoint} :
        LET r == AddCase(comp, info, ip, fresh)
            new == ip \notin DOMAIN info.cases
        IN  /\ new => r.fresh <= MaxNode
            /\ cpu' = [cpu EXCEPT !.node = v, !.ip = ip]
            /\ comp' = IF new THEN r.comp ELSE comp
            /\ fresh' = IF new THEN r.fresh ELSE fresh
            /\ switches' =
                 IF new THEN Overlay(switches, [h \in {v} |-> WithCase(info, ip, r)])
                 ELSE switches
            /\ unexplored' =
                 IF new THEN AddUnexplored(Without(Left, {r.erased}), ip, CaseExits(r))
                 ELSE Left
  BY <1>3 DEF ExecuteSwitch
<1> DEFINE r == AddCase(comp, info, ip, fresh)
<1>6. Jumped(v, ip)
  BY <1>2, <1>5 DEF Jumped, ExecuteSwitch
<1>7. AddedCase(comp, info.default, ip, fresh, r)
  BY <1>4, CaseIsAdded
<1> HIDE DEF r
<1>8. CASE ip \notin DOMAIN info.cases
  <2>1. EntersNew(v, ip, r)
    BY <1>5, <1>6, <1>7, <1>8 DEF EntersNew, r
  <2> QED
    BY <2>1
<1>9. CASE ip \in DOMAIN info.cases
  <2>1. v \in DOMAIN switches
    BY <1>3, <1>9 DEF NewSwitch
  <2>2. EntersOld(v, ip)
    BY <1>3, <1>5, <1>6, <1>9, <2>1 DEF EntersOld, program
  <2> QED
    BY <2>2
<1> QED
  BY <1>8, <1>9

\* What ends an execution, and what makes run return.
LEMMA EndsAreRests ==
  ASSUME ShapeInv
  PROVE  /\ Kill \/ Crash => Rests
         /\ \A v : Fail(v) => Rests
         /\ Done => Rests
         /\ \A x : NoGoal(x) => Rests
<1>1. GraphOK(comp, fresh) /\ cpu.node \in comp.nodes
  BY DEF ShapeInv
<1>2. /\ \A v : v \in comp.succ[cpu.node] <=> Leads(comp, cpu.node, v)
      /\ \A v : Out(v) = Along(comp, cpu.node, v)
  BY <1>1, ThreadEdges
<1>3. Kill \/ Crash => Dies
  BY <1>2 DEF Kill, Crash, AtUnknownCode, Dies, records
<1>4. ASSUME NEW v, Fail(v) PROVE Dies
  <2>1. /\ Running /\ outcome' = outcome /\ unexplored' = Left
        /\ Leads(comp, cpu.node, v) /\ \A w : Leads(comp, cpu.node, w) => w = v
        /\ \/ Along(comp, cpu.node, v).gik = "STOP" /\ End("stopped")
           \/ Along(comp, cpu.node, v).gik = "DEREF" /\ End("faulted")
    BY <1>2, <1>4 DEF Fail, OnlyEdge
  <2> QED
    BY <2>1 DEF Dies, Halts
<1>5. Searching => ~Running
  BY DEF Searching, Running
<1>6. ASSUME NEW message \in {"done", "no goal", "not implemented", "timeout"},
             Return(message), ~Running, outcome = "",
             message = "done" => DOMAIN unexplored = {}
      PROVE  Returns
  BY <1>6 DEF Return, Returns, records
<1>7. Done => Returns
  BY <1>5, <1>6 DEF Done, Searching
<1>8. ASSUME NEW x, NoGoal(x) PROVE Returns
  BY <1>5, <1>6, <1>8 DEF NoGoal, Searching
<1>9. Kill \/ Crash => UNCHANGED <<image, program, cpu, known, switches, visited, histories, branchings>>
  BY DEF Kill, Crash, records
<1>10. \A v : Fail(v) => UNCHANGED <<image, program, cpu, known, switches, visited, histories, branchings>>
  BY DEF Fail
<1>11. /\ Done => UNCHANGED <<image, program, cpu, known, switches, visited, histories, branchings>>
       /\ \A x : NoGoal(x) => UNCHANGED <<image, program, cpu, known, switches, visited, histories, branchings>>
  BY DEF Done, NoGoal, Return, records
<1> QED
  BY <1>3, <1>4, <1>7, <1>8, <1>9, <1>10, <1>11 DEF Rests

\* An execution begins when none is under way.
LEMMA BeginsOrRests ==
  ASSUME Start \/ \E x : NextExecution(x)
  PROVE  \/ Begin /\ ~Running /\ outcome = "" /\ (current = 0 \/ ~TimeIsUp)
         \/ Rests
<1>1. ASSUME Return("timeout") \/ Return("not implemented"), ~Running, outcome = ""
      PROVE  Rests
  BY <1>1 DEF Return, Rests, Returns, records
<1>2. CASE Start
  <2>1. current = 0 /\ outcome = "" /\ (Begin \/ Return("timeout"))
    BY <1>2 DEF Start
  <2>2. ~Running
    <3>1. current = 0
      BY <2>1
    <3> QED
      BY ONLY <3>1 DEF Running
  <2>3. CASE Begin
    BY <2>1, <2>2, <2>3
  <2>4. CASE Return("timeout")
    BY <1>1, <2>1, <2>2, <2>4
  <2> QED
    BY <2>1, <2>3, <2>4
<1>3. ASSUME NEW x, NextExecution(x)
      PROVE  \/ Begin /\ ~Running /\ outcome = "" /\ (current = 0 \/ ~TimeIsUp)
             \/ Rests
  BY <1>1, <1>3 DEF NextExecution, Searching, Running
<1> QED
  BY <1>2, <1>3

\* The kinds of steps there are.
LEMMA NextCases ==
  ASSUME ShapeInv, [Next]_vars
  PROVE  \/ Begin /\ ~Running /\ outcome = "" /\ (current = 0 \/ ~TimeIsUp)
         \/ Recognise
         \/ \E v : GoesOn(v) /\ (Execute(v) \/ ExecuteBranching(v))
         \/ \E v, ip : EntersOld(v, ip) \/ \E r : EntersNew(v, ip, r)
         \/ Rests
<1>1. ASSUME NEW v \in comp.nodes, Step(v)
      PROVE  \/ GoesOn(v) /\ (Execute(v) \/ ExecuteBranching(v))
             \/ \E ip : EntersOld(v, ip) \/ \E r : EntersNew(v, ip, r)
             \/ Rests
  BY <1>1, EndsAreRests, ExecuteGoesOn, BranchGoesOn, SwitchEnters DEF Step
<1>2. CASE UNCHANGED vars
  BY <1>2 DEF vars, records, Rests
<1> QED
  BY <1>1, <1>2, EndsAreRests, BeginsOrRests DEF Next

-----------------------------------------------------------------------------
\* An execution begins: nothing but the thread moves.
LEMMA BeginKeepsShape ==
  ASSUME ShapeInv, Begin
  PROVE  ShapeInv'
<1>1. /\ GraphOK(comp, fresh) /\ SwitchesOK(comp, switches)
      /\ JumpsOK(comp, switches, Seen)
      /\ Walks(comp, histories, cpu.node)
      /\ comp.entry = 1 /\ 1 \in comp.nodes
  BY DEF ShapeInv, GraphOK, Good
<1>2. /\ cpu' = [node |-> 1, ip |-> EntryPoint, tmp |-> 1]
      /\ histories' = Append(histories, <<1>>)
      /\ image' = image /\ comp' = comp /\ fresh' = fresh /\ switches' = switches
  BY <1>1 DEF Begin, program
<1>3. /\ Walks(comp, histories', 1)
      /\ Seen' = Seen \cup {1}
  BY <1>1, <1>2, WalkBegins DEF Seen
<1>4. JumpsOK(comp, switches, Seen')
  <2>1. \A u, w : Jumps(comp, u, w) => w # 1 /\ \A t : Leads(comp, w, t) => t # 1
    BY <1>1 DEF GraphOK, Jumps
  <2> QED
    BY <1>1, <1>3, <2>1 DEF JumpsOK
<1>5. ThreadOK(switches, 1, EntryPoint, 1)
  BY <1>1, ThreadBegins
<1>6. cpu' \in [node : comp.nodes, ip : Int, tmp : {0, 1}]
  BY <1>1, <1>2, RecoveryAssumption
<1>7. image \in Images
  BY DEF ShapeInv
<1> QED
  BY <1>1, <1>2, <1>3, <1>4, <1>5, <1>6, <1>7 DEF ShapeInv

\* The thread goes on along an edge.
LEMMA GoingOnKeepsShape ==
  ASSUME ShapeInv, NEW v, GoesOn(v)
  PROVE  ShapeInv' /\ Seen' = Seen \cup {v} /\ Len(histories') = current
<1>1. /\ GraphOK(comp, fresh) /\ SwitchesOK(comp, switches)
      /\ JumpsOK(comp, switches, Seen)
      /\ Walks(comp, histories, cpu.node)
      /\ cpu.ip \in Int /\ current > 0
      /\ ThreadOK(switches, cpu.node, cpu.ip, cpu.tmp)
  BY DEF ShapeInv, GoesOn, Running
<1>2. /\ Leads(comp, cpu.node, v) /\ cpu'.node = v
      /\ cpu' \in [node : comp.nodes, ip : Int, tmp : {0, 1}]
      /\ Executes(Along(comp, cpu.node, v), cpu.ip, cpu.tmp, cpu'.ip, cpu'.tmp)
      /\ histories' = Visited(histories, v)
      /\ image' = image /\ comp' = comp /\ fresh' = fresh /\ switches' = switches
  BY DEF GoesOn, Visit, Visited, program, current
<1>3. v \in Nat /\ cpu.node \in Seen
  <2>1. v \in comp.nodes /\ \A n \in comp.nodes : n \in Nat
    BY <1>1, <1>2 DEF GraphOK
  <2> QED
    BY <1>1, <2>1, LastIsSeen DEF Seen, current
<1>4. /\ Walks(comp, histories', v)
      /\ Len(histories') = current
      /\ Seen' = Seen \cup {v}
  BY <1>1, <1>2, <1>3, WalkGoesOn DEF Seen, current
<1>5. JumpsOK(comp, switches, Seen')
  <2>1. ~Jumps(comp, cpu.node, v)
    BY <1>2 DEF Executes, Jumps
  <2> QED
    BY <1>1, <1>2, <1>3, <1>4, <2>1, JumpsVisited
<1>6. ThreadOK(switches, v, cpu'.ip, cpu'.tmp)
  BY <1>1, <1>2, ThreadGoesOn
<1>7. image \in Images
  BY DEF ShapeInv
<1> QED
  BY <1>1, <1>2, <1>4, <1>5, <1>6, <1>7 DEF ShapeInv

\* Recognised code is merged behind the thread.
LEMMA RecognisingKeepsShape ==
  ASSUME ShapeInv, Recognise
  PROVE  ShapeInv'
<1>1. /\ GraphOK(comp, fresh) /\ SwitchesOK(comp, switches)
      /\ JumpsOK(comp, switches, Seen)
      /\ Walks(comp, histories, cpu.node)
      /\ current > 0
      /\ ThreadOK(switches, cpu.node, cpu.ip, cpu.tmp)
      /\ cpu \in [node : comp.nodes, ip : Int, tmp : {0, 1}]
      /\ image \in Images
  BY DEF ShapeInv, Recognise, AtUnknownCode, Running
<1>2. UNCHANGED <<image, cpu, switches, histories>>
  BY DEF Recognise
<1>3. /\ Grafted(comp, comp', cpu.node, fresh, fresh', {})
      /\ WellFormed(comp', fresh)
  BY RecogniseMerges DEF Merges
<1>4. GraphOK(comp', fresh')
  BY <1>1, <1>3, GraftGraph
<1>5. /\ cpu.node \in Seen
      /\ Seen \subseteq comp.nodes
      /\ Seen' = Seen
  BY <1>1, <1>2, LastIsSeen, SeenAreNodes DEF Seen, current
<1>6. JumpsOK(comp', switches, Seen)
  BY <1>1, <1>3, <1>5, JumpsMerged
<1>7. SwitchesOK(comp', switches)
  <2>1. \A h \in DOMAIN switches : switches[h].default # cpu.node
    BY <1>1, ThreadNotAtDefault
  <2> QED
    BY <1>1, <1>3, <2>1, SwitchesAreKept
<1>8. /\ \A u, v : Leads(comp, u, v) => Leads(comp', u, v)
      /\ comp.nodes \subseteq comp'.nodes
  BY <1>3 DEF Grafted
<1>9. Walks(comp', histories, cpu.node)
  BY <1>1, <1>8, WalksKept
<1>10. cpu \in [node : comp'.nodes, ip : Int, tmp : {0, 1}]
  BY <1>1, <1>8
<1> QED
  BY <1>1, <1>2, <1>4, <1>5, <1>6, <1>7, <1>9, <1>10 DEF ShapeInv

\* The thread goes through an indirect jump to an address that has a case.
LEMMA EnteringOldKeepsShape ==
  ASSUME ShapeInv, NEW v, NEW ip, EntersOld(v, ip)
  PROVE  ShapeInv' /\ Seen' = Seen \cup {v} /\ Len(histories') = current
<1>1. /\ GraphOK(comp, fresh) /\ SwitchesOK(comp, switches)
      /\ JumpsOK(comp, switches, Seen)
      /\ Walks(comp, histories, cpu.node)
      /\ current > 0
      /\ cpu \in [node : comp.nodes, ip : Int, tmp : {0, 1}]
      /\ image \in Images
  BY DEF ShapeInv, EntersOld, Jumped, Running
<1>2. /\ Jumps(comp, cpu.node, v) /\ Leads(comp, cpu.node, v)
      /\ cpu' = [cpu EXCEPT !.node = v, !.ip = ip]
      /\ ip \in Int
      /\ histories' = Visited(histories, v)
      /\ v \in DOMAIN switches /\ ip \in DOMAIN switches[v].cases
      /\ image' = image /\ comp' = comp /\ fresh' = fresh /\ switches' = switches
  <2>1. \A a \in DOMAIN image \cup {EntryPoint} : a \in Int
    BY <1>1, RecoveryAssumption
  <2> QED
    BY <2>1 DEF EntersOld, Jumped, Jumps, Visit, Visited, program, current
<1>3. v \in Nat /\ v \in comp.nodes /\ cpu.node \in Seen
  <2>1. v \in comp.nodes /\ \A n \in comp.nodes : n \in Nat
    BY <1>1, <1>2 DEF GraphOK, Good, IsDigraph, Leads
  <2> QED
    BY <1>1, <2>1, LastIsSeen DEF Seen, current
<1>4. /\ Walks(comp, histories', v)
      /\ Len(histories') = current
      /\ Seen' = Seen \cup {v}
  BY <1>1, <1>2, <1>3, WalkGoesOn DEF Seen, current
<1>5. JumpsOK(comp, switches, Seen')
  BY <1>1, <1>2, <1>3, <1>4, JumpsVisited
<1>6. ThreadOK(switches, v, ip, cpu.tmp)
  BY <1>1, <1>2, ThreadEnters
<1>7. /\ cpu'.node = v /\ cpu'.ip = ip /\ cpu'.tmp = cpu.tmp
      /\ cpu' \in [node : comp.nodes, ip : Int, tmp : {0, 1}]
  BY <1>1, <1>2, <1>3
<1> QED
  BY <1>1, <1>2, <1>4, <1>5, <1>6, <1>7 DEF ShapeInv

\* A new case is grafted onto the default of the switch; what is erased there was
\* not visited.
Erased(v) == After(comp, InfoOf(switches, v).default)

\* Entering a new case grafts it onto the default of the switch.
LEMMA NewCaseIsGrafted ==
  ASSUME ShapeInv, NEW v, NEW ip, NEW r, EntersNew(v, ip, r)
  PROVE  /\ Grafted(comp, comp', InfoOf(switches, v).default, fresh, fresh', Erased(v))
         /\ fresh' = fresh + 4
         /\ WellFormed(comp', fresh)
         /\ ErasedOK(comp, InfoOf(switches, v).default, Erased(v))
         /\ \A t \in Erased(v) : /\ t \notin Seen /\ t # v /\ v \notin DOMAIN switches
                                 /\ Leads(comp, v, t) /\ t \in comp.nodes
         /\ Leads(comp', cpu.node, v)
         /\ DOMAIN switches' = DOMAIN switches \cup {v}
         /\ switches'[v] = WithCase(InfoOf(switches, v), ip, r)
         /\ HasCase(switches'[v], InfoOf(switches, v), ip, r)
         /\ \A k \in DOMAIN switches : k # v => switches'[k] = switches[k]
<1> DEFINE info == InfoOf(switches, v)
           T == Erased(v)
<1>1. /\ GraphOK(comp, fresh) /\ SwitchesOK(comp, switches)
      /\ JumpsOK(comp, switches, Seen)
      /\ fresh \in Nat
  BY DEF ShapeInv, GraphOK
<1>2. /\ Jumps(comp, cpu.node, v)
      /\ AddedCase(comp, info.default, ip, fresh, r)
      /\ comp' = r.comp /\ fresh' = r.fresh
      /\ switches' = Overlay(switches, [h \in {v} |-> WithCase(info, ip, r)])
  BY DEF EntersNew, Jumped
<1>3. /\ Grafted(comp, comp', info.default, fresh, fresh + 4, T)
      /\ fresh' = fresh + 4
  BY <1>2 DEF AddedCase, Erased
<1>4. WellFormed(comp', fresh)
  BY <1>1, <1>2, CaseWellFormed
<1>5. /\ ErasedOK(comp, info.default, T)
      /\ CanHang(comp, fresh, info)
  BY <1>1, <1>2, HeadHangs DEF Erased
<1>6. ASSUME NEW t \in T
      PROVE  /\ t \notin Seen /\ t # v /\ v \notin DOMAIN switches
             /\ Leads(comp, v, t) /\ t \in comp.nodes
  <2>1. Leads(comp, info.default, t) /\ t \in comp.nodes
    BY DEF Erased, After
  <2>2. v \notin DOMAIN switches
    <3> SUFFICES ASSUME v \in DOMAIN switches PROVE FALSE
      OBVIOUS
    <3>1. SwitchOK(comp, v, info)
      BY <1>1 DEF SwitchesOK, InfoOf
    <3> QED
      BY <2>1, <3>1 DEF SwitchOK
  <2>3. info.default = v
    BY <2>2 DEF InfoOf, NewSwitch
  <2>4. StandsAlone(comp, cpu.node, v) /\ t \notin Seen
    BY <1>1, <1>2, <2>1, <2>2, <2>3 DEF JumpsOK
  <2>5. t # v
    BY <2>1, <2>3, <2>4 DEF StandsAlone
  <2> QED
    BY <2>1, <2>2, <2>3, <2>4, <2>5
<1>7. Leads(comp', cpu.node, v)
  <2>1. v \notin T
    BY <1>6
  <2> QED
    BY <1>2, <1>3, <2>1 DEF Grafted, Jumps
<1>8. /\ DOMAIN switches' = DOMAIN switches \cup {v}
      /\ switches'[v] = WithCase(info, ip, r)
      /\ \A k \in DOMAIN switches : k # v => switches'[k] = switches[k]
  BY <1>2 DEF Overlay
<1>9. HasCase(switches'[v], info, ip, r)
  BY <1>8, CasesWith
<1> QED
  BY <1>3, <1>4, <1>5, <1>6, <1>7, <1>8, <1>9

\* The case goes into the switch behind the indirect jump, which stays.
LEMMA CaseEnters ==
  ASSUME ShapeInv, NEW v, NEW ip, NEW r, EntersNew(v, ip, r)
  PROVE  /\ CaseGoesIn(comp, fresh, switches, Seen, cpu.node, v, ip, r, switches')
         /\ ip \in Int /\ comp' = r.comp
         /\ Jumps(comp', cpu.node, v)
<1>1. /\ GraphOK(comp, fresh) /\ SwitchesOK(comp, switches)
      /\ JumpsOK(comp, switches, Seen)
      /\ Walks(comp, histories, cpu.node)
      /\ image \in Images
  BY DEF ShapeInv
<1>2. /\ Jumps(comp, cpu.node, v)
      /\ ip \in Int /\ ip \notin DOMAIN InfoOf(switches, v).cases
      /\ comp' = r.comp
      /\ AddedCase(comp, InfoOf(switches, v).default, ip, fresh, r)
  <2>1. \A a \in DOMAIN image \cup {EntryPoint} : a \in Int
    BY <1>1, RecoveryAssumption
  <2> QED
    BY <2>1 DEF EntersNew, Jumped
<1>3. /\ Grafted(comp, comp', InfoOf(switches, v).default, fresh, fresh', Erased(v))
      /\ \A t \in Erased(v) : t # v
      /\ Leads(comp', cpu.node, v)
      /\ DOMAIN switches' = DOMAIN switches \cup {v}
      /\ switches'[v] = WithCase(InfoOf(switches, v), ip, r)
      /\ \A k \in DOMAIN switches : k # v => switches'[k] = switches[k]
  BY NewCaseIsGrafted, ZenonT(60)
<1>4. Seen \subseteq comp.nodes
  BY <1>1, SeenAreNodes DEF Seen
<1>5. CaseGoesIn(comp, fresh, switches, Seen, cpu.node, v, ip, r, switches')
  BY <1>1, <1>2, <1>3, <1>4 DEF CaseGoesIn
<1>6. Jumps(comp', cpu.node, v)
  <2>1. v \notin Erased(v)
    BY <1>3
  <2>2. Along(comp', cpu.node, v) = Along(comp, cpu.node, v)
    BY <1>2, <1>3, <2>1 DEF Grafted, Jumps
  <2> QED
    BY <1>2, <1>3, <2>2 DEF Jumps
<1> QED
  BY <1>2, <1>5, <1>6

\* The thread goes through an indirect jump to an address that gets its case.
LEMMA EnteringNewKeepsShape ==
  ASSUME ShapeInv, NEW v, NEW ip, NEW r, EntersNew(v, ip, r)
  PROVE  ShapeInv' /\ Seen' = Seen \cup {v} /\ Len(histories') = current
<1> DEFINE info == InfoOf(switches, v)
           T == Erased(v)
<1>1. /\ GraphOK(comp, fresh) /\ SwitchesOK(comp, switches)
      /\ JumpsOK(comp, switches, Seen)
      /\ Walks(comp, histories, cpu.node)
      /\ current > 0
      /\ cpu \in [node : comp.nodes, ip : Int, tmp : {0, 1}]
      /\ image \in Images
  BY DEF ShapeInv, EntersNew, Jumped, Running
<1>2. /\ Jumps(comp, cpu.node, v) /\ Leads(comp, cpu.node, v)
      /\ cpu' = [cpu EXCEPT !.node = v, !.ip = ip]
      /\ ip \in Int /\ ip \notin DOMAIN info.cases
      /\ histories' = Visited(histories, v)
      /\ image' = image /\ comp' = r.comp
      /\ AddedCase(comp, info.default, ip, fresh, r)
      /\ switches' = Overlay(switches, [h \in {v} |-> WithCase(info, ip, r)])
  <2>1. \A a \in DOMAIN image \cup {EntryPoint} : a \in Int
    BY <1>1, RecoveryAssumption
  <2> QED
    BY <2>1 DEF EntersNew, Jumped, Jumps, Visit, Visited, current
<1>3. /\ Grafted(comp, comp', info.default, fresh, fresh', T)
      /\ WellFormed(comp', fresh)
      /\ ErasedOK(comp, info.default, T)
      /\ \A t \in T : t \notin Seen /\ t # v
      /\ Leads(comp', cpu.node, v)
      /\ DOMAIN switches' = DOMAIN switches \cup {v}
      /\ switches'[v] = WithCase(info, ip, r)
      /\ HasCase(switches'[v], info, ip, r)
      /\ \A k \in DOMAIN switches : k # v => switches'[k] = switches[k]
  BY NewCaseIsGrafted, ZenonT(60)
<1> HIDE DEF T, info
<1>4. GraphOK(comp', fresh')
  BY <1>1, <1>3, GraftGraph
<1>5. /\ cpu.node \in Seen
      /\ Seen \subseteq comp.nodes
  BY <1>1, LastIsSeen, SeenAreNodes DEF Seen, current
<1>6. v \in comp'.nodes /\ v \in Nat
  BY <1>3, <1>4 DEF GraphOK, Good, IsDigraph, Leads
<1>7. Walks(comp', histories, cpu.node)
  <2>1. \A a, b : Leads(comp, a, b) /\ b \in Seen => Leads(comp', a, b)
    BY <1>3 DEF Grafted
  <2> QED
    BY <1>1, <2>1, WalksKept DEF Seen
<1>8. /\ Walks(comp', histories', v)
      /\ Len(histories') = current
      /\ Seen' = Seen \cup {v}
  BY <1>1, <1>2, <1>3, <1>6, <1>7, WalkGoesOn DEF Seen, current
<1>9. /\ CaseGoesIn(comp, fresh, switches, Seen, cpu.node, v, ip, r, switches')
      /\ Jumps(comp', cpu.node, v)
  BY CaseEnters
<1>10. SwitchesOK(comp', switches') /\ JumpsOK(comp', switches', Seen)
  <2>1. SwitchesOK(r.comp, switches') /\ JumpsOK(r.comp, switches', Seen)
    BY <1>9, CaseIsIn
  <2> QED
    BY <1>2, <2>1
<1>11. JumpsOK(comp', switches', Seen')
  BY <1>3, <1>5, <1>8, <1>10, JumpsVisited
<1>12. ThreadOK(switches', v, ip, cpu.tmp)
  BY <1>3, <1>4, <1>9, <1>10, ThreadEnters DEF HasCase
<1>13. /\ cpu'.node = v /\ cpu'.ip = ip /\ cpu'.tmp = cpu.tmp
       /\ cpu' \in [node : comp'.nodes, ip : Int, tmp : {0, 1}]
  BY <1>1, <1>2, <1>6
<1> QED
  BY <1>1, <1>2, <1>4, <1>8, <1>10, <1>11, <1>12, <1>13 DEF ShapeInv

\* Every step keeps the shape.
LEMMA StepKeepsShape ==
  ASSUME ShapeInv, [Next]_vars
  PROVE  ShapeInv'
<1>1. CASE Rests
  <2>1. UNCHANGED <<image, comp, fresh, cpu, switches, histories>>
    BY <1>1 DEF Rests, program
  <2> QED
    BY <2>1 DEF ShapeInv, Seen, current
<1> QED
  BY <1>1, NextCases, BeginKeepsShape, RecognisingKeepsShape, GoingOnKeepsShape,
     EnteringOldKeepsShape, EnteringNewKeepsShape

-----------------------------------------------------------------------------
\* The initial component is one node.
LEMMA ShapeInitially ==
  ASSUME Init
  PROVE  ShapeInv
<1>1. /\ image \in Images /\ comp = NewComponent(1) /\ fresh = 1
      /\ cpu = [node |-> 1, ip |-> EntryPoint, tmp |-> 1]
      /\ switches = << >> /\ histories = << >>
  BY DEF Init
<1>2. /\ Good(comp) /\ comp.nodes = {1} /\ comp.entry = 1
      /\ \A u, v : ~Leads(comp, u, v)
  <2>1. Good(NewComponent(1))
    BY NewComponentGood
  <2> QED
    BY <1>1, <2>1, NewComponentEmpty DEF NewComponent, Leads
<1>3. GraphOK(comp, fresh)
  BY <1>1, <1>2 DEF GraphOK
<1>4. Walks(comp, histories, cpu.node) /\ current = 0
  BY <1>1 DEF Walks, current
<1>5. JumpsOK(comp, switches, Seen)
  BY <1>2 DEF JumpsOK, Jumps
<1>6. SwitchesOK(comp, switches)
  BY <1>1 DEF SwitchesOK
<1>7. cpu \in [node : comp.nodes, ip : Int, tmp : {0, 1}]
  BY <1>1, <1>2, RecoveryAssumption
<1> QED
  BY <1>1, <1>3, <1>4, <1>5, <1>6, <1>7 DEF ShapeInv

\* The shape is an invariant.
THEOREM ShapeHolds == Spec => []ShapeInv
<1>1. Init => ShapeInv
  BY ShapeInitially
<1>2. ShapeInv /\ [Next]_vars => ShapeInv'
  BY StepKeepsShape
<1> QED
  BY <1>1, <1>2, PTL DEF Spec

\* At every indirect jump recovered so far a case for any new address can be
\* added: the demands of add_case_to_switch hold there.
THEOREM CasesCanAlwaysBeAdded == Spec => []CasesCanBeAdded
<1>1. ASSUME ShapeInv PROVE CasesCanBeAdded
  <2>1. GraphOK(comp, fresh) /\ SwitchesOK(comp, switches) /\ JumpsOK(comp, switches, Seen)
    BY <1>1 DEF ShapeInv
  <2>2. SUFFICES ASSUME NEW n, NEW h, Jumps(comp, n, h),
                        NEW ip, ip \notin DOMAIN InfoOf(switches, h).cases
                 PROVE  CanAddCase(comp, h, InfoOf(switches, h), ip)
    <3>1. \A e \in DOMAIN comp.edges : e = <<e[1], e[2]>>
      BY <2>1 DEF GraphOK, Good, IsDigraph
    <3>2. \A e \in DOMAIN comp.edges : IsSwitchInstruction(comp.edges[e])
                                         => Jumps(comp, e[1], e[2])
      BY <3>1 DEF Jumps, Leads, Along
    <3> QED
      BY <2>2, <3>2 DEF CasesCanBeAdded, InfoOf
  <2> DEFINE info == InfoOf(switches, h)
  <2>3. CanHang(comp, fresh, info)
    BY <2>1, <2>2, HeadHangs
  <2>4. /\ \A m \in comp.nodes : comp.succ[m] = {v \in comp.nodes : Leads(comp, m, v)}
        /\ \A m \in comp.nodes : comp.pred[m] = {u \in comp.nodes : Leads(comp, u, m)}
        /\ \A u, v : Leads(comp, u, v) => u \in comp.nodes /\ v \in comp.nodes
    BY <2>1 DEF GraphOK, Good, IsDigraph, Leads
  <2>5. CASE h \in DOMAIN switches
    <3>1. SwitchOK(comp, h, info) /\ info.havoc
      BY <2>1, <2>5 DEF SwitchesOK, SwitchOK, InfoOf
    <3>2. comp.succ[info.default] = {} /\ info.default \in comp.nodes
      BY <2>3, <2>4, <3>1 DEF SwitchOK, CanHang
    <3> QED
      BY <2>2, <3>1, <3>2 DEF CanAddCase
  <2>6. CASE h \notin DOMAIN switches
    <3>1. info.default = h /\ ~info.havoc /\ h \in comp.nodes
      BY <2>2, <2>4, <2>6 DEF InfoOf, NewSwitch, Jumps
    <3>2. /\ Leads(comp, n, h) /\ IsSwitchInstruction(comp.edges[<<n, h>>])
          /\ \A v : Leads(comp, v, h) => v = n
          /\ StandsAlone(comp, n, h)
      BY <2>1, <2>2, <2>6 DEF JumpsOK, Jumps, Along
    <3>3. comp.pred[h] = {n} /\ n \in comp.pred[h]
      BY <2>4, <3>1, <3>2
    <3>4. ASSUME comp.succ[h] # {}
          PROVE  \E t \in comp.succ[h] : /\ comp.succ[h] = {t}
                                         /\ comp.edges[<<h, t>>].gik = "HAVOC"
                                         /\ comp.succ[t] = {}
      <4>1. PICK t \in comp.succ[h] : Leads(comp, h, t)
        BY <2>4, <3>1, <3>4
      <4>2. /\ Along(comp, h, t).gik = "HAVOC"
            /\ \A v : Leads(comp, h, v) => v = t
            /\ \A v : ~Leads(comp, t, v)
        BY <3>2, <4>1 DEF StandsAlone
      <4>3. comp.succ[h] = {t} /\ comp.succ[t] = {}
        BY <2>4, <3>1, <4>1, <4>2
      <4> QED
        BY <4>1, <4>2, <4>3 DEF Along
    <3> QED
      BY <2>2, <3>1, <3>2, <3>3, <3>4 DEF CanAddCase
  <2> QED
    BY <2>5, <2>6
<1> QED
  BY ShapeHolds, <1>1, PTL

\* Whatever is inserted and erased later, a history stays a path of the program
\* from its entry.
THEOREM HistoriesArePaths == Spec => []HistoryIsPath
<1>1. ShapeInv => HistoryIsPath
  BY DEF ShapeInv, GraphOK, Walks, HistoryIsPath, Leads, current
<1> QED
  BY ShapeHolds, <1>1, PTL

-----------------------------------------------------------------------------
\* The second layer: what recovery_properties records is about the program.
LEMMA WithoutNodes ==
  ASSUME NEW U, NEW S
  PROVE  DOMAIN Without(U, S) = DOMAIN U \ S
BY DEF Without, Restrict

\* Of what is left to explore the thread's node is taken out.
LEMMA LeftNodes == DOMAIN Left = DOMAIN unexplored \ {cpu.node}
BY WithoutNodes DEF Left

\* The nodes reported are added.
LEMMA AddedNodes ==
  ASSUME NEW U, NEW S, NEW ip
  PROVE  DOMAIN AddUnexplored(U, ip, S) = DOMAIN U \cup S
<1> DEFINE g == [m \in S |-> ip]
<1>1. AddUnexplored(U, ip, S) = Overlay(U, g) /\ DOMAIN g = S
  BY DEF AddUnexplored
<1> HIDE DEF g
<1> QED
  BY <1>1 DEF Overlay

\* The end of an execution is recorded in its place.
LEMMA EndingsKept ==
  ASSUME RecordsInv,
         GoOnOrTimeOut \/ Dies
  PROVE  endings' \in Seq(Ends) /\ Len(endings') = current
<1>1. endings \in Seq(Ends) /\ Len(endings) = current
  BY DEF RecordsInv
<1>2. ASSUME NEW how \in Ends, End(how)
      PROVE  endings' \in Seq(Ends) /\ Len(endings') = current
  <2>1. endings' = [endings EXCEPT ![current] = how]
    BY <1>2 DEF End
  <2>2. DOMAIN endings = 1..current /\ current \in Nat
    BY <1>1
  <2>3. CASE current \in DOMAIN endings
    BY <1>1, <2>1, <2>3, ExceptSeq
  <2>4. CASE current \notin DOMAIN endings
    <3>1. endings' = endings
      BY <2>1, <2>4, <1>1
    <3> QED
      BY <1>1, <3>1
  <2> QED
    BY <2>3, <2>4
<1>3. CASE UNCHANGED endings
  BY <1>1, <1>3
<1>4. ASSUME NEW how \in {"killed", "crashed", "stopped", "faulted", "timeout"}
      PROVE  how \in Ends
  BY DEF Ends
<1>5. CASE ~UNCHANGED endings
  <2>1. \E how \in {"killed", "crashed", "stopped", "faulted", "timeout"} : End(how)
    BY <1>5 DEF GoOnOrTimeOut, Dies
  <2> QED
    BY <1>2, <1>4, <2>1
<1> QED
  BY <1>3, <1>5

\* No visited edge is lost and no visited node.
LEMMA VisitedEdgesKept ==
  ASSUME ShapeInv, RecordsInv,
         NEW D, \A u, v : Leads(comp, u, v) /\ v \in Seen => Leads(D, u, v)
  PROVE  \A e \in visited : e \in DOMAIN D.edges
<1> SUFFICES ASSUME NEW e \in visited PROVE e \in DOMAIN D.edges
  OBVIOUS
<1>1. e \in DOMAIN comp.edges /\ e[2] \in Seen
  BY DEF RecordsInv
<1>2. e = <<e[1], e[2]>>
  BY <1>1 DEF ShapeInv, GraphOK, Good, IsDigraph
<1>3. Leads(comp, e[1], e[2])
  BY <1>1, <1>2 DEF Leads
<1>4. Leads(D, e[1], e[2])
  BY <1>1, <1>3
<1> QED
  BY <1>2, <1>4 DEF Leads

\* Beginning an execution keeps the records.
LEMMA BeginKeepsRecords ==
  ASSUME ShapeInv, RecordsInv, Begin
  PROVE  RecordsInv'
<1>1. /\ Walks(comp, histories, cpu.node) /\ comp.entry = 1
      /\ histories' = Append(histories, <<1>>)
      /\ branchings' = Append(branchings, {})
      /\ endings' = Append(endings, "")
      /\ UNCHANGED <<comp, known, unexplored, visited, outcome>>
  BY DEF ShapeInv, GraphOK, Begin, program
<1>2. Seen' = Seen \cup {1} /\ current' = current + 1
  BY <1>1, WalkBegins DEF Seen, current
<1>3. branchings' \in Seq(SUBSET Nat) /\ Len(branchings') = current'
  <2>1. branchings \in Seq(SUBSET Nat) /\ Len(branchings) = current /\ {} \in SUBSET Nat
    BY DEF RecordsInv
  <2> QED
    BY <1>1, <1>2, <2>1, AppendProperties
<1>4. endings' \in Seq(Ends) /\ Len(endings') = current'
  <2>1. endings \in Seq(Ends) /\ Len(endings) = current /\ "" \in Ends
    BY DEF RecordsInv, Ends
  <2> QED
    BY <1>1, <1>2, <2>1, AppendProperties
<1> QED
  BY <1>1, <1>2, <1>3, <1>4 DEF RecordsInv

\* Recognising code keeps them.
LEMMA RecognisingKeepsRecords ==
  ASSUME ShapeInv, RecordsInv, Recognise
  PROVE  RecordsInv'
<1> DEFINE F == Recognised(Instruction, fresh + 1)
<1>1. /\ unexplored' = AddUnexplored(unexplored, cpu.ip, OpenExits(F.comp))
      /\ known' = Overlay(known, [n \in {cpu.node} |-> cpu.ip])
      /\ UNCHANGED <<visited, histories, branchings, endings, outcome>>
      /\ current > 0
  BY DEF Recognise, AtUnknownCode, Running
<1>2. /\ Grafted(comp, comp', cpu.node, fresh, fresh', {})
      /\ ExitsReported(comp', fresh, OpenExits(F.comp))
  BY RecogniseMerges DEF Merges
<1> HIDE DEF F
<1>3. /\ \A u, v : Leads(comp, u, v) => Leads(comp', u, v)
      /\ comp.nodes \subseteq comp'.nodes
  BY <1>2 DEF Grafted
<1>4. \A e \in visited : e \in DOMAIN comp'.edges
  BY <1>3, VisitedEdgesKept
<1>5. DOMAIN known' = DOMAIN known \cup {cpu.node} /\ cpu.node \in Seen
  BY <1>1, LastIsSeen DEF Overlay, ShapeInv, Seen, current
<1>6. DOMAIN unexplored' \subseteq comp'.nodes
  <2>1. DOMAIN unexplored' = DOMAIN unexplored \cup OpenExits(F.comp)
    BY <1>1, AddedNodes
  <2>2. OpenExits(F.comp) \subseteq comp'.nodes
    BY <1>2 DEF ExitsReported
  <2>3. DOMAIN unexplored \subseteq comp.nodes
    BY DEF RecordsInv
  <2> QED
    BY <1>3, <2>1, <2>2, <2>3
<1> QED
  BY <1>1, <1>4, <1>5, <1>6 DEF RecordsInv, Seen, current

\* So does going on along an edge, a chosen branch being recorded.
LEMMA GoingOnKeepsRecords ==
  ASSUME ShapeInv, RecordsInv, NEW v, GoesOn(v), Execute(v) \/ ExecuteBranching(v)
  PROVE  RecordsInv'
<1>1. /\ Seen' = Seen \cup {v} /\ current' = current
      /\ UNCHANGED <<comp, known, outcome>>
      /\ unexplored' = Left /\ GoOnOrTimeOut
      /\ Leads(comp, cpu.node, v)
      /\ current > 0
  BY GoingOnKeepsShape DEF GoesOn, program, current, Running
<1>2. endings' \in Seq(Ends) /\ Len(endings') = current
  BY <1>1, EndingsKept
<1>3. DOMAIN unexplored' \subseteq comp.nodes
  BY <1>1, LeftNodes DEF RecordsInv
<1>4. branchings' \in Seq(SUBSET Nat) /\ Len(branchings') = current
  <2>1. branchings \in Seq(SUBSET Nat) /\ Len(branchings) = current
    BY DEF RecordsInv
  <2>2. CASE Execute(v)
    BY <2>1, <2>2, ExecuteGoesOn
  <2>3. CASE ExecuteBranching(v)
    <3>1. current \in 1..current /\ current \in 1..Len(branchings)
      BY <1>1, <2>1
    <3>2. Position \in Nat
      BY <3>1 DEF Position, History, ShapeInv, Walks, current
    <3>3. branchings[current] \cup {Position} \in SUBSET Nat
      BY <2>1, <3>1, <3>2, ElementOfSeq
    <3>4. branchings' = [branchings EXCEPT ![current] = branchings[current] \cup {Position}]
      BY <2>3 DEF ExecuteBranching
    <3> QED
      BY <2>1, <3>1, <3>3, <3>4, ExceptSeq
  <2> QED
    BY <2>2, <2>3
<1>5. visited' \subseteq visited \cup {<<cpu.node, v>>}
  <2>1. CASE Execute(v)
    BY <2>1, ExecuteGoesOn
  <2>2. CASE ExecuteBranching(v)
    BY <2>2 DEF ExecuteBranching
  <2> QED
    BY <2>1, <2>2
<1>6. \A e \in visited' : e \in DOMAIN comp.edges /\ e[2] \in Seen'
  <2>1. \A e \in visited : e \in DOMAIN comp.edges /\ e[2] \in Seen
    BY DEF RecordsInv
  <2>2. <<cpu.node, v>>[2] = v /\ <<cpu.node, v>> \in DOMAIN comp.edges
    BY <1>1 DEF Leads
  <2> TAKE e \in visited'
  <2>3. e \in visited \/ e = <<cpu.node, v>>
    BY <1>5
  <2>4. CASE e \in visited
    BY <1>1, <2>1, <2>4
  <2>5. CASE e = <<cpu.node, v>>
    BY <1>1, <2>2, <2>5
  <2> QED
    BY <2>3, <2>4, <2>5
<1> QED
  BY <1>1, <1>2, <1>3, <1>4, <1>6 DEF RecordsInv

\* So does going through an indirect jump.
LEMMA EnteringOldKeepsRecords ==
  ASSUME ShapeInv, RecordsInv, NEW v, NEW ip, EntersOld(v, ip)
  PROVE  RecordsInv'
<1>1. /\ Seen' = Seen \cup {v} /\ current' = current
      /\ UNCHANGED <<comp, known, visited, branchings, outcome>>
      /\ unexplored' = Left /\ GoOnOrTimeOut
  BY EnteringOldKeepsShape DEF EntersOld, Jumped, program, current
<1>2. endings' \in Seq(Ends) /\ Len(endings') = current
  BY <1>1, EndingsKept
<1>3. DOMAIN unexplored' \subseteq comp.nodes
  BY <1>1, LeftNodes DEF RecordsInv
<1> QED
  BY <1>1, <1>2, <1>3 DEF RecordsInv

\* Nor does a new case: only nodes nobody visited are erased for it.
LEMMA EnteringNewKeepsRecords ==
  ASSUME ShapeInv, RecordsInv, NEW v, NEW ip, NEW r, EntersNew(v, ip, r)
  PROVE  RecordsInv'
<1>1. /\ Seen' = Seen \cup {v} /\ current' = current
      /\ UNCHANGED <<known, visited, branchings, outcome>>
      /\ unexplored' = AddUnexplored(Without(Left, {r.erased}), ip, CaseExits(r))
      /\ GoOnOrTimeOut
      /\ AddedCase(comp, InfoOf(switches, v).default, ip, fresh, r)
      /\ comp' = r.comp
  BY EnteringNewKeepsShape DEF EntersNew, Jumped, current
<1>2. endings' \in Seq(Ends) /\ Len(endings') = current
  BY <1>1, EndingsKept
<1>3. /\ Grafted(comp, comp', InfoOf(switches, v).default, fresh, fresh', Erased(v))
      /\ \A t \in Erased(v) : t \notin Seen
  BY NewCaseIsGrafted
<1>4. \A e \in visited : e \in DOMAIN comp'.edges
  <2>1. \A a, b : Leads(comp, a, b) /\ b \in Seen => Leads(comp', a, b)
    BY <1>3 DEF Grafted
  <2> QED
    BY <2>1, VisitedEdgesKept
<1>5. \A n \in comp.nodes : n # r.erased => n \in comp'.nodes
  BY <1>1, <1>3 DEF AddedCase, Grafted, Erased
<1>6. CaseExits(r) \subseteq comp'.nodes
  <2>1. Good(comp') /\ r.begin = fresh + 4 /\ r.default = fresh + 3 /\ fresh \in Nat
    BY <1>1, <1>3 DEF AddedCase, Grafted
  <2>2. Leads(comp', fresh + 1, fresh + 3) /\ Leads(comp', fresh + 2, fresh + 4)
    <3>1. \A a, b : b > fresh => (Leads(comp', a, b) <=>
             \/ a = InfoOf(switches, v).default /\ b = fresh + 1
             \/ a = fresh + 1 /\ b = fresh + 2
             \/ a = fresh + 1 /\ b = fresh + 3
             \/ a = fresh + 2 /\ b = fresh + 4)
      BY <1>1 DEF AddedCase
    <3> QED
      BY <2>1, <3>1
  <2>3. fresh + 3 \in comp'.nodes /\ fresh + 4 \in comp'.nodes
    BY <2>1, <2>2 DEF Good, IsDigraph, Leads
  <2> QED
    BY <2>1, <2>3 DEF CaseExits
<1>7. DOMAIN unexplored' \subseteq comp'.nodes
  <2>1. DOMAIN unexplored' = DOMAIN Without(Left, {r.erased}) \cup CaseExits(r)
    BY <1>1, AddedNodes
  <2>2. DOMAIN Without(Left, {r.erased}) = DOMAIN Left \ {r.erased}
    BY WithoutNodes
  <2>3. DOMAIN unexplored \subseteq comp.nodes
    BY DEF RecordsInv
  <2> QED
    BY <1>5, <1>6, <2>1, <2>2, <2>3, LeftNodes
<1> QED
  BY <1>1, <1>2, <1>4, <1>7 DEF RecordsInv

\* Every step keeps the records.
LEMMA StepKeepsRecords ==
  ASSUME ShapeInv, RecordsInv, [Next]_vars
  PROVE  RecordsInv'
<1>1. CASE Rests
  <2>1. UNCHANGED <<comp, known, visited, histories, branchings>>
    BY <1>1 DEF Rests, program
  <2>2. endings' \in Seq(Ends) /\ Len(endings') = current
    <3>1. Dies \/ UNCHANGED endings
      BY <1>1 DEF Rests, Returns
    <3> QED
      BY <3>1, EndingsKept DEF GoOnOrTimeOut
  <2>3. DOMAIN unexplored' \subseteq comp.nodes
    BY <1>1, LeftNodes DEF Rests, Dies, Returns, RecordsInv
  <2>4. outcome' \in {"", "done", "no goal", "not implemented", "timeout"}
    BY <1>1 DEF Rests, Dies, Returns, RecordsInv
  <2> QED
    BY <2>1, <2>2, <2>3, <2>4 DEF RecordsInv, Seen, current
<1> QED
  BY <1>1, NextCases, BeginKeepsRecords, RecognisingKeepsRecords, GoingOnKeepsRecords,
     EnteringOldKeepsRecords, EnteringNewKeepsRecords

\* At first nothing is recorded but the entry, left to explore.
LEMMA RecordsInitially ==
  ASSUME Init
  PROVE  RecordsInv
<1>1. comp.nodes = {1}
  BY DEF Init, NewComponent
<1>2. /\ known = << >> /\ unexplored = [n \in {1} |-> EntryPoint] /\ visited = {}
      /\ histories = << >> /\ branchings = << >> /\ endings = << >> /\ outcome = ""
  BY DEF Init
<1>3. DOMAIN unexplored = {1} /\ DOMAIN known = {}
  <2>1. \A s : s = << >> => DOMAIN s = {}
    OBVIOUS
  <2> QED
    BY <1>2, <2>1
<1>4. /\ branchings \in Seq(SUBSET Nat) /\ Len(branchings) = 0
      /\ endings \in Seq(Ends) /\ Len(endings) = 0 /\ current = 0
  BY <1>2, EmptySeq DEF current
<1> QED
  BY <1>1, <1>2, <1>3, <1>4 DEF RecordsInv

\* The records are an invariant.
THEOREM RecordsHold == Spec => []RecordsInv
<1>1. Init => RecordsInv
  BY RecordsInitially
<1>2. ShapeInv /\ RecordsInv /\ [Next]_vars => RecordsInv'
  BY StepKeepsRecords
<1> QED
  BY <1>1, <1>2, ShapeHolds, PTL DEF Spec

\* The types of the variables.
THEOREM TypesAreCorrect == Spec => []TypeOK
<1>1. ShapeInv /\ RecordsInv => TypeOK
  <2> SUFFICES ASSUME ShapeInv, RecordsInv PROVE TypeOK
    OBVIOUS
  <2>1. Seen \subseteq comp.nodes
    BY SeenAreNodes DEF ShapeInv, Seen
  <2>2. DOMAIN switches \subseteq comp.nodes
    BY DEF ShapeInv, SwitchesOK, SwitchOK, SwitchShape
  <2>3. visited \subseteq DOMAIN comp.edges
    BY DEF RecordsInv
  <2> QED
    BY <2>1, <2>2, <2>3 DEF TypeOK, ShapeInv, RecordsInv, GraphOK, Good
<1> QED
  BY <1>1, ShapeHolds, RecordsHold, PTL

-----------------------------------------------------------------------------
\* No edge that was recovered is lost or changes its instruction, but for the
\* havoc of temporaries that moves into the cases of a switch.
THEOREM RecoveredAlwaysKept == Spec => RecoveredIsKept
<1> DEFINE Lasting == \A e \in DOMAIN comp.edges :
             \/ e \in DOMAIN comp'.edges /\ comp'.edges[e] = comp.edges[e]
             \/ comp.edges[e].gik = "HAVOC" /\ e[1] \in DOMAIN switches' \ DOMAIN switches
<1>1. ASSUME ShapeInv, [Next]_vars PROVE Lasting
  <2>1. \A e \in DOMAIN comp.edges : e = <<e[1], e[2]>>
    BY <1>1 DEF ShapeInv, GraphOK, Good, IsDigraph
  <2>2. SUFFICES ASSUME NEW u, NEW w, Leads(comp, u, w)
                 PROVE  \/ Leads(comp', u, w) /\ Along(comp', u, w) = Along(comp, u, w)
                        \/ /\ Along(comp, u, w).gik = "HAVOC"
                           /\ u \in DOMAIN switches' \ DOMAIN switches
    BY <2>1, <2>2 DEF Leads, Along
  <2>3. CASE comp' = comp
    BY <2>2, <2>3
  <2>4. CASE Recognise
    <3>1. Grafted(comp, comp', cpu.node, fresh, fresh', {})
      BY <1>1, <2>4, RecogniseMerges DEF Merges
    <3> QED
      BY <2>2, <3>1 DEF Grafted
  <2>5. ASSUME NEW v, NEW ip, NEW r, EntersNew(v, ip, r)
        PROVE  \/ Leads(comp', u, w) /\ Along(comp', u, w) = Along(comp, u, w)
               \/ /\ Along(comp, u, w).gik = "HAVOC"
                  /\ u \in DOMAIN switches' \ DOMAIN switches
    <3>1. /\ Grafted(comp, comp', InfoOf(switches, v).default, fresh, fresh', Erased(v))
          /\ ErasedOK(comp, InfoOf(switches, v).default, Erased(v))
          /\ \A t \in Erased(v) : v \notin DOMAIN switches /\ Leads(comp, v, t)
          /\ DOMAIN switches' = DOMAIN switches \cup {v}
      BY <1>1, <2>5, NewCaseIsGrafted
    <3>2. CASE w \notin Erased(v)
      BY <2>2, <3>1, <3>2 DEF Grafted
    <3>3. CASE w \in Erased(v)
      BY <2>2, <3>1, <3>3 DEF ErasedOK
    <3> QED
      BY <3>2, <3>3
  <2> QED
    BY <1>1, <2>3, <2>4, <2>5, NextCases DEF Begin, GoesOn, EntersOld, Rests, program
<1>2. ShapeInv /\ [Next]_vars => [Lasting]_vars
  BY <1>1
<1> QED
  BY <1>2, ShapeHolds, PTL DEF Spec, RecoveredIsKept

-----------------------------------------------------------------------------
(***************************************************************************)
(* The third layer: what is left to explore.  A node that ceases to be an  *)
(* exit is the one the thread stands at, or the default of the switch it   *)
(* just entered; it goes from the head to that default without a break,    *)
(* and the node is left out when it gets there.                            *)
(***************************************************************************)
IsSink(C, n) == \A v : ~Leads(C, n, v)

StoppedAt(C, n) ==
  /\ \E u : Leads(C, u, n)
  /\ \A u : Leads(C, u, n) => Along(C, u, n).gik = "STOP"

Reported(C, U) == \A n \in C.nodes : IsSink(C, n) => n \in DOMAIN U \/ StoppedAt(C, n)

BeingVisited(n) ==
  Running /\ (n = cpu.node \/ Awaited(comp, switches, cpu.node, cpu.ip, n))

ExitsInv ==
  /\ Reported(comp, unexplored)
  /\ ~TimeIsUp => \A n \in DOMAIN unexplored : IsSink(comp, n) \/ BeingVisited(n)

\* The exits and the stopped nodes in these words.
LEMMA ExitsAreSinks ==
  ASSUME NEW C, Good(C), NEW n
  PROVE  /\ n \in C.exits <=> n \in C.nodes /\ IsSink(C, n)
         /\ n \in {m \in C.nodes : /\ C.pred[m] # {}
                                   /\ \A u \in C.pred[m] : C.edges[<<u, m>>].gik = "STOP"}
              <=> n \in C.nodes /\ StoppedAt(C, n)
<1>1. /\ \A u, v : Leads(C, u, v) => u \in C.nodes /\ v \in C.nodes
      /\ \A m \in C.nodes : \A u : u \in C.pred[m] <=> Leads(C, u, m)
      /\ \A m : m \in C.exits <=> m \in C.nodes /\ C.succ[m] = {}
  BY DEF Good, IsDigraph, Leads
<1>2. n \in C.exits <=> n \in C.nodes /\ IsSink(C, n)
  BY <1>1, Sinks DEF IsSink
<1>3. n \in C.nodes => /\ C.pred[n] # {} <=> \E u : Leads(C, u, n)
                       /\ (\A u \in C.pred[n] : C.edges[<<u, n>>].gik = "STOP")
                            <=> \A u : Leads(C, u, n) => Along(C, u, n).gik = "STOP"
  BY <1>1 DEF Along
<1> QED
  BY <1>2, <1>3 DEF StoppedAt

\* An ending is recorded for each execution.
LEMMA EndingsRecorded ==
  ASSUME RecordsInv
  PROVE  DOMAIN endings = 1..current /\ current \in Nat
<1>1. endings \in Seq(Ends) /\ Len(endings) = current
  BY DEF RecordsInv
<1>2. Len(endings) \in Nat /\ DOMAIN endings = 1..Len(endings)
  BY <1>1
<1> QED
  BY ONLY <1>1, <1>2

\* The clock: an execution that goes on in time is under way, and one that dies
\* in time was in time before.
LEMMA StillInTime ==
  ASSUME RecordsInv, Running, GoOnOrTimeOut, current' = current, ~TimeIsUp'
  PROVE  ~TimeIsUp /\ Running'
<1>1. /\ DOMAIN endings = 1..current /\ current \in 1..current
      /\ current > 0 /\ endings[current] = ""
  <2>1. current > 0 /\ endings[current] = ""
    BY DEF Running
  <2>2. DOMAIN endings = 1..current /\ current \in Nat
    BY EndingsRecorded
  <2>3. \A k \in Nat : k > 0 => k \in 1..k
    OBVIOUS
  <2> QED
    BY <2>1, <2>2, <2>3
<1>2. CASE UNCHANGED endings
  BY <1>1, <1>2 DEF TimeIsUp, Running
<1>3. CASE End("timeout")
  <2>1. endings'[current] = "timeout"
    BY <1>1, <1>3 DEF End
  <2> QED
    BY <1>1, <2>1 DEF TimeIsUp
<1> QED
  BY <1>2, <1>3 DEF GoOnOrTimeOut

\* The same when it dies.
LEMMA DiesInTime ==
  ASSUME RecordsInv, Dies, current' = current, ~TimeIsUp'
  PROVE  ~TimeIsUp
<1>1. endings[current] = "" /\ DOMAIN endings = 1..current
  BY EndingsRecorded DEF Dies, Running
<1>2. PICK how \in {"killed", "crashed", "stopped", "faulted"} : End(how)
  BY DEF Dies
<1>3. \A e \in 1..current : e # current => endings'[e] = endings[e]
  BY <1>1, <1>2 DEF End
<1>4. ASSUME NEW e \in 1..current, endings[e] = "timeout" PROVE FALSE
  BY <1>1, <1>3, <1>4 DEF TimeIsUp
<1> QED
  BY <1>4 DEF TimeIsUp

\* Putting code behind x leaves the other sinks and the stopped nodes alone.
LEMMA SinksKept ==
  ASSUME NEW C, NEW f, GraphOK(C, f),
         NEW D, NEW x, NEW l, NEW T, Grafted(C, D, x, f, l, T), ErasedOK(C, x, T),
         NEW n \in C.nodes, n \notin T
  PROVE  /\ IsSink(D, n) => IsSink(C, n) /\ n # x
         /\ IsSink(C, n) /\ n # x => IsSink(D, n)
         /\ StoppedAt(C, n) <=> StoppedAt(D, n)
<1>1. \A u, v : /\ Leads(C, u, v) /\ v \notin T => Leads(D, u, v) /\ Along(D, u, v) = Along(C, u, v)
                /\ Leads(D, u, v) /\ v \in C.nodes => Leads(C, u, v) /\ v \notin T
                /\ Leads(D, u, v) /\ u \in C.nodes /\ u # x => Leads(C, u, v) /\ v \notin T
                /\ Leads(C, u, v) /\ v \notin T => u # x
  BY OldEdges
<1>2. \E v : Leads(D, x, v)
  BY DEF Grafted
<1>3. \A u, t : Leads(C, u, t) /\ t \in T => u = x
  BY DEF ErasedOK
<1>4. IsSink(D, n) => IsSink(C, n) /\ n # x
  BY <1>1, <1>2, <1>3 DEF IsSink
<1>5. IsSink(C, n) /\ n # x => IsSink(D, n)
  BY <1>1 DEF IsSink
<1>6. StoppedAt(C, n) <=> StoppedAt(D, n)
  <2>1. \A u : Leads(C, u, n) <=> Leads(D, u, n)
    BY <1>1
  <2>2. \A u : Leads(C, u, n) => Along(D, u, n) = Along(C, u, n)
    BY <1>1
  <2> QED
    BY <2>1, <2>2 DEF StoppedAt
<1> QED
  BY <1>4, <1>5, <1>6

\* What is appended leaves the rest where it is.
LongerBy(t, s, x, S) == s \in Seq(S) /\ x \in S /\ t = Append(s, x)
KeepsAll(t, s) == \A e \in 1..Len(s) : e \in 1..(Len(s) + 1) /\ t[e] = s[e]

\* All that was in a sequence stays in its place.
LEMMA AppendKeeps ==
  ASSUME NEW S, NEW s, NEW x, NEW t, LongerBy(t, s, x, S)
  PROVE  KeepsAll(t, s)
<1>1. Len(s) \in Nat /\ \A e \in 1..Len(s) : t[e] = s[e]
  BY AppendProperties DEF LongerBy
<1>2. \A k \in Nat : \A e \in 1..k : e \in 1..(k + 1)
  OBVIOUS
<1> QED
  BY <1>1, <1>2 DEF KeepsAll

\* Beginning an execution, nothing is left but exits, or time is up.
LEMMA BeginKeepsExits ==
  ASSUME ShapeInv, RecordsInv, ExitsInv, Begin, ~Running
  PROVE  ExitsInv'
<1>1. UNCHANGED <<comp, unexplored>> /\ endings' = Append(endings, "")
  BY DEF Begin, program
<1>2. current' = current + 1
  <2>1. Walks(comp, histories, cpu.node) /\ histories' = Append(histories, <<1>>)
    BY DEF ShapeInv, GraphOK, Begin
  <2> QED
    BY <2>1, WalkBegins DEF current
<1>3. ASSUME ~TimeIsUp' PROVE ~TimeIsUp
  <2>1. endings \in Seq(Ends) /\ Len(endings) = current /\ "" \in Ends
    BY DEF RecordsInv, Ends
  <2>2. KeepsAll(endings', endings)
    <3>1. LongerBy(endings', endings, "", Ends)
      BY <1>1, <2>1 DEF LongerBy
    <3> QED
      BY ONLY <3>1, AppendKeeps
  <2>3. \A e \in 1..current : e \in 1..current' /\ endings'[e] = endings[e]
    BY ONLY <1>2, <2>1, <2>2 DEF KeepsAll
  <2> QED
    BY <1>3, <2>3 DEF TimeIsUp
<1>4. ~TimeIsUp => \A n \in DOMAIN unexplored : IsSink(comp, n)
  BY DEF ExitsInv, BeingVisited
<1>5. Reported(comp, unexplored)
  BY DEF ExitsInv
<1> QED
  BY <1>1, <1>3, <1>4, <1>5 DEF ExitsInv

\* The exits of recognised code are reported; the thread's node is one no more,
\* and the thread is about to leave it.
LEMMA RecognisingKeepsExits ==
  ASSUME ShapeInv, RecordsInv, ExitsInv, Recognise
  PROVE  ExitsInv'
<1> DEFINE F == Recognised(Instruction, fresh + 1)
<1>1. /\ unexplored' = AddUnexplored(unexplored, cpu.ip, OpenExits(F.comp))
      /\ UNCHANGED <<cpu, switches, histories, endings>>
      /\ Running /\ comp.succ[cpu.node] = {}
  BY DEF Recognise, AtUnknownCode
<1>2. /\ Grafted(comp, comp', cpu.node, fresh, fresh', {})
      /\ ExitsReported(comp', fresh, OpenExits(F.comp))
      /\ WellFormed(comp', fresh)
  BY RecogniseMerges DEF Merges
<1> DEFINE open == OpenExits(F.comp)
<1>3. DOMAIN unexplored' = DOMAIN unexplored \cup open
  BY <1>1, AddedNodes
<1> HIDE DEF F, open
<1>4. /\ GraphOK(comp, fresh) /\ SwitchesOK(comp, switches)
      /\ ThreadOK(switches, cpu.node, cpu.ip, cpu.tmp)
      /\ cpu.node \in comp.nodes
  BY <1>1 DEF ShapeInv, Running
<1>5. \A n \in comp.nodes : /\ IsSink(comp', n) => IsSink(comp, n) /\ n # cpu.node
                            /\ IsSink(comp, n) /\ n # cpu.node => IsSink(comp', n)
                            /\ StoppedAt(comp, n) => StoppedAt(comp', n)
  <2>1. ErasedOK(comp, cpu.node, {})
    BY DEF ErasedOK
  <2> QED
    BY <1>2, <1>4, <2>1, SinksKept
<1>6. \A n \in open : n \in comp'.nodes /\ IsSink(comp', n)
  BY <1>2 DEF ExitsReported, IsSink, open
<1>7. ASSUME NEW n \in comp'.nodes, IsSink(comp', n)
      PROVE  n \in DOMAIN unexplored' \/ StoppedAt(comp', n)
  <2>1. CASE n \in comp.nodes
    BY <1>3, <1>5, <1>7, <2>1 DEF ExitsInv, Reported
  <2>2. CASE n \notin comp.nodes /\ n \notin open
    <3>1. n > fresh
      BY <1>2, <2>2 DEF Grafted
    <3>2. \E u : Leads(comp', u, n)
      BY <1>2, <3>1 DEF WellFormed
    <3>3. \A u : Leads(comp', u, n) => Along(comp', u, n).gik = "STOP"
      BY <1>2, <1>7, <2>2, <3>1 DEF ExitsReported, IsSink, open
    <3> QED
      BY <3>2, <3>3 DEF StoppedAt
  <2> QED
    BY <1>3, <2>1, <2>2
<1>8. \A n : ~Awaited(comp, switches, cpu.node, cpu.ip, n)
  <2>1. \A v : ~Leads(comp, cpu.node, v)
    BY <1>1, <1>4, Sinks DEF GraphOK
  <2> QED
    BY <1>4, <2>1, NothingAwaited
<1>9. ASSUME ~TimeIsUp', NEW n \in DOMAIN unexplored'
      PROVE  IsSink(comp', n) \/ BeingVisited(n)'
  <2>1. ~TimeIsUp /\ Running'
    BY <1>1, <1>9 DEF TimeIsUp, Running, current
  <2>2. CASE n \in open
    BY <1>6, <2>2
  <2>3. CASE n \notin open
    <3>1. n \in DOMAIN unexplored /\ n \in comp.nodes
      BY <1>3, <1>9, <2>3 DEF RecordsInv
    <3>2. IsSink(comp, n) \/ n = cpu.node
      BY <1>8, <2>1, <3>1 DEF ExitsInv, BeingVisited
    <3>3. IsSink(comp', n) \/ n = cpu'.node
      BY <1>1, <1>5, <3>1, <3>2
    <3> QED
      BY <2>1, <3>3 DEF BeingVisited
  <2> QED
    BY <2>2, <2>3
<1>10. Reported(comp', unexplored')
  BY <1>7 DEF Reported
<1> QED
  BY <1>9, <1>10 DEF ExitsInv

\* Executing an instruction the thread leaves its node and comes nearer to the
\* default it has to visit.
LEMMA GoingOnKeepsExits ==
  ASSUME ShapeInv, RecordsInv, ExitsInv, NEW v, GoesOn(v)
  PROVE  ExitsInv'
<1>1. /\ Running /\ Leads(comp, cpu.node, v)
      /\ cpu'.node = v
      /\ Executes(Along(comp, cpu.node, v), cpu.ip, cpu.tmp, cpu'.ip, cpu'.tmp)
      /\ unexplored' = Left /\ GoOnOrTimeOut
      /\ UNCHANGED <<comp, switches>>
      /\ current' = current
  BY GoingOnKeepsShape DEF GoesOn, program, current
<1>2. DOMAIN unexplored' = DOMAIN unexplored \ {cpu.node}
  BY <1>1, LeftNodes
<1>3. Reported(comp, unexplored')
  BY <1>1, <1>2 DEF ExitsInv, Reported, IsSink
<1>4. /\ GraphOK(comp, fresh) /\ SwitchesOK(comp, switches)
      /\ JumpsOK(comp, switches, Seen)
      /\ ThreadOK(switches, cpu.node, cpu.ip, cpu.tmp)
      /\ cpu.ip \in Int
  BY <1>1 DEF ShapeInv, Running
<1>5. ASSUME ~TimeIsUp', NEW n \in DOMAIN unexplored'
      PROVE  IsSink(comp, n) \/ BeingVisited(n)'
  <2>1. ~TimeIsUp /\ Running'
    BY <1>1, <1>5, StillInTime
  <2>2. CASE Awaited(comp, switches, cpu.node, cpu.ip, n) /\ n # v
    <3>1. Awaited(comp, switches, v, cpu'.ip, n)
      BY <1>1, <1>4, <2>2, NearerInAll
    <3> QED
      BY <1>1, <2>1, <3>1 DEF BeingVisited
  <2>3. CASE n = v
    BY <1>1, <2>1, <2>3 DEF BeingVisited
  <2> QED
    BY <1>2, <1>5, <2>1, <2>2, <2>3 DEF ExitsInv, BeingVisited
<1> QED
  BY <1>1, <1>3, <1>5 DEF ExitsInv

\* Through an indirect jump to an address that has a case.
LEMMA EnteringOldKeepsExits ==
  ASSUME ShapeInv, RecordsInv, ExitsInv, NEW v, NEW ip, EntersOld(v, ip)
  PROVE  ExitsInv'
<1>1. /\ Running /\ Leads(comp, cpu.node, v)
      /\ Along(comp, cpu.node, v).gik = "IPREG"
      /\ unexplored' = Left /\ GoOnOrTimeOut
      /\ comp' = comp
      /\ current' = current
  BY EnteringOldKeepsShape DEF EntersOld, Jumped, Jumps, IsSwitchInstruction, program, current
<1>2. DOMAIN unexplored' = DOMAIN unexplored \ {cpu.node}
  BY <1>1, LeftNodes
<1>3. Reported(comp, unexplored')
  BY <1>1, <1>2 DEF ExitsInv, Reported, IsSink
<1>4. /\ GraphOK(comp, fresh) /\ SwitchesOK(comp, switches)
      /\ ThreadOK(switches, cpu.node, cpu.ip, cpu.tmp)
  BY <1>1 DEF ShapeInv, Running
<1>5. \A n : ~Awaited(comp, switches, cpu.node, cpu.ip, n)
  BY <1>1, <1>4, NothingAwaited
<1>6. ASSUME ~TimeIsUp', NEW n \in DOMAIN unexplored'
      PROVE  IsSink(comp, n)
  <2>1. ~TimeIsUp
    BY <1>1, <1>6, StillInTime
  <2> QED
    BY <1>2, <1>5, <1>6, <2>1 DEF ExitsInv, BeingVisited
<1> QED
  BY <1>1, <1>3, <1>6 DEF ExitsInv

\* To an address that gets its case now: the default the case hangs on is an exit
\* no more, and the thread is on its way to it.
LEMMA EnteringNewKeepsExits ==
  ASSUME ShapeInv, RecordsInv, ExitsInv, NEW v, NEW ip, NEW r, EntersNew(v, ip, r)
  PROVE  ExitsInv'
<1> DEFINE info == InfoOf(switches, v)
           d == info.default
<1>1. /\ Running /\ Leads(comp, cpu.node, v) /\ Jumps(comp, cpu.node, v)
      /\ Along(comp, cpu.node, v).gik = "IPREG"
      /\ unexplored' = AddUnexplored(Without(Left, {r.erased}), ip, CaseExits(r))
      /\ GoOnOrTimeOut
      /\ cpu' = [cpu EXCEPT !.node = v, !.ip = ip]
      /\ AddedCase(comp, d, ip, fresh, r) /\ comp' = r.comp
      /\ current' = current
  BY EnteringNewKeepsShape DEF EntersNew, Jumped, Jumps, IsSwitchInstruction, current
<1>2. /\ GraphOK(comp, fresh) /\ SwitchesOK(comp, switches)
      /\ ThreadOK(switches, cpu.node, cpu.ip, cpu.tmp)
      /\ JumpsOK(comp, switches, Seen)
      /\ cpu \in [node : comp.nodes, ip : Int, tmp : {0, 1}]
      /\ fresh \in Nat
  BY <1>1 DEF ShapeInv, Running, GraphOK
<1>3. /\ Grafted(comp, comp', d, fresh, fresh', Erased(v))
      /\ fresh' = fresh + 4
      /\ ErasedOK(comp, d, Erased(v))
      /\ DOMAIN switches' = DOMAIN switches \cup {v}
      /\ HasCase(switches'[v], info, ip, r)
  BY NewCaseIsGrafted
<1>4. SwitchShape(comp, v, info)
  BY <1>1, <1>2, HeadHangs
<1> HIDE DEF info
<1>5. /\ r.begin = fresh + 4 /\ r.default = fresh + 3
      /\ (r.erased = 0 /\ Erased(v) = {}) \/ Erased(v) = {r.erased}
      /\ \A a, b : b > fresh => (Leads(comp', a, b) <=>
             \/ a = d /\ b = fresh + 1
             \/ a = fresh + 1 /\ b = fresh + 2
             \/ a = fresh + 1 /\ b = fresh + 3
             \/ a = fresh + 2 /\ b = fresh + 4)
  BY <1>1 DEF AddedCase, Erased, info
<1>6. DOMAIN unexplored' = ((DOMAIN unexplored \ {cpu.node}) \ {r.erased}) \cup {fresh + 4, fresh + 3}
  <2>1. DOMAIN unexplored' = DOMAIN Without(Left, {r.erased}) \cup CaseExits(r)
    BY <1>1, AddedNodes
  <2>2. DOMAIN Without(Left, {r.erased}) = DOMAIN Left \ {r.erased}
    BY WithoutNodes
  <2> QED
    BY <1>5, <2>1, <2>2, LeftNodes DEF CaseExits
<1>7. \A n \in comp.nodes : n \notin Erased(v) =>
         /\ IsSink(comp', n) => IsSink(comp, n) /\ n # d
         /\ IsSink(comp, n) /\ n # d => IsSink(comp', n)
         /\ StoppedAt(comp, n) => StoppedAt(comp', n)
  BY <1>2, <1>3, SinksKept
<1>8. /\ \A n \in comp'.nodes : (n \in comp.nodes /\ n \notin Erased(v)) \/ (n \in Nat /\ n > fresh /\ n <= fresh + 4)
      /\ \A n \in comp.nodes : n \in Nat /\ n <= fresh
      /\ 0 \notin comp.nodes
  BY <1>2, <1>3 DEF Grafted, GraphOK
<1>9. IsSink(comp', fresh + 3) /\ IsSink(comp', fresh + 4)
  <2>1. \A a, b : Leads(comp', a, b) =>
          \/ Leads(comp, a, b)
          \/ b > fresh
    BY <1>3 DEF Grafted
  <2>2. \A a, b : Leads(comp, a, b) => a \in comp.nodes
    BY <1>2 DEF GraphOK, Good, IsDigraph, Leads
  <2>3. d \in comp.nodes
    BY <1>3 DEF Grafted
  <2> QED
    BY <1>2, <1>5, <1>8, <2>1, <2>2, <2>3 DEF IsSink
<1>10. ~IsSink(comp', fresh + 1) /\ ~IsSink(comp', fresh + 2)
  BY <1>2, <1>5 DEF IsSink
<1>11. ~IsSink(comp, cpu.node)
  BY <1>1 DEF IsSink
<1>12. ASSUME NEW n \in comp'.nodes, IsSink(comp', n)
       PROVE  n \in DOMAIN unexplored' \/ StoppedAt(comp', n)
  <2>1. CASE n \in comp.nodes /\ n \notin Erased(v)
    <3>1. IsSink(comp, n) /\ n # cpu.node /\ n # r.erased
      BY <1>5, <1>7, <1>8, <1>11, <1>12, <2>1
    <3>2. n \in DOMAIN unexplored \/ StoppedAt(comp, n)
      BY <2>1, <3>1 DEF ExitsInv, Reported
    <3> QED
      BY <1>6, <1>7, <2>1, <3>1, <3>2
  <2>2. CASE n \in Nat /\ n > fresh /\ n <= fresh + 4
    <3>1. n = fresh + 1 \/ n = fresh + 2 \/ n = fresh + 3 \/ n = fresh + 4
      BY <1>2, <2>2
    <3> QED
      BY <1>6, <1>10, <1>12, <3>1
  <2> QED
    BY <1>8, <2>1, <2>2
<1>13. \A n : ~Awaited(comp, switches, cpu.node, cpu.ip, n)
  BY <1>1, <1>2, NothingAwaited
<1>14. d = v \/ Awaited(comp', switches', v, ip, d)
  <2>1. SUFFICES ASSUME d # v PROVE AwaitedIn(comp', v, switches'[v], v, ip, d)
    BY <1>3 DEF Awaited
  <2>2. PICK a \in DOMAIN info.cases : d = info.cases[a] - 1
    BY <1>4, <2>1 DEF SwitchShape, IsPoint
  <2>3. info.cases[a] \in Nat /\ info.cases[a] >= v + 4 /\ v \in Nat
    <3>1. v \in comp.nodes /\ CaseOK(comp, v, info, info.cases[a])
      BY <1>4 DEF SwitchShape
    <3>2. v \in Nat
      BY <1>2, <3>1 DEF GraphOK
    <3> QED
      BY <3>1, <3>2 DEF CaseOK
  <2>4. /\ ip \in DOMAIN switches'[v].cases /\ switches'[v].cases[ip] = fresh + 4
        /\ a \in DOMAIN switches'[v].cases
        /\ a # ip => switches'[v].cases[a] = info.cases[a]
    BY <1>3, <1>5, <2>2 DEF HasCase
  <2>5. ip \notin DOMAIN info.cases
    BY DEF EntersNew, info
  <2>6. InChain(v, switches'[v], v) /\ IsPoint(v, switches'[v], d)
    BY <2>2, <2>4, <2>5 DEF InChain, IsPoint
  <2>7. d > v
    BY <2>2, <2>3
  <2>8. Leads(comp', d, switches'[v].cases[ip] - 3)
    <3>1. Leads(comp', d, fresh + 1)
      BY <1>2, <1>5
    <3>2. switches'[v].cases[ip] - 3 = fresh + 1
      BY <1>2, <2>4
    <3> QED
      BY <3>1, <3>2
  <2> QED
    BY <2>6, <2>7, <2>8 DEF AwaitedIn
<1>15. ASSUME ~TimeIsUp', NEW n \in DOMAIN unexplored'
       PROVE  IsSink(comp', n) \/ BeingVisited(n)'
  <2>1. ~TimeIsUp /\ Running'
    BY <1>1, <1>15, StillInTime
  <2>2. CASE n = fresh + 3 \/ n = fresh + 4
    BY <1>9, <2>2
  <2>3. CASE n \in DOMAIN unexplored /\ n # cpu.node /\ n # r.erased
    <3>1. n \in comp.nodes /\ n \notin Erased(v)
      BY <1>5, <2>3 DEF RecordsInv
    <3>2. IsSink(comp, n)
      BY <1>13, <2>1, <2>3 DEF ExitsInv, BeingVisited
    <3>3. IsSink(comp', n) \/ n = d
      BY <1>7, <3>1, <3>2
    <3>4. cpu'.node = v /\ cpu'.ip = ip
      BY <1>1, <1>2
    <3> QED
      BY <1>14, <2>1, <3>3, <3>4 DEF BeingVisited
  <2> QED
    BY <1>6, <1>15, <2>2, <2>3
<1>16. Reported(comp', unexplored')
  BY <1>12 DEF Reported
<1> QED
  BY <1>15, <1>16 DEF ExitsInv

\* A thread that dies does so at an exit, or at an instruction that is in no
\* chain: in time, nothing is left but exits.
LEMMA RestingKeepsExits ==
  ASSUME ShapeInv, RecordsInv, ExitsInv, Rests
  PROVE  ExitsInv'
<1>1. UNCHANGED <<comp, cpu, switches>> /\ current' = current
  BY DEF Rests, program, current
<1>2. CASE UNCHANGED <<unexplored, endings>>
  BY <1>1, <1>2 DEF ExitsInv, TimeIsUp, BeingVisited, Running
<1>3. CASE Dies
  <2>1. /\ GraphOK(comp, fresh) /\ SwitchesOK(comp, switches)
        /\ ThreadOK(switches, cpu.node, cpu.ip, cpu.tmp)
    BY <1>3 DEF ShapeInv, Dies, Running
  <2>2. \A n : ~Awaited(comp, switches, cpu.node, cpu.ip, n)
    BY <1>3, <2>1, NothingAwaited DEF Dies
  <2>3. /\ Reported(comp, unexplored')
        /\ DOMAIN unexplored' \subseteq DOMAIN unexplored
        /\ cpu.node \in DOMAIN unexplored' => IsSink(comp, cpu.node)
    BY <1>3, LeftNodes DEF Dies, ExitsInv, Reported, IsSink
  <2>4. ASSUME ~TimeIsUp', NEW n \in DOMAIN unexplored'
        PROVE  IsSink(comp, n)
    <3>1. ~TimeIsUp
      BY <1>1, <1>3, <2>4, DiesInTime
    <3> QED
      BY <2>2, <2>3, <2>4, <3>1 DEF ExitsInv, BeingVisited
  <2> QED
    BY <1>1, <2>3, <2>4 DEF ExitsInv
<1> QED
  BY <1>2, <1>3 DEF Rests, Returns

\* Every step keeps the exits reported.
LEMMA StepKeepsExits ==
  ASSUME ShapeInv, RecordsInv, ExitsInv, [Next]_vars
  PROVE  ExitsInv'
BY NextCases, BeginKeepsExits, RecognisingKeepsExits, GoingOnKeepsExits,
   EnteringOldKeepsExits, EnteringNewKeepsExits, RestingKeepsExits

\* At first the entry is the only exit, and it is left to explore.
LEMMA ExitsInitially ==
  ASSUME Init
  PROVE  ExitsInv
<1>1. comp = NewComponent(1) /\ unexplored = [n \in {1} |-> EntryPoint]
  BY DEF Init
<1>2. DOMAIN unexplored = {1} /\ comp.nodes = {1} /\ \A u, v : ~Leads(comp, u, v)
  BY <1>1, NewComponentEmpty DEF NewComponent, Leads
<1> QED
  BY <1>2 DEF ExitsInv, Reported, IsSink

\* What is left to explore is so throughout.
THEOREM ExitsHold == Spec => []ExitsInv
<1>1. Init => ExitsInv
  BY ExitsInitially
<1>2. ShapeInv /\ RecordsInv /\ ExitsInv /\ [Next]_vars => ExitsInv'
  BY StepKeepsExits
<1> QED
  BY <1>1, <1>2, ShapeHolds, RecordsHold, PTL DEF Spec

\* No exit of the program is forgotten, and once an execution has ended in time
\* only exits are left to explore.
THEOREM ExitsAreReported == Spec => []UnexploredAreExits
<1>1. ShapeInv /\ RecordsInv /\ ExitsInv => UnexploredAreExits
  <2> SUFFICES ASSUME ShapeInv, RecordsInv, ExitsInv PROVE UnexploredAreExits
    OBVIOUS
  <2>1. /\ \A n : n \in comp.exits <=> n \in comp.nodes /\ IsSink(comp, n)
        /\ \A n : n \in Stopped <=> n \in comp.nodes /\ StoppedAt(comp, n)
    BY ExitsAreSinks DEF ShapeInv, GraphOK, Stopped
  <2>2. comp.exits \subseteq DOMAIN unexplored \cup Stopped
    BY <2>1 DEF ExitsInv, Reported
  <2>3. ~Running /\ ~TimeIsUp => DOMAIN unexplored \subseteq comp.exits
    BY <2>1 DEF ExitsInv, BeingVisited, RecordsInv
  <2> QED
    BY <2>2, <2>3 DEF UnexploredAreExits
<1> QED
  BY <1>1, ShapeHolds, RecordsHold, ExitsHold, PTL

-----------------------------------------------------------------------------
(***************************************************************************)
(* The fourth layer: the branchings passed.  A history chooses where a     *)
(* node that is not its last one has two successors, and inserting,        *)
(* merging and erasing never change the successors of such a node.         *)
(***************************************************************************)
Forks(C, n) == Cardinality(C.succ[n]) = 2

Chooses(C, H, e, i) == /\ e \in 1..Len(H) /\ i \in 1..(Len(H[e]) - 1)
                       /\ Forks(C, H[e][i])

Recorded(C, H, B, V) ==
  /\ \A e \in 1..Len(H) : \A i : i \in B[e] <=> Chooses(C, H, e, i)
  /\ \A p : p \in V <=> \E e, i : Chooses(C, H, e, i) /\ p = <<H[e][i], H[e][i + 1]>>

BranchesInv == Recorded(comp, histories, branchings, visited)

\* Two components with the same choices at the nodes passed.
LEMMA ChoicesKept ==
  ASSUME NEW C, NEW H, NEW B, NEW V, Recorded(C, H, B, V),
         NEW D, \A e \in 1..Len(H) : \A i \in 1..(Len(H[e]) - 1) :
                  Forks(D, H[e][i]) <=> Forks(C, H[e][i])
  PROVE  Recorded(D, H, B, V)
<1>1. \A e, i : Chooses(D, H, e, i) <=> Chooses(C, H, e, i)
  BY DEF Chooses
<1> QED
  BY <1>1 DEF Recorded

\* The history G is H one step further: from n, the node l of the last one, to v.
OneFurther(H, G, m, l, n, v) ==
  /\ m \in Nat /\ m \in 1..m /\ m = Len(H) /\ Len(G) = m
  /\ l \in Nat /\ l > 0 /\ Len(H[m]) = l /\ Len(G[m]) = l + 1
  /\ \A e \in 1..m : e # m => G[e] = H[e]
  /\ \A i \in 1..l : G[m][i] = H[m][i]
  /\ H[m][l] = n /\ G[m][l] = n /\ G[m][l + 1] = v

\* Visiting v takes the last history one node further.
LEMMA VisitedIsOneFurther ==
  ASSUME NEW C, NEW H, NEW n, Walks(C, H, n), Len(H) > 0, NEW v \in Nat
  PROVE  OneFurther(H, Visited(H, v), Len(H), Len(H[Len(H)]), n, v)
<1> DEFINE m == Len(H)
           G == Visited(H, v)
           h == H[m]
<1>1. /\ H \in Seq(Seq(Nat)) /\ m \in Nat /\ m \in 1..m /\ h \in Seq(Nat)
      /\ Len(h) \in Nat /\ Len(h) > 0 /\ h[Len(h)] = n
  BY DEF Walks
<1>2. /\ Append(h, v) \in Seq(Nat) /\ Len(Append(h, v)) = Len(h) + 1
      /\ \A i \in 1..Len(h) : Append(h, v)[i] = h[i]
      /\ Append(h, v)[Len(h) + 1] = v
  BY <1>1
<1>3. /\ G \in Seq(Seq(Nat)) /\ Len(G) = m
      /\ G[m] = Append(h, v)
      /\ \A e \in 1..m : e # m => G[e] = H[e]
  BY <1>1, <1>2, ExceptSeq DEF Visited
<1> HIDE DEF G
<1>4. Len(h) \in 1..Len(h)
  BY <1>1
<1>5. OneFurther(H, G, m, Len(h), n, v)
  BY <1>1, <1>2, <1>3, <1>4 DEF OneFurther
<1> QED
  BY <1>5 DEF G

\* The choices of G: those of H, and the one at n if there is one.
MoreChoices(C, H, G, m, l, n) ==
  /\ \A e, i : Chooses(C, H, e, i) => /\ Chooses(C, G, e, i) /\ ~(e = m /\ i = l)
                                      /\ G[e][i] = H[e][i] /\ G[e][i + 1] = H[e][i + 1]
  /\ \A e, i : Chooses(C, G, e, i) => \/ Chooses(C, H, e, i)
                                      \/ e = m /\ i = l /\ Forks(C, n)
  /\ Forks(C, n) => Chooses(C, G, m, l)

\* One node further there is one choice more, if the node left has a choice.
LEMMA ChoicesFurther ==
  ASSUME NEW C, NEW H, NEW G, NEW m, NEW l, NEW n, NEW v, OneFurther(H, G, m, l, n, v)
  PROVE  MoreChoices(C, H, G, m, l, n)
<1>1. ASSUME NEW e, NEW i, Chooses(C, H, e, i)
      PROVE  /\ Chooses(C, G, e, i) /\ ~(e = m /\ i = l)
             /\ G[e][i] = H[e][i] /\ G[e][i + 1] = H[e][i + 1]
  <2>1. e \in 1..m /\ i \in 1..(Len(H[e]) - 1) /\ Forks(C, H[e][i])
    BY <1>1 DEF Chooses, OneFurther
  <2>2. CASE e = m
    <3>1. i \in 1..l /\ i + 1 \in 1..l /\ i # l /\ i \in 1..((l + 1) - 1)
      BY <2>1, <2>2 DEF OneFurther
    <3>2. /\ G[m][i] = H[m][i] /\ G[m][i + 1] = H[m][i + 1]
          /\ Len(G[m]) = l + 1 /\ m \in 1..Len(G)
      BY <3>1 DEF OneFurther
    <3> QED
      BY <2>1, <2>2, <3>1, <3>2 DEF Chooses
  <2>3. CASE e # m
    BY <2>1, <2>3 DEF Chooses, OneFurther
  <2> QED
    BY <2>2, <2>3
<1>2. ASSUME NEW e, NEW i, Chooses(C, G, e, i)
      PROVE  Chooses(C, H, e, i) \/ (e = m /\ i = l /\ Forks(C, n))
  <2>1. e \in 1..m /\ i \in 1..(Len(G[e]) - 1) /\ Forks(C, G[e][i])
    BY <1>2 DEF Chooses, OneFurther
  <2>2. CASE e = m
    <3>1. i \in 1..l /\ (i # l => i \in 1..(l - 1))
      BY <2>1, <2>2 DEF OneFurther
    <3>2. G[m][i] = H[m][i] /\ Len(H[m]) = l /\ m \in 1..Len(H) /\ G[m][l] = n
      BY <3>1 DEF OneFurther
    <3> QED
      BY <2>1, <2>2, <3>1, <3>2 DEF Chooses
  <2>3. CASE e # m
    BY <2>1, <2>3 DEF Chooses, OneFurther
  <2> QED
    BY <2>2, <2>3
<1>3. ASSUME Forks(C, n) PROVE Chooses(C, G, m, l)
  <2>1. l \in 1..((l + 1) - 1) /\ Len(G[m]) = l + 1 /\ m \in 1..Len(G) /\ G[m][l] = n
    BY DEF OneFurther
  <2> QED
    BY <1>3, <2>1 DEF Chooses
<1> QED
  BY <1>1, <1>2, <1>3 DEF MoreChoices

\* A step from a node with one successor records nothing.
LEMMA GoingStraightOn ==
  ASSUME NEW C, NEW H, NEW B, NEW V, Recorded(C, H, B, V),
         NEW G, NEW m, NEW l, NEW n, NEW v, OneFurther(H, G, m, l, n, v), ~Forks(C, n)
  PROVE  Recorded(C, G, B, V)
<1>1. /\ \A e, i : Chooses(C, H, e, i) => /\ Chooses(C, G, e, i)
                                          /\ G[e][i] = H[e][i] /\ G[e][i + 1] = H[e][i + 1]
      /\ \A e, i : Chooses(C, G, e, i) => Chooses(C, H, e, i)
  <2>1. MoreChoices(C, H, G, m, l, n)
    BY ChoicesFurther
  <2> QED
    BY <2>1 DEF MoreChoices
<1>2. Len(G) = Len(H)
  BY DEF OneFurther
<1>3. \A e \in 1..Len(G) : \A i : i \in B[e] <=> Chooses(C, G, e, i)
  BY <1>1, <1>2 DEF Recorded
<1>4. ASSUME NEW p
      PROVE  p \in V <=> \E e, i : Chooses(C, G, e, i) /\ p = <<G[e][i], G[e][i + 1]>>
  <2>1. p \in V <=> \E e, i : Chooses(C, H, e, i) /\ p = <<H[e][i], H[e][i + 1]>>
    BY DEF Recorded
  <2> QED
    BY <1>1, <2>1
<1> QED
  BY <1>3, <1>4 DEF Recorded

\* A step from a node with two records its position and its edge.
OneMore(B, A, V, W, m, l, n, v) ==
  /\ \A e \in 1..m : A[e] = IF e = m THEN B[m] \cup {l} ELSE B[e]
  /\ W = V \cup {<<n, v>>}

\* With that choice recorded, all choices are recorded again.
LEMMA GoingOneWay ==
  ASSUME NEW C, NEW H, NEW B, NEW V, Recorded(C, H, B, V),
         NEW G, NEW m, NEW l, NEW n, NEW v, OneFurther(H, G, m, l, n, v), Forks(C, n),
         NEW A, NEW W, OneMore(B, A, V, W, m, l, n, v)
  PROVE  Recorded(C, G, A, W)
<1>1. /\ \A e, i : Chooses(C, H, e, i) => /\ Chooses(C, G, e, i) /\ ~(e = m /\ i = l)
                                          /\ G[e][i] = H[e][i] /\ G[e][i + 1] = H[e][i + 1]
      /\ \A e, i : Chooses(C, G, e, i) => Chooses(C, H, e, i) \/ (e = m /\ i = l)
      /\ Chooses(C, G, m, l)
  <2>1. MoreChoices(C, H, G, m, l, n)
    BY ChoicesFurther
  <2> QED
    BY <2>1 DEF MoreChoices
<1>2. Len(G) = m /\ Len(H) = m /\ G[m][l] = n /\ G[m][l + 1] = v
  BY DEF OneFurther
<1>3. ASSUME NEW e \in 1..Len(G), NEW i
      PROVE  i \in A[e] <=> Chooses(C, G, e, i)
  <2>1. i \in B[e] <=> Chooses(C, H, e, i)
    BY <1>2 DEF Recorded
  <2>2. i \in A[e] <=> i \in B[e] \/ (e = m /\ i = l)
    BY <1>2 DEF OneMore
  <2> QED
    BY <1>1, <2>1, <2>2
<1>4. ASSUME NEW p
      PROVE  p \in W <=> \E e, i : Chooses(C, G, e, i) /\ p = <<G[e][i], G[e][i + 1]>>
  <2>1. p \in V <=> \E e, i : Chooses(C, H, e, i) /\ p = <<H[e][i], H[e][i + 1]>>
    BY DEF Recorded
  <2>2. p \in W => \E e, i : Chooses(C, G, e, i) /\ p = <<G[e][i], G[e][i + 1]>>
    BY <1>1, <1>2, <2>1 DEF OneMore
  <2>3. ASSUME NEW e, NEW i, Chooses(C, G, e, i), p = <<G[e][i], G[e][i + 1]>>
        PROVE  p \in W
    BY <1>1, <1>2, <2>1, <2>3 DEF OneMore
  <2> QED
    BY <2>2, <2>3
<1> QED
  BY <1>3, <1>4 DEF Recorded

\* A new history has chosen nothing yet.
LEMMA BeginningChoosesNothing ==
  ASSUME NEW C, NEW H \in Seq(Seq(Nat)), NEW B, Len(B) = Len(H), NEW V, Recorded(C, H, B, V),
         NEW S, B \in Seq(S), {} \in S
  PROVE  Recorded(C, Append(H, <<1>>), Append(B, {}), V)
<1> DEFINE G == Append(H, <<1>>)
           A == Append(B, {})
           m == Len(H)
<1>1. <<1>> \in Seq(Nat) /\ Len(<<1>>) = 1
  OBVIOUS
<1>2. /\ m \in Nat /\ Len(G) = m + 1 /\ G[m + 1] = <<1>>
      /\ \A e \in 1..m : G[e] = H[e]
  BY <1>1, AppendProperties, LenProperties
<1>3. A[m + 1] = {} /\ \A e \in 1..m : A[e] = B[e]
  BY AppendProperties
<1> HIDE DEF G, A
<1>4. \A e, i : Chooses(C, G, e, i) <=> Chooses(C, H, e, i)
  <2> TAKE e, i
  <2>1. CASE e \in 1..m
    BY <1>2, <2>1, SMTT(30) DEF Chooses
  <2>2. CASE e \notin 1..m
    <3>1. ~Chooses(C, H, e, i)
      BY <2>2 DEF Chooses
    <3>2. ASSUME Chooses(C, G, e, i) PROVE FALSE
      <4>1. e = m + 1
        BY <1>2, <2>2, <3>2 DEF Chooses
      <4>2. i \in 1..(1 - 1)
        BY <1>1, <1>2, <3>2, <4>1 DEF Chooses
      <4> QED
        BY <4>2
    <3> QED
      BY <3>1, <3>2
  <2> QED
    BY <2>1, <2>2
<1>5. ASSUME NEW e \in 1..Len(G), NEW i
      PROVE  i \in A[e] <=> Chooses(C, G, e, i)
  <2>1. CASE e \in 1..m
    BY <1>3, <1>4, <2>1 DEF Recorded
  <2>2. CASE e \notin 1..m
    <3>1. e = m + 1
      BY <1>2, <2>2
    <3>2. ~Chooses(C, H, e, i)
      BY <2>2 DEF Chooses
    <3> QED
      BY <1>3, <1>4, <3>1, <3>2
  <2> QED
    BY <2>1, <2>2
<1>6. \A e, i : Chooses(C, H, e, i) => G[e] = H[e]
  BY <1>2 DEF Chooses
<1>7. \A p : p \in V <=> \E e, i : Chooses(C, G, e, i) /\ p = <<G[e][i], G[e][i + 1]>>
  BY <1>4, <1>6 DEF Recorded
<1>8. Recorded(C, G, A, V)
  BY <1>5, <1>7 DEF Recorded
<1> QED
  BY <1>8 DEF G, A

-----------------------------------------------------------------------------
\* The successors of a node are the nodes it leads to.
LEMMA SuccessorsLed ==
  ASSUME NEW C, Good(C), NEW n \in C.nodes
  PROVE  \A w : w \in C.succ[n] <=> Leads(C, n, w)
<1>1. /\ C.succ[n] = {m \in C.nodes : <<n, m>> \in DOMAIN C.edges}
      /\ \A w : <<n, w>> \in DOMAIN C.edges => w \in C.nodes
  BY DEF Good, IsDigraph
<1> QED
  BY <1>1 DEF Leads

\* A node has the same successors in two components if it leads to the same
\* nodes; if it leads to one only, it does not fork.
LEMMA SameSuccessors ==
  ASSUME NEW C, NEW D, Good(C), Good(D), NEW n \in C.nodes, n \in D.nodes,
         \A w : Leads(C, n, w) <=> Leads(D, n, w)
  PROVE  Forks(D, n) <=> Forks(C, n)
<1>1. \A w : w \in C.succ[n] <=> w \in D.succ[n]
  BY SuccessorsLed
<1>2. C.succ[n] = D.succ[n]
  BY <1>1
<1> QED
  BY <1>2 DEF Forks

\* A node with a single successor is no branching.
LEMMA OneSuccessor ==
  ASSUME NEW C, Good(C), NEW n \in C.nodes, NEW v, Leads(C, n, v),
         \A w : Leads(C, n, w) => w = v
  PROVE  ~Forks(C, n)
<1>1. C.succ[n] = {v}
  <2>1. \A w : w \in C.succ[n] <=> w = v
    BY SuccessorsLed
  <2> QED
    BY <2>1
<1>2. Cardinality({v}) = 1
  BY FS_Singleton
<1> QED
  BY <1>1, <1>2 DEF Forks

\* A node that was passed leads to the next one in the history.
LEMMA PassedNodes ==
  ASSUME NEW C, NEW H, NEW n, Walks(C, H, n),
         NEW e \in 1..Len(H), NEW i \in 1..(Len(H[e]) - 1)
  PROVE  /\ Leads(C, H[e][i], H[e][i + 1])
         /\ H[e][i] \in SeenIn(H) /\ H[e][i + 1] \in SeenIn(H)
<1>1. Leads(C, H[e][i], H[e][i + 1]) /\ H[e] \in Seq(Nat)
  BY DEF Walks
<1>2. i \in 1..Len(H[e]) /\ i + 1 \in 1..Len(H[e])
  BY <1>1
<1>3. H[e][i] \in Nat /\ H[e][i + 1] \in Nat
  BY <1>1, <1>2
<1> QED
  BY <1>1, <1>2, <1>3 DEF SeenIn

\* A new execution has made no choice.
LEMMA BeginKeepsBranches ==
  ASSUME ShapeInv, RecordsInv, BranchesInv, Begin
  PROVE  BranchesInv'
<1>1. /\ histories' = Append(histories, <<1>>)
      /\ branchings' = Append(branchings, {})
      /\ UNCHANGED <<comp, visited>>
      /\ histories \in Seq(Seq(Nat))
  BY DEF ShapeInv, GraphOK, Walks, Begin, program
<1>2. /\ branchings \in Seq(SUBSET Nat) /\ {} \in SUBSET Nat
      /\ Len(branchings) = Len(histories)
  BY DEF RecordsInv, current
<1>3. Recorded(comp, histories, branchings, visited)
  BY DEF BranchesInv
<1>4. Recorded(comp, Append(histories, <<1>>), Append(branchings, {}), visited)
  BY <1>1, <1>2, <1>3, BeginningChoosesNothing
<1> QED
  BY <1>1, <1>4 DEF BranchesInv

\* What is put behind the node x, which was not passed, and erased there does not
\* change where the nodes that were passed lead to.
LEMMA GraftKeepsWays ==
  ASSUME ShapeInv,
         NEW D, NEW x, NEW l, NEW T, Grafted(comp, D, x, fresh, l, T), ErasedOK(comp, x, T),
         \A t \in T : t \notin Seen,
         NEW e \in 1..Len(histories), NEW i \in 1..(Len(histories[e]) - 1)
  PROVE  /\ Forks(D, histories[e][i]) <=> Forks(comp, histories[e][i])
         /\ \A z : Leads(comp, histories[e][i], z) <=> Leads(D, histories[e][i], z)
<1> DEFINE n == histories[e][i]
           w == histories[e][i + 1]
<1>1. GraphOK(comp, fresh) /\ Walks(comp, histories, cpu.node) /\ Good(comp) /\ Good(D)
  BY DEF ShapeInv, GraphOK, Grafted
<1>2. Leads(comp, n, w) /\ n \in Seen /\ w \in Seen
  BY <1>1, PassedNodes DEF Seen
<1> HIDE DEF n, w
<1>3. n # x /\ n \in comp.nodes
  BY <1>1, <1>2 DEF Grafted, Good, IsDigraph, Leads
<1>4. n \in D.nodes
  BY <1>2, <1>3 DEF Grafted
<1>5. \A u, t : Leads(comp, u, t) /\ t \in T => u = x
  BY DEF ErasedOK
<1>6. \A z : Leads(comp, n, z) <=> Leads(D, n, z)
  <2> TAKE z
  <2>1. /\ Leads(comp, n, z) /\ z \notin T => Leads(D, n, z)
        /\ Leads(D, n, z) /\ n \in comp.nodes /\ n # x => Leads(comp, n, z)
    BY <1>1, OldEdges
  <2> QED
    BY <1>3, <1>5, <2>1
<1>7. Forks(D, n) <=> Forks(comp, n)
  BY <1>1, <1>3, <1>4, <1>6, SameSuccessors
<1> QED
  BY <1>6, <1>7 DEF n

\* Nor does it change the choices made there.
LEMMA GraftKeepsChoices ==
  ASSUME ShapeInv, BranchesInv,
         NEW D, NEW x, NEW l, NEW T, Grafted(comp, D, x, fresh, l, T), ErasedOK(comp, x, T),
         \A t \in T : t \notin Seen
  PROVE  Recorded(D, histories, branchings, visited)
<1>1. \A e \in 1..Len(histories) : \A i \in 1..(Len(histories[e]) - 1) :
        Forks(D, histories[e][i]) <=> Forks(comp, histories[e][i])
  BY GraftKeepsWays
<1>2. Recorded(comp, histories, branchings, visited)
  BY DEF BranchesInv
<1> QED
  BY <1>1, <1>2, ChoicesKept

\* Recognised code makes no branching of a node some execution has left.
LEMMA RecognisingKeepsBranches ==
  ASSUME ShapeInv, RecordsInv, BranchesInv, Recognise
  PROVE  BranchesInv'
<1>1. UNCHANGED <<histories, branchings, visited>>
  BY DEF Recognise
<1>2. Grafted(comp, comp', cpu.node, fresh, fresh', {})
  BY RecogniseMerges DEF Merges
<1>3. ErasedOK(comp, cpu.node, {})
  BY DEF ErasedOK
<1>4. Recorded(comp', histories, branchings, visited)
  BY <1>2, <1>3, GraftKeepsChoices
<1> QED
  BY <1>1, <1>4 DEF BranchesInv

\* Where the thread goes straight on nothing is recorded.
LEMMA StraightKeepsBranches ==
  ASSUME ShapeInv, Running, NEW D, Recorded(D, histories, branchings, visited),
         ~Forks(D, cpu.node), NEW v \in Nat, Visit(v)
  PROVE  Recorded(D, histories', branchings, visited)
<1>1. /\ Walks(comp, histories, cpu.node) /\ Len(histories) > 0
      /\ histories' = Visited(histories, v)
  BY DEF ShapeInv, Running, current, Visit, Visited, History
<1>2. OneFurther(histories, histories', Len(histories), Len(histories[Len(histories)]), cpu.node, v)
  BY <1>1, VisitedIsOneFurther
<1> QED
  BY <1>2, GoingStraightOn

\* Executing an instruction: straight on, or one of two ways.
LEMMA GoingOnKeepsBranches ==
  ASSUME ShapeInv, RecordsInv, BranchesInv, NEW v, GoesOn(v), Execute(v) \/ ExecuteBranching(v)
  PROVE  BranchesInv'
<1>1. /\ Running /\ Leads(comp, cpu.node, v) /\ Visit(v) /\ comp' = comp
      /\ GraphOK(comp, fresh) /\ Good(comp) /\ cpu.node \in comp.nodes
      /\ v \in Nat
  BY ThreadEdges DEF GoesOn, program, ShapeInv, GraphOK
<1>2. Recorded(comp, histories, branchings, visited)
  BY DEF BranchesInv
<1>3. CASE Execute(v)
  <2>1. UNCHANGED <<branchings, visited>> /\ comp.succ[cpu.node] = {v}
    BY <1>3 DEF Execute, OnlyEdge
  <2>2. ~Forks(comp, cpu.node)
    BY <2>1, FS_Singleton DEF Forks
  <2>3. Recorded(comp, histories', branchings, visited)
    BY <1>1, <1>2, <2>2, StraightKeepsBranches
  <2> QED
    BY <1>1, <2>1, <2>3 DEF BranchesInv
<1>4. CASE ExecuteBranching(v)
  <2>1. /\ branchings' = [branchings EXCEPT ![current] = @ \cup {Position}]
        /\ visited' = visited \cup {<<cpu.node, v>>}
        /\ Forks(comp, cpu.node)
    BY <1>4 DEF ExecuteBranching, Forks
  <2>2. /\ Walks(comp, histories, cpu.node) /\ Len(histories) > 0
        /\ histories' = Visited(histories, v)
        /\ Position = Len(histories[Len(histories)])
        /\ current = Len(histories)
    BY <1>1 DEF ShapeInv, Running, current, Visit, Visited, History, Position
  <2> DEFINE m == Len(histories)
             l == Len(histories[m])
  <2>3. OneFurther(histories, histories', m, l, cpu.node, v)
    BY <1>1, <2>2, VisitedIsOneFurther
  <2>4. DOMAIN branchings = 1..m
    <3>1. branchings \in Seq(SUBSET Nat) /\ Len(branchings) = current
      BY DEF RecordsInv
    <3>2. DOMAIN branchings = 1..Len(branchings)
      BY <3>1
    <3> QED
      BY ONLY <2>2, <3>1, <3>2
  <2>5. branchings' = [branchings EXCEPT ![m] = @ \cup {l}]
    BY <2>1, <2>2
  <2> HIDE DEF m, l
  <2>6. \A e \in 1..m : branchings'[e] = IF e = m THEN branchings[m] \cup {l} ELSE branchings[e]
    BY <2>4, <2>5
  <2>7. OneMore(branchings, branchings', visited, visited', m, l, cpu.node, v)
    BY <2>1, <2>6 DEF OneMore
  <2>8. Recorded(comp, histories', branchings', visited')
    BY ONLY <1>2, <2>1, <2>3, <2>7, GoingOneWay
  <2> QED
    BY <1>1, <2>8 DEF BranchesInv
<1> QED
  BY <1>3, <1>4

\* Only its head is behind an indirect jump.
LEMMA EnteringOldKeepsBranches ==
  ASSUME ShapeInv, RecordsInv, BranchesInv, NEW v, NEW ip, EntersOld(v, ip)
  PROVE  BranchesInv'
<1>1. /\ Running /\ Jumps(comp, cpu.node, v) /\ Visit(v)
      /\ UNCHANGED <<comp, visited, branchings>>
      /\ GraphOK(comp, fresh) /\ Good(comp) /\ cpu.node \in comp.nodes
      /\ JumpsOK(comp, switches, Seen)
  BY DEF EntersOld, Jumped, program, ShapeInv, GraphOK
<1>2. Leads(comp, cpu.node, v) /\ v \in Nat /\ \A w : Leads(comp, cpu.node, w) => w = v
  BY <1>1, ThreadEdges DEF Jumps, JumpsOK, GraphOK
<1>3. ~Forks(comp, cpu.node)
  BY <1>1, <1>2, OneSuccessor
<1>4. Recorded(comp, histories', branchings, visited)
  BY <1>1, <1>2, <1>3, StraightKeepsBranches DEF BranchesInv
<1> QED
  BY <1>1, <1>4 DEF BranchesInv

\* Nor does a new case: the head has one successor, the comparison.
LEMMA EnteringNewKeepsBranches ==
  ASSUME ShapeInv, RecordsInv, BranchesInv, NEW v, NEW ip, NEW r, EntersNew(v, ip, r)
  PROVE  BranchesInv'
<1>1. /\ Running /\ Jumps(comp, cpu.node, v) /\ Visit(v)
      /\ UNCHANGED <<visited, branchings>>
      /\ GraphOK(comp, fresh) /\ Good(comp) /\ cpu.node \in comp.nodes
      /\ JumpsOK(comp, switches, Seen)
  BY DEF EntersNew, Jumped, ShapeInv, GraphOK
<1>2. Leads(comp, cpu.node, v) /\ v \in Nat /\ \A w : Leads(comp, cpu.node, w) => w = v
  BY <1>1, ThreadEdges DEF Jumps, JumpsOK, GraphOK
<1> DEFINE d == InfoOf(switches, v).default
<1>3. /\ Grafted(comp, comp', d, fresh, fresh', Erased(v))
      /\ ErasedOK(comp, d, Erased(v))
      /\ \A t \in Erased(v) : t \notin Seen /\ t # v
      /\ Leads(comp', cpu.node, v)
  BY NewCaseIsGrafted
<1> HIDE DEF d
<1>4. Recorded(comp', histories, branchings, visited)
  BY <1>3, GraftKeepsChoices
<1>5. cpu.node # d /\ Good(comp')
  BY <1>2, <1>3 DEF Grafted
<1>6. \A w : Leads(comp', cpu.node, w) => w = v
  BY <1>1, <1>2, <1>3, <1>5, OldEdges
<1>7. cpu.node \in comp'.nodes
  BY <1>3, <1>5 DEF Good, IsDigraph, Leads
<1>8. ~Forks(comp', cpu.node)
  BY <1>3, <1>5, <1>6, <1>7, OneSuccessor
<1>9. Recorded(comp', histories', branchings, visited)
  BY <1>1, <1>2, <1>4, <1>8, StraightKeepsBranches
<1> QED
  BY <1>1, <1>9 DEF BranchesInv

\* Every step records the branchings.
LEMMA StepKeepsBranches ==
  ASSUME ShapeInv, RecordsInv, BranchesInv, [Next]_vars
  PROVE  BranchesInv'
<1>1. CASE Rests
  BY <1>1 DEF Rests, program, BranchesInv
<1> QED
  BY <1>1, NextCases, BeginKeepsBranches, RecognisingKeepsBranches, GoingOnKeepsBranches,
     EnteringOldKeepsBranches, EnteringNewKeepsBranches

\* At first there is no history.
LEMMA BranchesInitially ==
  ASSUME Init
  PROVE  BranchesInv
<1>1. Len(histories) = 0 /\ visited = {}
  BY EmptySeq DEF Init
<1>2. \A e, i : ~Chooses(comp, histories, e, i)
  BY <1>1 DEF Chooses
<1>3. 1..Len(histories) = {}
  BY <1>1
<1> QED
  BY <1>1, <1>2, <1>3 DEF BranchesInv, Recorded

\* The branchings of the executions.
THEOREM BranchesHold == Spec => []BranchesInv
<1>1. Init => BranchesInv
  BY BranchesInitially
<1>2. ShapeInv /\ RecordsInv /\ BranchesInv /\ [Next]_vars => BranchesInv'
  BY StepKeepsBranches
<1> QED
  BY <1>1, <1>2, ShapeHolds, RecordsHold, PTL DEF Spec

\* The recorded branchings are exactly the positions where a history chose, and
\* the visited edges exactly those it chose.
THEOREM BranchingsAreAllRecorded == Spec => []BranchingsAreRecorded
<1>1. BranchesInv => BranchingsAreRecorded
  <2> SUFFICES ASSUME BranchesInv PROVE BranchingsAreRecorded
    OBVIOUS
  <2> DEFINE chosen(e) == {i \in 1..(Len(histories[e]) - 1) : Cardinality(comp.succ[histories[e][i]]) = 2}
             taken(e) == {<<histories[e][i], histories[e][i + 1]>> : i \in chosen(e)}
  <2>1. \A e \in 1..current : \A i : i \in chosen(e) <=> Chooses(comp, histories, e, i)
    BY DEF Chooses, Forks, current
  <2>2. \A e, i : Chooses(comp, histories, e, i) => e \in 1..current
    BY DEF Chooses, current
  <2>3. \A e \in 1..current : \A i : i \in branchings[e] <=> Chooses(comp, histories, e, i)
    BY DEF BranchesInv, Recorded, current
  <2>4. \A p : p \in visited <=> \E e, i : /\ Chooses(comp, histories, e, i)
                                           /\ p = <<histories[e][i], histories[e][i + 1]>>
    BY DEF BranchesInv, Recorded
  <2> HIDE DEF chosen
  <2>5. \A e \in 1..current : branchings[e] = chosen(e)
    BY <2>1, <2>3
  <2>6. \A p : p \in visited <=> \E e \in 1..current : p \in taken(e)
    BY <2>1, <2>2, <2>4
  <2>7. visited = UNION {taken(e) : e \in 1..current}
    BY <2>6
  <2> QED
    BY <2>5, <2>7 DEF BranchingsAreRecorded, chosen
<1> QED
  BY <1>1, BranchesHold, PTL

\* Of what the search for the next goal promises: its goals have been passed.
GoalsHaveTraces == \A x : \A goal \in Goals(x) : HasTrace(goal)

\* A goal starts at a branching of which an edge was visited, so an execution has
\* passed it: find_traces_related_to_next_goal finds one for every goal.
THEOREM TracesAreFound == Spec => []GoalsHaveTraces
<1>1. BranchesInv => GoalsHaveTraces
  <2> SUFFICES ASSUME BranchesInv, NEW x, NEW goal \in Goals(x) PROVE HasTrace(goal)
    BY DEF GoalsHaveTraces
  <2>1. goal[1] \in HalfVisited
    BY DEF Goals
  <2>2. PICK v : <<goal[1], v>> \in visited
    BY <2>1 DEF HalfVisited
  <2>3. PICK e, i : /\ Chooses(comp, histories, e, i)
                    /\ <<goal[1], v>> = <<histories[e][i], histories[e][i + 1]>>
    BY <2>2 DEF BranchesInv, Recorded
  <2>4. e \in 1..current /\ i \in branchings[e] /\ histories[e][i] = goal[1]
    BY <2>3 DEF BranchesInv, Recorded, Chooses, current
  <2> QED
    BY <2>4 DEF HasTrace
<1> QED
  BY <1>1, BranchesHold, PTL

-----------------------------------------------------------------------------
(***************************************************************************)
(* The fifth layer: the addresses of the nodes.  Apart from the chains of  *)
(* the switches the thread is where its IP is, and as long as there is no  *)
(* indirect jump, what a recognised instruction leads to was recognised    *)
(* too or is an exit behind no STOP.                                       *)
(***************************************************************************)
Boundary(C, K, n) ==
  n \in DOMAIN K \/ (n \in C.nodes /\ IsSink(C, n) /\ ~StoppedAt(C, n))

HasJump(C) == \E u, w : Jumps(C, u, w)

CodeFollows(I, C, K, L) ==
  /\ \A n \in DOMAIN K : K[n] \in DOMAIN I /\ I[K[n]].op \in Recognisable
  /\ Boundary(C, K, 1)
  /\ \A n \in DOMAIN K : I[K[n]].op \in {"jmpreg", "ret"} => HasJump(C)
  /\ ~HasJump(C) =>
       \A n \in DOMAIN K : \A b \in Offsets(I[K[n]]) :
         \E m : Boundary(C, K, m) /\ L[m] = K[n] + b

Addressed(L) ==
  /\ LabelsOK(comp, switches, known, L)
  /\ CodeFollows(image, comp, known, L)
  /\ ~Chained(switches, cpu.node) => cpu.ip = L[cpu.node]

AddressesInv == \E L : Addressed(L)

\* Beginning, the thread is at the entry.
LEMMA BeginKeepsAddresses ==
  ASSUME ShapeInv, AddressesInv, Begin
  PROVE  AddressesInv'
<1>1. PICK L : Addressed(L)
  BY DEF AddressesInv
<1>2. /\ cpu' = [node |-> 1, ip |-> EntryPoint, tmp |-> 1]
      /\ UNCHANGED <<image, comp, switches, known>>
  BY DEF ShapeInv, GraphOK, Begin, program
<1>3. L[1] = EntryPoint
  BY <1>1 DEF Addressed, LabelsOK
<1>4. Addressed(L)'
  BY <1>1, <1>2, <1>3 DEF Addressed
<1> QED
  BY <1>4 DEF AddressesInv

\* Going on it follows the addresses.
LEMMA GoingOnKeepsAddresses ==
  ASSUME ShapeInv, AddressesInv, NEW v, GoesOn(v)
  PROVE  AddressesInv'
<1>1. PICK L : Addressed(L)
  BY DEF AddressesInv
<1>2. /\ Leads(comp, cpu.node, v) /\ cpu'.node = v
      /\ Executes(Along(comp, cpu.node, v), cpu.ip, cpu.tmp, cpu'.ip, cpu'.tmp)
      /\ UNCHANGED <<image, comp, switches, known>>
  BY DEF GoesOn, program
<1>3. /\ GraphOK(comp, fresh) /\ SwitchesOK(comp, switches)
      /\ JumpsOK(comp, switches, Seen)
      /\ ThreadOK(switches, cpu.node, cpu.ip, cpu.tmp)
      /\ cpu.ip \in Int
  BY DEF ShapeInv, GoesOn, Running
<1>4. /\ LabelsOK(comp, switches, known, L)
      /\ ~Chained(switches, cpu.node) => cpu.ip = L[cpu.node]
  BY <1>1 DEF Addressed
<1>5. ~Chained(switches, v) => cpu'.ip = L[v]
  BY ONLY <1>2, <1>3, <1>4, LabelsFollowed
<1>6. Addressed(L)'
  BY <1>1, <1>2, <1>5 DEF Addressed
<1> QED
  BY <1>6 DEF AddressesInv

\* Through an indirect jump it enters a chain.
LEMMA EnteringOldKeepsAddresses ==
  ASSUME AddressesInv, ShapeInv, NEW v, NEW ip, EntersOld(v, ip)
  PROVE  AddressesInv'
<1>1. PICK L : Addressed(L)
  BY DEF AddressesInv
<1>2. /\ cpu'.node = v
      /\ v \in DOMAIN switches
      /\ UNCHANGED <<image, comp, switches, known>>
  BY DEF EntersOld, Jumped, program, ShapeInv
<1>3. Chained(switches, v)
  BY <1>2 DEF Chained, InChain
<1>4. Addressed(L)'
  BY <1>1, <1>2, <1>3 DEF Addressed
<1> QED
  BY <1>4 DEF AddressesInv

\* A default has a node before it, with an edge that is no STOP.
LEMMA DefaultHangs ==
  ASSUME NEW C, NEW f, GraphOK(C, f), NEW S, SwitchesOK(C, S), NEW N, JumpsOK(C, S, N),
         NEW n, NEW h, Jumps(C, n, h), NEW info, info = InfoOf(S, h)
  PROVE  \E u : Leads(C, u, info.default) /\ Along(C, u, info.default).gik # "STOP"
<1>1. SwitchShape(C, h, info)
  BY HeadHangs
<1>2. CASE info.default = h
  BY <1>2 DEF Jumps, IsSwitchInstruction
<1>3. CASE info.default # h
  <2>1. IsPoint(h, info, info.default)
    BY <1>1 DEF SwitchShape
  <2>2. PICK a \in DOMAIN info.cases : info.default = info.cases[a] - 1
    BY <1>3, <2>1 DEF IsPoint
  <2>3. /\ Leads(C, info.cases[a] - 3, info.cases[a] - 1)
        /\ Along(C, info.cases[a] - 3, info.cases[a] - 1) = Ins("NE", "tmp")
    BY <1>1, CaseNodes
  <2> QED
    BY <2>2, <2>3 DEF Ins
<1> QED
  BY <1>2, <1>3

\* A new case has an address, and there is an indirect jump.
LEMMA EnteringNewKeepsAddresses ==
  ASSUME ShapeInv, RecordsInv, AddressesInv, NEW v, NEW ip, NEW r, EntersNew(v, ip, r)
  PROVE  AddressesInv'
<1>1. PICK M : Addressed(M)
  BY DEF AddressesInv
<1>2. /\ CaseGoesIn(comp, fresh, switches, Seen, cpu.node, v, ip, r, switches')
      /\ ip \in Int /\ comp' = r.comp
      /\ Jumps(comp', cpu.node, v)
  BY CaseEnters
<1>3. DOMAIN known \subseteq Seen /\ LabelsOK(comp, switches, known, M)
  BY <1>1 DEF RecordsInv, Addressed
<1>4. PICK L : LabelsOK(r.comp, switches', known, L)
  BY ONLY <1>2, <1>3, LabelsWithCase
<1>5. cpu'.node = v /\ image' = image /\ known' = known
  BY DEF EntersNew, Jumped, ShapeInv
<1>6. Chained(switches', v)
  BY <1>2 DEF CaseGoesIn, Chained, InChain
<1>7. HasJump(comp')
  BY <1>2 DEF HasJump
<1>8. Boundary(comp', known, 1)
  <2>1. CASE 1 \in DOMAIN known
    BY <2>1 DEF Boundary
  <2>2. CASE 1 \notin DOMAIN known
    <3>1. 1 \in comp.nodes /\ IsSink(comp, 1)
      BY <1>1, <2>2 DEF Addressed, CodeFollows, Boundary
    <3>2. /\ GraphOK(comp, fresh) /\ SwitchesOK(comp, switches)
          /\ JumpsOK(comp, switches, Seen) /\ Jumps(comp, cpu.node, v)
          /\ GraphOK(comp', fresh')
      BY EnteringNewKeepsShape DEF ShapeInv, EntersNew, Jumped
    <3>3. /\ Grafted(comp, comp', InfoOf(switches, v).default, fresh, fresh', Erased(v))
          /\ ErasedOK(comp, InfoOf(switches, v).default, Erased(v))
          /\ \A t \in Erased(v) : Leads(comp, v, t)
      BY NewCaseIsGrafted
    <3>4. /\ \A u : ~Leads(comp, u, 1)
          /\ \A u : ~Leads(comp', u, 1)
      BY <3>2 DEF GraphOK
    <3>5. 1 # InfoOf(switches, v).default
      BY <3>2, <3>4, DefaultHangs
    <3>6. 1 \notin Erased(v)
      BY <3>3, <3>4
    <3>7. IsSink(comp', 1)
      BY <3>1, <3>2, <3>3, <3>5, <3>6, SinksKept
    <3>8. 1 \in comp'.nodes /\ ~StoppedAt(comp', 1)
      BY <3>2, <3>4 DEF GraphOK, Good, StoppedAt
    <3> QED
      BY <3>7, <3>8 DEF Boundary
  <2> QED
    BY <2>1, <2>2
<1>9. CodeFollows(image, comp', known, L)
  BY <1>1, <1>7, <1>8 DEF Addressed, CodeFollows
<1>10. Addressed(L)'
  BY <1>2, <1>4, <1>5, <1>6, <1>9 DEF Addressed
<1> QED
  BY <1>10 DEF AddressesInv

\* Where the thread cannot go on it is in no chain.
LEMMA SinksAreFree ==
  ASSUME NEW C, NEW f, GraphOK(C, f), NEW S, SwitchesOK(C, S), NEW n, IsSink(C, n),
         NEW ip, NEW tmp, ThreadOK(S, n, ip, tmp)
  PROVE  ~Chained(S, n)
<1> SUFFICES ASSUME NEW h \in DOMAIN S, InChain(h, S[h], n) PROVE FALSE
  BY DEF Chained
<1>1. SwitchOK(C, h, S[h]) /\ S[h].default # n
  BY ThreadNotAtDefault DEF SwitchesOK
<1> QED
  BY <1>1, ChainGoesOn DEF IsSink

\* Code merged behind x, which was recognised now, leaves the other boundaries.
LEMMA BoundariesKept ==
  ASSUME NEW C, NEW f, GraphOK(C, f), NEW D, NEW x, NEW l, Grafted(C, D, x, f, l, {}),
         NEW K, NEW J, DOMAIN J = DOMAIN K \cup {x},
         NEW m, Boundary(C, K, m)
  PROVE  Boundary(D, J, m)
<1>1. ErasedOK(C, x, {})
  BY DEF ErasedOK
<1>2. m \in C.nodes => /\ IsSink(C, m) /\ m # x => IsSink(D, m)
                       /\ StoppedAt(C, m) <=> StoppedAt(D, m)
  BY <1>1, SinksKept
<1>3. m \in C.nodes => m \in D.nodes
  BY DEF Grafted
<1> QED
  BY <1>2, <1>3 DEF Boundary

\* The exits of the merged code are boundaries.
LEMMA ExitsAreBoundaries ==
  ASSUME NEW C, NEW f, NEW x, NEW F, Piece(f + 1, F), NEW D,
         ExitsReported(D, f, OpenExits(F.comp)),
         NEW J, NEW m \in OpenExits(F.comp)
  PROVE  Boundary(D, J, m) /\ m \in F.comp.nodes /\ m # f + 1
<1>1. Boundary(D, J, m)
  BY DEF ExitsReported, Boundary, IsSink, StoppedAt
<1>2. m \in F.comp.nodes /\ \A v : ~Leads(F.comp, m, v)
  BY OpenExit DEF Piece
<1>3. m # f + 1
  BY <1>2 DEF Piece
<1> QED
  BY <1>1, <1>2, <1>3

\* An indirect jump stays when code is merged, and comes with its code.
LEMMA JumpsMergedIn ==
  ASSUME NEW C, NEW O, NEW D, NEW x, NEW f, Merged(C, O, D, x, f)
  PROVE  /\ HasJump(C) => HasJump(D)
         /\ HasJump(O) => HasJump(D)
BY DEF Merged, HasJump, Jumps

\* Recognising an instruction.
LEMMA RecognisingKeepsAddresses ==
  ASSUME ShapeInv, AddressesInv, Recognise
  PROVE  AddressesInv'
<1> DEFINE F == Recognised(Instruction, fresh + 1)
           x == cpu.node
<1>1. PICK M : Addressed(M)
  BY DEF AddressesInv
<1>2. /\ known' = Overlay(known, [n \in {x} |-> cpu.ip])
      /\ UNCHANGED <<image, cpu, switches>>
      /\ Running /\ comp.succ[x] = {}
      /\ Instruction.op \in Recognisable
  BY DEF Recognise, AtUnknownCode
<1>3. Merges(F)
  BY RecogniseMerges
<1> HIDE DEF F
<1>4. /\ IsCodeOf(Instruction, fresh + 1, F)
      /\ Merged(comp, F.comp, comp', x, fresh)
      /\ Grafted(comp, comp', x, fresh, fresh', {})
      /\ ExitsReported(comp', fresh, OpenExits(F.comp))
  BY <1>3 DEF Merges
<1>5. Piece(fresh + 1, F) /\ Offset(F, Offsets(Instruction))
  BY <1>4 DEF IsCodeOf
<1>6. /\ GraphOK(comp, fresh) /\ SwitchesOK(comp, switches)
      /\ ThreadOK(switches, x, cpu.ip, cpu.tmp)
      /\ x \in comp.nodes /\ cpu.ip \in Int
  BY <1>2 DEF ShapeInv, Running
<1>7. ~Chained(switches, x)
  <2>1. IsSink(comp, x)
    BY <1>2, <1>6, Sinks DEF GraphOK, IsSink
  <2> QED
    BY <1>6, <2>1, SinksAreFree
<1>8. M[x] = cpu.ip /\ LabelsOK(comp, switches, known, M)
  BY <1>1, <1>7 DEF Addressed
<1>9. cpu.ip \in DOMAIN image /\ Instruction = image[cpu.ip]
  BY <1>2 DEF Instruction, Nowhere, Recognisable
<1>10. PICK A : /\ AddressesFrom(F.comp, M[x], A)
                /\ OpenAt(F.comp, A, {cpu.ip + b : b \in Offsets(Instruction)})
  BY <1>5, <1>6, <1>8 DEF Offset
<1>11. PICK L : /\ Labelled(comp', fresh, L)
                /\ \A n \in comp.nodes : L[n] = M[n]
                /\ \A n \in F.comp.nodes : n # fresh + 1 => L[n] = A[n]
  <2>1. HasAddresses(comp, fresh, x, F, comp', M, A)
    BY <1>4, <1>5, <1>8, <1>10 DEF HasAddresses, LabelsOK
  <2>2. \E L : TakesAddresses(comp, fresh, F, comp', M, A, L)
    BY <2>1, MergedAddresses
  <2> QED
    BY <2>2 DEF TakesAddresses
<1>12. /\ DOMAIN known' = DOMAIN known \cup {x}
       /\ known'[x] = cpu.ip
       /\ \A n \in DOMAIN known : n # x => known'[n] = known[n]
  BY <1>2 DEF Overlay
<1>13. LabelsOK(comp', switches, known', L)
  <2>1. MergesLabels(comp, fresh, switches, known, M, comp', x, fresh', known', L)
    BY <1>4, <1>6, <1>7, <1>8, <1>11, <1>12 DEF MergesLabels
  <2> QED
    BY <2>1, LabelsMerged
<1>14. /\ \A n \in DOMAIN known : known[n] \in DOMAIN image /\ image[known[n]].op \in Recognisable
       /\ Boundary(comp, known, 1)
       /\ \A n \in DOMAIN known : image[known[n]].op \in {"jmpreg", "ret"} => HasJump(comp)
       /\ ~HasJump(comp) =>
            \A n \in DOMAIN known : \A b \in Offsets(image[known[n]]) :
              \E m : Boundary(comp, known, m) /\ M[m] = known[n] + b
  BY <1>1 DEF Addressed, CodeFollows
<1>15. /\ HasJump(comp) => HasJump(comp')
       /\ HasJump(F.comp) => HasJump(comp')
  BY <1>4, JumpsMergedIn
<1>16. \A m : Boundary(comp, known, m) => Boundary(comp', known', m)
  BY <1>4, <1>6, <1>12, BoundariesKept
<1>17. \A n \in DOMAIN known' : image[known'[n]].op \in {"jmpreg", "ret"} => HasJump(comp')
  <2>1. Instruction.op \in {"jmpreg", "ret"} => HasJump(F.comp)
    BY <1>4 DEF IsCodeOf, HasJump
  <2> QED
    BY <1>9, <1>12, <1>14, <1>15, <2>1
<1>18. ASSUME ~HasJump(comp'), NEW n \in DOMAIN known', NEW b \in Offsets(image[known'[n]])
       PROVE  \E m : Boundary(comp', known', m) /\ L[m] = known'[n] + b
  <2>1. CASE n # x
    <3>1. PICK m : Boundary(comp, known, m) /\ M[m] = known[n] + b
      BY <1>12, <1>14, <1>15, <1>18, <2>1
    <3>2. m \in comp.nodes
      BY <1>8, <3>1 DEF Boundary, LabelsOK
    <3> QED
      BY <1>11, <1>12, <1>16, <2>1, <3>1, <3>2
  <2>2. CASE n = x
    <3>1. b \in Offsets(Instruction)
      BY <1>9, <1>12, <1>18, <2>2
    <3>2. PICK m \in OpenExits(F.comp) : A[m] = cpu.ip + b
      BY <1>10, <3>1 DEF OpenAt
    <3>3. Boundary(comp', known', m) /\ m \in F.comp.nodes /\ m # fresh + 1
      BY <1>4, <1>5, ExitsAreBoundaries
    <3> QED
      BY <1>11, <1>12, <2>2, <3>2, <3>3
  <2> QED
    BY <2>1, <2>2
<1>19. CodeFollows(image, comp', known', L)
  <2>1. \A n \in DOMAIN known' : known'[n] \in DOMAIN image /\ image[known'[n]].op \in Recognisable
    BY <1>2, <1>9, <1>12, <1>14
  <2>2. Boundary(comp', known', 1)
    BY <1>14, <1>16
  <2> QED
    BY <1>17, <1>18, <2>1, <2>2 DEF CodeFollows
<1>20. cpu.ip = L[x]
  BY <1>6, <1>8, <1>11
<1>21. Addressed(L)'
  BY <1>2, <1>13, <1>19, <1>20 DEF Addressed
<1> QED
  BY <1>21 DEF AddressesInv

\* Every step keeps the addresses.
LEMMA StepKeepsAddresses ==
  ASSUME ShapeInv, RecordsInv, AddressesInv, [Next]_vars
  PROVE  AddressesInv'
<1>1. CASE Rests
  <2>1. UNCHANGED <<image, comp, cpu, known, switches>>
    BY <1>1 DEF Rests, program
  <2> QED
    BY <2>1 DEF AddressesInv, Addressed
<1> QED
  BY <1>1, NextCases, BeginKeepsAddresses, RecognisingKeepsAddresses, GoingOnKeepsAddresses,
     EnteringOldKeepsAddresses, EnteringNewKeepsAddresses

\* At first the entry is all there is, at the entry point.
LEMMA AddressesInitially ==
  ASSUME Init
  PROVE  AddressesInv
<1>1. /\ comp = NewComponent(1) /\ known = << >> /\ switches = << >>
      /\ cpu = [node |-> 1, ip |-> EntryPoint, tmp |-> 1]
  BY DEF Init
<1>2. comp.nodes = {1} /\ \A u, v : ~Leads(comp, u, v)
  BY <1>1, NewComponentEmpty DEF NewComponent, Leads
<1> DEFINE L == [n \in {1} |-> EntryPoint]
<1>3. DOMAIN known = {} /\ DOMAIN switches = {} /\ cpu.node = 1 /\ cpu.ip = EntryPoint
  BY <1>1
<1>4. L \in [comp.nodes -> Int] /\ L[1] = EntryPoint
  BY <1>2, RecoveryAssumption
<1> HIDE DEF L
<1>5. \A n, a : ~IsCase(switches, n, a)
  BY <1>3 DEF IsCase
<1>6. LabelsOK(comp, switches, known, L)
  BY <1>2, <1>3, <1>4, <1>5 DEF LabelsOK
<1>7. Boundary(comp, known, 1)
  BY <1>2 DEF Boundary, IsSink, StoppedAt
<1>8. CodeFollows(image, comp, known, L)
  BY <1>3, <1>7 DEF CodeFollows
<1>9. Addressed(L)
  BY <1>3, <1>4, <1>6, <1>8 DEF Addressed
<1> QED
  BY <1>9 DEF AddressesInv

\* The nodes have addresses, and the thread keeps to them.
THEOREM AddressesHold == Spec => []AddressesInv
<1>1. Init => AddressesInv
  BY AddressesInitially
<1>2. ShapeInv /\ RecordsInv /\ AddressesInv /\ [Next]_vars => AddressesInv'
  BY StepKeepsAddresses
<1> QED
  BY <1>1, <1>2, ShapeHolds, RecordsHold, PTL DEF Spec

\* A piece of the program annotated with an address is executed at that address
\* only, whether it was reached straight, by a case or through a default.
THEOREM NodesKeepTheirAddress == Spec => []OneAddressPerNode
<1>1. AddressesInv => OneAddressPerNode
  BY DEF AddressesInv, Addressed, LabelsOK, OneAddressPerNode
<1> QED
  BY <1>1, AddressesHold, PTL

-----------------------------------------------------------------------------
(***************************************************************************)
(* The sixth layer: what run returns.  It returns between two executions,  *)
(* and "done" only if nothing is left to explore.  As every exit behind no *)
(* STOP is left to explore there is none then, hence no indirect jump, the *)
(* default of whose switch would be one, and everything the recognised     *)
(* code leads to was recognised.                                           *)
(***************************************************************************)
OutcomeInv ==
  /\ outcome # "" => ~Running
  /\ outcome = "done" => DOMAIN unexplored = {}

\* Every step keeps to that.
LEMMA StepKeepsOutcome ==
  ASSUME ShapeInv, RecordsInv, OutcomeInv, [Next]_vars
  PROVE  OutcomeInv'
<1>1. CASE Running /\ outcome' = outcome
  BY <1>1 DEF OutcomeInv
<1>2. CASE Begin /\ outcome = ""
  BY <1>2 DEF OutcomeInv, Begin
<1>3. CASE Rests
  <2>1. histories' = histories
    BY <1>3 DEF Rests
  <2>2. CASE Dies
    BY <1>1, <2>2 DEF Dies
  <2>3. CASE Returns
    BY <2>1, <2>3 DEF Returns, OutcomeInv, Running, current
  <2>4. CASE UNCHANGED <<unexplored, endings, outcome>>
    BY <2>1, <2>4 DEF OutcomeInv, Running, current
  <2> QED
    BY <1>3, <2>2, <2>3, <2>4 DEF Rests
<1>4. Recognise => Running /\ outcome' = outcome
  BY DEF Recognise, AtUnknownCode
<1>5. \A v : GoesOn(v) => Running /\ outcome' = outcome
  BY DEF GoesOn
<1>6. \A v, ip : /\ EntersOld(v, ip) => Running /\ outcome' = outcome
                 /\ \A r : EntersNew(v, ip, r) => Running /\ outcome' = outcome
  BY DEF EntersOld, EntersNew, Jumped
<1> QED
  BY <1>1, <1>2, <1>3, <1>4, <1>5, <1>6, NextCases

\* run returns between two executions, "done" if nothing is left to explore.
THEOREM OutcomesHold == Spec => []OutcomeInv
<1>1. Init => OutcomeInv
  BY DEF Init, OutcomeInv
<1>2. ShapeInv /\ RecordsInv /\ OutcomeInv /\ [Next]_vars => OutcomeInv'
  BY StepKeepsOutcome
<1> QED
  BY <1>1, <1>2, ShapeHolds, RecordsHold, PTL DEF Spec

\* If every exit is behind a STOP, there is no indirect jump.
LEMMA NoJumpIsLeft ==
  ASSUME NEW C, NEW f, GraphOK(C, f), NEW S, SwitchesOK(C, S), NEW N, JumpsOK(C, S, N),
         \A n \in C.nodes : IsSink(C, n) => StoppedAt(C, n)
  PROVE  ~HasJump(C)
<1> SUFFICES ASSUME NEW n, NEW h, Jumps(C, n, h) PROVE FALSE
  BY DEF HasJump
<1>1. \A u, v : Leads(C, u, v) => u \in C.nodes /\ v \in C.nodes
  BY DEF GraphOK, Good, IsDigraph, Leads
<1>2. CASE h \in DOMAIN S
  <2>1. PICK info : info = InfoOf(S, h)
    OBVIOUS
  <2>2. PICK u : Leads(C, u, info.default) /\ Along(C, u, info.default).gik # "STOP"
    BY <2>1, DefaultHangs
  <2>3. SwitchOK(C, h, info)
    BY <1>2, <2>1 DEF SwitchesOK, InfoOf
  <2>4. IsSink(C, info.default) /\ info.default \in C.nodes
    BY <1>1, <2>2, <2>3 DEF SwitchOK, IsSink
  <2> QED
    BY <2>2, <2>4 DEF StoppedAt
<1>3. CASE h \notin DOMAIN S
  <2>1. StandsAlone(C, n, h) /\ Leads(C, n, h) /\ Along(C, n, h).gik # "STOP"
    BY <1>3 DEF JumpsOK, Jumps, IsSwitchInstruction
  <2>2. CASE IsSink(C, h)
    BY <1>1, <2>1, <2>2 DEF StoppedAt
  <2>3. ASSUME NEW t, Leads(C, h, t) PROVE FALSE
    <3>1. IsSink(C, t) /\ Along(C, h, t).gik = "HAVOC" /\ t \in C.nodes
      BY <1>1, <2>1, <2>3 DEF StandsAlone, IsSink
    <3> QED
      BY <2>3, <3>1 DEF StoppedAt
  <2> QED
    BY <2>2, <2>3 DEF IsSink
<1> QED
  BY <1>2, <1>3

\* Where the instruction at a may lead in terms of the offsets of its code.
LEMMA SuccessorsAreOffsets ==
  ASSUME NEW a, image[a].op \in Recognisable, image[a].op \notin {"jmpreg", "ret"},
         NEW b \in NativeSuccessors(a)
  PROVE  \E o \in Offsets(image[a]) : b = a + o
<1>1. image[a].op \in {"nop", "jmp", "jne", "cmov32", "cmov64", "exit"}
  BY DEF Recognisable
<1>2. CASE image[a].op \in {"nop", "cmov32", "cmov64"}
  BY <1>2 DEF NativeSuccessors, Offsets
<1>3. CASE image[a].op = "jmp"
  BY <1>3 DEF NativeSuccessors, Offsets
<1>4. CASE image[a].op = "jne"
  BY <1>4 DEF NativeSuccessors, Offsets
<1>5. CASE image[a].op = "exit"
  BY <1>5 DEF NativeSuccessors
<1> QED
  BY <1>1, <1>2, <1>3, <1>4, <1>5

\* "Done!" means that all code is recovered: every exit is behind a STOP, and the
\* addresses recognised contain the entry point and all they may lead to.
THEOREM DoneIsRecovered == Spec => []DoneMeansRecovered
<1>1. ASSUME ShapeInv, UnexploredAreExits, AddressesInv, OutcomeInv, outcome = "done"
      PROVE  /\ comp.exits \subseteq Stopped
             /\ EntryPoint \in {known[n] : n \in DOMAIN known}
             /\ \A a \in {known[n] : n \in DOMAIN known} :
                  NativeSuccessors(a) \subseteq {known[n] : n \in DOMAIN known}
  <2>1. comp.exits \subseteq Stopped
    BY <1>1 DEF OutcomeInv, UnexploredAreExits
  <2>2. \A n \in comp.nodes : IsSink(comp, n) => StoppedAt(comp, n)
    <3>1. /\ \A n : n \in comp.exits <=> n \in comp.nodes /\ IsSink(comp, n)
          /\ \A n : n \in Stopped <=> n \in comp.nodes /\ StoppedAt(comp, n)
      BY <1>1, ExitsAreSinks DEF ShapeInv, GraphOK, Stopped
    <3> QED
      BY <2>1, <3>1
  <2>3. ~HasJump(comp)
    <3>1. GraphOK(comp, fresh) /\ SwitchesOK(comp, switches) /\ JumpsOK(comp, switches, Seen)
      BY <1>1 DEF ShapeInv
    <3> QED
      BY <2>2, <3>1, NoJumpIsLeft
  <2>4. PICK L : Addressed(L)
    BY <1>1 DEF AddressesInv
  <2>5. /\ L[1] = EntryPoint
        /\ \A n \in DOMAIN known : L[n] = known[n]
    BY <2>4 DEF Addressed, LabelsOK
  <2>6. \A m : Boundary(comp, known, m) => m \in DOMAIN known
    BY <2>2 DEF Boundary
  <2>7. /\ \A n \in DOMAIN known : image[known[n]].op \in Recognisable
        /\ Boundary(comp, known, 1)
        /\ \A n \in DOMAIN known : image[known[n]].op \notin {"jmpreg", "ret"}
        /\ \A n \in DOMAIN known : \A o \in Offsets(image[known[n]]) :
             \E m : Boundary(comp, known, m) /\ L[m] = known[n] + o
    BY <2>3, <2>4 DEF Addressed, CodeFollows
  <2>8. EntryPoint \in {known[n] : n \in DOMAIN known}
    BY <2>5, <2>6, <2>7
  <2>9. ASSUME NEW n \in DOMAIN known, NEW b \in NativeSuccessors(known[n])
        PROVE  \E m \in DOMAIN known : known[m] = b
    <3>1. PICK o \in Offsets(image[known[n]]) : b = known[n] + o
      BY <2>7, SuccessorsAreOffsets
    <3> QED
      BY <2>5, <2>6, <2>7, <3>1
  <2> QED
    BY <2>1, <2>8, <2>9
<1>2. ShapeInv /\ UnexploredAreExits /\ AddressesInv /\ OutcomeInv => DoneMeansRecovered
  BY <1>1 DEF DoneMeansRecovered
<1> QED
  BY <1>2, ShapeHolds, ExitsAreReported, AddressesHold, OutcomesHold, PTL
-----------------------------------------------------------------------------
(***************************************************************************)
(* The seventh layer: what the search for the next goal relies on.  Going  *)
(* back from any node one gets to the entry, no execution and no exit left *)
(* to explore is behind a STOP, where an execution passed a node it took   *)
(* the only way or chose one of two, and it halted at a STOP if that is    *)
(* what is recorded of it.                                                 *)
(***************************************************************************)
StopsAhead(C, N) ==
  \A u, v : Leads(C, u, v) /\ Along(C, u, v).gik = "STOP" => v \notin N

OneWay(C, n, v) == \A w : Leads(C, n, w) => w = v

TakesWays(C, H) ==
  \A e \in 1..Len(H) : \A i \in 1..(Len(H[e]) - 1) :
    Forks(C, H[e][i]) \/ OneWay(C, H[e][i], H[e][i + 1])

AllHalt(C, H, E) ==
  \A e \in 1..Len(H) : E[e] = "stopped" => Halts(C, H[e][Len(H[e])])

SearchInv ==
  /\ Climbs(comp) /\ StopsLast(comp)
  /\ StopsAhead(comp, Seen \cup DOMAIN unexplored)
  /\ TakesWays(comp, histories)
  /\ AllHalt(comp, histories, endings)

\* What another instruction leads to is behind no STOP.
LEMMA NotBehindStop ==
  ASSUME NEW C, StopsLast(C), NEW u, NEW v, Leads(C, u, v), Along(C, u, v).gik # "STOP",
         NEW w, Leads(C, w, v)
  PROVE  Along(C, w, v).gik # "STOP"
BY DEF StopsLast

\* Code that is put behind a node spoils none of that.
LEMMA GraftKeepsSearch ==
  ASSUME ShapeInv, RecordsInv, SearchInv,
         NEW D, NEW x, NEW l, NEW T, Grafted(comp, D, x, fresh, l, T), ErasedOK(comp, x, T),
         \A t \in T : t \notin Seen, StandsBehind(D, fresh),
         \A u : Leads(comp, u, x) => Along(comp, u, x).gik # "STOP"
  PROVE  /\ Climbs(D) /\ StopsLast(D)
         /\ StopsAhead(D, Seen \cup DOMAIN unexplored)
         /\ TakesWays(D, histories)
         /\ AllHalt(D, histories, endings)
<1>1. /\ GraphOK(comp, fresh) /\ Walks(comp, histories, cpu.node)
      /\ Climbs(comp) /\ StopsLast(comp)
  BY DEF ShapeInv, SearchInv
<1>2. Climbs(D) /\ StopsLast(D)
  BY <1>1, GraftStands
<1>3. /\ \A u, v : /\ Leads(comp, u, v) /\ v \notin T => Leads(D, u, v) /\ Along(D, u, v) = Along(comp, u, v)
                   /\ Leads(D, u, v) /\ v \in comp.nodes => Leads(comp, u, v) /\ v \notin T
                   /\ Leads(D, u, v) /\ u \in comp.nodes /\ u # x => Leads(comp, u, v) /\ v \notin T
                   /\ Leads(comp, u, v) /\ v \notin T => u # x
      /\ \A u, v : Leads(comp, u, v) => u \in comp.nodes
  <2>1. \A u, v : Leads(comp, u, v) => u \in comp.nodes
    BY <1>1 DEF GraphOK, Good, IsDigraph, Leads
  <2> QED
    BY <1>1, <2>1, OldEdges
<1>4. Seen \cup DOMAIN unexplored \subseteq comp.nodes
  BY <1>1, SeenAreNodes DEF RecordsInv, Seen
<1>5. StopsAhead(D, Seen \cup DOMAIN unexplored)
  <2> SUFFICES ASSUME NEW u, NEW v \in Seen \cup DOMAIN unexplored,
                      Leads(D, u, v), Along(D, u, v).gik = "STOP"
               PROVE  FALSE
    BY DEF StopsAhead
  <2>1. Leads(comp, u, v) /\ Along(comp, u, v).gik = "STOP"
    BY <1>3, <1>4
  <2> QED
    BY <2>1 DEF SearchInv, StopsAhead
<1>6. TakesWays(D, histories)
  <2> SUFFICES ASSUME NEW e \in 1..Len(histories), NEW i \in 1..(Len(histories[e]) - 1)
               PROVE  \/ Forks(D, histories[e][i])
                      \/ OneWay(D, histories[e][i], histories[e][i + 1])
    BY DEF TakesWays
  <2>1. /\ Forks(D, histories[e][i]) <=> Forks(comp, histories[e][i])
        /\ \A z : Leads(comp, histories[e][i], z) <=> Leads(D, histories[e][i], z)
    BY GraftKeepsWays
  <2>2. Forks(comp, histories[e][i]) \/ OneWay(comp, histories[e][i], histories[e][i + 1])
    BY DEF SearchInv, TakesWays
  <2> QED
    BY <2>1, <2>2 DEF OneWay
<1>7. AllHalt(D, histories, endings)
  <2> SUFFICES ASSUME NEW e \in 1..Len(histories), endings[e] = "stopped"
               PROVE  Halts(D, histories[e][Len(histories[e])])
    BY DEF AllHalt
  <2> DEFINE n == histories[e][Len(histories[e])]
  <2>1. Halts(comp, n)
    BY DEF SearchInv, AllHalt
  <2> HIDE DEF n
  <2>2. PICK w : /\ Leads(comp, n, w) /\ Along(comp, n, w).gik = "STOP"
                 /\ \A v : Leads(comp, n, v) => v = w
    BY <2>1 DEF Halts
  <2>3. w \notin T
    BY <2>2 DEF ErasedOK
  <2>4. n # x /\ n \in comp.nodes /\ Leads(D, n, w) /\ Along(D, n, w).gik = "STOP"
    BY <1>3, <2>2, <2>3
  <2>5. \A v : Leads(D, n, v) => v = w
    BY <1>3, <2>2, <2>4
  <2>6. Halts(D, n)
    BY <2>4, <2>5 DEF Halts
  <2> QED
    BY <2>6 DEF n
<1> QED
  BY <1>2, <1>5, <1>6, <1>7

\* Visiting v, by the only way or one of two.
LEMMA VisitKeepsSearch ==
  ASSUME ShapeInv, RecordsInv, Running,
         NEW D, TakesWays(D, histories), AllHalt(D, histories, endings),
         NEW v \in Nat, Visit(v), GoOnOrTimeOut,
         Forks(D, cpu.node) \/ OneWay(D, cpu.node, v)
  PROVE  TakesWays(D, histories') /\ AllHalt(D, histories', endings')
<1> DEFINE m == Len(histories)
           l == Len(histories[m])
<1>1. /\ Walks(comp, histories, cpu.node) /\ m > 0 /\ m = current
      /\ histories' = Visited(histories, v)
  BY DEF ShapeInv, Running, current, Visit, Visited, History
<1>2. OneFurther(histories, histories', m, l, cpu.node, v)
  BY <1>1, VisitedIsOneFurther
<1>3. endings[m] = "" /\ DOMAIN endings = 1..m
  BY <1>1, EndingsRecorded DEF Running
<1> HIDE DEF m, l
<1>4. ASSUME NEW e \in 1..Len(histories'), NEW i \in 1..(Len(histories'[e]) - 1)
      PROVE  Forks(D, histories'[e][i]) \/ OneWay(D, histories'[e][i], histories'[e][i + 1])
  <2>1. CASE e # m
    <3>1. e \in 1..Len(histories) /\ histories'[e] = histories[e]
      BY <1>2, <2>1 DEF OneFurther
    <3> QED
      BY <3>1 DEF TakesWays
  <2>2. CASE e = m /\ i = l
    BY <1>2, <2>2 DEF OneFurther
  <2>3. CASE e = m /\ i # l
    <3>1. Len(histories'[m]) = l + 1 /\ l \in Nat /\ m \in 1..Len(histories) /\ Len(histories[m]) = l
      BY <1>2 DEF OneFurther
    <3>2. i \in 1..l /\ i + 1 \in 1..l /\ i \in 1..(Len(histories[m]) - 1)
      BY <2>3, <3>1
    <3>3. histories'[m][i] = histories[m][i] /\ histories'[m][i + 1] = histories[m][i + 1]
      BY <1>2, <3>2 DEF OneFurther
    <3> QED
      BY <2>3, <3>1, <3>2, <3>3 DEF TakesWays
  <2> QED
    BY <2>1, <2>2, <2>3
<1>5. ASSUME NEW e \in 1..Len(histories'), endings'[e] = "stopped"
      PROVE  Halts(D, histories'[e][Len(histories'[e])])
  <2>1. m \in 1..m /\ Len(histories') = m /\ Len(histories) = m
    BY <1>2 DEF OneFurther
  <2>2. e # m /\ endings[e] = "stopped"
    <3>1. CASE UNCHANGED endings
      BY <1>3, <1>5, <3>1
    <3>2. CASE End("timeout")
      <4>1. endings' = [endings EXCEPT ![m] = "timeout"]
        BY <1>1, <3>2 DEF End
      <4> QED
        BY <1>3, <1>5, <2>1, <4>1
    <3> QED
      BY <3>1, <3>2 DEF GoOnOrTimeOut
  <2>3. histories'[e] = histories[e]
    BY <1>2, <2>1, <2>2 DEF OneFurther
  <2> QED
    BY <2>1, <2>2, <2>3 DEF AllHalt
<1> QED
  BY <1>4, <1>5 DEF TakesWays, AllHalt

\* A sequence with x behind it.
LEMMA OneAppended ==
  ASSUME NEW S, NEW s \in Seq(S), NEW x \in S
  PROVE  /\ Len(s) \in Nat /\ Len(Append(s, x)) = Len(s) + 1
         /\ Append(s, x)[Len(s) + 1] = x
         /\ \A e \in 1..Len(s) : Append(s, x)[e] = s[e]
BY AppendProperties, LenProperties

\* A new execution has passed nothing, and nothing leads back to its entry.
LEMMA BeginKeepsSearch ==
  ASSUME ShapeInv, RecordsInv, SearchInv, Begin
  PROVE  SearchInv'
<1> DEFINE m == Len(histories)
<1>1. /\ UNCHANGED <<comp, unexplored>>
      /\ histories' = Append(histories, <<1>>) /\ endings' = Append(endings, "")
      /\ Walks(comp, histories, cpu.node)
      /\ \A u : ~Leads(comp, u, 1)
  <2>1. GraphOK(comp, fresh) /\ Walks(comp, histories, cpu.node)
    BY DEF ShapeInv
  <2>2. comp.entry = 1 /\ \A u : ~Leads(comp, u, 1)
    BY <2>1 DEF GraphOK
  <2> QED
    BY <2>1, <2>2 DEF Begin, program
<1>2. /\ m \in Nat /\ Len(histories') = m + 1
      /\ histories'[m + 1] = <<1>> /\ Len(<<1>>) = 1
      /\ \A e \in 1..m : histories'[e] = histories[e]
  <2>1. <<1>> \in Seq(Nat) /\ Len(<<1>>) = 1
    OBVIOUS
  <2>2. histories \in Seq(Seq(Nat))
    BY <1>1 DEF Walks
  <2> QED
    BY <1>1, <2>1, <2>2, OneAppended
<1>3. endings'[m + 1] = "" /\ \A e \in 1..m : endings'[e] = endings[e]
  <2>1. endings \in Seq(Ends) /\ Len(endings) = m
    BY DEF RecordsInv, current
  <2>2. \A how \in Ends :
          /\ Append(endings, how)[Len(endings) + 1] = how
          /\ \A e \in 1..Len(endings) : Append(endings, how)[e] = endings[e]
    BY ONLY <2>1, OneAppended
  <2>3. "" \in Ends
    BY DEF Ends
  <2> HIDE DEF m
  <2> QED
    BY <1>1, <2>1, <2>2, <2>3
<1>4. Seen' = Seen \cup {1}
  BY <1>1, WalkBegins DEF Seen
<1> HIDE DEF m
<1>5. StopsAhead(comp, Seen' \cup DOMAIN unexplored)
  BY <1>1, <1>4 DEF SearchInv, StopsAhead
<1>6. ASSUME NEW e \in 1..Len(histories')
      PROVE  \/ e \in 1..m /\ histories'[e] = histories[e] /\ endings'[e] = endings[e]
             \/ histories'[e] = <<1>> /\ endings'[e] = ""
  <2>1. e \in 1..m \/ e = m + 1
    <3>1. e \in 1..(m + 1) /\ m \in Nat
      BY <1>2
    <3> QED
      BY ONLY <3>1
  <2> QED
    BY <1>2, <1>3, <2>1
<1>7. TakesWays(comp, histories')
  <2> SUFFICES ASSUME NEW e \in 1..Len(histories'), NEW i \in 1..(Len(histories'[e]) - 1)
               PROVE  Forks(comp, histories'[e][i]) \/ OneWay(comp, histories'[e][i], histories'[e][i + 1])
    BY DEF TakesWays
  <2>1. CASE e \in 1..m /\ histories'[e] = histories[e]
    BY <2>1 DEF SearchInv, TakesWays, m
  <2>2. CASE histories'[e] = <<1>>
    BY <2>2
  <2> QED
    BY <1>6, <2>1, <2>2
<1>8. AllHalt(comp, histories', endings')
  BY <1>6 DEF SearchInv, AllHalt, m
<1> QED
  BY <1>1, <1>5, <1>7, <1>8 DEF SearchInv

\* Recognised code is put behind the thread, which is behind no STOP, and exits
\* behind a STOP are not reported.
LEMMA RecognisingKeepsSearch ==
  ASSUME ShapeInv, RecordsInv, SearchInv, Recognise
  PROVE  SearchInv'
<1> DEFINE F == Recognised(Instruction, fresh + 1)
           open == OpenExits(F.comp)
<1>1. /\ UNCHANGED <<cpu, histories, endings>>
      /\ Running /\ comp.succ[cpu.node] = {}
      /\ unexplored' = AddUnexplored(unexplored, cpu.ip, open)
  BY DEF Recognise, AtUnknownCode
<1>2. /\ Merged(comp, F.comp, comp', cpu.node, fresh)
      /\ Grafted(comp, comp', cpu.node, fresh, fresh', {})
      /\ ExitsReported(comp', fresh, open)
      /\ Piece(fresh + 1, F)
  BY RecogniseMerges DEF Merges, IsCodeOf
<1>3. DOMAIN unexplored' = DOMAIN unexplored \cup open
  BY <1>1, AddedNodes
<1> HIDE DEF F
<1>4. StandsBehind(comp', fresh)
  BY <1>2, MergedStands
<1> HIDE DEF open
<1>5. cpu.node \in Seen
  BY <1>1, LastIsSeen DEF ShapeInv, Seen, Running, current
<1>6. \A u : Leads(comp, u, cpu.node) => Along(comp, u, cpu.node).gik # "STOP"
  BY <1>5 DEF SearchInv, StopsAhead
<1>7. ErasedOK(comp, cpu.node, {})
  BY DEF ErasedOK
<1>8. /\ Climbs(comp') /\ StopsLast(comp')
      /\ StopsAhead(comp', Seen \cup DOMAIN unexplored)
      /\ TakesWays(comp', histories)
      /\ AllHalt(comp', histories, endings)
  BY <1>2, <1>4, <1>6, <1>7, GraftKeepsSearch
<1>9. ASSUME NEW n \in open, NEW u, Leads(comp', u, n)
      PROVE  Along(comp', u, n).gik # "STOP"
  <2>1. PICK w : Leads(comp', w, n) /\ Along(comp', w, n).gik # "STOP"
    BY <1>2 DEF ExitsReported
  <2> QED
    BY <1>8, <1>9, <2>1, NotBehindStop
<1>10. StopsAhead(comp', Seen \cup DOMAIN unexplored')
  BY <1>3, <1>8, <1>9 DEF StopsAhead
<1>11. Seen' = Seen
  BY <1>1 DEF Seen
<1> QED
  BY <1>1, <1>8, <1>10, <1>11 DEF SearchInv

\* The thread goes on along the only edge or one of two, none of them a STOP.
LEMMA GoingOnKeepsSearch ==
  ASSUME ShapeInv, RecordsInv, SearchInv,
         NEW v, GoesOn(v), Execute(v) \/ ExecuteBranching(v)
  PROVE  SearchInv'
<1>1. /\ Running /\ Leads(comp, cpu.node, v) /\ Visit(v) /\ comp' = comp
      /\ GoOnOrTimeOut /\ unexplored' = Left
      /\ GraphOK(comp, fresh) /\ cpu.node \in comp.nodes
      /\ v \in Nat
  BY ThreadEdges DEF GoesOn, program, ShapeInv, GraphOK
<1>2. Seen' = Seen \cup {v}
  BY GoingOnKeepsShape
<1>3. DOMAIN unexplored' \subseteq DOMAIN unexplored
  BY <1>1, LeftNodes
<1>4. /\ Along(comp, cpu.node, v).gik # "STOP"
      /\ Forks(comp, cpu.node) \/ OneWay(comp, cpu.node, v)
  <2>1. CASE Execute(v)
    <3>1. Out(v).gik # "STOP" /\ comp.succ[cpu.node] = {v}
      BY <2>1 DEF Execute, OnlyEdge
    <3> QED
      BY <1>1, <3>1, ThreadEdges DEF OneWay
  <2>2. CASE ExecuteBranching(v)
    <3>1. IsGuard(Along(comp, cpu.node, v))
      BY <2>2, BranchesAreGuards
    <3> QED
      BY <2>2, <3>1 DEF ExecuteBranching, Forks, IsGuard
  <2> QED
    BY <2>1, <2>2
<1>5. StopsAhead(comp, Seen' \cup DOMAIN unexplored')
  <2>1. \A u : Leads(comp, u, v) => Along(comp, u, v).gik # "STOP"
    BY <1>1, <1>4, NotBehindStop DEF SearchInv
  <2> QED
    BY <1>2, <1>3, <2>1 DEF SearchInv, StopsAhead
<1>6. TakesWays(comp, histories') /\ AllHalt(comp, histories', endings')
  BY <1>1, <1>4, VisitKeepsSearch DEF SearchInv
<1> QED
  BY <1>1, <1>5, <1>6 DEF SearchInv

\* An indirect jump is no STOP, and leads to its head alone.
LEMMA EnteringOldKeepsSearch ==
  ASSUME ShapeInv, RecordsInv, SearchInv, NEW v, NEW ip, EntersOld(v, ip)
  PROVE  SearchInv'
<1>1. /\ Running /\ Jumps(comp, cpu.node, v) /\ Visit(v)
      /\ comp' = comp /\ GoOnOrTimeOut /\ unexplored' = Left
      /\ GraphOK(comp, fresh) /\ cpu.node \in comp.nodes
      /\ JumpsOK(comp, switches, Seen)
  BY DEF EntersOld, Jumped, program, ShapeInv, GraphOK
<1>2. /\ Leads(comp, cpu.node, v) /\ v \in Nat /\ OneWay(comp, cpu.node, v)
      /\ Along(comp, cpu.node, v).gik # "STOP"
  BY <1>1, ThreadEdges DEF Jumps, JumpsOK, GraphOK, OneWay, IsSwitchInstruction
<1>3. Seen' = Seen \cup {v}
  BY EnteringOldKeepsShape
<1>4. DOMAIN unexplored' \subseteq DOMAIN unexplored
  BY <1>1, LeftNodes
<1>5. StopsAhead(comp, Seen' \cup DOMAIN unexplored')
  <2>1. \A u : Leads(comp, u, v) => Along(comp, u, v).gik # "STOP"
    BY <1>2, NotBehindStop DEF SearchInv
  <2> QED
    BY <1>3, <1>4, <2>1 DEF SearchInv, StopsAhead
<1>6. TakesWays(comp, histories') /\ AllHalt(comp, histories', endings')
  BY <1>1, <1>2, VisitKeepsSearch DEF SearchInv
<1> QED
  BY <1>1, <1>5, <1>6 DEF SearchInv

\* There is no STOP in a case, nor before the default it is hung on.
LEMMA EnteringNewKeepsSearch ==
  ASSUME ShapeInv, RecordsInv, SearchInv, NEW v, NEW ip, NEW r, EntersNew(v, ip, r)
  PROVE  SearchInv'
<1> DEFINE d == InfoOf(switches, v).default
<1>1. /\ Running /\ Jumps(comp, cpu.node, v) /\ Visit(v) /\ GoOnOrTimeOut
      /\ AddedCase(comp, d, ip, fresh, r) /\ comp' = r.comp
      /\ unexplored' = AddUnexplored(Without(Left, {r.erased}), ip, CaseExits(r))
      /\ GraphOK(comp, fresh) /\ fresh \in Nat /\ Good(comp) /\ cpu.node \in comp.nodes
      /\ JumpsOK(comp, switches, Seen) /\ SwitchesOK(comp, switches)
  BY DEF EntersNew, Jumped, ShapeInv, GraphOK
<1>2. /\ Leads(comp, cpu.node, v) /\ v \in Nat /\ \A w : Leads(comp, cpu.node, w) => w = v
      /\ Along(comp, cpu.node, v).gik # "STOP"
  BY <1>1, ThreadEdges DEF Jumps, JumpsOK, GraphOK, IsSwitchInstruction
<1>3. /\ Grafted(comp, comp', d, fresh, fresh', Erased(v))
      /\ ErasedOK(comp, d, Erased(v))
      /\ \A t \in Erased(v) : t \notin Seen /\ t # v
      /\ Leads(comp', cpu.node, v)
  BY NewCaseIsGrafted
<1>4. StandsBehind(comp', fresh)
  BY <1>1, CaseStands
<1>5. \A u : Leads(comp, u, d) => Along(comp, u, d).gik # "STOP"
  <2>1. PICK u : Leads(comp, u, d) /\ Along(comp, u, d).gik # "STOP"
    BY <1>1, DefaultHangs
  <2> QED
    BY <2>1, NotBehindStop DEF SearchInv
<1>6. /\ r.begin = fresh + 4 /\ r.default = fresh + 3
      /\ Leads(comp', fresh + 1, fresh + 3) /\ Along(comp', fresh + 1, fresh + 3).gik # "STOP"
      /\ Leads(comp', fresh + 2, fresh + 4) /\ Along(comp', fresh + 2, fresh + 4).gik # "STOP"
  BY <1>1 DEF AddedCase, Ins
<1> HIDE DEF d
<1>7. /\ Climbs(comp') /\ StopsLast(comp')
      /\ StopsAhead(comp', Seen \cup DOMAIN unexplored)
      /\ TakesWays(comp', histories)
      /\ AllHalt(comp', histories, endings)
  BY <1>3, <1>4, <1>5, GraftKeepsSearch
<1>8. DOMAIN unexplored' \subseteq DOMAIN unexplored \cup {fresh + 3, fresh + 4}
  <2>1. DOMAIN unexplored' = DOMAIN Without(Left, {r.erased}) \cup CaseExits(r)
    BY <1>1, AddedNodes
  <2>2. DOMAIN Without(Left, {r.erased}) = DOMAIN Left \ {r.erased}
    BY WithoutNodes
  <2> QED
    BY <1>6, <2>1, <2>2, LeftNodes DEF CaseExits
<1>9. Seen' = Seen \cup {v}
  BY EnteringNewKeepsShape
<1>10. cpu.node # d /\ Good(comp')
  BY <1>2, <1>3 DEF Grafted
<1>11. OneWay(comp', cpu.node, v) /\ Along(comp', cpu.node, v) = Along(comp, cpu.node, v)
  BY <1>1, <1>2, <1>3, <1>10, OldEdges DEF OneWay
<1>12. StopsAhead(comp', Seen' \cup DOMAIN unexplored')
  <2>1. \A n \in {v, fresh + 3, fresh + 4} : \A u :
          Leads(comp', u, n) => Along(comp', u, n).gik # "STOP"
    BY <1>2, <1>3, <1>6, <1>7, <1>11, NotBehindStop
  <2> QED
    BY <1>7, <1>8, <1>9, <2>1 DEF StopsAhead
<1>13. TakesWays(comp', histories') /\ AllHalt(comp', histories', endings')
  BY <1>1, <1>2, <1>7, <1>11, VisitKeepsSearch
<1> QED
  BY <1>7, <1>12, <1>13 DEF SearchInv

\* An execution that stops does so before a STOP.
LEMMA RestingKeepsSearch ==
  ASSUME ShapeInv, RecordsInv, SearchInv, Rests
  PROVE  SearchInv'
<1>1. UNCHANGED <<comp, histories>>
  BY DEF Rests, program
<1>2. DOMAIN unexplored' \subseteq DOMAIN unexplored
  BY LeftNodes DEF Rests, Dies, Returns
<1>3. Seen' = Seen
  BY <1>1 DEF Seen
<1>4. StopsAhead(comp, Seen \cup DOMAIN unexplored')
  BY <1>2 DEF SearchInv, StopsAhead
<1>5. AllHalt(comp, histories, endings')
  <2>1. CASE UNCHANGED endings
    BY <2>1 DEF SearchInv, AllHalt
  <2>2. CASE Dies
    <3>1. PICK how : /\ endings' = [endings EXCEPT ![current] = how]
                     /\ how = "stopped" => Halts(comp, cpu.node)
      BY <2>2 DEF Dies, End
    <3>2. /\ DOMAIN endings = 1..current /\ current = Len(histories) /\ current > 0
          /\ histories[current][Len(histories[current])] = cpu.node
      BY <2>2, EndingsRecorded DEF Dies, Running, current, ShapeInv, Walks
    <3>3. \A e \in 1..Len(histories) : endings'[e] = IF e = current THEN how ELSE endings[e]
      BY <3>1, <3>2
    <3> QED
      BY <3>1, <3>2, <3>3 DEF SearchInv, AllHalt
  <2> QED
    BY <2>1, <2>2 DEF Rests, Returns
<1> QED
  BY <1>1, <1>3, <1>4, <1>5 DEF SearchInv

\* Every step keeps what the search relies on.
LEMMA StepKeepsSearch ==
  ASSUME ShapeInv, RecordsInv, SearchInv, [Next]_vars
  PROVE  SearchInv'
BY NextCases, BeginKeepsSearch, RecognisingKeepsSearch, GoingOnKeepsSearch,
   EnteringOldKeepsSearch, EnteringNewKeepsSearch, RestingKeepsSearch

\* At first there is one node and no edge.
LEMMA SearchInitially ==
  ASSUME Init
  PROVE  SearchInv
<1>1. comp = NewComponent(1) /\ Len(histories) = 0
  BY EmptySeq DEF Init
<1>2. comp.nodes = {1} /\ comp.entry = 1 /\ \A u, v : ~Leads(comp, u, v)
  BY <1>1, NewComponentEmpty DEF NewComponent, Leads
<1>3. 1..Len(histories) = {}
  BY <1>1
<1> QED
  BY <1>2, <1>3 DEF SearchInv, Climbs, StopsLast, StopsAhead, TakesWays, AllHalt

\* What the search relies on holds throughout.
THEOREM SearchInvHolds == Spec => []SearchInv
<1>1. Init => SearchInv
  BY SearchInitially
<1>2. ShapeInv /\ RecordsInv /\ SearchInv /\ [Next]_vars => SearchInv'
  BY StepKeepsSearch
<1> QED
  BY <1>1, <1>2, ShapeHolds, RecordsHold, PTL DEF Spec
-----------------------------------------------------------------------------
(***************************************************************************)
(* The search itself.  Going backwards from an exit left to explore one    *)
(* comes to a node some execution passed, at the latest to the entry; the  *)
(* first such nodes are branchings of which the execution took the other   *)
(* edge, because it went further and the exit is behind no STOP.           *)
(***************************************************************************)
\* A set of numbers that is not empty has a least element.
LEMMA LeastExists ==
  ASSUME NEW S \in SUBSET Nat, S # {}
  PROVE  \E x \in S : \A y \in S : x <= y
<1>1. PICK x \in S : \A y \in S : <<y, x>> \notin OpToRel(<, Nat)
  BY NatLessThanWellFounded, WFMin, Zenon
<1>2. \A y \in S : <<y, x>> \in Nat \X Nat
  OBVIOUS
<1>3. \A y \in S : ~(y < x)
  BY <1>1, <1>2, Zenon DEF OpToRel
<1> QED
  BY <1>3

\* One step back from the nodes P, and m such steps from x, all kept in g.
StepBack(C, P) == P \cup UNION {C.pred[n] : n \in P}

Stepwise(C, x, m, g) == [k \in 0..m |-> IF k = 0 THEN {x} ELSE StepBack(C, g[k - 1])]

Retraces(C, x, m, g) ==
  /\ DOMAIN g = 0..m
  /\ g[0] = {x}
  /\ \A k \in 1..m : g[k] = StepBack(C, g[k - 1])

\* There are steps back for every number of them.
LEMMA StepsExist ==
  ASSUME NEW C, NEW x, NEW m \in Nat
  PROVE  \E g : g = Stepwise(C, x, m, g)
<1> DEFINE without == {k \in Nat : \A g : g # Stepwise(C, x, k, g)}
<1> SUFFICES ASSUME without # {} PROVE FALSE
  OBVIOUS
<1>1. PICK k \in without : \A l \in without : k <= l
  <2>1. without \in SUBSET Nat
    OBVIOUS
  <2> HIDE DEF without
  <2> QED
    BY <2>1, LeastExists
<1>2. k \in Nat /\ \A g : g # Stepwise(C, x, k, g)
  BY <1>1
<1>3. CASE k = 0
  <2> DEFINE g == [i \in 0..0 |-> {x}]
  <2>1. g = Stepwise(C, x, 0, g)
    BY DEF Stepwise
  <2> QED
    BY <1>2, <1>3, <2>1
<1>4. CASE k # 0
  <2>1. k - 1 \in Nat /\ k - 1 \notin without
    BY <1>1, <1>2, <1>4
  <2>2. PICK g : g = Stepwise(C, x, k - 1, g)
    BY <2>1
  <2> HIDE DEF without
  <2> DEFINE h == [i \in 0..k |-> IF i = k THEN StepBack(C, g[k - 1]) ELSE g[i]]
  <2>3. \A i \in 0..(k - 1) : g[i] = IF i = 0 THEN {x} ELSE StepBack(C, g[i - 1])
    BY <2>2 DEF Stepwise
  <2>4. /\ \A i \in 0..(k - 1) : h[i] = g[i]
        /\ h[k] = StepBack(C, g[k - 1])
    BY <1>2
  <2>5. ASSUME NEW i \in 0..k
        PROVE  h[i] = IF i = 0 THEN {x} ELSE StepBack(C, h[i - 1])
    <3>1. CASE i = k
      <4>1. h[k - 1] = g[k - 1]
        BY <1>2, <1>4, <2>4
      <4> HIDE DEF h
      <4> QED
        BY <1>4, <2>4, <3>1, <4>1
    <3>2. CASE i # k
      <4>1. i \in 0..(k - 1) /\ (i # 0 => i - 1 \in 0..(k - 1))
        BY <1>2, <2>5, <3>2
      <4> HIDE DEF h
      <4> QED
        BY <2>3, <2>4, <4>1
    <3> QED
      BY <3>1, <3>2
  <2>6. h = Stepwise(C, x, k, h)
    <3>1. h = [i \in 0..k |-> h[i]]
      OBVIOUS
    <3> HIDE DEF h
    <3> QED
      BY <2>5, <3>1 DEF Stepwise
  <2> HIDE DEF h
  <2> QED
    BY <1>2, <2>6
<1> QED
  BY <1>3, <1>4

\* Behind is what it is defined to be.
LEMMA BehindRetraces ==
  ASSUME NEW x, Cardinality(comp.nodes) \in Nat
  PROVE  Retraces(comp, x, Cardinality(comp.nodes), Behind(x))
<1> DEFINE m == Cardinality(comp.nodes)
<1>1. Behind(x) = CHOOSE g : g = Stepwise(comp, x, m, g)
  BY DEF Behind, Stepwise, StepBack
<1>2. \E g : g = Stepwise(comp, x, m, g)
  BY StepsExist
<1>3. Behind(x) = Stepwise(comp, x, m, Behind(x))
  BY <1>1, <1>2
<1> DEFINE B == Behind(x)
<1> HIDE DEF m, B
<1>4. B = Stepwise(comp, x, m, B) /\ m \in Nat
  BY <1>3 DEF B, m
<1>5. /\ DOMAIN B = 0..m
      /\ \A k \in 0..m : B[k] = IF k = 0 THEN {x} ELSE StepBack(comp, B[k - 1])
  <2>1. DOMAIN Stepwise(comp, x, m, B) = 0..m
    BY DEF Stepwise
  <2>2. \A k \in 0..m : Stepwise(comp, x, m, B)[k] = IF k = 0 THEN {x} ELSE StepBack(comp, B[k - 1])
    BY DEF Stepwise
  <2> QED
    BY <1>4, <2>1, <2>2
<1>6. Retraces(comp, x, m, B)
  <2>1. 0 \in 0..m /\ \A k \in 1..m : k \in 0..m /\ k # 0
    BY <1>4
  <2> QED
    BY <1>5, <2>1 DEF Retraces
<1> QED
  BY <1>6 DEF B, m

\* What is in one step is in the next one and has the nodes that lead to the
\* one before.
LEMMA OneStepBack ==
  ASSUME NEW C, Good(C), NEW x, NEW m \in Nat, NEW g, Retraces(C, x, m, g),
         NEW k \in 1..m, g[k - 1] \subseteq C.nodes
  PROVE  \A u : u \in g[k] <=> u \in g[k - 1] \/ \E n \in g[k - 1] : Leads(C, u, n)
<1>1. g[k] = StepBack(C, g[k - 1])
  BY DEF Retraces
<1>2. \A n \in C.nodes : \A u : u \in C.pred[n] <=> Leads(C, u, n)
  BY DEF Good, IsDigraph, Leads
<1> QED
  BY <1>1, <1>2 DEF StepBack

\* Going back one stays among the nodes.
LEMMA BackAmongNodes ==
  ASSUME NEW C, Good(C), NEW x \in C.nodes, NEW m \in Nat, NEW g, Retraces(C, x, m, g)
  PROVE  \A k \in 0..m : g[k] \subseteq C.nodes
<1> DEFINE bad == {k \in 0..m : ~(g[k] \subseteq C.nodes)}
<1> SUFFICES ASSUME bad # {} PROVE FALSE
  OBVIOUS
<1>1. PICK k \in bad : \A l \in bad : k <= l
  <2>1. bad \in SUBSET Nat
    OBVIOUS
  <2> HIDE DEF bad
  <2> QED
    BY <2>1, LeastExists
<1>2. k \in 0..m /\ ~(g[k] \subseteq C.nodes)
  BY <1>1
<1>3. k # 0
  BY <1>2 DEF Retraces
<1>4. k \in 1..m /\ k - 1 \in 0..m /\ k - 1 \notin bad
  BY <1>1, <1>2, <1>3
<1>5. g[k - 1] \subseteq C.nodes
  BY <1>4
<1>6. \A u, n : Leads(C, u, n) => u \in C.nodes
  BY DEF Good, IsDigraph, Leads
<1> HIDE DEF bad
<1> QED
  BY <1>2, <1>4, <1>5, <1>6, OneStepBack

\* Each step back keeps what the steps before it found.
LEMMA BackKeeps ==
  ASSUME NEW C, Good(C), NEW x \in C.nodes, NEW m \in Nat, NEW g, Retraces(C, x, m, g),
         NEW j \in 0..m, NEW k \in 0..m, j <= k
  PROVE  g[j] \subseteq g[k]
<1> DEFINE bad == {l \in j..m : ~(g[j] \subseteq g[l])}
<1> SUFFICES ASSUME bad # {} PROVE FALSE
  <2>1. k \in j..m
    OBVIOUS
  <2> QED
    BY <2>1
<1>1. PICK l \in bad : \A i \in bad : l <= i
  <2>1. bad \in SUBSET Nat
    OBVIOUS
  <2> HIDE DEF bad
  <2> QED
    BY <2>1, LeastExists
<1>2. l \in j..m /\ ~(g[j] \subseteq g[l])
  BY <1>1
<1>3. l # j
  BY <1>2
<1>4. l \in 1..m /\ l - 1 \in j..m /\ l - 1 \in 0..m /\ l - 1 \notin bad
  BY <1>1, <1>2, <1>3
<1>5. g[j] \subseteq g[l - 1]
  BY <1>4
<1> HIDE DEF bad
<1>6. g[l - 1] \subseteq g[l]
  BY <1>4, BackAmongNodes, OneStepBack
<1> QED
  BY <1>2, <1>5, <1>6

\* What leads back to x is x or leads on.
LEMMA BehindLeadsOn ==
  ASSUME NEW C, Good(C), NEW x \in C.nodes, NEW m \in Nat, NEW g, Retraces(C, x, m, g)
  PROVE  \A k \in 0..m : \A w \in g[k] : w = x \/ ~IsSink(C, w)
<1> DEFINE bad == {k \in 0..m : \E w \in g[k] : w # x /\ IsSink(C, w)}
<1> SUFFICES ASSUME bad # {} PROVE FALSE
  OBVIOUS
<1>1. PICK k \in bad : \A l \in bad : k <= l
  <2>1. bad \in SUBSET Nat
    OBVIOUS
  <2> HIDE DEF bad
  <2> QED
    BY <2>1, LeastExists
<1>2. k \in 0..m
  BY <1>1
<1>3. PICK w \in g[k] : w # x /\ IsSink(C, w)
  BY <1>1
<1>4. k # 0
  BY <1>3 DEF Retraces
<1>5. k \in 1..m /\ k - 1 \in 0..m /\ k - 1 \notin bad
  BY <1>1, <1>2, <1>4
<1>6. w \notin g[k - 1]
  BY <1>3, <1>5
<1> HIDE DEF bad
<1> QED
  BY <1>3, <1>5, <1>6, BackAmongNodes, OneStepBack DEF IsSink

\* As many steps back as there are nodes lead to the entry: each step before
\* that finds a node made earlier than all found so far.
LEMMA BackToTheEntry ==
  ASSUME NEW C, NEW f, GraphOK(C, f), Climbs(C), NEW x \in C.nodes,
         NEW g, Retraces(C, x, Cardinality(C.nodes), g)
  PROVE  1 \in g[Cardinality(C.nodes)]
<1> DEFINE m == Cardinality(C.nodes)
<1>1. IsFiniteSet(C.nodes) /\ m \in Nat /\ C.nodes \subseteq Nat
  <2>1. f \in Nat /\ C.nodes \subseteq 1..f
    BY DEF GraphOK
  <2>2. IsFiniteSet(1..f)
    BY <2>1, FS_Interval
  <2>3. IsFiniteSet(C.nodes)
    BY <2>1, <2>2, FS_Subset
  <2> QED
    BY <2>1, <2>3, FS_CardinalityType
<1>2. Good(C) /\ C.entry = 1 /\ Retraces(C, x, m, g)
  BY DEF GraphOK
<1> HIDE DEF m
<1>3. \A k \in 0..m : g[k] \subseteq C.nodes
  BY <1>1, <1>2, BackAmongNodes
<1>4. ASSUME NEW k \in 1..m, 1 \notin g[k]
      PROVE  /\ 1 \notin g[k - 1]
             /\ \E u : u \in g[k] /\ u \notin g[k - 1]
  <2>1. k - 1 \in 0..m /\ k \in 0..m /\ k - 1 <= k
    BY <1>1
  <2>2. g[k - 1] \subseteq g[k] /\ g[k - 1] \subseteq C.nodes
    BY <1>1, <1>2, <1>3, <2>1, BackKeeps
  <2>3. x \in g[k - 1]
    <3>1. 0 \in 0..m /\ 0 <= k - 1 /\ g[0] = {x}
      BY <1>1, <1>2 DEF Retraces
    <3> QED
      BY <1>1, <1>2, <2>1, <3>1, BackKeeps
  <2>4. PICK n \in g[k - 1] : \A l \in g[k - 1] : n <= l
    <3>1. g[k - 1] \in SUBSET Nat /\ g[k - 1] # {}
      BY <1>1, <2>2, <2>3
    <3> QED
      BY <3>1, LeastExists
  <2>5. n \in C.nodes /\ n # C.entry
    BY <1>2, <1>4, <2>2, <2>4
  <2>6. PICK u : Leads(C, u, n) /\ u < n
    BY <2>5 DEF Climbs
  <2>7. u \in C.nodes
    BY <1>2, <2>6 DEF Good, IsDigraph, Leads
  <2>8. u \notin g[k - 1]
    <3>1. u \in Nat /\ n \in Nat
      BY <1>1, <2>5, <2>7
    <3>2. ~(n <= u)
      BY <2>6, <3>1
    <3> QED
      BY <2>4, <3>2
  <2>9. u \in g[k]
    BY <1>1, <1>2, <2>2, <2>4, <2>6, OneStepBack
  <2> QED
    BY <1>4, <2>2, <2>8, <2>9
<1> DEFINE bad == {k \in 0..m : 1 \notin g[k] /\ Cardinality(g[k]) <= k}
<1>5. bad = {}
  <2> SUFFICES ASSUME bad # {} PROVE FALSE
    OBVIOUS
  <2>1. PICK k \in bad : \A l \in bad : k <= l
    <3>1. bad \in SUBSET Nat
      OBVIOUS
    <3> HIDE DEF bad
    <3> QED
      BY <3>1, LeastExists
  <2>2. k \in 0..m /\ 1 \notin g[k] /\ Cardinality(g[k]) <= k
    BY <2>1
  <2>3. k # 0
    <3>1. g[0] = {x} /\ Cardinality({x}) = 1
      BY <1>2, FS_Singleton DEF Retraces
    <3>2. ~(Cardinality(g[0]) <= 0)
      BY <3>1
    <3> QED
      BY <2>2, <3>2
  <2>4. k \in 1..m /\ k - 1 \in 0..m /\ k - 1 \notin bad
    BY <1>1, <2>1, <2>2, <2>3
  <2>5. 1 \notin g[k - 1]
    BY <1>4, <2>2, <2>4
  <2>6. PICK u : u \in g[k] /\ u \notin g[k - 1]
    BY <1>4, <2>2, <2>4
  <2>7. ~(Cardinality(g[k - 1]) <= k - 1)
    BY <2>4, <2>5
  <2> HIDE DEF bad
  <2>8. /\ IsFiniteSet(g[k - 1]) /\ IsFiniteSet(g[k])
        /\ Cardinality(g[k - 1]) \in Nat /\ Cardinality(g[k]) \in Nat
    BY <1>1, <1>3, <2>2, <2>4, FS_Subset, FS_CardinalityType
  <2>9. g[k - 1] \cup {u} \subseteq g[k]
    <3>1. k - 1 <= k
      BY <2>4
    <3> QED
      BY <1>1, <1>2, <2>2, <2>4, <2>6, <3>1, BackKeeps
  <2>10. Cardinality(g[k - 1] \cup {u}) = Cardinality(g[k - 1]) + 1
    BY <2>6, <2>8, FS_AddElement
  <2>11. Cardinality(g[k - 1] \cup {u}) <= Cardinality(g[k])
    BY <2>8, <2>9, FS_Subset
  <2>12. \A a, b \in Nat : \A i \in Nat : ~(a <= i - 1) /\ a + 1 <= b => ~(b <= i)
    OBVIOUS
  <2>13. k \in Nat
    BY <2>4
  <2> QED
    BY ONLY <2>2, <2>7, <2>8, <2>10, <2>11, <2>12, <2>13
<1>6. Cardinality(g[m]) <= m /\ m \in 0..m
  <2>1. m \in 0..m
    BY <1>1
  <2>2. g[m] \subseteq C.nodes
    BY <1>3, <2>1
  <2> QED
    BY <1>1, <2>1, <2>2, FS_Subset DEF m
<1>7. 1 \in g[m]
  BY <1>5, <1>6
<1> QED
  BY <1>7 DEF m

\* Between executions, all of which ran to a STOP.
AllStopped == Searching /\ Endings = {"stopped"}

\* Then the exits left to explore are sinks that nobody visited.
LEMMA ExitsAreUnseen ==
  ASSUME ShapeInv, RecordsInv, ExitsInv, SearchInv, AllStopped, NEW x \in DOMAIN unexplored
  PROVE  x \in comp.nodes /\ IsSink(comp, x) /\ x \notin Seen
<1>1. /\ Walks(comp, histories, cpu.node) /\ x \in comp.nodes
      /\ current = Len(histories) /\ endings[current] # ""
      /\ \A e \in 1..Len(histories) : endings[e] = "stopped"
  <2>1. \A e \in 1..current : endings[e] \in Endings
    BY DEF Endings
  <2> QED
    BY <2>1 DEF ShapeInv, RecordsInv, AllStopped, Searching, current
<1>2. IsSink(comp, x)
  <2>1. ~Running
    BY <1>1 DEF Running
  <2>2. ~TimeIsUp
    BY <1>1 DEF TimeIsUp
  <2> QED
    BY <2>1, <2>2 DEF ExitsInv, BeingVisited
<1>3. ASSUME x \in Seen PROVE FALSE
  <2>1. PICK e \in 1..Len(histories) : \E i \in 1..Len(histories[e]) : histories[e][i] = x
    BY <1>3 DEF Seen, SeenIn
  <2>2. PICK i \in 1..Len(histories[e]) : histories[e][i] = x
    BY <2>1
  <2>3. Len(histories[e]) \in Nat
    <3>1. histories \in Seq(Seq(Nat))
      BY <1>1 DEF Walks
    <3>2. histories[e] \in Seq(Nat)
      BY ONLY <3>1, ElementOfSeq
    <3> QED
      BY ONLY <3>2, LenProperties
  <2>4. CASE i = Len(histories[e])
    BY <1>1, <1>2, <2>2, <2>4 DEF SearchInv, AllHalt, Halts, IsSink
  <2>5. CASE i # Len(histories[e])
    <3>1. i \in 1..(Len(histories[e]) - 1)
      BY <2>3, <2>5
    <3> QED
      BY <1>1, <1>2, <2>2, <3>1 DEF Walks, IsSink
  <2> QED
    BY <2>4, <2>5
<1> QED
  BY <1>1, <1>2, <1>3

\* An execution left a node it passed for another one than w: one edge of that
\* branching was visited and the one to w was not.
LEMMA PassedIsHalfVisited ==
  ASSUME ShapeInv, RecordsInv, BranchesInv, SearchInv, AllStopped,
         NEW x \in DOMAIN unexplored, NEW u \in Seen, NEW w, w \notin Seen,
         Leads(comp, u, w), w = x \/ ~IsSink(comp, w)
  PROVE  u \in HalfVisited
<1>1. /\ Walks(comp, histories, cpu.node) /\ Good(comp) /\ u \in comp.nodes
      /\ \A e \in 1..Len(histories) : endings[e] = "stopped"
  <2>1. \A e \in 1..current : endings[e] \in Endings
    BY DEF Endings
  <2>2. GraphOK(comp, fresh) /\ Walks(comp, histories, cpu.node)
    BY DEF ShapeInv
  <2>3. Good(comp) /\ u \in comp.nodes
    BY <2>2 DEF GraphOK, Good, IsDigraph, Leads
  <2> QED
    BY <2>1, <2>2, <2>3 DEF AllStopped, current
<1>2. PICK e \in 1..Len(histories) : \E i \in 1..Len(histories[e]) : histories[e][i] = u
  BY DEF Seen, SeenIn
<1>3. PICK i \in 1..Len(histories[e]) : histories[e][i] = u
  BY <1>2
<1>4. Len(histories[e]) \in Nat
  BY <1>1 DEF Walks
<1>5. CASE i = Len(histories[e])
  <2>1. Halts(comp, u)
    BY <1>1, <1>3, <1>5 DEF SearchInv, AllHalt
  <2>2. Along(comp, u, w).gik = "STOP"
    BY <2>1 DEF Halts
  <2>3. IsSink(comp, w)
    BY <2>2 DEF SearchInv, StopsLast, IsSink
  <2>4. x \notin Seen \cup DOMAIN unexplored
    BY <2>2, <2>3 DEF SearchInv, StopsAhead
  <2> QED
    BY <2>4
<1>6. CASE i # Len(histories[e])
  <2> DEFINE v == histories[e][i + 1]
  <2>1. i \in 1..(Len(histories[e]) - 1)
    BY <1>4, <1>6
  <2>2. Leads(comp, u, v) /\ v \in Seen
    BY <1>1, <1>3, <2>1, PassedNodes DEF Seen
  <2>3. Forks(comp, u)
    <3>1. Forks(comp, u) \/ OneWay(comp, u, v)
      BY <1>3, <2>1 DEF SearchInv, TakesWays
    <3> HIDE DEF v
    <3> QED
      BY <2>2, <3>1 DEF OneWay
  <2>4. <<u, v>> \in visited
    <3>1. Chooses(comp, histories, e, i)
      BY <1>3, <2>1, <2>3 DEF Chooses
    <3> QED
      BY <1>3, <3>1 DEF BranchesInv, Recorded
  <2>5. <<u, w>> \notin visited
    <3>1. <<u, w>>[2] = w
      OBVIOUS
    <3> QED
      BY <3>1 DEF RecordsInv
  <2>6. v \in comp.succ[u] /\ w \in comp.succ[u]
    BY <1>1, <2>2, SuccessorsLed
  <2> HIDE DEF v
  <2> QED
    BY <1>1, <2>3, <2>4, <2>5, <2>6 DEF HalfVisited, Forks
<1> QED
  BY <1>5, <1>6

\* Going back from x until some execution has been there, one finds a branching
\* that is half visited.
LEMMA SeenIsFoundHalfVisited ==
  ASSUME ShapeInv, RecordsInv, ExitsInv, BranchesInv, SearchInv, AllStopped,
         NEW x \in DOMAIN unexplored,
         NEW m \in Nat, NEW g, Retraces(comp, x, m, g),
         NEW j \in 0..m, g[j] \cap Seen # {}
  PROVE  \E k \in 0..j : g[k] \cap HalfVisited # {}
<1>1. Good(comp) /\ x \in comp.nodes /\ IsSink(comp, x) /\ x \notin Seen
  BY ExitsAreUnseen DEF ShapeInv, GraphOK
<1> DEFINE found == {k \in 0..j : g[k] \cap Seen # {}}
<1>2. PICK k \in found : \A l \in found : k <= l
  <2>1. found \in SUBSET Nat /\ j \in found
    OBVIOUS
  <2> HIDE DEF found
  <2> QED
    BY <2>1, LeastExists
<1>3. k \in 0..j /\ g[k] \cap Seen # {}
  BY <1>2
<1>4. k # 0
  BY <1>1, <1>3 DEF Retraces
<1>5. k \in 1..m /\ k - 1 \in 0..m /\ k - 1 \in 0..j /\ k - 1 \notin found
  BY <1>2, <1>3, <1>4
<1>6. g[k - 1] \cap Seen = {}
  BY <1>5
<1> HIDE DEF found
<1>7. PICK u \in g[k] : u \in Seen
  BY <1>3
<1>8. PICK w \in g[k - 1] : Leads(comp, u, w)
  <2>1. g[k - 1] \subseteq comp.nodes
    BY <1>1, <1>5, BackAmongNodes
  <2> QED
    BY <1>1, <1>5, <1>6, <1>7, <2>1, OneStepBack
<1>9. w \notin Seen /\ (w = x \/ ~IsSink(comp, w))
  BY <1>1, <1>5, <1>6, <1>8, BehindLeadsOn
<1>10. u \in HalfVisited
  BY <1>7, <1>8, <1>9, PassedIsHalfVisited
<1> QED
  BY <1>3, <1>7, <1>10

\* Of two things one is the other one.
LEMMA OtherOne ==
  ASSUME NEW S, IsFiniteSet(S), Cardinality(S) = 2,
         NEW a \in S, NEW b \in S, NEW c \in S, a # b, a # c
  PROVE  b = c
<1>1. IsFiniteSet(S \ {a}) /\ Cardinality(S \ {a}) = 1
  BY FS_RemoveElement
<1>2. PICK z : S \ {a} = {z}
  BY <1>1, FS_Singleton
<1> QED
  BY <1>2

\* An exit left to explore has goals, and each of them leads to it.
LEMMA GoalsReachTheirExit ==
  ASSUME ShapeInv, RecordsInv, ExitsInv, BranchesInv, SearchInv, AllStopped,
         NEW x \in DOMAIN unexplored
  PROVE  Goals(x) # {} /\ \A goal \in Goals(x) : Reaches(goal[2], x)
<1> DEFINE m == Cardinality(comp.nodes)
           B == Behind(x)
           hits == {k \in DOMAIN B : B[k] \cap HalfVisited # {}}
           nearest == CHOOSE k \in hits : \A l \in hits : k <= l
<1>1. /\ GraphOK(comp, fresh) /\ Good(comp) /\ Walks(comp, histories, cpu.node)
      /\ x \in comp.nodes /\ IsSink(comp, x) /\ x \notin Seen
  BY ExitsAreUnseen DEF ShapeInv, GraphOK
<1>2. IsFiniteSet(comp.nodes) /\ m \in Nat
  <2>1. fresh \in Nat /\ comp.nodes \subseteq 1..fresh
    BY <1>1 DEF GraphOK
  <2>2. IsFiniteSet(1..fresh)
    BY <2>1, FS_Interval
  <2>3. IsFiniteSet(comp.nodes)
    BY <2>1, <2>2, FS_Subset
  <2> QED
    BY <2>3, FS_CardinalityType
<1>3. Retraces(comp, x, m, B)
  BY <1>2, BehindRetraces
<1>4. 1 \in B[m]
  <2>1. Climbs(comp)
    BY DEF SearchInv
  <2> QED
    BY <1>1, <1>3, <2>1, BackToTheEntry
<1>5. Goals(x) = IF hits = {} THEN {}
                 ELSE {e \in DOMAIN comp.edges : e[1] \in B[nearest] \cap HalfVisited /\ e \notin visited}
  BY DEF Goals
<1>6. \A n : Reaches(n, x) <=> n \in B[m]
  BY DEF Reaches
<1> HIDE DEF m, B
<1>7. hits \in SUBSET (0..m) /\ \A k : k \in hits <=> k \in 0..m /\ B[k] \cap HalfVisited # {}
  BY <1>3 DEF Retraces
<1>8. hits # {}
  <2>1. 1 \in Seen
    <3>1. Len(histories) \in Nat /\ Len(histories) > 0
      <4>1. histories \in Seq(Seq(Nat))
        BY <1>1 DEF Walks
      <4>2. Len(histories) > 0
        BY DEF AllStopped, Searching, current
      <4> QED
        BY ONLY <4>1, <4>2, LenProperties
    <3>2. 1 \in 1..Len(histories)
      BY <3>1
    <3>3. Len(histories[1]) \in Nat /\ Len(histories[1]) > 0 /\ histories[1][1] = 1
      BY <1>1, <3>2 DEF Walks
    <3>4. 1 \in 1..Len(histories[1])
      BY <3>3
    <3> QED
      BY <3>2, <3>3, <3>4 DEF Seen, SeenIn
  <2>2. m \in 0..m /\ B[m] \cap Seen # {}
    BY <1>2, <1>4, <2>1
  <2>3. PICK k \in 0..m : B[k] \cap HalfVisited # {}
    BY <1>2, <1>3, <2>2, SeenIsFoundHalfVisited
  <2> QED
    BY <1>7, <2>3
<1> HIDE DEF hits
<1>9. nearest \in hits /\ \A l \in hits : nearest <= l
  <2>1. hits \in SUBSET Nat
    BY <1>2, <1>7
  <2>2. \E k \in hits : \A l \in hits : k <= l
    BY <1>8, <2>1, LeastExists
  <2> QED
    BY <2>2
<1> HIDE DEF nearest
<1>10. nearest \in 0..m /\ B[nearest] \cap HalfVisited # {}
  BY <1>7, <1>9
<1>11. \A u \in HalfVisited : /\ u \in comp.nodes /\ Cardinality(comp.succ[u]) = 2
                              /\ \E v \in comp.succ[u] : <<u, v>> \in visited
                              /\ \E v \in comp.succ[u] : <<u, v>> \notin visited
  BY DEF HalfVisited
<1>12. Goals(x) # {}
  <2>1. PICK u \in B[nearest] : u \in HalfVisited
    BY <1>10
  <2>2. PICK v \in comp.succ[u] : <<u, v>> \notin visited
    BY <1>11, <2>1
  <2>3. <<u, v>> \in DOMAIN comp.edges
    BY <1>1, <1>11, <2>1, <2>2, SuccessorsLed DEF Leads
  <2>4. <<u, v>>[1] = u
    OBVIOUS
  <2>5. <<u, v>> \in Goals(x)
    BY <1>5, <1>8, <2>1, <2>2, <2>3, <2>4
  <2> QED
    BY <2>5
<1>13. ASSUME NEW goal \in Goals(x) PROVE goal[2] \in B[m]
  <2>1. PICK u, v : goal = <<u, v>> /\ Leads(comp, u, v)
    <3>1. goal \in DOMAIN comp.edges
      BY <1>5, <1>8
    <3>2. DOMAIN comp.edges \subseteq comp.nodes \X comp.nodes
      BY <1>1 DEF Good, IsDigraph
    <3> QED
      BY <3>1, <3>2 DEF Leads
  <2>2. u \in B[nearest] /\ u \in HalfVisited /\ <<u, v>> \notin visited
    BY <1>5, <1>8, <2>1
  <2>3. nearest # 0
    <3>1. u # x
      BY <1>1, <2>1 DEF IsSink
    <3> QED
      BY <1>3, <2>2, <3>1 DEF Retraces
  <2>4. nearest \in 1..m /\ nearest - 1 \in 0..m /\ ~(nearest <= nearest - 1)
    BY <1>2, <1>10, <2>3
  <2>5. B[nearest - 1] \subseteq comp.nodes
    BY <1>1, <1>2, <1>3, <2>4, BackAmongNodes
  <2>6. u \notin B[nearest - 1]
    BY <1>7, <1>9, <2>2, <2>4
  <2>7. PICK n \in B[nearest - 1] : Leads(comp, u, n)
    BY <1>1, <1>2, <1>3, <2>2, <2>4, <2>5, <2>6, OneStepBack
  <2>8. B[nearest - 1] \cap Seen = {}
    <3> SUFFICES ASSUME B[nearest - 1] \cap Seen # {} PROVE FALSE
      OBVIOUS
    <3>1. PICK k \in 0..(nearest - 1) : B[k] \cap HalfVisited # {}
      BY <1>2, <1>3, <2>4, SeenIsFoundHalfVisited
    <3>2. k \in 0..m /\ ~(nearest <= k)
      BY <1>2, <2>4
    <3> QED
      BY <1>7, <1>9, <3>1, <3>2
  <2>9. <<u, n>> \notin visited
    <3>1. <<u, n>>[2] = n
      OBVIOUS
    <3> QED
      BY <2>7, <2>8, <3>1 DEF RecordsInv
  <2>10. PICK w \in comp.succ[u] : <<u, w>> \in visited
    BY <1>11, <2>2
  <2>11. v = n
    <3>1. v \in comp.succ[u] /\ n \in comp.succ[u]
      BY <1>1, <1>11, <2>1, <2>2, <2>7, SuccessorsLed
    <3>2. w # v /\ w # n
      BY <2>2, <2>9, <2>10
    <3>3. IsFiniteSet(comp.succ[u]) /\ Cardinality(comp.succ[u]) = 2
      <4>1. comp.succ[u] \subseteq comp.nodes
        BY <1>1, <1>11, <2>2 DEF Good, IsDigraph
      <4> QED
        BY <1>2, <1>11, <2>2, <4>1, FS_Subset
    <3> QED
      BY <2>10, <3>1, <3>2, <3>3, OtherOne
  <2>12. B[nearest - 1] \subseteq B[m]
    <3>1. m \in 0..m /\ nearest - 1 <= m
      BY <1>2, <2>4
    <3> QED
      BY <1>1, <1>2, <1>3, <2>4, <3>1, BackKeeps
  <2> QED
    BY <2>1, <2>7, <2>11, <2>12
<1> QED
  BY <1>6, <1>12, <1>13

\* Between executions every goal found was passed by an execution, and if all of
\* them ran to a STOP, every exit left to explore has goals, which lead to it.
THEOREM SearchAlwaysSucceeds == Spec => []SearchSucceeds
<1>1. /\ ShapeInv /\ RecordsInv /\ ExitsInv /\ BranchesInv /\ SearchInv /\ GoalsHaveTraces
      => SearchSucceeds
  BY GoalsReachTheirExit DEF SearchSucceeds, GoalsHaveTraces, AllStopped
<1> QED
  BY <1>1, ShapeHolds, RecordsHold, ExitsHold, BranchesHold, SearchInvHolds, TracesAreFound, PTL
=============================================================================
