------------------------------ MODULE Recovery ------------------------------
(***************************************************************************)
(* The recovery of a program from its binary: a thread executes the        *)
(* Microcode program recovered so far, and where it stands at a node       *)
(* without successors the recogniser turns the native instruction at the   *)
(* thread's IP into a small component, which is merged into that node.     *)
(* An assignment of a register to IP becomes a switch, which gets a case   *)
(* for every address seen there.                                           *)
(*                                                                         *)
(* Modelled are execute_program (the one that recognises), execution_step, *)
(* the part of recovery_properties they keep, and the search for the next  *)
(* goal.  A recovered program has one component and one thread: the        *)
(* recogniser emits neither calls nor forks.  Of the REG pool the IP and   *)
(* the temporary compared in switches are kept; every other register holds *)
(* data, and a guard on data may go either way.                            *)
(***************************************************************************)
EXTENDS ProgramComponent

CONSTANTS
  Images,        \* the native programs: functions from addresses to instructions
  EntryPoint,    \* the address at which the native program starts
  MaxNode,       \* bound: the last node id handed out
  MaxExecutions  \* how often an input reaching the goal is found, plus one; 1 is
                 \* the code as it stands, which computes no inputs yet

ASSUME RecoveryAssumption ==
  /\ \A image \in Images : /\ DOMAIN image \subseteq Nat
                          /\ \A a \in DOMAIN image : image[a].by \in Int
  /\ EntryPoint \in Nat
  /\ MaxNode \in Nat
  /\ MaxExecutions \in Nat

VARIABLES
  image,      \* the native program in memory
  comp,       \* the start component of the program being recovered
  fresh,      \* the last node id given out
  cpu,        \* the thread: [node, ip, tmp]
  known,      \* the CPU.IP annotations: from nodes to addresses
  unexplored, \* m_unexplored: from nodes to the address recognised before them
  switches,   \* m_switches: from head nodes to [cases, default, havoc]
  visited,    \* m_visided_branchings: the edges of branchings taken so far
  histories,  \* m_node_histories: the nodes visited, per execution
  branchings, \* m_branchings: the positions of branchings in the histories
  endings,    \* how each execution ended, "" for the one under way
  outcome     \* what run returns, "" before it does

program == <<comp, fresh>>
records == <<unexplored, visited, histories, branchings>>
vars == <<image, program, cpu, known, switches, records, endings, outcome>>

-----------------------------------------------------------------------------
(***************************************************************************)
(* The components the recogniser builds, one shape for each way in which   *)
(* native instructions differ in their control flow.  The argument of an   *)
(* IPADD is what the instruction adds to IP.                               *)
(***************************************************************************)
Ins(gik, arg) == [gik |-> gik, arg |-> arg]
Empty == Ins("EMPTY", 0)
IsSwitchInstruction(I) == I.gik = "IPREG"

\* A chain out of the entry node.
Straight(entry, I) ==
  LET r == InsertSequence(NewComponent(entry), entry, I, 0, entry)
  IN  [comp |-> r.comp, fresh |-> r.fresh]

\* JNE and the other conditional jumps.
Conditional(entry, taken) ==
  LET b == InsertBranching(NewComponent(entry), "EQ", "zf", entry, 0, 0, entry)
      s == InsertSequence(b.comp, b.fst, <<Ins("IPADD", taken)>>, 0, b.fresh)
      r == InsertSequence(s.comp, b.snd, <<Ins("IPADD", 1)>>, 0, s.fresh)
  IN  [comp |-> r.comp, fresh |-> r.fresh]

\* CMOVE: the copy on one branch should join the other one; the extension of
\* the target register, last in the list, is empty unless it is 32 bits wide.
ConditionalMove(entry, extension) ==
  LET b == InsertBranching(NewComponent(entry), "NE", "zf", entry, 0, 0, entry)
      s == InsertSequence(b.comp, b.fst, <<Ins("SET", 0), extension>>, b.snd, b.fresh)
      r == InsertSequence(s.comp, b.snd, <<Ins("IPADD", 1)>>, 0, s.fresh)
  IN  [comp |-> r.comp, fresh |-> r.fresh]

Recognisable == {"nop", "jmp", "jne", "jmpreg", "ret", "cmov32", "cmov64", "exit"}

\* The component of the native instruction N; its entry is the next fresh node.
Recognised(N, entry) ==
  CASE N.op = "nop"    -> Straight(entry, <<Ins("IPADD", 1)>>)
    [] N.op = "jmp"    -> Straight(entry, <<Ins("IPADD", N.by)>>)
    [] N.op = "jne"    -> Conditional(entry, N.by)
    [] N.op = "jmpreg" -> Straight(entry, <<Ins("IPREG", 0)>>)
    [] N.op = "ret"    -> Straight(entry, <<Ins("DEREF", 0), Ins("IPREG", 0), Ins("HAVOC", 0)>>)
    [] N.op = "cmov32" -> ConditionalMove(entry, Ins("SET", 0))
    [] N.op = "cmov64" -> ConditionalMove(entry, Empty)
    [] N.op = "exit"   -> Straight(entry, <<Ins("STOP", 0)>>)

-----------------------------------------------------------------------------
(***************************************************************************)
(* add_case_to_switch.  The first case takes the instruction that havocs   *)
(* temporaries away from behind the head; every case repeats it.           *)
(***************************************************************************)
NewSwitch(head) == [cases |-> << >>, default |-> head, havoc |-> FALSE]

CanAddCase(C, head, info, ip) ==
  /\ ip \notin DOMAIN info.cases
  /\ info.default \in C.nodes
  /\ ~info.havoc =>
       /\ info.default = head
       /\ \E u \in C.pred[head] : /\ C.pred[head] = {u}
                                  /\ IsSwitchInstruction(C.edges[<<u, head>>])
       /\ C.succ[head] # {} =>
            \E t \in C.succ[head] : /\ C.succ[head] = {t}
                                    /\ C.edges[<<head, t>>].gik = "HAVOC"
                                    /\ C.succ[t] = {}
  /\ info.havoc => C.succ[info.default] = {}

\* The node behind the head that the first case erases, 0 if there is none.
HavocTail(C, info) ==
  IF info.havoc \/ C.succ[info.default] = {} THEN 0
  ELSE CHOOSE t \in C.succ[info.default] : TRUE

CaseAdded(C, info, ip, f) ==
  LET tail == HavocTail(C, info)
      bare == IF tail = 0 THEN C ELSE RemoveNode(C, tail)
      x == InsertSequence(bare, info.default, <<Ins("XOR", ip)>>, 0, f)
      b == InsertBranching(x.comp, "EQ", "tmp", x.last, 0, 0, x.fresh)
      h == InsertSequence(b.comp, b.fst, <<Ins("HAVOC", 0)>>, 0, b.fresh)
  IN  [comp |-> h.comp, fresh |-> h.fresh, begin |-> h.last, default |-> b.snd,
       erased |-> tail]

\* Two slips: the erased node is not reported; the node the case was to hang on
\* is erased along with it.
AddCaseSilently(C, info, ip, f) == [CaseAdded(C, info, ip, f) EXCEPT !.erased = 0]
AddCaseOnErased(C, info, ip, f) ==
  [CaseAdded(C, info, ip, f) EXCEPT !.comp = RemoveNode(@, info.default)]

AddCase(C, info, ip, f) == CaseAdded(C, info, ip, f)

\* A slip: the default stays where it was.
WithCaseOldDefault(info, ip, r) ==
  [info EXCEPT !.cases = Overlay(@, [a \in {ip} |-> r.begin]), !.havoc = TRUE]

\* The record of the switch once the case [ip, begin] was added.
WithCase(info, ip, r) ==
  [cases |-> Overlay(info.cases, [a \in {ip} |-> r.begin]),
   default |-> r.default, havoc |-> TRUE]

-----------------------------------------------------------------------------
(***************************************************************************)
(* The bookkeeping of recovery_properties.                                 *)
(***************************************************************************)
Without(f, S) == Restrict(f, DOMAIN f \ S)

AddUnexplored(U, ip, nodes) == Overlay(U, [n \in nodes |-> ip])

current == Len(histories)
History == histories[current]

Running == current > 0 /\ endings[current] = ""

\* A slip: the node the thread left is recorded.
VisitLate(v) == histories' = [histories EXCEPT ![current] = Append(@, cpu.node)]

Visit(v) == histories' = [histories EXCEPT ![current] = Append(@, v)]

\* The position recorded for a branching, and a slip that takes the next one.
PositionAfter == Len(History) + 1
Position == Len(History)

\* What is left to explore once the thread's node was visited; the exits of a
\* case, and a slip that reports only one of them.
Left == Without(unexplored, {cpu.node})
CaseWithoutDefault(r) == {r.begin}
CaseExits(r) == {r.begin, r.default}

\* A slip: one exit of a component is taken for all of them.
OneOpenExit(F) ==
  {v \in F.exits : /\ v = CHOOSE w \in F.exits : TRUE
                   /\ \E u \in F.pred[v] : F.edges[<<u, v>>].gik # "STOP"}

\* The exits a recognised component has behind instructions other than STOP.
OpenExits(F) ==
  {v \in F.exits : \E u \in F.pred[v] : F.edges[<<u, v>>].gik # "STOP"}

-----------------------------------------------------------------------------
Init ==
  /\ image \in Images
  /\ comp = NewComponent(1)
  /\ fresh = 1
  /\ cpu = [node |-> 1, ip |-> EntryPoint, tmp |-> 1]
  /\ known = << >>
  /\ unexplored = [n \in {1} |-> EntryPoint]
  /\ switches = << >>
  /\ visited = {}
  /\ histories = << >>
  /\ branchings = << >>
  /\ endings = << >>
  /\ outcome = ""

\* perform_single_native_program_execution: the prologue has set up the REG pool
\* of the one thread, which starts at the entry of the program.
Begin ==
  /\ cpu' = [node |-> comp.entry, ip |-> EntryPoint, tmp |-> 1]
  /\ histories' = Append(histories, <<comp.entry>>)
  /\ branchings' = Append(branchings, {})
  /\ endings' = Append(endings, "")
  /\ UNCHANGED <<image, program, known, switches, unexplored, visited, outcome>>

Return(message) ==
  /\ outcome' = message
  /\ UNCHANGED <<image, program, cpu, known, switches, records, endings>>

TimeIsUp == \E e \in 1..current : endings[e] = "timeout"

\* The time may be up before an execution starts, which alone makes run return.
Start ==
  /\ current = 0
  /\ outcome = ""
  /\ Begin \/ Return("timeout")

End(how) == endings' = [endings EXCEPT ![current] = how]

\* After each step the clock is asked, and the execution may have to end.
GoOnOrTimeOut == UNCHANGED endings \/ End("timeout")

AtUnknownCode == Running /\ comp.succ[cpu.node] = {}

\* The instruction at IP; "none" where there is no right to execute memory.
Nowhere == [op |-> "none", by |-> 0]
Instruction == IF cpu.ip \in DOMAIN image THEN image[cpu.ip] ELSE Nowhere

\* The recogniser succeeds and its component is merged into the thread's node.
Recognise ==
  LET F == Recognised(Instruction, fresh + 1)
  IN  /\ AtUnknownCode
      /\ Instruction.op \in Recognisable
      /\ F.fresh <= MaxNode
      /\ comp' = AppendByMerging(comp, F.comp, cpu.node)
      /\ fresh' = F.fresh
      /\ unexplored' = AddUnexplored(unexplored, cpu.ip, OpenExits(F.comp))
      /\ known' = Overlay(known, [n \in {cpu.node} |-> cpu.ip])
      /\ UNCHANGED <<image, cpu, switches, visited, histories, branchings, endings, outcome>>

\* No access right to the byte, or no translation of the instruction: the
\* thread is killed, and with the only thread the execution is over.
Kill ==
  /\ AtUnknownCode
  /\ Instruction.op \in {"none", "unsupported"}
  /\ End("killed")
  /\ UNCHANGED <<image, program, cpu, known, switches, records, outcome>>

\* Bytes that are no instruction at all give a result the caller does not know.
Crash ==
  /\ AtUnknownCode
  /\ Instruction.op = "undecodable"
  /\ End("crashed")
  /\ UNCHANGED <<image, program, cpu, known, switches, records, outcome>>

\* The one instruction out of the thread's node, which leads to v.
OnlyEdge(v) == Running /\ comp.succ[cpu.node] = {v}
Out(v) == comp.edges[<<cpu.node, v>>]

\* A slip: too few bytes of IP are compared to tell the small addresses apart.
EffectOnHighBytes(I) ==
  CASE I.gik = "IPADD" -> [cpu EXCEPT !.ip = @ + I.arg]
    [] I.gik = "XOR"   -> [cpu EXCEPT !.tmp = 0]
    [] OTHER           -> cpu

\* The effect of an instruction that neither stops nor chooses a case.
Effect(I) ==
  CASE I.gik = "IPADD" -> [cpu EXCEPT !.ip = @ + I.arg]
    [] I.gik = "XOR"   -> [cpu EXCEPT !.tmp = IF cpu.ip = I.arg THEN 0 ELSE 1]
    [] OTHER           -> cpu

Execute(v) ==
  /\ OnlyEdge(v)
  /\ Out(v).gik \in {"IPADD", "XOR", "HAVOC", "SET", "DEREF"}
  /\ cpu' = [Effect(Out(v)) EXCEPT !.node = v]
  /\ unexplored' = Left
  /\ Visit(v)
  /\ GoOnOrTimeOut
  /\ UNCHANGED <<image, program, known, switches, visited, branchings, outcome>>

\* IP is assigned a register: the address it holds is made a case of the switch
\* behind the instruction, unless it is one.
ExecuteSwitch(v) ==
  /\ OnlyEdge(v)
  /\ IsSwitchInstruction(Out(v))
  /\ \E ip \in DOMAIN image \cup {EntryPoint} :
       LET info == IF v \in DOMAIN switches THEN switches[v] ELSE NewSwitch(v)
           r == AddCase(comp, info, ip, fresh)
           new == ip \notin DOMAIN info.cases
       IN  /\ new => r.fresh <= MaxNode
           /\ cpu' = [cpu EXCEPT !.node = v, !.ip = ip]
           /\ comp' = IF new THEN r.comp ELSE comp
           /\ fresh' = IF new THEN r.fresh ELSE fresh
           /\ switches' =
                IF new THEN Overlay(switches, [h \in {v} |-> WithCase(info, ip, r)])
                ELSE switches
           /\ unexplored' =
                IF new THEN AddUnexplored(Without(Left, {r.erased}), ip, CaseExits(r))
                ELSE Left
  /\ Visit(v)
  /\ GoOnOrTimeOut
  /\ UNCHANGED <<image, known, visited, branchings, outcome>>

\* STOP, and an instruction with an invalid memory access, end the execution
\* with an error message; the thread stays where it is.
Fail(v) ==
  /\ OnlyEdge(v)
  /\ \/ Out(v).gik = "STOP" /\ End("stopped")
     \/ Out(v).gik = "DEREF" /\ End("faulted")
  /\ unexplored' = Left
  /\ UNCHANGED <<image, program, cpu, known, switches, visited, histories, branchings, outcome>>

\* Does the guard hold?  A guard on data may hold or not.
Holds(I) ==
  IF I.arg # "tmp" THEN BOOLEAN
  ELSE {(cpu.tmp = 0) = (I.gik = "EQ")}

ExecuteBranching(v) ==
  /\ Running
  /\ v \in comp.succ[cpu.node]
  /\ Cardinality(comp.succ[cpu.node]) = 2
  /\ TRUE \in Holds(Out(v))
  /\ cpu' = [cpu EXCEPT !.node = v]
  /\ unexplored' = Left
  /\ branchings' = [branchings EXCEPT ![current] = @ \cup {Position}]
  /\ visited' = visited \cup {<<cpu.node, v>>}
  /\ Visit(v)
  /\ GoOnOrTimeOut
  /\ UNCHANGED <<image, program, known, switches, outcome>>

-----------------------------------------------------------------------------
(***************************************************************************)
(* The search for the next goal: backwards from an unexplored exit to the  *)
(* nearest branching of which one edge was taken and the other was not.    *)
(***************************************************************************)
\* The nodes from which x is reached in at most k steps, for every k.
Behind(x) ==
  LET B[k \in 0..Cardinality(comp.nodes)] ==
        IF k = 0 THEN {x} ELSE LET P == B[k - 1] IN P \cup UNION {comp.pred[n] : n \in P}
  IN  B

\* A slip: a branching nobody has passed will do.
NotAllVisited ==
  {u \in comp.nodes : /\ Cardinality(comp.succ[u]) = 2
                      /\ \E v \in comp.succ[u] : <<u, v>> \notin visited}

HalfVisited ==
  {u \in comp.nodes : /\ Cardinality(comp.succ[u]) = 2
                      /\ \E v \in comp.succ[u] : <<u, v>> \in visited
                      /\ \E v \in comp.succ[u] : <<u, v>> \notin visited}

\* The goals the search may return for x, none if it finds no such branching.
Goals(x) ==
  LET B == Behind(x)
      hits == {k \in DOMAIN B : B[k] \cap HalfVisited # {}}
      nearest == CHOOSE k \in hits : \A l \in hits : k <= l
  IN  IF hits = {} THEN {}
      ELSE {e \in DOMAIN comp.edges : e[1] \in B[nearest] \cap HalfVisited /\ e \notin visited}

Reaches(n, x) == n \in Behind(x)[Cardinality(comp.nodes)]

\* find_traces_related_to_next_goal: an execution has passed the branching.
HasTrace(goal) ==
  \E e \in 1..current : \E i \in branchings[e] : histories[e][i] = goal[1]

(***************************************************************************)
(* The loop of run, once an execution is over: an exit is chosen, a goal   *)
(* found for it, and an execution that passed it.  That the time was up    *)
(* during the execution does not end the loop: its message is then not     *)
(* the one run compares with.  Which exits lie in important code only      *)
(* decides which of them is chosen first.                                  *)
(***************************************************************************)
Searching == current > 0 /\ endings[current] \notin {"", "crashed"} /\ outcome = ""

Done == Searching /\ DOMAIN unexplored = {} /\ Return("done")

NoGoal(x) == Searching /\ Goals(x) = {} /\ Return("no goal")

\* An input for the goal is computed and the next execution starts, if there is
\* time for it.  In the code as it stands there is no such input.
NextExecution(x) ==
  /\ Searching
  /\ Goals(x) # {}
  /\ IF current = MaxExecutions THEN Return("not implemented")
     ELSE \/ Return("timeout")
          \/ ~TimeIsUp /\ Begin

-----------------------------------------------------------------------------
Step(v) == Execute(v) \/ ExecuteSwitch(v) \/ Fail(v) \/ ExecuteBranching(v)

Next ==
  \/ Start
  \/ Recognise \/ Kill \/ Crash
  \/ \E v \in comp.nodes : Step(v)
  \/ Done
  \/ \E x \in DOMAIN unexplored : NoGoal(x) \/ NextExecution(x)

Spec == Init /\ [][Next]_vars

-----------------------------------------------------------------------------
TypeOK ==
  /\ image \in Images
  /\ IsDigraph(comp)
  /\ fresh \in Nat
  /\ comp.nodes \subseteq 1..fresh
  /\ comp.entry = 1
  /\ cpu \in [node : comp.nodes, ip : Int, tmp : {0, 1}]
  /\ DOMAIN known \subseteq comp.nodes
  /\ DOMAIN unexplored \subseteq comp.nodes
  /\ DOMAIN switches \subseteq comp.nodes
  /\ visited \subseteq DOMAIN comp.edges
  /\ Len(branchings) = current
  /\ Len(endings) = current
  /\ outcome \in {"", "done", "no goal", "not implemented", "timeout"}

Endings == {endings[e] : e \in 1..current}

\* The nodes behind nothing but STOP.
Stopped ==
  {n \in comp.nodes : /\ comp.pred[n] # {}
                      /\ \A u \in comp.pred[n] : comp.edges[<<u, n>>].gik = "STOP"}

\* No exit of the program is forgotten: it can be chosen for exploration unless
\* it is behind a STOP.  Exits come and go by merging, by the erasure behind a
\* switch head and by new defaults, and each is reported separately.  Once an
\* execution has ended, unless by the timeout, only exits are left to explore:
\* the nodes that ceased to be exits have been visited since.
UnexploredAreExits ==
  /\ comp.exits \subseteq DOMAIN unexplored \cup Stopped
  /\ ~Running /\ ~TimeIsUp => DOMAIN unexplored \subseteq comp.exits

\* A piece of the program annotated with an address is executed at that address
\* only, also when it hangs on a case or the default of a switch.
OneAddressPerNode == cpu.node \in DOMAIN known => cpu.ip = known[cpu.node]

\* At every indirect jump recovered so far, a case for any new address can be
\* added: what add_case_to_switch demands of the program around it holds, no
\* matter what was recognised behind the cases and the default meanwhile.
CasesCanBeAdded ==
  \A e \in DOMAIN comp.edges : IsSwitchInstruction(comp.edges[e]) =>
    LET info == IF e[2] \in DOMAIN switches THEN switches[e[2]] ELSE NewSwitch(e[2])
    IN  \A ip \in DOMAIN image \ DOMAIN info.cases : CanAddCase(comp, e[2], info, ip)

\* Whatever is inserted and erased later, the recorded history of an execution
\* stays a path of the program from its entry.
HistoryIsPath ==
  \A e \in 1..current :
    LET H == histories[e]
    IN  /\ H[1] = comp.entry
        /\ \A i \in 1..(Len(H) - 1) : <<H[i], H[i + 1]>> \in DOMAIN comp.edges

\* The recorded branchings are exactly the positions where a history chose
\* between two edges, and the edges chosen are exactly the visited ones.
BranchingsAreRecorded ==
  LET chosen(e) == {i \in 1..(Len(histories[e]) - 1) : Cardinality(comp.succ[histories[e][i]]) = 2}
      taken(e) == {<<histories[e][i], histories[e][i + 1]>> : i \in chosen(e)}
  IN  /\ \A e \in 1..current : branchings[e] = chosen(e)
      /\ visited = UNION {taken(e) : e \in 1..current}

\* Between executions a goal found for an exit has been passed by an execution,
\* which find_traces_related_to_next_goal asserts; when all executions ran to a
\* STOP, every exit has goals and each of them leads to that exit.
SearchSucceeds ==
  Searching =>
    \A x \in DOMAIN unexplored :
      /\ \A goal \in Goals(x) : HasTrace(goal)
      /\ Endings = {"stopped"} =>
           Goals(x) # {} /\ \A goal \in Goals(x) : Reaches(goal[2], x)

\* Where the native instruction at a may lead.
NativeSuccessors(a) ==
  LET N == image[a]
  IN  CASE N.op \in {"nop", "cmov32", "cmov64"} -> {a + 1}
        [] N.op = "jmp"  -> {a + N.by}
        [] N.op = "jne"  -> {a + 1, a + N.by}
        [] N.op = "exit" -> {}
        [] OTHER         -> DOMAIN image

\* "Done!" means that all code is recovered: every exit is behind a STOP, and
\* the addresses recognised contain the entry point and all they may lead to.
DoneMeansRecovered ==
  LET recovered == {known[n] : n \in DOMAIN known}
  IN  outcome = "done" =>
        /\ comp.exits \subseteq Stopped
        /\ EntryPoint \in recovered
        /\ \A a \in recovered : NativeSuccessors(a) \subseteq recovered

\* What was recovered is kept: no edge is lost or changes its instruction, but
\* for the havoc of temporaries that moves into the cases of a switch.
RecoveredIsKept ==
  [][\A e \in DOMAIN comp.edges :
       \/ e \in DOMAIN comp'.edges /\ comp'.edges[e] = comp.edges[e]
       \/ comp.edges[e].gik = "HAVOC" /\ e[1] \in DOMAIN switches' \ DOMAIN switches]_vars

\* The thread never gets to code the caller of the recogniser has no case for.
NeverUnreachable == "crashed" \notin Endings

\* On its way a thread never gets to an address, by executing the code recovered
\* for it, that was just recognised: instructions that jump to themselves apart,
\* recognising code gets the recovery ahead.
RecoveryAdvances ==
  Running /\ AtUnknownCode =>
    LET H == History
        before == {i \in 1..(Len(H) - 1) : H[i] \in DOMAIN known}
    IN  before # {} => known[H[CHOOSE i \in before : \A j \in before : j <= i]] # cpu.ip

=============================================================================
