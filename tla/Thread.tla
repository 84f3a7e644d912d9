------------------------------- MODULE Thread -------------------------------
(***************************************************************************)
(* A thread executes a program of Microcode node by node.  What is left of *)
(* the program is a sequence of instructions, branchings, loops and calls. *)
(*                                                                         *)
(* Next to the machine there is a twin that began with one byte changed.   *)
(* It goes the way of the machine until a branching or an address differs. *)
(* The input frontier is kept for that byte only: impacts are the          *)
(* locations with an impact link that leads back to it.                    *)
(***************************************************************************)
EXTENDS Native

VARIABLES
  phase,    \* "fetch", "run", "done", "failed", or "refused" by the recogniser
  code,     \* what is left of the program
  cpu,      \* the machine,
  twin,     \* and its twin,
  together, \* which may have parted
  impacts,  \* the locations with an impact link
  temps,    \* the temporaries that are in use
  unset     \* temporaries that were read although they were not in use

threadVars == <<phase, code, cpu, twin, together, impacts, temps, unset>>

Changed(pool, l) == [pool EXCEPT ![l] = (@ + 1) % 256]

\* A machine with one byte changed: of the REG pool, of the MEM pool, or of a stream.
WithChanged(s, input) ==
  CASE input = << >> -> s
    [] input # << >> /\ input[1] = "reg" -> [s EXCEPT !.reg = Changed(s.reg, input[2])]
    [] input # << >> /\ input[1] = "mem" -> [s EXCEPT !.mem = Changed(s.mem, input[2])]
    [] input # << >> /\ input[1] = "stream" ->
         [s EXCEPT !.streams[input[2]].content = Changed(@, input[3] + 1)]

\* A thread that begins in a phase, with a program, on a machine.
Begins(p, program, s, input) ==
  /\ phase = p
  /\ code = program
  /\ cpu = s
  /\ twin = WithChanged(s, input)
  /\ together = TRUE
  /\ impacts = IF input = << >> THEN {} ELSE {input}
  /\ temps = {}
  /\ unset = {}

-----------------------------------------------------------------------------
\* The pairs of the io-relation are taken one after the other.
LinkedBy(pair, links) ==
  IF pair[2] \cap links = {} THEN links \ {pair[1]} ELSE links \cup {pair[1]}

\* A slip: the pairs are taken together, so that what one of them deletes is
\* deleted whatever the others say.
LinkedAtOnce(io, links) ==
  LET Linking == {i \in 1..Len(io) : io[i][2] \cap links # {}}
  IN  (links \cup {io[i][1] : i \in Linking}) \ {io[i][1] : i \in (1..Len(io)) \ Linking}

Linked(io, links) ==
  LET After[i \in 0..Len(io)] ==
        IF i = 0 THEN links ELSE UNION {LinkedBy(io[i], before) : before \in {After[i - 1]}}
  IN  After[Len(io)]

WrittenBy(io) == {io[i][1] : i \in 1..Len(io)}
ReadBy(io) == UNION {io[i][2] : i \in 1..Len(io)}

\* What an instruction assigns; the io-relation of ZERO_EXTEND leaves out the
\* zeros, and that of MEM STATIC all bytes but one.
Assigned(I, io) ==
  WrittenBy(io) \cup (IF I.gik \in {"REG:=ZERO_EXTEND", "REG:=MEM STATIC"}
                      THEN LocationsOf(InReg(I.a0, I.n)) ELSE {})

Temporaries(locations) == {l \in locations : l[1] = "reg" /\ l[2] >= TMP}

IsInstruction(x) == x.gik \notin {"branch", "loop", "again", "break", "exit", "call"}

\* Accesses to other addresses part the twins.
SameAddresses(I) ==
  LET Same(a) == Read(cpu.reg, a, 8) = Read(twin.reg, a, 8)
  IN  CASE I.gik \in StoresIntoMem \cup {"REG[REG]:=REG", "REG[REG]:=HAVOC"} -> Same(I.a0)
        [] I.gik \in {"REG:=*REG", "REG:=*INV REG", "REG:=REG[REG]"} -> Same(I.a1)
        [] OTHER -> TRUE

\* A thread passes an edge with an instruction.
PassInstruction ==
  /\ phase = "run" /\ code # << >> /\ IsInstruction(Head(code))
  /\ \E step \in {Execute(Head(code), cpu)} :
       LET failed == step.cpu.error # ""
           pair == together /\ SameAddresses(Head(code))
       IN  /\ cpu' = step.cpu
           /\ phase' = IF failed THEN "failed" ELSE "run"
           /\ code' = IF failed THEN << >> ELSE Tail(code)
           /\ together' = pair
           /\ twin' = IF pair /\ ~failed THEN Execute(Head(code), twin).cpu ELSE twin
           /\ impacts' = Linked(step.io, impacts)
           /\ temps' = IF Head(code).gik \in {"REG:=HAVOC", "REG[REG]:=HAVOC"}
                         THEN temps \ WrittenBy(step.io)
                         ELSE temps \cup Temporaries(Assigned(Head(code), step.io))
           /\ unset' = unset \cup (Temporaries(ReadBy(step.io)) \ temps)

\* A thread passes one of two guards.
PassGuard ==
  LET b == Head(code)
      Zero(s) == IsZero(Read(s.reg, b.a, b.n))
  IN  /\ phase = "run" /\ code # << >> /\ b.gik = "branch"
      /\ code' = (IF Zero(cpu) THEN b.zero ELSE b.other) \o Tail(code)
      /\ together' = (together /\ Zero(cpu) = Zero(twin))
      /\ unset' = unset \cup (Temporaries(LocationsOf(InReg(b.a, b.n))) \ temps)
      /\ UNCHANGED <<phase, cpu, twin, impacts, temps>>

\* A thread calls a component: it comes back to what is behind the call when
\* nothing is left of the component.
PassCall ==
  /\ phase = "run" /\ code # << >> /\ Head(code).gik = "call"
  /\ code' = Head(code).component \o Tail(code)
  /\ UNCHANGED <<phase, cpu, twin, together, impacts, temps, unset>>

\* A thread is at the head of a loop, for the first time or again.
EnterLoop ==
  /\ phase = "run" /\ code # << >> /\ Head(code).gik \in {"loop", "again"}
  /\ code' = Head(code).body \o <<[Head(code) EXCEPT !.gik = "again"]>> \o Tail(code)
  /\ UNCHANGED <<phase, cpu, twin, together, impacts, temps, unset>>

\* A thread leaves the innermost loop it is in.
LeaveLoop ==
  /\ phase = "run" /\ code # << >> /\ Head(code).gik = "break"
  /\ LET loop == CHOOSE i \in 1..Len(code) :
                   code[i].gik = "again" /\ \A j \in 1..(i - 1) : code[j].gik # "again"
     IN  code' = SubSeq(code, loop + 1, Len(code))
  /\ UNCHANGED <<phase, cpu, twin, together, impacts, temps, unset>>

\* A thread is at an exit of the program, with no component to come back to.
ReachExit ==
  /\ phase = "run"
  /\ IF code = << >> THEN TRUE ELSE Head(code).gik = "exit"
  /\ phase' = "done"
  /\ code' = << >>
  /\ UNCHANGED <<cpu, twin, together, impacts, temps, unset>>

ThreadStep == PassInstruction \/ PassGuard \/ PassCall \/ EnterLoop \/ LeaveLoop \/ ReachExit

-----------------------------------------------------------------------------
(* What the interpreter takes for granted of an instruction *)

CopiesBytes == {"REG:=REG", "REG:=REG&NUMBER", "REG:=REG|NUMBER", "REG:=~REG"}
JoinsBytes == {"REG:=REG&REG", "REG:=REG|REG", "REG:=REG^REG"}
CopiesWords == {"REG:=ZERO_EXTEND", "REG:=REG[REG]", "REG[REG]:=REG"}
MixesBytes ==
  {"REG:=REG+NUMBER", "REG:=REG+REG", "REG:=REG*NUMBER", "REG:=REG/REG", "REG:=REG%REG", "REG:=REG==0",
   "REG:=PARITY", "REG:=REG>>NUMBER", "REG:=REG>>REG", "REG:=REG<<NUMBER", "REG:=REG<<REG"}
Others ==
  {"REG:=NUMBER", "REG:=*REG", "REG:=*INV REG", "REG:=SIGN_EXTEND", "REG:=HAVOC", "REG[REG]:=HAVOC",
   "REG:=MEM ALLOC", "REG:=MEM STATIC", "REG:=STREAM OPEN", "REG:=STREAM READ", "REG:=STREAM WRITE",
   "REG:=INTERRUPT"}
WithoutOperands == {"NOP", "STOP", "*ADDRESS:=DATA"}
Kinds == CopiesBytes \cup JoinsBytes \cup CopiesWords \cup MixesBytes \cup StoresIntoMem \cup Others
           \cup WithoutOperands

TakeNumbers ==
  {"REG:=NUMBER", "*REG:=NUMBER", "*INV REG:=NUMBER", "REG:=REG+NUMBER", "REG:=REG&NUMBER", "REG:=REG|NUMBER"}
TakeFactors == {"REG:=REG*NUMBER", "REG:=REG>>NUMBER", "REG:=REG<<NUMBER"}
TakeOneMore == {"*REG:=REG", "*INV REG:=REG", "REG:=STREAM WRITE"}
TakeTwoMore == {"REG:=REG>>REG", "REG:=REG<<REG"}

\* Every operand is there.
IsTyped(I) ==
  /\ I.gik \in Kinds
  /\ I.gik \notin WithoutOperands => {I.n, I.a0} \subseteq Nat
  /\ I.gik \in CopiesBytes \cup JoinsBytes \cup CopiesWords \cup TakeOneMore => I.a1 \in Nat
  /\ I.gik \in JoinsBytes \cup TakeTwoMore => I.a2 \in Nat
  /\ I.gik \in TakeNumbers => I.v \in [1..I.n -> Byte]
  /\ I.gik \in TakeFactors => I.k \in Nat
  /\ I.gik = "REG:=MEM STATIC" => I.begin \in Nat
  /\ I.gik = "REG:=STREAM OPEN" => I.stream \in Nat
  /\ I.gik = "*ADDRESS:=DATA" => I.begin \in Nat /\ I.data \in [1..Len(I.data) -> Byte] /\ Len(I.data) > 0

BeginsWithin(a, b, n) == a \in (b + 1)..(b + n - 1)
AreApart(a, b, n) == Block(a, n) \cap Block(b, n) = {}

\* The pairs of the io-relation are taken one after the other, so no byte of a
\* copy may be written before it is read for another one.
CopiesInOrder(I, s) ==
  /\ I.gik \in CopiesBytes \cup JoinsBytes => ~BeginsWithin(I.a0, I.a1, I.n)
  /\ I.gik \in JoinsBytes => ~BeginsWithin(I.a0, I.a2, I.n)
  /\ I.gik = "REG:=ZERO_EXTEND" => ~BeginsWithin(I.a0 + I.n, I.a1, I.n)
  /\ I.gik = "REG:=REG[REG]" => AreApart(I.a0, Address(s, I.a1), I.n)
  /\ I.gik = "REG[REG]:=REG" => AreApart(Address(s, I.a0), I.a1, I.n)

\* The pools of both machines hold bytes.
PoolsAreBytes ==
  \A pool \in {cpu.reg, twin.reg, cpu.mem, twin.mem} : {pool[l] : l \in DOMAIN pool} \subseteq Byte

\* A thread only gets to instructions of which that is true.
NextIsWellFormed ==
  phase = "run" /\ code # << >> /\ IsInstruction(Head(code)) =>
    IsTyped(Head(code)) /\ CopiesInOrder(Head(code), cpu)

\* Where an instruction stores: <<first address, number of bytes>>.
StoresAt(I, s) ==
  IF I.gik = "*ADDRESS:=DATA" THEN <<I.begin, Len(I.data)>> ELSE <<Address(s, I.a0), I.n>>

\* A store does not run over the end of the last block it touches.  The interpreter
\* does not look at what is behind that block.
NextStaysInBlocks ==
  phase = "run" /\ code # << >> /\ Head(code).gik \in StoresIntoMem \cup {"*ADDRESS:=DATA"} =>
    LET first == StoresAt(Head(code), cpu)[1]
        n == StoresAt(Head(code), cpu)[2]
    IN  Allowed(cpu, first, n, cpu.blocks) =>
          \A l \in Block(first, n) : \E b \in cpu.blocks : l \in Block(b.begin, b.size)

-----------------------------------------------------------------------------
(* Properties *)

\* What a thread works on has its types, whatever is executed.
ThreadTypeOK ==
  /\ phase \in {"fetch", "run", "done", "failed", "refused"}
  /\ PoolsAreBytes
  /\ NextIsWellFormed
  /\ NextStaysInBlocks
  /\ \A s \in {cpu, twin} : \A l \in DOMAIN s.mem : \E b \in s.blocks : l \in Block(b.begin, b.size)
  /\ \A l \in temps : l[1] = "reg" /\ l[2] >= TMP
  /\ phase \in {"done", "failed", "refused"} => code \in {<< >>, AssertionFails}

\* Whatever a program reads from a temporary it has written there before.
TemporariesAreSet == unset = {}

\* Where the machines differ there is an impact link to the byte in which they
\* began to differ: no data dependence on an input is lost.
ImpactsCoverDifferences ==
  together /\ phase \in {"run", "done"} =>
    /\ \A l \in DOMAIN cpu.reg \cap DOMAIN twin.reg :
         cpu.reg[l] # twin.reg[l] => <<"reg", l>> \in impacts
    /\ \A l \in DOMAIN cpu.mem \cap DOMAIN twin.mem :
         cpu.mem[l] # twin.mem[l] => <<"mem", l>> \in impacts
=============================================================================
