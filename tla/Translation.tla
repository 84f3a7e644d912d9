------------------------------- MODULE Translation -------------------------------
(***************************************************************************)
(* Translation: a native instruction is recognised, and a thread executes  *)
(* the component node by node, as native execution does.                   *)
(***************************************************************************)
EXTENDS Thread, Recogniser, X86

CONSTANTS
  Tests,      \* records: an instruction (ins), the REG and MEM pools it begins
              \* with (reg, mem), and the location that differs in the twin (input)
  Blocks,     \* the blocks of memory, and
  Streams     \* the streams, in all of them

VARIABLES
  test        \* the case under way

vars == <<test, threadVars>>

Machine(reg, mem) ==
  [reg |-> reg, mem |-> mem, blocks |-> Blocks, streams |-> Streams, error |-> ""]

Start(t) == Machine(t.reg, t.mem)

Init ==
  /\ test \in Tests
  /\ Begins("fetch", << >>, Start(test), test.input)

-----------------------------------------------------------------------------
\* get_code_recogniser_for_current_IP, for the component of one instruction.
RecogniseNative ==
  /\ phase = "fetch"
  /\ \E component \in {Recognise(test.ins, cpu.reg)} :
       /\ phase' = IF component \in {NotRecognised, AssertionFails} THEN "refused" ELSE "run"
       /\ code' = component
  /\ UNCHANGED <<test, cpu, twin, together, impacts, temps, unset>>

ExecuteComponent == ThreadStep /\ UNCHANGED test

Next == RecogniseNative \/ ExecuteComponent

Spec == Init /\ [][Next]_vars

-----------------------------------------------------------------------------
(* Properties *)

\* Where the recogniser departs from the processor: an effect that is another
\* one altogether, ...
Departs(I) ==
  LET t == I.ops[1]  s == I.ops[2]
  IN  \/ I.id = "push" /\ (~IsReg(t) \/ t.a = RSP)
      \/ I.id = "pop" /\ t.a = Part(RSP, t.n)
      \/ I.id = "ret" /\ I.ops # << >>
      \/ I.id = "cmove" /\ t.n # 4
      \/ I.id = "movzx" /\ IsReg(s) /\ s.a \in Block(t.a, t.n)

\* ... flags it computes otherwise, and upper halves it does not clear.
KeepsUpper == {"add", "sub", "inc", "dec", "and", "or", "xor", "sar", "shr", "shl", "rol", "bsf",
               "cmove", "cmova"}

DisputedFlags(I) ==
  CASE I.id \in {"sub", "cmp"} /\ ~IsImm(I.ops[2]) -> {OF, AF}
    [] I.id = "inc" -> IF I.ops[1].n = 1 THEN {OF} ELSE {}
    [] I.id = "dec" -> IF I.ops[1].n = 1 THEN {OF, AF} ELSE {AF}
    [] I.id \in {"sar", "shr", "neg"} -> {CF}
    [] I.id = "shl" -> {CF, OF}
    [] OTHER -> {}

DisputedUpper(I) ==
  IF I.id \in KeepsUpper /\ IsReg(I.ops[1]) /\ I.ops[1].n = 4 THEN Block(I.ops[1].a - 4, 4) ELSE {}

\* The component of a native instruction does to registers, flags, memory and
\* streams what the instruction does, apart from the departures above.
EffectIsEquivalent ==
  phase = "done" /\ ~Departs(test.ins) =>
    \A processor \in {Effect(test.ins, Start(test))} :
      /\ processor.cpu.error = ""
      /\ Equivalent(cpu, processor.cpu,
                    processor.undefined \cup DisputedFlags(test.ins) \cup DisputedUpper(test.ins))

\* The execution of a component fails only where the processor would fault or
\* stop, and no assertion of the interpreter fails.
FailsAsProcessor ==
  phase = "failed" =>
    /\ cpu.error # "assertion"
    /\ Effect(test.ins, Start(test)).cpu.error # ""

\* A component releases its temporaries, which the next one uses again, apart
\* from the forms that release too little.
Leaks(I) ==
  \/ I.id = "mov" /\ IsMem(I.ops[1]) /\ ~Computed(I.ops[1])
  \/ I.id = "lea" /\ ~Computed(I.ops[2])
  \/ I.id = "dec" /\ IsMem(I.ops[1])
  \/ I.id = "add" /\ IsMem(I.ops[2])
  \/ I.id \in {"sub", "cmp"} /\ ~IsImm(I.ops[2]) /\ (IsMem(I.ops[1]) \/ IsMem(I.ops[2]))

TemporariesAreReleased == phase = "done" /\ ~Leaks(test.ins) => temps = {}
=============================================================================
