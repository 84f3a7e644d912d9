------------------------------- MODULE Native -------------------------------
(***************************************************************************)
(* What all forms of the recogniser share: where the registers of the      *)
(* platform lie in the REG pool, the operands of a native instruction as   *)
(* the disassembler describes them, and the pieces program components are  *)
(* put together from.                                                      *)
(*                                                                         *)
(* A component is a sequence of Microcode instructions and branchings, in  *)
(* the order in which a thread passes them.  A branching is a record with  *)
(* a guard and two components, which join behind it unless they end in a   *)
(* DeadEnd, an exit that nothing leads on from.                            *)
(***************************************************************************)
EXTENDS Microcode

-----------------------------------------------------------------------------
(* Registers: the bytes of one lie with the most significant byte first *)

RIP == 0
RegistersBegin == 8
RegisterNames == <<"rax", "rbx", "rcx", "rdx", "rsi", "rdi", "rbp", "rsp",
                   "r8", "r9", "r10", "r11", "r12", "r13", "r14", "r15">>

\* Where the general register of a name begins.
At64(name) ==
  RegistersBegin + 8 * ((CHOOSE i \in 1..16 : RegisterNames[i] = name) - 1)

RAX == At64("rax")  RBX == At64("rbx")  RCX == At64("rcx")  RDX == At64("rdx")
RSI == At64("rsi")  RDI == At64("rdi")  RBP == At64("rbp")  RSP == At64("rsp")
R11 == At64("r11")

\* The part of a general register with n bytes ("eax", "ax", "al"), and "ah".
Part(register, n) == register + 8 - n
HighByte(register) == register + 6

FlagNames == <<"cf", "pf", "af", "zf", "sf", "tf", "if", "df", "of">>
FlagAt(name) == RegistersBegin + 127 + CHOOSE i \in 1..9 : FlagNames[i] = name
CF == FlagAt("cf")  PF == FlagAt("pf")  AF == FlagAt("af")
ZF == FlagAt("zf")  SF == FlagAt("sf")  OF == FlagAt("of")
RF == RegistersBegin + 139
VM == RegistersBegin + 140

FS == RegistersBegin + 152
GS == RegistersBegin + 160
XMM(i) == RegistersBegin + 304 + 16 * i

\* Temporaries begin at the first multiple of 256 at least 32 bytes behind them.
RegistersEnd == XMM(16)
TMP == 256 * ((RegistersEnd + 32 + 255) \div 256)

-----------------------------------------------------------------------------
(* Operands of a native instruction [id, ops, len] *)

None == -1

Register(a, n) == [kind |-> "reg", n |-> n, a |-> a]
Immediate(v, n) == [kind |-> "imm", n |-> n, v |-> v]
Memory(n, base, index, scale, disp) ==
  [kind |-> "mem", n |-> n, base |-> base, index |-> index, scale |-> scale,
   disp |-> disp, seg |-> None]
InSegment(n, seg, disp) ==
  [kind |-> "mem", n |-> n, base |-> None, index |-> None, scale |-> 1,
   disp |-> disp, seg |-> seg]

IsReg(o) == o.kind = "reg"
IsImm(o) == o.kind = "imm"
IsMem(o) == o.kind = "mem"
IsBased(o) == o.kind = "mem" /\ o.seg = None /\ o.base # None
IsInSegment(o) ==
  o.kind = "mem" /\ o.seg # None /\ o.base = None /\ o.index = None /\ o.scale = 1

-----------------------------------------------------------------------------
(* Components *)

NotRecognised == << >>
DeadEnd == [gik |-> "exit"]

NotEmpty(I) == I # NoInstruction

\* insert_sequence without a target: empty instructions are left out.
Chain(seq) == SelectSeq(seq, NotEmpty)

\* With a target, which only the last instruction leads to: if that one is
\* empty, nothing does.
ChainTo(seq) ==
  IF NotEmpty(seq[Len(seq)]) THEN Chain(seq) ELSE Append(Chain(seq), DeadEnd)

\* An assertion in the recogniser fails before there is a component.
AssertionFails == <<[gik |-> "assertion"]>>

\* insert_branching: the side where register a of n bytes is zero, and the other.
Branch(n, a, zero, other) ==
  [gik |-> "branch", n |-> n, a |-> a, zero |-> zero, other |-> other]

\* A sequence inserted with its own begin as the target, which is left where
\* a Break is.
Loop(body) == [gik |-> "loop", body |-> body]
Break == [gik |-> "break"]

\* CALL of the entry of a component.
Call(component) == [gik |-> "call", component |-> component]

When(condition, code) == IF condition THEN code ELSE << >>

Advance(I) == PlusNumber(8, RIP, RIP, I.len)

\* Writing 4 bytes of a general register clears the other 4.
ClearUpper(o) ==
  IF o.n = 4 THEN RegAsgnNumber(4, o.a - 4, 0) ELSE NoInstruction

\* The block at the begin of every form with an operand in memory: where the
\* address is in the end, and the code that computes it there.
AddressCode(m, len) ==
  LET rip == IF m.base = RIP THEN len ELSE 0
      indexed == IF m.scale # 1
                   THEN <<TimesNumber(8, TMP, m.index, m.scale), PlusReg(8, TMP, TMP, m.base)>>
                 ELSE IF m.index # None THEN <<PlusReg(8, TMP, m.index, m.base)>>
                 ELSE << >>
      base == IF indexed = << >> THEN m.base ELSE TMP
      displaced == When(m.disp # 0 \/ m.base = RIP,
                        <<PlusNumber(8, TMP, base, m.disp + rip)>>)
  IN  [code |-> indexed \o displaced,
       at   |-> IF indexed \o displaced = << >> THEN m.base ELSE TMP]

\* The operand is addressed through a segment register and a displacement.
SegmentCode(m) ==
  IF m.disp # 0 THEN [code |-> <<PlusNumber(8, TMP, m.seg, m.disp)>>, at |-> TMP]
  ELSE [code |-> << >>, at |-> m.seg]

\* Most forms release the temporary of the address if there is one, some only
\* if it was computed with a scale, a displacement or rip.
Computed(m) == m.scale # 1 \/ m.disp # 0 \/ m.base = RIP
=============================================================================
