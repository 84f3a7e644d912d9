---------------------------------- MODULE X86 ----------------------------------
(***************************************************************************)
(* X86: what the processor does with a native instruction, for a machine   *)
(* laid out as that of Microcode.  This is what a component of the         *)
(* recogniser promises; nothing here is taken from the recogniser.         *)
(***************************************************************************)
EXTENDS Native

\* The machine afterwards, and the locations whose contents are undefined.
Outcome(s, undefined) == [cpu |-> s, undefined |-> undefined]

Fault(s) == Outcome([s EXCEPT !.error = "fault"], {})

AddressOf(m, s, len) ==
  LET base == IF m.seg # None THEN m.seg ELSE m.base
      w == Sum(Read(s.reg, base, 8), Word(m.disp + (IF base = RIP THEN len ELSE 0), 8))
      adr == IF m.index = None THEN w ELSE Sum(w, Product(Read(s.reg, m.index, 8), m.scale))
  IN  IF IsZero(SubSeq(adr, 1, 5)) THEN Num(SubSeq(adr, 6, 8)) ELSE NoAddress

InBlocks(adr, n, blocks) ==
  \A l \in Block(adr, n) : \E b \in blocks : l \in Block(b.begin, b.size)
CanLoad(s, adr, n) == InBlocks(adr, n, Readable(s))
CanStore(s, adr, n) == InBlocks(adr, n, Writable(s))

\* The value of an operand, and the machine with another one.
Value(I, o, s) ==
  CASE IsReg(o) -> Read(s.reg, o.a, o.n)
    [] IsImm(o) -> Word(o.v, o.n)
    [] IsMem(o) -> Reversed(Read(s.mem, AddressOf(o, s, I.len), o.n))

General == RegistersBegin..(RegistersBegin + 127)

Put(I, o, w, s) ==
  IF IsMem(o) THEN [s EXCEPT !.mem = Write(s.mem, AddressOf(o, s, I.len), Reversed(w))]
  ELSE IF o.n = 4 /\ o.a \in General THEN [s EXCEPT !.reg = Write(s.reg, o.a - 4, Low(w, 8))]
  ELSE [s EXCEPT !.reg = Write(s.reg, o.a, w)]

Loadable(I, o, s) == IsMem(o) => CanLoad(s, AddressOf(o, s, I.len), o.n)
Storable(I, o, s) == IsMem(o) => CanStore(s, AddressOf(o, s, I.len), o.n)

Next8(I, s) == Sum(Read(s.reg, RIP, 8), Word(I.len, 8))
Goto(w, s) == [s EXCEPT !.reg = Write(s.reg, RIP, w)]
Continue(I, s) == Goto(Next8(I, s), s)

Flag(s, f) == ByteAt(s.reg, f)
Truly(b) == IF b THEN 1 ELSE 0
SetFlags(s, flags) == [s EXCEPT !.reg = flags @@ s.reg]

-----------------------------------------------------------------------------
(* Flags *)

ResultFlags(w) ==
  (ZF :> Truly(IsZero(w))) @@ (SF :> SignBit(w)) @@ (PF :> Truly(IsEven(<<w[Len(w)]>>)))

Nibble(w) == w[Len(w)] % 16

SumFlags(u, v) ==
  LET w == Sum(u, v)
  IN  ResultFlags(w) @@ (CF :> SumWithCarry(u, v, 0)[1]) @@ (AF :> Truly(Nibble(u) + Nibble(v) > 15))
        @@ (OF :> Truly(SignBit(u) = SignBit(v) /\ SignBit(w) # SignBit(u)))

Minus(u, v) == Tail(SumWithCarry(u, BitNot(v), 1))

MinusFlags(u, v) ==
  LET w == Minus(u, v)
  IN  ResultFlags(w) @@ (CF :> 1 - SumWithCarry(u, BitNot(v), 1)[1])
        @@ (AF :> Truly(Nibble(u) < Nibble(v)))
        @@ (OF :> Truly(SignBit(u) # SignBit(v) /\ SignBit(w) # SignBit(u)))

LogicalFlags(w) == ResultFlags(w) @@ (CF :> 0) @@ (OF :> 0)

WithoutCF(flags) == [f \in DOMAIN flags \ {CF} |-> flags[f]]

Flags == {CF, PF, AF, ZF, SF, OF}

-----------------------------------------------------------------------------
(* Instructions; t is the first operand, s the machine *)

Compute(I, s, w, flags, undefined) ==
  LET t == I.ops[1]
  IN  IF Storable(I, t, s) THEN Outcome(Continue(I, SetFlags(Put(I, t, w, s), flags)), undefined)
      ELSE Fault(s)

Judge(I, s, flags, undefined) == Outcome(Continue(I, SetFlags(s, flags)), undefined)

\* u and v are the values of the operands, of which the second one may be missing.
ArithmeticOn(I, s, u, v, one) ==
  CASE I.id = "add" -> Compute(I, s, Sum(u, v), SumFlags(u, v), {})
    [] I.id = "sub" -> Compute(I, s, Minus(u, v), MinusFlags(u, v), {})
    [] I.id = "cmp" -> Judge(I, s, MinusFlags(u, v), {})
    [] I.id = "inc" -> Compute(I, s, Sum(u, one), WithoutCF(SumFlags(u, one)), {})
    [] I.id = "dec" -> Compute(I, s, Minus(u, one), WithoutCF(MinusFlags(u, one)), {})
    [] I.id = "neg" -> Compute(I, s, Minus(Zeros(Len(u)), u), MinusFlags(Zeros(Len(u)), u), {})
    [] I.id = "and" -> Compute(I, s, BitAnd(u, v), LogicalFlags(BitAnd(u, v)), {AF})
    [] I.id = "or"  -> Compute(I, s, BitOr(u, v), LogicalFlags(BitOr(u, v)), {AF})
    [] I.id = "xor" -> Compute(I, s, BitXor(u, v), LogicalFlags(BitXor(u, v)), {AF})
    [] I.id = "test" -> Judge(I, s, LogicalFlags(BitAnd(u, v)), {AF})

Arithmetic(I, s) ==
  ArithmeticOn(I, s, Value(I, I.ops[1], s), Value(I, I.ops[2], s), Word(1, I.ops[1].n))

\* u shifted by c bits, and the last bit shifted out of it.
ShiftedWord(id, u, c, n) ==
  CASE id = "shr" -> ShiftedRight(u, c)
    [] id = "shl" -> ShiftedLeft(u, c)
    [] id = "rol" -> BitOr(ShiftedLeft(u, c % (8 * n)), ShiftedRight(u, 8 * n - (c % (8 * n))))
    [] id = "sar" -> SubSeq(ShiftedRight(SignExtended(u, 2 * n), c), n + 1, 2 * n)

ShiftedOut(id, u, c, w) ==
  CASE id \in {"shr", "sar"} -> Bit(u, c - 1)
    [] id = "shl"            -> Bit(u, 8 * Len(u) - c)
    [] id = "rol"            -> Bit(w, 0)

Carries(id, u, w, carry) ==
  (CF :> carry) @@ (OF :> CASE id = "shr" -> SignBit(u)
                            [] id = "sar" -> 0
                            [] id \in {"shl", "rol"} -> Truly(SignBit(w) # carry))

ShiftOn(I, s, w, carries, undefined) ==
  IF I.id = "rol" THEN Compute(I, s, w, carries, undefined)
  ELSE Compute(I, s, w, ResultFlags(w) @@ carries, undefined \cup {AF})

ShiftBy(I, s, u, c, w) ==
  IF c = 0 THEN Outcome(Continue(I, s), {})
  ELSE ShiftOn(I, s, w, Carries(I.id, u, w, ShiftedOut(I.id, u, c, w)), IF c = 1 THEN {} ELSE {OF})

\* Counts are taken modulo 32, or 64 for operands of 8 bytes.
Shift(I, s) ==
  LET t == I.ops[1]
      u == Value(I, t, s)
      c == Num(Value(I, [I.ops[2] EXCEPT !.n = 1], s)) % (IF t.n = 8 THEN 64 ELSE 32)
  IN  ShiftBy(I, s, u, c, ShiftedWord(I.id, u, c, t.n))

LowestBit(w) == CHOOSE k \in 0..(8 * Len(w) - 1) :
                  Bit(w, k) = 1 /\ \A j \in 0..(k - 1) : Bit(w, j) = 0

Search(I, s) ==
  LET t == I.ops[1]
      u == Value(I, I.ops[2], s)
  IN  IF IsZero(u) THEN Outcome(Continue(I, SetFlags(s, ZF :> 1)), Block(t.a, t.n) \cup (Flags \ {ZF}))
      ELSE Compute(I, s, Word(LowestBit(u), t.n), ZF :> 0, Flags \ {ZF})

\* ah:al or [er]dx:[er]ax by the operand; a quotient that does not fit is a fault.
Divide(I, s) ==
  LET n == I.ops[1].n
      hi == IF n = 1 THEN Register(HighByte(RAX), 1) ELSE Register(Part(RDX, n), n)
      lo == Register(Part(RAX, n), n)
      d == Num(Value(I, I.ops[1], s))
      result == Division(Value(I, hi, s) \o Value(I, lo, s), d)
  IN  IF d = 0 THEN Fault(s)
      ELSE IF ~IsZero(SubSeq(result.quotient, 1, n)) THEN Fault(s)
      ELSE Outcome(Continue(I, Put(I, hi, Word(result.remainder, n),
                                   Put(I, lo, SubSeq(result.quotient, n + 1, 2 * n), s))), Flags)

\* One bit for each byte, its highest.
Signs(w) ==
  LET Collected[i \in 0..8] == IF i = 0 THEN 0 ELSE 2 * Collected[i - 1] + w[i] \div 128
  IN  Collected[8]

\* u and v are the values of the operands, of which the second one may be missing.
Transferred(I, s, u, v) ==
  CASE I.id \in {"mov", "movdqu"} -> v
    [] I.id = "movsxd"   -> SignExtended(v, I.ops[1].n)
    [] I.id = "movzx"    -> Low(v, I.ops[1].n)
    [] I.id = "sete"     -> <<Flag(s, ZF)>>
    [] I.id = "setne"    -> <<1 - Flag(s, ZF)>>
    [] I.id = "cmove"    -> IF Flag(s, ZF) = 1 THEN v ELSE u
    [] I.id = "cmova"    -> IF Flag(s, CF) = 0 /\ Flag(s, ZF) = 0 THEN v ELSE u
    [] I.id = "pxor"     -> BitXor(u, v)
    [] I.id = "pcmpeqb"  -> [i \in 1..16 |-> 255 * Truly(u[i] = v[i])]
    [] I.id = "pmovmskb" -> Low(<<Signs(SubSeq(v, 1, 8)), Signs(SubSeq(v, 9, 16))>>, I.ops[1].n)

Transfer(I, s) ==
  Compute(I, s, Transferred(I, s, Value(I, I.ops[1], s), Value(I, I.ops[2], s)), << >>, {})

-----------------------------------------------------------------------------
(* Control *)

Holds(id, s) ==
  LET less == Flag(s, SF) # Flag(s, OF)
  IN  CASE id = "jmp" -> TRUE
        [] id = "je"  -> Flag(s, ZF) = 1
        [] id = "jne" -> Flag(s, ZF) = 0
        [] id = "js"  -> Flag(s, SF) = 1
        [] id = "jns" -> Flag(s, SF) = 0
        [] id = "jb"  -> Flag(s, CF) = 1
        [] id = "jae" -> Flag(s, CF) = 0
        [] id = "jbe" -> Flag(s, CF) = 1 \/ Flag(s, ZF) = 1
        [] id = "ja"  -> Flag(s, CF) = 0 /\ Flag(s, ZF) = 0
        [] id = "jle" -> less \/ Flag(s, ZF) = 1
        [] id = "jg"  -> ~less /\ Flag(s, ZF) = 0

\* Immediate targets are relative to the begin of the instruction.
Target(I, s) ==
  IF IsImm(I.ops[1]) THEN Sum(Read(s.reg, RIP, 8), Word(I.ops[1].v, 8)) ELSE Value(I, I.ops[1], s)

Jump(I, s) ==
  IF ~Holds(I.id, s) THEN Outcome(Continue(I, s), {}) ELSE Outcome(Goto(Target(I, s), s), {})

Top(s) == Memory(8, RSP, None, 1, 0)
RspMoved(s, d) == [s EXCEPT !.reg = Write(s.reg, RSP, Sum(Read(s.reg, RSP, 8), Word(d, 8)))]

\* The value is taken before rsp moves; numbers are pushed with 8 bytes.
Pushed(I, w, s) ==
  LET o == [Top(s) EXCEPT !.n = Len(w)]
      t == RspMoved(s, -Len(w))
  IN  IF Storable(I, o, t) THEN Outcome(Put(I, o, w, t), {}) ELSE Fault(s)

Then(outcome, F(_)) == IF outcome.cpu.error # "" THEN outcome ELSE F(outcome.cpu)

Stack(I, s) ==
  LET t == I.ops[1]
      return == Read(s.mem, AddressOf(Top(s), s, I.len), 8)
      Resume(u) == Outcome(Continue(I, u), {})
      Enter(u) == Outcome(Goto(Target(I, s), u), {})
  IN  CASE I.id = "push" -> Then(Pushed(I, IF IsImm(t) THEN Word(t.v, 8) ELSE Value(I, t, s), s), Resume)
        [] I.id = "call" -> Then(Pushed(I, Next8(I, s), s), Enter)
        [] I.id = "pop"  -> IF ~Loadable(I, [Top(s) EXCEPT !.n = t.n], s) THEN Fault(s)
                            ELSE Resume(Put(I, t, Value(I, [Top(s) EXCEPT !.n = t.n], s), RspMoved(s, t.n)))
        [] I.id = "ret"  -> IF ~Loadable(I, Top(s), s) THEN Fault(s)
                            ELSE Outcome(Goto(Reversed(return),
                                   RspMoved(s, 8 + (IF I.ops = << >> THEN 0 ELSE t.v))), {})

Leave(I, s) ==
  LET frame == [s EXCEPT !.reg = Write(s.reg, RSP, Read(s.reg, RBP, 8))]
      rbp == Register(RBP, 8)
  IN  IF ~Loadable(I, Top(s), frame) THEN Fault(s)
      ELSE Outcome(Continue(I, Put(I, rbp, Value(I, Top(s), frame), RspMoved(frame, 8))), {})

-----------------------------------------------------------------------------
(* System calls, of which the processor and the kernel together do what the *)
(* comments of the recogniser say: rcx and r11 are not preserved.           *)

Clobbered == Block(RCX, 8) \cup Block(R11, 8)

Returning(I, s, w, undefined) ==
  Outcome(Continue(I, [s EXCEPT !.reg = Write(s.reg, RAX, w)]), Clobbered \cup undefined)

Failed == Word(-1, 8)

SystemCall(I, s) ==
  LET Arg(a) == Num(Low(Read(s.reg, a, 8), 3))
      number == Arg(RAX)
      bytes == Read(s.mem, Arg(RSI), Arg(RDX))
      stream == Arg(RDI) + 1
  IN  CASE number = 1 -> IF Arg(RDI) \notin 0..2 THEN Returning(I, s, Failed, {})
                         ELSE Returning(I, [s EXCEPT
                                !.streams[stream].content = @ \o bytes,
                                !.streams[stream].cursor = @ + Len(bytes)],
                                Word(Arg(RDX), 8), {})
        [] number = 5 -> Returning(I, [s EXCEPT !.mem = Write(s.mem, Arg(RSI), Zeros(144))],
                                   Zeros(8), Block(Arg(RSI), 144) \cup {RF, VM})
        [] number = 9 -> IF Allocated = 0 THEN Returning(I, s, Failed, {})
                         ELSE Returning(I, [s EXCEPT !.mem = Write(s.mem, Allocated, Zeros(Arg(RSI)))],
                                        Word(Allocated, 8), {})
        [] number = 231 -> Outcome([s EXCEPT !.error = "stop"], {})

-----------------------------------------------------------------------------
ComputedAddress(I, s) ==
  LET m == I.ops[2] IN Compute(I, s, Word(AddressOf(m, s, I.len), 8), << >>, {})

Effect(I, s) ==
  CASE I.id = "nop" -> Outcome(Continue(I, s), {})
    [] I.id = "lea" -> ComputedAddress(I, s)
    [] I.id = "leave" -> Leave(I, s)
    [] I.id = "int" -> Outcome([s EXCEPT !.error = "stop"], {})
    [] I.id = "syscall" -> SystemCall(I, s)
    [] I.id = "ret" -> Stack(I, s)
    [] OTHER ->
  IF \E i \in 1..Len(I.ops) : ~Loadable(I, I.ops[i], s) THEN Fault(s) ELSE
  CASE I.id \in {"add", "sub", "cmp", "inc", "dec", "neg", "and", "or", "xor", "test"} -> Arithmetic(I, s)
    [] I.id \in {"sar", "shr", "shl", "rol"} -> Shift(I, s)
    [] I.id = "bsf" -> Search(I, s)
    [] I.id = "div" -> Divide(I, s)
    [] I.id \in {"push", "pop", "call"} -> Stack(I, s)
    [] I.id \in {"jmp", "jne", "je", "js", "jns", "ja", "jae", "jg", "jle", "jb", "jbe"} -> Jump(I, s)
    [] OTHER -> Transfer(I, s)

-----------------------------------------------------------------------------
\* Machines that agree on registers, memory and streams but for some locations.
\* What is behind the registers is the recogniser's own.
Agree(p, q, some) == \A l \in (DOMAIN p \cup DOMAIN q) \ some : l < TMP => ByteAt(p, l) = ByteAt(q, l)
AgreeInMemory(p, q, some) == \A l \in (DOMAIN p \cup DOMAIN q) \ some : ByteAt(p, l) = ByteAt(q, l)

Equivalent(s, t, some) ==
  Agree(s.reg, t.reg, some) /\ AgreeInMemory(s.mem, t.mem, some) /\ s.streams = t.streams
=============================================================================
