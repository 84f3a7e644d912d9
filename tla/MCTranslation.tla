------------------------------ MODULE MCTranslation ------------------------------
EXTENDS Translation

\* Code, data, a stack that grows down to its bottom, and memory to be written only.
BlockOf(begin, end, read, write) ==
  [begin |-> begin, size |-> end + 1 - begin, read |-> read, write |-> write]
MCBlocks == {BlockOf(65536, 65800, TRUE, TRUE), BlockOf(65801, 65808, FALSE, TRUE),
             BlockOf(4194304, 4194320, TRUE, FALSE)}
MCAllocated == 65760
Output == [open |-> TRUE, read |-> FALSE, write |-> TRUE, cursor |-> 0, content |-> << >>]
MCStreams == 2 :> Output @@ 3 :> Output

-----------------------------------------------------------------------------
Begin == 4194304
Ins(id, ops) == [id |-> id, ops |-> ops, len |-> 4, rex |-> FALSE]

\* Words at their locations.
At(a, w) == [l \in Block(a, Len(w)) |-> w[l - a + 1]]

NoFlags == [f \in Flags |-> 0]
BothFlags == {NoFlags, [f \in Flags |-> 1]}

Regs(flags, more) == At(RIP, Word(Begin, 8)) @@ flags @@ more

Test(ins, reg, mem, input) == [ins |-> ins, reg |-> reg, mem |-> mem, input |-> input]

\* The words at the boundaries.
Filled(first, rest, last, n) ==
  [i \in 1..n |-> IF i = n THEN last ELSE IF i = 1 THEN first ELSE rest]

Boundary(n) ==
  IF n = 1 THEN {<<0>>, <<1>>, <<15>>, <<127>>, <<128>>, <<255>>}
  ELSE {Filled(0, 0, 0, n), Filled(0, 0, 1, n), Filled(127, 255, 255, n), Filled(128, 0, 0, n),
        Filled(255, 255, 255, n), Filled(0, 255, 240, n)}

Numbers(n) == {-128, -1, 0, 1, 15, 127}

\* A register of 8 bytes whose last n are a word.
Holding(register, w) == At(register, Filled(17, 34, 51, 8 - Len(w)) \o w)

Few(n) == {Filled(0, 0, 0, n), Filled(128, 0, 15, n), Filled(255, 255, 255, n)}

\* Data lie at 65600, and operands in memory address them in all the ways there are.
Data == 65600
Stored(w) == At(Data, Reversed(w))
Pointer(register, v) == At(register, Word(v, 8))

Plain(n) == [m |-> Memory(n, RSI, None, 1, 0), reg |-> Pointer(RSI, Data)]
Places(n) ==
  {Plain(n),
   [m |-> Memory(n, RSI, None, 1, -8), reg |-> Pointer(RSI, Data + 8)],
   [m |-> Memory(n, RSI, RDI, 1, 0), reg |-> Pointer(RSI, Data - 16) @@ Pointer(RDI, 16)],
   [m |-> Memory(n, RSI, RDI, 4, 8), reg |-> Pointer(RSI, Data - 16) @@ Pointer(RDI, 2)],
   [m |-> Memory(n, RIP, None, 1, Data - Begin - 4), reg |-> << >>]}
InFS(n) == [m |-> InSegment(n, FS, 16), reg |-> Pointer(FS, Data - 16)]

\* Addresses nothing can be loaded from, or stored to.
Unreadable(n) == [m |-> Memory(n, RSI, None, 1, 0), reg |-> Pointer(RSI, 100)]
Unwritable(n) == [m |-> Memory(n, RSI, None, 1, 0), reg |-> Pointer(RSI, Begin)]

Rax(n) == Register(Part(RAX, n), n)
Rbx(n) == Register(Part(RBX, n), n)

-----------------------------------------------------------------------------
(* Forms by the kinds of their operands *)

One(id, n, us) ==
  {Test(Ins(id, <<Rax(n)>>), Regs(f, Holding(RAX, u)), << >>, <<"reg", RAX + 7>>) :
     u \in us, f \in BothFlags}

OneMem(id, n, us, places) ==
  {Test(Ins(id, <<p.m>>), Regs(f, p.reg), Stored(u), <<"mem", Data>>) :
     u \in us, p \in places, f \in BothFlags}

RegReg(id, n, us) ==
  {Test(Ins(id, <<Rax(n), Rbx(n)>>), Regs(f, Holding(RAX, u) @@ Holding(RBX, v)), << >>,
        <<"reg", RBX + 7>>) : u \in us, v \in us, f \in BothFlags}

RegImm(id, n, us, vs) ==
  {Test([Ins(id, <<Rax(n), Immediate(v, n)>>) EXCEPT !.rex = (n = 8)],
        Regs(f, Holding(RAX, u)), << >>, <<"reg", RAX + 7>>) : u \in us, v \in vs, f \in BothFlags}

RegMem(id, n, us, places) ==
  {Test(Ins(id, <<Rax(n), p.m>>), Regs(f, Holding(RAX, u) @@ p.reg), Stored(v), <<"mem", Data>>) :
     u \in us, v \in us, p \in places, f \in BothFlags}

MemReg(id, n, us, places) ==
  {Test(Ins(id, <<p.m, Rax(n)>>), Regs(f, Holding(RAX, u) @@ p.reg), Stored(v), <<"mem", Data>>) :
     u \in us, v \in us, p \in places, f \in BothFlags}

MemImm(id, n, us, vs, places) ==
  {Test(Ins(id, <<p.m, Immediate(v, n)>>), Regs(f, p.reg), Stored(u), <<"mem", Data>>) :
     u \in us, v \in vs, p \in places, f \in BothFlags}

-----------------------------------------------------------------------------
Widths == {1, 2, 4, 8}

ArithmeticTests ==
  UNION {RegReg(id, n, Boundary(n)) \cup RegImm(id, n, Boundary(n), Numbers(n))
         \cup MemImm(id, n, Few(n), {-1, 1}, Places(n))
         : id \in {"add", "sub", "cmp"}, n \in Widths}
  \cup UNION {RegMem("add", n, Few(n), Places(n)) \cup MemReg("sub", n, Few(n), Places(n))
              \cup MemReg("cmp", n, Few(n), Places(n)) : n \in Widths}
  \cup UNION {One(id, n, Boundary(n)) : id \in {"inc", "dec", "neg"}, n \in Widths}
  \cup UNION {OneMem("dec", n, Few(n), Places(n)) : n \in Widths}

DivTests ==
  {Test(Ins("div", <<Rbx(n)>>),
        Regs(NoFlags, Holding(RAX, u) @@ Holding(RDX, h) @@ Holding(RBX, d)), << >>, <<"reg", RAX + 7>>) :
     n \in {2, 4}, u \in Few(4), h \in {Word(0, 2), Word(3, 2)}, d \in {Word(0, 4), Word(3, 4), Word(200, 4)}}
  \cup {Test(Ins("div", <<Rbx(1)>>), Regs(NoFlags, Holding(RAX, u) @@ Holding(RBX, d)), << >>,
             <<"reg", RAX + 7>>) : u \in {<<0, 250>>, <<3, 1>>}, d \in {<<7>>, <<3>>, <<0>>}}

LogicTests ==
  UNION {RegReg(id, n, Few(n)) : id \in {"test", "or", "xor"}, n \in Widths}
  \cup UNION {RegImm(id, n, Few(n), {-1, 0, 15}) : id \in {"test", "and", "or"}, n \in Widths}
  \cup UNION {MemImm("test", n, Few(n), {-1, 15}, Places(n)) : n \in Widths}
  \cup UNION {MemImm("or", n, Few(n), {-1, 15}, {Plain(n)}) : n \in Widths}
  \cup RegMem("xor", 8, Few(8), {InFS(8)})

ShiftTests ==
  UNION {RegImm(id, n, Few(n), {0, 1, 3, 7}) : id \in {"sar", "shr", "shl", "rol"}, n \in Widths}
  \cup UNION {RegImm(id, n, Few(n), {8 * n - 1}) : id \in {"sar", "shr", "shl", "rol"}, n \in {2, 4, 8}}
  \cup UNION {RegImm(id, 8, Boundary(8), {31, 32, 33}) : id \in {"sar", "shr", "shl", "rol"}}
  \cup UNION {{Test([Ins("sar", <<Rax(n), Register(Part(RCX, 1), 1)>>) EXCEPT !.rex = (n = 8)],
                    Regs(NoFlags, Holding(RAX, u) @@ Holding(RCX, <<c>>)), << >>, <<"reg", RCX + 7>>) :
                 u \in {Filled(0, 0, 0, n), Filled(128, 0, 15, n)}, c \in {0, 1, 5, 31}} : n \in {4, 8}}
  \cup {Test(Ins("bsf", <<Rax(4), Rbx(4)>>), Regs(NoFlags, Holding(RBX, u)), << >>, <<"reg", RBX + 7>>) :
          u \in {Zeros(4), <<0, 0, 0, 9>>, <<0, 0, 2, 8>>, <<128, 0, 0, 0>>}}

MoveTests ==
  UNION {RegReg("mov", n, Few(n)) \cup RegMem("mov", n, Few(n), Places(n) \cup {InFS(n)})
         \cup MemReg("mov", n, Few(n), Places(n) \cup {InFS(n)})
         \cup RegImm("mov", n, {Zeros(n)}, {-1, 1}) \cup MemImm("mov", n, {Zeros(n)}, {-1, 1}, Places(n))
         : n \in {1, 4, 8}}
  \cup {Test(Ins("movzx", <<Rax(n), Register(Part(r, 1), 1)>>), Regs(NoFlags, Holding(r, <<b>>)), << >>,
             <<"reg", r + 7>>) : n \in {2, 4, 8}, r \in {RAX, RBX}, b \in {1, 255}}
  \cup {Test(Ins("movzx", <<Rax(n), p.m>>), Regs(NoFlags, p.reg), Stored(<<b>>), <<"mem", Data>>) :
          n \in {2, 4, 8}, b \in {1, 255}, p \in Places(1)}
  \cup {Test(Ins("lea", <<Rax(8), p.m>>), Regs(NoFlags, p.reg), << >>, <<"reg", RIP + 7>>) : p \in Places(8)}
  \cup {Test(Ins("nop", << >>), Regs(NoFlags, << >>), << >>, <<"reg", RIP + 7>>)}

\* Bytes of which some have a sign, and some are equal.
Wide(k) == [i \in 1..16 |-> (i * k) % 256]
WideTests ==
  {Test(Ins(id, <<Register(XMM(0), 16), Register(XMM(1), 16)>>),
        Regs(NoFlags, At(XMM(0), Wide(17)) @@ At(XMM(1), Wide(k))), << >>, <<"reg", XMM(1) + 5>>) :
     id \in {"pxor", "pcmpeqb"}, k \in {17, 33}}
  \cup {Test(Ins(id, <<Register(XMM(0), 16), p.m>>),
             Regs(NoFlags, At(XMM(0), Wide(17)) @@ p.reg), Stored(Wide(33)), <<"mem", Data + 3>>) :
          id \in {"movdqu", "pcmpeqb"}, p \in Places(16)}
  \cup {Test(Ins("pmovmskb", <<Rax(n), Register(XMM(1), 16)>>), Regs(NoFlags, At(XMM(1), Wide(k))), << >>,
             <<"reg", XMM(1) + 5>>) : n \in {4, 8}, k \in {17, 33}}

-----------------------------------------------------------------------------
SomeFlags == {[f \in Flags |-> IF f \in on THEN 1 ELSE 0] : on \in SUBSET {CF, ZF, SF, OF}}
ZeroFlag == {[f \in Flags |-> IF f = ZF THEN b ELSE c] : b \in 0..1, c \in 0..1}

FlagTests ==
  {Test(Ins(id, <<Immediate(-4, 8)>>), Regs(flags, << >>), << >>, <<"reg", RIP + 7>>) :
     id \in {"je", "jne", "js", "jns", "jb", "jae", "jbe", "ja", "jle", "jg"}, flags \in SomeFlags}
  \cup {Test(Ins(id, <<Rax(1)>>), Regs(flags, << >>), << >>, <<"reg", ZF>>) :
          id \in {"sete", "setne"}, flags \in ZeroFlag}
  \cup {Test(Ins(id, <<Rax(n), Rbx(n)>>), Regs(flags, Holding(RBX, Word(7, n))), << >>, <<"reg", RBX + 7>>) :
          id \in {"cmove", "cmova"}, n \in {4, 8}, flags \in ZeroFlag}

Here == Pointer(RSP, Data)
JumpTests ==
  {Test(Ins(id, <<Immediate(-4, 8)>>), Regs(NoFlags, Here), << >>, <<"reg", RIP + 7>>) : id \in {"jmp", "call"}}
  \cup {Test(Ins(id, <<Rax(8)>>), Regs(NoFlags, Here @@ Pointer(RAX, Begin)), << >>, <<"reg", RAX + 7>>) :
          id \in {"jmp", "call"}}
  \cup {Test(Ins(id, <<p.m>>), Regs(NoFlags, Pointer(RSP, Data - 16) @@ p.reg),
             Stored(Word(Begin, 8)), <<"mem", Data>>) : id \in {"jmp", "call"}, p \in Places(8)}

StackTests ==
  {Test(Ins("push", <<Register(Part(RAX, n), n)>>), Regs(NoFlags, Pointer(RSP, a) @@ Holding(RAX, Word(258, n))), << >>,
        <<"reg", RAX + 7>>) : n \in {2, 8}, a \in {Data, 65536 + 4}}
  \cup {Test([Ins("push", <<Immediate(-1, n)>>) EXCEPT !.len = n + 1], Regs(NoFlags, Here), << >>,
             <<"reg", RIP + 7>>) : n \in {1, 2, 4}}
  \cup {Test([Ins("push", <<p.m>>) EXCEPT !.len = 6], Regs(NoFlags, Here @@ p.reg), Stored(Word(9, 8)),
             <<"mem", Data>>) : p \in Places(8)}
  \cup {Test(Ins("pop", <<Register(Part(r, n), n)>>), Regs(NoFlags, Pointer(RSP, a)), Stored(Word(258, 8)),
             <<"mem", Data>>) : n \in {2, 8}, r \in {RAX, RSP}, a \in {Data, 100}}
  \cup {Test(Ins("ret", ops), Regs(NoFlags, Pointer(RSP, a)), Stored(Word(Begin, 8)), <<"mem", Data>>) :
          ops \in {<< >>, <<Immediate(16, 2)>>}, a \in {Data, 100}}
  \cup {Test(Ins("leave", << >>), Regs(NoFlags, Pointer(RBP, a) @@ Pointer(RSP, 65552)),
             Stored(Word(258, 8)), <<"mem", Data>>) : a \in {Data, 100}}

\* What a system call takes in rax, rdi, rsi, rdx and r10.
SysCall(rax, rdi, rsi, rdx, r10) ==
  Pointer(RAX, rax) @@ Pointer(RDI, rdi) @@ Pointer(RSI, rsi) @@ Pointer(RDX, rdx) @@ Pointer(At64("r10"), r10)

SystemTests ==
  {Test(Ins("syscall", << >>), Regs(NoFlags, call), Stored(<<3, 2, 1>>), <<"mem", Data + 1>>) :
     call \in {SysCall(1, 1, Data, 3, 0), SysCall(1, 2, Data, 0, 0), SysCall(5, 1, Data, 0, 0), SysCall(9, 0, 3, 3, 34),
               SysCall(231, 0, 0, 0, 0), SysCall(0, 0, 0, 0, 0)}}
  \cup {Test(Ins("int", <<Immediate(128, 1)>>), Regs(NoFlags, Pointer(RAX, 1)), << >>, <<"reg", RAX + 7>>)}

FaultTests ==
  MemReg("mov", 4, {Zeros(4)}, {Unreadable(4), Unwritable(4)})
  \cup RegMem("mov", 4, {Zeros(4)}, {Unreadable(4)}) \cup RegMem("add", 4, {Zeros(4)}, {Unreadable(4)})
  \cup MemImm("add", 4, {Zeros(4)}, {1}, {Unreadable(4), Unwritable(4)})
  \cup OneMem("jmp", 8, {Zeros(8)}, {Unreadable(8)}) \cup OneMem("dec", 4, {Zeros(4)}, {Unwritable(4)})

-----------------------------------------------------------------------------
MCTests ==
  ArithmeticTests \cup DivTests \cup LogicTests \cup ShiftTests \cup MoveTests \cup WideTests
  \cup FlagTests \cup JumpTests \cup StackTests \cup SystemTests \cup FaultTests
=============================================================================
