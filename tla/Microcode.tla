----------------------------- MODULE Microcode -----------------------------
(***************************************************************************)
(* The instructions of Microcode: how they are created, and what the       *)
(* interpreter does with a thread's REG pool, the MEM pool and the         *)
(* streams.  A machine is a record [reg, mem, blocks, streams, error]; the *)
(* pools are functions from locations to bytes, which grow where they are  *)
(* written, blocks are the allocated parts of the MEM pool.  A step also   *)
(* returns its io-relation, the sequence of pairs <<written location,      *)
(* locations its value comes from>> in the order in which the interpreter  *)
(* lists them.                                                             *)
(*                                                                         *)
(* Where MEM ALLOC finds room is in MemoryPool, which also has MEM FREE.   *)
(***************************************************************************)
EXTENDS Words

CONSTANT
  Allocated  \* the address MEM ALLOC answers with, 0 if there is no room

ASSUME AllocatedAssumption == Allocated \in Nat

-----------------------------------------------------------------------------
(* Creation of instructions *)

NoInstruction == [gik |-> "none"]

RegAsgnNumber(n, a, v) == [gik |-> "REG:=NUMBER", n |-> n, a0 |-> a, v |-> Word(v, n)]
RegAsgnReg(n, a0, a1)  == [gik |-> "REG:=REG", n |-> n, a0 |-> a0, a1 |-> a1]

RegAsgnDeref(n, a0, a1)      == [gik |-> "REG:=*REG", n |-> n, a0 |-> a0, a1 |-> a1]
RegAsgnDerefInv(n, a0, a1)   == [gik |-> "REG:=*INV REG", n |-> n, a0 |-> a0, a1 |-> a1]
DerefAsgnReg(n, a0, a1)      == [gik |-> "*REG:=REG", n |-> n, a0 |-> a0, a1 |-> a1]
DerefInvAsgnReg(n, a0, a1)   == [gik |-> "*INV REG:=REG", n |-> n, a0 |-> a0, a1 |-> a1]
DerefAsgnNumber(n, a, v)     == [gik |-> "*REG:=NUMBER", n |-> n, a0 |-> a, v |-> Word(v, n)]
DerefInvAsgnNumber(n, a, v)  == [gik |-> "*INV REG:=NUMBER", n |-> n, a0 |-> a, v |-> Word(v, n)]

ZeroExtend(n, a0, a1) == [gik |-> "REG:=ZERO_EXTEND", n |-> n, a0 |-> a0, a1 |-> a1]
SignExtend(n, a0, a1) == [gik |-> "REG:=SIGN_EXTEND", n |-> n, a0 |-> a0, a1 |-> a1]

Havoc(v, a) == [gik |-> "REG:=HAVOC", n |-> v, a0 |-> a]

PlusNumber(n, a0, a1, v)  == [gik |-> "REG:=REG+NUMBER", n |-> n, a0 |-> a0, a1 |-> a1, v |-> Word(v, n)]
PlusReg(n, a0, a1, a2)    == [gik |-> "REG:=REG+REG", n |-> n, a0 |-> a0, a1 |-> a1, a2 |-> a2]
TimesNumber(n, a0, a1, v) == [gik |-> "REG:=REG*NUMBER", n |-> n, a0 |-> a0, a1 |-> a1, k |-> v]
DivideReg(n, a0, a1, a2)  == [gik |-> "REG:=REG/REG", n |-> n, a0 |-> a0, a1 |-> a1, a2 |-> a2]
ModuloReg(n, a0, a1, a2)  == [gik |-> "REG:=REG%REG", n |-> n, a0 |-> a0, a1 |-> a1, a2 |-> a2]

EqualToZero(n, a0, a1) == [gik |-> "REG:=REG==0", n |-> n, a0 |-> a0, a1 |-> a1]

AndNumber(n, a0, a1, v) == [gik |-> "REG:=REG&NUMBER", n |-> n, a0 |-> a0, a1 |-> a1, v |-> Word(v, n)]
AndReg(n, a0, a1, a2)   == [gik |-> "REG:=REG&REG", n |-> n, a0 |-> a0, a1 |-> a1, a2 |-> a2]
OrNumber(n, a0, a1, v)  == [gik |-> "REG:=REG|NUMBER", n |-> n, a0 |-> a0, a1 |-> a1, v |-> Word(v, n)]
OrReg(n, a0, a1, a2)    == [gik |-> "REG:=REG|REG", n |-> n, a0 |-> a0, a1 |-> a1, a2 |-> a2]
NotReg(n, a0, a1)       == [gik |-> "REG:=~REG", n |-> n, a0 |-> a0, a1 |-> a1]
XorReg(n, a0, a1, a2)   == [gik |-> "REG:=REG^REG", n |-> n, a0 |-> a0, a1 |-> a1, a2 |-> a2]

RShiftNumber(n, a0, a1, v) == [gik |-> "REG:=REG>>NUMBER", n |-> n, a0 |-> a0, a1 |-> a1, k |-> v]
RShiftReg(n, a0, a1, a2)   == [gik |-> "REG:=REG>>REG", n |-> n, a0 |-> a0, a1 |-> a1, a2 |-> a2]
LShiftNumber(n, a0, a1, v) == [gik |-> "REG:=REG<<NUMBER", n |-> n, a0 |-> a0, a1 |-> a1, k |-> v]
LShiftReg(n, a0, a1, a2)   == [gik |-> "REG:=REG<<REG", n |-> n, a0 |-> a0, a1 |-> a1, a2 |-> a2]

MemAlloc(a0, a1, a2, a3) ==
  [gik |-> "REG:=MEM ALLOC", n |-> 8, a0 |-> a0, a1 |-> a1, a2 |-> a2, a3 |-> a3]
MemStatic(a, begin, read, write, size) ==
  [gik |-> "REG:=MEM STATIC", n |-> 8, a0 |-> a, begin |-> begin, size |-> size,
   read |-> read, write |-> write]
DerefAddressAsgnData(a, data) == [gik |-> "*ADDRESS:=DATA", begin |-> a, data |-> data]
CopyFrom(n, a0, a1) == [gik |-> "REG:=REG[REG]", n |-> n, a0 |-> a0, a1 |-> a1]
CopyTo(n, a0, a1)   == [gik |-> "REG[REG]:=REG", n |-> n, a0 |-> a0, a1 |-> a1]
HavocAt(v, a)       == [gik |-> "REG[REG]:=HAVOC", n |-> v, a0 |-> a]

StreamOpen(a, mode, id) ==
  [gik |-> "REG:=STREAM OPEN", n |-> 8, a0 |-> a, mode |-> mode, stream |-> id]
StreamRead(a, id) == [gik |-> "REG:=STREAM READ", n |-> 1, a0 |-> a, stream |-> id]
StreamWrite(a0, v, a1) == [gik |-> "REG:=STREAM WRITE", n |-> 1, a0 |-> a0, a1 |-> a1, stream |-> v]
InterruptGet(n, a, v)  == [gik |-> "REG:=INTERRUPT", n |-> n, a0 |-> a, k |-> v]
ParityReg(n, a0, a1)   == [gik |-> "REG:=PARITY", n |-> n, a0 |-> a0, a1 |-> a1]
Nop  == [gik |-> "NOP"]
Stop == [gik |-> "STOP"]
-----------------------------------------------------------------------------
(* Pools: a page is filled when the first of its bytes is touched *)

FreshByte == 205
HavocByte == 220

ByteAt(pool, l) == IF l \in DOMAIN pool THEN pool[l] ELSE FreshByte

Read(pool, a, n) == Tuple([i \in 1..n |-> ByteAt(pool, a + i - 1)])

Write(pool, a, w) ==
  LET range == a..(a + Len(w) - 1)
  IN  [l \in range \cup DOMAIN pool |-> IF l \in range THEN w[l - a + 1] ELSE pool[l]]

\* The address in a register; those of 2^24 and more are nowhere allocated here.
NoAddress == -1

Address(s, a) ==
  With(Read(s.reg, a, 8),
       LAMBDA w : IF IsZero(SubSeq(w, 1, 5)) THEN Num(SubSeq(w, 6, 8)) ELSE NoAddress)

Block(adr, n) == adr..(adr + n - 1)

\* The blocks a range touches.
Touched(s, adr, n) == {b \in s.blocks : b.begin < adr + n /\ b.begin + b.size > adr}

\* A range may be used if the blocks it touches allow it and leave no gap in
\* front of one of them; what lies behind the last of them is not looked at.
Allowed(s, adr, n, granting) ==
  LET touched == Touched(s, adr, n)
      last == CHOOSE e \in {b.begin + b.size : b \in touched} :
                \A b \in touched : b.begin + b.size <= e
  IN  /\ touched # {}
      /\ touched \subseteq granting
      /\ \A l \in {k \in Block(adr, n) : k < last} :
           \E b \in touched : l \in Block(b.begin, b.size)

Readable(s) == {b \in s.blocks : b.read}
Writable(s) == {b \in s.blocks : b.write}

-----------------------------------------------------------------------------
(* io-relations *)

InReg(a, n) == [i \in 1..n |-> <<"reg", a + i - 1>>]
InStream(stream, i) == <<<<"stream", stream, i>>>>
InMem(a, n) == [i \in 1..n |-> <<"mem", a + i - 1>>]

LocationsOf(reads) == {reads[i] : i \in 1..Len(reads)}

OneToOne(reads, writes) == [i \in 1..Len(writes) |-> <<writes[i], {reads[i]}>>]

OneToTwo(reads0, reads1, writes) ==
  [i \in 1..Len(writes) |-> <<writes[i], {reads0[i], reads1[i]}>>]

OneToN(reads, writes) == [i \in 1..Len(writes) |-> <<writes[i], LocationsOf(reads)>>]

-----------------------------------------------------------------------------
(* The interpreter: what one instruction does with a machine *)

Fails(s, message) == [cpu |-> [s EXCEPT !.error = message], io |-> << >>]

\* A word is written into the REG pool; io says where its bytes come from.
Assigns(s, a, w, io) ==
  With(w, LAMBDA word : [cpu |-> [s EXCEPT !.reg = Write(s.reg, a, word)], io |-> io])

ExecuteRegAsgnNumber(I, s) ==
  Assigns(s, I.a0, I.v, OneToN(<< >>, InReg(I.a0, I.n)))

ExecuteRegAsgnReg(I, s) ==
  Assigns(s, I.a0, Read(s.reg, I.a1, I.n), OneToOne(InReg(I.a1, I.n), InReg(I.a0, I.n)))

\* Loads list every byte twice: once for the address and once for the memory,
\* where it comes from.
Loads(I, s, w, from) ==
  LET adr == Address(s, I.a1)
      writes == InReg(I.a0, I.n)
  IN  IF ~Allowed(s, adr, I.n, Readable(s)) THEN Fails(s, "not readable memory")
      ELSE Assigns(s, I.a0, w, OneToN(InReg(I.a1, 8), writes)
                               \o OneToOne(from, writes))

ExecuteRegAsgnDerefInv(I, s) ==
  LET adr == Address(s, I.a1)
  IN  Loads(I, s, Reversed(Read(s.mem, adr, I.n)), Reversed(InMem(adr, I.n)))

ExecuteRegAsgnDeref(I, s) ==
  LET adr == Address(s, I.a1)
  IN  Loads(I, s, Read(s.mem, adr, I.n), InMem(adr, I.n))

Stores(I, s, w, io) ==
  LET adr == Address(s, I.a0)
  IN  IF ~Allowed(s, adr, I.n, Writable(s)) THEN Fails(s, "not writable memory")
      ELSE [cpu |-> [s EXCEPT !.mem = Write(s.mem, adr, w)], io |-> io]

FromAddress(I, s) == OneToN(InReg(I.a0, 8), InMem(Address(s, I.a0), I.n))

ExecuteDerefAsgnReg(I, s) ==
  Stores(I, s, Read(s.reg, I.a1, I.n),
         FromAddress(I, s) \o OneToOne(InReg(I.a1, I.n), InMem(Address(s, I.a0), I.n)))

ExecuteDerefInvAsgnReg(I, s) ==
  Stores(I, s, Reversed(Read(s.reg, I.a1, I.n)),
         FromAddress(I, s) \o OneToOne(Reversed(InReg(I.a1, I.n)), InMem(Address(s, I.a0), I.n)))

ExecuteDerefAsgnNumber(I, s) == Stores(I, s, I.v, FromAddress(I, s))

ExecuteDerefInvAsgnNumber(I, s) == Stores(I, s, Reversed(I.v), FromAddress(I, s))

\* Only the low half is listed in the io-relation.
ExecuteZeroExtend(I, s) ==
  Assigns(s, I.a0, Low(Read(s.reg, I.a1, I.n), 2 * I.n),
          OneToOne(InReg(I.a1, I.n), InReg(I.a0 + I.n, I.n)))

\* The pool is written, then extend_1_to_1 asserts that the 2n bytes written
\* are as many as the n bytes read.
ExecuteSignExtend(I, s) ==
  LET w == SignExtended(Read(s.reg, I.a1, I.n), 2 * I.n)
  IN  [Assigns(s, I.a0, w, << >>) EXCEPT !.cpu.error = "assertion"]

ExecuteHavoc(I, s) ==
  Assigns(s, I.a0, [i \in 1..I.n |-> HavocByte], OneToN(<< >>, InReg(I.a0, I.n)))

\* Every byte of the result depends on every byte of the operands.
Mixes(I, s, w, operands) == Assigns(s, I.a0, w, OneToN(operands, InReg(I.a0, Len(w))))

First(I, s) == Read(s.reg, I.a1, I.n)
Second(I, s) == Read(s.reg, I.a2, I.n)
BothOperands(I) == InReg(I.a1, I.n) \o InReg(I.a2, I.n)

ExecutePlusNumber(I, s) == Mixes(I, s, Sum(First(I, s), I.v), InReg(I.a1, I.n))
ExecutePlusReg(I, s) == Mixes(I, s, Sum(First(I, s), Second(I, s)), BothOperands(I))
ExecuteTimesNumber(I, s) == Mixes(I, s, Product(First(I, s), I.k), InReg(I.a1, I.n))

ExecuteDivideReg(I, s) ==
  IF IsZero(Second(I, s)) THEN Fails(s, "division by zero")
  ELSE Mixes(I, s, Division(First(I, s), Num(Second(I, s))).quotient, BothOperands(I))

ExecuteModuloReg(I, s) ==
  IF IsZero(Second(I, s)) THEN Fails(s, "division by zero")
  ELSE Mixes(I, s, Word(Division(First(I, s), Num(Second(I, s))).remainder, I.n), BothOperands(I))

Truth(b) == <<IF b THEN 1 ELSE 0>>

ExecuteEqualToZero(I, s) == Mixes(I, s, Truth(IsZero(First(I, s))), InReg(I.a1, I.n))

ExecuteParityReg(I, s) == Mixes(I, s, Truth(IsEven(First(I, s))), InReg(I.a1, I.n))

\* A byte of the result depends on the bytes at its place in the operands.
ExecuteAndNumber(I, s) ==
  Assigns(s, I.a0, BitAnd(First(I, s), I.v), OneToOne(InReg(I.a1, I.n), InReg(I.a0, I.n)))
ExecuteOrNumber(I, s) ==
  Assigns(s, I.a0, BitOr(First(I, s), I.v), OneToOne(InReg(I.a1, I.n), InReg(I.a0, I.n)))
ExecuteNotReg(I, s) ==
  Assigns(s, I.a0, BitNot(First(I, s)), OneToOne(InReg(I.a1, I.n), InReg(I.a0, I.n)))

Bytewise(I) == OneToTwo(InReg(I.a1, I.n), InReg(I.a2, I.n), InReg(I.a0, I.n))

ExecuteAndReg(I, s) == Assigns(s, I.a0, BitAnd(First(I, s), Second(I, s)), Bytewise(I))
ExecuteOrReg(I, s)  == Assigns(s, I.a0, BitOr(First(I, s), Second(I, s)), Bytewise(I))
ExecuteXorReg(I, s) == Assigns(s, I.a0, BitXor(First(I, s), Second(I, s)), Bytewise(I))

\* The number of bits is a byte; shifting by 64 and more is undefined in C++.
ExecuteRShiftNumber(I, s) == Mixes(I, s, ShiftedRight(First(I, s), I.k), InReg(I.a1, I.n))
ExecuteLShiftNumber(I, s) == Mixes(I, s, ShiftedLeft(First(I, s), I.k), InReg(I.a1, I.n))
ExecuteRShiftReg(I, s) ==
  Mixes(I, s, ShiftedRight(First(I, s), ByteAt(s.reg, I.a2)), InReg(I.a1, I.n) \o InReg(I.a2, 1))
ExecuteLShiftReg(I, s) ==
  Mixes(I, s, ShiftedLeft(First(I, s), ByteAt(s.reg, I.a2)), InReg(I.a1, I.n) \o InReg(I.a2, 1))

ExecuteMemAlloc(I, s) ==
  Assigns(s, I.a0, Word(Allocated, 8),
          OneToN(InReg(I.a1, 1) \o InReg(I.a2, 8) \o InReg(I.a3, 8), InReg(I.a0, 8)))

\* MEM STATIC says whether the block was free, and enters it anyway; its
\* io-relation has one of the eight bytes written.
ExecuteMemStatic(I, s) ==
  LET free == Touched(s, I.begin, I.size) = {}
      new == [begin |-> I.begin, size |-> I.size, read |-> I.read, write |-> I.write]
      known == \E b \in s.blocks : b.begin = I.begin
      step == Assigns(s, I.a0, Word(IF free THEN I.begin ELSE 0, 8), OneToN(<< >>, InReg(I.a0, 1)))
  IN  IF known THEN step ELSE [step EXCEPT !.cpu.blocks = @ \cup {new}]

\* The io-relation has a pair for each byte, but all of them for the first.
ExecuteDerefAddressAsgnData(I, s) ==
  IF ~Allowed(s, I.begin, Len(I.data), s.blocks) THEN Fails(s, "not allocated memory")
  ELSE [cpu |-> [s EXCEPT !.mem = Write(s.mem, I.begin, I.data)],
        io |-> <<<<<<"mem", I.begin>>, {}>>>>]

\* The address of the copied word is in a register itself.
ExecuteCopyFrom(I, s) ==
  LET adr == Address(s, I.a1)
      writes == InReg(I.a0, I.n)
  IN  Assigns(s, I.a0, Read(s.reg, adr, I.n),
              OneToN(InReg(I.a1, 8), writes) \o OneToOne(InReg(adr, I.n), writes))

ExecuteCopyTo(I, s) ==
  LET adr == Address(s, I.a0)
      writes == InReg(adr, I.n)
  IN  Assigns(s, adr, Read(s.reg, I.a1, I.n),
              OneToN(InReg(I.a0, 8), writes) \o OneToOne(InReg(I.a1, I.n), writes))

ExecuteHavocAt(I, s) ==
  LET adr == Address(s, I.a0)
  IN  Assigns(s, adr, [i \in 1..I.n |-> HavocByte], OneToN(InReg(I.a0, 8), InReg(adr, I.n)))

\* Streams that were never opened are not in the table.
ClosedStream == [open |-> FALSE, read |-> FALSE, write |-> FALSE, cursor |-> 0, content |-> << >>]

StreamInfo(s, id) == IF id \in DOMAIN s.streams THEN s.streams[id] ELSE ClosedStream

WithStream(s, id, info) == [s EXCEPT !.streams = (id :> info) @@ s.streams]

ExecuteStreamOpen(I, s) ==
  LET info == StreamInfo(s, I.stream)
      opened == [open |-> TRUE, read |-> I.mode = 1, write |-> I.mode = 2, cursor |-> 0,
                 content |-> info.content]
  IN  IF info.open THEN Fails(s, "open already")
      ELSE Assigns(WithStream(s, I.stream, opened), I.a0, Word(I.stream, 8),
                   OneToN(<< >>, InReg(I.a0, 8)))

BehindEnd(info) == info.cursor >= Len(info.content)

ExecuteStreamRead(I, s) ==
  LET info == StreamInfo(s, I.stream)
  IN  IF ~info.open \/ ~info.read \/ BehindEnd(info) THEN Fails(s, "not a readable stream")
      ELSE Assigns(WithStream(s, I.stream, [info EXCEPT !.cursor = @ + 1]),
                   I.a0, <<ByteOf(info.content, info.cursor + 1)>>,
                   OneToOne(InStream(I.stream, info.cursor), InReg(I.a0, 1)))

\* What is behind the cursor is overwritten.
ExecuteStreamWrite(I, s) ==
  LET info == StreamInfo(s, I.stream)
      byte == ByteAt(s.reg, I.a1)
      written == SubSeq(info.content, 1, info.cursor) \o <<byte>>
                   \o SubSeq(info.content, info.cursor + 2, Len(info.content))
      moved == [open |-> info.open, read |-> info.read, write |-> info.write,
                cursor |-> info.cursor + 1, content |-> written]
  IN  IF ~info.open \/ ~info.write THEN Fails(s, "not a writable stream")
      ELSE Assigns(WithStream(s, I.stream, moved), I.a0, <<1>>,
                   OneToN(InReg(I.a1, 1), InStream(I.stream, info.cursor) \o InReg(I.a0, 1)))

\* Only copies and sums may write the IP; a C++ word has at most 8 bytes.
\* (A slip: a copy may not.)
MayWriteIPSums == {"REG:=NUMBER", "REG:=REG+NUMBER", "REG:=REG+REG"}
MayWriteIP == {"REG:=NUMBER", "REG:=REG", "REG:=REG+NUMBER", "REG:=REG+REG"}
MayBeWide == {"REG:=REG+NUMBER", "REG:=REG+REG", "REG:=REG*NUMBER", "REG:=REG/REG",
              "REG:=REG%REG", "REG:=HAVOC", "REG[REG]:=HAVOC"}
StoresIntoMem == {"*REG:=REG", "*INV REG:=REG", "*REG:=NUMBER", "*INV REG:=NUMBER"}
WritesAtAddress == {"REG[REG]:=REG", "REG[REG]:=HAVOC"}

Assumed(I, s) ==
  /\ I.gik \in WritesAtAddress => Address(s, I.a0) > 7
  /\ I.gik \notin MayWriteIP \cup StoresIntoMem \cup WritesAtAddress => I.a0 > 7
  /\ I.gik \notin MayBeWide => I.n <= 8

Execute(I, s) ==
  CASE I.gik = "NOP"  -> [cpu |-> s, io |-> << >>]
    [] I.gik = "STOP" -> Fails(s, "stop")
    [] I.gik = "REG:=INTERRUPT" -> Fails(s, "not implemented")
    [] I.gik = "*ADDRESS:=DATA" -> ExecuteDerefAddressAsgnData(I, s)
    [] OTHER -> IF ~Assumed(I, s) THEN Fails(s, "assertion") ELSE
  CASE I.gik = "REG:=NUMBER"      -> ExecuteRegAsgnNumber(I, s)
    [] I.gik = "REG:=REG"         -> ExecuteRegAsgnReg(I, s)
    [] I.gik = "REG:=*REG"        -> ExecuteRegAsgnDeref(I, s)
    [] I.gik = "REG:=*INV REG"    -> ExecuteRegAsgnDerefInv(I, s)
    [] I.gik = "*REG:=REG"        -> ExecuteDerefAsgnReg(I, s)
    [] I.gik = "*INV REG:=REG"    -> ExecuteDerefInvAsgnReg(I, s)
    [] I.gik = "*REG:=NUMBER"     -> ExecuteDerefAsgnNumber(I, s)
    [] I.gik = "*INV REG:=NUMBER" -> ExecuteDerefInvAsgnNumber(I, s)
    [] I.gik = "REG:=ZERO_EXTEND" -> ExecuteZeroExtend(I, s)
    [] I.gik = "REG:=SIGN_EXTEND" -> ExecuteSignExtend(I, s)
    [] I.gik = "REG:=HAVOC"       -> ExecuteHavoc(I, s)
    [] I.gik = "REG:=REG+NUMBER"  -> ExecutePlusNumber(I, s)
    [] I.gik = "REG:=REG+REG"     -> ExecutePlusReg(I, s)
    [] I.gik = "REG:=REG*NUMBER"  -> ExecuteTimesNumber(I, s)
    [] I.gik = "REG:=REG/REG"     -> ExecuteDivideReg(I, s)
    [] I.gik = "REG:=REG%REG"     -> ExecuteModuloReg(I, s)
    [] I.gik = "REG:=REG==0"      -> ExecuteEqualToZero(I, s)
    [] I.gik = "REG:=PARITY"      -> ExecuteParityReg(I, s)
    [] I.gik = "REG:=MEM ALLOC"   -> ExecuteMemAlloc(I, s)
    [] I.gik = "REG:=MEM STATIC"  -> ExecuteMemStatic(I, s)
    [] I.gik = "REG:=REG[REG]"    -> ExecuteCopyFrom(I, s)
    [] I.gik = "REG[REG]:=REG"    -> ExecuteCopyTo(I, s)
    [] I.gik = "REG[REG]:=HAVOC"  -> ExecuteHavocAt(I, s)
    [] I.gik = "REG:=STREAM OPEN"  -> ExecuteStreamOpen(I, s)
    [] I.gik = "REG:=STREAM READ"  -> ExecuteStreamRead(I, s)
    [] I.gik = "REG:=STREAM WRITE" -> ExecuteStreamWrite(I, s)
    [] I.gik = "REG:=REG&NUMBER"  -> ExecuteAndNumber(I, s)
    [] I.gik = "REG:=REG&REG"     -> ExecuteAndReg(I, s)
    [] I.gik = "REG:=REG|NUMBER"  -> ExecuteOrNumber(I, s)
    [] I.gik = "REG:=REG|REG"     -> ExecuteOrReg(I, s)
    [] I.gik = "REG:=~REG"        -> ExecuteNotReg(I, s)
    [] I.gik = "REG:=REG^REG"     -> ExecuteXorReg(I, s)
    [] I.gik = "REG:=REG>>NUMBER" -> ExecuteRShiftNumber(I, s)
    [] I.gik = "REG:=REG>>REG"    -> ExecuteRShiftReg(I, s)
    [] I.gik = "REG:=REG<<NUMBER" -> ExecuteLShiftNumber(I, s)
    [] I.gik = "REG:=REG<<REG"    -> ExecuteLShiftReg(I, s)
=============================================================================
