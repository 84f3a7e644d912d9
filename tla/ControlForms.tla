------------------------------ MODULE ControlForms ------------------------------
(***************************************************************************)
(* ControlForms: the components the recogniser builds for jumps, for the   *)
(* stack and calls, and for system calls, which it builds for the values   *)
(* registers have when the instruction is recognised.                      *)
(***************************************************************************)
EXTENDS Native

Release == Havoc(8, TMP)

-----------------------------------------------------------------------------
(* Jumps; an immediate target is relative to the begin of the instruction *)

JumpRelative(I) == PlusNumber(8, RIP, RIP, I.ops[1].v)

JumpImm(I, t) == <<JumpRelative(I)>>

JumpReg(I, t) == <<RegAsgnReg(8, RIP, t.a)>>

JumpMem(I, t) ==
  AddressCode(t, I.len).code
    \o <<RegAsgnDerefInv(8, TMP, AddressCode(t, I.len).at), RegAsgnReg(8, RIP, TMP), Release>>

RecogniseJMP(I) ==
  LET t == I.ops[1]
  IN  CASE IsImm(t)            -> JumpImm(I, t)
        [] IsReg(t) /\ t.n = 8 -> JumpReg(I, t)
        [] IsBased(t)          -> JumpMem(I, t)
        [] OTHER               -> NotRecognised

JumpUnless(I, flag) == <<Branch(1, flag, <<JumpRelative(I)>>, <<Advance(I)>>)>>
JumpIf(I, flag)     == <<Branch(1, flag, <<Advance(I)>>, <<JumpRelative(I)>>)>>

RecogniseJNE(I) == JumpUnless(I, ZF)
RecogniseJE(I)  == JumpIf(I, ZF)
RecogniseJS(I)  == JumpIf(I, SF)
RecogniseJNS(I) == JumpUnless(I, SF)
RecogniseJAE(I) == JumpUnless(I, CF)
RecogniseJB(I)  == JumpIf(I, CF)

\* Where the condition is computed, both sides release it.
ReleaseAnd(last) == <<Havoc(1, TMP), last>>

RecogniseJA(I) ==
  <<OrReg(1, TMP, ZF, CF),
    Branch(1, TMP, ReleaseAnd(JumpRelative(I)), ReleaseAnd(Advance(I)))>>

RecogniseJBE(I) ==
  <<OrReg(1, TMP, ZF, CF),
    Branch(1, TMP, ReleaseAnd(Advance(I)), ReleaseAnd(JumpRelative(I)))>>

RecogniseJG(I) ==
  <<XorReg(1, TMP, SF, OF), OrReg(1, TMP, TMP, ZF),
    Branch(1, TMP, ReleaseAnd(JumpRelative(I)), ReleaseAnd(Advance(I)))>>

RecogniseJLE(I) ==
  <<XorReg(1, TMP, SF, OF), OrReg(1, TMP, TMP, ZF),
    Branch(1, TMP, ReleaseAnd(Advance(I)), ReleaseAnd(JumpRelative(I)))>>

-----------------------------------------------------------------------------
(* The stack *)

Grow(n) == PlusNumber(8, RSP, RSP, -n)
Shrink(n) == PlusNumber(8, RSP, RSP, n)

PushReg(I, t) == <<Grow(t.n), DerefInvAsgnReg(t.n, RSP, t.a), Advance(I)>>

\* The width of a pushed number is taken from the length of the instruction.
PushImm(I, t) ==
  LET n == I.len - 1
  IN  <<Grow(n), DerefInvAsgnNumber(n, RSP, t.v), Advance(I)>>

\* What is pushed is the number of the register the value was loaded into.
PushMem(I, t) ==
  LET adr == AddressCode(t, I.len)
      value == IF adr.at < TMP THEN TMP ELSE adr.at + 8
  IN  adr.code
        \o <<RegAsgnDerefInv(8, value, adr.at), Grow(8), DerefInvAsgnNumber(8, RSP, value),
             Havoc(value + 8 - TMP, TMP), Advance(I)>>

RecognisePUSH(I) ==
  LET t == I.ops[1]
  IN  CASE IsReg(t)                          -> PushReg(I, t)
        [] IsImm(t) /\ I.len \in {2, 3, 5}   -> PushImm(I, t)
        [] IsBased(t) /\ I.len = 6           -> PushMem(I, t)
        [] OTHER                             -> NotRecognised

RecognisePOP(I) ==
  LET t == I.ops[1]
  IN  IF IsReg(t) THEN <<RegAsgnDerefInv(t.n, t.a, RSP), Shrink(t.n), Advance(I)>>
      ELSE NotRecognised

PushReturnAddress(I) ==
  <<PlusNumber(8, TMP, RIP, I.len), Grow(8), DerefInvAsgnReg(8, RSP, TMP)>>

CallImm(I, t) == PushReturnAddress(I) \o <<Release, JumpRelative(I)>>

CallReg(I, t) == PushReturnAddress(I) \o <<Release, RegAsgnReg(8, RIP, t.a)>>

CallMem(I, t) ==
  LET adr == AddressCode(t, I.len)
      target == IF adr.at < TMP THEN TMP ELSE adr.at + 8
  IN  PushReturnAddress(I) \o adr.code
        \o <<RegAsgnDerefInv(8, target, adr.at), RegAsgnReg(8, RIP, target),
             Havoc(target + 8 - TMP, TMP)>>

RecogniseCALL(I) ==
  LET t == I.ops[1]
  IN  CASE IsImm(t)   -> CallImm(I, t)
        [] IsReg(t)   -> IF t.n = 8 THEN CallReg(I, t) ELSE AssertionFails
        [] IsBased(t) -> CallMem(I, t)
        [] OTHER      -> NotRecognised

\* The number of bytes to pop is 8 plus whether there is an operand.
RecogniseRET(I) ==
  <<RegAsgnDerefInv(8, TMP, RSP), Shrink(8 + Len(I.ops)), RegAsgnReg(8, RIP, TMP), Release>>

RecogniseLEAVE(I) ==
  <<RegAsgnReg(8, RSP, RBP), RegAsgnDerefInv(8, RBP, RSP), Shrink(8), Advance(I)>>

-----------------------------------------------------------------------------
(* System calls; known holds the registers as they are when the instruction *)
(* is recognised                                                            *)

\* Numbers of 2^24 and more are all the same to the recogniser.
NumberIn(known, a, n) ==
  LET w == Read(known, a, n)
  IN  IF IsZero(SubSeq(w, 1, n - 3)) THEN Num(Low(w, 3)) ELSE -1

Exit == <<Stop>>

RecogniseINT(I, known) ==
  IF I.ops[1].v = 128 /\ NumberIn(known, Part(RAX, 4), 4) = 1 THEN Exit ELSE NotRecognised

\* Streams 1, 2 and 3 are the input, the output and the error output.
StreamOf(fd) == IF fd \in {0, 1, 2} THEN fd + 1 ELSE fd

RecogniseWrite(I, known) ==
  LET ptr == TMP  end == TMP + 8  temp == TMP + 16
  IN  <<RegAsgnReg(8, ptr, RSI), PlusReg(8, end, ptr, RDX), RegAsgnNumber(8, RAX, 0),
        Loop(<<XorReg(8, temp, ptr, end), Branch(8, temp, <<Break>>, << >>),
               RegAsgnDeref(1, temp, ptr),
               StreamWrite(temp, StreamOf(NumberIn(known, RDI, 8)), temp),
               Branch(1, temp, <<Break>>, << >>),
               PlusNumber(8, ptr, ptr, 1), PlusNumber(8, RAX, RAX, 1)>>),
        Havoc(24, TMP), Advance(I)>>

\* The fields of struct stat: offset, width and what the output is said to have.
StatFields ==
  <<<<0, 8, 12>>, <<8, 8, 20>>, <<16, 8, 1>>, <<24, 4, 8592>>, <<28, 4, 1000>>, <<32, 4, 5>>,
    <<36, 4, 0>>, <<40, 8, 34833>>, <<48, 8, 0>>, <<56, 8, 1024>>, <<64, 8, 0>>,
    <<72, 8, 1466780441>>, <<80, 8, 5393800>>, <<88, 8, 1466780441>>, <<96, 8, 5393800>>,
    <<104, 8, 1466779521>>, <<112, 8, 5393800>>, <<120, 8, 0>>, <<128, 8, 0>>, <<136, 8, 0>>>>

Fill[i \in 0..20] ==
  IF i = 0 THEN << >>
  ELSE Fill[i - 1] \o <<PlusNumber(8, TMP, RSI, StatFields[i][1]),
                        DerefInvAsgnNumber(StatFields[i][2], TMP, StatFields[i][3])>>

RecogniseFstat(I, known) ==
  IF NumberIn(known, RDI, 8) = 1
    THEN Fill[Len(StatFields)]
           \o <<RegAsgnNumber(8, RAX, 0), RegAsgnNumber(1, RF, 0), RegAsgnNumber(1, VM, 0),
                Havoc(8, RCX), Havoc(8, R11), Release, Advance(I)>>
  ELSE NotRecognised

ZeroByte(ptr) == <<DerefAsgnNumber(1, ptr, 0), PlusNumber(8, ptr, ptr, 1)>>

\* Private anonymous memory is allocated and filled with zeros.
RecogniseMmap(I, known) ==
  LET end == TMP  ptr == TMP + 8  xor == TMP + 16
  IN  IF NumberIn(known, At64("r10"), 8) # 34 THEN NotRecognised
      ELSE <<MemAlloc(RAX, Part(RDX, 1), RSI, RDI),
             Branch(8, RAX, <<NotReg(8, RAX, RAX), Advance(I)>>,
               <<PlusReg(8, end, RAX, RSI), RegAsgnReg(8, ptr, RAX),
                 Loop(<<XorReg(8, xor, ptr, end), Branch(8, xor, <<Break>>, << >>)>> \o ZeroByte(ptr)),
                 Havoc(24, TMP), Advance(I)>>)>>

RecogniseSYSCALL(I, known) ==
  LET rax == NumberIn(known, RAX, 8)
  IN  CASE rax = 1   -> RecogniseWrite(I, known)
        [] rax = 5   -> RecogniseFstat(I, known)
        [] rax = 9   -> RecogniseMmap(I, known)
        [] rax = 231 -> Exit
        [] OTHER     -> NotRecognised
=============================================================================
