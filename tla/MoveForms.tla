------------------------------ MODULE MoveForms ------------------------------
(***************************************************************************)
(* MoveForms: the components the recogniser builds for instructions that   *)
(* move data, one operator per form, with t the target and s the source.   *)
(***************************************************************************)
EXTENDS Native

RecogniseNOP(I) == <<Advance(I)>>

-----------------------------------------------------------------------------
MoveRegImm(I, t, s) == Chain(<<RegAsgnNumber(t.n, t.a, s.v), ClearUpper(t), Advance(I)>>)

MoveRegReg(I, t, s) == Chain(<<RegAsgnReg(t.n, t.a, s.a), ClearUpper(t), Advance(I)>>)

MoveRegMem(I, t, s) ==
  LET adr == AddressCode(s, I.len)
  IN  adr.code \o <<RegAsgnDerefInv(t.n, t.a, adr.at)>>
        \o When(adr.at >= TMP, <<Havoc(8, adr.at)>>)
        \o Chain(<<ClearUpper(t), Advance(I)>>)

MoveRegSegment(I, t, s) ==
  LET adr == SegmentCode(s)
  IN  adr.code \o <<RegAsgnDerefInv(t.n, t.a, adr.at)>>
        \o When(adr.at >= TMP, <<Havoc(8, adr.at)>>)
        \o Chain(<<ClearUpper(t), Advance(I)>>)

MoveMemReg(I, t, s) ==
  LET adr == AddressCode(t, I.len)
  IN  adr.code \o <<DerefInvAsgnReg(s.n, adr.at, s.a)>>
        \o When(Computed(t), <<Havoc(8, adr.at)>>) \o <<Advance(I)>>

MoveSegmentReg(I, t, s) ==
  LET adr == SegmentCode(t)
  IN  adr.code \o <<DerefInvAsgnReg(s.n, adr.at, s.a)>>
        \o When(t.disp # 0, <<Havoc(8, adr.at)>>) \o <<Advance(I)>>

MoveMemImm(I, t, s) ==
  LET adr == AddressCode(t, I.len)
  IN  adr.code \o <<DerefInvAsgnNumber(t.n, adr.at, s.v)>>
        \o When(Computed(t), <<Havoc(8, adr.at)>>) \o <<Advance(I)>>

RecogniseMOV(I) ==
  LET t == I.ops[1]  s == I.ops[2]
  IN  CASE IsReg(t) /\ IsImm(s)       -> MoveRegImm(I, t, s)
        [] IsReg(t) /\ IsReg(s)       -> MoveRegReg(I, t, s)
        [] IsReg(t) /\ IsBased(s)     -> MoveRegMem(I, t, s)
        [] IsReg(t) /\ IsInSegment(s) -> MoveRegSegment(I, t, s)
        [] IsBased(t) /\ IsReg(s)     -> MoveMemReg(I, t, s)
        [] IsInSegment(t) /\ IsReg(s) -> MoveSegmentReg(I, t, s)
        [] IsBased(t) /\ IsImm(s)     -> MoveMemImm(I, t, s)
        [] OTHER                      -> NotRecognised

-----------------------------------------------------------------------------
RecogniseMOVSXD(I) ==
  LET t == I.ops[1]  s == I.ops[2]
  IN  IF IsReg(t) /\ IsReg(s) THEN <<SignExtend(s.n, t.a, s.a), Advance(I)>>
      ELSE NotRecognised

\* The target is cleared before the source is read.
ExtendRegReg(I, t, s) ==
  <<IF t.n = 4 THEN RegAsgnNumber(8, t.a - 4, 0) ELSE RegAsgnNumber(t.n, t.a, 0),
    RegAsgnReg(s.n, t.a + t.n - s.n, s.a), Advance(I)>>

ExtendRegMem(I, t, s) ==
  LET adr == AddressCode(s, I.len)
  IN  adr.code \o Chain(<<ClearUpper(t), RegAsgnNumber(t.n, t.a, 0),
                          RegAsgnDerefInv(s.n, t.a + t.n - s.n, adr.at),
                          IF adr.at < TMP THEN NoInstruction ELSE Havoc(8, TMP), Advance(I)>>)

RecogniseMOVZX(I) ==
  LET t == I.ops[1]  s == I.ops[2]
  IN  CASE IsReg(t) /\ IsReg(s)   -> ExtendRegReg(I, t, s)
        [] IsReg(t) /\ IsBased(s) -> ExtendRegMem(I, t, s)
        [] OTHER                  -> NotRecognised

\* The low half of a register of 16 bytes lies behind the high one.
RecogniseMOVDQU(I) ==
  LET t == I.ops[1]  s == I.ops[2]
      adr == AddressCode(s, I.len)
  IN  IF IsReg(t) /\ t.n = 16 /\ IsBased(s)
        THEN adr.code \o <<RegAsgnDerefInv(8, t.a + 8, adr.at), PlusNumber(8, TMP, adr.at, 8),
                           RegAsgnDerefInv(8, t.a, TMP), Havoc(8, TMP), Advance(I)>>
      ELSE NotRecognised

-----------------------------------------------------------------------------
RecogniseSETE(I) ==
  LET t == I.ops[1]
  IN  IF IsReg(t) /\ t.n = 1 THEN <<RegAsgnReg(t.n, t.a, ZF), Advance(I)>> ELSE NotRecognised

RecogniseSETNE(I) ==
  LET t == I.ops[1]
  IN  IF IsReg(t) /\ t.n = 1 THEN <<EqualToZero(t.n, t.a, ZF), Advance(I)>> ELSE NotRecognised

\* The signs of the 8 bytes at src are collected in the byte at dst.
SignsMask == <<128, 128, 128, 128, 128, 128, 128, 128>>

SignsInto(dst, src) ==
  LET Gather[i \in 0..7] ==
        IF i = 0 THEN << >>
        ELSE Gather[i - 1]
               \o When(i # 7, <<RShiftNumber(1, TMP + 7 - i, TMP + 7 - i, 7 - i)>>)
               \o <<OrReg(1, dst, dst, TMP + 7 - i)>>
  IN  <<[AndNumber(8, TMP, src, 0) EXCEPT !.v = SignsMask], RShiftNumber(1, dst, TMP + 7, 7)>>
        \o Gather[7]

RecognisePMOVMSKB(I) ==
  LET t == I.ops[1]  s == I.ops[2]
      low == t.a - (8 - t.n)
  IN  IF IsReg(t) /\ IsReg(s) /\ t.n <= 8 /\ s.n = 16
        THEN <<RegAsgnNumber(8, low, 0)>>
               \o SignsInto(low + 6, s.a) \o SignsInto(low + 7, s.a + 8)
               \o <<Havoc(8, TMP), Advance(I)>>
      ELSE NotRecognised

-----------------------------------------------------------------------------
\* The copying side joins the other only if its last instruction is not empty.
RecogniseCMOVE(I) ==
  LET t == I.ops[1]  s == I.ops[2]
  IN  IF IsReg(t) /\ IsReg(s)
        THEN <<Branch(1, ZF, << >>, ChainTo(<<RegAsgnReg(t.n, t.a, s.a), ClearUpper(t)>>)),
               Advance(I)>>
      ELSE NotRecognised

RecogniseCMOVA(I) ==
  LET t == I.ops[1]  s == I.ops[2]
  IN  IF IsReg(t) /\ IsReg(s)
        THEN <<OrReg(1, TMP, CF, ZF),
               Branch(1, TMP, ChainTo(<<ClearUpper(t), RegAsgnReg(t.n, t.a, s.a)>>), << >>),
               Havoc(1, TMP), Advance(I)>>
      ELSE NotRecognised

RecogniseLEA(I) ==
  LET t == I.ops[1]  s == I.ops[2]
      adr == AddressCode(s, I.len)
  IN  IF ~(IsReg(t) /\ IsBased(s)) THEN NotRecognised
      ELSE IF t.n # 8 THEN AssertionFails
      ELSE adr.code \o <<RegAsgnReg(t.n, t.a, adr.at)>>
             \o When(Computed(s), <<Havoc(8, adr.at)>>) \o <<Advance(I)>>
=============================================================================
