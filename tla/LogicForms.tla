------------------------------ MODULE LogicForms ------------------------------
(***************************************************************************)
(* LogicForms: the components the recogniser builds for instructions on    *)
(* bits: tests, conjunction and the like, shifts and the search for a bit. *)
(***************************************************************************)
EXTENDS Native

-----------------------------------------------------------------------------
(* TEST *)

TestFlags(n) ==
  <<RShiftNumber(1, SF, TMP, 7), EqualToZero(n, ZF, TMP), ParityReg(1, PF, TMP + n - 1),
    RegAsgnNumber(1, OF, 0), RegAsgnNumber(1, CF, 0), Havoc(1, AF)>>

TestRegReg(I, t, s) ==
  <<AndReg(t.n, TMP, t.a, s.a)>> \o TestFlags(t.n) \o <<Havoc(t.n, TMP), Advance(I)>>

TestRegImm(I, t, s) ==
  <<AndNumber(t.n, TMP, t.a, s.v)>> \o TestFlags(t.n) \o <<Havoc(t.n, TMP), Advance(I)>>

TestMemImm(I, t, s) ==
  LET adr == AddressCode(t, I.len)
      used == IF adr.at < TMP \/ t.n > 8 THEN t.n ELSE 8
  IN  adr.code \o <<RegAsgnDerefInv(t.n, TMP, adr.at), AndNumber(t.n, TMP, TMP, s.v)>>
        \o TestFlags(t.n) \o <<Havoc(used, TMP), Advance(I)>>

RecogniseTEST(I) ==
  LET t == I.ops[1]  s == I.ops[2]
  IN  CASE IsReg(t) /\ IsReg(s) /\ t.n = s.n   -> TestRegReg(I, t, s)
        [] IsReg(t) /\ IsImm(s) /\ t.n = s.n   -> TestRegImm(I, t, s)
        [] IsBased(t) /\ IsImm(s) /\ t.n = s.n -> TestMemImm(I, t, s)
        [] OTHER                               -> NotRecognised

-----------------------------------------------------------------------------
(* PCMPEQB: bytes that differ become 255, then all are turned *)

FillDifferent(a) ==
  [i \in 1..16 |-> Branch(1, a + i - 1, << >>, <<RegAsgnNumber(1, a + i - 1, 255)>>)]

CompareRegReg(I, t, s) ==
  <<XorReg(8, t.a + 8, t.a + 8, s.a + 8), XorReg(8, t.a, t.a, s.a)>> \o FillDifferent(t.a)
    \o <<NotReg(8, t.a + 8, t.a + 8), NotReg(8, t.a, t.a), Advance(I)>>

CompareRegMem(I, t, s) ==
  LET adr == AddressCode(s, I.len)
      low == TMP + 16  high == TMP + 8
  IN  adr.code
        \o <<RegAsgnDerefInv(8, low, adr.at), PlusNumber(8, TMP, adr.at, 8),
             RegAsgnDerefInv(8, high, TMP),
             XorReg(8, t.a + 8, t.a + 8, low), XorReg(8, t.a, t.a, high)>>
        \o FillDifferent(t.a)
        \o <<NotReg(8, t.a + 8, t.a + 8), NotReg(8, t.a, t.a), Havoc(24, TMP), Advance(I)>>

RecognisePCMPEQB(I) ==
  LET t == I.ops[1]  s == I.ops[2]
  IN  CASE IsReg(t) /\ IsReg(s) /\ t.n = 16 /\ s.n = 16 -> CompareRegReg(I, t, s)
        [] IsReg(t) /\ t.n = 16 /\ IsBased(s)           -> CompareRegMem(I, t, s)
        [] OTHER                                        -> NotRecognised

-----------------------------------------------------------------------------
(* AND, OR, XOR: the flags of the n bytes at a *)

LogicFlags(n, a) ==
  <<RegAsgnNumber(1, CF, 0), ParityReg(1, PF, a + n - 1), Havoc(1, AF), EqualToZero(n, ZF, a),
    RShiftNumber(1, SF, a, 7), RegAsgnNumber(1, OF, 0)>>

AndRegImm(I, t, s) ==
  <<AndNumber(t.n, t.a, t.a, s.v)>> \o LogicFlags(t.n, t.a) \o <<Advance(I)>>

RecogniseAND(I) ==
  LET t == I.ops[1]  s == I.ops[2]
  IN  IF IsReg(t) /\ IsImm(s) /\ t.n = s.n THEN AndRegImm(I, t, s) ELSE NotRecognised

OrRegImm(I, t, s) ==
  <<OrNumber(t.n, t.a, t.a, s.v)>> \o LogicFlags(t.n, t.a) \o <<Advance(I)>>

OrRegReg(I, t, s) ==
  <<OrReg(t.n, t.a, t.a, s.a)>> \o LogicFlags(t.n, t.a) \o <<Advance(I)>>

\* What follows the block of the address is inserted behind the entry again,
\* which insert_sequence takes only if nothing is there yet.
OrMemImm(I, t, s) ==
  LET adr == AddressCode(t, I.len)
      arg == IF adr.at < TMP THEN TMP ELSE adr.at + 8
      res == arg + t.n
  IN  IF adr.code # << >> THEN AssertionFails
      ELSE <<RegAsgnDerefInv(t.n, arg, adr.at), OrNumber(t.n, res, arg, s.v),
             DerefInvAsgnReg(t.n, adr.at, res)>>
             \o LogicFlags(t.n, res) \o <<Havoc(res + t.n - TMP, TMP), Advance(I)>>

RecogniseOR(I) ==
  LET t == I.ops[1]  s == I.ops[2]
  IN  CASE IsReg(t) /\ IsImm(s) /\ t.n = s.n   -> OrRegImm(I, t, s)
        [] IsReg(t) /\ IsReg(s) /\ t.n = s.n   -> OrRegReg(I, t, s)
        [] IsBased(t) /\ IsImm(s) /\ t.n = s.n -> OrMemImm(I, t, s)
        [] OTHER                               -> NotRecognised

XorRegReg(I, t, s) ==
  <<XorReg(t.n, t.a, t.a, s.a)>> \o LogicFlags(t.n, t.a) \o <<Advance(I)>>

XorRegSegment(I, t, s) ==
  <<PlusNumber(8, TMP, s.seg, s.disp), RegAsgnDerefInv(t.n, TMP, TMP), XorReg(t.n, t.a, t.a, TMP)>>
    \o LogicFlags(t.n, t.a) \o <<Havoc(8, TMP), Advance(I)>>

RecogniseXOR(I) ==
  LET t == I.ops[1]  s == I.ops[2]
  IN  CASE IsReg(t) /\ IsReg(s) /\ t.n = s.n     -> XorRegReg(I, t, s)
        [] IsReg(t) /\ IsInSegment(s) /\ s.n = 8 -> XorRegSegment(I, t, s)
        [] OTHER                                 -> NotRecognised

RecognisePXOR(I) ==
  LET t == I.ops[1]  s == I.ops[2]
  IN  IF IsReg(t) /\ IsReg(s) /\ t.n = 16 /\ s.n = 16
        THEN <<XorReg(8, t.a, t.a, s.a), XorReg(8, t.a + 8, t.a + 8, s.a + 8), Advance(I)>>
      ELSE NotRecognised

-----------------------------------------------------------------------------
(* Shifts; rex says whether the instruction has a REX prefix *)

Count(I, s) == s.v % (IF I.rex THEN 64 ELSE 32)

\* "1ULL << k", the number of bits taken as the processor takes it.
OneShifted(k) == Tuple([i \in 1..8 |-> IF i = 8 - (k % 64) \div 8 THEN 2^(k % 8) ELSE 0])

\* value_and_size asserts that the number fits the n bytes it is stored in.
MaskFits(k, n) == k % 64 < 8 * n
Mask(k, n) == Low(OneShifted(k), n)

AndWord(n, a0, a1, w) == [AndNumber(n, a0, a1, 0) EXCEPT !.v = w]

ShiftFlags(t) ==
  <<ParityReg(1, PF, t.a + t.n - 1), Havoc(1, AF), RShiftNumber(1, SF, t.a, 7),
    EqualToZero(t.n, ZF, t.a)>>

\* The sign bit is shifted and negated, which fills the bits above it.
SarRegImm(I, t, s) ==
  LET count == Count(I, s)
  IN  <<AndWord(t.n, TMP, t.a, Mask(count - 1, t.n)), EqualToZero(t.n, CF, TMP),
        AndWord(t.n, TMP, t.a, Mask(8 * t.n - 1, t.n)), RShiftNumber(t.n, TMP, TMP, count),
        PlusNumber(t.n, TMP, TMP, -1), NotReg(t.n, TMP, TMP),
        RShiftNumber(t.n, t.a, t.a, count), OrReg(t.n, t.a, t.a, TMP), Havoc(t.n, TMP)>>
        \o ShiftFlags(t)
        \o <<IF count = 1 THEN RegAsgnNumber(1, OF, 0) ELSE Havoc(1, OF), Advance(I)>>

SarRegReg(I, t, s) ==
  LET sign == TMP + s.n
  IN  <<Branch(s.n, s.a, <<Advance(I)>>,
         <<AndNumber(s.n, TMP, s.a, IF I.rex THEN 63 ELSE 31),
           RegAsgnNumber(t.n, sign, 1), LShiftReg(t.n, sign, sign, TMP),
           RShiftNumber(t.n, sign, sign, 1), AndReg(t.n, sign, t.a, sign),
           EqualToZero(t.n, CF, sign),
           AndWord(t.n, sign, t.a, Mask(8 * t.n - 1, t.n)),
           RShiftReg(t.n, sign, sign, TMP), PlusNumber(t.n, sign, sign, -1),
           NotReg(t.n, sign, sign),
           RShiftReg(t.n, t.a, t.a, TMP), OrReg(t.n, t.a, t.a, sign)>>
         \o ShiftFlags(t)
         \o <<PlusNumber(s.n, TMP, TMP, -1),
              Branch(s.n, TMP, <<RegAsgnNumber(1, OF, 0)>>, <<Havoc(1, OF)>>),
              Havoc(s.n + t.n, TMP), Advance(I)>>)>>

RecogniseSAR(I) ==
  LET t == I.ops[1]  s == I.ops[2]
  IN  CASE IsReg(t) /\ IsImm(s) /\ s.v = 0 -> <<Advance(I)>>
        [] IsReg(t) /\ IsImm(s) /\ s.v # 0 ->
             IF MaskFits(Count(I, s) - 1, t.n) THEN SarRegImm(I, t, s) ELSE AssertionFails
        [] IsReg(t) /\ IsReg(s) /\ s.n = 1 -> SarRegReg(I, t, s)
        [] OTHER                           -> NotRecognised

ShrRegImm(I, t, s) ==
  LET count == Count(I, s)
  IN  <<AndWord(t.n, TMP, t.a, Mask(count - 1, t.n)), EqualToZero(t.n, CF, TMP),
        IF count = 1 THEN RShiftNumber(1, OF, t.a, 7) ELSE Havoc(1, OF),
        RShiftNumber(t.n, t.a, t.a, count)>>
        \o ShiftFlags(t) \o <<Havoc(t.n, TMP), Advance(I)>>

RecogniseSHR(I) ==
  LET t == I.ops[1]  s == I.ops[2]
  IN  CASE IsReg(t) /\ IsImm(s) /\ s.v = 0 -> <<Advance(I)>>
        [] IsReg(t) /\ IsImm(s) /\ s.v # 0 ->
             IF MaskFits(Count(I, s) - 1, t.n) THEN ShrRegImm(I, t, s) ELSE AssertionFails
        [] OTHER                           -> NotRecognised

ShlRegImm(I, t, s) ==
  LET count == Count(I, s)
      carry == IF count < 8 * t.n
                 THEN <<AndWord(t.n, TMP, t.a, Mask(8 * t.n - count, t.n)),
                        EqualToZero(t.n, CF, TMP)>>
               ELSE <<Havoc(1, CF)>>
      overflow == IF count = 1 THEN <<RShiftNumber(1, TMP, t.a, 7), XorReg(1, OF, TMP, CF)>>
                  ELSE <<Havoc(1, OF)>>
  IN  carry \o <<LShiftNumber(t.n, t.a, t.a, count)>> \o ShiftFlags(t) \o overflow
        \o <<Havoc(t.n, TMP), Advance(I)>>

RecogniseSHL(I) ==
  LET t == I.ops[1]  s == I.ops[2]
  IN  CASE IsReg(t) /\ IsImm(s) /\ s.v = 0 -> <<Advance(I)>>
        [] IsReg(t) /\ IsImm(s) /\ s.v # 0 ->
             IF Count(I, s) < 8 * t.n => MaskFits(8 * t.n - Count(I, s), t.n)
               THEN ShlRegImm(I, t, s) ELSE AssertionFails
        [] OTHER                           -> NotRecognised

RolRegImm(I, t, s) ==
  LET count == Count(I, s)
      overflow == IF count = 1 THEN <<RShiftNumber(1, TMP, t.a, 7), XorReg(1, OF, CF, TMP)>>
                  ELSE <<Havoc(1, OF)>>
  IN  <<RShiftNumber(t.n, TMP, t.a, 8 * t.n - count), LShiftNumber(t.n, t.a, t.a, count),
        OrReg(t.n, t.a, t.a, TMP), AndNumber(1, CF, t.a + t.n - 1, 1)>>
        \o overflow \o <<Havoc(t.n, TMP), Advance(I)>>

RecogniseROL(I) ==
  LET t == I.ops[1]  s == I.ops[2]
  IN  CASE IsReg(t) /\ IsImm(s) /\ s.v = 0 -> <<Advance(I)>>
        [] IsReg(t) /\ IsImm(s) /\ s.v # 0 ->
             IF Count(I, s) <= 8 * t.n THEN RolRegImm(I, t, s) ELSE AssertionFails
        [] OTHER                           -> NotRecognised

-----------------------------------------------------------------------------
\* BSF counts in its target while it shifts a one through a temporary.
BsfRegReg(I, t, s) ==
  LET bit == TMP + t.n
  IN  <<Branch(s.n, s.a,
          <<RegAsgnNumber(1, ZF, 1), Havoc(t.n, t.a)>>,
          <<RegAsgnNumber(t.n, t.a, 0), RegAsgnNumber(t.n, TMP, 1),
            Loop(<<AndReg(t.n, bit, TMP, s.a),
                   Branch(t.n, bit, << >>, <<Break>>),
                   PlusNumber(t.n, t.a, t.a, 1), LShiftNumber(t.n, TMP, TMP, 1)>>),
            RegAsgnNumber(1, ZF, 0)>>)>>
        \o <<Havoc(1, OF), Havoc(1, SF), Havoc(1, PF), Havoc(1, AF), Havoc(1, CF),
             Havoc(2 * t.n, TMP), Advance(I)>>

RecogniseBSF(I) ==
  LET t == I.ops[1]  s == I.ops[2]
  IN  IF IsReg(t) /\ IsReg(s) THEN BsfRegReg(I, t, s) ELSE NotRecognised
=============================================================================
