--------------------------- MODULE ArithmeticForms ---------------------------
(***************************************************************************)
(* ArithmeticForms: the components the recogniser builds for arithmetic.   *)
(* Sums and differences are computed with twice the width, in temporaries, *)
(* so that the carry is the lowest bit of the high half of the result.     *)
(***************************************************************************)
EXTENDS Native

\* The temporaries behind the address of an operand in memory: high and low
\* halves of the result and of two arguments, and three bytes.
Frame(at, n) ==
  LET b == IF at < TMP THEN TMP ELSE at + 8
  IN  [n |-> n, resHi |-> b, resLo |-> b + n,
       arg0Hi |-> b + 2 * n, arg0Lo |-> b + 3 * n,
       arg1Hi |-> b + 4 * n, arg1Lo |-> b + 5 * n,
       tmp0 |-> b + 6 * n, tmp1 |-> b + 6 * n + 1, tmp2 |-> b + 6 * n + 2]

\* A slip: the last of them is forgotten.
UsedBytesShort(f) == f.tmp2 - TMP

UsedBytes(f) == f.tmp2 - TMP + 1

\* Bit 7 of a byte, as that of the number of an immediate operand.
SignMask(v) == IF v < 0 THEN 128 ELSE 0

LowestByte(a, n) == a + n - 1

CarryAndParity(f, a) ==
  <<AndNumber(1, CF, LowestByte(f.resHi, f.n), 1), ParityReg(1, PF, LowestByte(a, f.n))>>

\* af, from what is in tmp1 and tmp2.
AdjustFlag(f) ==
  <<PlusReg(1, f.tmp0, f.tmp1, f.tmp2), RShiftNumber(1, f.tmp0, f.tmp0, 4),
    AndNumber(1, AF, f.tmp0, 1)>>

ZeroAndSign(f, a) == <<EqualToZero(f.n, ZF, a), RShiftNumber(1, SF, a, 7)>>

-----------------------------------------------------------------------------
(* INC and DEC *)

RecogniseINC(I) ==
  LET t == I.ops[1]
      b == LowestByte(TMP, t.n)
  IN  IF IsReg(t)
        THEN <<RegAsgnReg(t.n, TMP, t.a), PlusNumber(t.n, t.a, t.a, 1),
               ParityReg(1, PF, LowestByte(t.a, t.n)),
               AndNumber(1, b, b, 15), PlusNumber(1, b, b, 1), RShiftNumber(1, b, b, 4),
               AndNumber(1, AF, b, 1),
               EqualToZero(t.n, ZF, t.a), RShiftNumber(1, SF, t.a, 7),
               NotReg(1, TMP, TMP), AndReg(1, TMP, TMP, t.a), RShiftNumber(1, OF, TMP, 7),
               Havoc(8, TMP), Advance(I)>>
      ELSE NotRecognised

\* The flags of a result at res, the operand was copied to orig.
DecFlags(n, res, orig) ==
  LET b == LowestByte(orig, n)
  IN  <<ParityReg(1, PF, LowestByte(res, n)),
        AndNumber(1, b, b, 15), PlusNumber(1, b, b, 15), RShiftNumber(1, b, b, 4),
        AndNumber(1, AF, b, 1),
        EqualToZero(n, ZF, res), RShiftNumber(1, SF, res, 7),
        NotReg(1, orig + 1, res), AndReg(1, orig, orig, orig + 1), RShiftNumber(1, OF, orig, 7)>>

DecReg(I, t) ==
  <<RegAsgnReg(t.n, TMP, t.a), PlusNumber(t.n, t.a, t.a, -1)>> \o DecFlags(t.n, t.a, TMP)
    \o <<Havoc(8, TMP), Advance(I)>>

DecMem(I, t) ==
  LET adr == AddressCode(t, I.len)
      orig == IF adr.at < TMP THEN TMP ELSE adr.at + 8
      res == orig + t.n
  IN  adr.code
        \o <<RegAsgnDerefInv(t.n, orig, adr.at), RegAsgnReg(t.n, res, orig),
             PlusNumber(t.n, res, res, -1), DerefInvAsgnReg(t.n, adr.at, res)>>
        \o DecFlags(t.n, res, orig) \o <<Havoc(res + 1 - TMP, TMP), Advance(I)>>

RecogniseDEC(I) ==
  LET t == I.ops[1]
  IN  CASE IsReg(t)   -> DecReg(I, t)
        [] IsBased(t) -> DecMem(I, t)
        [] OTHER      -> NotRecognised

-----------------------------------------------------------------------------
(* ADD *)

\* A slip: a carry into the sign is taken for an overflow.
AddOverflowNumberOneSided(f, a, v) ==
  <<NotReg(1, f.tmp0, f.arg0Lo), AndReg(1, f.tmp0, f.tmp0, a), RShiftNumber(1, OF, f.tmp0, 7)>>

\* of, where the second argument is the number v: both arguments have a sign
\* the result at a does not have.
AddOverflowNumber(f, a, v) ==
  <<NotReg(1, f.tmp0, a), AndNumber(1, f.tmp1, f.arg0Lo, SignMask(v)),
    AndReg(1, f.tmp0, f.tmp0, f.tmp1),
    NotReg(1, f.tmp1, f.arg0Lo), AndNumber(1, f.tmp1, f.tmp1, 128 - SignMask(v)),
    AndReg(1, f.tmp1, f.tmp1, a),
    OrReg(1, f.tmp0, f.tmp0, f.tmp1), RShiftNumber(1, OF, f.tmp0, 7)>>

AddOverflow(f, a) ==
  <<NotReg(1, f.tmp0, f.resLo), AndReg(1, f.tmp1, f.arg0Lo, f.arg1Lo),
    AndReg(1, f.tmp0, f.tmp0, f.tmp1),
    NotReg(1, f.tmp1, f.arg0Lo), NotReg(1, f.tmp2, f.arg1Lo), AndReg(1, f.tmp1, f.tmp1, f.tmp2),
    AndReg(1, f.tmp1, f.tmp1, a),
    OrReg(1, f.tmp0, f.tmp0, f.tmp1), RShiftNumber(1, OF, f.tmp0, 7)>>

LowNibbles(f) ==
  <<AndNumber(1, f.tmp1, LowestByte(f.arg0Lo, f.n), 15),
    AndNumber(1, f.tmp2, LowestByte(f.arg1Lo, f.n), 15)>>

LowNibbleAndNumber(f, v) ==
  <<AndNumber(1, f.tmp1, LowestByte(f.arg0Lo, f.n), 15), RegAsgnNumber(1, f.tmp2, v)>>

\* The result is at a.
AddNumberFlags(f, a, v) ==
  CarryAndParity(f, a) \o LowNibbleAndNumber(f, v % 16) \o AdjustFlag(f) \o ZeroAndSign(f, a)
    \o AddOverflowNumber(f, a, v)

AddFlags(f, a) ==
  CarryAndParity(f, a) \o LowNibbles(f) \o AdjustFlag(f) \o ZeroAndSign(f, a) \o AddOverflow(f, a)

AddRegImm(I, t, s) ==
  LET f == Frame(t.a, t.n)
  IN  <<ZeroExtend(f.n, f.arg0Hi, t.a), RegAsgnNumber(f.n, f.arg1Hi, 0),
        RegAsgnNumber(f.n, f.arg1Lo, s.v),
        PlusReg(2 * f.n, f.resHi, f.arg0Hi, f.arg1Hi), RegAsgnReg(f.n, t.a, f.resLo)>>
        \o AddNumberFlags(f, t.a, s.v) \o <<Havoc(UsedBytes(f), f.resHi), Advance(I)>>

AddRegReg(I, t, s) ==
  LET f == Frame(t.a, t.n)
  IN  <<ZeroExtend(f.n, f.arg0Hi, t.a), ZeroExtend(f.n, f.arg1Hi, s.a),
        PlusReg(2 * f.n, f.resHi, f.arg0Hi, f.arg1Hi), RegAsgnReg(f.n, t.a, f.resLo)>>
        \o AddFlags(f, t.a) \o <<Havoc(UsedBytes(f), f.resHi), Advance(I)>>

SumMemImm(f, at, v) ==
  <<RegAsgnNumber(f.n, f.arg0Hi, 0), RegAsgnDerefInv(f.n, f.arg0Lo, at),
    RegAsgnNumber(f.n, f.arg1Hi, 0), RegAsgnNumber(f.n, f.arg1Lo, v),
    PlusReg(2 * f.n, f.resHi, f.arg0Hi, f.arg1Hi)>>

AddMemImm(I, t, s) ==
  LET adr == AddressCode(t, I.len)
      f == Frame(adr.at, t.n)
  IN  adr.code \o SumMemImm(f, adr.at, s.v) \o <<DerefInvAsgnReg(f.n, adr.at, f.resLo)>>
        \o AddNumberFlags(f, f.resLo, s.v) \o <<Havoc(UsedBytes(f), TMP), Advance(I)>>

SumRegMem(f, t, at) ==
  <<ZeroExtend(f.n, f.arg0Hi, t.a), RegAsgnNumber(f.n, f.arg1Hi, 0),
    RegAsgnDerefInv(f.n, f.arg1Lo, at), PlusReg(2 * f.n, f.resHi, f.arg0Hi, f.arg1Hi)>>

AddRegMem(I, t, s) ==
  LET adr == AddressCode(s, I.len)
      f == Frame(adr.at, t.n)
  IN  adr.code \o SumRegMem(f, t, adr.at) \o <<RegAsgnReg(f.n, t.a, f.resLo)>>
        \o AddFlags(f, t.a) \o <<Havoc(UsedBytes(f), f.resHi), Advance(I)>>

RecogniseADD(I) ==
  LET t == I.ops[1]  s == I.ops[2]
  IN  CASE IsReg(t) /\ IsImm(s)   -> AddRegImm(I, t, s)
        [] IsReg(t) /\ IsReg(s)   -> AddRegReg(I, t, s)
        [] IsBased(t) /\ IsImm(s) -> AddMemImm(I, t, s)
        [] IsReg(t) /\ IsBased(s) -> AddRegMem(I, t, s)
        [] OTHER                  -> NotRecognised

-----------------------------------------------------------------------------
(* SUB, and CMP, which only computes the flags *)

\* The negated argument has twice the width, its high half is set.
Negation(f) == <<PlusNumber(2 * f.n, f.arg1Hi, f.arg1Hi, 1)>>

Difference(f) == Negation(f) \o <<PlusReg(2 * f.n, f.resHi, f.arg0Hi, f.arg1Hi)>>

SubOverflowNumber(f, v) ==
  <<NotReg(1, f.tmp0, f.arg0Lo), AndNumber(1, f.tmp0, f.tmp0, SignMask(v)),
    AndReg(1, f.tmp0, f.tmp0, f.resLo),
    AndNumber(1, f.tmp1, f.arg0Lo, 128 - SignMask(v)), NotReg(1, f.tmp2, f.resLo),
    AndReg(1, f.tmp1, f.tmp1, f.tmp2),
    OrReg(1, f.tmp0, f.tmp0, f.tmp1), RShiftNumber(1, OF, f.tmp0, 7)>>

\* By now arg1 is negated, which the formula does not take into account.
SubOverflow(f) ==
  <<NotReg(1, f.tmp0, f.arg0Lo), AndReg(1, f.tmp0, f.tmp0, f.arg1Lo),
    AndReg(1, f.tmp0, f.tmp0, f.resLo),
    NotReg(1, f.tmp2, f.arg1Lo), AndReg(1, f.tmp1, f.arg0Lo, f.tmp2),
    NotReg(1, f.tmp2, f.resLo), AndReg(1, f.tmp1, f.tmp1, f.tmp2),
    OrReg(1, f.tmp0, f.tmp0, f.tmp1), RShiftNumber(1, OF, f.tmp0, 7)>>

\* A slip: the nibble is taken from a temporary that is not set yet.
NegatedNibbleUnset(f) == <<NotReg(1, f.tmp2, f.tmp0), PlusNumber(1, f.tmp2, f.tmp2, 1)>>

NegatedNibble(f) == <<NotReg(1, f.tmp2, f.tmp2), PlusNumber(1, f.tmp2, f.tmp2, 1)>>

SubNumberFlags(f, v) ==
  CarryAndParity(f, f.resLo) \o LowNibbleAndNumber(f, -(v % 16)) \o AdjustFlag(f)
    \o ZeroAndSign(f, f.resLo) \o SubOverflowNumber(f, v)

SubFlags(f) ==
  CarryAndParity(f, f.resLo) \o LowNibbles(f) \o NegatedNibble(f) \o AdjustFlag(f)
    \o ZeroAndSign(f, f.resLo) \o SubOverflow(f)

SubRegImm(I, t, s, flagsOnly) ==
  LET f == Frame(t.a, t.n)
  IN  <<ZeroExtend(f.n, f.arg0Hi, t.a), RegAsgnNumber(f.n, f.arg1Hi, -1),
        RegAsgnNumber(f.n, f.arg1Lo, -s.v - 1)>>
        \o Difference(f) \o When(~flagsOnly, <<RegAsgnReg(f.n, t.a, f.resLo)>>)
        \o SubNumberFlags(f, s.v) \o <<Havoc(UsedBytes(f), f.resHi), Advance(I)>>

SubRegReg(I, t, s, flagsOnly) ==
  LET f == Frame(t.a, t.n)
  IN  <<ZeroExtend(f.n, f.arg0Hi, t.a), RegAsgnNumber(f.n, f.arg1Hi, -1),
        NotReg(f.n, f.arg1Lo, s.a)>>
        \o Difference(f) \o When(~flagsOnly, <<RegAsgnReg(f.n, t.a, f.resLo)>>)
        \o SubFlags(f) \o <<Havoc(UsedBytes(f), f.resHi), Advance(I)>>

DifferenceMemImm(f, at, v) ==
  <<RegAsgnDerefInv(f.n, f.arg0Hi, at), ZeroExtend(f.n, f.arg0Hi, f.arg0Hi),
    RegAsgnNumber(f.n, f.arg1Hi, -1), RegAsgnNumber(f.n, f.arg1Lo, -v - 1)>> \o Difference(f)

SubMemImm(I, t, s, flagsOnly) ==
  LET adr == AddressCode(t, I.len)
      f == Frame(adr.at, t.n)
  IN  adr.code \o DifferenceMemImm(f, adr.at, s.v)
        \o When(~flagsOnly, <<DerefInvAsgnReg(f.n, adr.at, f.resLo)>>)
        \o SubNumberFlags(f, s.v) \o <<Havoc(UsedBytes(f), TMP), Advance(I)>>

\* The argument in memory is turned and sign-extended.
DifferenceRegMem(f, a, at) ==
  <<RegAsgnReg(f.n, f.arg0Hi, a), ZeroExtend(f.n, f.arg0Hi, f.arg0Hi),
    RegAsgnDerefInv(f.n, f.arg1Hi, at), NotReg(f.n, f.arg1Hi, f.arg1Hi),
    SignExtend(f.n, f.arg1Hi, f.arg1Hi)>> \o Difference(f)

SubRegMem(I, t, s, flagsOnly) ==
  LET adr == AddressCode(s, I.len)
      f == Frame(adr.at, s.n)
  IN  adr.code \o DifferenceRegMem(f, t.a, adr.at)
        \o When(~flagsOnly, <<RegAsgnReg(f.n, t.a, f.resLo)>>)
        \o SubFlags(f) \o <<Havoc(UsedBytes(f), f.resHi), Advance(I)>>

DifferenceMemReg(f, at, a) ==
  <<RegAsgnDerefInv(f.n, f.arg0Hi, at), ZeroExtend(f.n, f.arg0Hi, f.arg0Hi),
    RegAsgnNumber(f.n, f.arg1Hi, -1), NotReg(f.n, f.arg1Lo, a)>> \o Difference(f)

SubMemReg(I, t, s, flagsOnly) ==
  LET adr == AddressCode(t, I.len)
      f == Frame(adr.at, t.n)
  IN  adr.code \o DifferenceMemReg(f, adr.at, s.a)
        \o When(~flagsOnly, <<DerefInvAsgnReg(f.n, adr.at, f.resLo)>>)
        \o SubFlags(f) \o <<Havoc(UsedBytes(f), f.resHi), Advance(I)>>

RecogniseSUB(I, flagsOnly) ==
  LET t == I.ops[1]  s == I.ops[2]
  IN  CASE IsReg(t) /\ IsImm(s)   -> SubRegImm(I, t, s, flagsOnly)
        [] IsReg(t) /\ IsReg(s)   -> SubRegReg(I, t, s, flagsOnly)
        [] IsBased(t) /\ IsImm(s) -> SubMemImm(I, t, s, flagsOnly)
        [] IsReg(t) /\ IsBased(s) -> SubRegMem(I, t, s, flagsOnly)
        [] IsBased(t) /\ IsReg(s) -> SubMemReg(I, t, s, flagsOnly)
        [] OTHER                  -> NotRecognised

-----------------------------------------------------------------------------
(* CMPXCHG: al, ax, eax or rax is compared with memory; zf is set at the end *)

Comparand(n) == Part(RAX, n)

CompareExchangeFlags(f) ==
  CarryAndParity(f, f.resLo) \o LowNibbles(f) \o NegatedNibble(f) \o AdjustFlag(f)
    \o <<RShiftNumber(1, SF, f.resLo, 7)>> \o SubOverflow(f)

RecogniseCMPXCHG(I) ==
  LET t == I.ops[1]  s == I.ops[2]
      adr == AddressCode(t, I.len)
      f == Frame(adr.at, s.n)
      equal == <<RegAsgnNumber(1, ZF, 1), DerefInvAsgnReg(f.n, adr.at, s.a)>>
      other == <<RegAsgnNumber(1, ZF, 0), RegAsgnDerefInv(f.n, Comparand(f.n), adr.at)>>
  IN  IF IsBased(t) /\ IsReg(s)
        THEN adr.code \o DifferenceRegMem(f, Comparand(f.n), adr.at) \o CompareExchangeFlags(f)
               \o <<Branch(f.n, f.resLo, equal, other),
                    Havoc(UsedBytes(f), f.resHi), Advance(I)>>
      ELSE NotRecognised

-----------------------------------------------------------------------------
(* NEG and DIV *)

RecogniseNEG(I) ==
  LET t == I.ops[1]
      tmp == TMP + t.n
  IN  IF IsReg(t)
        THEN Chain(<<RegAsgnReg(t.n, TMP, t.a), EqualToZero(t.n, CF, t.a), ClearUpper(t),
                     NotReg(t.n, t.a, t.a), PlusNumber(t.n, t.a, t.a, 1),
                     ParityReg(1, PF, LowestByte(t.a, t.n)),
                     AndNumber(1, tmp, LowestByte(TMP, t.n), 15), NotReg(1, tmp, tmp),
                     PlusNumber(1, tmp, tmp, 1), RShiftNumber(1, tmp, tmp, 4),
                     AndNumber(1, AF, tmp, 1),
                     EqualToZero(t.n, ZF, t.a), RShiftNumber(1, SF, t.a, 7),
                     AndReg(1, tmp, TMP, t.a), RShiftNumber(1, OF, tmp, 7),
                     Havoc(tmp + 1 - TMP, TMP), Advance(I)>>)
      ELSE NotRecognised

\* The dividend: ah:al, dx:ax, edx:eax, rdx:rax.
Dividend(n) ==
  IF n = 1 THEN [hi |-> HighByte(RAX), lo |-> Part(RAX, 1)]
  ELSE [hi |-> Part(RDX, n), lo |-> Part(RAX, n)]

\* The quotient fits if its high half is 0, else the processor is interrupted.
RecogniseDIV(I) ==
  LET t == I.ops[1]
      n == t.n
      arg0 == TMP  arg1 == TMP + 2 * n  res == TMP + 4 * n
      used == IF 6 * n < 8 THEN 8 ELSE 6 * n
  IN  IF IsReg(t)
        THEN <<RegAsgnReg(n, arg0, Dividend(n).hi), RegAsgnReg(n, arg0 + n, Dividend(n).lo),
               RegAsgnNumber(n, arg1, 0), RegAsgnReg(n, arg1 + n, t.a),
               DivideReg(2 * n, res, arg0, arg1),
               Branch(n, res,
                 <<RegAsgnReg(n, Dividend(n).lo, res + n), ModuloReg(2 * n, res, arg0, arg1),
                   RegAsgnReg(n, Dividend(n).hi, res + n), Havoc(6 * n, TMP), Advance(I)>>,
                 <<InterruptGet(8, TMP, 0), RegAsgnReg(8, RIP, TMP), Havoc(used, TMP)>>)>>
      ELSE NotRecognised
=============================================================================
