-------------------------------- MODULE Prologue --------------------------------
(***************************************************************************)
(* Prologue: the program that lays out memory before a native program      *)
(* begins.  It enters the sections, the stack and the thread-local storage *)
(* into memory, reads the arguments and the environment from the input     *)
(* stream into the REG pool, right behind its temporaries, and puts them   *)
(* on the stack.  Every operator but StartComponent is one component.      *)
(***************************************************************************)
EXTENDS Descriptor

T(k) == TMP + k            \* temporaries, and behind 64 bytes of them
Input == TMP + 64          \* the number of arguments and what follows it
EndOfInput == Input - 16   \* pointers: behind what was read,
EnvOfInput == Input - 8    \* to the number of variables in it,
StringsBegin == Input - 24 \* and to where the strings begin on the stack

LoopWhile(n, a, body) == Loop(Append(body, Branch(n, a, <<Break>>, << >>)))

\* Before each round the registers are compared; the loop ends where they agree.
LoopUntilEqual(n, result, a, b, body) ==
  Loop(<<XorReg(n, result, a, b), Branch(n, result, <<Break>>, << >>)>> \o body)

-----------------------------------------------------------------------------
SectionRights(s) == MemStatic(T(0), s.start, s.read, s.write, Len(s.data))

InitCodeAndDataSections(D) ==
  [i \in 1..Len(D.sections) |-> DerefAddressAsgnData(D.sections[i].start, D.sections[i].data)]

ReadCount ==
  [i \in 1..4 |-> StreamRead(T(7 + i), 1)] \o <<CopyTo(4, T(0), T(8))>>

\* (A slip: the strings are counted from 1 on.)
ReadStringsFromOne ==
  <<RegAsgnNumber(4, T(8), 1),
    LoopUntilEqual(4, T(16), T(8), T(12),
      <<LoopWhile(1, T(16), <<StreamRead(T(16), 1), CopyTo(1, T(0), T(16)), PlusNumber(8, T(0), T(0), 1)>>),
        PlusNumber(4, T(8), T(8), 1)>>)>>

\* The number of strings is in T(12); they are read up to their zeros.
ReadStrings ==
  <<RegAsgnNumber(4, T(8), 0),
    LoopUntilEqual(4, T(16), T(8), T(12),
      <<LoopWhile(1, T(16), <<StreamRead(T(16), 1), CopyTo(1, T(0), T(16)), PlusNumber(8, T(0), T(0), 1)>>),
        PlusNumber(4, T(8), T(8), 1)>>)>>

\* The number that was read is taken back for ReadStrings.
TakeCount == <<CopyFrom(4, T(12), T(0))>>
SkipCount == <<PlusNumber(8, T(0), T(0), 4)>>

ReadInputData ==
  <<RegAsgnNumber(8, T(0), Input), Call(ReadCount)>> \o TakeCount \o SkipCount
    \o <<Call(ReadStrings), RegAsgnReg(8, EnvOfInput, T(0)), Call(ReadCount)>> \o TakeCount
    \o <<TimesNumber(4, T(12), T(12), 2)>> \o SkipCount
    \o <<Call(ReadStrings), RegAsgnReg(8, EndOfInput, T(0))>>

-----------------------------------------------------------------------------
(* The stack: the strings end 4 bytes in front of its end.  In front of    *)
(* them is room for the number of arguments, pointers to all strings, and  *)
(* two zeros behind those, down to a multiple of 16.                       *)

ComputeStackPointers ==
  <<NotReg(8, T(0), EndOfInput),
    PlusNumber(8, StringsBegin, T(0), StackEnd + Input + 5),
    ZeroExtend(4, T(0), Input),
    CopyFrom(4, T(8), EnvOfInput),
    ZeroExtend(4, T(8), T(8)),
    PlusReg(8, T(0), T(0), T(8)),
    TimesNumber(8, T(0), T(0), 8),
    PlusNumber(8, T(0), T(0), 32),
    NotReg(8, T(0), T(0)),
    PlusReg(8, T(0), T(0), StringsBegin),
    PlusNumber(8, RSP, T(0), 1),
    AndNumber(1, RSP + 7, RSP + 7, 240)>>

CopyStringToStack ==
  <<LoopWhile(1, T(32),
      <<CopyFrom(1, T(32), T(16)), DerefAsgnReg(1, T(8), T(32)),
        PlusNumber(8, T(8), T(8), 1), PlusNumber(8, T(16), T(16), 1)>>)>>

\* A pointer to the string that comes next.
PointToString == <<DerefInvAsgnReg(8, T(0), T(8)), PlusNumber(8, T(0), T(0), 8), Call(CopyStringToStack)>>

CopyParamsToStack ==
  <<ZeroExtend(4, T(24), Input), DerefInvAsgnReg(8, RSP, T(24)), RegAsgnNumber(4, T(24), 0),
    LoopUntilEqual(4, T(28), T(24), Input, PointToString \o <<PlusNumber(4, T(24), T(24), 1)>>)>>

\* The zero behind the name becomes "=".  (A slip: the byte behind it does.)
Equals == 61
WriteEqualsBehind == <<DerefAsgnNumber(1, T(8), Equals), PlusNumber(8, T(8), T(8), 1)>>
WriteEquals == <<PlusNumber(8, T(32), T(8), -1), DerefAsgnNumber(1, T(32), Equals)>>

CopyEnvToStack ==
  <<RegAsgnNumber(4, T(24), 0), CopyFrom(4, T(28), T(16)), PlusNumber(8, T(16), T(16), 4),
    LoopUntilEqual(4, T(32), T(24), T(28),
      PointToString \o WriteEquals \o <<Call(CopyStringToStack), PlusNumber(4, T(24), T(24), 1)>>)>>

\* (A slip: the pointer stays.)
ClearByteInPlace == <<DerefAsgnNumber(1, T(0), 0)>>
ClearByte == <<DerefAsgnNumber(1, T(0), 0), PlusNumber(8, T(0), T(0), 1)>>

SetAlignmentZeros == <<LoopUntilEqual(8, T(16), T(0), StringsBegin, ClearByte)>>

\* (A slip: the pointers kept behind the temporaries are forgotten.)
HavocRemainingTemporaries == <<Havoc(40, T(0))>>
HavocRemaining == <<Havoc(64, T(0))>>

HavocUsedTemporaries ==
  <<RegAsgnNumber(8, T(0), Input),
    LoopUntilEqual(8, T(8), T(0), EndOfInput, <<HavocAt(1, T(0)), PlusNumber(8, T(0), T(0), 1)>>)>>
    \o HavocRemaining

Put8Zeros == <<DerefAsgnNumber(8, T(0), 0), PlusNumber(8, T(0), T(0), 8)>>

InitStack ==
  <<Call(ReadInputData), Call(ComputeStackPointers), PlusNumber(8, T(0), RSP, 8),
    RegAsgnReg(8, T(8), StringsBegin), RegAsgnNumber(8, T(16), Input + 4), Call(CopyParamsToStack)>>
    \o Put8Zeros \o <<Call(CopyEnvToStack), XorReg(8, T(16), T(8), EndOfInput)>>
    \o Put8Zeros \o <<Call(SetAlignmentZeros), Call(HavocUsedTemporaries)>>

-----------------------------------------------------------------------------
\* The template with all addresses in it moved to the begin of the heap.
RelocatedTls(D) ==
  LET content == TlsContent(D)
      offsets == TlsRelocations(D)
      Relocated(offset) ==
        Reversed(Sum(Reversed(SubSeq(content, offset + 1, offset + 8)), Word(HeapStart(D), 8)))
      byte(k) == LET within == {o \in offsets : k \in (o + 1)..(o + 8)}
                 IN  IF within = {} THEN content[k]
                     ELSE LET o == CHOOSE o1 \in within : TRUE IN Relocated(o)[k - o]
  IN  Tuple([k \in 1..Len(content) |-> byte(k)])

InitTlsSection(D) == <<DerefAddressAsgnData(HeapStart(D), RelocatedTls(D))>>

StartComponent(D) ==
  [i \in 1..Len(D.sections) |-> SectionRights(D.sections[i])]
    \o <<MemStatic(T(0), StackBegin(D), TRUE, TRUE, StackSize(D)),
         MemStatic(T(0), HeapStart(D), TRUE, TRUE, Len(TlsContent(D))),
         StreamOpen(T(0), 1, 1), StreamOpen(T(0), 2, 2), StreamOpen(T(0), 2, 3), StreamOpen(T(0), 2, 4),
         Call(InitCodeAndDataSections(D)), Call(InitStack), Call(InitTlsSection(D)),
         RegAsgnNumber(8, RDX, 0),
         RegAsgnNumber(8, FS, HeapStart(D) + TcbBegin(D)),
         RegAsgnNumber(8, RIP, D.entry)>>
=============================================================================
