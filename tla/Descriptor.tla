------------------------------- MODULE Descriptor -------------------------------
(***************************************************************************)
(* Descriptor: what the descriptor of the platform computes from the       *)
(* loaded files: the data the stack is initialised from, as they lie in    *)
(* the input stream, the begin of the heap, the stack section, and the     *)
(* template of the thread-local storage.                                   *)
(*                                                                         *)
(* An image [files, sections, stackSize, entry] has the loaded files, the  *)
(* first of which is the root file, as records [executable, tls], and the  *)
(* sections [start, data, read, write, file], sorted by address.           *)
(***************************************************************************)
EXTENDS Native

CONSTANTS
  Page,           \* the size of a page of memory,
  StackEnd,       \* the end of the stack section,
  StackDefault,   \* its size if the root file does not tell,
  TcbSize,        \* the size of the thread control block of glibc,
  Reserve         \* the bytes kept free behind the table of modules

ASSUME DescriptorAssumption ==
  /\ {Page, StackDefault, TcbSize} \subseteq Nat \ {0}
  /\ {StackEnd, Reserve} \subseteq Nat
  /\ TcbSize >= 24

SectionEnd(section) == section.start + Len(section.data)

-----------------------------------------------------------------------------
(* The initial data of the stack: a list of arguments, and one of pairs of  *)
(* names and values.  Both begin with their lengths, big endian.            *)

Terminated(string) == string \o <<0>>

Joined(strings) ==
  LET Upto[i \in 0..Len(strings)] == IF i = 0 THEN << >> ELSE Upto[i - 1] \o strings[i]
  IN  Upto[Len(strings)]

Linearise(args, env) ==
  Word(Len(args), 4)
    \o Joined([i \in 1..Len(args) |-> Terminated(args[i])])
    \o Word(Len(env), 4)
    \o Joined([i \in 1..Len(env) |-> Terminated(env[i][1]) \o Terminated(env[i][2])])

-----------------------------------------------------------------------------
(* The heap begins behind the executable, and ends in front of anything else *)

PageUp(a) == IF a % Page = 0 THEN a ELSE a + Page - (a % Page)
PageDown(a) == a - (a % Page)

Sections(D) == {D.sections[i] : i \in 1..Len(D.sections)}

OfExecutable(D) == {s \in Sections(D) : s.file = 1 /\ D.files[1].executable}

\* A slip: the begin of the sections is taken.
HeapStartAtBegin(D) ==
  LET starts == {PageUp(s.start) : s \in OfExecutable(D)}
  IN  IF starts = {} THEN 0 ELSE CHOOSE a \in starts : \A b \in starts : b <= a

HeapStart(D) ==
  LET ends == {PageUp(SectionEnd(s)) : s \in OfExecutable(D)}
  IN  IF ends = {} THEN 0 ELSE CHOOSE a \in ends : \A b \in ends : b <= a

\* Nothing is above the end of the heap but files; the stack is not looked at.
HeapEnd(D) ==
  LET starts == {PageDown(s.start) : s \in Sections(D) \ OfExecutable(D)}
  IN  IF starts = {} THEN StackEnd ELSE CHOOSE a \in starts : \A b \in starts : a <= b

StackSize(D) == IF D.stackSize > 0 THEN D.stackSize ELSE StackDefault

StackBegin(D) == StackEnd - StackSize(D)

\* build_stack_sections assumes that all sections lie in front of the stack.
StackFits(D) == \A s \in Sections(D) : SectionEnd(s) < StackBegin(D)

-----------------------------------------------------------------------------
(* Thread-local storage: a file has none, or begins with an image that lies *)
(* in its sections, followed by zeros: [start, image, end, align, static].  *)

NoTls == << >>

ImageByte(D, l) ==
  LET home == CHOOSE s \in Sections(D) : l \in Block(s.start, Len(s.data))
  IN  home.data[l - home.start + 1]

\* The data of a module, whose size is a multiple of the alignment.
ModuleData(D, m) ==
  LET tls == D.files[m].tls
      size == tls.end - tls.start
      aligned == tls.align * ((size + tls.align - 1) \div tls.align)
  IN  IF tls = NoTls THEN << >>
      ELSE Tuple([i \in 1..(tls.image - tls.start) |-> ImageByte(D, tls.start + i - 1)])
             \o Zeros(aligned - (tls.image - tls.start))

HasData(D, m) == ModuleData(D, m) # << >>

IsStatic(D, m) == HasData(D, m) /\ D.files[m].tls.static

\* The data of all modules up to one, of one of the schemes.
DataUpTo(D, m, static) ==
  Joined([i \in 1..m |-> IF IsStatic(D, i) = static THEN ModuleData(D, i) ELSE << >>])

NumModules(D) == Len(D.files)

TcbBegin(D) == Len(DataUpTo(D, NumModules(D), TRUE))
TcbEnd(D) == TcbBegin(D) + TcbSize
TableSize(D) == 16 * (NumModules(D) + 1)
DynamicBegin(D) == TcbEnd(D) + TableSize(D) + Reserve

OffsetOf(D, m) ==
  IF IsStatic(D, m) THEN Len(DataUpTo(D, m - 1, TRUE))
  ELSE DynamicBegin(D) + Len(DataUpTo(D, m - 1, FALSE))

LittleEndian(v) == Reversed(Word(v, 8))

\* The thread control block begins with its own address, that of the table of
\* modules, and its own again.
Tcb(D) ==
  LittleEndian(TcbBegin(D)) \o LittleEndian(TcbEnd(D)) \o LittleEndian(TcbBegin(D))
    \o Zeros(TcbSize - 24)

\* The entries of the table are an address and whether the scheme is static;
\* there is none for module 0.
TableEntry(D, m) ==
  IF m = 0 THEN Zeros(16)
  ELSE IF ~HasData(D, m) THEN Zeros(16)
  ELSE LittleEndian(OffsetOf(D, m)) \o LittleEndian(IF IsStatic(D, m) THEN 1 ELSE 0)

Table(D) == Joined([i \in 1..(NumModules(D) + 1) |-> TableEntry(D, i - 1)])

TlsContent(D) ==
  DataUpTo(D, NumModules(D), TRUE) \o Tcb(D) \o Table(D) \o Zeros(Reserve)
    \o DataUpTo(D, NumModules(D), FALSE)

\* Where addresses lie in the template, which are relative to the begin of the
\* heap.  (A slip: the entry of a module is taken for that of the one before.)
TlsRelocationsBefore(D) ==
  {TcbBegin(D), TcbBegin(D) + 8, TcbBegin(D) + 16}
    \cup {TcbEnd(D) + 16 * (m - 1) : m \in {k \in 1..NumModules(D) : HasData(D, k)}}

TlsRelocations(D) ==
  {TcbBegin(D), TcbBegin(D) + 8, TcbBegin(D) + 16}
    \cup {TcbEnd(D) + 16 * m : m \in {k \in 1..NumModules(D) : HasData(D, k)}}
=============================================================================
