----------------------------- MODULE NativeExecution -----------------------------
(***************************************************************************)
(* NativeExecution: the loading of a native program, its prologue, and then  *)
(* the program itself, whose instructions are recognised one by one as the *)
(* thread gets to them.                                                    *)
(***************************************************************************)
EXTENDS Loader, Thread, Recogniser, X86, Prologue

CONSTANTS
  Text,      \* the instructions of the program at their addresses
  Launches   \* records: what the loader finds (disk, root, ignored), arguments
             \* and environment (args, env), the content of the input stream, and
             \* the byte of it that differs in the twin (input)

\* There is a root file, and files are such as the ELF specification wants them.
\* The input stream holds bytes, and the twin differs in one of them, if at all.
ASSUME LaunchesAssumption ==
  \A l \in Launches :
    /\ l.root \in DOMAIN l.disk /\ \A f \in DOMAIN l.disk : IsElf(l.disk[f])
    /\ l.content \in Seq(Byte)
    /\ l.input # << >> => \E i \in 1..Len(l.content) : l.input = <<"stream", 1, i - 1>>

VARIABLES
  stage,    \* "loading", "prologue" or "program",
  arch      \* the machine as it was between two native instructions

vars == <<launch, load, stage, arch, threadVars>>

Specified == INSTANCE Processor WITH state <- arch

\* What run puts into the input stream before the first execution.
InputStream(content) ==
  [open |-> FALSE, read |-> TRUE, write |-> FALSE, cursor |-> 0, content |-> content]

FreshMachine(l) ==
  [reg |-> << >>, mem |-> << >>, blocks |-> {}, streams |-> 1 :> InputStream(l.content), error |-> ""]

Init ==
  /\ launch \in Launches
  /\ load = NothingLoaded(launch.root)
  /\ stage = "loading"
  /\ arch = Specified!Off
  /\ Begins("fetch", << >>, FreshMachine(launch), launch.input)

-----------------------------------------------------------------------------
LoadFiles == LoaderStep /\ UNCHANGED <<launch, stage, arch, threadVars>>

\* The stack is put behind the sections, which are assumed to lie in front of it.
BuildPrologue ==
  /\ stage = "loading" /\ IsLoaded
  /\ \E image \in {LoadedImage} :
       IF StackFits(image)
         THEN /\ stage' = "prologue"
              /\ phase' = "run"
              /\ code' = StartComponent(image)
              /\ UNCHANGED <<launch, load, arch, cpu, twin, together, impacts, temps, unset>>
         ELSE Abort /\ UNCHANGED <<launch, stage, arch, threadVars>>

ExecuteNode == ThreadStep /\ UNCHANGED <<launch, load, stage, arch>>

\* The registers behind which the temporaries begin.
Visible(s) == [s EXCEPT !.reg = [l \in {k \in DOMAIN s.reg : k < TMP} |-> s.reg[l]]]

\* The thread of the prologue goes on with its registers in the program.
EnterProgram ==
  /\ stage = "prologue" /\ phase = "done"
  /\ stage' = "program"
  /\ phase' = "fetch"
  /\ arch' = Visible(cpu)
  /\ UNCHANGED <<launch, load, code, cpu, twin, together, impacts, temps, unset>>

\* At an exit of the program the instruction at rip is recognised.
RecogniseNext ==
  /\ stage = "program" /\ phase = "fetch"
  /\ \E at \in {Address(cpu, RIP)} :
       LET Component(s) == IF at \notin DOMAIN Text THEN NotRecognised ELSE Recognise(Text[at], s.reg)
       IN  \E component \in {Component(cpu)} :
             /\ phase' = IF component \in {NotRecognised, AssertionFails} THEN "refused" ELSE "run"
             /\ code' = component
             /\ together' = (together /\ Address(twin, RIP) = at /\ Component(twin) = component)
  /\ UNCHANGED <<launch, load, stage, arch, cpu, twin, impacts, temps, unset>>

\* The thread is at an exit again.
FinishNative ==
  /\ stage = "program" /\ phase = "done"
  /\ phase' = "fetch"
  /\ arch' = Visible(cpu)
  /\ UNCHANGED <<launch, load, stage, code, cpu, twin, together, impacts, temps, unset>>

Next == LoadFiles \/ BuildPrologue \/ ExecuteNode \/ EnterProgram \/ RecogniseNext \/ FinishNative

\* The thread of the program keeps being scheduled.
Spec == Init /\ [][Next]_vars /\ WF_vars(ExecuteNode)

-----------------------------------------------------------------------------
(* Properties *)

\* Everything has its type; memory is only ever written in blocks.
TypeOK ==
  /\ LoadTypeOK
  /\ ThreadTypeOK
  /\ stage \in {"loading", "prologue", "program"}
  /\ stage # "loading" => IsLoaded
  /\ stage # "program" => arch = Specified!Off

\* The execution of a native program is an execution of the processor: every
\* component has the effect of its instruction, one after the other.
ImplementsProcessor == Specified!Spec

Entering == stage = "prologue" /\ phase = "done"

PointerAt(a) == LET w == Reversed(Read(cpu.mem, a, 8))
                IN  IF IsZero(SubSeq(w, 1, 5)) THEN Num(SubSeq(w, 6, 8)) ELSE NoAddress

\* The table of modules behind the thread control block, and what it points to.
ModuleTable == PointerAt(Address(cpu, FS) + 8)
DataOfModule(m) == PointerAt(ModuleTable + 16 * m)

LiesAt(a, bytes) == \A i \in 1..Len(bytes) : ByteAt(cpu.mem, a + i - 1) = bytes[i]

\* Where the program begins, the stack is as the ABI wants it: it is aligned,
\* the number of arguments is on top, behind it lie pointers to the arguments,
\* zero, pointers to the variables "NAME=VALUE", and zeros up to the strings.
InitialStackIsLaidOut ==
  Entering =>
    LET rsp == Address(cpu, RSP)
        n == Len(launch.args)
        Argument(i) == Terminated(launch.args[i])
        Variable(i) == launch.env[i][1] \o <<Equals>> \o Terminated(launch.env[i][2])
        zeros == rsp + 8 * (n + Len(launch.env) + 2)
        strings == CHOOSE a \in zeros..StackEnd :
                     ByteAt(cpu.mem, a) # 0 /\ \A b \in zeros..(a - 1) : ByteAt(cpu.mem, b) = 0
    IN  /\ rsp % 16 = 0
        /\ PointerAt(rsp) = n
        /\ \A i \in 1..n : LiesAt(PointerAt(rsp + 8 * i), Argument(i))
        /\ PointerAt(rsp + 8 * (n + 1)) = 0
        /\ \A i \in 1..Len(launch.env) : LiesAt(PointerAt(rsp + 8 * (n + 1 + i)), Variable(i))
        /\ strings >= zeros + 8

\* fs points to the thread control block, which points to itself and to the
\* table of modules; an entry of that points to the data of its module.
TlsIsLaidOut ==
  Entering =>
    LET fs == Address(cpu, FS)
        D == LoadedImage
    IN  /\ PointerAt(fs) = fs
        /\ PointerAt(fs + 16) = fs
        /\ \A m \in {k \in 1..NumModules(D) : HasData(D, k)} :
             /\ LiesAt(DataOfModule(m), ModuleData(D, m))
             /\ PointerAt(ModuleTable + 16 * m + 8) = IF IsStatic(D, m) THEN 1 ELSE 0

RelocationsOf(f) ==
  {File(f).got.relocations[i] : i \in 1..Len(File(f).got.relocations)}
    \cup {File(f).plt.relocations[i] : i \in 1..Len(File(f).plt.relocations)}

LoadedFiles == {load.files[i] : i \in 1..Len(load.files)}

\* What a file imports from one it needs is at hand when the program begins: the
\* entry for it has the address of a definition in some other file.
ImportsAreBound ==
  Entering =>
    \A f \in LoadedFiles : \A r \in {q \in RelocationsOf(f) : q.type \in {"64", "GLOB_DAT", "JUMP_SLOT"}} :
      LET addend == IF r.type = "64" THEN r.addend ELSE 0
          Defining == {s \in load.symbols : /\ s.visible /\ s.file # f
                                            /\ s.id = File(f).symbols[r.symbol + 1].id}
          IsNeeded(g) == \E i \in 1..Len(File(f).needed) : File(f).needed[i] = g
      IN  (\E s \in Defining : IsNeeded(s.file)) /\ File(f).stringsFollow =>
            \E s \in Defining :
              LiesAt(Fixed(load.fixes, f, r.offset),
                     LittleEndian(Fixed(load.fixes, s.file, s.value) + addend))

\* The numbers the loader gives to modules are those by which the table of
\* modules lists them.
ModulesAreNumbered ==
  Entering =>
    \A f \in LoadedFiles : \A r \in {q \in RelocationsOf(f) : q.type = "DTPMOD64"} :
      HasData(LoadedImage, FileNumber(f)) =>
        LiesAt(DataOfModule(PointerAt(Fixed(load.fixes, f, r.offset))),
               ModuleData(LoadedImage, FileNumber(f)))

\* Sections, stack and thread-local storage are blocks of their own, if there
\* is room for the last between the executable and what else is loaded, and in
\* front of the stack, at which compute_heap_boundary does not look: the prologue
\* does not look at the answers of MEM STATIC.
StaticAreasAreBlocks ==
  LET D == LoadedImage
      areas == {<<s.start, Len(s.data)>> : s \in Sections(D)}
                 \cup {<<StackBegin(D), StackSize(D)>>, <<HeapStart(D), Len(TlsContent(D))>>}
      tlsEnd == HeapStart(D) + Len(TlsContent(D))
  IN  Entering /\ tlsEnd <= HeapEnd(D) /\ tlsEnd <= StackBegin(D) =>
        /\ areas = {<<b.begin, b.size>> : b \in cpu.blocks}
        /\ \A b, c \in cpu.blocks : b # c => Block(b.begin, b.size) \cap Block(c.begin, c.size) = {}

\* The prologue fails only if the input ends early, or the stack is too small.
PrologueFailsForALack ==
  stage = "prologue" /\ phase = "failed" =>
    LET input == Linearise(launch.args, launch.env)
        needed == Len(input) - 4 + 8 * (Len(launch.args) + Len(launch.env)) + 32
    IN  Len(launch.content) < Len(input) \/ needed + 15 > StackSize(LoadedImage)

\* The prologue releases all temporaries, and what it has read behind them.
NothingIsLeftBehind == Entering => temps = {}

\* No component runs forever, the prologue neither.
ComponentsEnd == phase = "run" ~> phase # "run"
=============================================================================
