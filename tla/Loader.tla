--------------------------------- MODULE Loader ---------------------------------
(***************************************************************************)
(* Loader: the loader of 64-bit ELF files.  It enters the segments of the  *)
(* root file as sections, its symbols and its thread-local storage, then   *)
(* loads the files it needs in the same way, and relocates it when these   *)
(* are loaded.  A stack of frames tells which files are being loaded, and  *)
(* which step of load_elf_64bit comes next for each.                       *)
(*                                                                         *)
(* Files are given by what is read from them; headers and tables that are  *)
(* refused as they stand are not wellFormed.                               *)
(***************************************************************************)
EXTENDS Descriptor

CONSTANT LibraryBase   \* where the loader would like libraries to be

ASSUME LoaderAssumption == LibraryBase \in Nat /\ LibraryBase % Page = 0

VARIABLES
  launch,   \* what is launched: the files that can be found (disk), the one to
            \* begin with (root), those that are ignored, and what Launches tells
  load      \* the frames and tables of the loader

-----------------------------------------------------------------------------
(* Files as the ELF specification has them; the loader relies on that *)

IsSegment(segment) ==
  /\ {segment.start, segment.size} \subseteq Nat /\ segment.align \in 1..LibraryBase
  /\ segment.content \in Seq(Byte)
  /\ Len(segment.content) <= segment.size /\ segment.size > 0

\* A hash table speaks of symbols there are, and its last chain ends.
IsHashOf(hash, file) ==
  LET n == Len(file.symbols)
  IN  /\ hash.kind \in {"none", "elf", "gnu"}
      /\ hash.kind = "elf" => Len(hash.chains) \in 0..n
      /\ hash.kind = "gnu" =>
           /\ hash.base \in Nat /\ hash.base + Len(hash.chains) = n
           /\ {Len(hash.chains), Len(hash.buckets)} \subseteq Nat
           /\ Len(hash.chains) > 0 => hash.chains[Len(hash.chains)]
           /\ \A i \in 1..Len(hash.buckets) : hash.buckets[i] \in 0..(n - 1)
           /\ hash.base = n => file.stringsFollow

IsElf(file) ==
  /\ {Len(file.segments), Len(file.symbols), Len(file.needed), file.pltgot} \subseteq Nat
  /\ \A i \in 1..Len(file.segments) : IsSegment(file.segments[i])
  /\ \A i, j \in 1..Len(file.segments) : file.segments[i].start = file.segments[j].start => i = j
  /\ \A i \in 1..Len(file.symbols) : file.symbols[i].value \in Nat
  /\ file.symbols # << >> => Len(file.symbols) > 0 /\ IsHashOf(file.hash, file)
  /\ file.tls # NoTls =>
       file.tls \in [start : Nat, image : Nat, end : Nat, align : Nat \ {0}, static : BOOLEAN]
  /\ \A table \in {file.got, file.plt} :
       /\ Len(table.relocations) \in Nat
       /\ \A i \in 1..Len(table.relocations) :
            table.relocations[i].offset \in Nat /\ table.relocations[i].addend \in Int

-----------------------------------------------------------------------------
\* The file that is being loaded, and how far.
File(f) == launch.disk[f]
TopFrame == load.frames[1]
Loading == load.error = "" /\ load.frames # << >>

NewFrame(f) == [file |-> f, step |-> "header", at |-> 1]

\* Nothing is loaded before the root file.
NothingLoaded(root) ==
  [frames |-> <<NewFrame(root)>>, files |-> << >>, skipped |-> {}, needs |-> {},
   sections |-> << >>, fixes |-> << >>, functions |-> << >>, symbols |-> {}, tls |-> << >>,
   performed |-> << >>, refused |-> {}, entry |-> 0, error |-> ""]

\* (A slip: the symbols of a file are entered after what it needs is loaded.)
StepsWithLateSymbols ==
  <<"header", "segments", "entry", "functions", "tls", "needed", "symbols", "got", "plt", "end">>
Steps ==
  <<"header", "segments", "entry", "functions", "symbols", "tls", "needed", "got", "plt", "end">>

StepBehind(step) == Steps[1 + CHOOSE i \in 1..(Len(Steps) - 1) : Steps[i] = step]

\* Where the topmost frame goes on.
GoOn(l) == [l EXCEPT !.frames[1] = [file |-> @.file, step |-> StepBehind(@.step), at |-> 1]]
Again(l) == [l EXCEPT !.frames[1].at = @ + 1]

At(step) == Loading /\ TopFrame.step = step
Refuse(reason) == load' = [load EXCEPT !.error = reason]
Abort == Refuse("assertion")

IsRoot(f) == f = launch.root
IsLibrary(f) == File(f).type = "library"

-----------------------------------------------------------------------------
(* Sections, by the address they begin at *)

\* The section an address lies in, if there is one.
SectionsAt(sections, a) == {b \in DOMAIN sections : a \in Block(b, Len(sections[b].data))}
IsMapped(sections, a) == SectionsAt(sections, a) # {}

SectionByte(sections, a) ==
  LET b == CHOOSE b1 \in SectionsAt(sections, a) : TRUE IN sections[b].data[a - b + 1]

\* The number at an address, if it can be an address of the model.
ReadAddress(sections, a) ==
  LET w == [k \in 1..8 |-> SectionByte(sections, a + 8 - k)]
  IN  IF (\A k \in 0..7 : IsMapped(sections, a + k)) /\ IsZero(SubSeq(w, 1, 5))
        THEN Num(SubSeq(w, 6, 8))
        ELSE NoAddress

\* The bytes are written up to the first that lies in no section.
Written(sections, a, bytes) ==
  LET written == {i \in 1..Len(bytes) : \A j \in 1..i : IsMapped(sections, a + j - 1)}
      Changed(b) == [k \in 1..Len(sections[b].data) |->
                       IF b + k - a \in written THEN bytes[b + k - a] ELSE sections[b].data[k]]
  IN  [sections |-> [b \in DOMAIN sections |-> [sections[b] EXCEPT !.data = Tuple(Changed(b))]],
       whole |-> written = 1..Len(bytes)]

\* Where a section that begins at an address collides with others.
Collides(sections, section) ==
  \/ section.start \in DOMAIN sections
  \/ \E b \in DOMAIN sections :
       /\ b < section.start + Len(section.data)
       /\ section.start < b + Len(sections[b].data)

-----------------------------------------------------------------------------
(* Addresses: those of a file are fixed up by the section they belong to *)

\* The address an address of a file was moved to.
Fixed(fixes, f, a) ==
  LET below == IF f \in DOMAIN fixes THEN {o \in DOMAIN fixes[f] : o <= a} ELSE {}
  IN  IF below = {} THEN NoAddress
      ELSE LET o == CHOOSE o1 \in below : \A o2 \in below : o2 <= o1 IN fixes[f][o] + (a - o)

FixedHere(a) == Fixed(load.fixes, TopFrame.file, a)

\* Where the first segment of a file went.
BaseOf(fixes, f) ==
  LET o == CHOOSE o1 \in DOMAIN fixes[f] : \A o2 \in DOMAIN fixes[f] : o1 <= o2 IN fixes[f][o]

PreferredAddress(segment) ==
  LET preferred == LibraryBase + segment.start
  IN  IF preferred < segment.align THEN segment.align ELSE preferred

\* The end of all sections, and the page behind it.
EndOf(sections) ==
  IF sections = << >> THEN 0
  ELSE LET last == CHOOSE b \in DOMAIN sections : \A c \in DOMAIN sections : c <= b
       IN  last + Len(sections[last].data)
FreePage(sections) == PageUp(EndOf(sections))

\* Segments go behind all sections, in steps of their alignment.  (A slip: they
\* may go into the page in which these end.)
ChooseAddressInLastPage(segment, sections) ==
  CHOOSE a \in {PreferredAddress(segment) + k * segment.align : k \in 0..FreePage(sections)} :
    /\ EndOf(sections) <= a
    /\ EndOf(sections) > a - segment.align \/ a = PreferredAddress(segment)

ChooseAddressForSection(segment, sections) ==
  CHOOSE a \in {PreferredAddress(segment) + k * segment.align : k \in 0..FreePage(sections)} :
    /\ FreePage(sections) <= a
    /\ FreePage(sections) > a - segment.align \/ a = PreferredAddress(segment)

AddressFor(f, segment) ==
  IF IsRoot(f) /\ ~IsLibrary(f) THEN segment.start ELSE ChooseAddressForSection(segment, load.sections)

\* A segment that can be read and written, with the table of global offsets
\* within, is cut in two; what lies in front of the table becomes read-only.
SplitSectionByPltgot(section, segment, pltgot) ==
  LET cut == pltgot - segment.start
      last == Len(section.data)
  IN  IF cut <= 0 \/ cut >= last - 1 \/ section.execute \/ ~section.read \/ ~section.write
        THEN {section}
        ELSE {[section EXCEPT !.data = SubSeq(@, 1, cut), !.write = FALSE],
              [section EXCEPT !.start = @ + cut, !.data = SubSeq(@, cut + 1, last)]}

-----------------------------------------------------------------------------
(* Reading a file *)

\* The header and the program header table are read.
ReadHeader ==
  LET f == TopFrame.file
  IN  /\ At("header")
      /\ IF ~File(f).wellFormed THEN Refuse("header")
         ELSE load' = GoOn([load EXCEPT !.files = Append(@, f)])

\* How many of the first segments contain the table of strings.
NumStringSections(f, n) ==
  LET s == File(f).strings
      Around(g) == g.start <= s.start /\ s.start + s.size <= g.start + Len(g.content)
  IN  Cardinality({i \in 1..n : Around(File(f).segments[i])})

\* A segment becomes a section, or two; behind its content it is filled with zeros.
EnterSegment ==
  LET f == TopFrame.file
      i == TopFrame.at
      segment == File(f).segments[i]
      start == AddressFor(f, segment)
      whole == [start |-> start, data |-> segment.content \o Zeros(segment.size - Len(segment.content)),
                read |-> "r" \in segment.flags, write |-> "w" \in segment.flags,
                execute |-> "x" \in segment.flags, file |-> f]
      pieces == SplitSectionByPltgot(whole, segment, File(f).pltgot)
  IN  /\ At("segments")
      /\ IF i > Len(File(f).segments) THEN load' = GoOn(load)
         ELSE IF (f \in DOMAIN load.fixes /\ segment.start \in DOMAIN load.fixes[f])
                   \/ start % segment.align # segment.start % segment.align THEN Abort
         ELSE IF \E piece \in pieces : Collides(load.sections, piece) THEN Refuse("overlap")
         ELSE IF NumStringSections(f, i) > 1 THEN Refuse("strings")
         ELSE load' = Again([load EXCEPT
                !.sections = [b \in {p.start : p \in pieces} |-> CHOOSE p \in pieces : p.start = b] @@ @,
                !.fixes = (f :> (segment.start :> start @@ IF f \in DOMAIN @ THEN @[f] ELSE << >>)) @@ @])

IsExecutableAt(a) == \E b \in SectionsAt(load.sections, a) : load.sections[b].execute

\* The entry point of the root file has to be executable.
CheckEntry ==
  LET f == TopFrame.file
      entry == IF IsLibrary(f) THEN FixedHere(File(f).entry) ELSE File(f).entry
      unreadable == File(f).strings.size = 0 \/ NumStringSections(f, Len(File(f).segments)) = 0
  IN  /\ At("entry")
      /\ IF IsRoot(f) /\ entry = NoAddress THEN Abort
         ELSE IF IsRoot(f) /\ ~IsExecutableAt(entry) THEN Refuse("entry")
         ELSE IF File(f).needed # << >> /\ unreadable THEN Refuse("strings")
         ELSE load' = GoOn([load EXCEPT !.entry = IF IsRoot(f) THEN entry ELSE @])

\* The addresses in an array, as they are before relocation.
ArrayOf(array) ==
  [i \in 1..array.count |->
     IF FixedHere(array.start) = NoAddress THEN NoAddress
     ELSE LET a == ReadAddress(load.sections, FixedHere(array.start) + 8 * (i - 1))
          IN  IF a = NoAddress THEN a ELSE FixedHere(a)]

FunctionAt(a) == IF a = 0 THEN << >> ELSE <<FixedHere(a)>>

IsInjectiveSeq(s) == \A i, j \in 1..Len(s) : i # j => s[i] # s[j]

\* The functions that initialise the file, and those that finalise it; the entry
\* point comes last.
EnterFunctions ==
  LET f == TopFrame.file
      inits == (IF IsRoot(f) THEN ArrayOf(File(f).preinits) ELSE << >>)
                 \o FunctionAt(File(f).init) \o ArrayOf(File(f).inits)
                 \o (IF IsRoot(f) THEN <<load.entry>> ELSE << >>)
      finis == FunctionAt(File(f).fini) \o ArrayOf(File(f).finis)
      areFine == /\ IsInjectiveSeq(inits) /\ IsInjectiveSeq(finis)
                 /\ \A i \in 1..Len(inits) : IsExecutableAt(inits[i])
                 /\ \A i \in 1..Len(finis) : IsExecutableAt(finis[i])
  IN  /\ At("functions")
      /\ IF ~areFine THEN Abort
         ELSE load' = GoOn([load EXCEPT !.functions = (f :> [inits |-> inits, finis |-> finis]) @@ @])

-----------------------------------------------------------------------------
(* Symbols *)

\* The number of the last symbol in the chain of a GNU hash table that begins
\* with a symbol: the entries tell whether the chain ends.
ChainEnd(hash, symbol) ==
  CHOOSE e \in symbol..(hash.base + Len(hash.chains) - 1) :
    /\ hash.chains[e - hash.base + 1]
    /\ \A k \in symbol..(e - 1) : ~hash.chains[k - hash.base + 1]

\* The end of the last chain that begins in the first i buckets.
ChainedUpTo(hash, i) ==
  LET used == {j \in 1..i : hash.buckets[j] # 0}
  IN  IF used = {} THEN 0
      ELSE ChainEnd(hash, hash.buckets[CHOOSE j \in used : \A k \in used : k <= j])

BucketsAreFine(hash) ==
  \A i \in 1..Len(hash.buckets) :
    hash.buckets[i] # 0 => hash.base <= hash.buckets[i] /\ ChainedUpTo(hash, i - 1) < hash.buckets[i]

GnuTable(hash) ==
  LET last == ChainedUpTo(hash, Len(hash.buckets))
  IN  [listed |-> UNION {hash.buckets[i]..ChainEnd(hash, hash.buckets[i]) :
                           i \in {j \in 1..Len(hash.buckets) : hash.buckets[j] # 0}},
       range |-> hash.base..(IF last = 0 THEN hash.base ELSE last)]

\* In the table of the ELF specification an entry of a chain is the number of the
\* next symbol, but here the entries are taken one behind the other up to a zero.
ElfTable(hash) ==
  LET Following(s) == {hash.chains[j + 1] : j \in {k \in s..(Len(hash.chains) - 1) :
                                                    \A l \in s..k : hash.chains[l + 1] # 0}}
      heads == {hash.buckets[i] : i \in 1..Len(hash.buckets)} \ {0}
  IN  [listed |-> heads \cup UNION {Following(s) : s \in heads},
       range |-> 1..(Len(hash.chains) - 1)]

\* The numbers of the symbols the hash table lists, and the range that is read,
\* which is the whole table if the strings follow it.
SymbolTable(f) ==
  LET file == File(f)
      table == IF file.hash.kind = "elf" THEN ElfTable(file.hash) ELSE GnuTable(file.hash)
  IN  [table EXCEPT !.range = IF file.stringsFollow THEN 0..(Len(file.symbols) - 1) ELSE @]

\* A symbol is visible if it is listed and of a known type.
EnterSymbols ==
  LET f == TopFrame.file
      symbols == File(f).symbols
      numbers == {i \in SymbolTable(f).range : symbols[i + 1].bind # "local"}
      Entry(i) == [file |-> f, index |-> i, id |-> symbols[i + 1].id, type |-> symbols[i + 1].type,
                   value |-> symbols[i + 1].value,
                   visible |-> i \in SymbolTable(f).listed /\ symbols[i + 1].type # "UNKNOWN"]
  IN  /\ At("symbols")
      /\ IF symbols = << >> THEN load' = GoOn(load)
         ELSE IF File(f).hash.kind = "none" \/ (File(f).hash.kind = "gnu" /\ ~BucketsAreFine(File(f).hash))
           THEN Refuse("hash")
         ELSE IF \E i \in SymbolTable(f).range \ numbers : i \in SymbolTable(f).listed THEN Refuse("bind")
         ELSE IF numbers # {} /\ NumStringSections(f, Len(File(f).segments)) = 0 THEN Abort
         ELSE load' = GoOn([load EXCEPT !.symbols = @ \cup {Entry(i) : i \in numbers}])

\* Thread-local storage has to lie in sections.
EnterTls ==
  LET f == TopFrame.file
      tls == File(f).tls
      start == FixedHere(tls.start)
      moved == [tls EXCEPT !.start = start, !.image = start + (@ - tls.start),
                           !.end = start + (@ - tls.start)]
  IN  /\ At("tls")
      /\ IF tls = NoTls THEN load' = GoOn([load EXCEPT !.tls = (f :> NoTls) @@ @])
         ELSE IF start = NoAddress THEN Abort
         ELSE IF \E a \in moved.start..(moved.end - 1) : ~IsMapped(load.sections, a) THEN Abort
         ELSE load' = GoOn([load EXCEPT !.tls = (f :> moved) @@ @])

-----------------------------------------------------------------------------
(* The files a file needs *)

\* (A slip: files that are being loaded are not taken to be known.)
IsKnownWhenLoaded(f) ==
  /\ \E i \in 1..Len(load.files) : load.files[i] = f
  /\ \A i \in 1..Len(load.frames) : load.frames[i].file # f
IsKnown(f) == \E i \in 1..Len(load.files) : load.files[i] = f

\* The next file is skipped, known already, or loaded first.
LoadNeeded ==
  LET f == TopFrame.file
      needed == File(f).needed
      name == needed[TopFrame.at]
      Depends(l) == Again([l EXCEPT !.needs = @ \cup {<<f, name>>}])
  IN  /\ At("needed")
      /\ IF TopFrame.at > Len(needed) THEN load' = GoOn(load)
         ELSE IF name \in launch.ignored \/ name \notin DOMAIN launch.disk
           THEN load' = Depends([load EXCEPT !.skipped = @ \cup {name}])
         ELSE IF IsKnown(name) THEN load' = Depends(load)
         ELSE load' = [load EXCEPT !.frames = <<NewFrame(name)>> \o @]

-----------------------------------------------------------------------------
(* Relocations [offset, type, symbol, addend] *)

\* A value as it is written, if it is one.
AddressWord(a) == IF a = NoAddress THEN << >> ELSE LittleEndian(a)

\* Where a symbol is: in some other file that has a visible one of its name, else
\* in the file itself.  Nowhere, if it is not found.
DefinitionsOf(f, i) ==
  LET own == {s \in load.symbols : s.file = f /\ s.index = i}
      named == {s \in load.symbols : s.visible /\ \E o \in own : o.id = s.id}
      others == {s \in named : s.file # f}
  IN  IF others # {} THEN others
      ELSE IF named # {} THEN named
      ELSE {s \in own : s.type # "UNKNOWN"}

SymbolAddresses(f, i) == {Fixed(load.fixes, s.file, s.value) : s \in DefinitionsOf(f, i)}

\* Files are numbered as they are opened.
FileNumber(f) == CHOOSE i \in 1..Len(load.files) : load.files[i] = f

\* (A slip: modules are counted from 0.)
ModuleIdFromZero(f) == FileNumber(f) - 1
ModuleId(f) == FileNumber(f)

\* For R_X86_64_TPOFF64 the code adds whether there is a symbol, where the value
\* of the symbol is meant.
OffsetFromThread(f, r) ==
  LET flag == IF \E s \in load.symbols : s.file = f /\ s.index = r.symbol THEN 1 ELSE 0
  IN  flag + r.addend - (load.tls[f].end - load.tls[f].start)

\* The values a relocation may write, none if it is refused: relocations of other
\* types than these are not implemented.
RelocationValues(f, r) ==
  CASE r.type = "64" ->
         {IF a = NoAddress THEN << >> ELSE LittleEndian(a + r.addend) : a \in SymbolAddresses(f, r.symbol)}
    [] r.type \in {"COPY", "GLOB_DAT", "JUMP_SLOT"} -> {AddressWord(a) : a \in SymbolAddresses(f, r.symbol)}
    [] r.type = "RELATIVE" -> {LittleEndian(BaseOf(load.fixes, f) + r.addend)}
    [] r.type = "DTPMOD64" -> {LittleEndian(ModuleId(f))}
    [] r.type = "TPOFF64" /\ load.tls[f] # NoTls -> {LittleEndian(OffsetFromThread(f, r))}
    [] OTHER -> {}

\* A value that does not fit is written as far as it fits, and counts as refused.
\* The first report about a place is kept.
WriteValue(place, value) ==
  IF value = << >> THEN Abort
  ELSE \E written \in {Written(load.sections, place, value)} :
         load' = Again([load EXCEPT
           !.sections = written.sections,
           !.performed = IF written.whole THEN @ @@ (place :> value) ELSE @,
           !.refused = IF written.whole THEN @ ELSE @ \cup {place}])

\* The next relocation of one of the two tables is performed, or refused.
Relocate ==
  LET f == TopFrame.file
      table == IF TopFrame.step = "got" THEN File(f).got ELSE File(f).plt
      r == table.relocations[TopFrame.at]
      place == FixedHere(r.offset)
  IN  /\ At("got") \/ At("plt")
      /\ IF TopFrame.at > Len(table.relocations) THEN load' = GoOn(load)
         ELSE IF ~table.wellFormed THEN Refuse("relocations")
         ELSE IF NoAddress \in {place, FixedHere(File(f).pltgot)} THEN Abort
         ELSE \/ /\ RelocationValues(f, r) = {}
                 /\ load' = Again([load EXCEPT !.refused = @ \cup {place}])
              \/ \E value \in RelocationValues(f, r) : WriteValue(place, value)

\* The file is loaded; that which needs it goes on.
FinishFile == At("end") /\ load' = [load EXCEPT !.frames = Tail(@)]

LoaderStep ==
  \/ ReadHeader \/ EnterSegment \/ CheckEntry \/ EnterFunctions \/ EnterSymbols \/ EnterTls
  \/ LoadNeeded \/ Relocate \/ FinishFile

-----------------------------------------------------------------------------
\* What was loaded.  ELF files do not tell the size of the stack.
LoadedImage ==
  LET starts == DOMAIN load.sections
      Start(i) == CHOOSE b \in starts : Cardinality({c \in starts : c < b}) = i - 1
      Entered(s) == [start |-> s.start, data |-> s.data, read |-> s.read, write |-> s.write,
                     file |-> FileNumber(s.file)]
  IN  [files |-> [i \in 1..Len(load.files) |->
                    [executable |-> ~IsLibrary(load.files[i]), tls |-> load.tls[load.files[i]]]],
       sections |-> [i \in 1..Cardinality(starts) |-> Entered(load.sections[Start(i)])],
       stackSize |-> 0, entry |-> load.entry]

IsLoaded == load.frames = << >> /\ load.error = ""

-----------------------------------------------------------------------------
(* Properties *)

\* Sections do not overlap, ...
SectionsAreApart ==
  \A b, c \in DOMAIN load.sections : b < c => b + Len(load.sections[b].data) <= c

\* ... and hold bytes, also when files were relocated.
SectionsHoldBytes ==
  \A b \in DOMAIN load.sections : \A i \in 1..Len(load.sections[b].data) :
    load.sections[b].data[i] \in Byte

\* Every table speaks of files that are loaded.
TablesAreOfLoadedFiles ==
  /\ \A s \in load.symbols : IsKnown(s.file)
  /\ \A n \in load.needs : IsKnown(n[1]) /\ (IsKnown(n[2]) \/ n[2] \in load.skipped)

\* However the files need each other, no file is loaded a second time.
FilesAreLoadedOnce ==
  /\ IsInjectiveSeq(load.files)
  /\ \A i, j \in 1..Len(load.frames) : i # j => load.frames[i].file # load.frames[j].file

LoadErrors == {"", "header", "overlap", "entry", "strings", "hash", "bind", "relocations", "assertion"}

LoadTypeOK ==
  /\ SectionsAreApart
  /\ SectionsHoldBytes
  /\ TablesAreOfLoadedFiles
  /\ FilesAreLoadedOnce
  /\ load.error \in LoadErrors

\* How far a segment was moved.
Moved(f, i) == load.fixes[f][File(f).segments[i].start] - File(f).segments[i].start

\* Segments that are aligned to pages, as the ABI demands, with no gap between them
\* that has room for the alignment of the second.
IsClose(f, i) ==
  LET segment == File(f).segments[i]
      last == File(f).segments[i - 1]
      lastPage == PageUp(last.start + last.size)
  IN  /\ segment.align = last.align /\ segment.align % Page = 0
      /\ segment.start - segment.align < lastPage /\ lastPage <= segment.start

\* The segments of a file keep their distances, on which its instructions rely.
LibrariesStayInOnePiece ==
  \A f \in DOMAIN load.fixes : \A i \in 2..Len(File(f).segments) :
    File(f).segments[i].start \in DOMAIN load.fixes[f] /\ IsClose(f, i) => Moved(f, i) = Moved(f, i - 1)
=============================================================================
