---------------------------- MODULE MCNativeExecution ----------------------------
EXTENDS NativeExecution

MCPage == 16
MCStackEnd == 65536
MCStackDefault == 128
MCTcbSize == 32
MCReserve == 8
MCLibraryBase == 40960
MCAllocated == 0

-----------------------------------------------------------------------------
\* The program takes its arguments from the stack, measures the first of them,
\* writes it to the output, and exits.
Entry == 4096
Ins(id, ops) == [id |-> id, ops |-> ops, len |-> 4, rex |-> FALSE]
Number(v) == Immediate(v, 8)
R(a) == Register(a, 8)
SetNumber(a, v) == [Ins("mov", <<R(a), Number(v)>>) EXCEPT !.rex = TRUE]

Program ==
  <<Ins("pop", <<R(RSI)>>),
    Ins("mov", <<R(RDX), R(RSP)>>),
    Ins("mov", <<R(RDI), Memory(8, RDX, None, 1, 0)>>),
    SetNumber(RCX, 0),
    Ins("cmp", <<Memory(1, RDI, RCX, 1, 0), Immediate(0, 1)>>),
    Ins("je", <<Number(12)>>),
    Ins("inc", <<R(RCX)>>),
    Ins("jmp", <<Number(-12)>>),
    Ins("bsf", <<R(RBX), R(RCX)>>),
    Ins("mov", <<R(RBP), InSegment(8, FS, 8)>>),
    Ins("push", <<R(RBP)>>),
    Ins("mov", <<R(RSI), R(RDI)>>),
    SetNumber(RDI, 1),
    Ins("mov", <<R(RDX), R(RCX)>>),
    SetNumber(RAX, 1),
    Ins("syscall", << >>),
    SetNumber(RAX, 231),
    Ins("syscall", << >>)>>

MCText == [a \in {Entry + 4 * (i - 1) : i \in 1..Len(Program)} |-> Program[(a - Entry) \div 4 + 1]]

-----------------------------------------------------------------------------
\* Bytes that tell where they come from.
Content(k, size) == [i \in 1..size |-> (16 * k + i) % 256]
Segment(start, content, size, flags, align) ==
  [start |-> start, content |-> content, size |-> size, flags |-> flags, align |-> align]

None16 == [start |-> 0, count |-> 0]
Relocations(rs) == [wellFormed |-> TRUE, relocations |-> rs]
Relocation(type, offset, symbol, addend) ==
  [type |-> type, offset |-> offset, symbol |-> symbol, addend |-> addend]
Symbol(id, type, value) == [id |-> id, bind |-> "global", type |-> type, value |-> value]
Null == [id |-> "", bind |-> "local", type |-> "UNKNOWN", value |-> 0]
NoHash == [kind |-> "none"]

\* One bucket, and one chain of all symbols from a number on.
Gnu(base, n) ==
  [kind |-> "gnu", base |-> base, buckets |-> IF n = 0 THEN <<0>> ELSE <<0, base>>,
   chains |-> [i \in 1..n |-> i = n]]

\* The strings lie in the first segment.
Elf(type, segments) ==
  [wellFormed |-> TRUE, type |-> type, segments |-> segments, entry |-> segments[1].start,
   strings |-> [start |-> segments[1].start, size |-> 1], stringsFollow |-> TRUE, needed |-> << >>,
   pltgot |-> segments[1].start, preinits |-> None16, init |-> 0, inits |-> None16, fini |-> 0,
   finis |-> None16, hash |-> NoHash, symbols |-> << >>, tls |-> NoTls,
   got |-> Relocations(<< >>), plt |-> Relocations(<< >>)]

\* A file with symbols, those from base on are in its hash table; the files it
\* needs, and its relocations.
Linked3(file, base, symbols, needed, relocations) ==
  [file EXCEPT !.symbols = <<Null>> \o symbols, !.hash = Gnu(base, Len(symbols) + 1 - base),
               !.needed = needed, !.got = Relocations(relocations)]

Tls(start, image, end, align, static) ==
  [start |-> start, image |-> image, end |-> end, align |-> align, static |-> static]

\* The data of the executable lie across two pages.
Code == Segment(4096, Content(1, 8), 8, {"r", "x"}, 16)
Data == Segment(4400, Content(2, 16), 20, {"r", "w"}, 16)
Executable == Elf("executable", <<Code, Data>>)
LibraryCode(k) == Segment(0, Content(k, 8), 8, {"r", "x"}, 16)
LibraryData(k, start) == Segment(start, Content(k, 20), 24, {"r", "w"}, 16)
Library(k) == Elf("library", <<LibraryCode(k), LibraryData(k + 1, 24)>>)

System(disk, ignored) == [disk |-> disk, root |-> "program", ignored |-> ignored]
Alone(file) == System("program" :> file, {})

Static == Alone([Executable EXCEPT !.fini = 4100, !.init = 4098])
StaticTls == Alone([Executable EXCEPT !.tls = Tls(4402, 4405, 4407, 4, TRUE)])

\* Modules with storage of both schemes and without; the data of one are cut in
\* front of its global offset table.
Mixed ==
  System("program" :> [Linked3(Executable, 2, <<Symbol("f", "FUNCTION", 0), Symbol("x", "DATA", 4400)>>,
                               <<"a", "b", "c">>,
                               <<Relocation("GLOB_DAT", 4400, 1, 0), Relocation("TPOFF64", 4408, 0, 1)>>)
                       EXCEPT !.tls = Tls(4416, 4417, 4419, 4, TRUE)]
         @@ "a" :> [Linked3(Library(3), 1, <<Symbol("f", "FUNCTION", 2), Symbol("x", "DATA", 26)>>, << >>,
                            <<Relocation("DTPMOD64", 32, 0, 0), Relocation("RELATIVE", 40, 0, 6)>>)
                    EXCEPT !.tls = Tls(24, 27, 27, 8, FALSE), !.pltgot = 30]
         @@ "b" :> Library(5)
         @@ "c" :> [Linked3(Library(7), 2, <<Symbol("x", "DATA", 0), Symbol("g", "FUNCTION", 4)>>, <<"a">>,
                            <<Relocation("64", 24, 1, 3), Relocation("DTPMOD64", 32, 0, 0)>>)
                    EXCEPT !.tls = Tls(40, 42, 42, 1, TRUE)], {})

\* Files that need each other, and each other's symbols.
Cyclic ==
  System("program" :> Linked3(Executable, 3, <<Symbol("f", "FUNCTION", 0), Symbol("g", "FUNCTION", 0)>>,
                              <<"a", "b">>,
                              <<Relocation("JUMP_SLOT", 4400, 1, 0), Relocation("JUMP_SLOT", 4408, 2, 0)>>)
         @@ "a" :> Linked3(Library(3), 2, <<Symbol("g", "FUNCTION", 0), Symbol("f", "FUNCTION", 3)>>, <<"b">>,
                           <<Relocation("GLOB_DAT", 24, 1, 0)>>)
         @@ "b" :> Linked3(Library(5), 2, <<Symbol("f", "FUNCTION", 0), Symbol("g", "FUNCTION", 5)>>, <<"a">>,
                           <<Relocation("GLOB_DAT", 24, 1, 0)>>), {})

\* Files that are not there or are ignored; one needs what comes later; some
\* relocations do not fit into sections, or are not implemented.
Lacking ==
  System("program" :> Linked3(Executable, 2, <<Symbol("h", "UNKNOWN", 0), Symbol("x", "DATA", 4402)>>,
                              <<"a", "gone", "left", "b">>,
                              <<Relocation("GLOB_DAT", 4400, 1, 0), Relocation("COPY", 4402, 2, 0),
                                Relocation("PC32", 4408, 2, 0)>>)
         @@ "a" :> [Linked3(Library(3), 2, <<Symbol("g", "FUNCTION", 0), Symbol("x", "DATA", 28)>>, << >>,
                            <<Relocation("GLOB_DAT", 24, 1, 0), Relocation("RELATIVE", 44, 0, 1)>>)
                    EXCEPT !.pltgot = 36]
         @@ "left" :> Library(7)
         @@ "b" :> Linked3(Library(5), 1, <<Symbol("g", "FUNCTION", 5)>>, << >>, << >>), {"left"})

\* Libraries with gaps between their segments, and greater alignments.
Gaps ==
  LET Spread(k, align, start) ==
        Elf("library", <<Segment(4, Content(k, 8), 8, {"r", "x"}, align),
                         LibraryData(k + 1, start) @@ [align |-> align]>>)
      Wide(k, start) == [Spread(k, 64, start) EXCEPT !.segments[2].align = 64]
  IN  System("program" :> [Executable EXCEPT !.needed = <<"a", "b", "c">>]
             @@ "a" :> Wide(3, 72) @@ "b" :> Wide(5, 40) @@ "c" :> Spread(7, 16, 200), {})

\* A root file that can be anywhere, with functions of its own.
Pie ==
  Alone([Elf("library", <<LibraryCode(3), LibraryData(4, 24)>>)
         EXCEPT !.segments[2].content = Word(0, 16) \o <<3, 0, 0, 0, 0, 0, 0, 0>>, !.entry = 2,
                !.inits = [start |-> 40, count |-> 1], !.init = 1])

\* A table of the ELF specification lists what is not defined, too.
Sysv ==
  System("program" :> [Linked3(Executable, 2, <<Symbol("f", "FUNCTION", 0)>>, <<"a">>,
                               <<Relocation("JUMP_SLOT", 4400, 1, 0)>>)
                       EXCEPT !.hash = [kind |-> "elf", buckets |-> <<1>>, chains |-> <<0, 0>>]]
         @@ "a" :> [Linked3(Library(3), 1, <<Symbol("f", "FUNCTION", 3)>>, << >>, << >>)
                    EXCEPT !.stringsFollow = FALSE], {})

\* The heap ends in front of the library.
NoRoom ==
  System("program" :> [Elf("executable", <<Code, Segment(40900, Content(2, 16), 16, {"r", "w"}, 4)>>)
                       EXCEPT !.needed = <<"a">>] @@ "a" :> Library(3), {})

Runnable == {Static, StaticTls, Mixed, Cyclic, Lacking, Gaps, Pie, Sysv, NoRoom}

\* What is refused in one way or another.
Refused ==
  {Alone([Executable EXCEPT !.wellFormed = FALSE]),
   Alone([Executable EXCEPT !.segments[2].start = 4100]),
   Alone([Executable EXCEPT !.entry = 4400]),
   Alone([Executable EXCEPT !.needed = <<"a">>, !.strings.size = 0]),
   Alone([Linked3(Executable, 1, <<Symbol("f", "FUNCTION", 4096)>>, << >>, << >>) EXCEPT !.hash = NoHash]),
   Alone([Linked3(Executable, 1, <<Symbol("f", "FUNCTION", 4096)>>, << >>, << >>)
          EXCEPT !.symbols[2].bind = "local"]),
   Alone([Linked3(Executable, 1, <<Symbol("f", "FUNCTION", 4096)>>, << >>, << >>)
          EXCEPT !.hash.buckets = <<1, 1>>]),
   Alone([Executable EXCEPT !.plt = [wellFormed |-> FALSE, relocations |-> <<Relocation("RELATIVE", 4400, 0, 0)>>]]),
   Alone(Linked3(Executable, 2, <<Symbol("f", "FUNCTION", 0)>>, <<"gone">>,
                 <<Relocation("JUMP_SLOT", 4400, 1, 0)>>)),
   Alone([Executable EXCEPT !.init = 4096])}

-----------------------------------------------------------------------------
a == 97  b == 98

Vectors ==
  {[args |-> args, env |-> env] :
     args \in {<< >>, <<<<a>>>>, <<<<a, b>>, << >>>>, <<<<a, a, b>>, <<b>>, <<a>>>>},
     env \in {<< >>, <<<<<<a>>, <<b>>>>>>, <<<<<<b>>, << >>>>, <<<<a, b>>, <<a>>>>>>}}

Launch(system, v, content, input) ==
  [disk |-> system.disk, root |-> system.root, ignored |-> system.ignored,
   args |-> v.args, env |-> v.env, content |-> content, input |-> input]

Whole(v) == Linearise(v.args, v.env)
Untwinned(system, v) == Launch(system, v, Whole(v), << >>)

Typical == [args |-> <<<<a, b>>, << >>>>, env |-> <<<<<<a>>, <<b>>>>>>]
Long == [args |-> [i \in 1..14 |-> <<a>>], env |-> << >>]

\* All vectors; each byte of typical ones, changed; input that is cut or has more;
\* more than fits on the stack.
MCLaunches ==
  {Untwinned(system, v) : system \in {Static, Mixed}, v \in Vectors}
  \cup {Untwinned(system, Typical) : system \in Runnable \cup Refused}
  \cup {Launch(Static, Typical, Whole(Typical), <<"stream", 1, k>>) : k \in 0..(Len(Whole(Typical)) - 1)}
  \cup {Launch(Static, Typical, SubSeq(Whole(Typical), 1, k), << >>) : k \in {0, 3, 6, 12, Len(Whole(Typical)) - 1}}
  \cup {Launch(StaticTls, Typical, Whole(Typical) \o <<1, 2>>, << >>), Untwinned(Static, Long)}
=============================================================================
