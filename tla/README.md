# A verification development for Rebours

Rebours recovers programs from binaries: it executes a native program on an
intermediate language, *Microcode*, and recognises more native code whenever the
execution gets to an address it has no Microcode for. This directory holds TLA+
modules translated from the sources, TLC configurations that model-check them on
small instances, and TLAPS proofs.

## Inventory

| component | state | operations | interacts with | what makes it correct |
|---|---|---|---|---|
| `program`: digraph, program components | nodes, edges, adjacency lists, entry, exits; a global id counter | insert/erase nodes and edges, insert_sequence, insert_branching, append by edge, append by merging | built by recogniser and prologue, grown and executed by native_execution | lists mirror the edges; exits are the sinks; ids are unique; merging glues |
| `program`: Microcode instructions | none: a kind and the bytes of its arguments | one constructor per kind | built by recogniser and prologue, taken apart by the interpreter | what is put into the arguments is what is read from them |
| `bitvectors`: satisfiability portfolio | verdict, model, fastest engine (under a mutex); per engine a thread, a process, a pipe | is_satisfiable, get_model_if_satisfiable | solver processes through popen; the (future) input computation of native_execution | verdicts are final; one engine gives the truth, with its own model; calls return; no solver outlives a call |
| `bitvectors`: unique handles, temporary files | the last handle, the set of handles in use | acquire, release | names of the files the solvers read | no handle is held twice |
| `bitvectors`: symbols, expressions, SMT-LIB | an intern table under a mutex; immutable terms | create, save, load | the portfolio | one symbol per name and signature |
| `native_execution`: code recovery | the recovered program, threads, unexplored exits, switches, histories, branchings, executions | recognise and merge, execute a step, add a case, end an execution, search for a goal | calls back the recogniser; edits the program | see the module Recovery |
| `native_execution`: memory pools | pages of content, created when touched; allocated blocks with rights | allocate (static, in the heap), release, load, store, havoc | set up by the prologue, used by the interpreter | blocks do not overlap; a load returns what was stored; rights are respected |
| `native_execution`: streams | contents, cursors | open, read, write, close | the interpreter; the input of the program is a stream | a read returns what was written |
| `native_execution`: interpreter, input impacts | REG, MEM and the input frontier of a thread | one effect per kind of instruction | memory pools, recovery records | effects are those named; impacts name the inputs a value depends on |
| MAL: loader | sections, symbols, relocations and files read so far | load a file and the files it needs, place segments, relocate | the descriptor | sections do not collide; imports are bound; files load once |
| MAL: descriptor | register map; stack, heap and the template of thread-local storage | computed once from the loaded files | prologue, recogniser | areas do not overlap; offsets in the template fit its content |
| MAL: prologue builder | none: builds a program | one component per duty | the interpreter executes it, before the program | the program finds the machine the kernel would leave |
| MAL: recogniser | none between calls: an address in, a component out | one function per native instruction, system calls | Capstone; code recovery | the component does what the processor does, and leaves nothing behind |
| MAL: encoder, reloader | none | one function each, not implemented | - | - |
| tools `ldexe`, `natexe` | none | command lines | wire the parts together | - |

What is hard in this code:

* **Graph surgery.** `program_component` keeps redundant containers by hand, and
  `execute_program` merges components into a graph that threads, histories,
  switches and unexplored exits refer to by node id.
* **Concurrency.** Solver engines race in threads, with processes and pipes
  behind them, a time limit, a mutex, and a buffer that is `static`.
* **Ordering within a step.** An indirect jump erases a node, adds a case, moves
  entries between records and only then advances the thread.
* **Boundaries.** Pages, blocks and the heap have ends that values, requests and
  gaps may cross, touch or miss by one; addresses wrap; flags are computed from
  sums of double width by dozens of hand-written components.
* **Shared scratch space.** All components use the same temporaries, and each has
  to set what it reads and to release what it wrote.
* **Order of loading.** Files need each other, and each is relocated once, with
  the symbols there are by then.
* **Failure and time.** An execution ends by STOP, an invalid access, unknown
  code, or the clock after any step; the search for a next goal then runs on
  whatever records there are.

## Modules

There are four groups: the program under construction, the portfolio, the
recovery, and the execution of native code. In the last one
`NativeExecution` composes all the others: loader, descriptor, prologue,
interpreter and recogniser run there one after the other, as in `natexe`.

| module | models | state and actions |
|---|---|---|
| `Digraph` | `digraph.hpp` | pure operators on a record `[nodes, edges, succ, pred]`; an ASSUMPTION of the code is a `Can...` predicate; the order of adjacency lists, which nothing tells apart, is abstracted |
| `ProgramComponent` | `program.cpp` | pure operators on a digraph with `entry` and `exits`; `Glued` is the reference definition of merging |
| `ProgramConstruction` | every use of `program_component` | `comps`: objects alive; `fresh`: the counter of `generate_next_fresh_node_id`; one action per public method, and destruction |
| `SatAnswer` | what a satisfiability call promises | verdict, model, engine named, returned |
| `SatPortfolio` | `sat_checking.cpp`, the three engines, the asynchronous pipe, the interruption function | `pc`: where each thread is; `proc`, `pipe`: the external process and its output; `buff`: the static buffer; one action per step another thread can see |
| `Recovery` | `execute_program.cpp`, `recovery_properties.cpp`, `run.cpp` and the search for a goal | see below; extends `ProgramComponent`, so that the graph operations are the same ones |
| `PagedMemory` | `execution_properties.cpp`, `execution_properties.hpp` | pure operators: `Chunks` are the iterations of `memory_read` and `memory_write`, `BlockInfo` is `compute_memory_block_info`, `CanComputeInfo` and `CanRead` are the assertions in them |
| `FlatMemory` | what the MEM pool promises | an array of bytes, and blocks that do not overlap |
| `MemoryPool` | the instructions on the MEM pool in `execute_instruction.cpp` | `allocs`, `content`: the pool; `pending`: the sections the prologue has not come to; one action per instruction |
| `Words` | `large_types.cpp`, arithmetic in `execute_instruction.cpp` | words as tuples of bytes, the most significant first; sums, products, quotients, shifts, parity |
| `Microcode` | `instruction.cpp`, `execute_instruction.cpp` | instructions as records; `Execute(I, s)` is what one does with a machine `[reg, mem, blocks, streams, error]`, with its input-output relation |
| `Native` | operands as Capstone gives them, `build_register_maps.cpp`, the engine of the recogniser | registers, addresses, and the shape of components: sequences, branchings, loops |
| `MoveForms`, `LogicForms`, `ArithmeticForms`, `ControlForms` | `recognise_x86_64_Linux.cpp`, the system calls | one operator per form of an instruction: the component the recogniser builds for it |
| `Recogniser` | the dispatch in `recognise_x86_64_Linux.cpp` | which form an instruction has, or that there is none |
| `Thread` | `execution_step`: effects, guards, calls, input impacts | `cpu`, and `twin`, the same machine with one byte of the input changed; `impacts`, `temps` in use, `unset` ones that were read; one action per kind of node |
| `X86`, `Processor` | the processor and the kernel, external: the reference the components are compared with | `Effect(ins, s)`; a machine that executes instruction after instruction |
| `Translation` | one native instruction, recognised and executed by a `Thread` | a test: the instruction and the machine it starts on |
| `Descriptor` | `storage.cpp`, `build_stack_sections.cpp`, `build_tls_template.cpp` | pure operators on the loaded files: heap, stack, the template of thread-local storage |
| `Loader` | `load.cpp`, `load_elf_64bit.cpp`, `load_props_elf.cpp`, the ABI loader of Linux, the sections table | `load`: files, sections, fixes, symbols, needs, relocation reports, and a stack of frames, as loading a file loads the files it needs; one action per stage of `load_elf64` |
| `Prologue` | `builder_x86_64_Linux.cpp` | the components of the prologue, written in the Microcode of `Microcode` |
| `NativeExecution` | `run.cpp`, `perform_single_native_program_execution`, all of the above | `stage`: loading, prologue, program; `arch`: the machine between two native instructions |
| `MC...` | instances for TLC | |
| `ProgramComponentProofs`, `ProgramConstructionProofs` | lemmas on the operators of components; theorems of `ProgramConstruction` | |
| `RecoveryGraphProofs`, `RecoveryProofs` | lemmas on recovered components and their switches; theorems of `Recovery` | |
| `MemoryPoolProofs` | lemmas on pages, chunks and the walk over blocks; theorems of `MemoryPool` | |
| `SatPortfolioProofs` | theorems of `SatPortfolio` | |
| `ThreadProofs`, `NativeExecutionProofs` | lemmas on words, io-relations, single instructions and the steps of the loader; theorems of `Thread` and of `NativeExecution` | |

Definitions whose comment calls them *a slip* are not part of a model: they are
variants of a definition with a plausible mistake, used to see that a property
notices it.

### Recovery

`Begin`/`Start` are `perform_single_native_program_execution` and the beginning of
`execute_program`; the prologue is abstracted to its outcome, one REG pool, which
the code demands. `Recognise`, `Kill` and `Crash` are the three ways in which
asking the recogniser ends: a component merged into the node of the thread, a
result after which the thread is killed, and a result that is not handled.
`Execute`, `ExecuteSwitch`, `ExecuteBranching` and `Fail` are `execution_step` by
the kind of the instruction, with the timeout that may end the execution after
the step. `Done`, `NoGoal` and `NextExecution` are the loop of `run` after an
execution. Abstractions:

* A recovered program has one component and one thread: the recogniser emits
  neither CALL nor THREAD instructions, and the number of final REG pools of the
  prologue must be one.
* Of the REG pool, IP and the temporary a switch compares are kept. Guards on
  other registers may go either way, a memory access may fail or not, an indirect
  jump may go to any address of the image.
* Native instructions are a kind and an offset; their components have the shape
  the recogniser gives them, arithmetic on other registers is one `SET`.
* Histories contain the nodes of the recovered program; in the code the nodes of
  the prologue come first.
* In the code `compute_input_for_reaching_next_goal` and
  `setup_next_execution_properties` report that they are not implemented.
  `MaxExecutions = 1` is the code as it stands; a greater bound lets the loop of
  `run` go on as it is written, with the input found.
* Which exit is chosen first depends on the important code ranges; the model
  chooses any.
* The recovered graph of one execution is a tree: an address is recognised again
  at each visit, as `merge_recovered_traces` does nothing yet.

### SatPortfolio

The bytes in a pipe are pieces: the line with the process id, and the answer. A
read takes any number of the pieces there are. Between the read and the copy
other threads may read into the same buffer: a thread then copies the chunk of
another one, or parts of both, which are torn. What a torn text says is chosen when
it is parsed. If both chunks held an id and a verdict, the verdict may be cut, as
the index behind the one id may be inside the verdict of the other chunk: then it may
be either. In the other cases it is none, or the one both solvers give: what precedes
it is an end of an id, and letters of two words stay at their places. The model
that is recorded is that of the engine whose output was parsed, not of the thread
that parsed it, and may be any if the text is torn. Solvers answer truthfully or not
at all. A thread that throws ends the program.

Reading a chunk into the buffer is one step, although two threads may fill it at
the same time; the copy then sees one of the chunks, or parts of both, which is
what `Copy` allows as well.

### MemoryPool

`Static` and `Initialise` are the instructions the prologue consists of until
`PrologueIsOver`; what it does afterwards are loads and stores like those of the
program. `Alloc`, `Free`, `Load` and `Store` are MEM ALLOC, MEM FREE and the
instructions that dereference a register, also in the variant that turns the
bytes round (INV). Abstractions:

* The contents of the registers the instructions read are chosen; of the REG
  pool only what the last instruction wrote is kept.
* The sections are allocated in any order; the code takes the sections of the
  files first, then the stack, then the thread-local data.
* What is allocated by MEM STATIC is inserted even if the instruction reports 0.
* Ends of blocks are compared without wrapping except where MEM ALLOC adds the
  size to the begin of a gap; no block in a reachable state of the runs wraps.
* Input impacts and the sets of touched addresses do not change the pool.
* The first failed assertion, like the first error, is the end.

### Native code

**Machines.** A pool is a function from the locations touched so far to bytes; a
page that is filled when it is touched first reads as one byte throughout
(`FreshByte`), havocked bytes as another. Addresses are numbers below 2^24 with a
`NoAddress` for the rest: no block of an instance is above.

**Components.** What the recogniser builds is a sequence of instructions,
branchings and loops, in the order in which a thread passes them; the graph they
are kept in is the subject of `ProgramComponent` and `Recovery`. A form is the
concatenation of the same `insert_sequence` calls, in the same order, with the
same temporaries; what `AddressCode` does is shared by all forms with an operand
in memory, as in the code.

**Threads.** `Thread` executes node by node. Next to the machine `cpu` runs a
`twin`, which started with one byte changed, and `impacts` are the locations that
the recorded impact links lead from that byte to. As long as the two are
`together`, that is, as no guard and no address told them apart, a location where
they differ must be among `impacts`. So a missing location in an io-relation, or
one that is deleted when it should be kept, shows as a difference without a link.

**The processor.** `X86` says what an instruction does according to the manual of
the processor, and is independent of the components: one definition of addition
for all widths instead of a component for each. `ImplementsProcessor` says that a
whole program, executed component by component, is an execution of `Processor`.
Where the recogniser departs from it, `Translation` names the form (`Departs`),
the flags (`DisputedFlags`), the upper halves (`DisputedUpper`), or the leaked
temporaries (`Leaks`); the table below says what departs. Everything else is
compared byte by byte.

**The loader.** Files are records: the program headers, the entries of the dynamic
section, the symbols and the relocations, or that one of these tables is
malformed. Loading recurses through `frames`, so that the sections, symbols and
fixes seen by a file that loads in the middle of another are those of the code.
The hash tables are buckets and chains, because which symbols are visible depends
on them. `HeapStart`, the stack, and the template of thread-local storage are
computed from the result, and the prologue is built and executed from that: the
properties of `NativeExecution` about the initial stack and the thread-local
storage hold of the memory as it is when the program starts.


## Runs

| run | shows | bounds |
|---|---|---|
| `construction` | all orders of the operations of `program_component`: lists mirror edges, exits are sinks, nodes are not shared, merging glues, ids are not reused | two objects, node ids up to 3, lists up to 2, 3 edges before an insertion; erasure, re-insertion, loops, merging with loops through the entry all happen with three nodes |
| `portfolio` | `SatAnswer` is implemented: verdict, model and the engine named are written once, together, and are final; an engine asked alone gives the truth, with its own model, and the call returns; no solver outlives a call, unless its id was not read in time | each engine alone, and Boolector with MathSAT5, all truths, with and without a model; two threads suffice for every theft of a chunk |
| `two_engines_stuck` (violation) | with two engines a call may not return | |
| `false_yes` (violation) | with two engines, YES may be the answer to a formula both solvers found unsatisfiable | |
| `recovery` | the properties of `Recovery` over all images of two instructions of eight kinds and a final exit | 20 node ids, 3 executions: enough for a switch with several cases, code recognised behind each, and goals found between |
| `undecodable_bytes` (violation) | bytes that are no instruction lead to `UNREACHABLE()` | |
| `wide_conditional_move` (violation) | CMOVE of 8 bytes never gets ahead | |
| `memory` | the MEM pool implements `FlatMemory`: paging, blank pages and the erasure of pages cannot be observed; blocks do not overlap, `compute_memory_block_info` summarises single addresses, the search for a gap overlooks none | pages of 2 bytes, 14 addresses, values of 3 bytes (they begin anywhere in a page and end in the next but one); code, thread-local data that do not fill a page, and a stack that begins inside one; requests with and without a hint |
| `range_past_block` (violation) | a range that ends behind the last block is "allocated" | |
| `read_past_page` (violation) | a permitted load across the end of a page fails an assertion | |
| `instructions` | the recognised instructions, in each form of their operands, do what the processor does, fail only where it faults, set the temporaries they read and release them, and record the impacts of their inputs; without those that fail an assertion or loop on any operands (MOVSXD, CMPXCHG, SUB and CMP of a register with memory, BSF of a register into itself), and but for the departures listed under Findings | some 6300 tests: all widths, operands at the boundaries of each (0, 1, the greatest and least signed numbers, -1, and some in between), shifts by 0, by one bit up to all bits but one, and around 32 for 8 bytes, all flags set and all clear, places in memory through base, index, scale, displacement, instruction pointer and segment, unreadable and unwritable ones; quick, as the tests are independent |
| `startup` | files are loaded, linked and laid out, the prologue sets up sections, stack and thread-local storage, and the program behaves as on the processor | 64 launches: systems with static and position-independent executables, libraries that need each other, thread-local storage of both schemes, symbols defined twice or later, ten refused for one reason each; arguments and environments that are absent, empty, of several lengths, and cut off in the middle of the input; pages of 16 bytes, so that ends, alignments and gaps fall everywhere |

The bounds of `startup` keep the prologue short: sections have about 20 bytes and
strings up to three, because a byte of the stack costs several instructions. The
loader, the stack and the thread-local storage are computed from sizes only, and
the sizes taken include those that are a multiple of the alignment and those that
are one off.

**Fairness.** Two properties need it. `AloneReturns` and `CallReturns`: the
threads of the engines are scheduled (the operating system runs every thread), the
clock advances, and the shell echoes its process id; nothing forces a solver to
answer. `ComponentsEnd`: the single thread of the program keeps executing, as
`execute_program` does nothing else in its loop. Safety needs no fairness.

**Deadlock** is not checked where the system really stops: a call that returned,
a run that returned, a test that ended, a program that exited or failed, and
bounds that are exhausted.


## Theorems

`ProgramConstructionProofs` proves, for every number of objects, nodes, edges and
every set of instructions, that `TypeOK`, `ListsMirrorEdges`, `ExitsAreSinks`,
`NodesNotShared`, `MergeGlues` are invariants and that `IdsNotReused` holds. The
argument: the inductive invariant says of each component that it is a digraph
whose exits are its sinks, whose entry is one of its nodes and whose nodes have
been given out, and of two components that they are disjoint. Disjointness is
needed for merging to preserve the lists (the union of two digraphs is one only
if they share no node), and that ids are below the counter is needed for fresh
nodes to be new, so none of the parts is inductive alone.
`ProgramComponentProofs` has one lemma per operator: it preserves the
well-formedness of a component and says which nodes it adds. `MergeGlues` follows
from the lemma that merging equals gluing for disjoint well-formed components.
The assumption used is `ConstructionAssumption`: the bounds are naturals.

`MemoryPoolProofs` proves all the runs check of `MemoryPool`, for any page size,
number of addresses, sections, hints, sizes, rights and values: `TypeOK`,
`BlocksDisjoint`, `InfoSummarises`, `RoomIsFound`, and that it implements
`FlatMemory`. The inductive invariant (`Inv`) adds to `BlocksDisjoint` that while
the prologue runs the blocks are sections it has come to (the loader rejects
overlapping ones), and that every size was asked for; `FullInv` adds that no block
is empty and that a section of which the size cannot be requested stays. The
lemmas the theorems rest on:

* The chunks of an access are parts of pages which cover the range
  (`ChunkIsPart`, `ChunksCover`), so `memory_read` and `memory_write` do what they
  would do in an array (`ReadsBytes`, `WritesBytes`), the pages a read creates
  change no byte, and erasing pages leaves the bytes of others (`ErasesBytes`).
* The one predecessor `compute_memory_block_info` looks at is enough, because the
  blocks before it end where it begins at the latest (`NothingWalked`): the walk
  comes by the blocks that have an address in the range (`WalkIsOwners`), and where
  it meets no gap there is none (`NoGapsNoHoles`).
* A gap behind a block is free (`GapIsFree`), and free pages of the heap are behind
  a block, in a gap that holds them (`RoomIsBehindABlock`).
* One lemma for each action of the pool, which names the action of `FlatMemory` it
  maps to (`StaticImplemented` to `StoreImplemented`).

What they assume of the constants, beside `MemoryPoolAssumption`, and why:

| assumption | used for | |
|---|---|---|
| `SizesFit`: the end of the heap plus two blocks and a page is at most 2^64 | all but `TypeOK` | `adr + size <= it->first` and the ends of blocks are computed modulo 2^64. It holds where the heap ends below the libraries, and not for a static executable, whose heap is said to end at 2^64 - 1 (there MEM ALLOC without a hint fails its assumption `end != end()` anyway) |
| `NoEmptyRequest`: no request is for 0 bytes | `InfoSummarises`, `RoomIsFound`, `FlatMemory` | MEM ALLOC does not refuse such a request. `InfoSummarises` and `FlatMemory` fail then: an empty block is come by, but owns no byte, and a second block at its address is not inserted (see the observations). For `RoomIsFound`, TLC finds no violation with 0 among the sizes, but the argument needs blocks that own a byte |
| `HeadStays`: at the begin of the heap is a section of a size that cannot be requested | `RoomIsFound` | the search begins at the first block of the heap and sees no gap before it. The thread-local data are that block; MEM FREE does not tell them from others, but takes sizes rounded up to pages only. If they filled whole pages, the program could release them, and the room at the begin of the heap would be lost |

The instance of the run satisfies the last two; its 14 addresses are fewer than
`SizesFit` asks for, and the properties hold there as well.

`SatPortfolioProofs` proves, for any sets of engines, that `SatPortfolio`
implements `SatAnswer`, that no solver outlives a call (`SolversAreCollected`), and
`TypeOK`. With several engines nothing can be said of whose output a thread has
copied, nor of what it says (the run `false_yes`), and `SatAnswer` promises no truth
then: what is proved is that whatever was read is written once, as a whole, before
the return. With one engine it promises the truth. What is inductive for that is
that every piece in the pipe, in the buffer and in the text is a line of its shell or
the truth (`OutputIsTold`): a torn piece needs a chunk of another engine in the
buffer (`TornTold`), so the verdict at the head of the text is the truth, and the
model the engine's own (`VerdictIsTold`). For `SolversAreCollected`, a thread is
between its start and its end with a process that has ended, or does not know its id
(`Collected`), although the processes are killed by ids that may be another's; and
a call which returned has no thread left (`ReturnedLast`). The assumption is
`PortfolioAssumption`.

`RecoveryProofs` proves, for every program, every bound and every address a thread
may jump to, all properties of `Recovery` a passing run checks. The one assumption
is `RecoveryAssumption`, on the constants. No property is inductive alone; the
inductive invariant comes in seven layers, each proved with the ones before:

| layer | says | and is needed for |
|---|---|---|
| `ShapeInv` | the graph is well-formed, nothing leads to its entry, and of two edges out of a node both are guards; an indirect jump is alone at its head, and until that is a switch, nothing behind it was visited; a switch is a chain of comparisons, each with its two guards, that ends at an exit; histories are walks to where the thread is, and a thread inside a chain is before the case of its IP | `CasesCanBeAdded`, `HistoryIsPath`, `RecoveredIsKept` |
| `RecordsInv` | what is recorded refers to nodes and edges of the program | `TypeOK` |
| `ExitsInv` | each sink is to be explored or behind a STOP, and what is to be explored is a sink, or the thread is there or will be by the case of its IP | `UnexploredAreExits` |
| `BranchesInv` | branchings and visited edges are the choices the histories made | `BranchingsAreRecorded`, and `TracesAreFound`, the first half of `SearchSucceeds` |
| `AddressesInv` | every node has an address, which instructions along the edges change as they change IP, and recognised code leads to nodes with the addresses that follow it | `OneAddressPerNode` |
| `OutcomeInv` | what `run` returned | with all of the above, `DoneMeansRecovered` |
| `SearchInv` | a node other than the entry is behind one made before it; nothing follows a STOP, and nothing else leads where it leads; no history goes, and no exit lies, behind a STOP; a history left a node by its only edge or at a branching, and an execution said to have stopped did so at a STOP | with the first four, `SearchSucceeds` |

That the code behind an indirect jump was not visited before it is a switch is why
the erasure in `add_case_to_switch` takes nothing away that is recorded. That a
thread in a chain is before its own case is why it never stands at the default of
a switch, so that no code is merged into one. The addresses are not in the state:
the layer says that there is a function from nodes to addresses which fits. The
first six layers were checked by TLC, with node ids bounded, before they were
proved.

The search for the next goal (`SearchAlwaysSucceeds`) is a recursive function. What
the proof needs of it (that it is a function at all, stays among the nodes, and
grows) follows from the least number of steps that would be the first to fail. As
many steps back as there are nodes get to the entry, since each step before finds
a node made earlier than all others, so they get to a node that was visited. Take
the first such node on the way back. The execution that visited it did not end
there, or the exit would be behind a STOP, and did not go the way the search came,
or it would have visited a node nearer to the exit; so it chose the other of two
edges. That branching is half visited, and of its two edges the one that was not
visited, which is the goal, is the one the search came back on.

`RecoveryGraphProofs` has the lemmas on components: what the recogniser builds for
each kind of instruction, edge by edge, and what merging that into the program
changes. It has those on switches, too: neither code merged behind the thread nor
a case added to one switch spoils that switch or another.

`ThreadProofs` proves that no data dependence on an input is lost
(`ImpactsCoverDifferences`), whatever program a thread executes, on whatever
machine it begins and whichever byte is the input: one of a pool, one of a stream,
or none. `NativeExecutionProofs` proves the same of whole executions, for any
files, platform and launches: what is loaded, the prologue and every native
instruction that is recognised. The instances check it for the programs the
recogniser builds; the proof goes through every kind of instruction, and shows
that the property is one of the interpreter and its io-relations, which no program
can break as long as it is well-formed.

What is inductive (`TwinFollows`) has two parts:

* `TwinAgrees`: as long as machine and twin are together, they agree but for
  linked locations in both pools and all streams, and have the same blocks
  (`AgreeBut`). That includes locations nobody has touched. The blocks are the
  same because MEM STATIC takes its block from the instruction, so both machines may
  access the same addresses (`AllowedSame`). Blocks that MEM ALLOC enters are not
  in `Microcode`, whose heap gives one answer (`Allocated`): what the theorems do
  not cover is a block whose size or rights depend on the input.
* `MachinesAreSane`: the pools and streams of both hold bytes, which is the theorem
  `PoolsAreAlwaysBytes`. It is needed because addresses are numbers only then, and
  it says that no sum, product, quotient, shift or extension leaves anything wider
  than a byte in its place (`SumIsWord`, `ProductIsWord`, `DivisionIsWord`, ...).
  The operators on words are recursive functions; the proofs unfold them as far as
  the length of the word (`UnfoldingExists`, `StaysIn`).

`execution_step` takes the pairs of an io-relation one after the other and reads
links it may have changed a pair before (`execute_program.cpp:270`), so what
`Linked` returns is described by a run of the pairs (`Takes`): a location keeps its
link while no pair writes it, and what a pair writes is linked if something it
reads is (`LinkedByPair`). From that follows what the five forms of io-relations
tell (`OneToNTells`, `OneToOneTells`, `OneToTwoTells`, `AddressedTells`,
`StreamWriteLinks`), and then one lemma for each group of instructions
(`CopiesFollow` to `StreamWriteFollows`). Three forms are worth a remark.
ZERO EXTEND leaves the zeros out of its io-relation: an old link stays there, which
is more than needed and never less. MEM STATIC lists one byte of eight, with the
same result. A division by zero may happen in the twin alone: the machine goes on
and the twin fails, but then the divisor is linked, and so is all of the result
(`AloneAgrees`).

What they assume:

| assumption | why |
|---|---|
| `BeginsOn`, in `Thread` only | a thread begins on a machine of bytes, and an input is a location. In `NativeExecution` this is proved of the machine an execution begins with (`FreshMachineIsSane`), from `LaunchesAssumption`: an input stream holds bytes |
| `[]NextIsWellFormed` | an instruction a thread gets to has its operands (`IsTyped`), which the constructors in `instruction.cpp` demand by their parameters and assumptions (data are not empty, line 499), and it does not overwrite a byte that it still has to copy (`CopiesInOrder`). The latter is no formality: for REG := REG with the target one to seven bytes behind the source, the second pair reads the location the first has written, and a link is lost or made up. No check in the code excludes it, but nothing the recogniser or the prologue builder creates overlaps like that. `NextIsWellFormed` is a part of `ThreadTypeOK` and so of the `TypeOK` of `NativeExecution`, which the run `startup` checks: it holds at every instruction of the prologues and programs that run executes |

### The loader, and executions as a whole

`NativeExecutionProofs` proves of the loader, for any files, platform and launches,
that its tables are sound (`LoadTypeOK`: sections never overlap and hold bytes,
also those that were cut in two and relocated, symbols and dependences are those
of loaded files, and no file is loaded twice), and `LibrariesStayInOnePiece`. The
code has no step that moves a library: each segment looks for its place on its
own, behind everything there is (`choose_address_for_section`), and only because
of where that is do the segments of a file keep their distances. The invariant
(`LoaderInv`) has these parts:

| part | says | and is needed because |
|---|---|---|
| `FramesStand`, `FilesStand` | a file is entered in the table of files when its header is read, all frames but the topmost wait for a file they need, and no two frames are of one file | files may need each other: a file in a frame is known, so it is not loaded again |
| `AreLaidOut` | sections are records of bytes that lie apart, each in front of the end of all (`EndOf`) | what goes behind `EndOf` collides with nothing, the two parts of a section that is cut lie in its place (`PiecesOfSection`), and relocations only replace bytes (`WrittenKeepsPlaces`) |
| `FixesStand` | a segment of a library went to where it would like to be, or there in steps of its alignment | the remainder of its address is known |
| `LastStands` | while a file is entered, the segment entered last ends where all sections end | the next one looks for its place there: the first address behind that page in steps of its alignment, which for segments as close as the property says is the one with the same distance (`CloseSegmentFollows`) |
| `TablesStand`, `TlsStands` | values of symbols, and the bounds of thread-local storage, are numbers | addresses, and what relocations write (`RelocationWritesWord`), are numbers and words |

Segments that are not close (with a gap between them that has room for their
alignment, or alignments that are no multiples of a page) need not keep their
distance, and the loader does not look whether they do.

`TypesAreCorrectThroughout` puts these theorems and those on threads together: all
of `TypeOK`. For that it adds that memory lies in blocks (`MemoriesInBlocks`:
only stores, data and MEM STATIC touch memory or blocks, `OnlyTheseTouchMemory`),
and that stages follow one another (`StagesStand`: nothing is executed before
all files are loaded, nor recognised before the prologue has ended).

`StaticAreasAreAlwaysBlocks` is about loader and prologue together: when the
program begins, the blocks of memory are the sections of all files, the stack and
the thread-local storage, each whole and apart from the others. Three things make
it true, and are the parts of the proof:

* The areas lie apart (`AreasAreApart`): the loader keeps sections apart
  (`LoaderInv`, which passes to the image in the order of addresses by
  `ImageIs`), they are assumed to lie in front of the stack, and the heap, where
  the thread-local storage goes, begins behind the executable and ends in front of
  what else there is (`HeapLiesBetween`).
* The prologue enters them one by one (`StartEntersAreas`, `AreaIsEntered`). MEM
  STATIC does nothing to the blocks if one begins at that address already, and
  nobody looks at its answer; but areas that lie apart and are not empty begin at
  different addresses (`NextIsEntered`).
* Nothing that is left then enters another one (`AreasStayEntered`). The length
  of that code depends on the files, the arguments and what the loops in it read,
  so the invariant (`PrologueEnters`) does not say where in it the thread is, but
  what the code is put together from: instructions other than MEM STATIC, and
  calls, loops and branches of such code (`Harmless`), where behind all that may
  leave a loop there is the loop's head again (`LeadsOn`). Every step of the thread
  keeps that (`StepLeadsOn`), whatever the values are.

The premise that there is room for the thread-local storage is needed:
`compute_heap_boundary` looks at sections only, so the heap may also run into the
stack (when nothing but the executable is loaded), or into the first library.

What they assume:

| assumption | why |
|---|---|
| `LoaderAssumption` | `LibraryBase`, where libraries would like to be, is at a page: it is `0x7f4000000000` in the code (`ld_linux_x86_64_so_2.cpp:321`), a multiple of the page of 0x1000 bytes |
| `LaunchesAssumption`, with `IsElf` | there is a root file, and files are such as the specification of ELF wants them: segments are not empty and begin at different addresses, their content is no longer than they are, alignments are not 0, those of thread-local storage neither (and those of segments not beyond `LibraryBase`), the hash table speaks of symbols there are and its last chain ends. The loader relies on that without looking: it divides by the alignment, and follows chains until one ends. What it does look at (`wellFormed`, overlaps, entry, strings, relocations) is not assumed |
| `[]NextIsWellFormed`, for `TypeOK` and `StaticAreasAreBlocks` | as above |
| `[]NextStaysInBlocks`, for `TypeOK` | a store does not run over the end of the last block it touches, because the interpreter does not look behind that (finding 5 has the reason). It is a part of `ThreadTypeOK` as well, so the run `startup` checks it. The theorem says that this is the only way to use memory out of blocks |

### What is only model-checked

* That recognised components are well-formed and keep to blocks, and what they
  compute (`EffectIsEquivalent`, `FailsAsProcessor`, `ImplementsProcessor`,
  `TemporariesAreSet`, `TemporariesAreReleased`): the reference compares results of
  recursive functions on all words, which takes induction over data, and the
  components have several hundred forms.
* What the prologue writes (`InitialStackIsLaidOut`, `TlsIsLaidOut`,
  `PrologueFailsForALack`, `NothingIsLeftBehind`, and `ImportsAreBound` and
  `ModulesAreNumbered`, which look at the memory it has set up): these are about
  the values that a program of which the length depends on the files has left in
  the end, so their proofs would be inductions over its instructions. Which blocks
  it leaves is proved.
* Liveness (`AloneReturns`, `CallReturns`, `ComponentsEnd`), which is out of the
  prover's reach in any case.

## Findings

1. The static read buffer lets a call with several engines answer YES for a formula
   that is not satisfiable: the index behind the process id, found in one chunk, is
   applied to another one, and `unsat` is copied from its third letter on.
2. The same buffer lets a call with several engines end the program or hang.
3. Bytes that are no instruction lead the execution into `UNREACHABLE()`.
4. A CMOVE of a register of 8 (or 2) bytes leaves a dangling exit before IP is
   advanced, so it is recognised again behind itself without end.
5. `compute_memory_block_info` answers YES for a range that ends in free memory.
6. `memory_read` fails an assertion for every value that crosses a page.

### Where recognised code departs from the processor

Met while the components were compared with `X86`; the properties of `Translation`
are stated for the rest, and hold there.

| instruction | what its component does |
|---|---|
| MOVSXD, CMPXCHG, SUB and CMP of a register with memory | the assertion in the input-output relation of SIGN EXTEND fails (`execute_instruction.cpp:457`, 115) |
| SUB, CMP with a register or memory as second operand | OF and AF are computed from the operand that was negated already |
| DEC; INC and DEC of one byte; SAR, SHR, SHL, NEG | AF inverted; OF; CF inverted (and OF of SHL) |
| SAR, SHR of less than 8 bytes by a number above their width; SAR, SHR, SHL of less than 8 bytes by a multiple of 32 that is not 0 | the assertion that the mask `1ULL << k` fits the operand fails (`instruction.cpp:234`) |
| SAR, SHR, SHL of 8 bytes by a multiple of 64 that is not 0 | nothing is shifted, but the flags change |
| shifts | any REX prefix selects the mask for the count of 8 bytes |
| 4-byte targets of ADD, AND, OR, XOR, SUB, INC, DEC, BSF and shifts; CMOVE and CMOVA that do not move | the upper half of the register is not cleared |
| MOVZX of a register into one that overlaps it, or through an address that uses it | the target is cleared before it is read |
| CMOVE of 2 or 8 bytes | IP is not advanced where it moves (finding 4) |
| BSF of a register into itself | the loop does not end |
| RET with a number; PUSH of a number, of memory, of the stack pointer; POP of the stack pointer; CALL through an address that uses it | 9 bytes are popped; the bytes pushed are those of the instruction but one, and for memory the number of the register; the new value of the stack pointer is used |
| OR of memory with a number, where the address has to be computed; DIV by zero | an assertion fails; the interpreter refuses the division before the branch that raises the exception, which itself is not implemented |
| MOV to [base+index], LEA of it, DEC and ADD with memory, SUB and CMP with memory | some temporaries are not released |
| write to a descriptor other than 0, 1, 2 | the number is taken for that of a stream, and 3 is that of the error output |

### Observed while modelling, without a property

* MathSAT5 names Z3 as the fastest respondent of `is_satisfiable`
  (`sat_engine_mathsat5.cpp:68`). With several engines the model of a call may be that
  of another engine than the one named, also in `get_model_if_satisfiable`: the text
  parsed may be a chunk of the other one.
* A run that times out during an execution goes on to the search, because the
  message it returns is not exactly `"Timeout!"`; for an exit whose path an
  execution took until it was killed, the search may find a goal that does not
  lead to that exit.
* An interruption before the process id was read leaks the pipe; a failed decoding
  leaks the handle of the decoder (`recognise_x86_64_Linux.cpp:62`).
* MEM VALID? does not look at `allocated`, and returns -2 where
  the documentation has -3 for inaccessible memory; an allocation of 0 bytes
  leaves an empty block, whose address later allocations return while `map::insert`
  keeps the empty block (TLC finds this when 0 is added to `Sizes`).
* The io-relation of MEM STATIC has one byte instead of eight, that of the
  initialisation of memory names the first address for all bytes, and that of
  MEM FREE leaves out the register of the size.
* The initial stack has no auxiliary vector. The prologue does not look at the
  answers of MEM STATIC, so that areas which overlap are written over each other.
* R_X86_64_COPY writes the address of a symbol instead of its data; TPOFF64 adds
  whether there is a symbol instead of its value; the entry point listed as an
  initialiser aborts the loading; initialiser arrays are read before relocations.
* DT_HASH chains are walked as if they were adjacent, and make undefined symbols
  visible. Definitions in other files are preferred to the file's own, and of
  several one is taken in the order of a hash map (the model takes any).
* The segments of a library are placed one by one: a gap as wide as the alignment
  changes their distance. A position-independent executable has the type of a
  library: its heap, with the thread-local storage, begins at address 0.
* A value that reaches behind the last section is written up to its end and then
  reported as skipped. Symbols of files loaded later stay unbound; imports with
  a type bind to the base of the file, or abort the loading of an executable.
* `choose_threads` takes the last thread only.

## Not modelled

* *Unique handles, symbols, expressions, SMT-LIB*: intern tables that only grow
  under one mutex, immutable terms and text. A handle is new by the line that
  increments the last one.
* *Streams*: closing and seeking, which no recognised system call does, and the
  pages their content is kept in (the same functions as for memory).
* *Interpreter*: instructions which neither the recogniser nor the prologue
  builder creates: SYNC, THREAD instructions and forks, MEM VALID?, the conversions
  and comparisons of other kinds. So there is only ever one thread, and the groups
  of threads in `execution_step` have one member.
* *Recogniser*: what Capstone decodes is given. The structure of `fstat` is cut to
  a few of its fields, which are written one after the other.
* *Loader*: bytes of headers and tables (they are records), files of 32 bits, big
  endian ones, PE and Mach-O files; the dumps.
* *Logging*, command lines, encoder and reloader: output, wiring, and two functions
  that say they are not implemented.

## Plan

1. That temporaries are set before they are read (`TemporariesAreSet`) and released
   (`TemporariesAreReleased`), form by form, over the forms of the recogniser.
2. 32-bit ELF, PE and Mach-O files in `Loader`, where they differ in control.
