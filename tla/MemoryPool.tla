----------------------------- MODULE MemoryPool -----------------------------
(***************************************************************************)
(* The MEM pool of an execution: its allocated blocks and its content, and *)
(* the instructions that change or read it.  The prologue allocates the    *)
(* sections of the binary, the stack and the thread-local data and writes  *)
(* their initial content; the program then allocates, releases, loads and  *)
(* stores.  Instructions of the threads are executed one after another, so *)
(* each is one action.                                                     *)
(*                                                                         *)
(* Of the REG pool only the result of the last instruction is kept; what   *)
(* the registers it reads contain is chosen.  The first instruction that   *)
(* reports an error, or on which an assertion fails, is the last one.      *)
(***************************************************************************)
EXTENDS PagedMemory

CONSTANTS
  Sections,   \* what the prologue allocates: records [start, size, rights]
  HeapBegin,  \* where the heap begins
  HeapEnd,    \* and where it ends
  Sizes,      \* the sizes asked for
  Widths,     \* the numbers of bytes loaded
  Hints,      \* the addresses asked for
  HeapRights, \* the sets of rights asked for
  Data,       \* the values stored, as sequences of bytes
  MaxStores   \* bound: how often data are written

EndOfSection(s) == s.start + s.size

ASSUME MemoryPoolAssumption ==
  /\ \A s \in Sections : /\ s.start \in Address
                         /\ s.size \in Nat
                         /\ EndOfSection(s) < Top
                         /\ s.rights \subseteq Rights
  \* the loader rejects overlapping sections
  /\ \A s, t \in Sections :
       s = t \/ EndOfSection(s) <= t.start \/ EndOfSection(t) <= s.start
  /\ HeapBegin \in Address /\ HeapBegin % PageSize = 0
  /\ HeapEnd \in Address
  /\ Sizes \cup Widths \subseteq Address
  /\ Hints \subseteq Address
  /\ HeapRights \subseteq SUBSET Rights
  /\ Data \subseteq Seq(0..255)
  /\ MaxStores \in Nat

VARIABLES
  allocs,   \* the allocations
  content,  \* the content
  pending,  \* the sections the prologue has not allocated yet
  result,   \* what the last instruction wrote to the REG pool
  loading,  \* the prologue is being executed
  status,   \* "running", or how the execution ended
  stores    \* how often data were written

pools == <<allocs, content>>
vars == <<pools, pending, result, loading, status, stores>>

Init ==
  /\ allocs = << >>
  /\ content = << >>
  /\ pending = Sections
  /\ result = << >>
  /\ loading = TRUE
  /\ status = "running"
  /\ stores = 0

Stop(how) == status' = how /\ UNCHANGED <<pools, pending, result, loading, stores>>

\* insert of a map: a block that begins at the same address is kept.
WithBlock(A, b, size, rights) ==
  Overlay([c \in {b} |-> [size |-> size, rights |-> rights]], A)

-----------------------------------------------------------------------------
(***************************************************************************)
(* The prologue.                                                           *)
(***************************************************************************)
\* MEM STATIC inserts the block even where it reports that there is another.
Static(s) ==
  /\ loading
  /\ status = "running"
  /\ s \in pending
  /\ IF ~CanComputeInfo(allocs, s.start, s.size) THEN Stop("assertion")
     ELSE /\ allocs' = WithBlock(allocs, s.start, s.size, s.rights)
          /\ result' = <<IF BlockInfo(allocs, s.start, s.size).allocated = "NO"
                         THEN s.start ELSE 0>>
          /\ pending' = pending \ {s}
          /\ UNCHANGED <<content, loading, status, stores>>

\* Initial content is written whatever the rights of the block.
Initialise(a, data) ==
  /\ loading
  /\ status = "running"
  /\ pending = {}
  /\ stores < MaxStores
  /\ IF ~CanComputeInfo(allocs, a, Len(data)) THEN Stop("assertion")
     ELSE IF BlockInfo(allocs, a, Len(data)).allocated # "YES" THEN Stop("error")
     ELSE /\ content' = WriteBytes(content, a, data)
          /\ stores' = stores + 1
          /\ UNCHANGED <<allocs, pending, result, loading, status>>

PrologueIsOver ==
  /\ loading
  /\ status = "running"
  /\ pending = {}
  /\ loading' = FALSE
  /\ UNCHANGED <<pools, pending, result, status, stores>>

Running == ~loading /\ status = "running"

-----------------------------------------------------------------------------
(***************************************************************************)
(* MEM ALLOC: at the hint if it lies in the heap and is free, otherwise    *)
(* behind the first block of the heap that is followed by a gap big enough.*)
(***************************************************************************)
\* A slip: the block at the begin of the heap is passed over.
HeapBlocksBehindBegin == {b \in DOMAIN allocs : HeapBegin < b /\ b < HeapEnd}

HeapBlocks == {b \in DOMAIN allocs : HeapBegin <= b /\ b < HeapEnd}

NextBlock(b) == Min({c \in DOMAIN allocs : c > b})

Behind(b) == AlignToPage(EndOf(allocs, b))

\* A slip: the page in which the next block begins is taken to be free.
GapFitsInPages(b, size) == (Behind(b) + size) % Top <= AlignToPage(NextBlock(b))

GapFits(b, size) == (Behind(b) + size) % Top <= NextBlock(b)

\* Where a block of the size is put, none if there is no room.
Places(size) ==
  LET fitting == {b \in HeapBlocks : GapFits(b, size)}
  IN  {Behind(b) : b \in {m \in fitting : \A f \in fitting : m <= f}}

CanSearchHeap ==
  /\ \E b \in DOMAIN allocs : b >= HeapBegin
  /\ \E b \in DOMAIN allocs : b >= HeapEnd

AllocateAt(b, size, rights) ==
  /\ allocs' = WithBlock(allocs, b, size, rights)
  /\ result' = <<b>>
  /\ UNCHANGED <<content, pending, loading, status, stores>>

Alloc(request, hint, rights) ==
  LET size == AlignToPage(request)
      at   == AlignToPage(hint)
      hinted == at >= HeapBegin
  IN  /\ Running
      /\ IF hinted /\ ~CanComputeInfo(allocs, at, size) THEN Stop("assertion")
         ELSE IF hinted /\ BlockInfo(allocs, at, size).allocated = "NO"
         THEN AllocateAt(at, size, rights)
         ELSE IF ~CanSearchHeap THEN Stop("assertion")
         ELSE IF Places(size) = {}
         THEN result' = <<0>> /\ UNCHANGED <<pools, pending, loading, status, stores>>
         ELSE \E b \in Places(size) : AllocateAt(b, size, rights)

\* MEM FREE: only the whole block, by its first address, can be released.
Free(b, request) ==
  /\ Running
  /\ IF b \in DOMAIN allocs /\ allocs[b].size = AlignToPage(request)
     THEN /\ content' = PagesErased(content, b, allocs[b].size)
          /\ allocs' = Restrict(allocs, DOMAIN allocs \ {b})
          /\ result' = <<1>>
     ELSE result' = <<0>> /\ UNCHANGED pools
  /\ UNCHANGED <<pending, loading, status, stores>>

-----------------------------------------------------------------------------
(***************************************************************************)
(* Loads and stores of n bytes.  Values are sequences of bytes, the most   *)
(* significant one first; inv tells the instructions marked INV, which     *)
(* have them in memory the other way round.                                *)
(***************************************************************************)
Turned(value, inv) == [j \in 1..Len(value) |-> value[IF inv THEN Len(value) + 1 - j ELSE j]]

Grants(a, n, r) ==
  LET info == BlockInfo(allocs, a, n)
  IN  info.allocated = "YES" /\ info.rights[r] = "YES"

Load(a, n, inv) ==
  /\ Running
  /\ IF ~CanComputeInfo(allocs, a, n) THEN Stop("assertion")
     ELSE IF ~Grants(a, n, "r") THEN Stop("error")
     ELSE IF ~CanRead(a, n) THEN Stop("assertion")
     ELSE /\ result' = Turned(ReadBytes(content, a, n), inv)
          /\ content' = AfterRead(content, a, n)
          /\ UNCHANGED <<allocs, pending, loading, status, stores>>

Store(a, value, inv) ==
  /\ Running
  /\ stores < MaxStores
  /\ IF ~CanComputeInfo(allocs, a, Len(value)) THEN Stop("assertion")
     ELSE IF ~Grants(a, Len(value), "w") THEN Stop("error")
     ELSE /\ content' = WriteBytes(content, a, Turned(value, inv))
          /\ stores' = stores + 1
          /\ UNCHANGED <<allocs, pending, result, loading, status>>

-----------------------------------------------------------------------------
Next ==
  \/ \E s \in pending : Static(s)
  \/ \E a \in Address, data \in Data : Initialise(a, data)
  \/ PrologueIsOver
  \/ \E size \in Sizes, hint \in Hints, rights \in HeapRights : Alloc(size, hint, rights)
  \/ \E b \in Address, size \in Sizes : Free(b, size)
  \/ \E a \in Address, n \in Widths, inv \in BOOLEAN : Load(a, n, inv)
  \/ \E a \in Address, value \in Data, inv \in BOOLEAN : Store(a, value, inv)

Spec == Init /\ [][Next]_vars

-----------------------------------------------------------------------------
Extent(b) == b..(EndOf(allocs, b) - 1)
AllocatedBytes == UNION {Extent(b) : b \in DOMAIN allocs}

TypeOK ==
  /\ DOMAIN allocs \subseteq Address
  /\ \A b \in DOMAIN allocs : /\ allocs[b].size \in Nat
                              /\ allocs[b].rights \subseteq Rights
  /\ \A p \in DOMAIN content : p \in Address /\ p % PageSize = 0
  /\ pending \subseteq Sections
  /\ loading \in BOOLEAN
  /\ status \in {"running", "error", "assertion"}
  /\ stores \in 0..MaxStores

\* No two blocks overlap and none reaches the last address, whether it was put
\* at a section, at a hint or into a gap.
BlocksDisjoint ==
  \A b, c \in DOMAIN allocs :
    /\ EndOf(allocs, b) < Top
    /\ b < c => EndOf(allocs, b) <= c

\* What compute_memory_block_info says of a range summarises its bytes: it is
\* free iff none of them is allocated; and where all is said to be allocated,
\* the bytes that are have no gap before them and exactly the rights reported.
InfoSummarises ==
  LET all == AllocatedBytes IN
  \A a \in Address : \A n \in 1..(Top - 1 - a) :
    CanComputeInfo(allocs, a, n) =>
      LET info  == BlockInfo(allocs, a, n)
          taken == all \cap a..(a + n - 1)
          owners == {b \in DOMAIN allocs : Extent(b) \cap taken # {}}
      IN  /\ info.allocated = "NO" <=> taken = {}
          /\ info.allocated = "YES" =>
               /\ \A x \in taken : a..x \subseteq taken
               /\ \A r \in Rights :
                    /\ info.rights[r] = "YES" <=> \A b \in owners : r \in allocs[b].rights
                    /\ info.rights[r] = "NO" <=> \A b \in owners : r \notin allocs[b].rights

\* The search for a gap overlooks none: where it finds no place, no pages of the
\* heap in sequence are free that are big enough.
RoomIsFound ==
  Running /\ CanSearchHeap =>
    \A n \in {AlignToPage(request) : request \in Sizes} :
      Places(n) = {} =>
        \A a \in HeapBegin..(HeapEnd - n) :
          a % PageSize = 0 => a..(a + n - 1) \cap AllocatedBytes # {}

\* The pool implements an array of bytes with blocks.
Requested == {AlignToPage(n) : n \in Sizes}

Flat ==
  INSTANCE FlatMemory WITH
    Block <- [size : Requested, rights : HeapRights]
             \cup {[size |-> s.size, rights |-> s.rights] : s \in Sections},
    Length <- Sizes \cup Widths,
    Value <- {Turned(value, inv) : value \in Data, inv \in BOOLEAN},
    Fresh <- Filler,
    bytes <- [a \in Address |-> PageOf(content, a - (a % PageSize))[a % PageSize]],
    blocks <- allocs,
    running <- (status = "running")

ImplementsFlatMemory == Flat!Spec

\* "Allocated" is said of a range only if all its bytes are.
AllocatedMeansAllBytes ==
  \A a \in Address : \A n \in 1..(Top - 1 - a) :
    CanComputeInfo(allocs, a, n) /\ BlockInfo(allocs, a, n).allocated = "YES" =>
      a..(a + n - 1) \subseteq AllocatedBytes

\* A load that may be performed stays inside the page it reads from.
ReadsStayInPage ==
  \A a \in Address : \A n \in Widths :
    Running /\ CanComputeInfo(allocs, a, n) /\ Grants(a, n, "r") => CanRead(a, n)

=============================================================================
