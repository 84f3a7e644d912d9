---------------------------- MODULE PagedMemory ----------------------------
(***************************************************************************)
(* The operators the MEM pool is made of.                                  *)
(*                                                                         *)
(* Content is a function from page addresses to pages, which are functions *)
(* from offsets to bytes; a page exists once it was read or written.       *)
(* Allocations are a function from the first addresses of blocks to        *)
(* records [size, rights].  Addresses are numbers below Top and wrap.      *)
(***************************************************************************)
EXTENDS Digraph, FiniteSetsExt, Sequences

CONSTANTS
  PageSize,  \* memory_page_size
  Top        \* the number of addresses, 2^64 in the code

ASSUME PagedMemoryAssumption ==
  /\ PageSize \in Nat \ {0}
  /\ Top \in Nat \ {0}
  /\ Top % PageSize = 0

Address == 0..(Top - 1)

\* What a page is filled with when it is created.
Filler == 205

AlignToPage(v) ==
  (IF v % PageSize = 0 THEN v ELSE v + PageSize - (v % PageSize)) % Top

-----------------------------------------------------------------------------
(***************************************************************************)
(* The loops of memory_read and memory_write: they go from page to page    *)
(* and take, in iteration i, len bytes from the offset of that page.       *)
(***************************************************************************)
Least(a, b) == IF a <= b THEN a ELSE b

\* How many bytes are done before iteration i.
DoneBefore(begin, n, i) == IF i = 0 THEN 0 ELSE Least(n, i * PageSize - (begin % PageSize))

\* A slip: the low bits of the address are not masked.
ChunkUnmasked(begin, n, i) ==
  LET done == DoneBefore(begin, n, i)
  IN  [page |-> (begin + i * PageSize) % Top, offset |-> 0, done |-> done,
       len  |-> Least(PageSize, n - done)]

Chunk(begin, n, i) ==
  LET offset == IF i = 0 THEN begin % PageSize ELSE 0
      done   == DoneBefore(begin, n, i)
  IN  [page   |-> (begin - (begin % PageSize) + i * PageSize) % Top,
       offset |-> offset, done |-> done, len |-> Least(PageSize - offset, n - done)]

Chunks(begin, n) ==
  {Chunk(begin, n, i) : i \in {j \in 0..n : DoneBefore(begin, n, j) < n}}

BlankPage == [o \in 0..(PageSize - 1) |-> Filler]

PageOf(C, page) == IF page \in DOMAIN C THEN C[page] ELSE BlankPage

\* memory_read forgets the offset when it computes how much to copy from the
\* first page, and asserts that it stays inside.
CanRead(begin, n) == (begin % PageSize) + Least(PageSize, n) <= PageSize

ReadBytes(C, begin, n) ==
  [j \in 1..n |-> LET c == CHOOSE c \in Chunks(begin, n) : c.done < j /\ j <= c.done + c.len
                  IN  PageOf(C, c.page)[c.offset + j - 1 - c.done]]

\* Reading creates the pages it touches.
AfterRead(C, begin, n) ==
  Overlay(C, [p \in {c.page : c \in Chunks(begin, n)} |-> PageOf(C, p)])

WriteBytes(C, begin, data) ==
  LET chunks == Chunks(begin, Len(data))
      onto(p, o) == {c \in chunks : c.page = p /\ c.offset <= o /\ o < c.offset + c.len}
  IN  Overlay(C, [p \in {c.page : c \in chunks} |->
        [o \in 0..(PageSize - 1) |->
           IF onto(p, o) = {} THEN PageOf(C, p)[o]
           ELSE LET c == CHOOSE c \in onto(p, o) : TRUE
                IN  data[c.done + o - c.offset + 1]]])

\* A slip: every page that begins in the block is erased.
PagesErasedBeyond(C, begin, size) == Restrict(C, {p \in DOMAIN C : p < begin \/ p > begin + size})

\* The pages left when those inside a block are erased.
PagesErased(C, begin, size) ==
  Restrict(C, {p \in DOMAIN C : p < begin \/ p + PageSize > begin + size})

-----------------------------------------------------------------------------
(***************************************************************************)
(* compute_memory_block_info: what is known of the range of n addresses    *)
(* from begin, each answer being "NO", "YES" or "YES_AND_NO".  The code    *)
(* walks over the blocks in the order of their addresses.                  *)
(***************************************************************************)
Rights == {"r", "w", "x", "big_endian", "mutable_endian"}

EndOf(A, b) == b + A[b].size

\* The blocks the walk may come by, none if the range is free.  The first one
\* is the predecessor of the range if it reaches into it.
Reaching(A, begin) ==
  {b \in DOMAIN A : /\ b < begin
                    /\ EndOf(A, b) > begin
                    /\ \A c \in DOMAIN A : c < begin => c <= b}

\* A slip: blocks that begin before the range are not looked at.
WalkedFromBegin(A, begin, n) == {b \in DOMAIN A : begin <= b /\ b < begin + n}

Walked(A, begin, n) ==
  Reaching(A, begin) \cup {b \in DOMAIN A : begin <= b /\ b < begin + n}

\* Where the walk stands when it comes to the block b.
Reached(A, begin, W, b) ==
  LET before == {c \in W : c < b}
  IN  IF before = {} THEN begin ELSE EndOf(A, Max(before))

\* The blocks of the walk that begin behind where it stands.
Gaps(A, begin, n) ==
  LET W == Walked(A, begin, n) IN {b \in W : b > Reached(A, begin, W, b)}

\* The code asserts that the walk advances until it ends at a gap, and assumes
\* the rest.
CanComputeInfo(A, begin, n) ==
  LET W == Walked(A, begin, n)
  IN  /\ n > 0
      /\ begin + n < Top
      /\ \A b \in W : \/ \E g \in Gaps(A, begin, n) : g <= b
                     \/ EndOf(A, b) > Reached(A, begin, W, b)

Answer(bools) ==
  IF bools = {TRUE} THEN "YES" ELSE IF bools = {FALSE} THEN "NO" ELSE "YES_AND_NO"

BlockInfo(A, begin, n) ==
  LET W    == Walked(A, begin, n)
      gaps == Gaps(A, begin, n)
      \* the walk ends at a gap, but looks at the first block in any case
      seen == {b \in W : (\A g \in gaps : b < g) \/ (\A c \in W : b <= c)}
      had(r) == {(r \in A[b].rights) : b \in seen}
      endian(r) == r \in {"big_endian", "mutable_endian"}
  IN  IF W = {}
      THEN [allocated |-> "NO",
            rights |-> [r \in Rights |-> IF endian(r) THEN "YES_AND_NO" ELSE "NO"]]
      ELSE IF gaps = {}
      THEN [allocated |-> "YES", rights |-> [r \in Rights |-> Answer(had(r))]]
      ELSE [allocated |-> "YES_AND_NO",
            rights |-> [r \in Rights |->
              IF ~endian(r) /\ had(r) = {TRUE} THEN "YES" ELSE "YES_AND_NO"]]

=============================================================================
