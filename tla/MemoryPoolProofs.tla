-------------------------- MODULE MemoryPoolProofs --------------------------
(***************************************************************************)
(* The blocks of the MEM pool never overlap, what is said of a range is    *)
(* true of its bytes, and the pool implements FlatMemory, provided that    *)
(* the sizes asked for are small compared with the address space: the code *)
(* computes ends of blocks modulo 2^64 and does not notice when they wrap. *)
(* All but the first also need that no request is empty.                   *)
(***************************************************************************)
EXTENDS MemoryPool, WellFoundedInduction, NaturalsInduction, TLAPS

-----------------------------------------------------------------------------
(* What the operators of PagedMemory compute *)

\* A set of numbers that is not empty has a least element.
LEMMA LeastExists ==
  ASSUME NEW S \in SUBSET Nat, S # {}
  PROVE  \E x \in S : \A y \in S : x <= y
<1>1. PICK x \in S : \A y \in S : <<y, x>> \notin OpToRel(<, Nat)
  BY NatLessThanWellFounded, WFMin, Zenon
<1>2. \A y \in S : <<y, x>> \in Nat \X Nat
  OBVIOUS
<1>3. \A y \in S : ~(y < x)
  BY <1>1, <1>2, Zenon DEF OpToRel
<1> QED BY <1>3

\* A bounded set of numbers that is not empty has a greatest element.
LEMMA GreatestExists ==
  ASSUME NEW n \in Nat, NEW S \in SUBSET (0..n), S # {}
  PROVE  \E x \in S : \A y \in S : y <= x
<1> DEFINE T == {n - x : x \in S}
<1>1. T \in SUBSET Nat /\ T # {}
  <2>1. \A x \in S : n - x \in Nat
    OBVIOUS
  <2>2. PICK x \in S : TRUE
    OBVIOUS
  <2> QED BY <2>1, <2>2
<1>2. PICK t \in T : \A u \in T : t <= u
  <2> HIDE DEF T
  <2> QED BY <1>1, LeastExists
<1>3. PICK x \in S : t = n - x
  BY <1>2
<1>4. \A y \in S : n - x <= n - y
  BY <1>2, <1>3
<1> QED BY <1>4

\* Min is what its name says.
LEMMA MinIsLeast ==
  ASSUME NEW S \in SUBSET Nat, S # {}
  PROVE  Min(S) \in S /\ \A y \in S : Min(S) <= y
<1>1. \E x \in S : \A y \in S : x <= y
  BY LeastExists
<1> QED BY <1>1 DEF Min

\* Rounding up to a page goes less than a page up.
LEMMA AlignBounds ==
  ASSUME NEW v \in Nat, v + PageSize <= Top
  PROVE  AlignToPage(v) \in v..(v + PageSize - 1)
<1>1. PageSize \in Nat \ {0} /\ Top \in Nat \ {0}
  BY PagedMemoryAssumption
<1>2. v % PageSize \in 0..(PageSize - 1)
  BY <1>1
<1>3. \A x \in 0..(Top - 1) : x % Top = x
  BY <1>1
<1> QED BY <1>1, <1>2, <1>3 DEF AlignToPage

\* What is rounded up is an address.
LEMMA AlignIsAddress ==
  ASSUME NEW v \in Nat
  PROVE  AlignToPage(v) \in Address
<1>1. PageSize \in Nat \ {0} /\ Top \in Nat \ {0}
  BY PagedMemoryAssumption
<1>2. v % PageSize \in 0..(PageSize - 1)
  BY <1>1
<1>3. \A x \in Nat : x % Top \in 0..(Top - 1)
  BY <1>1
<1> QED BY <1>1, <1>2, <1>3 DEF AlignToPage, Address

\* The facts about the constants the proofs use.
LEMMA PagesFit == PageSize \in Nat \ {0} /\ Top \in Nat \ {0} /\ Top % PageSize = 0
BY PagedMemoryAssumption

\* Products grow with their factors.
LEMMA ProductGrows ==
  ASSUME NEW i \in Int, NEW k \in Int, NEW p \in Nat, i < k
  PROVE  i * p + p <= k * p
BY PagesFit

\* An address is in a page, at an offset.
LEMMA Division ==
  ASSUME NEW x \in Nat
  PROVE  /\ x % PageSize \in 0..(PageSize - 1)
         /\ \E q \in Nat : x = q * PageSize + (x % PageSize)
<1>1. x % PageSize \in 0..(PageSize - 1)
  BY PagesFit
<1>2. x \div PageSize \in Nat
  BY PagesFit
<1>3. x = (x \div PageSize) * PageSize + (x % PageSize)
  BY PagesFit
<1> QED BY <1>1, <1>2, <1>3

\* There is only one offset it is at.
LEMMA DivisionUnique ==
  ASSUME NEW q \in Nat, NEW o \in 0..(PageSize - 1)
  PROVE  (q * PageSize + o) % PageSize = o
BY PagesFit

-----------------------------------------------------------------------------
(***************************************************************************)
(* Pages.  ByteAt is the byte of the content at an address, wherever it is *)
(* kept.                                                                   *)
(***************************************************************************)
ByteAt(C, x) == PageOf(C, x - (x % PageSize))[x % PageSize]

\* A range that does not reach the last address.
InSpace(a, n) == a \in Nat /\ n \in Nat /\ a + n < Top

\* What a chunk of the range is: a part of one page.
ChunkOK(a, n, c) ==
  /\ c.page \in Nat /\ c.page % PageSize = 0 /\ c.page < Top
  /\ c.offset \in Nat /\ c.done \in Nat /\ c.len \in Nat
  /\ c.page + c.offset = a + c.done
  /\ c.offset + c.len <= PageSize
  /\ c.done + c.len <= n

\* An offset in a page, and the page.
LEMMA InPage ==
  ASSUME NEW p \in Nat, p % PageSize = 0, NEW o \in 0..(PageSize - 1)
  PROVE  /\ (p + o) % PageSize = o
         /\ (p + o) - ((p + o) % PageSize) = p
<1>1. PICK q \in Nat : p = q * PageSize + (p % PageSize)
  BY Division
<1>2. (p + o) % PageSize = o
  <2>1. p + o = q * PageSize + o
    BY <1>1, PagesFit
  <2> QED
    BY <2>1, DivisionUnique
<1> QED
  BY <1>2, PagesFit

\* The page an address is in.
LEMMA PageOfAddress ==
  ASSUME NEW x \in Nat
  PROVE  /\ x % PageSize \in 0..(PageSize - 1)
         /\ x - (x % PageSize) \in Nat
         /\ (x - (x % PageSize)) % PageSize = 0
         /\ x - (x % PageSize) <= x
<1>1. PICK q \in Nat : x = q * PageSize + (x % PageSize)
  BY Division
<1>2. x % PageSize \in 0..(PageSize - 1)
  BY Division
<1>3. q * PageSize \in Nat
  BY PagesFit
<1>4. x - (x % PageSize) = q * PageSize + 0
  BY <1>1, <1>2, <1>3
<1>5. 0 \in 0..(PageSize - 1)
  BY PagesFit
<1>6. (q * PageSize + 0) % PageSize = 0
  BY <1>5, DivisionUnique
<1> QED
  BY <1>1, <1>2, <1>3, <1>4, <1>6

\* The chunks of a range are parts of pages, one behind the other.
LEMMA ChunkIsPart ==
  ASSUME NEW a, NEW n, InSpace(a, n), NEW c \in Chunks(a, n)
  PROVE  ChunkOK(a, n, c)
<1>1. a \in Nat /\ n \in Nat /\ a + n < Top
  BY DEF InSpace
<1>2. PageSize \in Nat /\ PageSize > 0 /\ Top \in Nat /\ Top > 0
  BY PagesFit
<1>3. PICK i \in 0..n : c = Chunk(a, n, i) /\ DoneBefore(a, n, i) < n
  BY DEF Chunks
<1> DEFINE r == a % PageSize
           base == a - r
           done == DoneBefore(a, n, i)
<1>4. PICK q \in Nat : a = q * PageSize + r
  BY <1>1, Division
<1>5. r \in 0..(PageSize - 1) /\ base = q * PageSize /\ base \in Nat
  BY <1>1, <1>2, <1>4, Division, PageOfAddress
<1>6. i * PageSize \in Nat /\ (i > 0 => i * PageSize >= PageSize) /\ (i = 0 => i * PageSize = 0)
  BY <1>2, ProductGrows
<1>7. /\ i = 0 => done = 0
      /\ i > 0 => done = i * PageSize - r
  BY <1>1, <1>3, <1>5, <1>6 DEF DoneBefore, Least
<1>8. done \in Nat /\ done < n
  BY <1>1, <1>2, <1>3, <1>5, <1>6, <1>7
<1>9. base + i * PageSize \in Nat /\ base + i * PageSize < Top
  BY <1>1, <1>2, <1>5, <1>6, <1>7, <1>8
<1>10. (base + i * PageSize) % Top = base + i * PageSize
  BY <1>2, <1>9
<1>11. (base + i * PageSize) % PageSize = 0
  <2>1. base + i * PageSize = (q + i) * PageSize + 0
    BY <1>2, <1>5
  <2>2. q + i \in Nat /\ 0 \in 0..(PageSize - 1)
    BY <1>2
  <2> QED
    BY <2>1, <2>2, DivisionUnique
<1> DEFINE offset == IF i = 0 THEN r ELSE 0
           len == Least(PageSize - offset, n - done)
<1>12. c = [page |-> base + i * PageSize, offset |-> offset, done |-> done, len |-> len]
  BY <1>3, <1>10 DEF Chunk
<1>13. offset \in 0..(PageSize - 1)
  BY <1>2, <1>5
<1>14. base + i * PageSize + offset = a + done
  BY <1>1, <1>2, <1>5, <1>6, <1>7
<1> HIDE DEF offset, done, base, r
<1>15. len \in Nat /\ offset + len <= PageSize /\ done + len <= n
  BY <1>1, <1>2, <1>8, <1>13 DEF Least
<1> QED
  BY <1>8, <1>9, <1>11, <1>12, <1>13, <1>14, <1>15 DEF ChunkOK

\* There is a chunk for each byte of the range.
LEMMA ChunksCover ==
  ASSUME NEW a, NEW n, InSpace(a, n), NEW y \in 0..(n - 1)
  PROVE  \E c \in Chunks(a, n) : c.done <= y /\ y < c.done + c.len
<1>1. a \in Nat /\ n \in Nat /\ y \in Nat /\ y < n
  BY DEF InSpace
<1>2. PageSize \in Nat /\ PageSize > 0
  BY PagesFit
<1> DEFINE r == a % PageSize
<1>3. r \in 0..(PageSize - 1)
  BY <1>1, Division
<1>4. PICK i \in Nat : r + y = i * PageSize + ((r + y) % PageSize)
  BY <1>1, <1>3, Division
<1>5. (r + y) % PageSize \in 0..(PageSize - 1)
  BY <1>1, <1>3, Division
<1> HIDE DEF r
<1>6. i * PageSize \in Nat /\ i * PageSize <= r + y /\ r + y < i * PageSize + PageSize
  BY <1>1, <1>2, <1>3, <1>4, <1>5
<1>7. i <= n
  <2>1. SUFFICES ASSUME n < i PROVE FALSE
    BY <1>1
  <2>2. n * PageSize + PageSize <= i * PageSize
    BY <1>1, <1>2, <2>1, ProductGrows
  <2>3. n <= n * PageSize
    BY <1>1, <1>2
  <2> QED
    BY <1>1, <1>2, <1>3, <1>6, <2>2, <2>3
<1>8. /\ i > 0 => i * PageSize >= PageSize
      /\ i = 0 => i * PageSize = 0
  BY <1>2, ProductGrows
<1> DEFINE done == DoneBefore(a, n, i)
<1>9. done = IF i = 0 THEN 0 ELSE i * PageSize - r
  BY <1>1, <1>3, <1>6, <1>8 DEF DoneBefore, Least, r
<1> HIDE DEF done
<1>10. done \in Nat /\ done <= y /\ done < n
  BY <1>1, <1>2, <1>3, <1>6, <1>8, <1>9
<1> DEFINE c == Chunk(a, n, i)
<1>11. c \in Chunks(a, n)
  BY <1>7, <1>10 DEF Chunks, done
<1>12. c.done = done /\ c.len = Least(PageSize - (IF i = 0 THEN r ELSE 0), n - done)
  BY DEF Chunk, done, r
<1> HIDE DEF c
<1>13. y < c.done + c.len
  BY <1>1, <1>2, <1>3, <1>6, <1>8, <1>9, <1>10, <1>12 DEF Least
<1> QED
  BY <1>10, <1>11, <1>12, <1>13

\* Byte j of what memory_read returns is the one at the address a + j - 1.
LEMMA ReadsBytes ==
  ASSUME NEW C, NEW a, NEW n, InSpace(a, n), NEW j \in 1..n
  PROVE  ReadBytes(C, a, n)[j] = ByteAt(C, a + j - 1)
<1>1. a \in Nat /\ n \in Nat /\ PageSize \in Nat /\ PageSize > 0
  BY PagesFit DEF InSpace
<1> DEFINE c == CHOOSE c \in Chunks(a, n) : c.done < j /\ j <= c.done + c.len
<1>2. c \in Chunks(a, n) /\ c.done < j /\ j <= c.done + c.len
  <2>1. PICK d \in Chunks(a, n) : d.done <= j - 1 /\ j - 1 < d.done + d.len
    BY <1>1, ChunksCover
  <2>2. d.done \in Nat /\ d.len \in Nat
    BY <2>1, ChunkIsPart DEF ChunkOK
  <2>3. d.done < j /\ j <= d.done + d.len
    BY <1>1, <2>1, <2>2
  <2> QED
    BY <2>1, <2>3
<1>3. ReadBytes(C, a, n)[j] = PageOf(C, c.page)[c.offset + j - 1 - c.done]
  BY DEF ReadBytes
<1> HIDE DEF c
<1>4. ChunkOK(a, n, c)
  BY <1>2, ChunkIsPart
<1> DEFINE o == c.offset + j - 1 - c.done
<1>5. o \in 0..(PageSize - 1) /\ c.page + o = a + j - 1 /\ c.page \in Nat /\ c.page % PageSize = 0
  BY <1>1, <1>2, <1>4 DEF ChunkOK
<1> HIDE DEF o
<1>6. /\ (a + j - 1) % PageSize = o
      /\ (a + j - 1) - ((a + j - 1) % PageSize) = c.page
  BY <1>5, InPage
<1> QED
  BY <1>3, <1>6 DEF ByteAt, o

\* The pages memory_read creates change no byte.
LEMMA ReadingChangesNothing ==
  ASSUME NEW C, NEW a, NEW n, NEW x
  PROVE  ByteAt(AfterRead(C, a, n), x) = ByteAt(C, x)
BY DEF AfterRead, Overlay, ByteAt, PageOf

\* A chunk covers an offset of its page iff the address there is one of its own.
LEMMA ChunkCoversAddress ==
  ASSUME NEW a, NEW n, InSpace(a, n), NEW c \in Chunks(a, n), NEW x \in Nat
  PROVE  LET o == x % PageSize
             p == x - o
         IN  /\ c.page = p /\ c.offset <= o /\ o < c.offset + c.len
                => a <= x /\ x < a + n /\ c.done + o - c.offset = x - a
             /\ x \in Nat /\ a + c.done <= x /\ x < a + c.done + c.len
                => c.page = p /\ c.offset <= o /\ o < c.offset + c.len
<1>1. a \in Nat /\ n \in Nat /\ PageSize \in Nat /\ PageSize > 0
  BY PagesFit DEF InSpace
<1>2. ChunkOK(a, n, c)
  BY ChunkIsPart
<1>3. x % PageSize \in 0..(PageSize - 1)
  BY PageOfAddress
<1>4. ASSUME c.page = x - (x % PageSize), c.offset <= x % PageSize, x % PageSize < c.offset + c.len
      PROVE  a <= x /\ x < a + n /\ c.done + (x % PageSize) - c.offset = x - a
  BY <1>1, <1>2, <1>3, <1>4 DEF ChunkOK
<1>5. ASSUME a + c.done <= x, x < a + c.done + c.len
      PROVE  /\ c.page = x - (x % PageSize) /\ c.offset <= x % PageSize
             /\ x % PageSize < c.offset + c.len
  <2> DEFINE o == x - c.page
  <2>1. o \in 0..(PageSize - 1) /\ c.page + o = x /\ c.offset <= o /\ o < c.offset + c.len
        /\ c.page \in Nat /\ c.page % PageSize = 0
    BY <1>1, <1>2, <1>5 DEF ChunkOK
  <2> HIDE DEF o
  <2>2. x % PageSize = o /\ x - (x % PageSize) = c.page
    BY <2>1, InPage
  <2> QED
    BY <2>1, <2>2
<1> QED
  BY <1>4, <1>5

\* memory_write writes the data to their addresses and nothing else.
LEMMA WritesBytes ==
  ASSUME NEW C, NEW a, NEW data, InSpace(a, Len(data)), NEW x \in Nat
  PROVE  ByteAt(WriteBytes(C, a, data), x) =
           IF x \in a..(a + Len(data) - 1) THEN data[x - a + 1] ELSE ByteAt(C, x)
<1> DEFINE n == Len(data)
           o == x % PageSize
           p == x - o
           onto == {c \in Chunks(a, n) : c.page = p /\ c.offset <= o /\ o < c.offset + c.len}
           W == WriteBytes(C, a, data)
<1>1. a \in Nat /\ n \in Nat /\ PageSize \in Nat /\ PageSize > 0
  BY PagesFit DEF InSpace
<1>2. o \in 0..(PageSize - 1)
  BY PageOfAddress
<1>3. ByteAt(W, x) = PageOf(W, p)[o]
  BY DEF ByteAt
<1>4. CASE onto = {}
  <2>1. ~(x \in a..(a + n - 1))
    <3>1. SUFFICES ASSUME x \in a..(a + n - 1) PROVE FALSE
      OBVIOUS
    <3>2. x - a \in 0..(n - 1)
      BY <1>1, <3>1
    <3>3. PICK c \in Chunks(a, n) : c.done <= x - a /\ x - a < c.done + c.len
      BY <3>2, ChunksCover
    <3>4. c.done \in Nat /\ c.len \in Nat
      BY <3>3, ChunkIsPart DEF ChunkOK
    <3>5. a + c.done <= x /\ x < a + c.done + c.len
      BY <1>1, <3>3, <3>4
    <3>6. c.page = p /\ c.offset <= o /\ o < c.offset + c.len
      BY <3>5, ChunkCoversAddress
    <3> QED
      BY <3>3, <3>6, <1>4
  <2>2. PageOf(W, p)[o] = PageOf(C, p)[o]
    BY <1>2, <1>4 DEF WriteBytes, Overlay, PageOf
  <2> QED
    BY <1>3, <2>1, <2>2 DEF ByteAt
<1>5. CASE onto # {}
  <2> DEFINE c == CHOOSE c \in onto : TRUE
  <2>1. c \in onto
    BY <1>5
  <2>2. p \in {d.page : d \in Chunks(a, n)}
    BY <2>1
  <2>3. PageOf(W, p)[o] = data[c.done + o - c.offset + 1]
    BY <1>2, <1>5, <2>2 DEF WriteBytes, Overlay, PageOf
  <2>4. c \in Chunks(a, n) /\ c.page = p /\ c.offset <= o /\ o < c.offset + c.len
    BY <2>1
  <2> HIDE DEF c
  <2>5. a <= x /\ x < a + n /\ c.done + o - c.offset = x - a
    BY <2>4, ChunkCoversAddress
  <2>6. x \in a..(a + n - 1)
    BY <1>1, <2>5
  <2> QED
    BY <1>3, <2>3, <2>5, <2>6
<1> QED
  BY <1>4, <1>5

\* Erasing the pages of a block makes their bytes fresh and leaves the others.
LEMMA ErasesBytes ==
  ASSUME NEW C, NEW b \in Nat, NEW size \in Nat, NEW x \in Nat
  PROVE  ByteAt(PagesErased(C, b, size), x) =
           LET page == x - (x % PageSize)
           IN  IF page >= b /\ page + PageSize <= b + size THEN Filler ELSE ByteAt(C, x)
<1> DEFINE page == x - (x % PageSize)
<1>1. x % PageSize \in 0..(PageSize - 1) /\ page \in Nat /\ PageSize \in Nat
  BY PageOfAddress, PagesFit
<1> HIDE DEF page
<1>2. page < b \/ page + PageSize > b + size <=> ~(page >= b /\ page + PageSize <= b + size)
  BY <1>1
<1>3. CASE page >= b /\ page + PageSize <= b + size
  <2>1. page \notin DOMAIN PagesErased(C, b, size)
    BY <1>2, <1>3 DEF PagesErased, Restrict
  <2> QED
    BY <1>1, <1>3, <2>1 DEF ByteAt, PageOf, BlankPage, page
<1>4. CASE ~(page >= b /\ page + PageSize <= b + size)
  <2>1. PageOf(PagesErased(C, b, size), page) = PageOf(C, page)
    BY <1>2, <1>4 DEF PagesErased, Restrict, PageOf
  <2> QED
    BY <1>4, <2>1 DEF ByteAt, page
<1> QED
  BY <1>3, <1>4 DEF page

-----------------------------------------------------------------------------
\* The allocations A are blocks that do not overlap.
Disjoint(A) ==
  /\ DOMAIN A \subseteq Nat
  /\ \A b \in DOMAIN A : A[b].size \in Nat
  /\ \A b \in DOMAIN A : EndOf(A, b) < Top
  /\ \A b, c \in DOMAIN A : b < c => EndOf(A, b) <= c

\* The n addresses from a are free in A.
FreeIn(A, a, n) ==
  \A b \in DOMAIN A : (b < a => EndOf(A, b) <= a) /\ (b >= a => a + n <= b)

\* A range the walk over the blocks finds nothing in is free.  Only the last
\* block before the range is looked at; the others end before that one.
LEMMA NothingWalked ==
  ASSUME NEW A, Disjoint(A), NEW a \in Nat, NEW n \in Nat, Walked(A, a, n) = {}
  PROVE  FreeIn(A, a, n)
<1>1. ASSUME NEW b \in DOMAIN A, b >= a
      PROVE  a + n <= b
  <2>1. b \notin {c \in DOMAIN A : a <= c /\ c < a + n}
    BY DEF Walked
  <2>2. b \in Nat
    BY DEF Disjoint
  <2> QED BY <1>1, <2>1, <2>2
<1>2. ASSUME NEW b \in DOMAIN A, b < a
      PROVE  EndOf(A, b) <= a
  <2> DEFINE S == {c \in DOMAIN A : c < a}
  <2>1. S \in SUBSET (0..a) /\ S # {}
    BY <1>2 DEF Disjoint
  <2>2. PICK m \in S : \A c \in S : c <= m
    <3> HIDE DEF S
    <3> QED BY <2>1, GreatestExists
  <2>3. m \notin Reaching(A, a)
    BY DEF Walked
  <2>4. EndOf(A, m) <= a
    <3>1. ~(EndOf(A, m) > a)
      BY <2>2, <2>3 DEF Reaching
    <3>2. EndOf(A, m) \in Nat
      BY <2>2 DEF Disjoint, EndOf
    <3> QED BY <3>1, <3>2
  <2>5. b \in S
    BY <1>2
  <2>6. CASE b = m
    BY <2>4, <2>6
  <2>7. CASE b # m
    <3>1. b < m
      BY <2>2, <2>5, <2>7, <2>1
    <3>2. EndOf(A, b) <= m
      BY <3>1, <2>2 DEF Disjoint
    <3>3. EndOf(A, b) \in Nat /\ m \in Nat /\ m < a
      BY <2>2 DEF Disjoint, EndOf
    <3> QED BY <3>2, <3>3
  <2> QED BY <2>6, <2>7
<1> QED BY <1>1, <1>2 DEF FreeIn

\* A range that compute_memory_block_info says is not allocated is free.
LEMMA SaidToBeFree ==
  ASSUME NEW A, Disjoint(A), NEW a \in Nat, NEW n \in Nat,
         BlockInfo(A, a, n).allocated = "NO"
  PROVE  FreeIn(A, a, n)
<1>1. Walked(A, a, n) = {}
  BY DEF BlockInfo
<1> QED BY <1>1, NothingWalked

\* The walk finds nothing in a free range.
LEMMA FreeIsNotWalked ==
  ASSUME NEW A, Disjoint(A), NEW a \in Nat, NEW n \in Nat, FreeIn(A, a, n)
  PROVE  Walked(A, a, n) = {}
<1>1. \A b \in DOMAIN A : b \in Nat /\ EndOf(A, b) \in Nat
  BY DEF Disjoint, EndOf
<1>2. Reaching(A, a) = {}
  BY <1>1 DEF Reaching, FreeIn
<1>3. {b \in DOMAIN A : a <= b /\ b < a + n} = {}
  BY <1>1 DEF FreeIn
<1> QED
  BY <1>2, <1>3 DEF Walked

\* No block is empty.
NonEmpty(A) == \A b \in DOMAIN A : A[b].size > 0

\* The address x is in the block b of A, and in some block.
Holds(A, b, x) == b \in DOMAIN A /\ b <= x /\ x < EndOf(A, b)
Owned(A, x) == \E b : Holds(A, b, x)

\* Of blocks that are not empty the walk comes by those that have an address in
\* the range.
LEMMA WalkIsOwners ==
  ASSUME NEW A, Disjoint(A), NonEmpty(A), NEW a \in Nat, NEW n \in Nat, n > 0, NEW b
  PROVE  b \in Walked(A, a, n) <=> \E x \in a..(a + n - 1) : Holds(A, b, x)
<1>1. \A c \in DOMAIN A : /\ c \in Nat /\ EndOf(A, c) \in Nat /\ c < EndOf(A, c)
                          /\ \A d \in DOMAIN A : c < d => EndOf(A, c) <= d
  BY DEF Disjoint, NonEmpty, EndOf
<1>2. ASSUME b \in Reaching(A, a)
      PROVE  Holds(A, b, a) /\ a \in a..(a + n - 1)
  BY <1>1, <1>2 DEF Reaching, Holds
<1>3. ASSUME b \in DOMAIN A, a <= b, b < a + n
      PROVE  Holds(A, b, b) /\ b \in a..(a + n - 1)
  BY <1>1, <1>3 DEF Holds
<1>4. ASSUME NEW x \in a..(a + n - 1), Holds(A, b, x), b < a
      PROVE  b \in Reaching(A, a)
  <2>1. b \in DOMAIN A /\ b \in Nat /\ EndOf(A, b) \in Nat /\ EndOf(A, b) > a
    BY <1>1, <1>4 DEF Holds
  <2>2. ASSUME NEW c \in DOMAIN A, c < a PROVE c <= b
    BY <1>1, <2>1, <2>2
  <2> QED
    BY <1>4, <2>1, <2>2 DEF Reaching
<1>5. ASSUME NEW x \in a..(a + n - 1), Holds(A, b, x), ~(b < a)
      PROVE  b \in DOMAIN A /\ a <= b /\ b < a + n
  BY <1>1, <1>5 DEF Holds
<1> QED
  BY <1>2, <1>3, <1>4, <1>5 DEF Walked

\* Max is what its name says.
LEMMA MaxIsGreatest ==
  ASSUME NEW n \in Nat, NEW S \in SUBSET (0..n), S # {}
  PROVE  Max(S) \in S /\ \A y \in S : y <= Max(S)
<1>1. \E x \in S : \A y \in S : y <= x
  BY GreatestExists
<1> QED BY <1>1 DEF Max

\* Where the walk comes by no gap, nothing before an address that is in a block
\* is free.
LEMMA NoGapsNoHoles ==
  ASSUME NEW A, Disjoint(A), NonEmpty(A), NEW a \in Nat, NEW n \in Nat, n > 0,
         Gaps(A, a, n) = {}, NEW x \in a..(a + n - 1), Owned(A, x), NEW y \in a..x
  PROVE  Owned(A, y)
<1> DEFINE W == Walked(A, a, n)
           S == {c \in W : c > y}
<1>1. SUFFICES ASSUME ~Owned(A, y) PROVE FALSE
  OBVIOUS
<1>2. PICK b : Holds(A, b, x)
  BY DEF Owned
<1>3. /\ W \subseteq DOMAIN A
      /\ \A c \in DOMAIN A : c \in Nat /\ EndOf(A, c) \in Nat
  BY DEF Walked, Reaching, Disjoint, EndOf
<1>4. b \in W
  BY <1>2, WalkIsOwners
<1>5. b \in S
  <2>1. b \in DOMAIN A /\ b \in Nat /\ EndOf(A, b) \in Nat /\ x < EndOf(A, b) /\ x \in Nat /\ y \in Nat /\ y <= x
    BY <1>2, <1>3 DEF Holds
  <2>2. ~(b <= y)
    BY <1>1, <2>1 DEF Owned, Holds
  <2> QED
    BY <1>4, <2>1, <2>2
<1>6. S \in SUBSET Nat /\ S # {}
  BY <1>3, <1>5
<1>7. PICK m \in S : \A c \in S : m <= c
  <2> HIDE DEF S
  <2> QED
    BY <1>6, LeastExists
<1> DEFINE before == {c \in W : c < m}
<1>8. m \in W /\ m \in Nat /\ m > y /\ y \in Nat /\ a <= y
  BY <1>3, <1>7
<1>9. \A c \in before : EndOf(A, c) <= y
  <2> SUFFICES ASSUME NEW c \in before PROVE EndOf(A, c) <= y
    OBVIOUS
  <2>1. c \in W /\ c \in DOMAIN A /\ c \in Nat /\ EndOf(A, c) \in Nat /\ c < m
    BY <1>3
  <2>2. c <= y
    BY <1>7, <1>8, <2>1
  <2>3. ~(y < EndOf(A, c))
    BY <1>1, <2>1, <2>2 DEF Owned, Holds
  <2> QED
    BY <1>8, <2>1, <2>3
<1>10. before \in SUBSET (0..m)
  BY <1>3, <1>8
<1>11. Reached(A, a, W, m) <= y
  <2>1. CASE before = {}
    BY <1>8, <2>1 DEF Reached
  <2>2. CASE before # {}
    <3>1. Max(before) \in before
      <4> HIDE DEF before
      <4> QED
        BY <1>8, <1>10, <2>2, MaxIsGreatest
    <3>2. Reached(A, a, W, m) = EndOf(A, Max(before))
      BY <2>2 DEF Reached
    <3> QED
      BY <1>9, <3>1, <3>2
  <2> QED
    BY <2>1, <2>2
<1>12. Reached(A, a, W, m) \in Nat
  <2>1. CASE before = {}
    BY <2>1 DEF Reached
  <2>2. CASE before # {}
    <3>1. Max(before) \in before
      <4> HIDE DEF before
      <4> QED
        BY <1>8, <1>10, <2>2, MaxIsGreatest
    <3>2. Reached(A, a, W, m) = EndOf(A, Max(before))
      BY <2>2 DEF Reached
    <3> QED
      BY <1>3, <3>1, <3>2
  <2> QED
    BY <2>1, <2>2
<1>13. m \in Gaps(A, a, n)
  BY <1>8, <1>11, <1>12 DEF Gaps
<1> QED
  BY <1>13

\* What compute_memory_block_info says in terms of the blocks it walks over.
LEMMA InfoOfWalk ==
  ASSUME NEW A, NEW a, NEW n
  PROVE  LET W == Walked(A, a, n)
             info == BlockInfo(A, a, n)
         IN  /\ info.allocated = "NO" <=> W = {}
             /\ info.allocated = "YES" <=> W # {} /\ Gaps(A, a, n) = {}
             /\ info.allocated = "YES" =>
                  \A r \in Rights :
                    /\ info.rights[r] = "YES" <=> \A b \in W : r \in A[b].rights
                    /\ info.rights[r] = "NO" <=> \A b \in W : r \notin A[b].rights
<1> DEFINE W == Walked(A, a, n)
           gaps == Gaps(A, a, n)
           info == BlockInfo(A, a, n)
<1>1. CASE W = {}
  BY <1>1 DEF BlockInfo
<1>2. CASE W # {} /\ gaps # {}
  BY <1>2 DEF BlockInfo
<1>3. CASE W # {} /\ gaps = {}
  <2> DEFINE had(r) == {(r \in A[b].rights) : b \in W}
  <2>1. info = [allocated |-> "YES", rights |-> [r \in Rights |-> Answer(had(r))]]
    <3>1. {b \in W : (\A g \in gaps : b < g) \/ (\A c \in W : b <= c)} = W
      BY <1>3
    <3> QED
      BY <1>3, <3>1 DEF BlockInfo
  <2>2. ASSUME NEW r \in Rights
        PROVE  /\ Answer(had(r)) = "YES" <=> \A b \in W : r \in A[b].rights
               /\ Answer(had(r)) = "NO" <=> \A b \in W : r \notin A[b].rights
    <3>1. PICK w : w \in W
      BY <1>3
    <3>2. had(r) = {TRUE} <=> \A b \in W : r \in A[b].rights
      BY <3>1, Zenon
    <3>3. had(r) = {FALSE} <=> \A b \in W : r \notin A[b].rights
      <4>1. ASSUME had(r) = {FALSE}, NEW b \in W PROVE r \notin A[b].rights
        <5>1. (r \in A[b].rights) \in had(r)
          BY Zenon
        <5>2. (r \in A[b].rights) = FALSE
          BY <4>1, <5>1, Zenon
        <5> QED
          BY <5>2
      <4>2. ASSUME \A b \in W : r \notin A[b].rights PROVE had(r) = {FALSE}
        <5>1. \A b \in W : (r \in A[b].rights) = FALSE
          BY <4>2
        <5> QED
          BY <3>1, <5>1, Zenon
      <4> QED
        BY <4>1, <4>2, Zenon
    <3>4. {TRUE} # {FALSE}
      BY Zenon
    <3> HIDE DEF had, W
    <3>5. /\ Answer(had(r)) = "YES" <=> had(r) = {TRUE}
          /\ Answer(had(r)) = "NO" <=> had(r) = {FALSE}
      BY <3>4 DEF Answer
    <3> QED
      BY <3>2, <3>3, <3>5
  <2> HIDE DEF info, W, gaps, had
  <2>3. info.allocated = "YES" /\ \A r \in Rights : info.rights[r] = Answer(had(r))
    BY <2>1
  <2>4. \A r \in Rights : /\ info.rights[r] = "YES" <=> \A b \in W : r \in A[b].rights
                          /\ info.rights[r] = "NO" <=> \A b \in W : r \notin A[b].rights
    BY <2>2, <2>3
  <2> QED
    BY <1>3, <2>3, <2>4 DEF info, W, gaps
<1> QED
  BY <1>1, <1>2, <1>3

-----------------------------------------------------------------------------
\* Rounding up to a page goes no further than to the next begin of a page.
LEMMA AlignIsLeast ==
  ASSUME NEW v \in Nat, NEW a \in Nat, v <= a, a % PageSize = 0, a < Top
  PROVE  AlignToPage(v) <= a
<1>1. PageSize \in Nat /\ PageSize > 0 /\ Top \in Nat /\ Top > 0
  BY PagesFit
<1>2. PICK q \in Nat : a = q * PageSize
  <2>1. PICK q \in Nat : a = q * PageSize + (a % PageSize)
    BY Division
  <2>2. q * PageSize \in Nat
    BY <1>1
  <2>3. a = q * PageSize
    BY <2>1, <2>2
  <2> QED
    BY <2>3
<1>3. PICK k \in Nat : v = k * PageSize + (v % PageSize)
  BY Division
<1>4. v % PageSize \in 0..(PageSize - 1)
  BY Division
<1>5. \A x \in 0..(Top - 1) : x % Top = x
  BY <1>1
<1>6. CASE v % PageSize = 0
  BY <1>1, <1>5, <1>6 DEF AlignToPage
<1>7. CASE v % PageSize # 0
  <2>1. k * PageSize \in Nat /\ q * PageSize \in Nat
    BY <1>1
  <2>2. k < q
    <3>1. SUFFICES ASSUME q <= k PROVE FALSE
      OBVIOUS
    <3>2. q * PageSize <= k * PageSize
      <4>1. CASE q = k
        BY <2>1, <4>1
      <4>2. CASE q < k
        <5>1. q * PageSize + PageSize <= k * PageSize
          BY <1>1, <4>2, ProductGrows
        <5> QED
          BY <1>1, <2>1, <5>1
      <4> QED
        BY <3>1, <4>1, <4>2
    <3> QED
      BY <1>1, <1>2, <1>3, <1>4, <1>7, <2>1, <3>2
  <2>3. k * PageSize + PageSize <= q * PageSize
    BY <1>1, <2>2, ProductGrows
  <2>4. v + PageSize - (v % PageSize) \in 0..(Top - 1) /\ v + PageSize - (v % PageSize) <= a
    BY <1>1, <1>2, <1>3, <1>4, <2>1, <2>3
  <2> QED
    BY <1>5, <1>7, <2>4 DEF AlignToPage
<1> QED
  BY <1>6, <1>7

-----------------------------------------------------------------------------
(* Blocks of the pool *)

SectionSizes == {s.size : s \in Sections}

\* No block of the heap and another one behind it reach the end of the space.
SizesFit ==
  \A m \in Requested \cup SectionSizes, n \in Requested :
    HeapEnd + m + n + PageSize <= Top

-----------------------------------------------------------------------------
\* A block in a free range keeps the blocks from overlapping; so does one whose
\* address is taken, as it is not inserted.
LEMMA WithBlockDisjoint ==
  ASSUME NEW A, Disjoint(A), NEW b \in Nat, NEW size \in Nat, NEW rights,
         b + size < Top, b \in DOMAIN A \/ FreeIn(A, b, size)
  PROVE  /\ Disjoint(WithBlock(A, b, size, rights))
         /\ DOMAIN WithBlock(A, b, size, rights) = DOMAIN A \cup {b}
         /\ \A c \in DOMAIN A : WithBlock(A, b, size, rights)[c] = A[c]
         /\ b \notin DOMAIN A => WithBlock(A, b, size, rights)[b].size = size
<1> DEFINE B == WithBlock(A, b, size, rights)
<1>1. DOMAIN B = DOMAIN A \cup {b}
  BY DEF WithBlock, Overlay
<1>2. \A c \in DOMAIN A : B[c] = A[c]
  BY DEF WithBlock, Overlay
<1>3. b \notin DOMAIN A => B[b].size = size
  BY DEF WithBlock, Overlay
<1> HIDE DEF B
<1>4. \A c \in DOMAIN A : EndOf(B, c) = EndOf(A, c)
  BY <1>2 DEF EndOf
<1>5. b \notin DOMAIN A => EndOf(B, b) = b + size
  BY <1>3 DEF EndOf
<1>6. \A c \in DOMAIN B : B[c].size \in Nat /\ c \in Nat
  BY <1>1, <1>2, <1>3 DEF Disjoint
<1>7. \A c \in DOMAIN B : EndOf(B, c) < Top
  BY <1>1, <1>4, <1>5 DEF Disjoint
<1>8. ASSUME NEW c \in DOMAIN B, NEW d \in DOMAIN B, c < d
      PROVE  EndOf(B, c) <= d
  <2>1. CASE c \in DOMAIN A /\ d \in DOMAIN A
    BY <2>1, <1>4, <1>8 DEF Disjoint
  <2>2. CASE c \in DOMAIN A /\ d \notin DOMAIN A
    <3>1. d = b /\ FreeIn(A, b, size)
      BY <2>2, <1>1
    <3> QED BY <3>1, <2>2, <1>4, <1>8 DEF FreeIn
  <2>3. CASE c \notin DOMAIN A
    <3>1. c = b /\ d \in DOMAIN A /\ d \in Nat /\ FreeIn(A, b, size)
      BY <2>3, <1>1, <1>8, <1>6
    <3>2. d >= b
      BY <3>1, <1>8
    <3> QED BY <3>1, <3>2, <2>3, <1>5 DEF FreeIn
  <2> QED BY <2>1, <2>2, <2>3
<1>9. Disjoint(B)
  BY <1>6, <1>7, <1>8 DEF Disjoint
<1> QED BY <1>1, <1>2, <1>3, <1>9 DEF B

-----------------------------------------------------------------------------
\* The inductive invariant.  While the prologue is executed the blocks are the
\* sections it has come to, which the loader keeps disjoint; that sizes come from
\* few sources bounds how far the blocks of the heap reach.
SizesKnown == \A b \in DOMAIN allocs : allocs[b].size \in Requested \cup SectionSizes

OnlySections ==
  loading => \A b \in DOMAIN allocs :
               /\ allocs[b].size > 0
               /\ \E s \in Sections \ pending : s.start = b /\ s.size = allocs[b].size

Inv ==
  /\ Disjoint(allocs)
  /\ pending \subseteq Sections
  /\ SizesKnown
  /\ OnlySections

\* The facts about the constants the proofs use.
LEMMA Constants ==
  /\ PageSize \in Nat \ {0}
  /\ Top \in Nat \ {0}
  /\ HeapBegin \in Nat
  /\ HeapEnd \in Nat
  /\ Requested \subseteq Nat
  /\ SectionSizes \subseteq Nat
  /\ \A s \in Sections : s.start \in Nat /\ s.size \in Nat /\ s.start + s.size < Top
<1>1. PageSize \in Nat \ {0} /\ Top \in Nat \ {0}
  BY PagedMemoryAssumption
<1>2. Address \subseteq Nat
  BY <1>1 DEF Address
<1>3. \A n \in Sizes : AlignToPage(n) \in Nat
  BY <1>2, AlignIsAddress, MemoryPoolAssumption
<1>4. \A s \in Sections : s.start \in Nat /\ s.size \in Nat /\ s.start + s.size < Top
  <2> TAKE s \in Sections
  <2>1. s.start \in Address /\ s.size \in Nat /\ EndOfSection(s) < Top
    BY MemoryPoolAssumption
  <2> QED
    BY <1>2, <2>1 DEF EndOfSection
<1>5. HeapBegin \in Nat /\ HeapEnd \in Nat
  BY <1>2, MemoryPoolAssumption
<1> QED BY <1>1, <1>3, <1>4, <1>5 DEF Requested, SectionSizes

\* The place of a section the prologue has not come to is free.
LEMMA SectionIsFree ==
  ASSUME Inv, loading, NEW s \in pending, CanComputeInfo(allocs, s.start, s.size)
  PROVE  FreeIn(allocs, s.start, s.size) /\ s.start \notin DOMAIN allocs
<1>1. s \in Sections /\ pending \subseteq Sections
  BY DEF Inv
<1>2. s.start \in Nat /\ s.size \in Nat /\ s.size > 0
  BY <1>1, Constants DEF CanComputeInfo
<1>3. ASSUME NEW b \in DOMAIN allocs
      PROVE  /\ b < s.start => EndOf(allocs, b) <= s.start
             /\ b >= s.start => s.start + s.size <= b
             /\ b # s.start
  <2>1. PICK t \in Sections \ pending : t.start = b /\ t.size = allocs[b].size
    BY DEF Inv, OnlySections
  <2>2. t.start + t.size <= s.start \/ s.start + s.size <= t.start
    BY <1>1, <2>1, MemoryPoolAssumption DEF EndOfSection
  <2>3. t.start \in Nat /\ t.size \in Nat /\ t.size > 0
    BY <2>1, Constants DEF Inv, OnlySections
  <2>4. EndOf(allocs, b) = t.start + t.size
    BY <2>1 DEF EndOf
  <2> QED
    BY <1>2, <2>1, <2>2, <2>3, <2>4
<1> QED
  BY <1>3 DEF FreeIn

\* The prologue allocates a section where no other one is.
LEMMA StaticKeepsInv ==
  ASSUME Inv, NEW s \in pending, Static(s)
  PROVE  Inv'
<1>1. CASE allocs' = allocs /\ pending' = pending /\ loading' = loading
  BY <1>1 DEF Inv, SizesKnown, OnlySections
<1>2. CASE ~(allocs' = allocs /\ pending' = pending /\ loading' = loading)
  <2>1. /\ loading
        /\ allocs' = WithBlock(allocs, s.start, s.size, s.rights)
        /\ pending' = pending \ {s}
        /\ loading' = loading
    BY <1>2 DEF Static, Stop, pools
  <2>2. s \in Sections /\ pending \subseteq Sections /\ Disjoint(allocs)
    BY DEF Inv
  <2>3. s.start \in Nat /\ s.size \in Nat /\ s.size > 0 /\ s.start + s.size < Top
    <3>1. s.size > 0
      BY <1>2 DEF Static, Stop, pools, CanComputeInfo
    <3> QED BY <2>2, <3>1, Constants
  <2>4. CanComputeInfo(allocs, s.start, s.size)
    BY <1>2 DEF Static, Stop, pools
  <2>5. FreeIn(allocs, s.start, s.size) /\ s.start \notin DOMAIN allocs
    BY <2>1, <2>4, SectionIsFree
  <2> DEFINE A == WithBlock(allocs, s.start, s.size, s.rights)
  <2>6. /\ Disjoint(A)
        /\ DOMAIN A = DOMAIN allocs \cup {s.start}
        /\ \A c \in DOMAIN allocs : A[c] = allocs[c]
        /\ s.start \notin DOMAIN allocs => A[s.start].size = s.size
    <3> DEFINE start == s.start
               size  == s.size
    <3>1. /\ start \in Nat /\ size \in Nat /\ start + size < Top
          /\ start \in DOMAIN allocs \/ FreeIn(allocs, start, size)
      BY <2>3, <2>5
    <3> HIDE DEF start, size
    <3>2. LET B == WithBlock(allocs, start, size, s.rights)
          IN  /\ Disjoint(B)
              /\ DOMAIN B = DOMAIN allocs \cup {start}
              /\ \A c \in DOMAIN allocs : B[c] = allocs[c]
              /\ start \notin DOMAIN allocs => B[start].size = size
      BY ONLY <2>2, <3>1, WithBlockDisjoint
    <3> QED BY <3>2 DEF start, size
  <2>7. allocs' = A
    BY <2>1
  <2> HIDE DEF A
  <2>8. Disjoint(allocs')
    BY <2>6, <2>7
  <2>9. SizesKnown'
    BY <2>2, <2>5, <2>6, <2>7 DEF Inv, SizesKnown, SectionSizes
  <2>10. OnlySections'
    <3>1. ASSUME NEW b \in DOMAIN A
          PROVE  /\ A[b].size > 0
                 /\ \E t \in Sections \ (pending \ {s}) : t.start = b /\ t.size = A[b].size
      <4>1. CASE b = s.start
        BY <4>1, <2>2, <2>3, <2>5, <2>6
      <4>2. CASE b # s.start
        BY <4>2, <2>1, <2>6 DEF Inv, OnlySections
      <4> QED BY <4>1, <4>2
    <3> QED BY <3>1, <2>1, <2>7 DEF OnlySections
  <2> QED BY <2>1, <2>2, <2>8, <2>9, <2>10 DEF Inv
<1> QED BY <1>1, <1>2

\* Inserting a block into a free range keeps the invariant once the prologue is
\* over; so does inserting one that is not, because its address is taken.
LEMMA AllocateAtKeepsInv ==
  ASSUME Inv, ~loading, NEW b \in Nat, NEW size \in Requested, NEW rights,
         b \in DOMAIN allocs \/ FreeIn(allocs, b, size), b + size < Top,
         AllocateAt(b, size, rights)
  PROVE  Inv'
<1> DEFINE A == WithBlock(allocs, b, size, rights)
<1>1. allocs' = A /\ pending' = pending /\ loading' = loading
  BY DEF AllocateAt
<1>2. size \in Nat /\ Disjoint(allocs)
  BY Constants DEF Inv
<1>3. /\ Disjoint(A)
      /\ DOMAIN A = DOMAIN allocs \cup {b}
      /\ \A c \in DOMAIN allocs : A[c] = allocs[c]
      /\ b \notin DOMAIN allocs => A[b].size = size
  BY ONLY <1>2, b \in Nat, b + size < Top,
          b \in DOMAIN allocs \/ FreeIn(allocs, b, size), WithBlockDisjoint
<1> HIDE DEF A
<1>4. SizesKnown'
  BY <1>1, <1>3 DEF Inv, SizesKnown
<1>5. OnlySections'
  BY <1>1 DEF OnlySections
<1> QED BY <1>1, <1>3, <1>4, <1>5 DEF Inv

\* The gap behind a block of the heap, from the next page on, is free, unless the
\* block is empty and the gap begins where the block does.
LEMMA GapIsFree ==
  ASSUME SizesFit, Inv, CanSearchHeap, NEW m \in HeapBlocks, NEW size \in Requested,
         GapFits(m, size)
  PROVE  /\ Behind(m) \in Nat
         /\ \/ Behind(m) \in DOMAIN allocs /\ allocs[m].size = 0
            \/ FreeIn(allocs, Behind(m), size)
         /\ Behind(m) + size < Top
<1> DEFINE S == {c \in DOMAIN allocs : c > m}
<1>1. m \in DOMAIN allocs /\ m \in Nat /\ m < HeapEnd
  BY DEF HeapBlocks, Inv, Disjoint
<1>2. HeapEnd \in Nat /\ size \in Nat /\ PageSize \in Nat \ {0} /\ Top \in Nat \ {0}
  BY Constants
<1>3. allocs[m].size \in Requested \cup SectionSizes /\ allocs[m].size \in Nat
  BY <1>1 DEF Inv, SizesKnown, Disjoint
<1>4. HeapEnd + allocs[m].size + size + PageSize <= Top
  BY <1>3 DEF SizesFit
<1>5. EndOf(allocs, m) \in Nat /\ EndOf(allocs, m) + PageSize + size < Top
  BY <1>1, <1>2, <1>3, <1>4 DEF EndOf
<1>6. Behind(m) \in EndOf(allocs, m)..(EndOf(allocs, m) + PageSize - 1)
  BY <1>2, <1>5, AlignBounds DEF Behind
<1>7. Behind(m) \in Nat /\ EndOf(allocs, m) <= Behind(m) /\ Behind(m) + size < Top
  BY <1>2, <1>5, <1>6
<1>8. (Behind(m) + size) % Top = Behind(m) + size
  <2>1. \A x \in 0..(Top - 1) : x % Top = x
    BY <1>2
  <2>2. Behind(m) + size \in 0..(Top - 1)
    BY <1>2, <1>7
  <2> QED BY <2>1, <2>2
<1>9. S \in SUBSET Nat /\ S # {}
  BY <1>1, <1>2 DEF CanSearchHeap, Inv, Disjoint
<1>10. \A c \in S : Behind(m) + size <= c
  <2>1. NextBlock(m) = Min(S)
    BY DEF NextBlock
  <2>2. Behind(m) + size <= Min(S)
    BY <1>8, <2>1 DEF GapFits
  <2> HIDE DEF S
  <2>3. Min(S) \in Nat /\ \A c \in S : Min(S) <= c
    BY <1>9, MinIsLeast
  <2> QED BY <1>2, <1>7, <1>9, <2>2, <2>3
<1>11. ASSUME NEW c \in DOMAIN allocs, Behind(m) \notin DOMAIN allocs \/ allocs[m].size # 0
       PROVE  /\ c < Behind(m) => EndOf(allocs, c) <= Behind(m)
              /\ c >= Behind(m) => Behind(m) + size <= c
  <2>1. c \in Nat /\ EndOf(allocs, c) \in Nat
    BY DEF Inv, Disjoint, EndOf
  <2>2. CASE c > m
    BY <2>1, <2>2, <1>2, <1>7, <1>10
  <2>3. CASE c = m
    <3>1. m <= Behind(m) /\ m # Behind(m)
      BY <1>1, <1>3, <1>7, <1>11 DEF EndOf
    <3> QED BY <2>3, <3>1, <1>1, <1>7
  <2>4. CASE c < m
    <3>1. EndOf(allocs, c) <= m
      BY <2>4, <1>1 DEF Inv, Disjoint
    <3>2. m <= EndOf(allocs, m)
      BY <1>1, <1>3 DEF EndOf
    <3> QED BY <2>1, <2>4, <3>1, <3>2, <1>1, <1>5, <1>7
  <2> QED BY <2>1, <2>2, <2>3, <2>4, <1>1
<1> QED BY <1>7, <1>11 DEF FreeIn

\* A block at a hint is put where the range is said to be free.
LEMMA AllocKeepsInv ==
  ASSUME SizesFit, Inv, NEW request \in Sizes, NEW hint \in Hints, NEW rights,
         Alloc(request, hint, rights)
  PROVE  Inv'
<1> DEFINE size == AlignToPage(request)
           at   == AlignToPage(hint)
<1>1. size \in Requested /\ size \in Nat
  BY Constants DEF Requested
<1>2. at \in Nat
  <2>1. hint \in Nat
    BY MemoryPoolAssumption DEF Address
  <2> QED BY <2>1, AlignIsAddress DEF Address
<1>3. ~loading
  BY DEF Alloc, Running
<1>4. CASE allocs' = allocs /\ pending' = pending /\ loading' = loading
  BY <1>4 DEF Inv, SizesKnown, OnlySections
<1>5. CASE /\ CanComputeInfo(allocs, at, size)
           /\ BlockInfo(allocs, at, size).allocated = "NO"
           /\ AllocateAt(at, size, rights)
  <2> HIDE DEF size, at
  <2>1. at + size < Top
    BY <1>5 DEF CanComputeInfo
  <2>2. Disjoint(allocs)
    BY DEF Inv
  <2>3. FreeIn(allocs, at, size)
    BY ONLY <1>1, <1>2, <1>5, <2>2, SaidToBeFree
  <2> QED BY <1>1, <1>2, <1>3, <1>5, <2>1, <2>3, AllocateAtKeepsInv
<1>6. CASE CanSearchHeap /\ \E b \in Places(size) : AllocateAt(b, size, rights)
  <2> HIDE DEF size
  <2>1. PICK b \in Places(size) : AllocateAt(b, size, rights)
    BY <1>6
  <2>2. PICK m \in HeapBlocks : GapFits(m, size) /\ b = Behind(m)
    BY DEF Places
  <2>3. /\ b \in Nat
        /\ b \in DOMAIN allocs \/ FreeIn(allocs, b, size)
        /\ b + size < Top
    BY <1>1, <1>6, <2>2, GapIsFree
  <2> QED BY <1>1, <1>3, <2>1, <2>3, AllocateAtKeepsInv
<1>7. \/ allocs' = allocs /\ pending' = pending /\ loading' = loading
      \/ /\ CanComputeInfo(allocs, at, size)
         /\ BlockInfo(allocs, at, size).allocated = "NO"
         /\ AllocateAt(at, size, rights)
      \/ CanSearchHeap /\ \E b \in Places(size) : AllocateAt(b, size, rights)
  <2> HIDE DEF size, at
  <2>1. ASSUME Stop("assertion")
        PROVE  allocs' = allocs /\ pending' = pending /\ loading' = loading
    BY <2>1 DEF Stop, pools
  <2>2. DEFINE hinted == at >= HeapBegin
  <2> QED BY <2>1 DEF Alloc, pools, size, at
<1> QED BY <1>4, <1>5, <1>6, <1>7

\* Releasing a block leaves the others where they are.
LEMMA FreeKeepsInv ==
  ASSUME Inv, NEW b, NEW request, Free(b, request)
  PROVE  Inv'
<1>1. pending' = pending /\ loading' = loading /\ ~loading
  BY DEF Free, Running
<1>2. \/ allocs' = allocs
      \/ allocs' = Restrict(allocs, DOMAIN allocs \ {b})
  BY DEF Free, pools
<1>3. /\ DOMAIN allocs' \subseteq DOMAIN allocs
      /\ \A c \in DOMAIN allocs' : allocs'[c] = allocs[c]
  BY <1>2 DEF Restrict
<1>4. \A c \in DOMAIN allocs' : EndOf(allocs', c) = EndOf(allocs, c)
  BY <1>3 DEF EndOf
<1>5. Disjoint(allocs')
  <2>1. DOMAIN allocs' \subseteq Nat
    BY <1>3 DEF Inv, Disjoint
  <2>2. \A c \in DOMAIN allocs' : allocs'[c].size \in Nat
    BY <1>3 DEF Inv, Disjoint
  <2>3. \A c \in DOMAIN allocs' : EndOf(allocs', c) < Top
    BY <1>3, <1>4 DEF Inv, Disjoint
  <2>4. \A c, d \in DOMAIN allocs' : c < d => EndOf(allocs', c) <= d
    BY <1>3, <1>4 DEF Inv, Disjoint
  <2> QED BY <2>1, <2>2, <2>3, <2>4 DEF Disjoint
<1>6. SizesKnown'
  BY <1>3 DEF Inv, SizesKnown
<1>7. OnlySections'
  BY <1>1 DEF OnlySections
<1> QED BY <1>1, <1>5, <1>6, <1>7 DEF Inv

-----------------------------------------------------------------------------
\* Nothing is allocated at first.
LEMMA InitHasInv == Init => Inv
  BY DEF Init, Inv, Disjoint, SizesKnown, OnlySections, EndOf

\* Every step keeps the invariant.
LEMMA NextKeepsInv ==
  ASSUME SizesFit, Inv, [Next]_vars
  PROVE  Inv'
<1>1. ASSUME UNCHANGED <<allocs, pending>>, loading' => loading
      PROVE  Inv'
  BY <1>1 DEF Inv, SizesKnown, OnlySections
<1>2. ASSUME NEW s \in pending, Static(s)
      PROVE  Inv'
  BY <1>2, StaticKeepsInv
<1>3. ASSUME NEW a \in Address, NEW data \in Data, Initialise(a, data)
      PROVE  Inv'
  BY <1>1, <1>3 DEF Initialise, Stop, pools
<1>4. CASE PrologueIsOver
  BY <1>1, <1>4 DEF PrologueIsOver, pools
<1>5. ASSUME NEW size \in Sizes, NEW hint \in Hints, NEW rights \in HeapRights,
             Alloc(size, hint, rights)
      PROVE  Inv'
  BY <1>5, AllocKeepsInv
<1>6. ASSUME NEW b \in Address, NEW size \in Sizes, Free(b, size)
      PROVE  Inv'
  BY <1>6, FreeKeepsInv
<1>7. ASSUME NEW a \in Address, NEW n \in Widths, NEW inv \in BOOLEAN, Load(a, n, inv)
      PROVE  Inv'
  BY <1>1, <1>7 DEF Load, Stop, pools
<1>8. ASSUME NEW a \in Address, NEW value \in Data, NEW inv \in BOOLEAN,
             Store(a, value, inv)
      PROVE  Inv'
  BY <1>1, <1>8 DEF Store, Stop, pools
<1>9. CASE UNCHANGED vars
  BY <1>1, <1>9 DEF vars, pools
<1> QED BY <1>2, <1>3, <1>4, <1>5, <1>6, <1>7, <1>8, <1>9 DEF Next

\* The blocks of the MEM pool never overlap, whatever sections, hints and sizes
\* the program has: MEM STATIC relies on the loader, MEM ALLOC at a hint on
\* compute_memory_block_info, and MEM ALLOC in a gap on the order of the blocks.
THEOREM BlocksNeverOverlap == ASSUME SizesFit PROVE Spec => []BlocksDisjoint
<1>1. Init => Inv
  BY InitHasInv
<1>2. Inv /\ [Next]_vars => Inv'
  BY NextKeepsInv
<1>3. Inv => BlocksDisjoint
  BY DEF Inv, Disjoint, BlocksDisjoint
<1> QED BY <1>1, <1>2, <1>3, PTL DEF Spec

-----------------------------------------------------------------------------
\* The data are sequences, whichever way round they are stored.
LEMMA DataAreBytes == \A data \in Data : Len(data) \in Nat
BY MemoryPoolAssumption

\* The same for a sequence that is turned around.
LEMMA TurnedIsSeq ==
  ASSUME NEW value \in Data, NEW inv
  PROVE  /\ Len(Turned(value, inv)) = Len(value)
         /\ \A j \in 1..Len(value) :
              Turned(value, inv)[j] = value[IF inv THEN Len(value) + 1 - j ELSE j]
BY DataAreBytes DEF Turned

\* A block put into the pool is an address with rights.
LEMMA WithBlockTyped ==
  ASSUME TypeOK, NEW b \in Address, NEW size \in Nat, NEW rights \in SUBSET Rights,
         allocs' = WithBlock(allocs, b, size, rights)
  PROVE  /\ DOMAIN allocs' \subseteq Address
         /\ \A c \in DOMAIN allocs' : allocs'[c].size \in Nat /\ allocs'[c].rights \subseteq Rights
BY DEF TypeOK, WithBlock, Overlay

\* The pages reads and writes create are pages.
LEMMA PagesTyped ==
  ASSUME TypeOK, NEW a \in Address, NEW n \in Nat, a + n < Top,
         DOMAIN content' = DOMAIN content \cup {c.page : c \in Chunks(a, n)}
  PROVE  \A p \in DOMAIN content' : p \in Address /\ p % PageSize = 0
<1>1. InSpace(a, n)
  BY Constants DEF InSpace, Address
<1>2. \A c \in Chunks(a, n) : c.page \in Address /\ c.page % PageSize = 0
  BY <1>1, ChunkIsPart, Constants DEF ChunkOK, Address
<1> QED
  BY <1>2 DEF TypeOK

\* The parts of the type invariant.
AllocsOK ==
  /\ DOMAIN allocs \subseteq Address
  /\ \A b \in DOMAIN allocs : allocs[b].size \in Nat /\ allocs[b].rights \subseteq Rights
ContentOK == \A p \in DOMAIN content : p \in Address /\ p % PageSize = 0
RestOK ==
  /\ pending \subseteq Sections /\ loading \in BOOLEAN
  /\ status \in {"running", "error", "assertion"} /\ stores \in 0..MaxStores

\* What is allocated and the content keep their types.
LEMMA StepKeepsTypes ==
  ASSUME TypeOK, [Next]_vars
  PROVE  TypeOK'
<1>0. /\ MaxStores \in Nat /\ Address \subseteq Nat
      /\ \A s \in Sections : s.start \in Address /\ s.size \in Nat /\ s.rights \in SUBSET Rights
      /\ \A n \in Sizes : AlignToPage(n) \in Address
      /\ \A h \in Hints : AlignToPage(h) \in Address
      /\ HeapRights \subseteq SUBSET Rights
  <2>1. MaxStores \in Nat /\ Address \subseteq Nat
    BY MemoryPoolAssumption, Constants DEF Address
  <2>2. /\ \A s \in Sections : s.start \in Address /\ s.size \in Nat /\ s.rights \subseteq Rights
        /\ Sizes \subseteq Address /\ Hints \subseteq Address /\ HeapRights \subseteq SUBSET Rights
    BY MemoryPoolAssumption
  <2>3. \A v \in Address : AlignToPage(v) \in Address
    BY <2>1, AlignIsAddress
  <2> QED
    BY <2>1, <2>2, <2>3
<1>1. ASSUME allocs' = allocs PROVE AllocsOK'
  BY <1>1 DEF TypeOK, AllocsOK
<1>2. ASSUME content' = content PROVE ContentOK'
  BY <1>2 DEF TypeOK, ContentOK
<1>3. ASSUME NEW how \in {"error", "assertion"}, Stop(how)
      PROVE  AllocsOK' /\ ContentOK' /\ RestOK'
  BY <1>1, <1>2, <1>3 DEF Stop, pools, TypeOK, RestOK
<1>4. ASSUME NEW s \in pending, Static(s)
      PROVE  AllocsOK' /\ ContentOK' /\ RestOK'
  <2>1. CASE Stop("assertion")
    BY <2>1, <1>3
  <2>2. CASE ~Stop("assertion")
    <3>1. /\ allocs' = WithBlock(allocs, s.start, s.size, s.rights)
          /\ pending' = pending \ {s}
          /\ UNCHANGED <<content, loading, status, stores>>
      BY <1>4, <2>2 DEF Static
    <3>2. s.start \in Address /\ s.size \in Nat /\ s.rights \in SUBSET Rights
      BY <1>0 DEF TypeOK
    <3>3. AllocsOK'
      BY <3>1, <3>2, WithBlockTyped DEF AllocsOK
    <3> QED
      BY <1>2, <3>1, <3>3 DEF TypeOK, RestOK
  <2> QED
    BY <2>1, <2>2
<1>5. ASSUME NEW a \in Address, NEW data, UNCHANGED <<allocs, pending, loading, status>>,
             stores < MaxStores, stores' = stores + 1, CanComputeInfo(allocs, a, Len(data)),
             Len(data) \in Nat, content' = WriteBytes(content, a, data)
      PROVE  AllocsOK' /\ ContentOK' /\ RestOK'
  <2>1. a + Len(data) < Top
    BY <1>5 DEF CanComputeInfo
  <2>2. DOMAIN content' = DOMAIN content \cup {c.page : c \in Chunks(a, Len(data))}
    BY <1>5 DEF WriteBytes, Overlay
  <2>3. ContentOK'
    BY <1>5, <2>1, <2>2, PagesTyped DEF ContentOK
  <2> QED
    BY <1>0, <1>1, <1>5, <2>3 DEF TypeOK, RestOK
<1>6. ASSUME NEW a \in Address, NEW data \in Data, Initialise(a, data)
      PROVE  AllocsOK' /\ ContentOK' /\ RestOK'
  <2>1. CASE Stop("assertion") \/ Stop("error")
    BY <2>1, <1>3
  <2>2. CASE ~(Stop("assertion") \/ Stop("error"))
    BY <1>5, <1>6, <2>2, DataAreBytes DEF Initialise
  <2> QED
    BY <2>1, <2>2
<1>7. ASSUME PrologueIsOver
      PROVE  AllocsOK' /\ ContentOK' /\ RestOK'
  BY <1>1, <1>2, <1>7 DEF PrologueIsOver, pools, TypeOK, RestOK
<1>8. ASSUME NEW b \in Address, NEW size \in Nat, NEW rights \in HeapRights,
             AllocateAt(b, size, rights)
      PROVE  AllocsOK' /\ ContentOK' /\ RestOK'
  <2>1. AllocsOK'
    BY <1>0, <1>8, WithBlockTyped DEF AllocateAt, AllocsOK
  <2> QED
    BY <1>2, <1>8, <2>1 DEF AllocateAt, TypeOK, RestOK
<1>9. ASSUME NEW request \in Sizes, NEW hint \in Hints, NEW rights \in HeapRights,
             Alloc(request, hint, rights)
      PROVE  AllocsOK' /\ ContentOK' /\ RestOK'
  <2> DEFINE size == AlignToPage(request)
             at == AlignToPage(hint)
  <2>1. size \in Nat /\ at \in Address
    BY <1>0
  <2>2. ASSUME NEW b \in Places(size) PROVE b \in Address
    <3>1. PICK m \in DOMAIN allocs : b = Behind(m)
      BY DEF Places, HeapBlocks
    <3>2. m \in Nat /\ allocs[m].size \in Nat
      BY <1>0 DEF TypeOK
    <3>3. EndOf(allocs, m) \in Nat
      BY <3>2 DEF EndOf
    <3> QED
      BY <3>1, <3>3, AlignIsAddress DEF Behind
  <2> HIDE DEF size, at
  <2>3. \/ Stop("assertion")
        \/ AllocateAt(at, size, rights)
        \/ UNCHANGED <<pools, pending, loading, status, stores>>
        \/ \E b \in Places(size) : AllocateAt(b, size, rights)
    BY <1>9 DEF Alloc, size, at
  <2>4. CASE UNCHANGED <<pools, pending, loading, status, stores>>
    BY <1>1, <1>2, <2>4 DEF pools, TypeOK, RestOK
  <2> QED
    BY <1>3, <1>8, <2>1, <2>2, <2>3, <2>4
<1>10. ASSUME NEW b, NEW request, Free(b, request)
       PROVE  AllocsOK' /\ ContentOK' /\ RestOK'
  <2>1. CASE UNCHANGED pools
    BY <1>1, <1>2, <1>10, <2>1 DEF Free, pools, TypeOK, RestOK
  <2>2. CASE /\ content' = PagesErased(content, b, allocs[b].size)
             /\ allocs' = Restrict(allocs, DOMAIN allocs \ {b})
    BY <1>10, <2>2 DEF Free, PagesErased, Restrict, TypeOK, AllocsOK, ContentOK, RestOK
  <2> QED
    BY <1>10, <2>1, <2>2 DEF Free
<1>11. ASSUME NEW a \in Address, NEW n \in Widths, NEW inv, Load(a, n, inv)
       PROVE  AllocsOK' /\ ContentOK' /\ RestOK'
  <2>1. CASE Stop("assertion") \/ Stop("error")
    BY <2>1, <1>3
  <2>2. CASE ~(Stop("assertion") \/ Stop("error"))
    <3>1. /\ content' = AfterRead(content, a, n) /\ CanComputeInfo(allocs, a, n)
          /\ UNCHANGED <<allocs, pending, loading, status, stores>>
      BY <1>11, <2>2 DEF Load
    <3>2. n \in Nat /\ a + n < Top
      BY <1>0, <3>1, MemoryPoolAssumption DEF CanComputeInfo
    <3>3. DOMAIN content' = DOMAIN content \cup {c.page : c \in Chunks(a, n)}
      BY <3>1 DEF AfterRead, Overlay
    <3>4. ContentOK'
      BY <3>2, <3>3, PagesTyped DEF ContentOK
    <3> QED
      BY <1>1, <3>1, <3>4 DEF TypeOK, RestOK
  <2> QED
    BY <2>1, <2>2
<1>12. ASSUME NEW a \in Address, NEW value \in Data, NEW inv, Store(a, value, inv)
       PROVE  AllocsOK' /\ ContentOK' /\ RestOK'
  <2>1. CASE Stop("assertion") \/ Stop("error")
    BY <2>1, <1>3
  <2>2. CASE ~(Stop("assertion") \/ Stop("error"))
    <3>1. Len(Turned(value, inv)) = Len(value) /\ Len(value) \in Nat
      BY DataAreBytes, TurnedIsSeq
    <3> QED
      BY <1>5, <1>12, <2>2, <3>1 DEF Store
  <2> QED
    BY <2>1, <2>2
<1>13. ASSUME UNCHANGED vars
       PROVE  AllocsOK' /\ ContentOK' /\ RestOK'
  BY <1>1, <1>2, <1>13 DEF vars, pools, TypeOK, RestOK
<1>14. AllocsOK' /\ ContentOK' /\ RestOK'
  BY <1>4, <1>6, <1>7, <1>9, <1>10, <1>11, <1>12, <1>13 DEF Next
<1> QED
  BY <1>14 DEF TypeOK, AllocsOK, ContentOK, RestOK

\* The variables keep their types.
THEOREM TypesAreCorrect == Spec => []TypeOK
<1>1. Init => TypeOK
  BY MemoryPoolAssumption DEF Init, TypeOK
<1>2. TypeOK /\ [Next]_vars => TypeOK'
  BY StepKeepsTypes
<1> QED
  BY <1>1, <1>2, PTL DEF Spec

-----------------------------------------------------------------------------
\* Something is asked for in every request.
NoEmptyRequest == 0 \notin Requested

\* How the blocks may change in a step.
BlocksMove ==
  \/ UNCHANGED <<allocs, pending>> /\ (loading' = loading \/ pending' = {})
  \/ \E s \in pending : /\ loading /\ loading'
                        /\ CanComputeInfo(allocs, s.start, s.size)
                        /\ allocs' = WithBlock(allocs, s.start, s.size, s.rights)
                        /\ pending' = pending \ {s}
  \/ /\ UNCHANGED <<pending, loading>>
     /\ ~loading
     /\ \E size \in Requested : \E b, rights : allocs' = WithBlock(allocs, b, size, rights)
  \/ /\ UNCHANGED <<pending, loading>>
     /\ ~loading
     /\ \E b \in DOMAIN allocs : /\ allocs[b].size \in Requested
                                 /\ allocs' = Restrict(allocs, DOMAIN allocs \ {b})

\* There are no other ways.
LEMMA StepMovesBlocks ==
  ASSUME [Next]_vars
  PROVE  BlocksMove
<1>1. ASSUME UNCHANGED <<allocs, pending, loading>> PROVE BlocksMove
  BY <1>1 DEF BlocksMove
<1>2. ASSUME NEW how, Stop(how) PROVE BlocksMove
  BY <1>1, <1>2 DEF Stop, pools
<1>3. ASSUME NEW s \in pending, Static(s) PROVE BlocksMove
  <2>1. CASE Stop("assertion")
    BY <2>1, <1>2
  <2>2. CASE ~Stop("assertion")
    BY <1>3, <2>2 DEF Static, BlocksMove
  <2> QED
    BY <2>1, <2>2
<1>4. ASSUME NEW a, NEW data, Initialise(a, data) PROVE BlocksMove
  BY <1>1, <1>2, <1>4 DEF Initialise
<1>5. ASSUME PrologueIsOver PROVE BlocksMove
  BY <1>5 DEF PrologueIsOver, pools, BlocksMove
<1>6. ASSUME NEW request \in Sizes, NEW hint, NEW rights, Alloc(request, hint, rights)
      PROVE  BlocksMove
  <2> DEFINE size == AlignToPage(request)
             at == AlignToPage(hint)
  <2>1. size \in Requested
    BY DEF Requested
  <2> HIDE DEF size, at
  <2>2. /\ ~loading
        /\ \/ Stop("assertion")
           \/ AllocateAt(at, size, rights)
           \/ UNCHANGED <<pools, pending, loading, status, stores>>
           \/ \E b \in Places(size) : AllocateAt(b, size, rights)
    BY <1>6 DEF Alloc, Running, size, at
  <2>3. ASSUME NEW b, AllocateAt(b, size, rights) PROVE BlocksMove
    BY <2>1, <2>2, <2>3 DEF AllocateAt, BlocksMove
  <2>4. CASE UNCHANGED <<pools, pending, loading, status, stores>>
    BY <1>1, <2>4 DEF pools
  <2> QED
    BY <1>2, <2>2, <2>3, <2>4
<1>7. ASSUME NEW b, NEW request \in Sizes, Free(b, request) PROVE BlocksMove
  <2>1. ~loading /\ UNCHANGED <<pending, loading>>
    BY <1>7 DEF Free, Running
  <2>2. CASE UNCHANGED pools
    BY <1>1, <2>1, <2>2 DEF pools
  <2>3. CASE b \in DOMAIN allocs /\ allocs[b].size = AlignToPage(request)
    BY <1>7, <2>1, <2>3 DEF Free, Requested, BlocksMove
  <2> QED
    BY <1>7, <2>2, <2>3 DEF Free
<1>8. ASSUME NEW a, NEW n, NEW inv, Load(a, n, inv) PROVE BlocksMove
  BY <1>1, <1>2, <1>8 DEF Load
<1>9. ASSUME NEW a, NEW value, NEW inv, Store(a, value, inv) PROVE BlocksMove
  BY <1>1, <1>2, <1>9 DEF Store
<1>10. ASSUME UNCHANGED vars PROVE BlocksMove
  BY <1>1, <1>10 DEF vars, pools
<1> QED
  BY <1>3, <1>4, <1>5, <1>6, <1>7, <1>8, <1>9, <1>10 DEF Next

\* When the prologue is over it has come to all sections, and a section of which
\* the size cannot be requested is never released.
HeadInv ==
  /\ ~loading => pending = {}
  /\ \A s \in Sections \ pending :
       s.size \notin Requested => s.start \in DOMAIN allocs /\ allocs[s.start].size = s.size

\* What the pool keeps up if no request is empty.
FullInv == NonEmpty(allocs) /\ HeadInv

\* Every step keeps that up.
LEMMA StepKeepsFull ==
  ASSUME NoEmptyRequest, Inv, FullInv, [Next]_vars
  PROVE  FullInv'
<1>1. CASE UNCHANGED <<allocs, pending>> /\ (loading' = loading \/ pending' = {})
  BY <1>1 DEF FullInv, HeadInv, NonEmpty
<1>2. ASSUME NEW s \in pending, loading, loading', CanComputeInfo(allocs, s.start, s.size),
             allocs' = WithBlock(allocs, s.start, s.size, s.rights), pending' = pending \ {s}
      PROVE  FullInv'
  <2>1. s.start \notin DOMAIN allocs
    BY <1>2, SectionIsFree
  <2>2. /\ DOMAIN allocs' = DOMAIN allocs \cup {s.start}
        /\ \A b \in DOMAIN allocs : allocs'[b] = allocs[b]
        /\ allocs'[s.start].size = s.size
    BY <1>2, <2>1 DEF WithBlock, Overlay
  <2>3. s.size > 0
    BY <1>2 DEF CanComputeInfo
  <2>4. NonEmpty(allocs')
    BY <2>2, <2>3 DEF NonEmpty, FullInv
  <2>5. HeadInv'
    BY <1>2, <2>2 DEF HeadInv, FullInv
  <2> QED
    BY <2>4, <2>5 DEF FullInv
<1>3. ASSUME UNCHANGED <<pending, loading>>, NEW size \in Requested, NEW b, NEW rights,
             allocs' = WithBlock(allocs, b, size, rights)
      PROVE  FullInv'
  <2>1. /\ DOMAIN allocs' = DOMAIN allocs \cup {b}
        /\ \A c \in DOMAIN allocs : allocs'[c] = allocs[c]
        /\ b \notin DOMAIN allocs => allocs'[b].size = size
    BY <1>3 DEF WithBlock, Overlay
  <2>2. size > 0
    BY <1>3, Constants DEF NoEmptyRequest
  <2>3. NonEmpty(allocs')
    BY <2>1, <2>2 DEF NonEmpty, FullInv
  <2> QED
    BY <1>3, <2>1, <2>3 DEF HeadInv, FullInv
<1>4. ASSUME UNCHANGED <<pending, loading>>, NEW b \in DOMAIN allocs, allocs[b].size \in Requested,
             allocs' = Restrict(allocs, DOMAIN allocs \ {b})
      PROVE  FullInv'
  <2>1. /\ DOMAIN allocs' = DOMAIN allocs \ {b}
        /\ \A c \in DOMAIN allocs' : allocs'[c] = allocs[c]
    BY <1>4 DEF Restrict
  <2>2. NonEmpty(allocs')
    BY <2>1 DEF NonEmpty, FullInv
  <2> QED
    BY <1>4, <2>1, <2>2 DEF HeadInv, FullInv
<1>5. BlocksMove
  BY StepMovesBlocks
<1> QED
  BY <1>1, <1>2, <1>3, <1>4, <1>5 DEF BlocksMove

\* Blocks that never overlap, none of them empty.
LEMMA FullHolds == ASSUME SizesFit, NoEmptyRequest PROVE Spec => [](Inv /\ FullInv)
<1>1. Init => Inv /\ FullInv
  BY InitHasInv DEF Init, FullInv, HeadInv, NonEmpty
<1>2. Inv /\ FullInv /\ [Next]_vars => (Inv /\ FullInv)'
  BY NextKeepsInv, StepKeepsFull
<1> QED
  BY <1>1, <1>2, PTL DEF Spec

\* The bytes that are allocated.
LEMMA BytesAreOwned ==
  ASSUME Inv, NEW x
  PROVE  /\ \A b \in DOMAIN allocs : x \in Extent(b) <=> x \in Int /\ Holds(allocs, b, x)
         /\ x \in AllocatedBytes <=> x \in Int /\ Owned(allocs, x)
<1>1. \A b \in DOMAIN allocs : b \in Nat /\ EndOf(allocs, b) \in Nat
  BY DEF Inv, Disjoint, EndOf
<1>2. \A b \in DOMAIN allocs : x \in Extent(b) <=> x \in Int /\ Holds(allocs, b, x)
  BY <1>1 DEF Extent, Holds
<1> QED
  BY <1>2 DEF AllocatedBytes, Owned, Holds

\* What compute_memory_block_info says of a range is what can be said of its
\* bytes, although it looks at one block before the range and stops at a gap.
THEOREM InfoAlwaysSummarises ==
  ASSUME SizesFit, NoEmptyRequest PROVE Spec => []InfoSummarises
<1>1. ASSUME Inv, FullInv PROVE InfoSummarises
  <2> DEFINE all == AllocatedBytes
  <2>1. SUFFICES ASSUME NEW a \in Address, NEW n \in 1..(Top - 1 - a)
                 PROVE  LET info  == BlockInfo(allocs, a, n)
                            taken == all \cap a..(a + n - 1)
                            owners == {b \in DOMAIN allocs : Extent(b) \cap taken # {}}
                        IN  /\ info.allocated = "NO" <=> taken = {}
                            /\ info.allocated = "YES" =>
                                 /\ \A x \in taken : a..x \subseteq taken
                                 /\ \A r \in Rights :
                                      /\ info.rights[r] = "YES" <=> \A b \in owners : r \in allocs[b].rights
                                      /\ info.rights[r] = "NO" <=> \A b \in owners : r \notin allocs[b].rights
    BY DEF InfoSummarises
  <2> DEFINE info  == BlockInfo(allocs, a, n)
             taken == all \cap a..(a + n - 1)
             owners == {b \in DOMAIN allocs : Extent(b) \cap taken # {}}
             W == Walked(allocs, a, n)
  <2>2. a \in Nat /\ n \in Nat /\ n > 0
    BY Constants DEF Address
  <2>3. Disjoint(allocs) /\ NonEmpty(allocs)
    BY <1>1 DEF Inv, FullInv
  <2>4. \A x : x \in taken <=> x \in a..(a + n - 1) /\ Owned(allocs, x)
    BY <1>1, <2>2, BytesAreOwned
  <2>5. \A b \in DOMAIN allocs : b \in W <=> b \in owners
    <3> TAKE b \in DOMAIN allocs
    <3>1. b \in W <=> \E x \in a..(a + n - 1) : Holds(allocs, b, x)
      BY <2>2, <2>3, WalkIsOwners
    <3>2. \A x \in a..(a + n - 1) : Holds(allocs, b, x) <=> x \in Extent(b) /\ x \in taken
      BY <1>1, <2>2, <2>4, BytesAreOwned DEF Owned
    <3> QED
      BY <3>1, <3>2
  <2>6. W = owners
    <3>1. W \subseteq DOMAIN allocs
      BY DEF Walked, Reaching
    <3> QED
      BY <2>5, <3>1
  <2>7. owners = {} <=> taken = {}
    <3>1. ASSUME NEW x \in taken PROVE owners # {}
      <4>1. PICK b : Holds(allocs, b, x)
        BY <2>4 DEF Owned
      <4>2. b \in DOMAIN allocs /\ x \in Int
        BY <2>2, <2>4, <4>1 DEF Holds
      <4>3. x \in Extent(b)
        BY <1>1, <4>1, <4>2, BytesAreOwned
      <4> QED
        BY <4>2, <4>3
    <3> QED
      BY <3>1
  <2> HIDE DEF info, taken, owners, W
  <2>8. /\ info.allocated = "NO" <=> W = {}
        /\ info.allocated = "YES" <=> W # {} /\ Gaps(allocs, a, n) = {}
        /\ info.allocated = "YES" =>
             \A r \in Rights :
               /\ info.rights[r] = "YES" <=> \A b \in W : r \in allocs[b].rights
               /\ info.rights[r] = "NO" <=> \A b \in W : r \notin allocs[b].rights
    BY InfoOfWalk DEF info, W
  <2>9. ASSUME info.allocated = "YES", NEW x \in taken, NEW y \in a..x
        PROVE  y \in taken
    <3>1. x \in a..(a + n - 1) /\ Owned(allocs, x)
      BY <2>4
    <3>2. Owned(allocs, y)
      BY <2>2, <2>3, <2>8, <2>9, <3>1, NoGapsNoHoles
    <3> QED
      BY <2>2, <2>4, <3>1, <3>2
  <2> QED
    BY <2>6, <2>7, <2>8, <2>9 DEF info, taken, owners
<1> QED
  BY <1>1, FullHolds, PTL

-----------------------------------------------------------------------------
\* The block at the begin of the heap, the thread-local data, is of a size the
\* program does not give: it cannot be released.
HeadStays == \E s \in Sections : s.start = HeapBegin /\ s.size \notin Requested

\* Wherever pages of the heap are free, the last block before them is followed by
\* a gap that holds them.
LEMMA RoomIsBehindABlock ==
  ASSUME NoEmptyRequest, HeadStays, Inv, FullInv, ~loading, CanSearchHeap,
         NEW n \in Requested, NEW a \in HeapBegin..(HeapEnd - n), a % PageSize = 0,
         a..(a + n - 1) \cap AllocatedBytes = {}
  PROVE  \E m \in HeapBlocks : GapFits(m, n)
<1> DEFINE S == {b \in HeapBlocks : b <= a}
<1>1. /\ n \in Nat /\ n > 0 /\ a \in Nat /\ HeapBegin \in Nat /\ HeapEnd \in Nat
      /\ HeapBegin <= a /\ a + n <= HeapEnd /\ HeapEnd < Top /\ Top \in Nat /\ Top > 0
  <2>1. HeapEnd < Top
    BY Constants, MemoryPoolAssumption DEF Address
  <2>2. n \in Nat /\ n > 0
    BY Constants DEF NoEmptyRequest
  <2> QED
    BY <2>1, <2>2, Constants
<1>2. \A b \in DOMAIN allocs : /\ b \in Nat /\ EndOf(allocs, b) \in Nat
                               /\ b < EndOf(allocs, b) /\ EndOf(allocs, b) < Top
  BY DEF Inv, FullInv, NonEmpty, Disjoint, EndOf
<1>3. \A b \in DOMAIN allocs : b <= a => EndOf(allocs, b) <= a
  <2> SUFFICES ASSUME NEW b \in DOMAIN allocs, b <= a, ~(EndOf(allocs, b) <= a)
               PROVE  FALSE
    OBVIOUS
  <2>1. Holds(allocs, b, a) /\ a \in a..(a + n - 1)
    BY <1>1, <1>2 DEF Holds
  <2>2. a \in AllocatedBytes
    BY <1>1, <2>1, BytesAreOwned DEF Owned
  <2> QED
    BY <2>1, <2>2
<1>4. \A b \in DOMAIN allocs : b > a => b >= a + n
  <2> SUFFICES ASSUME NEW b \in DOMAIN allocs, b > a, b < a + n
               PROVE  FALSE
    BY <1>1, <1>2
  <2>1. Holds(allocs, b, b) /\ b \in a..(a + n - 1)
    BY <1>1, <1>2 DEF Holds
  <2>2. b \in AllocatedBytes
    BY <1>2, <2>1, BytesAreOwned DEF Owned
  <2> QED
    BY <2>1, <2>2
<1>5. S \in SUBSET (0..a) /\ S # {}
  <2>1. HeapBegin \in DOMAIN allocs
    <3>1. PICK s \in Sections : s.start = HeapBegin /\ s.size \notin Requested
      BY DEF HeadStays
    <3> QED
      BY <3>1 DEF FullInv, HeadInv
  <2> QED
    BY <1>1, <1>2, <2>1 DEF HeapBlocks
<1>6. PICK m \in S : \A b \in S : b <= m
  <2> HIDE DEF S
  <2> QED
    BY <1>1, <1>5, GreatestExists
<1>7. m \in HeapBlocks /\ m \in DOMAIN allocs /\ m <= a /\ HeapBegin <= m /\ m < HeapEnd
  BY <1>6 DEF HeapBlocks
<1>8. Behind(m) \in Nat /\ Behind(m) <= a
  <2>1. EndOf(allocs, m) \in Nat /\ EndOf(allocs, m) <= a /\ a < Top
    BY <1>1, <1>2, <1>3, <1>7
  <2>2. AlignToPage(EndOf(allocs, m)) \in Nat
    BY <2>1, AlignIsAddress DEF Address
  <2> QED
    BY <1>1, <2>1, <2>2, AlignIsLeast DEF Behind
<1>9. (Behind(m) + n) % Top = Behind(m) + n
  <2>1. \A x \in 0..(Top - 1) : x % Top = x
    BY <1>1
  <2>2. Behind(m) + n \in 0..(Top - 1)
    BY <1>1, <1>8
  <2> QED
    BY <2>1, <2>2
<1> DEFINE N == {c \in DOMAIN allocs : c > m}
<1>10. N \in SUBSET Nat /\ N # {}
  BY <1>1, <1>2, <1>7 DEF CanSearchHeap
<1>11. NextBlock(m) = Min(N)
  BY DEF NextBlock
<1>12. Min(N) \in N
  <2> HIDE DEF N
  <2> QED
    BY <1>10, MinIsLeast
<1>13. NextBlock(m) >= a + n /\ NextBlock(m) \in Nat
  <2> DEFINE c == Min(N)
  <2>1. c \in DOMAIN allocs /\ c > m /\ c \in Nat
    BY <1>2, <1>12
  <2> HIDE DEF c
  <2>2. ASSUME c <= a PROVE FALSE
    <3>1. c \in S
      BY <1>1, <1>2, <1>7, <2>1, <2>2 DEF HeapBlocks
    <3> QED
      BY <1>2, <1>6, <1>7, <2>1, <3>1
  <2> QED
    BY <1>1, <1>4, <1>11, <2>1, <2>2 DEF c
<1>14. GapFits(m, n)
  BY <1>1, <1>8, <1>9, <1>13 DEF GapFits
<1> QED
  BY <1>7, <1>14

\* The search for a gap overlooks none.
THEOREM RoomIsAlwaysFound ==
  ASSUME SizesFit, NoEmptyRequest, HeadStays PROVE Spec => []RoomIsFound
<1>1. ASSUME Inv, FullInv PROVE RoomIsFound
  <2>1. SUFFICES ASSUME Running, CanSearchHeap, NEW n \in Requested, Places(n) = {},
                        NEW a \in HeapBegin..(HeapEnd - n), a % PageSize = 0,
                        a..(a + n - 1) \cap AllocatedBytes = {}
                 PROVE  FALSE
    BY DEF RoomIsFound, Requested
  <2> DEFINE fitting == {b \in HeapBlocks : GapFits(b, n)}
  <2>2. fitting # {}
    BY <1>1, <2>1, RoomIsBehindABlock DEF Running
  <2>3. fitting \in SUBSET Nat
    BY <1>1 DEF HeapBlocks, Inv, Disjoint
  <2>4. PICK m \in fitting : \A f \in fitting : m <= f
    <3> HIDE DEF fitting
    <3> QED
      BY <2>2, <2>3, LeastExists
  <2>5. Behind(m) \in Places(n)
    BY <2>4 DEF Places
  <2> QED
    BY <2>1, <2>5
<1> QED
  BY <1>1, FullHolds, PTL

-----------------------------------------------------------------------------
(***************************************************************************)
(* The pool implements FlatMemory: one lemma per action.                   *)
(***************************************************************************)
\* The bytes of the blocks in FlatMemory are those of the pool.
LEMMA SameBytes ==
  ASSUME Inv
  PROVE  /\ Flat!Allocated = AllocatedBytes
         /\ \A b \in DOMAIN allocs : Flat!Extent(b) = Extent(b)
<1>1. \A b \in DOMAIN allocs : Flat!Extent(b) = Extent(b)
  BY DEF Inv, Disjoint, Flat!Extent, Extent, EndOf
<1> QED
  BY <1>1, Zenon DEF Flat!Allocated, AllocatedBytes

\* What compute_memory_block_info grants is granted.
LEMMA GrantedIsGranted ==
  ASSUME Inv, FullInv, NEW a \in Address, NEW n \in Nat, CanComputeInfo(allocs, a, n),
         BlockInfo(allocs, a, n).allocated = "YES"
  PROVE  /\ a \in Flat!Allocated
         /\ \A r \in Rights : BlockInfo(allocs, a, n).rights[r] = "YES" => Flat!Granted(a, n, r)
<1> DEFINE info == BlockInfo(allocs, a, n)
           W == Walked(allocs, a, n)
<1>1. a \in Nat /\ n > 0 /\ a + n < Top /\ Top \in Nat
  BY Constants DEF Address, CanComputeInfo
<1>2. Disjoint(allocs) /\ NonEmpty(allocs)
  BY DEF Inv, FullInv
<1>3. /\ W # {} /\ Gaps(allocs, a, n) = {}
      /\ \A r \in Rights : info.rights[r] = "YES" <=> \A b \in W : r \in allocs[b].rights
  BY InfoOfWalk
<1>4. \A b : b \in W <=> \E x \in a..(a + n - 1) : Holds(allocs, b, x)
  BY <1>1, <1>2, WalkIsOwners
<1>5. a \in AllocatedBytes
  <2>1. PICK b \in W : TRUE
    BY <1>3
  <2>2. PICK x \in a..(a + n - 1) : Holds(allocs, b, x)
    BY <1>4
  <2>3. a \in a..x /\ Owned(allocs, x)
    BY <1>1, <2>2 DEF Owned
  <2>4. Owned(allocs, a)
    BY <1>1, <1>2, <1>3, <2>3, NoGapsNoHoles
  <2> QED
    BY <1>1, <2>4, BytesAreOwned
<1>6. ASSUME NEW b \in DOMAIN allocs, Flat!Extent(b) \cap a..(a + n - 1) # {}
      PROVE  b \in W
  <2>1. PICK x \in a..(a + n - 1) : x \in Extent(b)
    BY <1>6, SameBytes
  <2>2. Holds(allocs, b, x)
    BY <2>1, BytesAreOwned
  <2> QED
    BY <1>4, <2>2
<1>7. a..(a + n - 1) \subseteq Address
  BY <1>1 DEF Address
<1> QED
  BY <1>3, <1>5, <1>6, <1>7, SameBytes DEF Flat!Granted

\* An instruction that fails leaves everything as it was.
LEMMA StopImplemented ==
  ASSUME NEW how \in {"error", "assertion"}, Stop(how)
  PROVE  Flat!Fail
<1>1. (status' = "running") = FALSE
  BY DEF Stop
<1> QED
  BY <1>1 DEF Stop, Flat!Fail, pools

\* What a step that inserts a block does.
InsertsBlock(b, size, rights) ==
  /\ allocs' = WithBlock(allocs, b, size, rights)
  /\ result' = <<b>>
  /\ UNCHANGED <<content, loading, status>>

\* A block inserted where there is none takes a free range.
LEMMA InsertImplemented ==
  ASSUME Inv, NEW b \in Address, NEW size \in Nat, NEW rights, size > 0,
         FreeIn(allocs, b, size), InsertsBlock(b, size, rights)
  PROVE  Flat!Allocate(b, [size |-> size, rights |-> rights])
<1>1. \A c \in DOMAIN allocs : c \in Nat /\ EndOf(allocs, c) \in Nat
  BY DEF Inv, Disjoint, EndOf
<1>2. b \in Nat
  BY Constants DEF Address
<1>3. b \notin DOMAIN allocs
  BY <1>1, <1>2 DEF FreeIn
<1>4. ASSUME NEW x \in AllocatedBytes PROVE x < b \/ b + size <= x
  <2>1. PICK c \in DOMAIN allocs : Holds(allocs, c, x)
    BY BytesAreOwned DEF Owned, Holds
  <2>2. x \in Int
    BY BytesAreOwned
  <2> QED
    BY <1>1, <1>2, <2>1, <2>2 DEF Holds, FreeIn
<1>5. allocs' = [c \in DOMAIN allocs \cup {b} |->
                   IF c = b THEN [size |-> size, rights |-> rights] ELSE allocs[c]]
  BY <1>3 DEF InsertsBlock, WithBlock, Overlay
<1>6. UNCHANGED <<content, loading, status>> /\ result' = <<b>>
  BY DEF InsertsBlock
<1> QED
  BY <1>4, <1>5, <1>6, SameBytes DEF Flat!Allocate

\* MEM STATIC allocates a section, where the loader has put no other one.
LEMMA StaticImplemented ==
  ASSUME Inv, NEW s \in pending, Static(s)
  PROVE  \/ Flat!Fail
         \/ /\ s \in Sections /\ s.start \in Address
            /\ Flat!Allocate(s.start, [size |-> s.size, rights |-> s.rights])
<1>1. CASE ~CanComputeInfo(allocs, s.start, s.size)
  BY <1>1, StopImplemented DEF Static
<1>2. CASE CanComputeInfo(allocs, s.start, s.size)
  <2> DEFINE start == s.start
             size == s.size
  <2>1. s \in Sections
    BY DEF Inv
  <2>2. start \in Address /\ start \in Nat /\ size \in Nat /\ size > 0
    BY <1>2, <2>1, Constants, MemoryPoolAssumption DEF CanComputeInfo
  <2>3. FreeIn(allocs, start, size) /\ Disjoint(allocs)
    BY <1>2, SectionIsFree DEF Static, Inv
  <2>4. /\ allocs' = WithBlock(allocs, start, size, s.rights)
        /\ result' = <<IF BlockInfo(allocs, start, size).allocated = "NO" THEN start ELSE 0>>
        /\ UNCHANGED <<content, loading, status>>
    BY <1>2 DEF Static
  <2> HIDE DEF start, size
  <2>5. Walked(allocs, start, size) = {}
    BY <2>2, <2>3, FreeIsNotWalked
  <2>6. BlockInfo(allocs, start, size).allocated = "NO"
    BY <2>5, InfoOfWalk
  <2>7. InsertsBlock(start, size, s.rights)
    BY <2>4, <2>6 DEF InsertsBlock
  <2>8. Flat!Allocate(start, [size |-> size, rights |-> s.rights])
    BY <2>2, <2>3, <2>7, InsertImplemented
  <2> QED
    BY <2>1, <2>2, <2>8 DEF start, size
<1> QED
  BY <1>1, <1>2

\* MEM ALLOC allocates at the hint or in a gap, refuses or fails.
LEMMA AllocImplemented ==
  ASSUME SizesFit, NoEmptyRequest, Inv, FullInv,
         NEW request \in Sizes, NEW hint \in Hints, NEW rights \in HeapRights,
         Alloc(request, hint, rights)
  PROVE  \/ Flat!Fail
         \/ Flat!Refuse
         \/ \E b \in Address, size \in Requested : Flat!Allocate(b, [size |-> size, rights |-> rights])
<1> DEFINE size == AlignToPage(request)
           at == AlignToPage(hint)
<1>1. size \in Requested /\ size \in Nat /\ size > 0
  <2>1. size \in Requested
    BY DEF Requested
  <2> HIDE DEF size
  <2>2. size \in Nat /\ size # 0
    BY <2>1, Constants DEF NoEmptyRequest
  <2> QED
    BY <2>1, <2>2
<1>2. at \in Address /\ at \in Nat
  <2>1. hint \in Nat
    BY MemoryPoolAssumption DEF Address
  <2> QED BY <2>1, AlignIsAddress DEF Address
<1>3. Disjoint(allocs)
  BY DEF Inv
<1> HIDE DEF size, at
<1>4. ASSUME NEW b \in Address, FreeIn(allocs, b, size), AllocateAt(b, size, rights)
      PROVE  Flat!Allocate(b, [size |-> size, rights |-> rights])
  <2>1. InsertsBlock(b, size, rights)
    BY <1>4 DEF AllocateAt, InsertsBlock
  <2> QED
    BY <1>1, <1>4, <2>1, InsertImplemented
<1>5. CASE Stop("assertion")
  BY <1>5, StopImplemented
<1>6. CASE BlockInfo(allocs, at, size).allocated = "NO" /\ AllocateAt(at, size, rights)
  <2>1. FreeIn(allocs, at, size)
    BY <1>1, <1>2, <1>3, <1>6, SaidToBeFree
  <2> QED
    BY <1>1, <1>2, <1>4, <1>6, <2>1
<1>7. CASE result' = <<0>> /\ UNCHANGED <<pools, pending, loading, status, stores>>
  BY <1>7 DEF pools, Flat!Refuse
<1>8. CASE CanSearchHeap /\ \E b \in Places(size) : AllocateAt(b, size, rights)
  <2>1. PICK b \in Places(size) : AllocateAt(b, size, rights)
    BY <1>8
  <2>2. PICK m \in HeapBlocks : GapFits(m, size) /\ b = Behind(m)
    BY <2>1 DEF Places
  <2>3. /\ b \in Nat
        /\ (b \in DOMAIN allocs /\ allocs[m].size = 0) \/ FreeIn(allocs, b, size)
        /\ b + size < Top
    BY <1>1, <1>8, <2>2, GapIsFree
  <2>4. FreeIn(allocs, b, size)
    BY <2>2, <2>3 DEF FullInv, NonEmpty, HeapBlocks
  <2>5. b \in Address
    BY <1>1, <2>3, Constants DEF Address
  <2> QED
    BY <1>1, <1>4, <2>1, <2>4, <2>5
<1> QED
  BY <1>5, <1>6, <1>7, <1>8 DEF Alloc, size, at

\* MEM FREE releases a block and the pages inside it, or refuses.
LEMMA FreeImplemented ==
  ASSUME Inv, NEW b, NEW request, Free(b, request)
  PROVE  Flat!Refuse \/ (b \in DOMAIN allocs /\ Flat!Release(b))
<1>1. UNCHANGED <<loading, status>>
  BY DEF Free
<1>2. CASE result' = <<0>> /\ UNCHANGED pools
  BY <1>1, <1>2 DEF pools, Flat!Refuse
<1>3. CASE /\ b \in DOMAIN allocs
           /\ content' = PagesErased(content, b, allocs[b].size)
           /\ allocs' = Restrict(allocs, DOMAIN allocs \ {b})
           /\ result' = <<1>>
  <2>1. b \in Nat /\ allocs[b].size \in Nat
    BY <1>3 DEF Inv, Disjoint
  <2>2. \A x \in Address :
          ByteAt(content', x) = IF LET page == x - (x % PageSize)
                                   IN  page >= b /\ page + PageSize <= b + allocs[b].size
                                THEN Filler ELSE ByteAt(content, x)
    BY <1>3, <2>1, ErasesBytes, Constants DEF Address
  <2>3. allocs' = [c \in DOMAIN allocs \ {b} |-> allocs[c]]
    BY <1>3 DEF Restrict
  <2> QED
    BY <1>1, <1>3, <2>2, <2>3 DEF Flat!Release, ByteAt
<1> QED
  BY <1>2, <1>3 DEF Free

\* A load yields bytes of the array, in one of two orders, and changes none.
LEMMA LoadImplemented ==
  ASSUME Inv, FullInv, NEW a \in Address, NEW n \in Widths, NEW inv, Load(a, n, inv)
  PROVE  Flat!Fail \/ Flat!LoadSomething
<1>1. CASE Stop("assertion") \/ Stop("error")
  BY <1>1, StopImplemented
<1>2. CASE ~(Stop("assertion") \/ Stop("error"))
  <2>1. /\ CanComputeInfo(allocs, a, n)
        /\ Grants(a, n, "r")
        /\ result' = Turned(ReadBytes(content, a, n), inv)
        /\ content' = AfterRead(content, a, n)
        /\ UNCHANGED <<allocs, loading, status>>
    BY <1>2 DEF Load
  <2>2. n \in Nat /\ InSpace(a, n)
    BY <2>1, MemoryPoolAssumption, Constants DEF CanComputeInfo, InSpace, Address
  <2>3. Flat!Granted(a, n, "r")
    BY <2>1, <2>2, GrantedIsGranted DEF Grants, Rights
  <2>4. \A x \in Address : ByteAt(content', x) = ByteAt(content, x)
    BY <2>1, ReadingChangesNothing
  <2> DEFINE value == ReadBytes(content, a, n)
  <2>5. /\ Len(value) = n
        /\ \A j \in 1..n : value[j] = ByteAt(content, a + j - 1)
    <3>1. \A j \in 1..n : value[j] = ByteAt(content, a + j - 1)
      BY <2>2, ReadsBytes
    <3>2. DOMAIN value = 1..n
      BY DEF ReadBytes
    <3> HIDE DEF value
    <3>3. Len(value) = n
      BY <2>2, <3>2
    <3> QED
      BY <3>1, <3>3
  <2>6. \A j \in 1..n : a + j - 1 \in Address
    BY <2>2, Constants DEF InSpace, Address
  <2> HIDE DEF value
  <2>7. result' = [j \in 1..n |-> value[IF inv THEN n + 1 - j ELSE j]]
    BY <2>1, <2>5 DEF Turned, value
  <2> DEFINE bytes == [x \in Address |-> ByteAt(content, x)]
  <2>8. \/ result' = [j \in 1..n |-> bytes[a + j - 1]]
        \/ result' = [j \in 1..n |-> bytes[a + n - j]]
    <3>1. CASE inv
      <4>1. \A j \in 1..n : n + 1 - j \in 1..n /\ a + (n + 1 - j) - 1 = a + n - j
        BY <2>2 DEF InSpace
      <4>2. \A j \in 1..n : value[n + 1 - j] = bytes[a + n - j]
        BY <2>5, <2>6, <4>1
      <4> QED
        BY <2>7, <3>1, <4>2
    <3>2. CASE ~inv
      <4>1. \A j \in 1..n : value[j] = bytes[a + j - 1]
        BY <2>5, <2>6
      <4> QED
        BY <2>7, <3>2, <4>1
    <3> QED
      BY <3>1, <3>2
  <2>9. Flat!Load(a, n)
    BY <2>3, <2>8 DEF Flat!Load, ByteAt
  <2> QED
    BY <2>1, <2>4, <2>9 DEF Flat!LoadSomething, ByteAt
<1> QED
  BY <1>1, <1>2

\* Writing a value writes it to the array.
LEMMA WriteImplemented ==
  ASSUME NEW a \in Address, NEW data, CanComputeInfo(allocs, a, Len(data)), Len(data) \in Nat,
         content' = WriteBytes(content, a, data),
         Flat!Granted(a, Len(data), "w") \/ (a \in Flat!Allocated /\ loading)
  PROVE  Flat!Store(a, data)
<1>1. InSpace(a, Len(data))
  BY Constants DEF CanComputeInfo, InSpace, Address
<1>2. \A x \in Address :
        ByteAt(content', x) = IF x \in a..(a + Len(data) - 1) THEN data[x - a + 1] ELSE ByteAt(content, x)
  <2> TAKE x \in Address
  <2>1. x \in Nat
    BY Constants DEF Address
  <2> QED
    BY <1>1, <2>1, WritesBytes
<1> QED
  BY <1>2 DEF Flat!Store, ByteAt

\* Initial data are stored regardless of the rights.
LEMMA InitialiseImplemented ==
  ASSUME Inv, FullInv, NEW a \in Address, NEW data \in Data, Initialise(a, data)
  PROVE  Flat!Fail \/ Flat!StoreSomething
<1>1. CASE Stop("assertion") \/ Stop("error")
  BY <1>1, StopImplemented
<1>2. CASE ~(Stop("assertion") \/ Stop("error"))
  <2>1. /\ CanComputeInfo(allocs, a, Len(data))
        /\ BlockInfo(allocs, a, Len(data)).allocated = "YES"
        /\ loading
        /\ content' = WriteBytes(content, a, data)
        /\ UNCHANGED <<allocs, result, loading, status>>
    BY <1>2 DEF Initialise
  <2>2. a \in Flat!Allocated
    BY <2>1, DataAreBytes, GrantedIsGranted
  <2>3. Flat!Store(a, data)
    BY <2>1, <2>2, DataAreBytes, WriteImplemented
  <2>4. PICK inv \in BOOLEAN : ~inv
    OBVIOUS
  <2>5. data = Turned(data, inv)
    BY <2>4, MemoryPoolAssumption DEF Turned
  <2>6. data \in {Turned(v, i) : v \in Data, i \in BOOLEAN}
    BY <2>5
  <2> QED
    BY <2>1, <2>3, <2>6 DEF Flat!StoreSomething
<1> QED
  BY <1>1, <1>2

\* A store is performed where all is writable.
LEMMA StoreImplemented ==
  ASSUME Inv, FullInv, NEW a \in Address, NEW value \in Data, NEW inv \in BOOLEAN,
         Store(a, value, inv)
  PROVE  Flat!Fail \/ Flat!StoreSomething
<1>1. CASE Stop("assertion") \/ Stop("error")
  BY <1>1, StopImplemented
<1>2. CASE ~(Stop("assertion") \/ Stop("error"))
  <2> DEFINE data == Turned(value, inv)
  <2>1. /\ CanComputeInfo(allocs, a, Len(value))
        /\ Grants(a, Len(value), "w")
        /\ content' = WriteBytes(content, a, data)
        /\ UNCHANGED <<allocs, result, loading, status>>
    BY <1>2 DEF Store
  <2>2. Len(data) = Len(value) /\ Len(value) \in Nat
    BY DataAreBytes, TurnedIsSeq
  <2>3. Flat!Granted(a, Len(data), "w")
    BY <2>1, <2>2, GrantedIsGranted DEF Grants, Rights
  <2> HIDE DEF data
  <2>4. Flat!Store(a, data)
    BY <2>1, <2>2, <2>3, WriteImplemented
  <2> QED
    BY <2>1, <2>4 DEF Flat!StoreSomething, data
<1> QED
  BY <1>1, <1>2

\* Every step of the pool is one of FlatMemory or invisible.
LEMMA StepImplemented ==
  ASSUME SizesFit, NoEmptyRequest, Inv, FullInv, [Next]_vars
  PROVE  [Flat!Next]_(Flat!flatVars)
<1> DEFINE Block == [size : Requested, rights : HeapRights]
                      \cup {[size |-> s.size, rights |-> s.rights] : s \in Sections}
<1>1. CASE UNCHANGED vars
  BY <1>1 DEF vars, pools, Flat!flatVars
<1>2. CASE Next
  <2>1. status = "running"
    BY <1>2 DEF Next, Static, Initialise, PrologueIsOver, Alloc, Free, Load, Store, Running
  <2>2. ASSUME NEW s \in pending, Static(s) PROVE Flat!Next
    <3>1. CASE Flat!Fail
      BY <2>1, <3>1 DEF Flat!Next
    <3>2. CASE /\ s \in Sections /\ s.start \in Address
               /\ Flat!Allocate(s.start, [size |-> s.size, rights |-> s.rights])
      BY <2>1, <3>2 DEF Flat!Next
    <3> QED
      BY <2>2, <3>1, <3>2, StaticImplemented
  <2>3. ASSUME NEW a \in Address, NEW data \in Data, Initialise(a, data) PROVE Flat!Next
    BY <2>1, <2>3, InitialiseImplemented DEF Flat!Next
  <2>4. CASE PrologueIsOver
    <3>1. Flat!Loaded
      BY <2>4 DEF PrologueIsOver, pools, Flat!Loaded
    <3> QED
      BY <2>1, <3>1 DEF Flat!Next
  <2>5. ASSUME NEW request \in Sizes, NEW hint \in Hints, NEW rights \in HeapRights,
               Alloc(request, hint, rights)
        PROVE  Flat!Next
    <3>1. CASE Flat!Fail \/ Flat!Refuse
      BY <2>1, <3>1 DEF Flat!Next
    <3>2. ASSUME NEW b \in Address, NEW size \in Requested,
                 Flat!Allocate(b, [size |-> size, rights |-> rights])
          PROVE  Flat!Next
      <4>1. [size |-> size, rights |-> rights] \in Block
        OBVIOUS
      <4> QED
        BY <2>1, <3>2, <4>1 DEF Flat!Next
    <3> QED
      BY <2>5, <3>1, <3>2, AllocImplemented
  <2>6. ASSUME NEW b, NEW request, Free(b, request) PROVE Flat!Next
    BY <2>1, <2>6, FreeImplemented DEF Flat!Next
  <2>7. ASSUME NEW a \in Address, NEW n \in Widths, NEW inv, Load(a, n, inv) PROVE Flat!Next
    BY <2>1, <2>7, LoadImplemented DEF Flat!Next
  <2>8. ASSUME NEW a \in Address, NEW value \in Data, NEW inv \in BOOLEAN, Store(a, value, inv)
        PROVE  Flat!Next
    BY <2>1, <2>8, StoreImplemented DEF Flat!Next
  <2> QED
    BY <1>2, <2>2, <2>3, <2>4, <2>5, <2>6, <2>7, <2>8 DEF Next
<1> QED
  BY <1>1, <1>2

\* Nobody can tell the pool, with its pages that are created when they are touched
\* and erased with their blocks, from an array of bytes.
THEOREM FlatMemoryImplemented ==
  ASSUME SizesFit, NoEmptyRequest PROVE Spec => ImplementsFlatMemory
<1>1. Init => Flat!Init
  <2> SUFFICES ASSUME Init PROVE Flat!Init
    OBVIOUS
  <2>1. \A a \in Address : ByteAt(content, a) = Filler
    <3> SUFFICES ASSUME NEW a \in Address PROVE ByteAt(content, a) = Filler
      OBVIOUS
    <3>1. a % PageSize \in 0..(PageSize - 1)
      BY PageOfAddress, Constants DEF Address
    <3>2. DOMAIN content = {}
      BY DEF Init
    <3> QED
      BY <3>1, <3>2 DEF ByteAt, PageOf, BlankPage
  <2> QED
    BY <2>1 DEF Init, Flat!Init, ByteAt
<1>2. Inv /\ FullInv /\ [Next]_vars => [Flat!Next]_(Flat!flatVars)
  BY StepImplemented
<1> QED
  BY <1>1, <1>2, FullHolds, PTL DEF Spec, ImplementsFlatMemory, Flat!Spec
=============================================================================
