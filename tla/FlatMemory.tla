----------------------------- MODULE FlatMemory -----------------------------
(***************************************************************************)
(* What the MEM pool promises: an array of bytes without pages, and blocks *)
(* in it that are allocated, which never overlap.  An access is granted    *)
(* only where a block is, and only with the right to it.                   *)
(***************************************************************************)
EXTENDS Integers, Sequences

CONSTANTS
  Address,   \* the addresses
  Block,     \* the blocks that may be asked for: records [size, rights]
  Length,    \* how many bytes may be loaded
  Value,     \* the sequences of bytes that may be stored
  Fresh,     \* what a byte is before it is written
  PageSize   \* memory is released page by page

VARIABLES
  bytes,   \* from addresses to bytes
  blocks,  \* from first addresses to [size, rights]
  result,  \* what the last instruction put into its register
  loading, \* the prologue is setting the memory up
  running  \* no instruction has failed

flatVars == <<bytes, blocks, result, loading, running>>

Extent(b) == b..(b + blocks[b].size - 1)

Allocated == UNION {Extent(b) : b \in DOMAIN blocks}

\* All that is allocated of the n addresses from a may be accessed by r, and
\* the first of them is allocated.
Granted(a, n, r) ==
  /\ a..(a + n - 1) \subseteq Address
  /\ a \in Allocated
  /\ \A b \in DOMAIN blocks : Extent(b) \cap a..(a + n - 1) # {} => r \in blocks[b].rights

Init ==
  /\ bytes = [a \in Address |-> Fresh]
  /\ blocks = << >>
  /\ result = << >>
  /\ loading = TRUE
  /\ running = TRUE

Allocate(b, block) ==
  /\ result' = <<b>>
  /\ \A x \in Allocated : x < b \/ b + block.size <= x
  /\ blocks' = [c \in DOMAIN blocks \cup {b} |-> IF c = b THEN block ELSE blocks[c]]
  /\ UNCHANGED <<bytes, loading, running>>

Refuse == result' = <<0>> /\ UNCHANGED <<bytes, blocks, loading, running>>

\* The pages of a released block lose their bytes; no others do.
Release(b) ==
  /\ result' = <<1>>
  /\ blocks' = [c \in DOMAIN blocks \ {b} |-> blocks[c]]
  /\ bytes' = [a \in Address |->
                 IF LET page == a - (a % PageSize)
                    IN  page >= b /\ page + PageSize <= b + blocks[b].size
                 THEN Fresh ELSE bytes[a]]
  /\ UNCHANGED <<loading, running>>

\* A load, of one of the values it may have.
Load(a, n) ==
  /\ Granted(a, n, "r")
  /\ \/ result' = [j \in 1..n |-> bytes[a + j - 1]]
     \/ result' = [j \in 1..n |-> bytes[a + n - j]]

LoadSomething ==
  /\ UNCHANGED <<blocks, loading, running, bytes>>
  /\ \E a \in Address, n \in Length : Load(a, n)

\* The initial data are written regardless of the rights.
Store(a, data) ==
  /\ \/ Granted(a, Len(data), "w")
     \/ a \in Allocated /\ loading
  /\ bytes' = [x \in Address |-> IF x \in a..(a + Len(data) - 1) THEN data[x - a + 1] ELSE bytes[x]]

StoreSomething ==
  /\ UNCHANGED <<blocks, result, loading, running>>
  /\ \E a \in Address, data \in Value : Store(a, data)

Loaded == loading' = FALSE /\ UNCHANGED <<bytes, blocks, result, running>>

Fail == running' = FALSE /\ UNCHANGED <<bytes, blocks, result, loading>>

Next ==
  /\ running
  /\ \/ Fail
     \/ Refuse
     \/ Loaded
     \/ \E b \in DOMAIN blocks : Release(b)
     \/ LoadSomething
     \/ \E b \in Address, block \in Block : Allocate(b, block)
     \/ StoreSomething

Spec == Init /\ [][Next]_flatVars

=============================================================================
