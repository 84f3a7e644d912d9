--------------------------- MODULE ThreadProofs ---------------------------
(***************************************************************************)
(* No data dependence on an input is lost by the input frontier, whatever  *)
(* program a thread executes.  The argument follows a machine and its twin *)
(* through every kind of instruction: they agree but for the locations     *)
(* that are linked to the input.  It needs that the pools hold bytes, so   *)
(* that equal words are equal addresses, and that the program is well      *)
(* formed: its operands are there, and no copy overlaps with itself in a   *)
(* way that reads a byte it has overwritten (NextIsWellFormed).            *)
(***************************************************************************)
EXTENDS Thread, WellFoundedInduction, NaturalsInduction, TLAPS

-----------------------------------------------------------------------------
\* A set of numbers that is not empty has a least element.
LEMMA LeastExists ==
  ASSUME NEW S \in SUBSET Nat, S # {}
  PROVE  \E x \in S : \A y \in S : x <= y
<1>1. PICK x \in S : \A y \in S : <<y, x>> \notin OpToRel(<, Nat)
  BY NatLessThanWellFounded, WFMin, Zenon
<1>2. \A y \in S : <<y, x>> \in Nat \X Nat
  OBVIOUS
<1>3. \A y \in S : ~(y < x)
  BY <1>1, <1>2, Zenon DEF OpToRel
<1> QED BY <1>3

-----------------------------------------------------------------------------
(* Words *)

\* A sequence of a length, whatever its elements are.
IsSeq(w, n) == n \in Nat /\ w = [i \in 1..n |-> w[i]]

\* The length, the elements and the domain of such a sequence.
LEMMA SeqFacts ==
  ASSUME NEW w, NEW n, IsSeq(w, n)
  PROVE  Len(w) = n /\ w \in Seq({w[i] : i \in 1..n}) /\ DOMAIN w = 1..n
<1> DEFINE S == {w[i] : i \in 1..n}
<1>1. w \in [1..n -> S]
  BY DEF IsSeq
<1>2. w \in Seq(S)
  BY <1>1 DEF IsSeq
<1> QED BY <1>1, <1>2 DEF IsSeq

\* Tuple changes nothing of what is a sequence already.
LEMMA TupleIsWord ==
  ASSUME NEW w, NEW n, IsSeq(w, n)
  PROVE  Tuple(w) = w
<1> PICK S : w \in Seq(S)
  BY SeqFacts
<1> QED BY DEF Tuple

\* What Read returns: the bytes from an address on (execute_instruction.cpp reads pools this way).
LEMMA ReadBytes ==
  ASSUME NEW pool, NEW a, NEW n \in Nat
  PROVE  /\ IsSeq(Read(pool, a, n), n)
         /\ \A i \in 1..n : Read(pool, a, n)[i] = ByteAt(pool, a + i - 1)
<1> DEFINE w == [i \in 1..n |-> ByteAt(pool, a + i - 1)]
<1>1. IsSeq(w, n)
  BY DEF IsSeq
<1>2. Read(pool, a, n) = w
  <2> HIDE DEF w
  <2> QED BY <1>1, TupleIsWord DEF Read, w
<1> QED BY <1>1, <1>2

\* What ByteAt finds after a Write: the word in its range, and the old byte elsewhere.
LEMMA WriteBytes ==
  ASSUME NEW pool, NEW a, NEW w, NEW n, IsSeq(w, n), NEW l
  PROVE  ByteAt(Write(pool, a, w), l) =
           IF l \in a..(a + n - 1) THEN w[l - a + 1] ELSE ByteAt(pool, l)
<1>1. Len(w) = n
  BY SeqFacts
<1> QED BY <1>1 DEF ByteAt, Write

-----------------------------------------------------------------------------
(* Links: the pairs of an io-relation are taken one after the other *)

\* An io-relation is a sequence of pairs.
IsRelation(io) == IsSeq(io, Len(io))

\* A run of the pairs: After[i] are the links when i pairs were taken.
Takes(io, links, m, After) ==
  /\ After = [i \in 0..m |-> After[i]]
  /\ After[0] = links
  /\ \A i \in 1..m : After[i] = LinkedBy(io[i], After[i - 1])

\* However many pairs there are, they can be taken.
LEMMA TakesExists ==
  ASSUME NEW io, NEW links, NEW n \in Nat
  PROVE  \E After : Takes(io, links, n, After)
<1> DEFINE Lacking == {m \in Nat : ~\E After : Takes(io, links, m, After)}
<1>1. SUFFICES Lacking = {}
  BY <1>1
<1>2. SUFFICES ASSUME Lacking # {} PROVE FALSE
  BY <1>2
<1>3. PICK m \in Lacking : \A k \in Lacking : m <= k
  <2>1. Lacking \in SUBSET Nat
    OBVIOUS
  <2> HIDE DEF Lacking
  <2> QED BY <1>2, <2>1, LeastExists
<1>4. m # 0
  <2> SUFFICES ASSUME m = 0 PROVE FALSE
    OBVIOUS
  <2> DEFINE A == [i \in 0..0 |-> links]
  <2>1. Takes(io, links, 0, A)
    BY DEF Takes
  <2> QED BY <1>3, <2>1
<1>5. m - 1 \in Nat /\ m - 1 \notin Lacking
  BY <1>3, <1>4
<1>6. PICK B : Takes(io, links, m - 1, B)
  BY <1>5
<1> DEFINE A == [i \in 0..m |-> IF i = m THEN LinkedBy(io[m], B[m - 1]) ELSE B[i]]
<1>7. Takes(io, links, m, A)
  <2>1. A[0] = links
    BY <1>3, <1>4, <1>6 DEF Takes
  <2>2. ASSUME NEW i \in 1..m PROVE A[i] = LinkedBy(io[i], A[i - 1])
    <3>1. A[i - 1] = B[i - 1]
      BY <1>3
    <3>2. CASE i = m
      BY <3>1, <3>2, <1>3
    <3>3. CASE i # m
      <4>1. i \in 1..(m - 1) /\ A[i] = B[i]
        BY <3>3, <1>3
      <4> QED BY <4>1, <3>1, <1>6 DEF Takes
    <3> QED BY <3>2, <3>3
  <2>3. A = [i \in 0..m |-> A[i]]
    OBVIOUS
  <2> HIDE DEF A
  <2> QED BY <2>1, <2>2, <2>3 DEF Takes
<1> HIDE DEF A
<1> QED BY <1>7, <1>3

\* What Linked returns is what is linked when all pairs were taken.
LEMMA LinkedTakes ==
  ASSUME NEW io, NEW links, Len(io) \in Nat
  PROVE  \E After : Takes(io, links, Len(io), After) /\ Linked(io, links) = After[Len(io)]
<1> DEFINE n == Len(io)
           Step(A, i) == IF i = 0 THEN links ELSE UNION {LinkedBy(io[i], before) : before \in {A[i - 1]}}
           C == CHOOSE A : A = [i \in 0..n |-> Step(A, i)]
<1>1. PICK A : Takes(io, links, n, A)
  BY TakesExists
<1>2. ASSUME NEW B, NEW i
      PROVE  Step(B, i) = IF i = 0 THEN links ELSE LinkedBy(io[i], B[i - 1])
  OBVIOUS
<1>3. Linked(io, links) = C[n]
  BY DEF Linked
<1> HIDE DEF Step
<1>4. A = [i \in 0..n |-> Step(A, i)]
  <2>1. \A i \in 0..n : A[i] = Step(A, i)
    BY <1>1, <1>2 DEF Takes
  <2>2. A = [i \in 0..n |-> A[i]]
    BY <1>1 DEF Takes
  <2> QED BY <2>1, <2>2
<1>5. C = [i \in 0..n |-> Step(C, i)]
  BY <1>4
<1> HIDE DEF C
<1>6. Takes(io, links, n, C)
  <2>1. ASSUME NEW i \in 1..n PROVE C[i] = LinkedBy(io[i], C[i - 1])
    <3>1. C[i] = Step(C, i) /\ i # 0
      BY <1>5
    <3> QED BY <3>1, <1>2
  <2>2. C[0] = Step(C, 0) /\ C = [i \in 0..n |-> C[i]]
    BY <1>5
  <2> QED BY <2>1, <2>2, <1>2 DEF Takes
<1> QED BY <1>3, <1>6

\* Induction up to a bound, with a set for what holds.
LEMMA Upwards ==
  ASSUME NEW n \in Nat, NEW Good, 0 \in Good, \A i \in 1..n : i - 1 \in Good => i \in Good
  PROVE  \A i \in 0..n : i \in Good
<1> DEFINE Bad == {i \in 0..n : i \notin Good}
<1> SUFFICES ASSUME Bad # {} PROVE FALSE
  OBVIOUS
<1>1. PICK m \in Bad : \A k \in Bad : m <= k
  <2>1. Bad \in SUBSET Nat
    OBVIOUS
  <2> HIDE DEF Bad
  <2> QED BY <2>1, LeastExists
<1>2. m \in 1..n /\ m - 1 \in Good
  BY <1>1
<1> QED BY <1>1, <1>2

\* The pairs behind one, up to another one, do not write a location.
Skip(io, p, q, loc) == \A i \in (p + 1)..q : io[i][1] # loc

\* A location that is not written keeps its link, or keeps lacking it.
LEMMA TakesKeep ==
  ASSUME NEW io, NEW links, NEW m \in Nat, NEW A, Takes(io, links, m, A),
         NEW p \in 0..m, NEW q \in p..m, NEW loc, Skip(io, p, q, loc)
  PROVE  loc \in A[q] <=> loc \in A[p]
<1> DEFINE Good == {i \in Nat : p + i <= q => (loc \in A[p + i] <=> loc \in A[p])}
<1>1. 0 \in Good
  OBVIOUS
<1>2. ASSUME NEW i \in 1..(q - p), i - 1 \in Good PROVE i \in Good
  <2>1. A[p + i] = LinkedBy(io[p + i], A[p + i - 1]) /\ io[p + i][1] # loc
    <3>1. p + i \in 1..m /\ p + i \in (p + 1)..q
      OBVIOUS
    <3>2. \A k \in 1..m : A[k] = LinkedBy(io[k], A[k - 1])
      BY DEF Takes
    <3>3. A[p + i] = LinkedBy(io[p + i], A[(p + i) - 1])
      BY <3>1, <3>2
    <3>4. io[p + i][1] # loc
      BY <3>1 DEF Skip
    <3> QED BY <3>3, <3>4
  <2>2. loc \in A[p + i] <=> loc \in A[p + i - 1]
    BY <2>1 DEF LinkedBy
  <2>3. p + (i - 1) = p + i - 1
    OBVIOUS
  <2> QED BY <1>2, <2>2, <2>3
<1>3. q - p \in Nat /\ p + (q - p) = q
  OBVIOUS
<1> HIDE DEF Good
<1>4. q - p \in Good
  BY <1>1, <1>2, <1>3, Upwards
<1> QED BY <1>3, <1>4 DEF Good

\* What no pair writes.
LEMMA LinkedKeeps ==
  ASSUME NEW io, NEW links, Len(io) \in Nat, NEW loc, \A i \in 1..Len(io) : io[i][1] # loc,
         loc \in links
  PROVE  loc \in Linked(io, links)
<1>1. PICK A : Takes(io, links, Len(io), A) /\ Linked(io, links) = A[Len(io)]
  BY LinkedTakes
<1>2. A[0] = links
  BY <1>1 DEF Takes
<1>3. loc \in A[Len(io)] <=> loc \in A[0]
  <2>1. 0 \in 0..Len(io) /\ Len(io) \in 0..Len(io) /\ Skip(io, 0, Len(io), loc)
    BY DEF Skip
  <2> QED BY <1>1, <2>1, TakesKeep
<1> QED BY <1>1, <1>2, <1>3

\* A pair links what it writes, if nothing has changed what it reads before, and
\* nothing writes it again.
LEMMA LinkedByPair ==
  ASSUME NEW io, NEW links, Len(io) \in Nat, NEW k \in 1..Len(io), NEW r \in io[k][2], r \in links,
         \A j \in 1..(k - 1) : io[j][1] # r,
         \A j \in (k + 1)..Len(io) : io[j][1] # io[k][1]
  PROVE  io[k][1] \in Linked(io, links)
<1>1. PICK A : Takes(io, links, Len(io), A) /\ Linked(io, links) = A[Len(io)]
  BY LinkedTakes
<1>2. A[0] = links
  BY <1>1 DEF Takes
<1>3. r \in A[k - 1]
  <2>1. 0 \in 0..Len(io) /\ k - 1 \in 0..Len(io) /\ Skip(io, 0, k - 1, r)
    BY DEF Skip
  <2>2. r \in A[k - 1] <=> r \in A[0]
    BY <1>1, <2>1, TakesKeep
  <2> QED BY <1>2, <2>2
<1>4. io[k][1] \in A[k]
  <2>1. A[k] = LinkedBy(io[k], A[k - 1])
    BY <1>1 DEF Takes
  <2> QED BY <1>3, <2>1 DEF LinkedBy
<1>5. io[k][1] \in A[Len(io)] <=> io[k][1] \in A[k]
  <2>1. k \in 0..Len(io) /\ Len(io) \in k..Len(io) /\ Skip(io, k, Len(io), io[k][1])
    BY DEF Skip
  <2> QED BY <1>1, <2>1, TakesKeep
<1> QED BY <1>1, <1>4, <1>5

\* Pairs that all read the same link all that they write, if any of it is linked.
LEMMA LinkedByAll ==
  ASSUME NEW io, NEW links, Len(io) \in Nat, NEW reads, NEW r \in reads, r \in links,
         \A i \in 1..Len(io) : io[i][2] = reads
  PROVE  /\ \A k \in 1..Len(io) : io[k][1] \in Linked(io, links)
         /\ links \subseteq Linked(io, links)
<1>1. PICK A : Takes(io, links, Len(io), A) /\ Linked(io, links) = A[Len(io)]
  BY LinkedTakes
<1> DEFINE Good == {i \in 0..Len(io) : /\ \A k \in 1..i : io[k][1] \in A[i]
                                       /\ links \subseteq A[i]}
<1>2. 0 \in Good
  BY <1>1 DEF Takes
<1>3. ASSUME NEW i \in 1..Len(io), i - 1 \in Good PROVE i \in Good
  <2>1. A[i] = LinkedBy(io[i], A[i - 1])
    BY <1>1 DEF Takes
  <2>2. A[i] = A[i - 1] \cup {io[i][1]}
    BY <1>3, <2>1 DEF LinkedBy
  <2>3. \A k \in 1..i : k = i \/ k \in 1..(i - 1)
    OBVIOUS
  <2> QED BY <1>3, <2>2, <2>3
<1>4. Len(io) \in 0..Len(io)
  OBVIOUS
<1> HIDE DEF Good
<1>5. Len(io) \in Good
  BY <1>2, <1>3, <1>4, Upwards
<1> QED BY <1>1, <1>5 DEF Good

-----------------------------------------------------------------------------
(* The lengths of what the operators on words return *)

\* With names a value and adds nothing to it.
LEMMA WithIs ==
  ASSUME NEW value, NEW F(_)
  PROVE  With(value, F) = F(value)
BY DEF With

\* A number that is written in n bytes takes n bytes.
LEMMA WordLength ==
  ASSUME NEW v, NEW n \in Nat
  PROVE  IsSeq(Word(v, n), n)
<1> DEFINE Shifted[i \in 0..n] == IF i = 0 THEN v ELSE Shifted[i - 1] \div 256
           byte(i) == Shifted[n - i] % 256
           w == [i \in 1..n |-> byte(i)]
<1>1. Word(v, n) = Tuple(w)
  BY DEF Word
<1> HIDE DEF byte
<1>2. IsSeq(w, n)
  BY DEF IsSeq
<1> HIDE DEF w
<1> QED BY <1>1, <1>2, TupleIsWord

\* A word of zeros has its length, and zeros.
LEMMA ZerosLength ==
  ASSUME NEW n \in Nat
  PROVE  IsSeq(Zeros(n), n) /\ \A i \in 1..n : Zeros(n)[i] = 0
<1> DEFINE w == [i \in 1..n |-> 0]
<1>1. Zeros(n) = Tuple(w)
  BY DEF Zeros
<1>2. IsSeq(w, n) /\ \A i \in 1..n : w[i] = 0
  BY DEF IsSeq
<1> HIDE DEF w
<1> QED BY <1>1, <1>2, TupleIsWord

\* Reversed swaps the order of the bytes, as the INV instructions do.
LEMMA ReversedBytes ==
  ASSUME NEW w, NEW n, IsSeq(w, n)
  PROVE  IsSeq(Reversed(w), n) /\ \A i \in 1..n : Reversed(w)[i] = w[n + 1 - i]
<1> DEFINE r == [i \in 1..n |-> w[n + 1 - i]]
<1>1. Len(w) = n /\ n \in Nat
  BY SeqFacts DEF IsSeq
<1>2. Reversed(w) = Tuple(r)
  BY <1>1 DEF Reversed
<1>3. IsSeq(r, n) /\ \A i \in 1..n : r[i] = w[n + 1 - i]
  BY <1>1 DEF IsSeq
<1> HIDE DEF r
<1> QED BY <1>2, <1>3, TupleIsWord

\* A product is as long as what is multiplied.
LEMMA ProductLength ==
  ASSUME NEW u, NEW n, IsSeq(u, n), NEW k
  PROVE  IsSeq(Product(u, k), n)
<1> DEFINE Carried[i \in 0..n] == IF i = 0 THEN 0 ELSE (u[n + 1 - i] * k + Carried[i - 1]) \div 256
           byte(i) == (u[i] * k + Carried[n - i]) % 256
<1>1. Len(u) = n /\ n \in Nat
  BY SeqFacts DEF IsSeq
<1> DEFINE w == [i \in 1..n |-> byte(i)]
<1>2. Product(u, k) = Tuple(w)
  BY <1>1 DEF Product
<1> HIDE DEF byte
<1>3. IsSeq(w, n)
  BY <1>1 DEF IsSeq
<1> HIDE DEF w
<1> QED BY <1>2, <1>3, TupleIsWord

\* A quotient is as long as what is divided.
LEMMA DivisionLength ==
  ASSUME NEW u, NEW n, IsSeq(u, n), NEW d
  PROVE  IsSeq(Division(u, d).quotient, n)
<1> DEFINE Left[i \in 0..n] == IF i = 0 THEN 0 ELSE (256 * Left[i - 1] + u[i]) % d
           byte(i) == (256 * Left[i - 1] + u[i]) \div d
<1>1. Len(u) = n /\ n \in Nat
  BY SeqFacts DEF IsSeq
<1> DEFINE w == [i \in 1..n |-> byte(i)]
<1>2. Division(u, d).quotient = Tuple(w)
  BY <1>1 DEF Division
<1> HIDE DEF byte
<1>3. IsSeq(w, n)
  BY <1>1 DEF IsSeq
<1> HIDE DEF w
<1> QED BY <1>2, <1>3, TupleIsWord

\* A sum is as long as its first operand.
LEMMA SumLength ==
  ASSUME NEW u, NEW v, NEW n, IsSeq(u, n)
  PROVE  IsSeq(Sum(u, v), n)
<1> DEFINE Carried[i \in 0..n] ==
             IF i = 0 THEN 0 ELSE (u[n + 1 - i] + v[n + 1 - i] + Carried[i - 1]) \div 256
           byte(i) == (u[i] + v[i] + Carried[n - i]) % 256
           first == Carried[n]
           F(p) == Tail(SumWithCarry(p[1], p[2], 0))
           w == [i \in 1..n |-> byte(i)]
<1>1. Len(u) = n /\ n \in Nat
  BY SeqFacts DEF IsSeq
<1>2. SumWithCarry(u, v, 0) = <<first>> \o w
  BY <1>1 DEF SumWithCarry
<1>3. Sum(u, v) = Tail(SumWithCarry(u, v, 0))
  <2>1. Sum(u, v) = With(<<u, v>>, F)
    BY DEF Sum
  <2>2. With(<<u, v>>, F) = F(<<u, v>>)
    BY WithIs
  <2> QED BY <2>1, <2>2
<1> HIDE DEF byte, first
<1>4. IsSeq(w, n)
  BY <1>1 DEF IsSeq
<1>5. Tail(<<first>> \o w) = w
  <2> HIDE DEF w
  <2> DEFINE S == {w[i] : i \in 1..n} \cup {first}
  <2>1. w \in Seq(S) /\ first \in S /\ Len(w) = n
    <3>1. w \in [1..n -> S]
      BY <1>4 DEF IsSeq
    <3> QED BY <3>1, <1>1
  <2> HIDE DEF S
  <2> QED BY <2>1
<1> QED BY <1>2, <1>3, <1>4, <1>5

-----------------------------------------------------------------------------
(***************************************************************************)
(* Machines that agree but for linked locations.  Bytes that were never    *)
(* written count, too: the first of them may be written in one machine     *)
(* only, if the other one has failed.                                      *)
(***************************************************************************)
IsMachine(s) ==
  s = [reg |-> s.reg, mem |-> s.mem, blocks |-> s.blocks, streams |-> s.streams, error |-> s.error]

\* Where two pools differ there is a link.
Covers(links, pool, p, q) == \A l : ByteAt(p, l) # ByteAt(q, l) => <<pool, l>> \in links

\* The fields of a stream; its cursor is at a byte of its content or just behind.
IsStream(x) ==
  /\ x = [open |-> x.open, read |-> x.read, write |-> x.write, cursor |-> x.cursor, content |-> x.content]
  /\ IsSeq(x.content, Len(x.content))
  /\ x.cursor \in 0..Len(x.content)

\* Two streams are the same but for linked bytes.
StreamsAgree(links, id, x, y) ==
  /\ IsStream(x) /\ IsStream(y)
  /\ x.open = y.open /\ x.read = y.read /\ x.write = y.write /\ x.cursor = y.cursor
  /\ Len(x.content) = Len(y.content)
  /\ \A i \in 1..Len(x.content) : x.content[i] # y.content[i] => <<"stream", id, i - 1>> \in links

\* Two machines are the same but for linked bytes, and for their errors.
AgreeBut(s, t, links) ==
  /\ IsMachine(s) /\ IsMachine(t)
  /\ s.blocks = t.blocks
  /\ Covers(links, "reg", s.reg, t.reg)
  /\ Covers(links, "mem", s.mem, t.mem)
  /\ \A id : StreamsAgree(links, id, StreamInfo(s, id), StreamInfo(t, id))

\* Links are kept but in one range of a pool, where some are demanded.
KeepsOut(links, after, pool, a, n) ==
  \A loc \in links : loc \in after \/ \E i \in 1..n : loc = <<pool, a + i - 1>>

\* Where two words differ, the places they are written to are linked.
LinksDifferent(after, pool, a, n, w, v) ==
  \A i \in 1..n : w[i] # v[i] => <<pool, a + i - 1>> \in after

\* A word is written into the same place of two pools.
LEMMA WriteCovers ==
  ASSUME NEW links, NEW after, NEW pool, NEW p, NEW q, NEW a \in Int, NEW n, NEW w, NEW v,
         IsSeq(w, n), IsSeq(v, n), Covers(links, pool, p, q),
         KeepsOut(links, after, pool, a, n), LinksDifferent(after, pool, a, n, w, v)
  PROVE  Covers(after, pool, Write(p, a, w), Write(q, a, v))
<1> n \in Nat
  BY DEF IsSeq
<1> SUFFICES ASSUME NEW l, ByteAt(Write(p, a, w), l) # ByteAt(Write(q, a, v), l)
             PROVE  <<pool, l>> \in after
  BY DEF Covers
<1>1. CASE l \in a..(a + n - 1)
  <2>1. w[l - a + 1] # v[l - a + 1]
    BY <1>1, WriteBytes
  <2>2. l - a + 1 \in 1..n /\ a + (l - a + 1) - 1 = l
    BY <1>1
  <2> QED BY <2>1, <2>2 DEF LinksDifferent
<1>2. CASE l \notin a..(a + n - 1)
  <2>1. <<pool, l>> \in links
    BY <1>2, WriteBytes DEF Covers
  <2>2. \A i \in 1..n : a + i - 1 \in a..(a + n - 1)
    OBVIOUS
  <2>3. \A i \in 1..n : <<pool, l>> # <<pool, a + i - 1>>
    BY <1>2, <2>2
  <2> QED BY <2>1, <2>3 DEF KeepsOut
<1> QED BY <1>1, <1>2

\* A word is written into the first pool only, and all of it is linked.
LEMMA WriteAloneCovers ==
  ASSUME NEW links, NEW after, NEW pool, NEW p, NEW q, NEW a \in Int, NEW n, NEW w,
         IsSeq(w, n), Covers(links, pool, p, q), links \subseteq after,
         \A i \in 1..n : <<pool, a + i - 1>> \in after
  PROVE  Covers(after, pool, Write(p, a, w), q)
<1> n \in Nat
  BY DEF IsSeq
<1> SUFFICES ASSUME NEW l, ByteAt(Write(p, a, w), l) # ByteAt(q, l)
             PROVE  <<pool, l>> \in after
  BY DEF Covers
<1>1. CASE l \in a..(a + n - 1)
  <2>1. l - a + 1 \in 1..n /\ a + (l - a + 1) - 1 = l
    BY <1>1
  <2> QED BY <2>1
<1>2. CASE l \notin a..(a + n - 1)
  BY <1>2, WriteBytes DEF Covers
<1> QED BY <1>1, <1>2

\* What the other pool keeps.
LEMMA OtherCovers ==
  ASSUME NEW links, NEW after, NEW pool, NEW other, other # pool, NEW a, NEW n,
         NEW p, NEW q, Covers(links, other, p, q), KeepsOut(links, after, pool, a, n)
  PROVE  Covers(after, other, p, q)
BY DEF Covers, KeepsOut

\* A write to a pool takes nothing from the links of a stream.
LEMMA StreamsStillAgree ==
  ASSUME NEW links, NEW after, NEW pool, pool # "stream", NEW a, NEW n, NEW id, NEW x, NEW y,
         StreamsAgree(links, id, x, y), KeepsOut(links, after, pool, a, n)
  PROVE  StreamsAgree(after, id, x, y)
<1>1. ASSUME NEW i \in 1..Len(x.content), <<"stream", id, i - 1>> \in links
      PROVE  <<"stream", id, i - 1>> \in after
  BY <1>1 DEF KeepsOut
<1> QED BY <1>1 DEF StreamsAgree

-----------------------------------------------------------------------------
\* Reads from what agrees.
LEMMA ReadsAgree ==
  ASSUME NEW links, NEW pool, NEW p, NEW q, NEW a, NEW n \in Nat, Covers(links, pool, p, q)
  PROVE  /\ LinksDifferent(links, pool, a, n, Read(p, a, n), Read(q, a, n))
         /\ (\A i \in 1..n : <<pool, a + i - 1>> \notin links) => Read(p, a, n) = Read(q, a, n)
<1>1. LinksDifferent(links, pool, a, n, Read(p, a, n), Read(q, a, n))
  BY ReadBytes DEF LinksDifferent, Covers
<1>2. ASSUME \A i \in 1..n : <<pool, a + i - 1>> \notin links
      PROVE  Read(p, a, n) = Read(q, a, n)
  <2>1. IsSeq(Read(p, a, n), n) /\ IsSeq(Read(q, a, n), n)
    BY ReadBytes
  <2>2. \A i \in 1..n : Read(p, a, n)[i] = Read(q, a, n)[i]
    BY <1>1, <1>2 DEF LinksDifferent
  <2> QED BY <2>1, <2>2 DEF IsSeq
<1> QED BY <1>1, <1>2

\* The same range of the REG pool is written in both machines: they agree but for the links that follow.
LEMMA RegAgrees ==
  ASSUME NEW s, NEW t, NEW links, NEW after, AgreeBut(s, t, links), NEW a \in Int, NEW n, NEW w, NEW v,
         IsSeq(w, n), IsSeq(v, n),
         KeepsOut(links, after, "reg", a, n), LinksDifferent(after, "reg", a, n, w, v)
  PROVE  AgreeBut([s EXCEPT !.reg = Write(s.reg, a, w)], [t EXCEPT !.reg = Write(t.reg, a, v)], after)
<1>1. Covers(after, "reg", Write(s.reg, a, w), Write(t.reg, a, v))
  BY WriteCovers DEF AgreeBut
<1>2. Covers(after, "mem", s.mem, t.mem)
  BY OtherCovers DEF AgreeBut
<1>3. \A id : StreamsAgree(after, id, StreamInfo(s, id), StreamInfo(t, id))
  BY StreamsStillAgree DEF AgreeBut
<1> DEFINE s1 == [s EXCEPT !.reg = Write(s.reg, a, w)]
           t1 == [t EXCEPT !.reg = Write(t.reg, a, v)]
<1>4. IsMachine(s1) /\ s1.reg = Write(s.reg, a, w) /\ s1.mem = s.mem /\ s1.blocks = s.blocks /\ s1.streams = s.streams
  BY DEF AgreeBut, IsMachine
<1>5. IsMachine(t1) /\ t1.reg = Write(t.reg, a, v) /\ t1.mem = t.mem /\ t1.blocks = t.blocks /\ t1.streams = t.streams
  BY DEF AgreeBut, IsMachine
<1>6. s.blocks = t.blocks
  BY DEF AgreeBut
<1> HIDE DEF s1, t1
<1>7. \A id : StreamInfo(s1, id) = StreamInfo(s, id) /\ StreamInfo(t1, id) = StreamInfo(t, id)
  BY <1>4, <1>5 DEF StreamInfo
<1>8. AgreeBut(s1, t1, after)
  BY <1>1, <1>2, <1>3, <1>4, <1>5, <1>6, <1>7 DEF AgreeBut
<1> QED BY <1>8 DEF s1, t1

\* The same for the MEM pool.
LEMMA MemAgrees ==
  ASSUME NEW s, NEW t, NEW links, NEW after, AgreeBut(s, t, links), NEW a \in Int, NEW n, NEW w, NEW v,
         IsSeq(w, n), IsSeq(v, n),
         KeepsOut(links, after, "mem", a, n), LinksDifferent(after, "mem", a, n, w, v)
  PROVE  AgreeBut([s EXCEPT !.mem = Write(s.mem, a, w)], [t EXCEPT !.mem = Write(t.mem, a, v)], after)
<1>1. Covers(after, "mem", Write(s.mem, a, w), Write(t.mem, a, v))
  BY WriteCovers DEF AgreeBut
<1>2. Covers(after, "reg", s.reg, t.reg)
  BY OtherCovers DEF AgreeBut
<1>3. \A id : StreamsAgree(after, id, StreamInfo(s, id), StreamInfo(t, id))
  BY StreamsStillAgree DEF AgreeBut
<1> DEFINE s1 == [s EXCEPT !.mem = Write(s.mem, a, w)]
           t1 == [t EXCEPT !.mem = Write(t.mem, a, v)]
<1>4. IsMachine(s1) /\ s1.mem = Write(s.mem, a, w) /\ s1.reg = s.reg /\ s1.blocks = s.blocks /\ s1.streams = s.streams
  BY DEF AgreeBut, IsMachine
<1>5. IsMachine(t1) /\ t1.mem = Write(t.mem, a, v) /\ t1.reg = t.reg /\ t1.blocks = t.blocks /\ t1.streams = t.streams
  BY DEF AgreeBut, IsMachine
<1>6. s.blocks = t.blocks
  BY DEF AgreeBut
<1> HIDE DEF s1, t1
<1>7. \A id : StreamInfo(s1, id) = StreamInfo(s, id) /\ StreamInfo(t1, id) = StreamInfo(t, id)
  BY <1>4, <1>5 DEF StreamInfo
<1>8. AgreeBut(s1, t1, after)
  BY <1>1, <1>2, <1>3, <1>4, <1>5, <1>6, <1>7 DEF AgreeBut
<1> QED BY <1>8 DEF s1, t1

-----------------------------------------------------------------------------
(* What io-relations link *)

\* The locations of a range of a pool.
ArePlaces(writes, pool, a, n) == IsSeq(writes, n) /\ \A i \in 1..n : writes[i] = <<pool, a + i - 1>>

\* An io-relation tells enough about two words that are written to a range.
Tells(io, links, pool, a, n, w, v) ==
  /\ KeepsOut(links, Linked(io, links), pool, a, n)
  /\ LinksDifferent(Linked(io, links), pool, a, n, w, v)

\* InReg and InMem list the locations of a range in its order.
LEMMA RangesArePlaces ==
  ASSUME NEW a, NEW n \in Nat
  PROVE  ArePlaces(InReg(a, n), "reg", a, n) /\ ArePlaces(InMem(a, n), "mem", a, n)
BY DEF ArePlaces, InReg, InMem, IsSeq

\* Pairs that write nothing but a range.
LEMMA OnlyRangeChanges ==
  ASSUME NEW io, Len(io) \in Nat, NEW links, NEW pool, NEW a, NEW n,
         \A k \in 1..Len(io) : \E i \in 1..n : io[k][1] = <<pool, a + i - 1>>
  PROVE  KeepsOut(links, Linked(io, links), pool, a, n)
<1> SUFFICES ASSUME NEW loc \in links, \A i \in 1..n : loc # <<pool, a + i - 1>>
             PROVE  loc \in Linked(io, links)
  BY DEF KeepsOut
<1>1. \A k \in 1..Len(io) : io[k][1] # loc
  OBVIOUS
<1> QED BY <1>1, LinkedKeeps

\* A relation that makes everything depend on all of what is read tells enough if the words differ only
\* when something that is read is linked; and then all that is written is linked.
LEMMA OneToNTells ==
  ASSUME NEW links, NEW pool, NEW a, NEW n \in Nat, NEW w, NEW v, NEW reads, NEW writes,
         ArePlaces(writes, pool, a, n), (\A r \in LocationsOf(reads) : r \notin links) => w = v
  PROVE  /\ Tells(OneToN(reads, writes), links, pool, a, n, w, v)
         /\ w # v => /\ links \subseteq Linked(OneToN(reads, writes), links)
                     /\ \A i \in 1..n : <<pool, a + i - 1>> \in Linked(OneToN(reads, writes), links)
<1> DEFINE io == OneToN(reads, writes)
<1>1. Len(writes) = n
  BY SeqFacts DEF ArePlaces
<1>2. IsSeq(io, n) /\ \A k \in 1..n : io[k][1] = <<pool, a + k - 1>> /\ io[k][2] = LocationsOf(reads)
  BY <1>1 DEF OneToN, IsSeq, ArePlaces
<1> HIDE DEF io
<1>3. Len(io) = n
  BY <1>2, SeqFacts
<1>4. KeepsOut(links, Linked(io, links), pool, a, n)
  <2>1. \A k \in 1..Len(io) : \E i \in 1..n : io[k][1] = <<pool, a + i - 1>>
    BY <1>2, <1>3
  <2> QED BY <1>3, <2>1, OnlyRangeChanges
<1>5. ASSUME w # v
      PROVE  /\ links \subseteq Linked(io, links)
             /\ \A i \in 1..n : <<pool, a + i - 1>> \in Linked(io, links)
  <2>1. PICK r \in LocationsOf(reads) : r \in links
    BY <1>5
  <2>2. \A k \in 1..Len(io) : io[k][2] = LocationsOf(reads)
    BY <1>2, <1>3
  <2>3. /\ \A k \in 1..Len(io) : io[k][1] \in Linked(io, links)
        /\ links \subseteq Linked(io, links)
    BY <1>3, <2>1, <2>2, LinkedByAll
  <2> QED BY <1>2, <1>3, <2>3
<1>6. LinksDifferent(Linked(io, links), pool, a, n, w, v)
  BY <1>5 DEF LinksDifferent
<1> QED BY <1>4, <1>5, <1>6 DEF Tells, io

\* A relation of single bytes tells enough if no byte is read behind the place where it was written.
LEMMA OneToOneTells ==
  ASSUME NEW links, NEW pool, NEW a \in Int, NEW n \in Nat, NEW w, NEW v, NEW from, NEW writes,
         ArePlaces(writes, pool, a, n), IsSeq(from, n),
         \A i \in 1..n : w[i] # v[i] => from[i] \in links,
         \A j \in 1..n : \A i \in 1..(j - 1) : <<pool, a + i - 1>> # from[j]
  PROVE  Tells(OneToOne(from, writes), links, pool, a, n, w, v)
<1> DEFINE io == OneToOne(from, writes)
<1>1. Len(writes) = n
  BY SeqFacts DEF ArePlaces
<1>2. IsSeq(io, n) /\ \A k \in 1..n : io[k][1] = <<pool, a + k - 1>> /\ io[k][2] = {from[k]}
  BY <1>1 DEF OneToOne, IsSeq, ArePlaces
<1> HIDE DEF io
<1>3. Len(io) = n
  BY <1>2, SeqFacts
<1>4. KeepsOut(links, Linked(io, links), pool, a, n)
  <2>1. \A k \in 1..Len(io) : \E i \in 1..n : io[k][1] = <<pool, a + i - 1>>
    BY <1>2, <1>3
  <2> QED BY <1>3, <2>1, OnlyRangeChanges
<1>5. ASSUME NEW k \in 1..n, w[k] # v[k]
      PROVE  <<pool, a + k - 1>> \in Linked(io, links)
  <2>1. from[k] \in io[k][2] /\ from[k] \in links
    BY <1>2, <1>5
  <2>2. \A j \in 1..(k - 1) : io[j][1] # from[k]
    BY <1>2
  <2>3. \A j \in (k + 1)..Len(io) : io[j][1] # io[k][1]
    <3>1. \A j \in (k + 1)..n : a + j - 1 # a + k - 1
      OBVIOUS
    <3>2. \A j \in (k + 1)..n : io[j][1] = <<pool, a + j - 1>> /\ io[k][1] = <<pool, a + k - 1>>
      BY <1>2
    <3> QED BY <1>3, <3>1, <3>2
  <2>4. io[k][1] \in Linked(io, links)
    BY <1>3, <2>1, <2>2, <2>3, LinkedByPair
  <2> QED BY <1>2, <2>4
<1> QED BY <1>4, <1>5 DEF Tells, LinksDifferent, io

\* The same for a relation in which every byte depends on two.
LEMMA OneToTwoTells ==
  ASSUME NEW links, NEW pool, NEW a \in Int, NEW n \in Nat, NEW w, NEW v,
         NEW from0, NEW from1, NEW writes,
         ArePlaces(writes, pool, a, n),
         \A i \in 1..n : w[i] # v[i] => from0[i] \in links \/ from1[i] \in links,
         \A j \in 1..n : \A i \in 1..(j - 1) : <<pool, a + i - 1>> \notin {from0[j], from1[j]}
  PROVE  Tells(OneToTwo(from0, from1, writes), links, pool, a, n, w, v)
<1> DEFINE io == OneToTwo(from0, from1, writes)
<1>1. Len(writes) = n
  BY SeqFacts DEF ArePlaces
<1>2. IsSeq(io, n) /\ \A k \in 1..n : io[k][1] = <<pool, a + k - 1>> /\ io[k][2] = {from0[k], from1[k]}
  BY <1>1 DEF OneToTwo, IsSeq, ArePlaces
<1> HIDE DEF io
<1>3. Len(io) = n
  BY <1>2, SeqFacts
<1>4. KeepsOut(links, Linked(io, links), pool, a, n)
  <2>1. \A k \in 1..Len(io) : \E i \in 1..n : io[k][1] = <<pool, a + i - 1>>
    BY <1>2, <1>3
  <2> QED BY <1>3, <2>1, OnlyRangeChanges
<1>5. ASSUME NEW k \in 1..n, w[k] # v[k]
      PROVE  <<pool, a + k - 1>> \in Linked(io, links)
  <2>1. PICK r \in {from0[k], from1[k]} : r \in links
    BY <1>5
  <2>2. \A j \in 1..(k - 1) : io[j][1] # r
    BY <1>2
  <2>3. \A j \in (k + 1)..Len(io) : io[j][1] # io[k][1]
    <3>1. \A j \in (k + 1)..n : a + j - 1 # a + k - 1
      OBVIOUS
    <3>2. \A j \in (k + 1)..n : io[j][1] = <<pool, a + j - 1>> /\ io[k][1] = <<pool, a + k - 1>>
      BY <1>2
    <3> QED BY <1>3, <3>1, <3>2
  <2>4. io[k][1] \in Linked(io, links)
    <3>1. r \in io[k][2]
      BY <1>2
    <3> QED BY <1>3, <2>1, <2>2, <2>3, <3>1, LinkedByPair
  <2> QED BY <1>2, <2>4
<1> QED BY <1>4, <1>5 DEF Tells, LinksDifferent, io

\* First the address is listed, and then where the bytes come from.
LEMMA AddressedTells ==
  ASSUME NEW links, NEW pool, NEW a \in Int, NEW n \in Nat, NEW w, NEW v, NEW reads, NEW from,
         NEW writes, ArePlaces(writes, pool, a, n), IsSeq(from, n),
         \A i \in 1..n : w[i] # v[i] => from[i] \in links,
         \A i, j \in 1..n : <<pool, a + i - 1>> # from[j]
  PROVE  Tells(OneToN(reads, writes) \o OneToOne(from, writes), links, pool, a, n, w, v)
<1> DEFINE io0 == OneToN(reads, writes)
           io1 == OneToOne(from, writes)
           io == io0 \o io1
<1>1. Len(writes) = n
  BY SeqFacts DEF ArePlaces
<1>2. IsSeq(io0, n) /\ \A k \in 1..n : io0[k][1] = <<pool, a + k - 1>>
  BY <1>1 DEF OneToN, IsSeq, ArePlaces
<1>3. IsSeq(io1, n) /\ \A k \in 1..n : io1[k][1] = <<pool, a + k - 1>> /\ io1[k][2] = {from[k]}
  BY <1>1 DEF OneToOne, IsSeq, ArePlaces
<1> HIDE DEF io0, io1
<1>4. /\ Len(io) = n + n
      /\ \A k \in 1..n : io[k] = io0[k] /\ io[n + k] = io1[k]
  <2> DEFINE S == {io0[i] : i \in 1..n} \cup {io1[i] : i \in 1..n}
  <2>1. io0 \in [1..n -> S] /\ io1 \in [1..n -> S]
    BY <1>2, <1>3 DEF IsSeq
  <2> HIDE DEF S
  <2>2. io0 \in Seq(S) /\ io1 \in Seq(S) /\ Len(io0) = n /\ Len(io1) = n
    BY <2>1
  <2> QED BY <2>2
<1> HIDE DEF io
<1>5. \A k \in 1..Len(io) : k \in 1..n \/ (k - n \in 1..n /\ n + (k - n) = k)
  BY <1>4
<1> DEFINE place(k) == IF k \in 1..n THEN k ELSE k - n
<1>6. \A k \in 1..Len(io) : place(k) \in 1..n /\ io[k][1] = <<pool, a + place(k) - 1>>
  <2> SUFFICES ASSUME NEW k \in 1..Len(io)
               PROVE  place(k) \in 1..n /\ io[k][1] = <<pool, a + place(k) - 1>>
    OBVIOUS
  <2>1. CASE k \in 1..n
    BY <1>2, <1>4, <2>1
  <2>2. CASE k \notin 1..n
    <3>1. k - n \in 1..n /\ n + (k - n) = k
      BY <1>5, <2>2
    <3>2. io[n + (k - n)] = io1[k - n] /\ io1[k - n][1] = <<pool, a + (k - n) - 1>>
      BY <1>3, <1>4, <3>1
    <3> QED BY <2>2, <3>1, <3>2
  <2> QED BY <2>1, <2>2
<1>7. KeepsOut(links, Linked(io, links), pool, a, n)
  <2>1. \A k \in 1..Len(io) : \E i \in 1..n : io[k][1] = <<pool, a + i - 1>>
    BY <1>6
  <2>2. Len(io) \in Nat
    BY <1>4
  <2> QED BY <2>1, <2>2, OnlyRangeChanges
<1>8. ASSUME NEW k \in 1..n, w[k] # v[k]
      PROVE  <<pool, a + k - 1>> \in Linked(io, links)
  <2>1. /\ io[n + k][1] = <<pool, a + k - 1>> /\ io[n + k][2] = {from[k]}
        /\ n + k \in 1..Len(io) /\ from[k] \in links
    <3>1. io[n + k] = io1[k]
      BY <1>4
    <3>2. n + k \in 1..Len(io)
      BY <1>4
    <3> QED BY <1>3, <1>8, <3>1, <3>2
  <2>2. \A j \in 1..((n + k) - 1) : io[j][1] # from[k]
    <3>1. \A j \in 1..((n + k) - 1) : j \in 1..Len(io)
      BY <1>4
    <3> QED BY <1>6, <3>1
  <2>3. \A j \in ((n + k) + 1)..Len(io) : io[j][1] # io[n + k][1]
    <3>1. \A j \in ((n + k) + 1)..Len(io) : j - n \in (k + 1)..n /\ j \notin 1..n /\ j \in 1..Len(io)
      BY <1>4
    <3>2. \A j \in ((n + k) + 1)..Len(io) : io[j][1] = <<pool, a + (j - n) - 1>>
      BY <1>6, <3>1
    <3>3. \A j \in (k + 1)..n : a + j - 1 # a + k - 1
      OBVIOUS
    <3> QED BY <2>1, <3>1, <3>2, <3>3
  <2>4. io[n + k][1] \in Linked(io, links)
    <3>1. from[k] \in io[n + k][2]
      BY <2>1
    <3>2. Len(io) \in Nat
      BY <1>4
    <3> QED BY <2>1, <2>2, <2>3, <3>1, <3>2, LinkedByPair
  <2> QED BY <2>1, <2>4
<1> QED BY <1>7, <1>8 DEF Tells, LinksDifferent, io, io0, io1

-----------------------------------------------------------------------------
(* What single instructions do with machines that agree *)

\* What the twin does agrees with what the machine does, but for what is linked then.
Follows(step, other, links) == AgreeBut(step.cpu, other.cpu, Linked(step.io, links))

\* What Assigns returns.
LEMMA AssignsIs ==
  ASSUME NEW s, NEW a, NEW w, NEW io
  PROVE  Assigns(s, a, w, io) = [cpu |-> [s EXCEPT !.reg = Write(s.reg, a, w)], io |-> io]
BY DEF Assigns, With

\* Both machines assign a register, and the io-relation of the first one tells enough about it.
LEMMA AssignsAgree ==
  ASSUME NEW s, NEW t, NEW links, AgreeBut(s, t, links), NEW a \in Int, NEW n, NEW w, NEW v,
         IsSeq(w, n), IsSeq(v, n), NEW io, NEW other, Tells(io, links, "reg", a, n, w, v)
  PROVE  Follows(Assigns(s, a, w, io), Assigns(t, a, v, other), links)
<1>1. AgreeBut([s EXCEPT !.reg = Write(s.reg, a, w)], [t EXCEPT !.reg = Write(t.reg, a, v)], Linked(io, links))
  BY RegAgrees DEF Tells
<1> QED BY <1>1, AssignsIs DEF Follows

\* Both assign a result that may differ only if an operand is linked.
LEMMA MixesAgree ==
  ASSUME NEW s, NEW t, NEW links, AgreeBut(s, t, links), NEW I, I.a0 \in Int, NEW n, NEW w, NEW v,
         IsSeq(w, n), IsSeq(v, n), NEW operands, (\A r \in LocationsOf(operands) : r \notin links) => w = v
  PROVE  Follows(Mixes(I, s, w, operands), Mixes(I, t, v, operands), links)
<1>1. Len(w) = n /\ Len(v) = n /\ n \in Nat
  BY SeqFacts DEF IsSeq
<1>2. ArePlaces(InReg(I.a0, n), "reg", I.a0, n)
  BY <1>1, RangesArePlaces
<1>3. Tells(OneToN(operands, InReg(I.a0, n)), links, "reg", I.a0, n, w, v)
  BY <1>1, <1>2, OneToNTells
<1> QED BY <1>1, <1>3, AssignsAgree DEF Mixes

\* The locations of operands.
LEMMA InRegLocations ==
  ASSUME NEW a, NEW n \in Nat
  PROVE  LocationsOf(InReg(a, n)) = {<<"reg", a + i - 1>> : i \in 1..n}
<1>1. Len(InReg(a, n)) = n
  BY RangesArePlaces, SeqFacts DEF ArePlaces
<1> QED BY <1>1 DEF LocationsOf, InReg

\* The locations of two operands are those of the one and those of the other.
LEMMA BothLocations ==
  ASSUME NEW x, NEW y, NEW m, NEW n, IsSeq(x, m), IsSeq(y, n)
  PROVE  LocationsOf(x \o y) = LocationsOf(x) \cup LocationsOf(y)
<1>1. Len(x) = m /\ Len(y) = n /\ m \in Nat /\ n \in Nat
  BY SeqFacts DEF IsSeq
<1> DEFINE S == {x[i] : i \in 1..m} \cup {y[i] : i \in 1..n}
<1>2. x \in [1..m -> S] /\ y \in [1..n -> S]
  BY DEF IsSeq
<1> HIDE DEF S
<1>3. x \in Seq(S) /\ y \in Seq(S)
  BY <1>1, <1>2
<1>4. /\ Len(x \o y) = m + n
      /\ \A i \in 1..m : (x \o y)[i] = x[i]
      /\ \A i \in 1..n : (x \o y)[m + i] = y[i]
  BY <1>1, <1>3
<1>5. \A k \in 1..(m + n) : k \in 1..m \/ (k - m \in 1..n /\ m + (k - m) = k)
  BY <1>1
<1>6. \A i \in 1..n : m + i \in 1..(m + n)
  BY <1>1
<1>7. \A i \in 1..m : i \in 1..(m + n)
  BY <1>1
<1>8. \A r \in LocationsOf(x \o y) : r \in LocationsOf(x) \cup LocationsOf(y)
  BY <1>1, <1>4, <1>5 DEF LocationsOf
<1>9. \A r \in LocationsOf(x) \cup LocationsOf(y) : r \in LocationsOf(x \o y)
  BY <1>1, <1>4, <1>6, <1>7 DEF LocationsOf
<1> QED BY <1>8, <1>9

\* An operand no byte of which is linked is the same in both machines.
LEMMA OperandsSame ==
  ASSUME NEW s, NEW t, NEW links, AgreeBut(s, t, links), NEW a, NEW n \in Nat,
         \A r \in LocationsOf(InReg(a, n)) : r \notin links
  PROVE  Read(s.reg, a, n) = Read(t.reg, a, n)
<1>1. \A i \in 1..n : <<"reg", a + i - 1>> \notin links
  BY InRegLocations
<1>2. Covers(links, "reg", s.reg, t.reg)
  BY DEF AgreeBut
<1> QED BY <1>1, <1>2, ReadsAgree

-----------------------------------------------------------------------------
\* Results every byte of which depends on one operand, ...
LEMMA OneOperandAgrees ==
  ASSUME NEW s, NEW t, NEW links, AgreeBut(s, t, links), NEW I, I.a0 \in Int, I.n \in Nat,
         NEW n, NEW w, NEW v, IsSeq(w, n), IsSeq(v, n), First(I, s) = First(I, t) => w = v
  PROVE  Follows(Mixes(I, s, w, InReg(I.a1, I.n)), Mixes(I, t, v, InReg(I.a1, I.n)), links)
<1>1. (\A r \in LocationsOf(InReg(I.a1, I.n)) : r \notin links) => w = v
  BY OperandsSame DEF First
<1> QED BY <1>1, MixesAgree

\* ... and on two.
LEMMA TwoOperandsAgree ==
  ASSUME NEW s, NEW t, NEW links, AgreeBut(s, t, links), NEW I, I.a0 \in Int, I.n \in Nat,
         NEW n, NEW w, NEW v, IsSeq(w, n), IsSeq(v, n), NEW m \in Nat,
         First(I, s) = First(I, t) /\ Read(s.reg, I.a2, m) = Read(t.reg, I.a2, m) => w = v
  PROVE  Follows(Mixes(I, s, w, InReg(I.a1, I.n) \o InReg(I.a2, m)),
                 Mixes(I, t, v, InReg(I.a1, I.n) \o InReg(I.a2, m)), links)
<1>1. LocationsOf(InReg(I.a1, I.n) \o InReg(I.a2, m)) = LocationsOf(InReg(I.a1, I.n)) \cup LocationsOf(InReg(I.a2, m))
  BY RangesArePlaces, BothLocations DEF ArePlaces
<1>2. (\A r \in LocationsOf(InReg(I.a1, I.n) \o InReg(I.a2, m)) : r \notin links) => w = v
  BY <1>1, OperandsSame DEF First
<1> QED BY <1>2, MixesAgree

\* Words that are written whatever the operands are.
LEMMA ConstantAgrees ==
  ASSUME NEW s, NEW t, NEW links, AgreeBut(s, t, links), NEW a \in Int, NEW n \in Nat, NEW w, IsSeq(w, n),
         NEW reads, NEW m \in Nat, NEW other,
         m <= n
  PROVE  Follows(Assigns(s, a, w, OneToN(reads, InReg(a, m))), Assigns(t, a, w, other), links)
<1> DEFINE io == OneToN(reads, InReg(a, m))
<1>1. ArePlaces(InReg(a, m), "reg", a, m)
  BY RangesArePlaces
<1>2. KeepsOut(links, Linked(io, links), "reg", a, m)
  BY <1>1, OneToNTells DEF Tells
<1>3. KeepsOut(links, Linked(io, links), "reg", a, n)
  BY <1>2 DEF KeepsOut
<1>4. Tells(io, links, "reg", a, n, w, w)
  BY <1>3 DEF Tells, LinksDifferent
<1> QED BY <1>4, AssignsAgree

\* Words that are taken byte by byte from registers.
LEMMA CopyAgrees ==
  ASSUME NEW s, NEW t, NEW links, AgreeBut(s, t, links), NEW a \in Int, NEW b \in Int, NEW n \in Nat,
         ~BeginsWithin(a, b, n), NEW w, NEW v, IsSeq(w, n), IsSeq(v, n),
         \A i \in 1..n : Read(s.reg, b, n)[i] = Read(t.reg, b, n)[i] => w[i] = v[i]
  PROVE  Tells(OneToOne(InReg(b, n), InReg(a, n)), links, "reg", a, n, w, v)
<1>1. ArePlaces(InReg(a, n), "reg", a, n) /\ ArePlaces(InReg(b, n), "reg", b, n)
  BY RangesArePlaces
<1>2. LinksDifferent(links, "reg", b, n, Read(s.reg, b, n), Read(t.reg, b, n))
  BY ReadsAgree DEF AgreeBut
<1>3. \A i \in 1..n : w[i] # v[i] => InReg(b, n)[i] \in links
  BY <1>1, <1>2 DEF LinksDifferent, ArePlaces
<1>4. \A j \in 1..n : \A i \in 1..(j - 1) : <<"reg", a + i - 1>> # InReg(b, n)[j]
  <2>1. \A j \in 1..n : \A i \in 1..(j - 1) : a + i - 1 # b + j - 1
    BY DEF BeginsWithin
  <2> QED BY <1>1, <2>1 DEF ArePlaces
<1> QED BY <1>1, <1>3, <1>4, OneToOneTells DEF ArePlaces

-----------------------------------------------------------------------------
(* Addresses *)

\* All bytes of a pool are bytes.
HasBytes(pool) == \A l : ByteAt(pool, l) \in Byte

\* The number of a word of three bytes.
LEMMA NumOfThree ==
  ASSUME NEW w, Len(w) = 3, w[1] \in Byte, w[2] \in Byte, w[3] \in Byte
  PROVE  Num(w) \in Nat
<1> DEFINE Step(A, i) == IF i = 0 THEN 0 ELSE 256 * A[i - 1] + w[i]
           C == CHOOSE A : A = [i \in 0..Len(w) |-> Step(A, i)]
           n1 == w[1]
           n2 == 256 * w[1] + w[2]
           n3 == 256 * (256 * w[1] + w[2]) + w[3]
           A == [i \in 0..3 |-> IF i = 0 THEN 0 ELSE IF i = 1 THEN n1 ELSE IF i = 2 THEN n2 ELSE n3]
<1>1. Num(w) = C[Len(w)]
  BY DEF Num
<1>2. A = [i \in 0..Len(w) |-> Step(A, i)]
  <2>1. A[0] = 0 /\ A[1] = n1 /\ A[2] = n2 /\ A[3] = n3
    OBVIOUS
  <2>2. n1 = 256 * 0 + w[1]
    BY DEF Byte
  <2>3. Step(A, 0) = 0 /\ Step(A, 1) = n1 /\ Step(A, 2) = n2 /\ Step(A, 3) = n3
    BY <2>1, <2>2
  <2>4. \A i \in 0..3 : i = 0 \/ i = 1 \/ i = 2 \/ i = 3
    OBVIOUS
  <2> HIDE DEF Step
  <2>5. \A i \in 0..3 : A[i] = Step(A, i)
    BY <2>1, <2>3, <2>4
  <2>6. A = [i \in 0..3 |-> A[i]]
    OBVIOUS
  <2> HIDE DEF A
  <2> QED BY <2>5, <2>6
<1> HIDE DEF Step, A
<1>3. C = [i \in 0..Len(w) |-> Step(C, i)]
  BY <1>2
<1> HIDE DEF C
<1>4. C[0] = 0 /\ C[1] = 256 * C[0] + w[1] /\ C[2] = 256 * C[1] + w[2] /\ C[3] = 256 * C[2] + w[3]
  <2>1. C[0] = Step(C, 0) /\ C[1] = Step(C, 1) /\ C[2] = Step(C, 2) /\ C[3] = Step(C, 3)
    BY <1>3
  <2> QED BY <2>1 DEF Step
<1>5. C[1] \in Nat
  BY <1>4 DEF Byte
<1>6. C[2] \in Nat
  BY <1>4, <1>5 DEF Byte
<1>7. C[3] \in Nat
  BY <1>4, <1>6 DEF Byte
<1> QED BY <1>1, <1>7

\* The address in a register of bytes is a number.
LEMMA AddressIsNumber ==
  ASSUME NEW s, NEW a, HasBytes(s.reg)
  PROVE  Address(s, a) \in Int
<1> DEFINE w == Read(s.reg, a, 8)
           last == SubSeq(w, 6, 8)
<1>1. IsSeq(w, 8) /\ \A i \in 1..8 : w[i] \in Byte
  BY ReadBytes DEF HasBytes
<1>2. Address(s, a) = IF IsZero(SubSeq(w, 1, 5)) THEN Num(last) ELSE NoAddress
  BY WithIs DEF Address
<1> HIDE DEF w
<1>3. w \in Seq({w[i] : i \in 1..8}) /\ Len(w) = 8
  BY <1>1, SeqFacts
<1>4. Len(last) = 3 /\ last[1] = w[6] /\ last[2] = w[7] /\ last[3] = w[8]
  BY <1>3
<1> HIDE DEF last
<1>5. Num(last) \in Nat
  BY <1>1, <1>4, NumOfThree
<1> QED BY <1>2, <1>5 DEF NoAddress

\* Machines with the same bytes in a register have the same address there.
SameWord(s, t, a) == Read(s.reg, a, 8) = Read(t.reg, a, 8)

\* The same word is the same address.
LEMMA AddressSame ==
  ASSUME NEW s, NEW t, NEW a, SameWord(s, t, a)
  PROVE  Address(s, a) = Address(t, a)
<1> DEFINE F(w) == IF IsZero(SubSeq(w, 1, 5)) THEN Num(SubSeq(w, 6, 8)) ELSE NoAddress
<1>1. Address(s, a) = F(Read(s.reg, a, 8)) /\ Address(t, a) = F(Read(t.reg, a, 8))
  BY WithIs DEF Address
<1> HIDE DEF F
<1> QED BY <1>1 DEF SameWord

\* Blocks are the same in both machines, so both may access the same addresses.
LEMMA AllowedSame ==
  ASSUME NEW s, NEW t, NEW links, AgreeBut(s, t, links), NEW adr, NEW n
  PROVE  /\ Allowed(s, adr, n, Readable(s)) <=> Allowed(t, adr, n, Readable(t))
         /\ Allowed(s, adr, n, Writable(s)) <=> Allowed(t, adr, n, Writable(t))
         /\ Allowed(s, adr, n, s.blocks) <=> Allowed(t, adr, n, t.blocks)
         /\ Touched(s, adr, n) = Touched(t, adr, n)
<1>1. s.blocks = t.blocks
  BY DEF AgreeBut
<1>2. Touched(s, adr, n) = Touched(t, adr, n) /\ Readable(s) = Readable(t) /\ Writable(s) = Writable(t)
  BY <1>1 DEF Touched, Readable, Writable
<1>3. \A granting : Allowed(s, adr, n, granting) <=> Allowed(t, adr, n, granting)
  BY ONLY <1>2 DEF Allowed
<1> QED BY <1>1, <1>2, <1>3

-----------------------------------------------------------------------------
(* Lengths of what the other operators return *)

\* A shifted word keeps its length.
LEMMA ShiftLengths ==
  ASSUME NEW u, NEW n, IsSeq(u, n), NEW k
  PROVE  IsSeq(ShiftedRight(u, k), n) /\ IsSeq(ShiftedLeft(u, k), n)
<1> DEFINE q == k \div 8
           r == k % 8
           right == [i \in 1..n |-> ((256 * ByteOf(u, i - q - 1) + ByteOf(u, i - q)) \div 2^r) % 256]
           left == [i \in 1..n |-> (((256 * ByteOf(u, i + q) + ByteOf(u, i + q + 1)) * 2^r) \div 256) % 256]
<1>1. Len(u) = n /\ n \in Nat
  BY SeqFacts DEF IsSeq
<1>2. ShiftedRight(u, k) = Tuple(right) /\ ShiftedLeft(u, k) = Tuple(left)
  BY <1>1 DEF ShiftedRight, ShiftedLeft
<1>3. IsSeq(right, n) /\ IsSeq(left, n)
  BY <1>1 DEF IsSeq
<1> HIDE DEF right, left
<1> QED BY <1>2, <1>3, TupleIsWord

\* A truth value is one byte.
LEMMA TruthLength ==
  ASSUME NEW b
  PROVE  IsSeq(Truth(b), 1)
BY DEF Truth, IsSeq

\* A byte of the result of a bitwise operation depends on the bytes at its place only.
LEMMA BitwiseBytes ==
  ASSUME NEW u, NEW v, NEW n, IsSeq(u, n), NEW wanted
  PROVE  /\ IsSeq(BytesWhere(u, v, wanted), n)
         /\ \A i \in 1..n : BytesWhere(u, v, wanted)[i] = ByteWhere(u[i], v[i], wanted)
<1> DEFINE w == [i \in 1..n |-> ByteWhere(u[i], v[i], wanted)]
<1>1. Len(u) = n /\ n \in Nat
  BY SeqFacts DEF IsSeq
<1>2. BytesWhere(u, v, wanted) = Tuple(w)
  BY <1>1 DEF BytesWhere
<1>3. IsSeq(w, n) /\ \A i \in 1..n : w[i] = ByteWhere(u[i], v[i], wanted)
  BY <1>1 DEF IsSeq
<1> HIDE DEF w
<1> QED BY <1>2, <1>3, TupleIsWord

\* The same for the complement.
LEMMA NotBytes ==
  ASSUME NEW u, NEW n, IsSeq(u, n)
  PROVE  IsSeq(BitNot(u), n) /\ \A i \in 1..n : BitNot(u)[i] = 255 - u[i]
<1> DEFINE w == [i \in 1..n |-> 255 - u[i]]
<1>1. Len(u) = n /\ n \in Nat
  BY SeqFacts DEF IsSeq
<1>2. BitNot(u) = Tuple(w)
  BY <1>1 DEF BitNot
<1>3. IsSeq(w, n) /\ \A i \in 1..n : w[i] = 255 - u[i]
  BY <1>1 DEF IsSeq
<1> HIDE DEF w
<1> QED BY <1>2, <1>3, TupleIsWord

\* A word behind as many zeros.
LEMMA LowBytes ==
  ASSUME NEW u, NEW n \in Nat, IsSeq(u, n)
  PROVE  /\ IsSeq(Low(u, 2 * n), 2 * n)
         /\ \A i \in 1..n : Low(u, 2 * n)[i] = 0 /\ Low(u, 2 * n)[n + i] = u[i]
<1>1. Len(u) = n
  BY SeqFacts
<1>2. CASE n = 0
  <2>1. u = << >>
    BY <1>2 DEF IsSeq
  <2>2. Low(u, 2 * n) = SubSeq(u, 1, 0)
    BY <1>1, <1>2 DEF Low
  <2>3. SubSeq(u, 1, 0) = << >>
    BY <2>1
  <2> QED BY <1>2, <2>1, <2>2, <2>3 DEF IsSeq
<1>3. CASE n # 0
  <2> DEFINE z == Zeros(n)
  <2>1. Low(u, 2 * n) = z \o u
    <3>1. ~(2 * n <= Len(u)) /\ 2 * n - Len(u) = n
      BY <1>1, <1>3
    <3> QED BY <3>1 DEF Low
  <2>2. IsSeq(z, n) /\ \A i \in 1..n : z[i] = 0
    BY ZerosLength
  <2> HIDE DEF z
  <2>3. Len(z) = n
    BY <2>2, SeqFacts
  <2> DEFINE S == {z[i] : i \in 1..n} \cup {u[i] : i \in 1..n}
  <2>4. u \in [1..n -> S] /\ z \in [1..n -> S]
    BY <2>2 DEF IsSeq
  <2> HIDE DEF S
  <2>5. u \in Seq(S) /\ z \in Seq(S)
    BY <2>4
  <2>6. /\ z \o u \in Seq(S) /\ Len(z \o u) = 2 * n
        /\ \A i \in 1..n : (z \o u)[i] = z[i] /\ (z \o u)[n + i] = u[i]
    BY <2>3, <1>1, <2>5
  <2>7. IsSeq(z \o u, 2 * n)
    BY <2>6 DEF IsSeq
  <2> QED BY <2>1, <2>2, <2>6, <2>7
<1> QED BY <1>2, <1>3

-----------------------------------------------------------------------------
(* Instructions every byte of whose result depends on all of the operands *)

\* The operands of an instruction of n bytes are n bytes.
LEMMA FirstIsWord ==
  ASSUME NEW I, NEW s, I.n \in Nat
  PROVE  IsSeq(First(I, s), I.n) /\ IsSeq(Second(I, s), I.n)
BY ReadBytes DEF First, Second

\* Arithmetic with a number, the parity, the test for zero and shifts by a number read one register.
LEMMA OneOperandFollows ==
  ASSUME NEW s, NEW t, NEW links, AgreeBut(s, t, links), NEW I, I.a0 \in Nat, I.n \in Nat
  PROVE  /\ Follows(ExecutePlusNumber(I, s), ExecutePlusNumber(I, t), links)
         /\ Follows(ExecuteTimesNumber(I, s), ExecuteTimesNumber(I, t), links)
         /\ Follows(ExecuteEqualToZero(I, s), ExecuteEqualToZero(I, t), links)
         /\ Follows(ExecuteParityReg(I, s), ExecuteParityReg(I, t), links)
         /\ Follows(ExecuteRShiftNumber(I, s), ExecuteRShiftNumber(I, t), links)
         /\ Follows(ExecuteLShiftNumber(I, s), ExecuteLShiftNumber(I, t), links)
<1> DEFINE u == First(I, s)
           v == First(I, t)
<1>1. IsSeq(u, I.n) /\ IsSeq(v, I.n)
  BY FirstIsWord
<1>2. IsSeq(Sum(u, I.v), I.n) /\ IsSeq(Sum(v, I.v), I.n)
  BY <1>1, SumLength
<1>3. IsSeq(Product(u, I.k), I.n) /\ IsSeq(Product(v, I.k), I.n)
  BY <1>1, ProductLength
<1>4. IsSeq(Truth(IsZero(u)), 1) /\ IsSeq(Truth(IsZero(v)), 1)
  BY TruthLength
<1>5. IsSeq(Truth(IsEven(u)), 1) /\ IsSeq(Truth(IsEven(v)), 1)
  BY TruthLength
<1>6. /\ IsSeq(ShiftedRight(u, I.k), I.n) /\ IsSeq(ShiftedRight(v, I.k), I.n)
      /\ IsSeq(ShiftedLeft(u, I.k), I.n) /\ IsSeq(ShiftedLeft(v, I.k), I.n)
  BY <1>1, ShiftLengths
<1>7. Follows(ExecutePlusNumber(I, s), ExecutePlusNumber(I, t), links)
  BY <1>2, OneOperandAgrees DEF ExecutePlusNumber
<1>8. Follows(ExecuteTimesNumber(I, s), ExecuteTimesNumber(I, t), links)
  BY <1>3, OneOperandAgrees DEF ExecuteTimesNumber
<1>9. Follows(ExecuteEqualToZero(I, s), ExecuteEqualToZero(I, t), links)
  BY <1>4, OneOperandAgrees DEF ExecuteEqualToZero
<1>10. Follows(ExecuteParityReg(I, s), ExecuteParityReg(I, t), links)
  BY <1>5, OneOperandAgrees DEF ExecuteParityReg
<1>11. Follows(ExecuteRShiftNumber(I, s), ExecuteRShiftNumber(I, t), links)
  BY <1>6, OneOperandAgrees DEF ExecuteRShiftNumber
<1>12. Follows(ExecuteLShiftNumber(I, s), ExecuteLShiftNumber(I, t), links)
  BY <1>6, OneOperandAgrees DEF ExecuteLShiftNumber
<1> QED BY <1>7, <1>8, <1>9, <1>10, <1>11, <1>12

\* A shift takes the number of bits from one byte.
LEMMA ShiftsFollow ==
  ASSUME NEW s, NEW t, NEW links, AgreeBut(s, t, links), NEW I, I.a0 \in Nat, I.n \in Nat, I.a2 \in Nat
  PROVE  /\ Follows(ExecuteRShiftReg(I, s), ExecuteRShiftReg(I, t), links)
         /\ Follows(ExecuteLShiftReg(I, s), ExecuteLShiftReg(I, t), links)
<1> DEFINE u == First(I, s)
           v == First(I, t)
           j == ByteAt(s.reg, I.a2)
           k == ByteAt(t.reg, I.a2)
<1>1. IsSeq(u, I.n) /\ IsSeq(v, I.n)
  BY FirstIsWord
<1>2. /\ IsSeq(ShiftedRight(u, j), I.n) /\ IsSeq(ShiftedRight(v, k), I.n)
      /\ IsSeq(ShiftedLeft(u, j), I.n) /\ IsSeq(ShiftedLeft(v, k), I.n)
  BY <1>1, ShiftLengths
<1>3. Read(s.reg, I.a2, 1) = Read(t.reg, I.a2, 1) => j = k
  <2>1. Read(s.reg, I.a2, 1)[1] = ByteAt(s.reg, I.a2 + 1 - 1) /\ Read(t.reg, I.a2, 1)[1] = ByteAt(t.reg, I.a2 + 1 - 1)
    BY ReadBytes
  <2>2. I.a2 + 1 - 1 = I.a2
    OBVIOUS
  <2> QED BY <2>1, <2>2
<1>4. u = v /\ Read(s.reg, I.a2, 1) = Read(t.reg, I.a2, 1) =>
        ShiftedRight(u, j) = ShiftedRight(v, k) /\ ShiftedLeft(u, j) = ShiftedLeft(v, k)
  BY <1>3
<1>5. Follows(ExecuteRShiftReg(I, s), ExecuteRShiftReg(I, t), links)
  BY <1>2, <1>4, TwoOperandsAgree DEF ExecuteRShiftReg
<1>6. Follows(ExecuteLShiftReg(I, s), ExecuteLShiftReg(I, t), links)
  BY <1>2, <1>4, TwoOperandsAgree DEF ExecuteLShiftReg
<1> QED BY <1>5, <1>6

\* A sum reads two registers.
LEMMA SumsFollow ==
  ASSUME NEW s, NEW t, NEW links, AgreeBut(s, t, links), NEW I, I.a0 \in Nat, I.n \in Nat
  PROVE  Follows(ExecutePlusReg(I, s), ExecutePlusReg(I, t), links)
<1> DEFINE w == Sum(First(I, s), Second(I, s))
           v == Sum(First(I, t), Second(I, t))
<1>1. IsSeq(w, I.n) /\ IsSeq(v, I.n)
  BY FirstIsWord, SumLength
<1>2. First(I, s) = First(I, t) /\ Read(s.reg, I.a2, I.n) = Read(t.reg, I.a2, I.n) => w = v
  BY DEF Second
<1> HIDE DEF w, v
<1>3. Follows(Mixes(I, s, w, BothOperands(I)), Mixes(I, t, v, BothOperands(I)), links)
  BY <1>1, <1>2, TwoOperandsAgree DEF BothOperands
<1> QED BY <1>3 DEF ExecutePlusReg, w, v

-----------------------------------------------------------------------------
(* A division, of which the twin alone may fail *)

\* The machine stops with an error.
HasFailed(step) == step.cpu.error # ""

\* A failure leaves everything alone but the error.
LEMMA FailsIs ==
  ASSUME NEW s, IsMachine(s), NEW message, message # ""
  PROVE  /\ HasFailed(Fails(s, message))
         /\ Fails(s, message).cpu = [s EXCEPT !.error = message]
BY DEF HasFailed, Fails, IsMachine

\* One word is written, and the other machine fails.
LEMMA AloneAgrees ==
  ASSUME NEW s, NEW t, NEW links, AgreeBut(s, t, links), NEW I, I.a0 \in Int, NEW n, NEW w, IsSeq(w, n),
         NEW operands, NEW r \in LocationsOf(operands), r \in links, NEW message
  PROVE  Follows(Mixes(I, s, w, operands), Fails(t, message), links)
<1> DEFINE s1 == [s EXCEPT !.reg = Write(s.reg, I.a0, w)]
           t1 == [t EXCEPT !.error = message]
           io == OneToN(operands, InReg(I.a0, n))
           after == Linked(io, links)
<1>1. Len(w) = n /\ n \in Nat
  BY SeqFacts DEF IsSeq
<1>2. Mixes(I, s, w, operands) = [cpu |-> s1, io |-> io]
  BY <1>1, AssignsIs DEF Mixes
<1>3. Fails(t, message).cpu = t1
  BY DEF Fails
<1>4. ArePlaces(InReg(I.a0, n), "reg", I.a0, n)
  BY <1>1, RangesArePlaces
<1>5. links \subseteq after /\ \A i \in 1..n : <<"reg", I.a0 + i - 1>> \in after
  <2> DEFINE word == 0
             different == 1
  <2>1. word # different
    OBVIOUS
  <2> HIDE DEF word, different
  <2>2. (\A x \in LocationsOf(operands) : x \notin links) => word = different
    OBVIOUS
  <2> DEFINE writes == InReg(I.a0, n)
  <2>3. /\ Tells(OneToN(operands, writes), links, "reg", I.a0, n, word, different)
        /\ word # different => /\ links \subseteq Linked(OneToN(operands, writes), links)
                               /\ \A i \in 1..n : <<"reg", I.a0 + i - 1>> \in Linked(OneToN(operands, writes), links)
    <3>1. ArePlaces(writes, "reg", I.a0, n) /\ n \in Nat
      BY <1>1, <1>4
    <3> HIDE DEF writes
    <3> QED BY ONLY <3>1, <2>2, OneToNTells
  <2> QED BY <2>1, <2>3
<1>6. Covers(after, "reg", Write(s.reg, I.a0, w), t.reg)
  BY <1>5, WriteAloneCovers DEF AgreeBut
<1>7. Covers(after, "mem", s.mem, t.mem)
  BY <1>5 DEF AgreeBut, Covers
<1>8. \A id : StreamsAgree(after, id, StreamInfo(s, id), StreamInfo(t, id))
  BY <1>5 DEF AgreeBut, StreamsAgree
<1>9. IsMachine(s1) /\ s1.reg = Write(s.reg, I.a0, w) /\ s1.mem = s.mem /\ s1.blocks = s.blocks /\ s1.streams = s.streams
  BY DEF AgreeBut, IsMachine
<1>10. IsMachine(t1) /\ t1.reg = t.reg /\ t1.mem = t.mem /\ t1.blocks = t.blocks /\ t1.streams = t.streams
  BY DEF AgreeBut, IsMachine
<1>11. s.blocks = t.blocks
  BY DEF AgreeBut
<1> HIDE DEF s1, t1, io
<1>12. \A id : StreamInfo(s1, id) = StreamInfo(s, id) /\ StreamInfo(t1, id) = StreamInfo(t, id)
  BY <1>9, <1>10 DEF StreamInfo
<1>13. AgreeBut(s1, t1, after)
  BY <1>6, <1>7, <1>8, <1>9, <1>10, <1>11, <1>12 DEF AgreeBut
<1> QED BY <1>2, <1>3, <1>13 DEF Follows

\* A quotient and a remainder depend on all bytes of both operands; the twin may divide by zero alone.
LEMMA QuotientsFollow ==
  ASSUME NEW s, NEW t, NEW links, AgreeBut(s, t, links), NEW I, I.a0 \in Nat, I.n \in Nat
  PROVE  /\ ~HasFailed(ExecuteDivideReg(I, s)) => Follows(ExecuteDivideReg(I, s), ExecuteDivideReg(I, t), links)
         /\ ~HasFailed(ExecuteModuloReg(I, s)) => Follows(ExecuteModuloReg(I, s), ExecuteModuloReg(I, t), links)
<1> DEFINE d == Num(Second(I, s))
           e == Num(Second(I, t))
           w == Division(First(I, s), d).quotient
           v == Division(First(I, t), e).quotient
           x == Word(Division(First(I, s), d).remainder, I.n)
           y == Word(Division(First(I, t), e).remainder, I.n)
           message == "division by zero"
<1>1. IsSeq(w, I.n) /\ IsSeq(v, I.n) /\ IsSeq(x, I.n) /\ IsSeq(y, I.n)
  BY FirstIsWord, DivisionLength, WordLength
<1>2. First(I, s) = First(I, t) /\ Read(s.reg, I.a2, I.n) = Read(t.reg, I.a2, I.n) => w = v /\ x = y
  BY DEF Second
<1>3. CASE IsZero(Second(I, s))
  <2>1. HasFailed(Fails(s, message))
    BY FailsIs DEF AgreeBut
  <2> QED BY <1>3, <2>1 DEF ExecuteDivideReg, ExecuteModuloReg
<1> DEFINE here == Mixes(I, s, w, BothOperands(I))
           there == Mixes(I, s, x, BothOperands(I))
<1>4. CASE ~IsZero(Second(I, s)) /\ ~IsZero(Second(I, t))
  <2>1. /\ ExecuteDivideReg(I, s) = here /\ ExecuteDivideReg(I, t) = Mixes(I, t, v, BothOperands(I))
        /\ ExecuteModuloReg(I, s) = there /\ ExecuteModuloReg(I, t) = Mixes(I, t, y, BothOperands(I))
    BY <1>4 DEF ExecuteDivideReg, ExecuteModuloReg
  <2> HIDE DEF w, v, x, y
  <2>2. Follows(Mixes(I, s, w, BothOperands(I)), Mixes(I, t, v, BothOperands(I)), links)
    BY <1>1, <1>2, TwoOperandsAgree DEF BothOperands
  <2>3. Follows(Mixes(I, s, x, BothOperands(I)), Mixes(I, t, y, BothOperands(I)), links)
    BY <1>1, <1>2, TwoOperandsAgree DEF BothOperands
  <2> QED BY <2>1, <2>2, <2>3
<1>5. CASE ~IsZero(Second(I, s)) /\ IsZero(Second(I, t))
  <2>1. /\ ExecuteDivideReg(I, s) = here /\ ExecuteDivideReg(I, t) = Fails(t, message)
        /\ ExecuteModuloReg(I, s) = there /\ ExecuteModuloReg(I, t) = Fails(t, message)
    BY <1>5 DEF ExecuteDivideReg, ExecuteModuloReg
  <2>2. Read(s.reg, I.a2, I.n) # Read(t.reg, I.a2, I.n)
    BY <1>5 DEF Second
  <2>3. PICK r \in LocationsOf(InReg(I.a2, I.n)) : r \in links
    BY <2>2, OperandsSame
  <2>4. LocationsOf(BothOperands(I)) = LocationsOf(InReg(I.a1, I.n)) \cup LocationsOf(InReg(I.a2, I.n))
    BY RangesArePlaces, BothLocations DEF ArePlaces, BothOperands
  <2>5. r \in LocationsOf(BothOperands(I))
    BY <2>4
  <2> HIDE DEF w, x, message
  <2>6. Follows(here, Fails(t, message), links)
    BY <1>1, <2>3, <2>5, AloneAgrees
  <2>7. Follows(there, Fails(t, message), links)
    BY <1>1, <2>3, <2>5, AloneAgrees
  <2> QED BY <2>1, <2>6, <2>7
<1> QED BY <1>3, <1>4, <1>5

-----------------------------------------------------------------------------
(* Instructions a byte of whose result depends on the bytes at its place *)

\* Two results are the same where two operands are.
SameWhereSame(x, y, u, v, n) ==
  IsSeq(x, n) /\ IsSeq(y, n) /\ \A i \in 1..n : u[i] = v[i] => x[i] = y[i]

\* Where two words are the same, so are the results of a bitwise operation with the same number.
LEMMA BitwiseSame ==
  ASSUME NEW u, NEW v, NEW n, IsSeq(u, n), IsSeq(v, n), NEW number, NEW wanted
  PROVE  SameWhereSame(BytesWhere(u, number, wanted), BytesWhere(v, number, wanted), u, v, n)
<1>1. \A i \in 1..n : BytesWhere(u, number, wanted)[i] = ByteWhere(u[i], number[i], wanted)
  BY BitwiseBytes
<1>2. \A i \in 1..n : BytesWhere(v, number, wanted)[i] = ByteWhere(v[i], number[i], wanted)
  BY BitwiseBytes
<1>3. \A i \in 1..n : u[i] = v[i] => ByteWhere(u[i], number[i], wanted) = ByteWhere(v[i], number[i], wanted)
  OBVIOUS
<1> QED BY <1>1, <1>2, <1>3, BitwiseBytes DEF SameWhereSame

\* Moves, complements and bitwise operations with a number link byte to byte.
LEMMA CopiesFollow ==
  ASSUME NEW s, NEW t, NEW links, AgreeBut(s, t, links), NEW I, I.a0 \in Nat, I.a1 \in Nat, I.n \in Nat,
         ~BeginsWithin(I.a0, I.a1, I.n)
  PROVE  /\ Follows(ExecuteRegAsgnReg(I, s), ExecuteRegAsgnReg(I, t), links)
         /\ Follows(ExecuteAndNumber(I, s), ExecuteAndNumber(I, t), links)
         /\ Follows(ExecuteOrNumber(I, s), ExecuteOrNumber(I, t), links)
         /\ Follows(ExecuteNotReg(I, s), ExecuteNotReg(I, t), links)
<1> DEFINE u == First(I, s)
           v == First(I, t)
           io == OneToOne(InReg(I.a1, I.n), InReg(I.a0, I.n))
<1>1. IsSeq(u, I.n) /\ IsSeq(v, I.n)
  BY FirstIsWord
<1>2. ASSUME NEW x, NEW y, IsSeq(x, I.n), IsSeq(y, I.n), \A i \in 1..I.n : u[i] = v[i] => x[i] = y[i]
      PROVE  Follows(Assigns(s, I.a0, x, io), Assigns(t, I.a0, y, io), links)
  <2>1. \A i \in 1..I.n : Read(s.reg, I.a1, I.n)[i] = Read(t.reg, I.a1, I.n)[i] => x[i] = y[i]
    BY <1>2 DEF First
  <2>2. Tells(io, links, "reg", I.a0, I.n, x, y)
    BY <1>2, <2>1, CopyAgrees
  <2> HIDE DEF io
  <2> QED BY <1>2, <2>2, AssignsAgree
<1>3. Follows(ExecuteRegAsgnReg(I, s), ExecuteRegAsgnReg(I, t), links)
  BY <1>1, <1>2 DEF ExecuteRegAsgnReg, First
<1>4. Follows(ExecuteAndNumber(I, s), ExecuteAndNumber(I, t), links)
  <2>1. SameWhereSame(BitAnd(u, I.v), BitAnd(v, I.v), u, v, I.n)
    BY <1>1, BitwiseSame DEF BitAnd
  <2>2. Follows(Assigns(s, I.a0, BitAnd(u, I.v), io), Assigns(t, I.a0, BitAnd(v, I.v), io), links)
    BY <2>1, <1>2 DEF SameWhereSame
  <2> QED BY <2>2 DEF ExecuteAndNumber
<1>5. Follows(ExecuteOrNumber(I, s), ExecuteOrNumber(I, t), links)
  <2>1. SameWhereSame(BitOr(u, I.v), BitOr(v, I.v), u, v, I.n)
    BY <1>1, BitwiseSame DEF BitOr
  <2>2. Follows(Assigns(s, I.a0, BitOr(u, I.v), io), Assigns(t, I.a0, BitOr(v, I.v), io), links)
    BY <2>1, <1>2 DEF SameWhereSame
  <2> QED BY <2>2 DEF ExecuteOrNumber
<1>6. Follows(ExecuteNotReg(I, s), ExecuteNotReg(I, t), links)
  <2>1. IsSeq(BitNot(u), I.n) /\ IsSeq(BitNot(v), I.n)
    BY <1>1, NotBytes
  <2>2. \A i \in 1..I.n : u[i] = v[i] => BitNot(u)[i] = BitNot(v)[i]
    <3> HIDE DEF u, v, io
    <3>1. \A i \in 1..I.n : BitNot(u)[i] = 255 - u[i]
      BY <1>1, NotBytes
    <3>2. \A i \in 1..I.n : BitNot(v)[i] = 255 - v[i]
      BY <1>1, NotBytes
    <3> QED BY <3>1, <3>2
  <2>3. Follows(Assigns(s, I.a0, BitNot(u), io), Assigns(t, I.a0, BitNot(v), io), links)
    BY <2>1, <2>2, <1>2
  <2> QED BY <2>3 DEF ExecuteNotReg
<1> QED BY <1>3, <1>4, <1>5, <1>6

\* A bitwise operation of two registers links every byte to two.
LEMMA JoinFollows ==
  ASSUME NEW s, NEW t, NEW links, AgreeBut(s, t, links), NEW I, I.a0 \in Nat, I.a1 \in Nat, I.a2 \in Nat,
         I.n \in Nat, ~BeginsWithin(I.a0, I.a1, I.n), ~BeginsWithin(I.a0, I.a2, I.n), NEW wanted
  PROVE  Follows(Assigns(s, I.a0, BytesWhere(First(I, s), Second(I, s), wanted), Bytewise(I)),
                 Assigns(t, I.a0, BytesWhere(First(I, t), Second(I, t), wanted), Bytewise(I)), links)
<1> DEFINE n == I.n
           x == BytesWhere(First(I, s), Second(I, s), wanted)
           y == BytesWhere(First(I, t), Second(I, t), wanted)
           from0 == InReg(I.a1, n)
           from1 == InReg(I.a2, n)
<1>1. IsSeq(x, n) /\ IsSeq(y, n)
  BY FirstIsWord, BitwiseBytes
<1>2. /\ ArePlaces(InReg(I.a0, n), "reg", I.a0, n)
      /\ ArePlaces(from0, "reg", I.a1, n) /\ ArePlaces(from1, "reg", I.a2, n)
  BY RangesArePlaces
<1>3. /\ LinksDifferent(links, "reg", I.a1, n, First(I, s), First(I, t))
      /\ LinksDifferent(links, "reg", I.a2, n, Second(I, s), Second(I, t))
  BY ReadsAgree DEF AgreeBut, First, Second
<1>4. \A i \in 1..n : x[i] # y[i] => First(I, s)[i] # First(I, t)[i] \/ Second(I, s)[i] # Second(I, t)[i]
  BY FirstIsWord, BitwiseBytes
<1>5. \A i \in 1..n : x[i] # y[i] => from0[i] \in links \/ from1[i] \in links
  <2> HIDE DEF x, y, from0, from1
  <2> QED BY <1>2, <1>3, <1>4 DEF LinksDifferent, ArePlaces
<1>6. \A j \in 1..n : \A i \in 1..(j - 1) : <<"reg", I.a0 + i - 1>> \notin {from0[j], from1[j]}
  <2>1. \A j \in 1..n : \A i \in 1..(j - 1) : I.a0 + i - 1 # I.a1 + j - 1 /\ I.a0 + i - 1 # I.a2 + j - 1
    BY DEF BeginsWithin
  <2> HIDE DEF from0, from1
  <2> QED BY <1>2, <2>1 DEF ArePlaces
<1> DEFINE writes == InReg(I.a0, n)
           a == I.a0
<1>7. ArePlaces(writes, "reg", a, n) /\ a \in Int /\ n \in Nat
  BY <1>2
<1> HIDE DEF x, y, from0, from1, writes, a, n
<1>8. Tells(OneToTwo(from0, from1, writes), links, "reg", a, n, x, y)
  <2>1. \A j \in 1..n : \A i \in 1..(j - 1) : <<"reg", a + i - 1>> \notin {from0[j], from1[j]}
    BY <1>6 DEF a
  <2> QED BY ONLY <1>5, <1>7, <2>1, OneToTwoTells
<1>9. Tells(Bytewise(I), links, "reg", I.a0, I.n, x, y) /\ I.n = n
  BY <1>8 DEF Bytewise, from0, from1, writes, a, n
<1>10. Follows(Assigns(s, I.a0, x, Bytewise(I)), Assigns(t, I.a0, y, Bytewise(I)), links)
  BY <1>1, <1>9, AssignsAgree
<1> QED BY <1>10 DEF x, y

\* So do the three operations there are.
LEMMA JoinsFollow ==
  ASSUME NEW s, NEW t, NEW links, AgreeBut(s, t, links), NEW I, I.a0 \in Nat, I.a1 \in Nat, I.a2 \in Nat,
         I.n \in Nat, ~BeginsWithin(I.a0, I.a1, I.n), ~BeginsWithin(I.a0, I.a2, I.n)
  PROVE  /\ Follows(ExecuteAndReg(I, s), ExecuteAndReg(I, t), links)
         /\ Follows(ExecuteOrReg(I, s), ExecuteOrReg(I, t), links)
         /\ Follows(ExecuteXorReg(I, s), ExecuteXorReg(I, t), links)
<1>1. Follows(ExecuteAndReg(I, s), ExecuteAndReg(I, t), links)
  BY JoinFollows DEF ExecuteAndReg, BitAnd
<1>2. Follows(ExecuteOrReg(I, s), ExecuteOrReg(I, t), links)
  BY JoinFollows DEF ExecuteOrReg, BitOr
<1>3. Follows(ExecuteXorReg(I, s), ExecuteXorReg(I, t), links)
  BY JoinFollows DEF ExecuteXorReg, BitXor
<1> QED BY <1>1, <1>2, <1>3

-----------------------------------------------------------------------------
(* Instructions that write what no register has *)

\* Numbers, havoc and the address of a new block do not depend on any register.
LEMMA ConstantsFollow ==
  ASSUME NEW s, NEW t, NEW links, AgreeBut(s, t, links), NEW I, I.a0 \in Nat
  PROVE  /\ I.n \in Nat /\ IsSeq(I.v, I.n) =>
              Follows(ExecuteRegAsgnNumber(I, s), ExecuteRegAsgnNumber(I, t), links)
         /\ I.n \in Nat => Follows(ExecuteHavoc(I, s), ExecuteHavoc(I, t), links)
         /\ Follows(ExecuteMemAlloc(I, s), ExecuteMemAlloc(I, t), links)
<1>1. ASSUME I.n \in Nat, IsSeq(I.v, I.n)
      PROVE  Follows(ExecuteRegAsgnNumber(I, s), ExecuteRegAsgnNumber(I, t), links)
  BY <1>1, ConstantAgrees DEF ExecuteRegAsgnNumber
<1>2. ASSUME I.n \in Nat
      PROVE  Follows(ExecuteHavoc(I, s), ExecuteHavoc(I, t), links)
  <2> DEFINE w == [i \in 1..I.n |-> HavocByte]
  <2>1. IsSeq(w, I.n)
    BY <1>2 DEF IsSeq
  <2>2. /\ ExecuteHavoc(I, s) = Assigns(s, I.a0, w, OneToN(<< >>, InReg(I.a0, I.n)))
        /\ ExecuteHavoc(I, t) = Assigns(t, I.a0, w, OneToN(<< >>, InReg(I.a0, I.n)))
    BY DEF ExecuteHavoc
  <2> HIDE DEF w
  <2> QED BY <1>2, <2>1, <2>2, ConstantAgrees
<1>3. Follows(ExecuteMemAlloc(I, s), ExecuteMemAlloc(I, t), links)
  <2>1. IsSeq(Word(Allocated, 8), 8)
    BY WordLength
  <2> QED BY <2>1, ConstantAgrees DEF ExecuteMemAlloc
<1> QED BY <1>1, <1>2, <1>3

\* The upper half is zero in both machines, and not listed in the io-relation.
LEMMA ZeroExtendFollows ==
  ASSUME NEW s, NEW t, NEW links, AgreeBut(s, t, links), NEW I, I.a0 \in Nat, I.a1 \in Nat, I.n \in Nat,
         ~BeginsWithin(I.a0 + I.n, I.a1, I.n)
  PROVE  Follows(ExecuteZeroExtend(I, s), ExecuteZeroExtend(I, t), links)
<1> DEFINE n == I.n
           a == I.a0
           u == Read(s.reg, I.a1, n)
           v == Read(t.reg, I.a1, n)
           x == Low(u, 2 * n)
           y == Low(v, 2 * n)
           io == OneToOne(InReg(I.a1, n), InReg(a + n, n))
<1>1. IsSeq(u, n) /\ IsSeq(v, n)
  BY ReadBytes
<1>2. Tells(io, links, "reg", a + n, n, u, v)
  <2>1. a + n \in Int
    OBVIOUS
  <2> QED BY <1>1, <2>1, CopyAgrees
<1>3. /\ IsSeq(x, 2 * n) /\ \A i \in 1..n : x[i] = 0 /\ x[n + i] = u[i]
      /\ IsSeq(y, 2 * n) /\ \A i \in 1..n : y[i] = 0 /\ y[n + i] = v[i]
  <2> HIDE DEF u, v
  <2> QED BY <1>1, LowBytes
<1>4. /\ ExecuteZeroExtend(I, s) = Assigns(s, a, x, io)
      /\ ExecuteZeroExtend(I, t) = Assigns(t, a, y, io)
  BY DEF ExecuteZeroExtend
<1>5. n \in Nat /\ a \in Nat
  OBVIOUS
<1> HIDE DEF n, a, u, v, x, y, io
<1>6. KeepsOut(links, Linked(io, links), "reg", a, 2 * n)
  <2>1. \A i \in 1..n : n + i \in 1..(2 * n) /\ a + n + i - 1 = a + (n + i) - 1
    BY <1>5
  <2> QED BY <1>2, <2>1 DEF Tells, KeepsOut
<1>7. LinksDifferent(Linked(io, links), "reg", a, 2 * n, x, y)
  <2> SUFFICES ASSUME NEW k \in 1..(2 * n), x[k] # y[k]
               PROVE  <<"reg", a + k - 1>> \in Linked(io, links)
    BY DEF LinksDifferent
  <2>1. k \notin 1..n
    BY <1>3
  <2>2. k - n \in 1..n /\ n + (k - n) = k /\ a + n + (k - n) - 1 = a + k - 1
    BY <2>1, <1>5
  <2>3. u[k - n] # v[k - n]
    BY <1>3, <2>2
  <2> QED BY <1>2, <2>2, <2>3 DEF Tells, LinksDifferent
<1>8. Tells(io, links, "reg", a, 2 * n, x, y)
  BY <1>6, <1>7 DEF Tells
<1> QED BY <1>3, <1>4, <1>5, <1>8, AssignsAgree

\* Blocks are entered in both machines.
LEMMA BlocksAgree ==
  ASSUME NEW s, NEW t, NEW links, AgreeBut(s, t, links), NEW blocks
  PROVE  AgreeBut([s EXCEPT !.blocks = blocks], [t EXCEPT !.blocks = blocks], links)
<1> DEFINE s1 == [s EXCEPT !.blocks = blocks]
           t1 == [t EXCEPT !.blocks = blocks]
<1>1. IsMachine(s1) /\ s1.reg = s.reg /\ s1.mem = s.mem /\ s1.blocks = blocks /\ s1.streams = s.streams
  BY DEF AgreeBut, IsMachine
<1>2. IsMachine(t1) /\ t1.reg = t.reg /\ t1.mem = t.mem /\ t1.blocks = blocks /\ t1.streams = t.streams
  BY DEF AgreeBut, IsMachine
<1> HIDE DEF s1, t1
<1>3. \A id : StreamInfo(s1, id) = StreamInfo(s, id) /\ StreamInfo(t1, id) = StreamInfo(t, id)
  BY <1>1, <1>2 DEF StreamInfo
<1>4. AgreeBut(s1, t1, links)
  BY <1>1, <1>2, <1>3 DEF AgreeBut
<1> QED BY <1>4 DEF s1, t1

\* A static block is entered, and its address assigned, whatever the registers hold.
LEMMA MemStaticFollows ==
  ASSUME NEW s, NEW t, NEW links, AgreeBut(s, t, links), NEW I, I.a0 \in Nat
  PROVE  Follows(ExecuteMemStatic(I, s), ExecuteMemStatic(I, t), links)
<1> DEFINE w == Word(IF Touched(s, I.begin, I.size) = {} THEN I.begin ELSE 0, 8)
           new == [begin |-> I.begin, size |-> I.size, read |-> I.read, write |-> I.write]
           known == \E b \in s.blocks : b.begin = I.begin
           io == OneToN(<< >>, InReg(I.a0, 1))
           step == Assigns(s, I.a0, w, io)
           other == Assigns(t, I.a0, w, io)
<1>1. IsSeq(w, 8)
  BY WordLength
<1>2. s.blocks = t.blocks /\ Touched(s, I.begin, I.size) = Touched(t, I.begin, I.size)
  BY AllowedSame DEF AgreeBut
<1>3. /\ ExecuteMemStatic(I, s) = IF known THEN step ELSE [step EXCEPT !.cpu.blocks = @ \cup {new}]
      /\ ExecuteMemStatic(I, t) = IF known THEN other ELSE [other EXCEPT !.cpu.blocks = @ \cup {new}]
  BY <1>2 DEF ExecuteMemStatic
<1>4. Follows(step, other, links)
  <2> HIDE DEF w
  <2> QED BY <1>1, ConstantAgrees
<1>5. /\ step = [cpu |-> step.cpu, io |-> step.io] /\ other = [cpu |-> other.cpu, io |-> other.io]
  BY AssignsIs
<1> HIDE DEF step, other, w
<1>6. step.cpu.blocks = other.cpu.blocks
  BY <1>4 DEF Follows, AgreeBut
<1> DEFINE blocks == step.cpu.blocks \cup {new}
<1>7. /\ [step EXCEPT !.cpu.blocks = @ \cup {new}] = [cpu |-> [step.cpu EXCEPT !.blocks = blocks], io |-> step.io]
      /\ [other EXCEPT !.cpu.blocks = @ \cup {new}] = [cpu |-> [other.cpu EXCEPT !.blocks = blocks], io |-> other.io]
  <2>1. ASSUME NEW c, NEW i, NEW added
        PROVE  [[cpu |-> c, io |-> i] EXCEPT !.cpu.blocks = @ \cup {added}]
                 = [cpu |-> [c EXCEPT !.blocks = c.blocks \cup {added}], io |-> i]
    BY SMTT(20)
  <2>2. ASSUME NEW x, x = [cpu |-> x.cpu, io |-> x.io], NEW added
        PROVE  [x EXCEPT !.cpu.blocks = @ \cup {added}]
                 = [cpu |-> [x.cpu EXCEPT !.blocks = x.cpu.blocks \cup {added}], io |-> x.io]
    <3> DEFINE c == x.cpu
               i == x.io
    <3>1. x = [cpu |-> c, io |-> i]
      BY <2>2
    <3> HIDE DEF c, i
    <3>2. [x EXCEPT !.cpu.blocks = @ \cup {added}] = [cpu |-> [c EXCEPT !.blocks = c.blocks \cup {added}], io |-> i]
      BY <2>1, <3>1
    <3> QED BY <3>2 DEF c, i
  <2> HIDE DEF new
  <2> QED BY <1>5, <1>6, <2>2
<1>8. AgreeBut([step.cpu EXCEPT !.blocks = blocks], [other.cpu EXCEPT !.blocks = blocks], Linked(step.io, links))
  BY <1>4, BlocksAgree DEF Follows
<1>9. Follows([step EXCEPT !.cpu.blocks = @ \cup {new}], [other EXCEPT !.cpu.blocks = @ \cup {new}], links)
  <2> HIDE DEF blocks
  <2> QED BY <1>7, <1>8 DEF Follows
<1> QED BY <1>3, <1>4, <1>9

-----------------------------------------------------------------------------
(* Instructions that access the MEM pool *)

\* Data are written at a constant address (program/src/instruction.cpp:499 requires that there are any).
LEMMA DataFollows ==
  ASSUME NEW s, NEW t, NEW links, AgreeBut(s, t, links), NEW I, I.begin \in Nat,
         IsSeq(I.data, Len(I.data)), Len(I.data) # 0
  PROVE  ~HasFailed(ExecuteDerefAddressAsgnData(I, s)) =>
           Follows(ExecuteDerefAddressAsgnData(I, s), ExecuteDerefAddressAsgnData(I, t), links)
<1> DEFINE n == Len(I.data)
           a == I.begin
           io == <<<<<<"mem", a>>, {}>>>>
           after == Linked(io, links)
<1>1. n \in Nat /\ a \in Int
  BY DEF IsSeq
<1>2. CASE ~Allowed(s, a, n, s.blocks)
  <2>1. ExecuteDerefAddressAsgnData(I, s) = Fails(s, "not allocated memory")
    BY <1>2 DEF ExecuteDerefAddressAsgnData
  <2>2. HasFailed(Fails(s, "not allocated memory"))
    BY FailsIs DEF AgreeBut
  <2> QED BY <2>1, <2>2
<1>3. CASE Allowed(s, a, n, s.blocks)
  <2>1. Allowed(t, a, n, t.blocks)
    BY <1>3, AllowedSame
  <2>2. /\ ExecuteDerefAddressAsgnData(I, s) = [cpu |-> [s EXCEPT !.mem = Write(s.mem, a, I.data)], io |-> io]
        /\ ExecuteDerefAddressAsgnData(I, t) = [cpu |-> [t EXCEPT !.mem = Write(t.mem, a, I.data)], io |-> io]
    BY <1>3, <2>1 DEF ExecuteDerefAddressAsgnData
  <2>3. Len(io) = 1 /\ io[1][1] = <<"mem", a + 1 - 1>>
    BY <1>1
  <2>4. 1 \in 1..n
    BY <1>1
  <2> HIDE DEF io, n, a
  <2>5. KeepsOut(links, after, "mem", a, n)
    BY <1>1, <2>3, <2>4, OnlyRangeChanges
  <2>6. LinksDifferent(after, "mem", a, n, I.data, I.data)
    BY DEF LinksDifferent
  <2>7. IsSeq(I.data, n)
    BY DEF n
  <2>8. AgreeBut([s EXCEPT !.mem = Write(s.mem, a, I.data)], [t EXCEPT !.mem = Write(t.mem, a, I.data)], after)
    BY <1>1, <2>5, <2>6, <2>7, MemAgrees
  <2> QED BY <2>2, <2>8 DEF Follows
<1> QED BY <1>2, <1>3

\* Bytes that come from the MEM pool.
FromMem(from, n) == IsSeq(from, n) /\ \A i \in 1..n : from[i][1] = "mem"

\* A load from the same address: bytes that differ come from linked bytes of the MEM pool.
LEMMA LoadFollows ==
  ASSUME NEW s, NEW t, NEW links, AgreeBut(s, t, links), NEW I, I.a0 \in Nat, I.n \in Nat,
         SameWord(s, t, I.a1), NEW w, NEW v, IsSeq(w, I.n), IsSeq(v, I.n), NEW from, FromMem(from, I.n),
         \A i \in 1..I.n : w[i] # v[i] => from[i] \in links
  PROVE  ~HasFailed(Loads(I, s, w, from)) => Follows(Loads(I, s, w, from), Loads(I, t, v, from), links)
<1> DEFINE n == I.n
           a == I.a0
           adr == Address(s, I.a1)
           writes == InReg(a, n)
           reads == InReg(I.a1, 8)
           io == OneToN(reads, writes) \o OneToOne(from, writes)
           message == "not readable memory"
<1>1. Address(t, I.a1) = adr
  BY AddressSame
<1>2. CASE ~Allowed(s, adr, n, Readable(s))
  <2>1. Loads(I, s, w, from) = Fails(s, message)
    BY <1>2 DEF Loads
  <2>2. HasFailed(Fails(s, message))
    BY FailsIs DEF AgreeBut
  <2> QED BY <2>1, <2>2
<1>3. CASE Allowed(s, adr, n, Readable(s))
  <2>1. Allowed(t, adr, n, Readable(t))
    BY <1>3, AllowedSame
  <2>2. Loads(I, s, w, from) = Assigns(s, a, w, io) /\ Loads(I, t, v, from) = Assigns(t, a, v, io)
    BY <1>1, <1>3, <2>1 DEF Loads
  <2>3. ArePlaces(writes, "reg", a, n) /\ a \in Int /\ n \in Nat
    BY RangesArePlaces
  <2>4. \A i, j \in 1..n : <<"reg", a + i - 1>> # from[j]
    <3>1. \A i \in Int : <<"reg", i>>[1] = "reg"
      OBVIOUS
    <3>2. "reg" # "mem"
      OBVIOUS
    <3> QED BY <3>1, <3>2, <2>3 DEF FromMem
  <2>5. IsSeq(w, n) /\ IsSeq(v, n) /\ IsSeq(from, n) /\ \A i \in 1..n : w[i] # v[i] => from[i] \in links
    BY DEF FromMem
  <2> HIDE DEF n, a, reads, writes
  <2>6. Tells(io, links, "reg", a, n, w, v)
    BY ONLY <2>3, <2>4, <2>5, AddressedTells
  <2> HIDE DEF io
  <2> QED BY <2>2, <2>3, <2>5, <2>6, AssignsAgree
<1> QED BY <1>2, <1>3

\* So are the loads in both byte orders.
LEMMA LoadsFollow ==
  ASSUME NEW s, NEW t, NEW links, AgreeBut(s, t, links), NEW I, I.a0 \in Nat, I.n \in Nat,
         SameWord(s, t, I.a1), Address(s, I.a1) \in Int
  PROVE  /\ ~HasFailed(ExecuteRegAsgnDeref(I, s)) =>
              Follows(ExecuteRegAsgnDeref(I, s), ExecuteRegAsgnDeref(I, t), links)
         /\ ~HasFailed(ExecuteRegAsgnDerefInv(I, s)) =>
              Follows(ExecuteRegAsgnDerefInv(I, s), ExecuteRegAsgnDerefInv(I, t), links)
<1> DEFINE n == I.n
           adr == Address(s, I.a1)
           w == Read(s.mem, adr, n)
           v == Read(t.mem, adr, n)
           from == InMem(adr, n)
<1>1. Address(t, I.a1) = adr
  BY AddressSame
<1>2. IsSeq(w, n) /\ IsSeq(v, n)
  BY ReadBytes
<1>3. ArePlaces(from, "mem", adr, n)
  BY RangesArePlaces
<1>4. LinksDifferent(links, "mem", adr, n, w, v)
  BY ReadsAgree DEF AgreeBut
<1>5. /\ ExecuteRegAsgnDeref(I, s) = Loads(I, s, w, from) /\ ExecuteRegAsgnDeref(I, t) = Loads(I, t, v, from)
      /\ ExecuteRegAsgnDerefInv(I, s) = Loads(I, s, Reversed(w), Reversed(from))
      /\ ExecuteRegAsgnDerefInv(I, t) = Loads(I, t, Reversed(v), Reversed(from))
  BY <1>1 DEF ExecuteRegAsgnDeref, ExecuteRegAsgnDerefInv
<1>6. n \in Nat /\ n = I.n /\ adr \in Int
  OBVIOUS
<1> HIDE DEF w, v, from, adr, n
<1>7. FromMem(from, n) /\ \A i \in 1..n : w[i] # v[i] => from[i] \in links
  <2>1. \A i \in 1..n : from[i] = <<"mem", adr + i - 1>>
    BY <1>3 DEF ArePlaces
  <2>2. \A i \in 1..n : from[i][1] = "mem"
    BY <2>1
  <2>3. \A i \in 1..n : w[i] # v[i] => from[i] \in links
    BY <1>4, <2>1 DEF LinksDifferent
  <2> QED BY <1>3, <2>2, <2>3 DEF FromMem, ArePlaces
<1>8. /\ IsSeq(Reversed(w), n) /\ \A i \in 1..n : Reversed(w)[i] = w[n + 1 - i]
      /\ IsSeq(Reversed(v), n) /\ \A i \in 1..n : Reversed(v)[i] = v[n + 1 - i]
      /\ IsSeq(Reversed(from), n) /\ \A i \in 1..n : Reversed(from)[i] = from[n + 1 - i]
  <2>1. IsSeq(w, n) /\ IsSeq(v, n)
    BY <1>2
  <2>2. IsSeq(from, n)
    BY <1>7 DEF FromMem
  <2>3. IsSeq(Reversed(w), n) /\ \A i \in 1..n : Reversed(w)[i] = w[n + 1 - i]
    BY <2>1, ReversedBytes
  <2>4. IsSeq(Reversed(v), n) /\ \A i \in 1..n : Reversed(v)[i] = v[n + 1 - i]
    BY <2>1, ReversedBytes
  <2>5. IsSeq(Reversed(from), n) /\ \A i \in 1..n : Reversed(from)[i] = from[n + 1 - i]
    BY <2>2, ReversedBytes
  <2> QED BY <2>3, <2>4, <2>5
<1>9. \A i \in 1..n : n + 1 - i \in 1..n
  BY <1>6
<1>10. FromMem(Reversed(from), n) /\ \A i \in 1..n : Reversed(w)[i] # Reversed(v)[i] => Reversed(from)[i] \in links
  BY <1>7, <1>8, <1>9 DEF FromMem
<1>11. ~HasFailed(Loads(I, s, w, from)) => Follows(Loads(I, s, w, from), Loads(I, t, v, from), links)
  BY <1>2, <1>6, <1>7, LoadFollows
<1>12. ~HasFailed(Loads(I, s, Reversed(w), Reversed(from))) =>
         Follows(Loads(I, s, Reversed(w), Reversed(from)), Loads(I, t, Reversed(v), Reversed(from)), links)
  BY <1>6, <1>8, <1>10, LoadFollows
<1> QED BY <1>5, <1>11, <1>12

\* A word is stored, and its io-relation tells enough about it.
LEMMA StoreFollows ==
  ASSUME NEW s, NEW t, NEW links, AgreeBut(s, t, links), NEW I,
         SameWord(s, t, I.a0), NEW adr \in Int, adr = Address(s, I.a0), NEW n, n = I.n,
         NEW w, NEW v, IsSeq(w, n), IsSeq(v, n), NEW io, NEW other, Tells(io, links, "mem", adr, n, w, v)
  PROVE  ~HasFailed(Stores(I, s, w, io)) => Follows(Stores(I, s, w, io), Stores(I, t, v, other), links)
<1> DEFINE message == "not writable memory"
<1>1. Address(t, I.a0) = adr
  BY AddressSame
<1>2. CASE ~Allowed(s, adr, n, Writable(s))
  <2>1. Stores(I, s, w, io) = Fails(s, message)
    BY <1>2 DEF Stores
  <2>2. HasFailed(Fails(s, message))
    BY FailsIs DEF AgreeBut
  <2> QED BY <2>1, <2>2
<1>3. CASE Allowed(s, adr, n, Writable(s))
  <2>1. Allowed(t, adr, n, Writable(t))
    BY <1>3, AllowedSame
  <2>2. /\ Stores(I, s, w, io) = [cpu |-> [s EXCEPT !.mem = Write(s.mem, adr, w)], io |-> io]
        /\ Stores(I, t, v, other) = [cpu |-> [t EXCEPT !.mem = Write(t.mem, adr, v)], io |-> other]
    BY <1>1, <1>3, <2>1 DEF Stores
  <2>3. AgreeBut([s EXCEPT !.mem = Write(s.mem, adr, w)], [t EXCEPT !.mem = Write(t.mem, adr, v)], Linked(io, links))
    BY MemAgrees DEF Tells
  <2> QED BY <2>2, <2>3 DEF Follows
<1> QED BY <1>2, <1>3

\* Bytes that come from the REG pool.
FromReg(from, n) == IsSeq(from, n) /\ \A i \in 1..n : from[i][1] = "reg"

\* The io-relation of a store lists the address first, and then the register byte by byte.
LEMMA StoresTell ==
  ASSUME NEW links, NEW adr \in Int, NEW n \in Nat, NEW w, NEW v, NEW reads, NEW from, FromReg(from, n),
         \A i \in 1..n : w[i] # v[i] => from[i] \in links
  PROVE  Tells(OneToN(reads, InMem(adr, n)) \o OneToOne(from, InMem(adr, n)), links, "mem", adr, n, w, v)
<1> DEFINE writes == InMem(adr, n)
<1>1. ArePlaces(writes, "mem", adr, n) /\ IsSeq(from, n)
  BY RangesArePlaces DEF FromReg
<1>2. \A i, j \in 1..n : <<"mem", adr + i - 1>> # from[j]
  <2>1. \A i \in Int : <<"mem", i>>[1] = "mem"
    OBVIOUS
  <2> QED BY <2>1 DEF FromReg
<1> HIDE DEF writes
<1>3. Tells(OneToN(reads, writes) \o OneToOne(from, writes), links, "mem", adr, n, w, v)
  BY <1>1, <1>2, AddressedTells
<1> QED BY <1>3 DEF writes

\* Stores of a register, in both byte orders.
LEMMA StoresFollow ==
  ASSUME NEW s, NEW t, NEW links, AgreeBut(s, t, links), NEW I, I.a1 \in Nat, I.n \in Nat,
         SameWord(s, t, I.a0), Address(s, I.a0) \in Int
  PROVE  /\ ~HasFailed(ExecuteDerefAsgnReg(I, s)) =>
              Follows(ExecuteDerefAsgnReg(I, s), ExecuteDerefAsgnReg(I, t), links)
         /\ ~HasFailed(ExecuteDerefInvAsgnReg(I, s)) =>
              Follows(ExecuteDerefInvAsgnReg(I, s), ExecuteDerefInvAsgnReg(I, t), links)
<1> DEFINE n == I.n
           adr == Address(s, I.a0)
           reads == InReg(I.a0, 8)
           w == Read(s.reg, I.a1, n)
           v == Read(t.reg, I.a1, n)
           from == InReg(I.a1, n)
           Io(bytes) == OneToN(reads, InMem(adr, n)) \o OneToOne(bytes, InMem(adr, n))
<1>1. Address(t, I.a0) = adr
  BY AddressSame
<1>2. IsSeq(w, n) /\ IsSeq(v, n)
  BY ReadBytes
<1>3. ArePlaces(from, "reg", I.a1, n)
  BY RangesArePlaces
<1>4. LinksDifferent(links, "reg", I.a1, n, w, v)
  BY ReadsAgree DEF AgreeBut
<1>5. /\ ExecuteDerefAsgnReg(I, s) = Stores(I, s, w, Io(from))
      /\ ExecuteDerefAsgnReg(I, t) = Stores(I, t, v, Io(from))
      /\ ExecuteDerefInvAsgnReg(I, s) = Stores(I, s, Reversed(w), Io(Reversed(from)))
      /\ ExecuteDerefInvAsgnReg(I, t) = Stores(I, t, Reversed(v), Io(Reversed(from)))
  BY <1>1 DEF ExecuteDerefAsgnReg, ExecuteDerefInvAsgnReg, FromAddress
<1>6. n \in Nat /\ n = I.n /\ adr \in Int /\ adr = Address(s, I.a0)
  OBVIOUS
<1> HIDE DEF w, v, from, adr, n
<1>7. FromReg(from, n) /\ \A i \in 1..n : w[i] # v[i] => from[i] \in links
  <2>1. \A i \in 1..n : from[i] = <<"reg", I.a1 + i - 1>>
    BY <1>3 DEF ArePlaces
  <2>2. \A i \in 1..n : from[i][1] = "reg"
    BY <2>1
  <2>3. \A i \in 1..n : w[i] # v[i] => from[i] \in links
    BY <1>4, <2>1 DEF LinksDifferent
  <2> QED BY <1>3, <2>2, <2>3 DEF FromReg, ArePlaces
<1>8. /\ IsSeq(Reversed(w), n) /\ \A i \in 1..n : Reversed(w)[i] = w[n + 1 - i]
      /\ IsSeq(Reversed(v), n) /\ \A i \in 1..n : Reversed(v)[i] = v[n + 1 - i]
      /\ IsSeq(Reversed(from), n) /\ \A i \in 1..n : Reversed(from)[i] = from[n + 1 - i]
  <2>1. IsSeq(w, n) /\ IsSeq(v, n)
    BY <1>2
  <2>2. IsSeq(from, n)
    BY <1>7 DEF FromReg
  <2>3. IsSeq(Reversed(w), n) /\ \A i \in 1..n : Reversed(w)[i] = w[n + 1 - i]
    BY <2>1, ReversedBytes
  <2>4. IsSeq(Reversed(v), n) /\ \A i \in 1..n : Reversed(v)[i] = v[n + 1 - i]
    BY <2>1, ReversedBytes
  <2>5. IsSeq(Reversed(from), n) /\ \A i \in 1..n : Reversed(from)[i] = from[n + 1 - i]
    BY <2>2, ReversedBytes
  <2> QED BY <2>3, <2>4, <2>5
<1>9. \A i \in 1..n : n + 1 - i \in 1..n
  BY <1>6
<1>10. FromReg(Reversed(from), n) /\ \A i \in 1..n : Reversed(w)[i] # Reversed(v)[i] => Reversed(from)[i] \in links
  BY <1>7, <1>8, <1>9 DEF FromReg
<1>11. Tells(Io(from), links, "mem", adr, n, w, v)
  BY <1>6, <1>7, StoresTell
<1>12. Tells(Io(Reversed(from)), links, "mem", adr, n, Reversed(w), Reversed(v))
  BY <1>6, <1>10, StoresTell
<1> HIDE DEF Io
<1>13. ~HasFailed(Stores(I, s, w, Io(from))) => Follows(Stores(I, s, w, Io(from)), Stores(I, t, v, Io(from)), links)
  BY <1>2, <1>6, <1>11, StoreFollows
<1>14. ~HasFailed(Stores(I, s, Reversed(w), Io(Reversed(from)))) =>
         Follows(Stores(I, s, Reversed(w), Io(Reversed(from))), Stores(I, t, Reversed(v), Io(Reversed(from))), links)
  BY <1>6, <1>8, <1>12, StoreFollows
<1> QED BY <1>5, <1>13, <1>14

\* Stores of a number, in both byte orders.
LEMMA NumberStoresFollow ==
  ASSUME NEW s, NEW t, NEW links, AgreeBut(s, t, links), NEW I, I.n \in Nat, IsSeq(I.v, I.n),
         SameWord(s, t, I.a0), Address(s, I.a0) \in Int
  PROVE  /\ ~HasFailed(ExecuteDerefAsgnNumber(I, s)) =>
              Follows(ExecuteDerefAsgnNumber(I, s), ExecuteDerefAsgnNumber(I, t), links)
         /\ ~HasFailed(ExecuteDerefInvAsgnNumber(I, s)) =>
              Follows(ExecuteDerefInvAsgnNumber(I, s), ExecuteDerefInvAsgnNumber(I, t), links)
<1> DEFINE n == I.n
           adr == Address(s, I.a0)
           io == FromAddress(I, s)
           other == FromAddress(I, t)
<1>1. ArePlaces(InMem(adr, n), "mem", adr, n)
  BY RangesArePlaces
<1>2. ASSUME NEW w PROVE Tells(io, links, "mem", adr, n, w, w)
  BY <1>1, OneToNTells DEF FromAddress
<1>3. IsSeq(Reversed(I.v), n)
  BY ReversedBytes
<1>4. n = I.n /\ adr = Address(s, I.a0) /\ adr \in Int /\ IsSeq(I.v, n)
  OBVIOUS
<1> HIDE DEF io, other, adr, n
<1>5. ~HasFailed(Stores(I, s, I.v, io)) => Follows(Stores(I, s, I.v, io), Stores(I, t, I.v, other), links)
  BY <1>2, <1>4, StoreFollows
<1>6. ~HasFailed(Stores(I, s, Reversed(I.v), io)) =>
        Follows(Stores(I, s, Reversed(I.v), io), Stores(I, t, Reversed(I.v), other), links)
  BY <1>2, <1>3, <1>4, StoreFollows
<1> QED BY <1>5, <1>6 DEF ExecuteDerefAsgnNumber, ExecuteDerefInvAsgnNumber, io, other

-----------------------------------------------------------------------------
(* Instructions that find registers at an address *)

\* A word is copied to where it does not overlap with itself.
LEMMA ApartTells ==
  ASSUME NEW s, NEW t, NEW links, AgreeBut(s, t, links), NEW a \in Int, NEW b \in Int, NEW n \in Nat,
         AreApart(a, b, n), NEW reads
  PROVE  Tells(OneToN(reads, InReg(a, n)) \o OneToOne(InReg(b, n), InReg(a, n)), links, "reg", a, n,
               Read(s.reg, b, n), Read(t.reg, b, n))
<1> DEFINE writes == InReg(a, n)
           from == InReg(b, n)
           w == Read(s.reg, b, n)
           v == Read(t.reg, b, n)
<1>1. ArePlaces(writes, "reg", a, n) /\ ArePlaces(from, "reg", b, n)
  BY RangesArePlaces
<1>2. LinksDifferent(links, "reg", b, n, w, v)
  BY ReadsAgree DEF AgreeBut
<1> HIDE DEF writes, from, w, v
<1>3. \A i, j \in 1..n : <<"reg", a + i - 1>> # from[j]
  <2> SUFFICES ASSUME NEW i \in 1..n, NEW j \in 1..n, a + i - 1 = b + j - 1
               PROVE  FALSE
    BY <1>1 DEF ArePlaces
  <2>1. a + i - 1 \in Block(a, n) /\ b + j - 1 \in Block(b, n)
    BY DEF Block
  <2> QED BY <2>1 DEF AreApart
<1>4. IsSeq(from, n) /\ \A i \in 1..n : w[i] # v[i] => from[i] \in links
  BY <1>1, <1>2 DEF ArePlaces, LinksDifferent
<1>5. Tells(OneToN(reads, writes) \o OneToOne(from, writes), links, "reg", a, n, w, v)
  BY <1>1, <1>3, <1>4, AddressedTells
<1> QED BY <1>5 DEF writes, from, w, v

\* A word of registers is read at an address in a register.
LEMMA CopyFromFollows ==
  ASSUME NEW s, NEW t, NEW links, AgreeBut(s, t, links), NEW I, I.a0 \in Nat, I.n \in Nat,
         SameWord(s, t, I.a1), Address(s, I.a1) \in Int, AreApart(I.a0, Address(s, I.a1), I.n)
  PROVE  Follows(ExecuteCopyFrom(I, s), ExecuteCopyFrom(I, t), links)
<1> DEFINE n == I.n
           a == I.a0
           adr == Address(s, I.a1)
           io == OneToN(InReg(I.a1, 8), InReg(a, n)) \o OneToOne(InReg(adr, n), InReg(a, n))
           w == Read(s.reg, adr, n)
           v == Read(t.reg, adr, n)
<1>1. Address(t, I.a1) = adr
  BY AddressSame
<1>2. Tells(io, links, "reg", a, n, w, v)
  BY ApartTells
<1>3. IsSeq(w, n) /\ IsSeq(v, n) /\ a \in Int
  BY ReadBytes
<1>4. ExecuteCopyFrom(I, s) = Assigns(s, a, w, io) /\ ExecuteCopyFrom(I, t) = Assigns(t, a, v, io)
  BY <1>1 DEF ExecuteCopyFrom
<1> HIDE DEF a, io, w, v, n
<1> QED BY <1>2, <1>3, <1>4, AssignsAgree

\* A word of registers is written at an address in a register.
LEMMA CopyToFollows ==
  ASSUME NEW s, NEW t, NEW links, AgreeBut(s, t, links), NEW I, I.a1 \in Nat, I.n \in Nat,
         SameWord(s, t, I.a0), Address(s, I.a0) \in Int, AreApart(Address(s, I.a0), I.a1, I.n)
  PROVE  Follows(ExecuteCopyTo(I, s), ExecuteCopyTo(I, t), links)
<1> DEFINE n == I.n
           adr == Address(s, I.a0)
           io == OneToN(InReg(I.a0, 8), InReg(adr, n)) \o OneToOne(InReg(I.a1, n), InReg(adr, n))
           w == Read(s.reg, I.a1, n)
           v == Read(t.reg, I.a1, n)
<1>1. Address(t, I.a0) = adr
  BY AddressSame
<1>2. Tells(io, links, "reg", adr, n, w, v)
  BY ApartTells
<1>3. IsSeq(w, n) /\ IsSeq(v, n) /\ adr \in Int
  BY ReadBytes
<1>4. ExecuteCopyTo(I, s) = Assigns(s, adr, w, io) /\ ExecuteCopyTo(I, t) = Assigns(t, adr, v, io)
  BY <1>1 DEF ExecuteCopyTo
<1> HIDE DEF adr, io, w, v, n
<1> QED BY <1>2, <1>3, <1>4, AssignsAgree

\* Havoc is written at an address in a register.
LEMMA HavocAtFollows ==
  ASSUME NEW s, NEW t, NEW links, AgreeBut(s, t, links), NEW I, I.n \in Nat,
         SameWord(s, t, I.a0), Address(s, I.a0) \in Int
  PROVE  Follows(ExecuteHavocAt(I, s), ExecuteHavocAt(I, t), links)
<1> DEFINE n == I.n
           adr == Address(s, I.a0)
           w == [i \in 1..n |-> HavocByte]
           io == OneToN(InReg(I.a0, 8), InReg(adr, n))
<1>1. Address(t, I.a0) = adr
  BY AddressSame
<1>2. IsSeq(w, n)
  BY DEF IsSeq
<1>3. ExecuteHavocAt(I, s) = Assigns(s, adr, w, io) /\ ExecuteHavocAt(I, t) = Assigns(t, adr, w, io)
  BY <1>1 DEF ExecuteHavocAt
<1>4. adr \in Int /\ n \in Nat
  OBVIOUS
<1> HIDE DEF adr, w, n
<1> QED BY <1>2, <1>3, <1>4, ConstantAgrees
-----------------------------------------------------------------------------
(* Streams *)

\* What WithStream changes: one stream.
LEMMA WithStreamIs ==
  ASSUME NEW s, IsMachine(s), NEW id, NEW info
  PROVE  /\ IsMachine(WithStream(s, id, info))
         /\ WithStream(s, id, info).reg = s.reg /\ WithStream(s, id, info).mem = s.mem
         /\ WithStream(s, id, info).blocks = s.blocks
         /\ \A j : StreamInfo(WithStream(s, id, info), j) = IF j = id THEN info ELSE StreamInfo(s, j)
<1> DEFINE streams == (id :> info) @@ s.streams
           s1 == [s EXCEPT !.streams = streams]
<1>1. WithStream(s, id, info) = s1
  BY DEF WithStream
<1>2. IsMachine(s1) /\ s1.reg = s.reg /\ s1.mem = s.mem /\ s1.blocks = s.blocks /\ s1.streams = streams
  BY DEF IsMachine
<1>3. \A j : j \in DOMAIN streams <=> j = id \/ j \in DOMAIN s.streams
  BY DEF :>, @@
<1>4. \A j \in DOMAIN streams : streams[j] = IF j = id THEN info ELSE s.streams[j]
  BY DEF :>, @@
<1> HIDE DEF s1, streams
<1>5. \A j : StreamInfo(s1, j) = IF j = id THEN info ELSE StreamInfo(s, j)
  BY <1>2, <1>3, <1>4 DEF StreamInfo
<1> QED BY <1>1, <1>2, <1>5

\* Both machines enter what agrees for the same stream.
LEMMA WithStreamAgrees ==
  ASSUME NEW s, NEW t, NEW links, AgreeBut(s, t, links), NEW id, NEW x, NEW y, StreamsAgree(links, id, x, y)
  PROVE  AgreeBut(WithStream(s, id, x), WithStream(t, id, y), links)
<1> DEFINE s1 == WithStream(s, id, x)
           t1 == WithStream(t, id, y)
<1>1. /\ IsMachine(s1) /\ s1.reg = s.reg /\ s1.mem = s.mem /\ s1.blocks = s.blocks
      /\ \A j : StreamInfo(s1, j) = IF j = id THEN x ELSE StreamInfo(s, j)
  BY WithStreamIs DEF AgreeBut
<1>2. /\ IsMachine(t1) /\ t1.reg = t.reg /\ t1.mem = t.mem /\ t1.blocks = t.blocks
      /\ \A j : StreamInfo(t1, j) = IF j = id THEN y ELSE StreamInfo(t, j)
  BY WithStreamIs DEF AgreeBut
<1> HIDE DEF s1, t1
<1>3. \A j : StreamsAgree(links, j, StreamInfo(s1, j), StreamInfo(t1, j))
  BY <1>1, <1>2 DEF AgreeBut
<1>4. AgreeBut(s1, t1, links)
  BY <1>1, <1>2, <1>3 DEF AgreeBut
<1> QED BY <1>4 DEF s1, t1

\* A stream that is opened is opened in both machines, with the same properties.
LEMMA StreamOpenFollows ==
  ASSUME NEW s, NEW t, NEW links, AgreeBut(s, t, links), NEW I, I.a0 \in Nat
  PROVE  ~HasFailed(ExecuteStreamOpen(I, s)) => Follows(ExecuteStreamOpen(I, s), ExecuteStreamOpen(I, t), links)
<1> DEFINE id == I.stream
           x == StreamInfo(s, id)
           y == StreamInfo(t, id)
           Opened(info) ==
             [open |-> TRUE, read |-> I.mode = 1, write |-> I.mode = 2, cursor |-> 0, content |-> info.content]
           w == Word(id, 8)
           io == OneToN(<< >>, InReg(I.a0, 8))
           message == "open already"
<1>1. StreamsAgree(links, id, x, y)
  BY DEF AgreeBut
<1>2. x.open = y.open
  BY <1>1 DEF StreamsAgree
<1>3. CASE x.open
  <2>1. ExecuteStreamOpen(I, s) = Fails(s, message)
    BY <1>3 DEF ExecuteStreamOpen
  <2>2. HasFailed(Fails(s, message))
    BY FailsIs DEF AgreeBut
  <2> QED BY <2>1, <2>2
<1>4. CASE ~x.open
  <2> DEFINE s1 == WithStream(s, id, Opened(x))
             t1 == WithStream(t, id, Opened(y))
  <2>1. ExecuteStreamOpen(I, s) = Assigns(s1, I.a0, w, io) /\ ExecuteStreamOpen(I, t) = Assigns(t1, I.a0, w, io)
    BY <1>2, <1>4 DEF ExecuteStreamOpen
  <2>2. ASSUME NEW z, IsStream(z)
        PROVE  IsStream(Opened(z))
    <3>1. Len(z.content) \in Nat
      BY <2>2 DEF IsStream, IsSeq
    <3> QED BY <2>2, <3>1 DEF IsStream
  <2>3. StreamsAgree(links, id, Opened(x), Opened(y))
    <3>1. IsStream(x) /\ IsStream(y)
      BY <1>1 DEF StreamsAgree
    <3>2. /\ Opened(x).open = Opened(y).open /\ Opened(x).read = Opened(y).read
          /\ Opened(x).write = Opened(y).write /\ Opened(x).cursor = Opened(y).cursor
          /\ Opened(x).content = x.content /\ Opened(y).content = y.content
      OBVIOUS
    <3> HIDE DEF Opened
    <3> QED BY <1>1, <2>2, <3>1, <3>2 DEF StreamsAgree
  <2>4. AgreeBut(s1, t1, links)
    BY <2>3, WithStreamAgrees
  <2>5. IsSeq(w, 8)
    BY WordLength
  <2> HIDE DEF s1, t1, w, io
  <2>6. Follows(Assigns(s1, I.a0, w, io), Assigns(t1, I.a0, w, io), links)
    BY <2>4, <2>5, ConstantAgrees DEF io
  <2> QED BY <2>1, <2>6
<1> QED BY <1>3, <1>4

\* The byte at the cursor is read: if it differs, the location in the stream is linked.
LEMMA StreamReadFollows ==
  ASSUME NEW s, NEW t, NEW links, AgreeBut(s, t, links), NEW I, I.a0 \in Nat
  PROVE  ~HasFailed(ExecuteStreamRead(I, s)) => Follows(ExecuteStreamRead(I, s), ExecuteStreamRead(I, t), links)
<1> DEFINE id == I.stream
           x == StreamInfo(s, id)
           y == StreamInfo(t, id)
           Moved(info) == [info EXCEPT !.cursor = @ + 1]
           from == InStream(id, x.cursor)
           writes == InReg(I.a0, 1)
           io == OneToOne(from, writes)
           w == <<ByteOf(x.content, x.cursor + 1)>>
           v == <<ByteOf(y.content, x.cursor + 1)>>
           message == "not a readable stream"
<1>1. StreamsAgree(links, id, x, y)
  BY DEF AgreeBut
<1>2. /\ x.open = y.open /\ x.read = y.read /\ x.cursor = y.cursor
      /\ Len(x.content) = Len(y.content)
      /\ \A i \in 1..Len(x.content) : x.content[i] # y.content[i] => <<"stream", id, i - 1>> \in links
      /\ BehindEnd(x) <=> BehindEnd(y)
  BY <1>1 DEF StreamsAgree, BehindEnd
<1>3. CASE ~x.open \/ ~x.read \/ BehindEnd(x)
  <2>1. ExecuteStreamRead(I, s) = Fails(s, message)
    BY <1>3 DEF ExecuteStreamRead
  <2>2. HasFailed(Fails(s, message))
    BY FailsIs DEF AgreeBut
  <2> QED BY <2>1, <2>2
<1>4. CASE ~(~x.open \/ ~x.read \/ BehindEnd(x))
  <2> DEFINE s1 == WithStream(s, id, Moved(x))
             t1 == WithStream(t, id, Moved(y))
  <2>1. ExecuteStreamRead(I, s) = Assigns(s1, I.a0, w, io)
    BY <1>4 DEF ExecuteStreamRead
  <2>2. ExecuteStreamRead(I, t) = Assigns(t1, I.a0, v, io)
    BY <1>2, <1>4 DEF ExecuteStreamRead
  <2>3. ASSUME NEW z, IsStream(z), ~BehindEnd(z)
        PROVE  /\ IsStream(Moved(z)) /\ Moved(z).content = z.content /\ Moved(z).cursor = z.cursor + 1
               /\ Moved(z).open = z.open /\ Moved(z).read = z.read /\ Moved(z).write = z.write
    <3> DEFINE o == [open |-> z.open, read |-> z.read, write |-> z.write, cursor |-> z.cursor + 1,
                     content |-> z.content]
    <3>1. Moved(z) = o
      BY <2>3 DEF IsStream
    <3>2. Len(z.content) \in Nat /\ z.cursor \in 0..Len(z.content) /\ ~(z.cursor >= Len(z.content))
      BY <2>3 DEF IsStream, IsSeq, BehindEnd
    <3>3. IsStream(o)
      BY <2>3, <3>2 DEF IsStream
    <3> QED BY <3>1, <3>3
  <2> HIDE DEF Moved
  <2>4. IsStream(x) /\ IsStream(y) /\ ~BehindEnd(x) /\ ~BehindEnd(y)
    BY <1>1, <1>2, <1>4 DEF StreamsAgree
  <2>5. StreamsAgree(links, id, Moved(x), Moved(y))
    BY <1>1, <2>3, <2>4 DEF StreamsAgree
  <2>6. AgreeBut(s1, t1, links)
    BY <2>5, WithStreamAgrees
  <2>7. IsSeq(w, 1) /\ IsSeq(v, 1) /\ IsSeq(from, 1)
    BY DEF IsSeq, InStream
  <2>8. ArePlaces(writes, "reg", I.a0, 1) /\ I.a0 \in Int /\ 1 \in Nat
    BY RangesArePlaces
  <2>9. x.cursor + 1 \in 1..Len(x.content) /\ (x.cursor + 1) - 1 = x.cursor
    BY <2>4 DEF IsStream, IsSeq, BehindEnd
  <2>10. \A i \in 1..1 : w[i] # v[i] => from[i] \in links
    <3>1. w[1] = x.content[x.cursor + 1] /\ v[1] = y.content[x.cursor + 1]
      BY <1>2, <2>9 DEF ByteOf
    <3>2. from[1] = <<"stream", id, x.cursor>>
      BY DEF InStream
    <3> HIDE DEF w, v, from
    <3>3. w[1] # v[1] => from[1] \in links
      BY <1>2, <2>9, <3>1, <3>2
    <3> QED BY <3>3
  <2> HIDE DEF from, writes, w, v
  <2>11. Tells(io, links, "reg", I.a0, 1, w, v)
    <3>1. \A j \in 1..1 : \A i \in 1..(j - 1) : <<"reg", I.a0 + i - 1>> # from[j]
      OBVIOUS
    <3> QED BY <2>7, <2>8, <2>10, <3>1, OneToOneTells
  <2> HIDE DEF s1, t1, io
  <2>12. Follows(Assigns(s1, I.a0, w, io), Assigns(t1, I.a0, v, io), links)
    BY <2>6, <2>7, <2>8, <2>11, AssignsAgree
  <2> QED BY <2>1, <2>2, <2>12
<1> QED BY <1>3, <1>4

\* The byte behind the cursor is overwritten, or one is added.
Overwritten(content, cursor, byte) ==
  SubSeq(content, 1, cursor) \o <<byte>> \o SubSeq(content, cursor + 2, Len(content))

\* What is in a stream when a byte was overwritten, or added.
LEMMA OverwrittenBytes ==
  ASSUME NEW content, NEW n, IsSeq(content, n), NEW c \in 0..n, NEW b, NEW m, m = IF c < n THEN n ELSE n + 1
  PROVE  /\ IsSeq(Overwritten(content, c, b), m)
         /\ \A i \in 1..m : Overwritten(content, c, b)[i] = IF i = c + 1 THEN b ELSE content[i]
<1> DEFINE S == {content[i] : i \in 1..n} \cup {b}
           head == SubSeq(content, 1, c)
           last == SubSeq(content, c + 2, n)
           k == IF c < n THEN n - c - 1 ELSE 0
<1>1. Len(content) = n /\ n \in Nat /\ c \in Nat /\ c <= n
  BY SeqFacts DEF IsSeq
<1>2. content \in Seq(S) /\ b \in S
  <2>1. content \in [1..n -> S]
    BY DEF IsSeq
  <2> QED BY <1>1, <2>1
<1> HIDE DEF S
<1>3. head \in Seq(S) /\ Len(head) = c /\ \A i \in 1..c : head[i] = content[i]
  BY <1>1, <1>2
<1>4. last \in Seq(S) /\ Len(last) = k /\ \A i \in 1..k : last[i] = content[c + 1 + i]
  <2>1. CASE c < n
    <3>1. c + 2 \in 1..(n + 1)
      BY <1>1, <2>1
    <3>2. last \in Seq(S) /\ Len(last) = n - (c + 2) + 1
      BY <1>1, <1>2, <3>1, <2>1
    <3>3. \A i \in 1..(n - (c + 2) + 1) : last[i] = content[(c + 2) + i - 1]
      BY <1>1, <1>2, <3>1, <2>1
    <3>4. n - (c + 2) + 1 = k /\ \A i \in 1..k : (c + 2) + i - 1 = c + 1 + i
      BY <1>1, <2>1
    <3> QED BY <3>2, <3>3, <3>4
  <2>2. CASE c = n
    <3>1. last = << >>
      BY <1>1, <1>2, <2>2
    <3> QED BY <3>1, <2>2
  <2> QED BY <1>1, <2>1, <2>2
<1> HIDE DEF head, last
<1>5. /\ head \o <<b>> \in Seq(S) /\ Len(head \o <<b>>) = c + 1
      /\ \A i \in 1..(c + 1) : (head \o <<b>>)[i] = IF i = c + 1 THEN b ELSE content[i]
  BY <1>1, <1>2, <1>3
<1> DEFINE front == head \o <<b>>
           all == front \o last
<1> HIDE DEF front
<1>6. k \in Nat /\ m = c + 1 + k /\ m \in Nat
  BY <1>1
<1>7. all \in Seq(S) /\ Len(all) = c + 1 + k
  <2>1. front \in Seq(S) /\ Len(front) = c + 1
    BY <1>5 DEF front
  <2> HIDE DEF k
  <2> QED BY <1>4, <2>1
<1>8. /\ \A i \in 1..(c + 1) : all[i] = front[i]
      /\ \A i \in 1..k : all[c + 1 + i] = last[i]
  BY <1>1, <1>4, <1>5, <1>6 DEF front
<1> HIDE DEF all, k
<1>9. \A i \in 1..m : i \in 1..(c + 1) \/ (i - (c + 1) \in 1..k /\ c + 1 + (i - (c + 1)) = i /\ i # c + 1)
  BY <1>1, <1>6
<1>10. \A i \in 1..m : all[i] = IF i = c + 1 THEN b ELSE content[i]
  <2> SUFFICES ASSUME NEW i \in 1..m PROVE all[i] = IF i = c + 1 THEN b ELSE content[i]
    OBVIOUS
  <2>1. CASE i \in 1..(c + 1)
    BY <2>1, <1>5, <1>8 DEF front
  <2>2. CASE i \notin 1..(c + 1)
    <3> DEFINE j == i - (c + 1)
    <3>1. j \in 1..k /\ c + 1 + j = i /\ i # c + 1
      BY <1>9, <2>2
    <3> HIDE DEF j
    <3>2. all[c + 1 + j] = last[j] /\ last[j] = content[c + 1 + j]
      BY <1>4, <1>8, <3>1
    <3> QED BY <3>1, <3>2
  <2> QED BY <2>1, <2>2
<1>11. IsSeq(all, m)
  BY <1>6, <1>7 DEF IsSeq
<1>12. Overwritten(content, c, b) = all
  BY <1>1 DEF Overwritten, all, front, head, last
<1> QED BY <1>10, <1>11, <1>12

\* What the io-relation of STREAM WRITE tells: a is the register that is assigned,
\* b the one whose byte is written at the cursor.
LEMMA StreamWriteLinks ==
  ASSUME NEW links, NEW id, NEW c, NEW a \in Nat, NEW b \in Nat, NEW io,
         io = OneToN(InReg(b, 1), InStream(id, c) \o InReg(a, 1))
  PROVE  /\ \A loc \in links : loc # <<"stream", id, c>> /\ loc # <<"reg", a>> => loc \in Linked(io, links)
         /\ <<"reg", b>> \in links => /\ links \subseteq Linked(io, links)
                                      /\ <<"stream", id, c>> \in Linked(io, links)
<1> DEFINE x == InStream(id, c)
           y == InReg(a, 1)
           writes == x \o y
           reads == LocationsOf(InReg(b, 1))
<1>1. x = <<<<"stream", id, c>>>> /\ y = <<<<"reg", a>>>>
  <2>1. \A i \in 1..1 : i = 1 /\ a + i - 1 = a
    OBVIOUS
  <2>2. y = [i \in 1..1 |-> <<"reg", a>>]
    BY <2>1 DEF InReg
  <2> QED BY <2>2 DEF InStream
<1> HIDE DEF x, y
<1>2. Len(writes) = 2 /\ writes[1] = <<"stream", id, c>> /\ writes[2] = <<"reg", a>>
  BY <1>1
<1> HIDE DEF writes
<1>3. reads = {<<"reg", b>>}
  <2>1. reads = {<<"reg", b + i - 1>> : i \in 1..1}
    BY InRegLocations
  <2>2. \A i \in 1..1 : b + i - 1 = b
    OBVIOUS
  <2> HIDE DEF reads
  <2> QED BY <2>1, <2>2
<1> HIDE DEF reads
<1>4. io = [i \in 1..2 |-> <<writes[i], reads>>]
  BY <1>2 DEF OneToN, writes, reads, x, y
<1>5. /\ Len(io) = 2 /\ \A i \in 1..2 : io[i][2] = reads
      /\ io[1][1] = <<"stream", id, c>> /\ io[2][1] = <<"reg", a>>
  <2>1. io \in [1..2 -> {<<writes[i], reads>> : i \in 1..2}]
    BY <1>4
  <2>2. Len(io) = 2
    BY <2>1
  <2>3. \A i \in 1..2 : io[i] = <<writes[i], reads>>
    BY <1>4
  <2> QED BY <1>2, <2>2, <2>3
<1>6. \A i \in 1..Len(io) : io[i][2] = reads /\ (i = 1 \/ i = 2)
  BY <1>5
<1>7. ASSUME NEW loc \in links, loc # <<"stream", id, c>>, loc # <<"reg", a>>
      PROVE  loc \in Linked(io, links)
  <2>1. \A i \in 1..Len(io) : io[i][1] # loc
    BY <1>5, <1>6, <1>7
  <2> QED BY <1>5, <1>7, <2>1, LinkedKeeps
<1>8. ASSUME <<"reg", b>> \in links
      PROVE  links \subseteq Linked(io, links) /\ <<"stream", id, c>> \in Linked(io, links)
  <2> DEFINE r == <<"reg", b>>
  <2>1. r \in reads /\ r \in links
    BY <1>3, <1>8
  <2> HIDE DEF r
  <2>2. /\ \A k \in 1..Len(io) : io[k][1] \in Linked(io, links)
        /\ links \subseteq Linked(io, links)
    BY <1>5, <1>6, <2>1, LinkedByAll
  <2>3. 1 \in 1..Len(io)
    BY <1>5
  <2> QED BY <1>5, <2>2, <2>3
<1> QED BY <1>7, <1>8

\* The byte at the cursor is written: if the register is linked, the location in the stream is, too.
LEMMA StreamWriteFollows ==
  ASSUME NEW s, NEW t, NEW links, AgreeBut(s, t, links), NEW I, I.a0 \in Nat, I.a1 \in Nat
  PROVE  ~HasFailed(ExecuteStreamWrite(I, s)) => Follows(ExecuteStreamWrite(I, s), ExecuteStreamWrite(I, t), links)
<1> DEFINE id == I.stream
           a == I.a0
           x == StreamInfo(s, id)
           y == StreamInfo(t, id)
           c == x.cursor
           b == ByteAt(s.reg, I.a1)
           d == ByteAt(t.reg, I.a1)
           Moved(info, byte) ==
             [open |-> info.open, read |-> info.read, write |-> info.write, cursor |-> info.cursor + 1,
              content |-> Overwritten(info.content, info.cursor, byte)]
           io == OneToN(InReg(I.a1, 1), InStream(id, c) \o InReg(a, 1))
           after == Linked(io, links)
           message == "not a writable stream"
<1>1. StreamsAgree(links, id, x, y)
  BY DEF AgreeBut
<1>2. x.open = y.open /\ x.write = y.write /\ x.cursor = y.cursor
  BY <1>1 DEF StreamsAgree
<1>3. CASE ~x.open \/ ~x.write
  <2>1. ExecuteStreamWrite(I, s) = Fails(s, message)
    BY <1>3 DEF ExecuteStreamWrite
  <2>2. HasFailed(Fails(s, message))
    BY FailsIs DEF AgreeBut
  <2> QED BY <2>1, <2>2
<1>4. CASE ~(~x.open \/ ~x.write)
  <2> DEFINE x1 == Moved(x, b)
             y1 == Moved(y, d)
             s1 == WithStream(s, id, x1)
             t1 == WithStream(t, id, y1)
             s2 == [s1 EXCEPT !.reg = Write(s1.reg, a, <<1>>)]
             t2 == [t1 EXCEPT !.reg = Write(t1.reg, a, <<1>>)]
  <2>1. ExecuteStreamWrite(I, s) = [cpu |-> s2, io |-> io]
    BY <1>4, AssignsIs DEF ExecuteStreamWrite, Overwritten
  <2>2. ExecuteStreamWrite(I, t).cpu = t2
    <3>1. ~(~y.open \/ ~y.write)
      BY <1>2, <1>4
    <3> QED BY <3>1, AssignsIs DEF ExecuteStreamWrite, Overwritten
  <2>3. AgreeBut(s2, t2, after)
    <3>1. /\ IsMachine(s1) /\ s1.reg = s.reg /\ s1.mem = s.mem /\ s1.blocks = s.blocks
          /\ \A j : StreamInfo(s1, j) = IF j = id THEN x1 ELSE StreamInfo(s, j)
      <4> HIDE DEF x1
      <4> QED BY WithStreamIs DEF AgreeBut
    <3>2. /\ IsMachine(t1) /\ t1.reg = t.reg /\ t1.mem = t.mem /\ t1.blocks = t.blocks
          /\ \A j : StreamInfo(t1, j) = IF j = id THEN y1 ELSE StreamInfo(t, j)
      <4> HIDE DEF y1
      <4> QED BY WithStreamIs DEF AgreeBut
    <3> HIDE DEF s1, t1
    <3>3. /\ IsMachine(s2) /\ s2.reg = Write(s.reg, a, <<1>>) /\ s2.mem = s.mem /\ s2.blocks = s.blocks
          /\ s2.streams = s1.streams
      BY <3>1 DEF IsMachine
    <3>4. /\ IsMachine(t2) /\ t2.reg = Write(t.reg, a, <<1>>) /\ t2.mem = t.mem /\ t2.blocks = t.blocks
          /\ t2.streams = t1.streams
      BY <3>2 DEF IsMachine
    <3> HIDE DEF s2, t2
    <3>5. /\ \A loc \in links : loc # <<"stream", id, c>> /\ loc # <<"reg", a>> => loc \in after
          /\ <<"reg", I.a1>> \in links => links \subseteq after /\ <<"stream", id, c>> \in after
      BY StreamWriteLinks
    <3> HIDE DEF after
    <3>6. b # d => <<"reg", I.a1>> \in links
      BY DEF AgreeBut, Covers
    <3>7. Covers(after, "reg", s2.reg, t2.reg)
      <4>1. IsSeq(<<1>>, 1) /\ \A l : l \in a..(a + 1 - 1) <=> l = a
        BY DEF IsSeq
      <4>2. \A l : l # a => ByteAt(s2.reg, l) = ByteAt(s.reg, l) /\ ByteAt(t2.reg, l) = ByteAt(t.reg, l)
        BY <3>3, <3>4, <4>1, WriteBytes
      <4>3. ByteAt(s2.reg, a) = <<1>>[a - a + 1] /\ ByteAt(t2.reg, a) = <<1>>[a - a + 1]
        BY <3>3, <3>4, <4>1, WriteBytes
      <4>4. \A l : <<"reg", l>> # <<"stream", id, c>>
        OBVIOUS
      <4>5. \A l : l # a => <<"reg", l>> # <<"reg", a>>
        OBVIOUS
      <4>6. \A l : ByteAt(s.reg, l) # ByteAt(t.reg, l) => <<"reg", l>> \in links
        BY DEF AgreeBut, Covers
      <4> QED BY <3>5, <4>2, <4>3, <4>4, <4>5, <4>6 DEF Covers
    <3>8. Covers(after, "mem", s2.mem, t2.mem)
      <4>1. \A l : <<"mem", l>> # <<"stream", id, c>> /\ <<"mem", l>> # <<"reg", a>>
        OBVIOUS
      <4> QED BY <3>3, <3>4, <3>5, <4>1 DEF AgreeBut, Covers
    <3>9. StreamsAgree(after, id, x1, y1)
      <4> DEFINE n == Len(x.content)
                 m == IF c < n THEN n ELSE n + 1
                 u == Overwritten(x.content, c, b)
                 v == Overwritten(y.content, c, d)
      <4>1. /\ IsStream(x) /\ IsStream(y) /\ y.cursor = c /\ Len(y.content) = n /\ c \in 0..n
            /\ IsSeq(x.content, n) /\ IsSeq(y.content, n) /\ x.read = y.read
            /\ \A i \in 1..n : x.content[i] # y.content[i] => <<"stream", id, i - 1>> \in links
        BY <1>1 DEF StreamsAgree, IsStream
      <4>2. /\ IsSeq(u, m) /\ \A i \in 1..m : u[i] = IF i = c + 1 THEN b ELSE x.content[i]
            /\ IsSeq(v, m) /\ \A i \in 1..m : v[i] = IF i = c + 1 THEN d ELSE y.content[i]
        <5> HIDE DEF c, b, d
        <5> QED BY <4>1, OverwrittenBytes
      <4>3. Len(u) = m /\ Len(v) = m /\ m \in Nat /\ n \in Nat
        BY <4>1, <4>2, SeqFacts DEF IsSeq
      <4> HIDE DEF u, v
      <4>4. /\ x1 = [open |-> x.open, read |-> x.read, write |-> x.write, cursor |-> c + 1, content |-> u]
            /\ y1 = [open |-> y.open, read |-> y.read, write |-> y.write, cursor |-> c + 1, content |-> v]
        BY <4>1 DEF u, v
      <4> HIDE DEF x1, y1
      <4>5. c + 1 \in 0..m
        BY <4>1, <4>3
      <4> HIDE DEF m
      <4>6. IsStream(x1) /\ IsStream(y1)
        BY <4>2, <4>3, <4>4, <4>5 DEF IsStream
      <4>7. \A i \in 1..m : u[i] # v[i] => <<"stream", id, i - 1>> \in after
        <5> SUFFICES ASSUME NEW i \in 1..m, u[i] # v[i] PROVE <<"stream", id, i - 1>> \in after
          OBVIOUS
        <5>1. CASE i = c + 1
          <6>1. b # d /\ i - 1 = c
            BY <4>1, <4>2, <5>1
          <6> QED BY <3>5, <3>6, <6>1
        <5>2. CASE i # c + 1
          <6>1. x.content[i] # y.content[i] /\ i \in 1..n /\ i - 1 # c
            <7>1. u[i] = x.content[i] /\ v[i] = y.content[i]
              BY <4>2, <5>2
            <7>2. i \in 1..n
              BY <4>1, <4>3, <5>2 DEF m
            <7> QED BY <4>1, <5>2, <7>1, <7>2
          <6>2. <<"stream", id, i - 1>> \in links
            BY <4>1, <6>1
          <6>3. <<"stream", id, i - 1>> # <<"stream", id, c>> /\ <<"stream", id, i - 1>> # <<"reg", a>>
            BY <6>1
          <6> QED BY <3>5, <6>2, <6>3
        <5> QED BY <5>1, <5>2
      <4> QED BY <1>2, <4>1, <4>3, <4>4, <4>6, <4>7 DEF StreamsAgree
    <3>10. ASSUME NEW j, j # id
           PROVE  StreamsAgree(after, j, StreamInfo(s, j), StreamInfo(t, j))
      <4>1. StreamsAgree(links, j, StreamInfo(s, j), StreamInfo(t, j))
        BY DEF AgreeBut
      <4>2. \A i : <<"stream", j, i>> # <<"stream", id, c>> /\ <<"stream", j, i>> # <<"reg", a>>
        BY <3>10
      <4> QED BY <3>5, <4>1, <4>2 DEF StreamsAgree
    <3>11. \A j : StreamInfo(s2, j) = StreamInfo(s1, j) /\ StreamInfo(t2, j) = StreamInfo(t1, j)
      BY <3>3, <3>4 DEF StreamInfo
    <3>12. \A j : StreamsAgree(after, j, StreamInfo(s2, j), StreamInfo(t2, j))
      <4> HIDE DEF x1, y1
      <4> QED BY <3>1, <3>2, <3>9, <3>10, <3>11
    <3>13. s.blocks = t.blocks
      BY DEF AgreeBut
    <3> QED BY <3>3, <3>4, <3>7, <3>8, <3>12, <3>13 DEF AgreeBut
  <2> HIDE DEF s2, t2
  <2> QED BY <2>1, <2>2, <2>3 DEF Follows
<1> QED BY <1>3, <1>4

-----------------------------------------------------------------------------
(* Which instruction is executed how *)

\* What executes an instruction if its assumptions hold.
Checked(I, s, step) == IF ~Assumed(I, s) THEN Fails(s, "assertion") ELSE step

\* The operator that executes an instruction is chosen by its kind (execute_instruction.cpp
\* has one function for each): moves, ...
LEMMA DispatchedMoves ==
  ASSUME NEW I, NEW s
  PROVE  /\ I.gik = "NOP" => Execute(I, s) = [cpu |-> s, io |-> << >>]
         /\ I.gik = "STOP" => Execute(I, s) = Fails(s, "stop")
         /\ I.gik = "REG:=INTERRUPT" => Execute(I, s) = Fails(s, "not implemented")
         /\ I.gik = "*ADDRESS:=DATA" => Execute(I, s) = ExecuteDerefAddressAsgnData(I, s)
         /\ I.gik = "REG:=NUMBER" => Execute(I, s) = Checked(I, s, ExecuteRegAsgnNumber(I, s))
         /\ I.gik = "REG:=REG" => Execute(I, s) = Checked(I, s, ExecuteRegAsgnReg(I, s))
         /\ I.gik = "REG:=*REG" => Execute(I, s) = Checked(I, s, ExecuteRegAsgnDeref(I, s))
         /\ I.gik = "REG:=*INV REG" => Execute(I, s) = Checked(I, s, ExecuteRegAsgnDerefInv(I, s))
         /\ I.gik = "*REG:=REG" => Execute(I, s) = Checked(I, s, ExecuteDerefAsgnReg(I, s))
         /\ I.gik = "*INV REG:=REG" => Execute(I, s) = Checked(I, s, ExecuteDerefInvAsgnReg(I, s))
         /\ I.gik = "*REG:=NUMBER" => Execute(I, s) = Checked(I, s, ExecuteDerefAsgnNumber(I, s))
         /\ I.gik = "*INV REG:=NUMBER" => Execute(I, s) = Checked(I, s, ExecuteDerefInvAsgnNumber(I, s))
         /\ I.gik = "REG:=ZERO_EXTEND" => Execute(I, s) = Checked(I, s, ExecuteZeroExtend(I, s))
         /\ I.gik = "REG:=SIGN_EXTEND" => Execute(I, s) = Checked(I, s, ExecuteSignExtend(I, s))
         /\ I.gik = "REG:=HAVOC" => Execute(I, s) = Checked(I, s, ExecuteHavoc(I, s))
BY DEF Execute, Checked

\* ... arithmetic, ...
LEMMA DispatchedArithmetic ==
  ASSUME NEW I, NEW s
  PROVE  /\ I.gik = "REG:=REG+NUMBER" => Execute(I, s) = Checked(I, s, ExecutePlusNumber(I, s))
         /\ I.gik = "REG:=REG+REG" => Execute(I, s) = Checked(I, s, ExecutePlusReg(I, s))
         /\ I.gik = "REG:=REG*NUMBER" => Execute(I, s) = Checked(I, s, ExecuteTimesNumber(I, s))
         /\ I.gik = "REG:=REG/REG" => Execute(I, s) = Checked(I, s, ExecuteDivideReg(I, s))
         /\ I.gik = "REG:=REG%REG" => Execute(I, s) = Checked(I, s, ExecuteModuloReg(I, s))
         /\ I.gik = "REG:=REG==0" => Execute(I, s) = Checked(I, s, ExecuteEqualToZero(I, s))
         /\ I.gik = "REG:=PARITY" => Execute(I, s) = Checked(I, s, ExecuteParityReg(I, s))
BY DEF Execute, Checked

\* ... blocks, registers at an address and streams, ...
LEMMA DispatchedSpecial ==
  ASSUME NEW I, NEW s
  PROVE  /\ I.gik = "REG:=MEM ALLOC" => Execute(I, s) = Checked(I, s, ExecuteMemAlloc(I, s))
         /\ I.gik = "REG:=MEM STATIC" => Execute(I, s) = Checked(I, s, ExecuteMemStatic(I, s))
         /\ I.gik = "REG:=REG[REG]" => Execute(I, s) = Checked(I, s, ExecuteCopyFrom(I, s))
         /\ I.gik = "REG[REG]:=REG" => Execute(I, s) = Checked(I, s, ExecuteCopyTo(I, s))
         /\ I.gik = "REG[REG]:=HAVOC" => Execute(I, s) = Checked(I, s, ExecuteHavocAt(I, s))
         /\ I.gik = "REG:=STREAM OPEN" => Execute(I, s) = Checked(I, s, ExecuteStreamOpen(I, s))
         /\ I.gik = "REG:=STREAM READ" => Execute(I, s) = Checked(I, s, ExecuteStreamRead(I, s))
         /\ I.gik = "REG:=STREAM WRITE" => Execute(I, s) = Checked(I, s, ExecuteStreamWrite(I, s))
BY DEF Execute, Checked

\* ... and operations on bits.
LEMMA DispatchedBitwise ==
  ASSUME NEW I, NEW s
  PROVE  /\ I.gik = "REG:=REG&NUMBER" => Execute(I, s) = Checked(I, s, ExecuteAndNumber(I, s))
         /\ I.gik = "REG:=REG&REG" => Execute(I, s) = Checked(I, s, ExecuteAndReg(I, s))
         /\ I.gik = "REG:=REG|NUMBER" => Execute(I, s) = Checked(I, s, ExecuteOrNumber(I, s))
         /\ I.gik = "REG:=REG|REG" => Execute(I, s) = Checked(I, s, ExecuteOrReg(I, s))
         /\ I.gik = "REG:=~REG" => Execute(I, s) = Checked(I, s, ExecuteNotReg(I, s))
         /\ I.gik = "REG:=REG^REG" => Execute(I, s) = Checked(I, s, ExecuteXorReg(I, s))
         /\ I.gik = "REG:=REG>>NUMBER" => Execute(I, s) = Checked(I, s, ExecuteRShiftNumber(I, s))
         /\ I.gik = "REG:=REG>>REG" => Execute(I, s) = Checked(I, s, ExecuteRShiftReg(I, s))
         /\ I.gik = "REG:=REG<<NUMBER" => Execute(I, s) = Checked(I, s, ExecuteLShiftNumber(I, s))
         /\ I.gik = "REG:=REG<<REG" => Execute(I, s) = Checked(I, s, ExecuteLShiftReg(I, s))
BY DEF Execute, Checked

\* The words in which addresses are, are the same in two machines.
SameAddressWords(I, s, t) ==
  /\ I.gik \in StoresIntoMem \cup WritesAtAddress => SameWord(s, t, I.a0)
  /\ I.gik \in {"REG:=*REG", "REG:=*INV REG", "REG:=REG[REG]"} => SameWord(s, t, I.a1)

\* An instruction that does not fail is followed by the twin.
IsFollowed(I, s, t, links) == ~HasFailed(Execute(I, s)) => Follows(Execute(I, s), Execute(I, t), links)

\* An assumption that does not hold makes an instruction fail; otherwise its operator is followed.
LEMMA CheckedFollows ==
  ASSUME NEW s, NEW t, NEW links, AgreeBut(s, t, links), NEW I, SameAddressWords(I, s, t), NEW step, NEW other,
         ~HasFailed(step) => Follows(step, other, links),
         Execute(I, s) = Checked(I, s, step), Execute(I, t) = Checked(I, t, other)
  PROVE  IsFollowed(I, s, t, links)
<1>1. Assumed(I, s) <=> Assumed(I, t)
  <2>1. I.gik \in WritesAtAddress => Address(s, I.a0) = Address(t, I.a0)
    BY AddressSame DEF SameAddressWords
  <2> QED BY <2>1 DEF Assumed
<1>2. CASE Assumed(I, s)
  BY <1>1, <1>2 DEF Checked, IsFollowed
<1>3. CASE ~Assumed(I, s)
  <2>1. HasFailed(Fails(s, "assertion"))
    BY FailsIs DEF AgreeBut
  <2> QED BY <1>3, <2>1 DEF Checked, IsFollowed
<1> QED BY <1>2, <1>3

\* What a follower may take for granted.
Ready(I, s, t, links) ==
  /\ AgreeBut(s, t, links)
  /\ SameAddressWords(I, s, t)
  /\ HasBytes(s.reg)
  /\ IsTyped(I)
  /\ CopiesInOrder(I, s)

\* Bytes that are copied, ...
LEMMA CopiesAreFollowed ==
  ASSUME NEW I, NEW s, NEW t, NEW links, Ready(I, s, t, links), I.gik \in CopiesBytes
  PROVE  IsFollowed(I, s, t, links)
<1>1. I.n \in Nat /\ I.a0 \in Nat /\ I.a1 \in Nat /\ ~BeginsWithin(I.a0, I.a1, I.n)
  BY DEF Ready, IsTyped, CopiesInOrder, CopiesBytes, WithoutOperands
<1>2. \/ I.gik = "REG:=REG" \/ I.gik = "REG:=REG&NUMBER" \/ I.gik = "REG:=REG|NUMBER"
      \/ I.gik = "REG:=~REG"
  BY DEF CopiesBytes
<1>3. AgreeBut(s, t, links) /\ SameAddressWords(I, s, t)
  BY DEF Ready
<1>4. CASE I.gik = "REG:=REG"
  <2>1. Execute(I, s) = Checked(I, s, ExecuteRegAsgnReg(I, s)) /\ Execute(I, t) = Checked(I, t, ExecuteRegAsgnReg(I, t))
    BY <1>4, DispatchedMoves
  <2>2. Follows(ExecuteRegAsgnReg(I, s), ExecuteRegAsgnReg(I, t), links)
    BY <1>1, <1>3, CopiesFollow
  <2> QED BY <1>3, <2>1, <2>2, CheckedFollows
<1>5. CASE I.gik = "REG:=REG&NUMBER"
  <2>1. Execute(I, s) = Checked(I, s, ExecuteAndNumber(I, s)) /\ Execute(I, t) = Checked(I, t, ExecuteAndNumber(I, t))
    BY <1>5, DispatchedBitwise
  <2>2. Follows(ExecuteAndNumber(I, s), ExecuteAndNumber(I, t), links)
    BY <1>1, <1>3, CopiesFollow
  <2> QED BY <1>3, <2>1, <2>2, CheckedFollows
<1>6. CASE I.gik = "REG:=REG|NUMBER"
  <2>1. Execute(I, s) = Checked(I, s, ExecuteOrNumber(I, s)) /\ Execute(I, t) = Checked(I, t, ExecuteOrNumber(I, t))
    BY <1>6, DispatchedBitwise
  <2>2. Follows(ExecuteOrNumber(I, s), ExecuteOrNumber(I, t), links)
    BY <1>1, <1>3, CopiesFollow
  <2> QED BY <1>3, <2>1, <2>2, CheckedFollows
<1>7. CASE I.gik = "REG:=~REG"
  <2>1. Execute(I, s) = Checked(I, s, ExecuteNotReg(I, s)) /\ Execute(I, t) = Checked(I, t, ExecuteNotReg(I, t))
    BY <1>7, DispatchedBitwise
  <2>2. Follows(ExecuteNotReg(I, s), ExecuteNotReg(I, t), links)
    BY <1>1, <1>3, CopiesFollow
  <2> QED BY <1>3, <2>1, <2>2, CheckedFollows
<1> QED BY <1>2, <1>4, <1>5, <1>6, <1>7

\* ... and joined, ...
LEMMA JoinsAreFollowed ==
  ASSUME NEW I, NEW s, NEW t, NEW links, Ready(I, s, t, links), I.gik \in JoinsBytes
  PROVE  IsFollowed(I, s, t, links)
<1>1. /\ I.n \in Nat /\ I.a0 \in Nat /\ I.a1 \in Nat /\ I.a2 \in Nat
      /\ ~BeginsWithin(I.a0, I.a1, I.n) /\ ~BeginsWithin(I.a0, I.a2, I.n)
  BY DEF Ready, IsTyped, CopiesInOrder, JoinsBytes, WithoutOperands
<1>2. I.gik = "REG:=REG&REG" \/ I.gik = "REG:=REG|REG" \/ I.gik = "REG:=REG^REG"
  BY DEF JoinsBytes
<1>3. AgreeBut(s, t, links) /\ SameAddressWords(I, s, t)
  BY DEF Ready
<1>4. CASE I.gik = "REG:=REG&REG"
  <2>1. Execute(I, s) = Checked(I, s, ExecuteAndReg(I, s)) /\ Execute(I, t) = Checked(I, t, ExecuteAndReg(I, t))
    BY <1>4, DispatchedBitwise
  <2>2. Follows(ExecuteAndReg(I, s), ExecuteAndReg(I, t), links)
    BY <1>1, <1>3, JoinsFollow
  <2> QED BY <1>3, <2>1, <2>2, CheckedFollows
<1>5. CASE I.gik = "REG:=REG|REG"
  <2>1. Execute(I, s) = Checked(I, s, ExecuteOrReg(I, s)) /\ Execute(I, t) = Checked(I, t, ExecuteOrReg(I, t))
    BY <1>5, DispatchedBitwise
  <2>2. Follows(ExecuteOrReg(I, s), ExecuteOrReg(I, t), links)
    BY <1>1, <1>3, JoinsFollow
  <2> QED BY <1>3, <2>1, <2>2, CheckedFollows
<1>6. CASE I.gik = "REG:=REG^REG"
  <2>1. Execute(I, s) = Checked(I, s, ExecuteXorReg(I, s)) /\ Execute(I, t) = Checked(I, t, ExecuteXorReg(I, t))
    BY <1>6, DispatchedBitwise
  <2>2. Follows(ExecuteXorReg(I, s), ExecuteXorReg(I, t), links)
    BY <1>1, <1>3, JoinsFollow
  <2> QED BY <1>3, <2>1, <2>2, CheckedFollows
<1> QED BY <1>2, <1>4, <1>5, <1>6

\* ... words that are computed, ...
LEMMA MixesAreFollowed ==
  ASSUME NEW I, NEW s, NEW t, NEW links, Ready(I, s, t, links), I.gik \in MixesBytes
  PROVE  IsFollowed(I, s, t, links)
<1>1. /\ I.n \in Nat /\ I.a0 \in Nat
      /\ I.gik \in {"REG:=REG>>REG", "REG:=REG<<REG"} => I.a2 \in Nat
  BY DEF Ready, IsTyped, MixesBytes, TakeTwoMore, WithoutOperands
<1>2. \/ I.gik = "REG:=REG+NUMBER" \/ I.gik = "REG:=REG*NUMBER" \/ I.gik = "REG:=REG==0"
      \/ I.gik = "REG:=PARITY" \/ I.gik = "REG:=REG>>NUMBER" \/ I.gik = "REG:=REG<<NUMBER"
      \/ I.gik = "REG:=REG+REG" \/ I.gik = "REG:=REG/REG" \/ I.gik = "REG:=REG%REG"
      \/ I.gik = "REG:=REG>>REG" \/ I.gik = "REG:=REG<<REG"
  BY DEF MixesBytes
<1>3. AgreeBut(s, t, links) /\ SameAddressWords(I, s, t)
  BY DEF Ready
<1>4. CASE I.gik = "REG:=REG+NUMBER"
  <2>1. Execute(I, s) = Checked(I, s, ExecutePlusNumber(I, s)) /\ Execute(I, t) = Checked(I, t, ExecutePlusNumber(I, t))
    BY <1>4, DispatchedArithmetic
  <2>2. Follows(ExecutePlusNumber(I, s), ExecutePlusNumber(I, t), links)
    BY <1>1, <1>3, OneOperandFollows
  <2> QED BY <1>3, <2>1, <2>2, CheckedFollows
<1>5. CASE I.gik = "REG:=REG*NUMBER"
  <2>1. Execute(I, s) = Checked(I, s, ExecuteTimesNumber(I, s)) /\ Execute(I, t) = Checked(I, t, ExecuteTimesNumber(I, t))
    BY <1>5, DispatchedArithmetic
  <2>2. Follows(ExecuteTimesNumber(I, s), ExecuteTimesNumber(I, t), links)
    BY <1>1, <1>3, OneOperandFollows
  <2> QED BY <1>3, <2>1, <2>2, CheckedFollows
<1>6. CASE I.gik = "REG:=REG==0"
  <2>1. Execute(I, s) = Checked(I, s, ExecuteEqualToZero(I, s)) /\ Execute(I, t) = Checked(I, t, ExecuteEqualToZero(I, t))
    BY <1>6, DispatchedArithmetic
  <2>2. Follows(ExecuteEqualToZero(I, s), ExecuteEqualToZero(I, t), links)
    BY <1>1, <1>3, OneOperandFollows
  <2> QED BY <1>3, <2>1, <2>2, CheckedFollows
<1>7. CASE I.gik = "REG:=PARITY"
  <2>1. Execute(I, s) = Checked(I, s, ExecuteParityReg(I, s)) /\ Execute(I, t) = Checked(I, t, ExecuteParityReg(I, t))
    BY <1>7, DispatchedArithmetic
  <2>2. Follows(ExecuteParityReg(I, s), ExecuteParityReg(I, t), links)
    BY <1>1, <1>3, OneOperandFollows
  <2> QED BY <1>3, <2>1, <2>2, CheckedFollows
<1>8. CASE I.gik = "REG:=REG>>NUMBER"
  <2>1. Execute(I, s) = Checked(I, s, ExecuteRShiftNumber(I, s)) /\ Execute(I, t) = Checked(I, t, ExecuteRShiftNumber(I, t))
    BY <1>8, DispatchedBitwise
  <2>2. Follows(ExecuteRShiftNumber(I, s), ExecuteRShiftNumber(I, t), links)
    BY <1>1, <1>3, OneOperandFollows
  <2> QED BY <1>3, <2>1, <2>2, CheckedFollows
<1>9. CASE I.gik = "REG:=REG<<NUMBER"
  <2>1. Execute(I, s) = Checked(I, s, ExecuteLShiftNumber(I, s)) /\ Execute(I, t) = Checked(I, t, ExecuteLShiftNumber(I, t))
    BY <1>9, DispatchedBitwise
  <2>2. Follows(ExecuteLShiftNumber(I, s), ExecuteLShiftNumber(I, t), links)
    BY <1>1, <1>3, OneOperandFollows
  <2> QED BY <1>3, <2>1, <2>2, CheckedFollows
<1>10. CASE I.gik = "REG:=REG+REG"
  <2>1. Execute(I, s) = Checked(I, s, ExecutePlusReg(I, s)) /\ Execute(I, t) = Checked(I, t, ExecutePlusReg(I, t))
    BY <1>10, DispatchedArithmetic
  <2>2. Follows(ExecutePlusReg(I, s), ExecutePlusReg(I, t), links)
    BY <1>1, <1>3, SumsFollow
  <2> QED BY <1>3, <2>1, <2>2, CheckedFollows
<1>11. CASE I.gik = "REG:=REG/REG"
  <2>1. Execute(I, s) = Checked(I, s, ExecuteDivideReg(I, s)) /\ Execute(I, t) = Checked(I, t, ExecuteDivideReg(I, t))
    BY <1>11, DispatchedArithmetic
  <2>2. ~HasFailed(ExecuteDivideReg(I, s)) => Follows(ExecuteDivideReg(I, s), ExecuteDivideReg(I, t), links)
    BY <1>1, <1>3, QuotientsFollow
  <2> QED BY <1>3, <2>1, <2>2, CheckedFollows
<1>12. CASE I.gik = "REG:=REG%REG"
  <2>1. Execute(I, s) = Checked(I, s, ExecuteModuloReg(I, s)) /\ Execute(I, t) = Checked(I, t, ExecuteModuloReg(I, t))
    BY <1>12, DispatchedArithmetic
  <2>2. ~HasFailed(ExecuteModuloReg(I, s)) => Follows(ExecuteModuloReg(I, s), ExecuteModuloReg(I, t), links)
    BY <1>1, <1>3, QuotientsFollow
  <2> QED BY <1>3, <2>1, <2>2, CheckedFollows
<1>13. CASE I.gik = "REG:=REG>>REG"
  <2>1. Execute(I, s) = Checked(I, s, ExecuteRShiftReg(I, s)) /\ Execute(I, t) = Checked(I, t, ExecuteRShiftReg(I, t))
    BY <1>13, DispatchedBitwise
  <2>2. Follows(ExecuteRShiftReg(I, s), ExecuteRShiftReg(I, t), links)
    BY <1>1, <1>3, <1>13, ShiftsFollow
  <2> QED BY <1>3, <2>1, <2>2, CheckedFollows
<1>14. CASE I.gik = "REG:=REG<<REG"
  <2>1. Execute(I, s) = Checked(I, s, ExecuteLShiftReg(I, s)) /\ Execute(I, t) = Checked(I, t, ExecuteLShiftReg(I, t))
    BY <1>14, DispatchedBitwise
  <2>2. Follows(ExecuteLShiftReg(I, s), ExecuteLShiftReg(I, t), links)
    BY <1>1, <1>3, <1>14, ShiftsFollow
  <2> QED BY <1>3, <2>1, <2>2, CheckedFollows
<1> QED BY <1>2, <1>4, <1>5, <1>6, <1>7, <1>8, <1>9, <1>10, <1>11, <1>12, <1>13, <1>14

\* ... stored, ...
LEMMA StoresAreFollowed ==
  ASSUME NEW I, NEW s, NEW t, NEW links, Ready(I, s, t, links), I.gik \in StoresIntoMem
  PROVE  IsFollowed(I, s, t, links)
<1>1. /\ I.n \in Nat /\ SameWord(s, t, I.a0) /\ Address(s, I.a0) \in Int
      /\ I.gik \in {"*REG:=REG", "*INV REG:=REG"} => I.a1 \in Nat
      /\ I.gik \in {"*REG:=NUMBER", "*INV REG:=NUMBER"} => IsSeq(I.v, I.n)
  <2>1. I.n \in Nat /\ (I.gik \in {"*REG:=REG", "*INV REG:=REG"} => I.a1 \in Nat)
    BY DEF Ready, IsTyped, StoresIntoMem, TakeOneMore, WithoutOperands
  <2>2. I.gik \in {"*REG:=NUMBER", "*INV REG:=NUMBER"} => IsSeq(I.v, I.n)
    BY DEF Ready, IsTyped, StoresIntoMem, TakeNumbers, WithoutOperands, IsSeq
  <2>3. SameWord(s, t, I.a0)
    BY DEF Ready, SameAddressWords
  <2>4. Address(s, I.a0) \in Int
    BY AddressIsNumber DEF Ready
  <2> QED BY <2>1, <2>2, <2>3, <2>4
<1>2. \/ I.gik = "*REG:=REG" \/ I.gik = "*INV REG:=REG" \/ I.gik = "*REG:=NUMBER"
      \/ I.gik = "*INV REG:=NUMBER"
  BY DEF StoresIntoMem
<1>3. AgreeBut(s, t, links) /\ SameAddressWords(I, s, t)
  BY DEF Ready
<1>4. CASE I.gik = "*REG:=REG"
  <2>1. Execute(I, s) = Checked(I, s, ExecuteDerefAsgnReg(I, s)) /\ Execute(I, t) = Checked(I, t, ExecuteDerefAsgnReg(I, t))
    BY <1>4, DispatchedMoves
  <2>2. ~HasFailed(ExecuteDerefAsgnReg(I, s)) => Follows(ExecuteDerefAsgnReg(I, s), ExecuteDerefAsgnReg(I, t), links)
    BY <1>1, <1>3, <1>4, StoresFollow
  <2> QED BY <1>3, <2>1, <2>2, CheckedFollows
<1>5. CASE I.gik = "*INV REG:=REG"
  <2>1. Execute(I, s) = Checked(I, s, ExecuteDerefInvAsgnReg(I, s)) /\ Execute(I, t) = Checked(I, t, ExecuteDerefInvAsgnReg(I, t))
    BY <1>5, DispatchedMoves
  <2>2. ~HasFailed(ExecuteDerefInvAsgnReg(I, s)) => Follows(ExecuteDerefInvAsgnReg(I, s), ExecuteDerefInvAsgnReg(I, t), links)
    BY <1>1, <1>3, <1>5, StoresFollow
  <2> QED BY <1>3, <2>1, <2>2, CheckedFollows
<1>6. CASE I.gik = "*REG:=NUMBER"
  <2>1. Execute(I, s) = Checked(I, s, ExecuteDerefAsgnNumber(I, s)) /\ Execute(I, t) = Checked(I, t, ExecuteDerefAsgnNumber(I, t))
    BY <1>6, DispatchedMoves
  <2>2. ~HasFailed(ExecuteDerefAsgnNumber(I, s)) => Follows(ExecuteDerefAsgnNumber(I, s), ExecuteDerefAsgnNumber(I, t), links)
    BY <1>1, <1>3, <1>6, NumberStoresFollow
  <2> QED BY <1>3, <2>1, <2>2, CheckedFollows
<1>7. CASE I.gik = "*INV REG:=NUMBER"
  <2>1. Execute(I, s) = Checked(I, s, ExecuteDerefInvAsgnNumber(I, s)) /\ Execute(I, t) = Checked(I, t, ExecuteDerefInvAsgnNumber(I, t))
    BY <1>7, DispatchedMoves
  <2>2. ~HasFailed(ExecuteDerefInvAsgnNumber(I, s)) => Follows(ExecuteDerefInvAsgnNumber(I, s), ExecuteDerefInvAsgnNumber(I, t), links)
    BY <1>1, <1>3, <1>7, NumberStoresFollow
  <2> QED BY <1>3, <2>1, <2>2, CheckedFollows
<1> QED BY <1>2, <1>4, <1>5, <1>6, <1>7

\* ... copied in a whole, ...
LEMMA WordCopiesAreFollowed ==
  ASSUME NEW I, NEW s, NEW t, NEW links, Ready(I, s, t, links), I.gik \in CopiesWords
  PROVE  IsFollowed(I, s, t, links)
<1>1. /\ I.n \in Nat /\ I.a0 \in Nat /\ I.a1 \in Nat
      /\ Address(s, I.a0) \in Int /\ Address(s, I.a1) \in Int
      /\ I.gik = "REG:=ZERO_EXTEND" => ~BeginsWithin(I.a0 + I.n, I.a1, I.n)
      /\ I.gik = "REG:=REG[REG]" => SameWord(s, t, I.a1) /\ AreApart(I.a0, Address(s, I.a1), I.n)
      /\ I.gik = "REG[REG]:=REG" => SameWord(s, t, I.a0) /\ AreApart(Address(s, I.a0), I.a1, I.n)
  <2>1. I.n \in Nat /\ I.a0 \in Nat /\ I.a1 \in Nat
    BY DEF Ready, IsTyped, CopiesWords, WithoutOperands
  <2>2. Address(s, I.a0) \in Int /\ Address(s, I.a1) \in Int
    BY AddressIsNumber DEF Ready
  <2>3. /\ I.gik = "REG:=ZERO_EXTEND" => ~BeginsWithin(I.a0 + I.n, I.a1, I.n)
        /\ I.gik = "REG:=REG[REG]" => AreApart(I.a0, Address(s, I.a1), I.n)
        /\ I.gik = "REG[REG]:=REG" => AreApart(Address(s, I.a0), I.a1, I.n)
    BY DEF Ready, CopiesInOrder
  <2>4. /\ I.gik = "REG:=REG[REG]" => SameWord(s, t, I.a1)
        /\ I.gik = "REG[REG]:=REG" => SameWord(s, t, I.a0)
    BY DEF Ready, SameAddressWords, WritesAtAddress
  <2> QED BY <2>1, <2>2, <2>3, <2>4
<1>2. I.gik = "REG:=ZERO_EXTEND" \/ I.gik = "REG:=REG[REG]" \/ I.gik = "REG[REG]:=REG"
  BY DEF CopiesWords
<1>3. AgreeBut(s, t, links) /\ SameAddressWords(I, s, t)
  BY DEF Ready
<1>4. CASE I.gik = "REG:=ZERO_EXTEND"
  <2>1. Execute(I, s) = Checked(I, s, ExecuteZeroExtend(I, s)) /\ Execute(I, t) = Checked(I, t, ExecuteZeroExtend(I, t))
    BY <1>4, DispatchedMoves
  <2>2. Follows(ExecuteZeroExtend(I, s), ExecuteZeroExtend(I, t), links)
    BY <1>1, <1>3, <1>4, ZeroExtendFollows
  <2> QED BY <1>3, <2>1, <2>2, CheckedFollows
<1>5. CASE I.gik = "REG:=REG[REG]"
  <2>1. Execute(I, s) = Checked(I, s, ExecuteCopyFrom(I, s)) /\ Execute(I, t) = Checked(I, t, ExecuteCopyFrom(I, t))
    BY <1>5, DispatchedSpecial
  <2>2. Follows(ExecuteCopyFrom(I, s), ExecuteCopyFrom(I, t), links)
    BY <1>1, <1>3, <1>5, CopyFromFollows
  <2> QED BY <1>3, <2>1, <2>2, CheckedFollows
<1>6. CASE I.gik = "REG[REG]:=REG"
  <2>1. Execute(I, s) = Checked(I, s, ExecuteCopyTo(I, s)) /\ Execute(I, t) = Checked(I, t, ExecuteCopyTo(I, t))
    BY <1>6, DispatchedSpecial
  <2>2. Follows(ExecuteCopyTo(I, s), ExecuteCopyTo(I, t), links)
    BY <1>1, <1>3, <1>6, CopyToFollows
  <2> QED BY <1>3, <2>1, <2>2, CheckedFollows
<1> QED BY <1>2, <1>4, <1>5, <1>6

\* SIGN EXTEND always fails.
LEMMA SignExtendFails ==
  ASSUME NEW s, NEW t, NEW links, AgreeBut(s, t, links), NEW I
  PROVE  ~HasFailed(ExecuteSignExtend(I, s)) => Follows(ExecuteSignExtend(I, s), ExecuteSignExtend(I, t), links)
<1> DEFINE w == SignExtended(Read(s.reg, I.a1, I.n), 2 * I.n)
           c == [s EXCEPT !.reg = Write(s.reg, I.a0, w)]
<1>1. Assigns(s, I.a0, w, << >>) = [cpu |-> c, io |-> << >>]
  BY AssignsIs
<1>2. c = [reg |-> Write(s.reg, I.a0, w), mem |-> s.mem, blocks |-> s.blocks, streams |-> s.streams,
           error |-> s.error]
  BY DEF AgreeBut, IsMachine
<1> HIDE DEF c
<1>3. ASSUME NEW x, NEW y
      PROVE  [[cpu |-> x, io |-> y] EXCEPT !.cpu.error = "assertion"]
               = [cpu |-> [x EXCEPT !.error = "assertion"], io |-> y]
  OBVIOUS
<1>4. ExecuteSignExtend(I, s) = [cpu |-> [c EXCEPT !.error = "assertion"], io |-> << >>]
  BY <1>1, <1>3 DEF ExecuteSignExtend
<1>5. IsMachine(c)
  BY <1>2 DEF IsMachine
<1>6. /\ HasFailed(Fails(c, "assertion"))
      /\ Fails(c, "assertion").cpu = [c EXCEPT !.error = "assertion"]
  BY <1>5, FailsIs
<1>7. ExecuteSignExtend(I, s).cpu = Fails(c, "assertion").cpu
  BY <1>4, <1>6
<1> QED BY <1>6, <1>7 DEF HasFailed

\* ... and all others.
LEMMA OthersAreFollowed ==
  ASSUME NEW I, NEW s, NEW t, NEW links, Ready(I, s, t, links), I.gik \in Others
  PROVE  IsFollowed(I, s, t, links)
<1>1. /\ I.n \in Nat /\ I.a0 \in Nat
      /\ Address(s, I.a0) \in Int /\ Address(s, I.a1) \in Int
      /\ I.gik \in {"REG:=*REG", "REG:=*INV REG"} => SameWord(s, t, I.a1)
      /\ I.gik = "REG[REG]:=HAVOC" => SameWord(s, t, I.a0)
      /\ I.gik = "REG:=NUMBER" => IsSeq(I.v, I.n)
      /\ I.gik = "REG:=STREAM WRITE" => I.a1 \in Nat
  <2>1. I.n \in Nat /\ I.a0 \in Nat
    BY DEF Ready, IsTyped, Others, WithoutOperands
  <2>2. Address(s, I.a0) \in Int /\ Address(s, I.a1) \in Int
    BY AddressIsNumber DEF Ready
  <2>3. /\ I.gik \in {"REG:=*REG", "REG:=*INV REG"} => SameWord(s, t, I.a1)
        /\ I.gik = "REG[REG]:=HAVOC" => SameWord(s, t, I.a0)
    BY DEF Ready, SameAddressWords, WritesAtAddress
  <2>4. /\ I.gik = "REG:=NUMBER" => IsSeq(I.v, I.n)
        /\ I.gik = "REG:=STREAM WRITE" => I.a1 \in Nat
    BY <2>1 DEF Ready, IsTyped, TakeNumbers, TakeOneMore, IsSeq
  <2> QED BY <2>1, <2>2, <2>3, <2>4
<1>2. \/ I.gik = "REG:=NUMBER" \/ I.gik = "REG:=HAVOC" \/ I.gik = "REG:=MEM ALLOC"
      \/ I.gik = "REG:=*REG" \/ I.gik = "REG:=*INV REG" \/ I.gik = "REG:=SIGN_EXTEND"
      \/ I.gik = "REG[REG]:=HAVOC" \/ I.gik = "REG:=MEM STATIC" \/ I.gik = "REG:=STREAM OPEN"
      \/ I.gik = "REG:=STREAM READ" \/ I.gik = "REG:=STREAM WRITE"
      \/ I.gik = "REG:=INTERRUPT"
  BY DEF Others
<1>3. AgreeBut(s, t, links) /\ SameAddressWords(I, s, t)
  BY DEF Ready
<1>4. CASE I.gik = "REG:=NUMBER"
  <2>1. Execute(I, s) = Checked(I, s, ExecuteRegAsgnNumber(I, s)) /\ Execute(I, t) = Checked(I, t, ExecuteRegAsgnNumber(I, t))
    BY <1>4, DispatchedMoves
  <2>2. Follows(ExecuteRegAsgnNumber(I, s), ExecuteRegAsgnNumber(I, t), links)
    BY <1>1, <1>3, <1>4, ConstantsFollow
  <2> QED BY <1>3, <2>1, <2>2, CheckedFollows
<1>5. CASE I.gik = "REG:=HAVOC"
  <2>1. Execute(I, s) = Checked(I, s, ExecuteHavoc(I, s)) /\ Execute(I, t) = Checked(I, t, ExecuteHavoc(I, t))
    BY <1>5, DispatchedMoves
  <2>2. Follows(ExecuteHavoc(I, s), ExecuteHavoc(I, t), links)
    BY <1>1, <1>3, <1>5, ConstantsFollow
  <2> QED BY <1>3, <2>1, <2>2, CheckedFollows
<1>6. CASE I.gik = "REG:=MEM ALLOC"
  <2>1. Execute(I, s) = Checked(I, s, ExecuteMemAlloc(I, s)) /\ Execute(I, t) = Checked(I, t, ExecuteMemAlloc(I, t))
    BY <1>6, DispatchedSpecial
  <2>2. Follows(ExecuteMemAlloc(I, s), ExecuteMemAlloc(I, t), links)
    BY <1>1, <1>3, <1>6, ConstantsFollow
  <2> QED BY <1>3, <2>1, <2>2, CheckedFollows
<1>7. CASE I.gik = "REG:=*REG"
  <2>1. Execute(I, s) = Checked(I, s, ExecuteRegAsgnDeref(I, s)) /\ Execute(I, t) = Checked(I, t, ExecuteRegAsgnDeref(I, t))
    BY <1>7, DispatchedMoves
  <2>2. ~HasFailed(ExecuteRegAsgnDeref(I, s)) => Follows(ExecuteRegAsgnDeref(I, s), ExecuteRegAsgnDeref(I, t), links)
    BY <1>1, <1>3, <1>7, LoadsFollow
  <2> QED BY <1>3, <2>1, <2>2, CheckedFollows
<1>8. CASE I.gik = "REG:=*INV REG"
  <2>1. Execute(I, s) = Checked(I, s, ExecuteRegAsgnDerefInv(I, s)) /\ Execute(I, t) = Checked(I, t, ExecuteRegAsgnDerefInv(I, t))
    BY <1>8, DispatchedMoves
  <2>2. ~HasFailed(ExecuteRegAsgnDerefInv(I, s)) => Follows(ExecuteRegAsgnDerefInv(I, s), ExecuteRegAsgnDerefInv(I, t), links)
    BY <1>1, <1>3, <1>8, LoadsFollow
  <2> QED BY <1>3, <2>1, <2>2, CheckedFollows
<1>9. CASE I.gik = "REG:=SIGN_EXTEND"
  <2>1. Execute(I, s) = Checked(I, s, ExecuteSignExtend(I, s)) /\ Execute(I, t) = Checked(I, t, ExecuteSignExtend(I, t))
    BY <1>9, DispatchedMoves
  <2>2. ~HasFailed(ExecuteSignExtend(I, s)) => Follows(ExecuteSignExtend(I, s), ExecuteSignExtend(I, t), links)
    BY <1>1, <1>3, SignExtendFails
  <2> QED BY <1>3, <2>1, <2>2, CheckedFollows
<1>10. CASE I.gik = "REG[REG]:=HAVOC"
  <2>1. Execute(I, s) = Checked(I, s, ExecuteHavocAt(I, s)) /\ Execute(I, t) = Checked(I, t, ExecuteHavocAt(I, t))
    BY <1>10, DispatchedSpecial
  <2>2. Follows(ExecuteHavocAt(I, s), ExecuteHavocAt(I, t), links)
    BY <1>1, <1>3, <1>10, HavocAtFollows
  <2> QED BY <1>3, <2>1, <2>2, CheckedFollows
<1>11. CASE I.gik = "REG:=MEM STATIC"
  <2>1. Execute(I, s) = Checked(I, s, ExecuteMemStatic(I, s)) /\ Execute(I, t) = Checked(I, t, ExecuteMemStatic(I, t))
    BY <1>11, DispatchedSpecial
  <2>2. Follows(ExecuteMemStatic(I, s), ExecuteMemStatic(I, t), links)
    BY <1>1, <1>3, MemStaticFollows
  <2> QED BY <1>3, <2>1, <2>2, CheckedFollows
<1>12. CASE I.gik = "REG:=STREAM OPEN"
  <2>1. Execute(I, s) = Checked(I, s, ExecuteStreamOpen(I, s)) /\ Execute(I, t) = Checked(I, t, ExecuteStreamOpen(I, t))
    BY <1>12, DispatchedSpecial
  <2>2. ~HasFailed(ExecuteStreamOpen(I, s)) => Follows(ExecuteStreamOpen(I, s), ExecuteStreamOpen(I, t), links)
    BY <1>1, <1>3, StreamOpenFollows
  <2> QED BY <1>3, <2>1, <2>2, CheckedFollows
<1>13. CASE I.gik = "REG:=STREAM READ"
  <2>1. Execute(I, s) = Checked(I, s, ExecuteStreamRead(I, s)) /\ Execute(I, t) = Checked(I, t, ExecuteStreamRead(I, t))
    BY <1>13, DispatchedSpecial
  <2>2. ~HasFailed(ExecuteStreamRead(I, s)) => Follows(ExecuteStreamRead(I, s), ExecuteStreamRead(I, t), links)
    BY <1>1, <1>3, StreamReadFollows
  <2> QED BY <1>3, <2>1, <2>2, CheckedFollows
<1>14. CASE I.gik = "REG:=STREAM WRITE"
  <2>1. Execute(I, s) = Checked(I, s, ExecuteStreamWrite(I, s)) /\ Execute(I, t) = Checked(I, t, ExecuteStreamWrite(I, t))
    BY <1>14, DispatchedSpecial
  <2>2. ~HasFailed(ExecuteStreamWrite(I, s)) => Follows(ExecuteStreamWrite(I, s), ExecuteStreamWrite(I, t), links)
    BY <1>1, <1>3, <1>14, StreamWriteFollows
  <2> QED BY <1>3, <2>1, <2>2, CheckedFollows
<1>15. CASE I.gik = "REG:=INTERRUPT"
  <2>1. Execute(I, s) = Fails(s, "not implemented")
    BY <1>15, DispatchedMoves
  <2>2. HasFailed(Fails(s, "not implemented"))
    BY <1>3, FailsIs DEF AgreeBut
  <2> QED BY <2>1, <2>2 DEF IsFollowed
<1> QED BY <1>2, <1>4, <1>5, <1>6, <1>7, <1>8, <1>9, <1>10, <1>11, <1>12, <1>13, <1>14, <1>15

\* An empty io-relation takes no link away.
LEMMA NothingLinked ==
  ASSUME NEW links
  PROVE  links \subseteq Linked(<< >>, links)
<1>1. Len(<< >>) \in Nat /\ 1..Len(<< >>) = {}
  OBVIOUS
<1> QED BY <1>1, LinkedKeeps

\* Machines that agree but for some links agree but for more of them.
LEMMA MoreLinksAgree ==
  ASSUME NEW s, NEW t, NEW links, NEW after, AgreeBut(s, t, links), links \subseteq after
  PROVE  AgreeBut(s, t, after)
<1>1. Covers(after, "reg", s.reg, t.reg) /\ Covers(after, "mem", s.mem, t.mem)
  BY DEF AgreeBut, Covers
<1>2. ASSUME NEW id PROVE StreamsAgree(after, id, StreamInfo(s, id), StreamInfo(t, id))
  <2>1. StreamsAgree(links, id, StreamInfo(s, id), StreamInfo(t, id))
    BY DEF AgreeBut
  <2> QED BY <2>1 DEF StreamsAgree
<1> QED BY <1>1, <1>2 DEF AgreeBut

\* NOP changes nothing, STOP fails, and data are written at a constant address.
LEMMA RestIsFollowed ==
  ASSUME NEW I, NEW s, NEW t, NEW links, Ready(I, s, t, links), I.gik \in WithoutOperands
  PROVE  IsFollowed(I, s, t, links)
<1>1. AgreeBut(s, t, links)
  BY DEF Ready
<1>2. CASE I.gik = "NOP"
  <2>1. Execute(I, s) = [cpu |-> s, io |-> << >>] /\ Execute(I, t) = [cpu |-> t, io |-> << >>]
    BY <1>2, DispatchedMoves
  <2>2. AgreeBut(s, t, Linked(<< >>, links))
    BY <1>1, NothingLinked, MoreLinksAgree
  <2> QED BY <2>1, <2>2 DEF IsFollowed, Follows
<1>3. CASE I.gik = "STOP"
  <2>1. Execute(I, s) = Fails(s, "stop")
    BY <1>3, DispatchedMoves
  <2>2. HasFailed(Fails(s, "stop"))
    BY <1>1, FailsIs DEF AgreeBut
  <2> QED BY <2>1, <2>2 DEF IsFollowed
<1>4. CASE I.gik = "*ADDRESS:=DATA"
  <2>1. /\ Execute(I, s) = ExecuteDerefAddressAsgnData(I, s)
        /\ Execute(I, t) = ExecuteDerefAddressAsgnData(I, t)
    BY <1>4, DispatchedMoves
  <2>2. I.begin \in Nat /\ I.data \in [1..Len(I.data) -> Byte] /\ Len(I.data) > 0
    BY <1>4 DEF Ready, IsTyped
  <2>3. IsSeq(I.data, Len(I.data)) /\ Len(I.data) # 0
    BY <2>2 DEF IsSeq
  <2> QED BY <1>1, <2>1, <2>2, <2>3, DataFollows DEF IsFollowed
<1> QED BY <1>2, <1>3, <1>4 DEF WithoutOperands

\* Whatever is executed, the machines agree but for what is linked then.
LEMMA EveryInstructionIsFollowed ==
  ASSUME NEW I, NEW s, NEW t, NEW links, Ready(I, s, t, links)
  PROVE  IsFollowed(I, s, t, links)
<1>1. I.gik \in Kinds
  BY DEF Ready, IsTyped
<1> QED BY <1>1, CopiesAreFollowed, JoinsAreFollowed, MixesAreFollowed, StoresAreFollowed,
           WordCopiesAreFollowed, OthersAreFollowed, RestIsFollowed DEF Kinds

-----------------------------------------------------------------------------
(* What the operators on words return are bytes *)

\* A recursion over the numbers up to a bound, whose steps stay in a set.
Unfolds(n, S, a, step, f) ==
  f \in [0..n -> S] /\ f[0] = a /\ \A i \in 1..n : f[i] = step[i][f[i - 1]]

\* There is such a recursion, and ...
LEMMA UnfoldingExists ==
  ASSUME NEW n \in Nat, NEW S, NEW a \in S, NEW step, \A i \in 1..n : \A x \in S : step[i][x] \in S
  PROVE  \E f : Unfolds(n, S, a, step, f)
<1> DEFINE Good == {m \in 0..n : \E f : Unfolds(m, S, a, step, f)}
<1>1. 0 \in Good
  <2> DEFINE f == [i \in 0..0 |-> a]
  <2>1. Unfolds(0, S, a, step, f)
    BY DEF Unfolds
  <2> QED BY <2>1
<1>2. ASSUME NEW m \in 1..n, m - 1 \in Good PROVE m \in Good
  <2>1. PICK g : Unfolds(m - 1, S, a, step, g)
    BY <1>2
  <2>2. g \in [0..(m - 1) -> S] /\ g[0] = a /\ \A i \in 1..(m - 1) : g[i] = step[i][g[i - 1]]
    BY <2>1 DEF Unfolds
  <2> DEFINE last == step[m][g[m - 1]]
             f == [i \in 0..m |-> IF i = m THEN last ELSE g[i]]
  <2>3. last \in S
    BY <2>2
  <2>4. f[m] = last /\ \A i \in 0..(m - 1) : f[i] = g[i]
    OBVIOUS
  <2>5. f \in [0..m -> S]
    <3> HIDE DEF last
    <3> QED BY <2>2, <2>3
  <2> HIDE DEF f
  <2>6. ASSUME NEW i \in 1..m PROVE f[i] = step[i][f[i - 1]]
    <3>1. f[i - 1] = g[i - 1]
      BY <2>4
    <3>2. CASE i = m
      BY <2>4, <3>1, <3>2
    <3>3. CASE i # m
      <4>1. i \in 1..(m - 1)
        BY <3>3
      <4> QED BY <2>2, <2>4, <3>1, <4>1
    <3> QED BY <3>2, <3>3
  <2>7. Unfolds(m, S, a, step, f)
    BY <2>2, <2>4, <2>5, <2>6 DEF Unfolds
  <2> QED BY <2>7
<1>3. \A m \in 0..n : m \in Good
  <2> HIDE DEF Good
  <2> QED BY <1>1, <1>2, Upwards
<1> QED BY <1>3

\* ... every one of them runs through its steps.
LEMMA UnfoldingIs ==
  ASSUME NEW n \in Nat, NEW S, NEW a, NEW step, NEW f, Unfolds(n, S, a, step, f)
  PROVE  /\ f = [i \in 0..n |-> f[i]] /\ f[0] = a
         /\ \A i \in 1..n : f[i - 1] \in S /\ f[i] = step[i][f[i - 1]]
BY DEF Unfolds

\* The bytes of a word of n bytes.
IsWord(w, n) == n \in Nat /\ w \in [1..n -> Byte]

\* A word is a sequence of bytes.
LEMMA WordIsSeq ==
  ASSUME NEW w, NEW n, IsWord(w, n)
  PROVE  IsSeq(w, n) /\ Len(w) = n /\ \A i \in 1..n : w[i] \in Byte
<1>1. IsSeq(w, n)
  BY DEF IsWord, IsSeq
<1> QED BY <1>1, SeqFacts DEF IsWord

\* A function of n bytes becomes a word.
LEMMA TupleOfBytes ==
  ASSUME NEW n \in Nat, NEW w, w \in [1..n -> Byte]
  PROVE  IsWord(Tuple(w), n)
<1>1. IsWord(w, n)
  BY DEF IsWord
<1>2. Tuple(w) = w
  BY <1>1, WordIsSeq, TupleIsWord
<1> QED BY <1>1, <1>2

\* What the first has, and every next one if the one before has it, all have.
LEMMA StaysIn ==
  ASSUME NEW n \in Nat, NEW C, NEW S, C[0] \in S, \A i \in 1..n : C[i - 1] \in S => C[i] \in S
  PROVE  \A i \in 0..n : C[i] \in S
<1> DEFINE Good == {i \in 0..n : C[i] \in S}
<1>1. 0 \in Good /\ \A i \in 1..n : i - 1 \in Good => i \in Good
  OBVIOUS
<1>2. \A i \in 0..n : i \in Good
  <2> HIDE DEF Good
  <2> QED BY <1>1, Upwards
<1> QED BY <1>2

\* The bytes of a number are bytes.
LEMMA WordIsWord ==
  ASSUME NEW v \in Int, NEW n \in Nat
  PROVE  IsWord(Word(v, n), n)
<1> DEFINE S == Int
           next(i, x) == x \div 256
           Step(A, i) == IF i = 0 THEN v ELSE next(i, A[i - 1])
           C == CHOOSE A : A = [i \in 0..n |-> Step(A, i)]
           step == [i \in 1..n |-> [x \in S |-> next(i, x)]]
           w == [i \in 1..n |-> C[n - i] % 256]
<1>1. Word(v, n) = Tuple(w)
  BY DEF Word
<1>2. \A i \in 1..n : \A x \in S : next(i, x) \in S
  OBVIOUS
<1>3. \A i \in 1..n : \A x \in S : step[i][x] = next(i, x)
  <2> HIDE DEF next, S
  <2> QED OBVIOUS
<1> HIDE DEF step, next
<1>4. PICK f : Unfolds(n, S, v, step, f)
  <2>1. v \in S
    OBVIOUS
  <2> HIDE DEF S
  <2> QED BY <1>2, <1>3, <2>1, UnfoldingExists
<1>5. f = [i \in 0..n |-> Step(f, i)]
  <2> HIDE DEF S
  <2>1. /\ f = [i \in 0..n |-> f[i]] /\ f[0] = v
        /\ \A i \in 1..n : f[i - 1] \in S /\ f[i] = step[i][f[i - 1]]
    BY <1>4, UnfoldingIs
  <2>2. ASSUME NEW i \in 1..n PROVE f[i] = next(i, f[i - 1])
    BY <1>3, <2>1
  <2>3. ASSUME NEW i \in 0..n PROVE f[i] = Step(f, i)
    <3>1. CASE i = 0
      BY <2>1, <3>1
    <3>2. CASE i # 0
      <4>1. i \in 1..n
        BY <3>2
      <4> QED BY ONLY <2>2, <3>2, <4>1
    <3> QED BY <3>1, <3>2
  <2> HIDE DEF Step
  <2> QED BY <2>1, <2>3
<1>6. C = [i \in 0..n |-> Step(C, i)]
  <2> HIDE DEF Step
  <2> QED BY <1>5
<1> HIDE DEF C
<1>7. C[0] = v /\ \A i \in 1..n : C[i] = next(i, C[i - 1])
  BY <1>6
<1>8. \A i \in 0..n : C[i] \in S
  <2>1. C[0] \in S
    BY <1>7
  <2> HIDE DEF S
  <2>2. ASSUME NEW i \in 1..n, C[i - 1] \in S PROVE C[i] \in S
    BY <1>2, <1>7, <2>2
  <2> QED BY <2>1, <2>2, StaysIn
<1>9. w \in [1..n -> Byte]
  <2>1. ASSUME NEW i \in 1..n PROVE C[n - i] % 256 \in Byte
    <3>1. n - i \in 0..n
      OBVIOUS
    <3> QED BY <1>8, <3>1 DEF Byte
  <2> QED BY <2>1
<1> HIDE DEF w
<1> QED BY <1>1, <1>9, TupleOfBytes

\* The bytes of a word are integers.
LEMMA BytesAreNumbers ==
  ASSUME NEW n, NEW u, IsWord(u, n)
  PROVE  \A i \in 1..n : u[i] \in Int
<1>1. \A i \in 1..n : u[i] \in Byte
  BY WordIsSeq
<1>2. \A b \in Byte : b \in Int
  BY DEF Byte
<1> QED BY <1>1, <1>2

\* Products wrap around.
LEMMA ProductIsWord ==
  ASSUME NEW n \in Nat, NEW u, IsWord(u, n), NEW k \in Int
  PROVE  IsWord(Product(u, k), n)
<1> DEFINE S == Int
           next(i, x) == (u[n + 1 - i] * k + x) \div 256
           Step(A, i) == IF i = 0 THEN 0 ELSE next(i, A[i - 1])
           C == CHOOSE A : A = [i \in 0..n |-> Step(A, i)]
           step == [i \in 1..n |-> [x \in S |-> next(i, x)]]
           w == [i \in 1..n |-> (u[i] * k + C[n - i]) % 256]
<1>0. Len(u) = n /\ \A i \in 1..n : u[i] \in Int
  BY WordIsSeq, BytesAreNumbers
<1>1. Product(u, k) = Tuple(w)
  BY <1>0 DEF Product
<1>2. \A i \in 1..n : \A x \in S : next(i, x) \in S
  <2> SUFFICES ASSUME NEW i \in 1..n, NEW x \in S PROVE next(i, x) \in S
    OBVIOUS
  <2>1. n + 1 - i \in 1..n
    OBVIOUS
  <2>2. u[n + 1 - i] * k + x \in Int
    BY <1>0, <2>1
  <2> QED BY ONLY <2>2
<1>3. \A i \in 1..n : \A x \in S : step[i][x] = next(i, x)
  <2> HIDE DEF next, S
  <2> QED OBVIOUS
<1> HIDE DEF step, next
<1>4. PICK f : Unfolds(n, S, 0, step, f)
  <2>1. 0 \in S
    OBVIOUS
  <2> HIDE DEF S
  <2> QED BY <1>2, <1>3, <2>1, UnfoldingExists
<1>5. f = [i \in 0..n |-> Step(f, i)]
  <2> HIDE DEF S
  <2>1. /\ f = [i \in 0..n |-> f[i]] /\ f[0] = 0
        /\ \A i \in 1..n : f[i - 1] \in S /\ f[i] = step[i][f[i - 1]]
    BY <1>4, UnfoldingIs
  <2>2. ASSUME NEW i \in 1..n PROVE f[i] = next(i, f[i - 1])
    BY <1>3, <2>1
  <2>3. ASSUME NEW i \in 0..n PROVE f[i] = Step(f, i)
    <3>1. CASE i = 0
      BY <2>1, <3>1
    <3>2. CASE i # 0
      <4>1. i \in 1..n
        BY <3>2
      <4> QED BY ONLY <2>2, <3>2, <4>1
    <3> QED BY <3>1, <3>2
  <2> HIDE DEF Step
  <2> QED BY <2>1, <2>3
<1>6. C = [i \in 0..n |-> Step(C, i)]
  <2> HIDE DEF Step
  <2> QED BY <1>5
<1> HIDE DEF C
<1>7. C[0] = 0 /\ \A i \in 1..n : C[i] = next(i, C[i - 1])
  BY <1>6
<1>8. \A i \in 0..n : C[i] \in S
  <2>1. C[0] \in S
    BY <1>7
  <2> HIDE DEF S
  <2>2. ASSUME NEW i \in 1..n, C[i - 1] \in S PROVE C[i] \in S
    BY <1>2, <1>7, <2>2
  <2> QED BY <2>1, <2>2, StaysIn
<1>9. w \in [1..n -> Byte]
  <2>1. ASSUME NEW i \in 1..n PROVE (u[i] * k + C[n - i]) % 256 \in Byte
    <3>1. n - i \in 0..n
      OBVIOUS
    <3>2. u[i] * k + C[n - i] \in Int
      BY <1>0, <1>8, <3>1
    <3> QED BY ONLY <3>2 DEF Byte
  <2> QED BY <2>1
<1> HIDE DEF w
<1> QED BY <1>1, <1>9, TupleOfBytes

\* Sums wrap around.
LEMMA SumIsWord ==
  ASSUME NEW n \in Nat, NEW u, NEW v, IsWord(u, n), IsWord(v, n)
  PROVE  IsWord(Sum(u, v), n)
<1> DEFINE S == Int
           next(i, x) == (u[n + 1 - i] + v[n + 1 - i] + x) \div 256
           Step(A, i) == IF i = 0 THEN 0 ELSE next(i, A[i - 1])
           C == CHOOSE A : A = [i \in 0..n |-> Step(A, i)]
           step == [i \in 1..n |-> [x \in S |-> next(i, x)]]
           byte(i) == (u[i] + v[i] + C[n - i]) % 256
           first == C[n]
           F(p) == Tail(SumWithCarry(p[1], p[2], 0))
           w == [i \in 1..n |-> byte(i)]
<1>0. Len(u) = n /\ (\A i \in 1..n : u[i] \in Int) /\ (\A i \in 1..n : v[i] \in Int)
  BY WordIsSeq, BytesAreNumbers
<1>1. Sum(u, v) = Tail(<<first>> \o w)
  <2>1. SumWithCarry(u, v, 0) = <<first>> \o w
    BY <1>0 DEF SumWithCarry
  <2>2. Sum(u, v) = With(<<u, v>>, F)
    BY DEF Sum
  <2>3. With(<<u, v>>, F) = F(<<u, v>>)
    BY WithIs
  <2> QED BY <2>1, <2>2, <2>3
<1>2. \A i \in 1..n : \A x \in S : next(i, x) \in S
  <2> SUFFICES ASSUME NEW i \in 1..n, NEW x \in S PROVE next(i, x) \in S
    OBVIOUS
  <2>1. n + 1 - i \in 1..n
    OBVIOUS
  <2>2. u[n + 1 - i] + v[n + 1 - i] + x \in Int
    BY <1>0, <2>1
  <2> QED BY ONLY <2>2
<1>3. \A i \in 1..n : \A x \in S : step[i][x] = next(i, x)
  <2> HIDE DEF next, S
  <2> QED OBVIOUS
<1> HIDE DEF step, next
<1>4. PICK f : Unfolds(n, S, 0, step, f)
  <2>1. 0 \in S
    OBVIOUS
  <2> HIDE DEF S
  <2> QED BY <1>2, <1>3, <2>1, UnfoldingExists
<1>5. f = [i \in 0..n |-> Step(f, i)]
  <2> HIDE DEF S
  <2>1. /\ f = [i \in 0..n |-> f[i]] /\ f[0] = 0
        /\ \A i \in 1..n : f[i - 1] \in S /\ f[i] = step[i][f[i - 1]]
    BY <1>4, UnfoldingIs
  <2>2. ASSUME NEW i \in 1..n PROVE f[i] = next(i, f[i - 1])
    BY <1>3, <2>1
  <2>3. ASSUME NEW i \in 0..n PROVE f[i] = Step(f, i)
    <3>1. CASE i = 0
      BY <2>1, <3>1
    <3>2. CASE i # 0
      <4>1. i \in 1..n
        BY <3>2
      <4> QED BY ONLY <2>2, <3>2, <4>1
    <3> QED BY <3>1, <3>2
  <2> HIDE DEF Step
  <2> QED BY <2>1, <2>3
<1>6. C = [i \in 0..n |-> Step(C, i)]
  <2> HIDE DEF Step
  <2> QED BY <1>5
<1> HIDE DEF C
<1>7. C[0] = 0 /\ \A i \in 1..n : C[i] = next(i, C[i - 1])
  BY <1>6
<1>8. \A i \in 0..n : C[i] \in S
  <2>1. C[0] \in S
    BY <1>7
  <2> HIDE DEF S
  <2>2. ASSUME NEW i \in 1..n, C[i - 1] \in S PROVE C[i] \in S
    BY <1>2, <1>7, <2>2
  <2> QED BY <2>1, <2>2, StaysIn
<1>9. \A i \in 1..n : byte(i) \in Byte
  <2> TAKE i \in 1..n
  <2>1. n - i \in 0..n
    OBVIOUS
  <2>2. u[i] + v[i] + C[n - i] \in Int
    BY <1>0, <1>8, <2>1
  <2> QED BY ONLY <2>2 DEF Byte
<1>10. first \in Int
  BY <1>8
<1> HIDE DEF byte, first
<1>11. IsWord(w, n)
  BY <1>9 DEF IsWord
<1>12. Tail(<<first>> \o w) = w
  <2> HIDE DEF w
  <2>1. IsSeq(w, n) /\ Len(w) = n
    BY <1>11, WordIsSeq
  <2> DEFINE bytes == {w[i] : i \in 1..n} \cup {first}
  <2>2. w \in Seq(bytes) /\ first \in bytes
    <3>1. w \in [1..n -> bytes]
      BY <2>1 DEF IsSeq
    <3> QED BY <2>1, <3>1
  <2> HIDE DEF bytes
  <2> QED BY <2>2
<1> QED BY <1>1, <1>11, <1>12

\* One digit of a long division: the remainder is below the divisor, and the digit is a byte.
LEMMA QuotientDigit ==
  ASSUME NEW d \in Nat, d > 0, NEW x \in 0..(d - 1), NEW b \in Byte
  PROVE  (256 * x + b) % d \in 0..(d - 1) /\ (256 * x + b) \div d \in Byte
BY DEF Byte

\* The digits of a quotient are bytes.
LEMMA DivisionIsWord ==
  ASSUME NEW n \in Nat, NEW u, IsWord(u, n), NEW d \in Nat, d > 0
  PROVE  IsWord(Division(u, d).quotient, n) /\ Division(u, d).remainder \in Int
<1> DEFINE S == 0..(d - 1)
           next(i, x) == (256 * x + u[i]) % d
           Step(A, i) == IF i = 0 THEN 0 ELSE next(i, A[i - 1])
           C == CHOOSE A : A = [i \in 0..n |-> Step(A, i)]
           step == [i \in 1..n |-> [x \in S |-> next(i, x)]]
           byte(i) == (256 * C[i - 1] + u[i]) \div d
           w == [i \in 1..n |-> byte(i)]
<1>0. Len(u) = n /\ \A i \in 1..n : u[i] \in Int
  BY WordIsSeq, BytesAreNumbers
<1>1. Division(u, d).quotient = Tuple(w) /\ Division(u, d).remainder = C[n]
  BY <1>0 DEF Division
<1>2. \A i \in 1..n : \A x \in S : next(i, x) \in S
  <2> SUFFICES ASSUME NEW i \in 1..n, NEW x \in S PROVE next(i, x) \in S
    OBVIOUS
  <2>1. u[i] \in Byte
    BY WordIsSeq
  <2> QED BY <2>1, QuotientDigit
<1>3. \A i \in 1..n : \A x \in S : step[i][x] = next(i, x)
  <2> HIDE DEF next, S
  <2> QED OBVIOUS
<1> HIDE DEF step, next
<1>4. PICK f : Unfolds(n, S, 0, step, f)
  <2>1. 0 \in S
    OBVIOUS
  <2> HIDE DEF S
  <2> QED BY <1>2, <1>3, <2>1, UnfoldingExists
<1>5. f = [i \in 0..n |-> Step(f, i)]
  <2> HIDE DEF S
  <2>1. /\ f = [i \in 0..n |-> f[i]] /\ f[0] = 0
        /\ \A i \in 1..n : f[i - 1] \in S /\ f[i] = step[i][f[i - 1]]
    BY <1>4, UnfoldingIs
  <2>2. ASSUME NEW i \in 1..n PROVE f[i] = next(i, f[i - 1])
    BY <1>3, <2>1
  <2>3. ASSUME NEW i \in 0..n PROVE f[i] = Step(f, i)
    <3>1. CASE i = 0
      BY <2>1, <3>1
    <3>2. CASE i # 0
      <4>1. i \in 1..n
        BY <3>2
      <4> QED BY ONLY <2>2, <3>2, <4>1
    <3> QED BY <3>1, <3>2
  <2> HIDE DEF Step
  <2> QED BY <2>1, <2>3
<1>6. C = [i \in 0..n |-> Step(C, i)]
  <2> HIDE DEF Step
  <2> QED BY <1>5
<1> HIDE DEF C
<1>7. C[0] = 0 /\ \A i \in 1..n : C[i] = next(i, C[i - 1])
  BY <1>6
<1>8. \A i \in 0..n : C[i] \in S
  <2>1. C[0] \in S
    BY <1>7
  <2> HIDE DEF S
  <2>2. ASSUME NEW i \in 1..n, C[i - 1] \in S PROVE C[i] \in S
    BY <1>2, <1>7, <2>2
  <2> QED BY <2>1, <2>2, StaysIn
<1>9. \A i \in 1..n : byte(i) \in Byte
  <2> TAKE i \in 1..n
  <2>1. C[i - 1] \in 0..(d - 1) /\ u[i] \in Byte
    BY <1>8, WordIsSeq
  <2> QED BY <2>1, QuotientDigit
<1>10. C[n] \in Int
  BY <1>8
<1> HIDE DEF byte
<1>11. w \in [1..n -> Byte]
  BY <1>9
<1> HIDE DEF w
<1> QED BY <1>1, <1>10, <1>11, TupleOfBytes

\* A word that is not zero has a positive number.
LEMMA NumIsPositive ==
  ASSUME NEW n \in Nat, NEW w, IsWord(w, n)
  PROVE  Num(w) \in Nat /\ (~IsZero(w) => Num(w) > 0)
<1> DEFINE S == Nat
           next(i, x) == 256 * x + w[i]
           Step(A, i) == IF i = 0 THEN 0 ELSE next(i, A[i - 1])
           C == CHOOSE A : A = [i \in 0..n |-> Step(A, i)]
           step == [i \in 1..n |-> [x \in S |-> next(i, x)]]
<1>0. Len(w) = n /\ \A i \in 1..n : w[i] \in Nat
  <2>1. \A b \in Byte : b \in Nat
    BY DEF Byte
  <2> QED BY <2>1, WordIsSeq
<1>1. Num(w) = C[n]
  BY <1>0 DEF Num
<1>2. \A i \in 1..n : \A x \in S : next(i, x) \in S
  BY <1>0
<1>3. \A i \in 1..n : \A x \in S : step[i][x] = next(i, x)
  <2> HIDE DEF next, S
  <2> QED OBVIOUS
<1> HIDE DEF step, next
<1>4. PICK f : Unfolds(n, S, 0, step, f)
  <2>1. 0 \in S
    OBVIOUS
  <2> HIDE DEF S
  <2> QED BY <1>2, <1>3, <2>1, UnfoldingExists
<1>5. f = [i \in 0..n |-> Step(f, i)]
  <2> HIDE DEF S
  <2>1. /\ f = [i \in 0..n |-> f[i]] /\ f[0] = 0
        /\ \A i \in 1..n : f[i - 1] \in S /\ f[i] = step[i][f[i - 1]]
    BY <1>4, UnfoldingIs
  <2>2. ASSUME NEW i \in 1..n PROVE f[i] = next(i, f[i - 1])
    BY <1>3, <2>1
  <2>3. ASSUME NEW i \in 0..n PROVE f[i] = Step(f, i)
    <3>1. CASE i = 0
      BY <2>1, <3>1
    <3>2. CASE i # 0
      <4>1. i \in 1..n
        BY <3>2
      <4> QED BY ONLY <2>2, <3>2, <4>1
    <3> QED BY <3>1, <3>2
  <2> HIDE DEF Step
  <2> QED BY <2>1, <2>3
<1>6. C = [i \in 0..n |-> Step(C, i)]
  <2> HIDE DEF Step
  <2> QED BY <1>5
<1> HIDE DEF C
<1>7. C[0] = 0 /\ \A i \in 1..n : C[i] = next(i, C[i - 1])
  BY <1>6
<1>8. \A i \in 0..n : C[i] \in S
  <2>1. C[0] \in S
    BY <1>7
  <2> HIDE DEF S
  <2>2. ASSUME NEW i \in 1..n, C[i - 1] \in S PROVE C[i] \in S
    BY <1>2, <1>7, <2>2
  <2> QED BY <2>1, <2>2, StaysIn
<1>9. ASSUME ~IsZero(w) PROVE C[n] > 0
  <2>1. PICK j \in 1..n : w[j] # 0
    BY <1>0, <1>9 DEF IsZero
  <2> DEFINE Good == {i \in 0..n : i >= j => C[i] > 0}
  <2>2. ASSUME NEW i \in 1..n, i - 1 \in Good PROVE i \in Good
    <3>1. C[i] = 256 * C[i - 1] + w[i] /\ C[i - 1] \in Nat /\ w[i] \in Nat
      BY <1>0, <1>7, <1>8 DEF next
    <3>2. i - 1 >= j => C[i - 1] > 0
      BY <2>2
    <3>3. i >= j => C[i] > 0
      BY <2>1, <3>1, <3>2
    <3> QED BY <3>3
  <2>3. 0 \in Good
    OBVIOUS
  <2>4. \A i \in 0..n : i \in Good
    <3> HIDE DEF Good
    <3> QED BY <2>2, <2>3, Upwards
  <2> QED BY <2>4
<1> QED BY <1>1, <1>8, <1>9

\* The byte of the wanted bits is one, whatever they are.
LEMMA ByteWhereIsByte ==
  ASSUME NEW b, NEW c, NEW wanted
  PROVE  ByteWhere(b, c, wanted) \in Byte
<1> DEFINE BitOf(x, i) == (x \div 2^i) % 2
           bit(i) == IF <<BitOf(b, 8 - i), BitOf(c, 8 - i)>> \in wanted THEN 1 ELSE 0
           S == Int
           next(i, x) == 2 * x + bit(i)
           Step(A, i) == IF i = 0 THEN 0 ELSE next(i, A[i - 1])
           C == CHOOSE A : A = [i \in 0..8 |-> Step(A, i)]
           step == [i \in 1..8 |-> [x \in S |-> next(i, x)]]
<1>0. \A i : bit(i) \in 0..1
  OBVIOUS
<1>1. ByteWhere(b, c, wanted) = C[8]
  BY DEF ByteWhere
<1> HIDE DEF BitOf, bit
<1>2. \A i \in 1..8 : \A x \in S : next(i, x) \in S
  BY <1>0
<1>3. \A i \in 1..8 : \A x \in S : step[i][x] = next(i, x)
  <2> HIDE DEF next, S
  <2> QED OBVIOUS
<1> HIDE DEF step, next
<1>4. PICK f : Unfolds(8, S, 0, step, f)
  <2>1. 0 \in S
    OBVIOUS
  <2> HIDE DEF S
  <2> QED BY <1>2, <1>3, <2>1, UnfoldingExists
<1>5. f = [i \in 0..8 |-> Step(f, i)]
  <2> HIDE DEF S
  <2>1. /\ f = [i \in 0..8 |-> f[i]] /\ f[0] = 0
        /\ \A i \in 1..8 : f[i - 1] \in S /\ f[i] = step[i][f[i - 1]]
    BY <1>4 DEF Unfolds
  <2>2. ASSUME NEW i \in 1..8 PROVE f[i] = next(i, f[i - 1])
    BY <1>3, <2>1
  <2>3. ASSUME NEW i \in 0..8 PROVE f[i] = Step(f, i)
    <3>1. CASE i = 0
      BY <2>1, <3>1
    <3>2. CASE i # 0
      <4>1. i \in 1..8
        BY <3>2
      <4> QED BY ONLY <2>2, <3>2, <4>1
    <3> QED BY <3>1, <3>2
  <2> HIDE DEF Step
  <2> QED BY <2>1, <2>3
<1>6. C = [i \in 0..8 |-> Step(C, i)]
  <2> HIDE DEF Step
  <2> QED BY <1>5
<1> HIDE DEF C
<1>7. C[0] = 0 /\ \A i \in 1..8 : C[i] = next(i, C[i - 1])
  BY <1>6
<1>8. \A i \in 0..8 : C[i] \in S
  <2>1. C[0] \in S
    BY <1>7
  <2> HIDE DEF S
  <2>2. ASSUME NEW i \in 1..8, C[i - 1] \in S PROVE C[i] \in S
    BY <1>2, <1>7, <2>2
  <2> QED BY <2>1, <2>2, StaysIn
<1>9. \A i \in 1..8 : C[i] = 2 * C[i - 1] + bit(i)
  BY <1>7 DEF next
<1>10. C[1] \in 0..1
  BY <1>0, <1>7, <1>9
<1>11. C[2] \in 0..3
  BY <1>0, <1>9, <1>10
<1>12. C[3] \in 0..7
  BY <1>0, <1>9, <1>11
<1>13. C[4] \in 0..15
  BY <1>0, <1>9, <1>12
<1>14. C[5] \in 0..31
  BY <1>0, <1>9, <1>13
<1>15. C[6] \in 0..63
  BY <1>0, <1>9, <1>14
<1>16. C[7] \in 0..127
  BY <1>0, <1>9, <1>15
<1>17. C[8] \in 0..255
  BY <1>0, <1>9, <1>16
<1> QED BY <1>1, <1>17 DEF Byte

\* What bitwise operations return is a word.
LEMMA BitwiseIsWord ==
  ASSUME NEW n \in Nat, NEW u, IsWord(u, n), NEW v
  PROVE  /\ IsWord(BitAnd(u, v), n) /\ IsWord(BitOr(u, v), n) /\ IsWord(BitXor(u, v), n)
         /\ IsWord(BitNot(u), n)
<1>1. Len(u) = n /\ \A i \in 1..n : u[i] \in Byte
  BY WordIsSeq
<1>2. ASSUME NEW wanted PROVE IsWord(BytesWhere(u, v, wanted), n)
  <2> DEFINE byte(i) == ByteWhere(u[i], v[i], wanted)
             w == [i \in 1..n |-> byte(i)]
  <2>1. BytesWhere(u, v, wanted) = Tuple(w)
    BY <1>1 DEF BytesWhere
  <2>2. \A i \in 1..n : byte(i) \in Byte
    BY ByteWhereIsByte
  <2> HIDE DEF byte
  <2>3. w \in [1..n -> Byte]
    BY <2>2
  <2> HIDE DEF w
  <2> QED BY <2>1, <2>3, TupleOfBytes
<1>3. IsWord(BitNot(u), n)
  <2> DEFINE w == [i \in 1..n |-> 255 - u[i]]
  <2>1. BitNot(u) = Tuple(w)
    BY <1>1 DEF BitNot
  <2>2. \A b \in Byte : 255 - b \in Byte
    BY DEF Byte
  <2>3. w \in [1..n -> Byte]
    BY <1>1, <2>2
  <2> HIDE DEF w
  <2> QED BY <2>1, <2>3, TupleOfBytes
<1> QED BY <1>2, <1>3 DEF BitAnd, BitOr, BitXor

\* A byte that is chosen from a word is a byte, also beyond its ends.
LEMMA ByteOfIsByte ==
  ASSUME NEW n, NEW u, IsWord(u, n), NEW i
  PROVE  ByteOf(u, i) \in Byte
<1>1. Len(u) = n /\ (\A k \in 1..n : u[k] \in Byte) /\ 0 \in Byte
  BY WordIsSeq DEF Byte
<1> QED BY <1>1 DEF ByteOf

\* Two neighbouring bytes, shifted, have a byte as a result.
LEMMA LowByteOf ==
  ASSUME NEW x \in Byte, NEW y \in Byte, NEW r \in Nat
  PROVE  /\ ((256 * x + y) \div 2^r) % 256 \in Byte
         /\ (((256 * x + y) * 2^r) \div 256) % 256 \in Byte
<1>1. 256 * x + y \in Nat /\ 2^r \in Int
  BY DEF Byte
<1> DEFINE z == 256 * x + y
           p == 2^r
<1> HIDE DEF z, p
<1>2. z \in Nat /\ p \in Int
  BY <1>1 DEF z, p
<1>3. (z \div p) % 256 \in Byte
  BY <1>2 DEF Byte
<1>4. z * p \in Int
  BY <1>2
<1>5. ((z * p) \div 256) % 256 \in Byte
  BY <1>4 DEF Byte
<1> QED BY <1>3, <1>5 DEF z, p

\* A shifted word is a word.
LEMMA ShiftedIsWord ==
  ASSUME NEW n \in Nat, NEW u, IsWord(u, n), NEW k \in Nat
  PROVE  IsWord(ShiftedRight(u, k), n) /\ IsWord(ShiftedLeft(u, k), n)
<1>1. Len(u) = n /\ \A i : ByteOf(u, i) \in Byte
  BY WordIsSeq, ByteOfIsByte
<1> DEFINE q == k \div 8
           r == k % 8
           right(i) == ((256 * ByteOf(u, i - q - 1) + ByteOf(u, i - q)) \div 2^r) % 256
           left(i) == (((256 * ByteOf(u, i + q) + ByteOf(u, i + q + 1)) * 2^r) \div 256) % 256
           w == [i \in 1..n |-> right(i)]
           v == [i \in 1..n |-> left(i)]
<1>2. ShiftedRight(u, k) = Tuple(w) /\ ShiftedLeft(u, k) = Tuple(v)
  BY <1>1 DEF ShiftedRight, ShiftedLeft
<1>3. r \in Nat
  OBVIOUS
<1> HIDE DEF r
<1>4. \A i : right(i) \in Byte /\ left(i) \in Byte
  BY <1>1, <1>3, LowByteOf
<1> HIDE DEF right, left
<1>5. w \in [1..n -> Byte] /\ v \in [1..n -> Byte]
  BY <1>4
<1> HIDE DEF w, v
<1> QED BY <1>2, <1>5, TupleOfBytes

\* So is a reversed one.
LEMMA ReversedIsWord ==
  ASSUME NEW n \in Nat, NEW u, IsWord(u, n)
  PROVE  IsWord(Reversed(u), n)
<1>1. IsSeq(u, n) /\ \A i \in 1..n : u[i] \in Byte
  BY WordIsSeq
<1>2. IsSeq(Reversed(u), n) /\ \A i \in 1..n : Reversed(u)[i] = u[n + 1 - i]
  BY <1>1, ReversedBytes
<1> QED BY <1>1, <1>2 DEF IsWord, IsSeq

\* And so is what is read from a pool of bytes.
LEMMA ReadIsWord ==
  ASSUME NEW pool, HasBytes(pool), NEW a, NEW n \in Nat
  PROVE  IsWord(Read(pool, a, n), n)
<1>1. IsSeq(Read(pool, a, n), n) /\ \A i \in 1..n : Read(pool, a, n)[i] \in Byte
  BY ReadBytes DEF HasBytes
<1> QED BY <1>1 DEF IsWord, IsSeq

\* A sequence of bytes is a word of its length.
LEMMA SequenceIsWord ==
  ASSUME NEW w \in Seq(Byte)
  PROVE  IsWord(w, Len(w))
BY DEF IsWord

\* The words that are twice as long.
LEMMA ExtendedIsWord ==
  ASSUME NEW n \in Nat, NEW u, IsWord(u, n)
  PROVE  IsWord(Low(u, 2 * n), 2 * n) /\ IsWord(SignExtended(u, 2 * n), 2 * n)
<1>1. IsSeq(u, n) /\ Len(u) = n /\ \A i \in 1..n : u[i] \in Byte
  BY WordIsSeq
<1>2. u \in Seq(Byte)
  BY <1>1 DEF IsWord
<1>3. CASE n = 0
  <2>1. Low(u, 2 * n) = SubSeq(u, 1, 0) /\ SignExtended(u, 2 * n) = << >> \o u
    BY <1>1, <1>3 DEF Low, SignExtended
  <2> QED BY <1>1, <1>2, <1>3, <2>1 DEF IsWord
<1>4. CASE n # 0
  <2> DEFINE signs == [i \in 1..n |-> 255 * SignBit(u)]
  <2>1. 255 * SignBit(u) \in Byte
    <3>1. u[1] \in 0..255
      BY <1>1, <1>4 DEF Byte
    <3>2. u[1] \div 128 \in 0..1
      BY <3>1
    <3> QED BY <3>2 DEF SignBit, Byte
  <2>2. Low(u, 2 * n) = Zeros(n) \o u /\ SignExtended(u, 2 * n) = signs \o u
    BY <1>1, <1>4 DEF Low, SignExtended
  <2>3. Zeros(n) \in Seq(Byte) /\ Len(Zeros(n)) = n
    <3>1. IsSeq(Zeros(n), n) /\ \A i \in 1..n : Zeros(n)[i] = 0
      BY ZerosLength
    <3>2. IsWord(Zeros(n), n)
      BY <3>1 DEF IsWord, IsSeq, Byte
    <3> QED BY <3>2, WordIsSeq DEF IsWord
  <2>4. signs \in Seq(Byte) /\ Len(signs) = n
    BY <2>1
  <2> HIDE DEF signs
  <2>5. \A v \in Seq(Byte) : Len(v) = n => IsWord(v \o u, 2 * n)
    <3> SUFFICES ASSUME NEW v \in Seq(Byte), Len(v) = n PROVE IsWord(v \o u, 2 * n)
      OBVIOUS
    <3>1. v \o u \in Seq(Byte) /\ Len(v \o u) = Len(v) + Len(u)
      BY <1>2
    <3>2. Len(v \o u) = 2 * n
      BY <1>1, <3>1
    <3>3. IsWord(v \o u, Len(v \o u))
      BY <3>1, SequenceIsWord
    <3> QED BY <3>2, <3>3
  <2> QED BY <2>2, <2>3, <2>4, <2>5
<1> QED BY <1>3, <1>4

-----------------------------------------------------------------------------
(* A machine whose pools and streams hold bytes stays one *)

\* A stream of bytes.
IsText(x) == IsStream(x) /\ IsWord(x.content, Len(x.content))

\* A machine whose pools and streams hold bytes.
IsSane(s) ==
  /\ IsMachine(s)
  /\ HasBytes(s.reg)
  /\ HasBytes(s.mem)
  /\ \A id : IsText(StreamInfo(s, id))

\* A word that is written to a pool of bytes leaves a pool of bytes.
LEMMA WriteHasBytes ==
  ASSUME NEW pool, HasBytes(pool), NEW a \in Int, NEW n \in Nat, NEW w, IsWord(w, n)
  PROVE  HasBytes(Write(pool, a, w))
<1>1. IsSeq(w, n) /\ \A i \in 1..n : w[i] \in Byte
  BY WordIsSeq
<1> SUFFICES ASSUME NEW l PROVE ByteAt(Write(pool, a, w), l) \in Byte
  BY DEF HasBytes
<1>2. ByteAt(Write(pool, a, w), l) = IF l \in a..(a + n - 1) THEN w[l - a + 1] ELSE ByteAt(pool, l)
  BY <1>1, WriteBytes
<1>3. l \in a..(a + n - 1) => l - a + 1 \in 1..n
  OBVIOUS
<1> QED BY <1>1, <1>2, <1>3 DEF HasBytes

\* A sane machine assigns a word to a register: it stays sane.
LEMMA SaneAssigns ==
  ASSUME NEW s, IsSane(s), NEW a \in Int, NEW n \in Nat, NEW w, IsWord(w, n), NEW io
  PROVE  IsSane(Assigns(s, a, w, io).cpu)
<1> DEFINE pool == Write(s.reg, a, w)
           s1 == [s EXCEPT !.reg = pool]
<1>1. Assigns(s, a, w, io).cpu = s1
  BY AssignsIs
<1>2. HasBytes(pool)
  BY WriteHasBytes DEF IsSane
<1> HIDE DEF pool
<1>3. IsMachine(s1) /\ s1.reg = pool /\ s1.mem = s.mem /\ s1.streams = s.streams
  BY DEF IsSane, IsMachine
<1> HIDE DEF s1
<1>4. \A id : StreamInfo(s1, id) = StreamInfo(s, id)
  BY <1>3 DEF StreamInfo
<1> QED BY <1>1, <1>2, <1>3, <1>4 DEF IsSane

\* The same for a word in the MEM pool, ...
LEMMA SaneStores ==
  ASSUME NEW s, IsSane(s), NEW a \in Int, NEW n \in Nat, NEW w, IsWord(w, n)
  PROVE  IsSane([s EXCEPT !.mem = Write(s.mem, a, w)])
<1> DEFINE pool == Write(s.mem, a, w)
           s1 == [s EXCEPT !.mem = pool]
<1>1. HasBytes(pool)
  BY WriteHasBytes DEF IsSane
<1> HIDE DEF pool
<1>2. IsMachine(s1) /\ s1.mem = pool /\ s1.reg = s.reg /\ s1.streams = s.streams
  BY DEF IsSane, IsMachine
<1> HIDE DEF s1
<1>3. \A id : StreamInfo(s1, id) = StreamInfo(s, id)
  BY <1>2 DEF StreamInfo
<1>4. IsSane(s1)
  BY <1>1, <1>2, <1>3 DEF IsSane
<1> QED BY <1>4 DEF s1, pool

\* ... a failure, ...
LEMMA SaneFails ==
  ASSUME NEW s, IsSane(s), NEW message
  PROVE  IsSane(Fails(s, message).cpu)
<1> DEFINE s1 == [s EXCEPT !.error = message]
<1>1. Fails(s, message).cpu = s1
  BY DEF Fails
<1>2. IsMachine(s1) /\ s1.mem = s.mem /\ s1.reg = s.reg /\ s1.streams = s.streams
  BY DEF IsSane, IsMachine
<1> HIDE DEF s1
<1>3. \A id : StreamInfo(s1, id) = StreamInfo(s, id)
  BY <1>2 DEF StreamInfo
<1> QED BY <1>1, <1>2, <1>3 DEF IsSane

\* ... the table of blocks, ...
LEMMA SaneBlocks ==
  ASSUME NEW s, IsSane(s), NEW blocks
  PROVE  IsSane([s EXCEPT !.blocks = blocks])
<1> DEFINE s1 == [s EXCEPT !.blocks = blocks]
<1>1. IsMachine(s1) /\ s1.mem = s.mem /\ s1.reg = s.reg /\ s1.streams = s.streams
  BY DEF IsSane, IsMachine
<1> HIDE DEF s1
<1>2. \A id : StreamInfo(s1, id) = StreamInfo(s, id)
  BY <1>1 DEF StreamInfo
<1>3. IsSane(s1)
  BY <1>1, <1>2 DEF IsSane
<1> QED BY <1>3 DEF s1

\* ... a stream of bytes, ...
LEMMA SaneStream ==
  ASSUME NEW s, IsSane(s), NEW id, NEW info, IsText(info)
  PROVE  IsSane(WithStream(s, id, info))
<1> DEFINE s1 == WithStream(s, id, info)
<1>1. /\ IsMachine(s1) /\ s1.reg = s.reg /\ s1.mem = s.mem
      /\ \A j : StreamInfo(s1, j) = IF j = id THEN info ELSE StreamInfo(s, j)
  BY WithStreamIs DEF IsSane
<1> HIDE DEF s1
<1>2. IsSane(s1)
  BY <1>1 DEF IsSane
<1> QED BY <1>2 DEF s1

\* ... and a result of all operands.
LEMMA SaneMixes ==
  ASSUME NEW s, IsSane(s), NEW I, I.a0 \in Nat, NEW n \in Nat, NEW w, IsWord(w, n), NEW operands
  PROVE  IsSane(Mixes(I, s, w, operands).cpu)
BY SaneAssigns DEF Mixes

\* The addresses of a sane machine are numbers.
LEMMA SaneAddress ==
  ASSUME NEW s, IsSane(s), NEW a
  PROVE  Address(s, a) \in Int
BY AddressIsNumber DEF IsSane

\* What it reads from its pools are words.
LEMMA SaneOperands ==
  ASSUME NEW s, IsSane(s), NEW a, NEW n \in Nat
  PROVE  IsWord(Read(s.reg, a, n), n) /\ IsWord(Read(s.mem, a, n), n)
BY ReadIsWord DEF IsSane

\* A truth value is a word.
LEMMA TruthIsWord ==
  ASSUME NEW b
  PROVE  IsWord(Truth(b), 1)
<1> DEFINE v == IF b THEN 1 ELSE 0
<1>1. v \in Byte
  BY DEF Byte
<1> HIDE DEF v
<1>2. <<v>> \in [1..1 -> Byte]
  BY <1>1
<1> QED BY <1>2 DEF Truth, IsWord, v

\* Havoc is a word.
LEMMA HavocIsWord ==
  ASSUME NEW n \in Nat
  PROVE  IsWord([i \in 1..n |-> HavocByte], n)
BY DEF IsWord, HavocByte, Byte

\* Whatever is executed, whether it fails or not.
KeepsSane(I, s) == IsSane(Execute(I, s).cpu)

\* A machine stays sane if the operator keeps it sane, since failing does as well.
LEMMA SaneChecked ==
  ASSUME NEW I, NEW s, IsSane(s), NEW step, IsSane(step.cpu), Execute(I, s) = Checked(I, s, step)
  PROVE  KeepsSane(I, s)
BY SaneFails DEF Checked, KeepsSane

\* Moves, bitwise operations and numbers.
LEMMA SaneAfterCopies ==
  ASSUME NEW I, NEW s, IsSane(s), IsTyped(I), I.gik \in CopiesBytes \cup JoinsBytes \cup {"REG:=NUMBER"}
  PROVE  KeepsSane(I, s)
<1>1. I.n \in Nat /\ I.a0 \in Nat /\ I.a0 \in Int
  <2>1. I.gik \notin WithoutOperands
    BY DEF WithoutOperands, CopiesBytes, JoinsBytes
  <2>2. I.n \in Nat /\ I.a0 \in Nat
    BY <2>1, Zenon DEF IsTyped
  <2> QED BY <2>2
<1>2. IsWord(First(I, s), I.n) /\ IsWord(Second(I, s), I.n)
  BY <1>1, SaneOperands DEF First, Second
<1>3. CASE I.gik = "REG:=NUMBER"
  <2>1. IsWord(I.v, I.n)
    BY <1>1, <1>3 DEF IsTyped, TakeNumbers, IsWord
  <2>2. IsSane(ExecuteRegAsgnNumber(I, s).cpu)
    BY <1>1, <2>1, SaneAssigns DEF ExecuteRegAsgnNumber
  <2>3. Execute(I, s) = Checked(I, s, ExecuteRegAsgnNumber(I, s))
    BY <1>3, DispatchedMoves
  <2> QED BY <2>2, <2>3, SaneChecked
<1>4. CASE I.gik = "REG:=REG"
  <2>1. IsWord(First(I, s), I.n)
    BY <1>2
  <2>2. IsSane(ExecuteRegAsgnReg(I, s).cpu)
    BY <1>1, <2>1, SaneAssigns DEF ExecuteRegAsgnReg, First
  <2>3. Execute(I, s) = Checked(I, s, ExecuteRegAsgnReg(I, s))
    BY <1>4, DispatchedMoves
  <2> QED BY <2>2, <2>3, SaneChecked
<1>5. CASE I.gik = "REG:=REG&NUMBER"
  <2>1. IsWord(BitAnd(First(I, s), I.v), I.n)
    BY <1>1, <1>2, BitwiseIsWord
  <2>2. IsSane(ExecuteAndNumber(I, s).cpu)
    BY <1>1, <2>1, SaneAssigns DEF ExecuteAndNumber
  <2>3. Execute(I, s) = Checked(I, s, ExecuteAndNumber(I, s))
    BY <1>5, DispatchedBitwise
  <2> QED BY <2>2, <2>3, SaneChecked
<1>6. CASE I.gik = "REG:=REG|NUMBER"
  <2>1. IsWord(BitOr(First(I, s), I.v), I.n)
    BY <1>1, <1>2, BitwiseIsWord
  <2>2. IsSane(ExecuteOrNumber(I, s).cpu)
    BY <1>1, <2>1, SaneAssigns DEF ExecuteOrNumber
  <2>3. Execute(I, s) = Checked(I, s, ExecuteOrNumber(I, s))
    BY <1>6, DispatchedBitwise
  <2> QED BY <2>2, <2>3, SaneChecked
<1>7. CASE I.gik = "REG:=~REG"
  <2>1. IsWord(BitNot(First(I, s)), I.n)
    BY <1>1, <1>2, BitwiseIsWord
  <2>2. IsSane(ExecuteNotReg(I, s).cpu)
    BY <1>1, <2>1, SaneAssigns DEF ExecuteNotReg
  <2>3. Execute(I, s) = Checked(I, s, ExecuteNotReg(I, s))
    BY <1>7, DispatchedBitwise
  <2> QED BY <2>2, <2>3, SaneChecked
<1>8. CASE I.gik = "REG:=REG&REG"
  <2>1. IsWord(BitAnd(First(I, s), Second(I, s)), I.n)
    BY <1>1, <1>2, BitwiseIsWord
  <2>2. IsSane(ExecuteAndReg(I, s).cpu)
    BY <1>1, <2>1, SaneAssigns DEF ExecuteAndReg
  <2>3. Execute(I, s) = Checked(I, s, ExecuteAndReg(I, s))
    BY <1>8, DispatchedBitwise
  <2> QED BY <2>2, <2>3, SaneChecked
<1>9. CASE I.gik = "REG:=REG|REG"
  <2>1. IsWord(BitOr(First(I, s), Second(I, s)), I.n)
    BY <1>1, <1>2, BitwiseIsWord
  <2>2. IsSane(ExecuteOrReg(I, s).cpu)
    BY <1>1, <2>1, SaneAssigns DEF ExecuteOrReg
  <2>3. Execute(I, s) = Checked(I, s, ExecuteOrReg(I, s))
    BY <1>9, DispatchedBitwise
  <2> QED BY <2>2, <2>3, SaneChecked
<1>10. CASE I.gik = "REG:=REG^REG"
  <2>1. IsWord(BitXor(First(I, s), Second(I, s)), I.n)
    BY <1>1, <1>2, BitwiseIsWord
  <2>2. IsSane(ExecuteXorReg(I, s).cpu)
    BY <1>1, <2>1, SaneAssigns DEF ExecuteXorReg
  <2>3. Execute(I, s) = Checked(I, s, ExecuteXorReg(I, s))
    BY <1>10, DispatchedBitwise
  <2> QED BY <2>2, <2>3, SaneChecked
<1> QED BY <1>3, <1>4, <1>5, <1>6, <1>7, <1>8, <1>9, <1>10 DEF CopiesBytes, JoinsBytes

\* Arithmetic, shifts and tests.
LEMMA SaneAfterMixes ==
  ASSUME NEW I, NEW s, IsSane(s), IsTyped(I), I.gik \in MixesBytes
  PROVE  KeepsSane(I, s)
<1>1. I.n \in Nat /\ I.a0 \in Nat
  <2>1. I.gik \notin WithoutOperands
    BY DEF WithoutOperands, MixesBytes
  <2> QED BY <2>1, Zenon DEF IsTyped
<1>2. IsWord(First(I, s), I.n) /\ IsWord(Second(I, s), I.n)
  BY <1>1, SaneOperands DEF First, Second
<1>3. I.gik \in TakeFactors => I.k \in Nat
  BY Zenon DEF IsTyped
<1>4. CASE I.gik = "REG:=REG+NUMBER"
  <2>1. IsWord(I.v, I.n)
    BY <1>1, <1>4 DEF IsTyped, TakeNumbers, IsWord
  <2>2. IsWord(Sum(First(I, s), I.v), I.n)
    BY <1>1, <1>2, <2>1, SumIsWord
  <2>3. IsSane(ExecutePlusNumber(I, s).cpu)
    BY <1>1, <2>2, SaneMixes DEF ExecutePlusNumber
  <2>4. Execute(I, s) = Checked(I, s, ExecutePlusNumber(I, s))
    BY <1>4, DispatchedArithmetic
  <2> QED BY <2>3, <2>4, SaneChecked
<1>5. CASE I.gik = "REG:=REG+REG"
  <2>1. IsWord(Sum(First(I, s), Second(I, s)), I.n)
    BY <1>1, <1>2, SumIsWord
  <2>2. IsSane(ExecutePlusReg(I, s).cpu)
    BY <1>1, <2>1, SaneMixes DEF ExecutePlusReg
  <2>3. Execute(I, s) = Checked(I, s, ExecutePlusReg(I, s))
    BY <1>5, DispatchedArithmetic
  <2> QED BY <2>2, <2>3, SaneChecked
<1>6. CASE I.gik = "REG:=REG*NUMBER"
  <2>1. I.k \in Nat
    BY <1>3, <1>6 DEF TakeFactors
  <2>2. IsWord(Product(First(I, s), I.k), I.n)
    BY <1>1, <1>2, <2>1, ProductIsWord
  <2>3. IsSane(ExecuteTimesNumber(I, s).cpu)
    BY <1>1, <2>2, SaneMixes DEF ExecuteTimesNumber
  <2>4. Execute(I, s) = Checked(I, s, ExecuteTimesNumber(I, s))
    BY <1>6, DispatchedArithmetic
  <2> QED BY <2>3, <2>4, SaneChecked
<1>7. CASE I.gik = "REG:=REG/REG"
  <2>1. ASSUME ~IsZero(Second(I, s)) PROVE IsWord(Division(First(I, s), Num(Second(I, s))).quotient, I.n)
    <3>1. Num(Second(I, s)) \in Nat /\ Num(Second(I, s)) > 0
      BY <1>1, <1>2, <2>1, NumIsPositive
    <3>2. IsWord(Division(First(I, s), Num(Second(I, s))).quotient, I.n) /\ Division(First(I, s), Num(Second(I, s))).remainder \in Int
      BY <1>1, <1>2, <3>1, DivisionIsWord
    <3> QED BY <1>1, <3>2, WordIsWord
  <2>2. IsSane(ExecuteDivideReg(I, s).cpu)
    <3>1. CASE IsZero(Second(I, s))
      BY <3>1, SaneFails DEF ExecuteDivideReg
    <3>2. CASE ~IsZero(Second(I, s))
      BY <1>1, <2>1, <3>2, SaneMixes DEF ExecuteDivideReg
    <3> QED BY <3>1, <3>2
  <2>3. Execute(I, s) = Checked(I, s, ExecuteDivideReg(I, s))
    BY <1>7, DispatchedArithmetic
  <2> QED BY <2>2, <2>3, SaneChecked
<1>8. CASE I.gik = "REG:=REG%REG"
  <2>1. ASSUME ~IsZero(Second(I, s)) PROVE IsWord(Word(Division(First(I, s), Num(Second(I, s))).remainder, I.n), I.n)
    <3>1. Num(Second(I, s)) \in Nat /\ Num(Second(I, s)) > 0
      BY <1>1, <1>2, <2>1, NumIsPositive
    <3>2. IsWord(Division(First(I, s), Num(Second(I, s))).quotient, I.n) /\ Division(First(I, s), Num(Second(I, s))).remainder \in Int
      BY <1>1, <1>2, <3>1, DivisionIsWord
    <3> QED BY <1>1, <3>2, WordIsWord
  <2>2. IsSane(ExecuteModuloReg(I, s).cpu)
    <3>1. CASE IsZero(Second(I, s))
      BY <3>1, SaneFails DEF ExecuteModuloReg
    <3>2. CASE ~IsZero(Second(I, s))
      BY <1>1, <2>1, <3>2, SaneMixes DEF ExecuteModuloReg
    <3> QED BY <3>1, <3>2
  <2>3. Execute(I, s) = Checked(I, s, ExecuteModuloReg(I, s))
    BY <1>8, DispatchedArithmetic
  <2> QED BY <2>2, <2>3, SaneChecked
<1>9. CASE I.gik = "REG:=REG==0"
  <2>1. IsWord(Truth(IsZero(First(I, s))), 1)
    BY TruthIsWord
  <2>2. IsSane(ExecuteEqualToZero(I, s).cpu)
    BY <1>1, <2>1, SaneMixes DEF ExecuteEqualToZero
  <2>3. Execute(I, s) = Checked(I, s, ExecuteEqualToZero(I, s))
    BY <1>9, DispatchedArithmetic
  <2> QED BY <2>2, <2>3, SaneChecked
<1>10. CASE I.gik = "REG:=PARITY"
  <2>1. IsWord(Truth(IsEven(First(I, s))), 1)
    BY TruthIsWord
  <2>2. IsSane(ExecuteParityReg(I, s).cpu)
    BY <1>1, <2>1, SaneMixes DEF ExecuteParityReg
  <2>3. Execute(I, s) = Checked(I, s, ExecuteParityReg(I, s))
    BY <1>10, DispatchedArithmetic
  <2> QED BY <2>2, <2>3, SaneChecked
<1>11. CASE I.gik = "REG:=REG>>NUMBER"
  <2>1. I.k \in Nat
    BY <1>3, <1>11 DEF TakeFactors
  <2>2. IsWord(ShiftedRight(First(I, s), I.k), I.n)
    BY <1>1, <1>2, <2>1, ShiftedIsWord
  <2>3. IsSane(ExecuteRShiftNumber(I, s).cpu)
    BY <1>1, <2>2, SaneMixes DEF ExecuteRShiftNumber
  <2>4. Execute(I, s) = Checked(I, s, ExecuteRShiftNumber(I, s))
    BY <1>11, DispatchedBitwise
  <2> QED BY <2>3, <2>4, SaneChecked
<1>12. CASE I.gik = "REG:=REG<<NUMBER"
  <2>1. I.k \in Nat
    BY <1>3, <1>12 DEF TakeFactors
  <2>2. IsWord(ShiftedLeft(First(I, s), I.k), I.n)
    BY <1>1, <1>2, <2>1, ShiftedIsWord
  <2>3. IsSane(ExecuteLShiftNumber(I, s).cpu)
    BY <1>1, <2>2, SaneMixes DEF ExecuteLShiftNumber
  <2>4. Execute(I, s) = Checked(I, s, ExecuteLShiftNumber(I, s))
    BY <1>12, DispatchedBitwise
  <2> QED BY <2>3, <2>4, SaneChecked
<1>13. CASE I.gik = "REG:=REG>>REG"
  <2>1. ByteAt(s.reg, I.a2) \in Nat
    BY DEF IsSane, HasBytes, Byte
  <2>2. IsWord(ShiftedRight(First(I, s), ByteAt(s.reg, I.a2)), I.n)
    BY <1>1, <1>2, <2>1, ShiftedIsWord
  <2>3. IsSane(ExecuteRShiftReg(I, s).cpu)
    BY <1>1, <2>2, SaneMixes DEF ExecuteRShiftReg
  <2>4. Execute(I, s) = Checked(I, s, ExecuteRShiftReg(I, s))
    BY <1>13, DispatchedBitwise
  <2> QED BY <2>3, <2>4, SaneChecked
<1>14. CASE I.gik = "REG:=REG<<REG"
  <2>1. ByteAt(s.reg, I.a2) \in Nat
    BY DEF IsSane, HasBytes, Byte
  <2>2. IsWord(ShiftedLeft(First(I, s), ByteAt(s.reg, I.a2)), I.n)
    BY <1>1, <1>2, <2>1, ShiftedIsWord
  <2>3. IsSane(ExecuteLShiftReg(I, s).cpu)
    BY <1>1, <2>2, SaneMixes DEF ExecuteLShiftReg
  <2>4. Execute(I, s) = Checked(I, s, ExecuteLShiftReg(I, s))
    BY <1>14, DispatchedBitwise
  <2> QED BY <2>3, <2>4, SaneChecked
<1> QED BY <1>4, <1>5, <1>6, <1>7, <1>8, <1>9, <1>10, <1>11, <1>12, <1>13, <1>14 DEF MixesBytes

\* A word is stored.
LEMMA SaneStoring ==
  ASSUME NEW I, NEW s, IsSane(s), I.n \in Nat, NEW w, IsWord(w, I.n), NEW io
  PROVE  IsSane(Stores(I, s, w, io).cpu)
<1> DEFINE adr == Address(s, I.a0)
           s1 == [s EXCEPT !.mem = Write(s.mem, adr, w)]
<1>1. adr \in Int
  BY SaneAddress
<1>2. IsSane(s1)
  <2> HIDE DEF adr
  <2> QED BY <1>1, SaneStores
<1>3. Stores(I, s, w, io) = [cpu |-> s1, io |-> io] \/ \E message : Stores(I, s, w, io) = Fails(s, message)
  <2> HIDE DEF s1
  <2>1. Stores(I, s, w, io) = IF ~Allowed(s, adr, I.n, Writable(s)) THEN Fails(s, "not writable memory")
                              ELSE [cpu |-> s1, io |-> io]
    BY DEF Stores, s1
  <2> QED BY <2>1
<1> HIDE DEF s1
<1> QED BY <1>2, <1>3, SaneFails

\* A word is loaded.
LEMMA SaneLoading ==
  ASSUME NEW I, NEW s, IsSane(s), I.n \in Nat, I.a0 \in Nat, NEW w, IsWord(w, I.n), NEW from
  PROVE  IsSane(Loads(I, s, w, from).cpu)
<1> DEFINE io == OneToN(InReg(I.a1, 8), InReg(I.a0, I.n)) \o OneToOne(from, InReg(I.a0, I.n))
           step == Assigns(s, I.a0, w, io)
<1>1. IsSane(step.cpu)
  BY SaneAssigns
<1>2. Loads(I, s, w, from) = step \/ \E message : Loads(I, s, w, from) = Fails(s, message)
  <2> HIDE DEF step
  <2>1. Loads(I, s, w, from) = IF ~Allowed(s, Address(s, I.a1), I.n, Readable(s))
                                 THEN Fails(s, "not readable memory") ELSE step
    BY DEF Loads, step
  <2> QED BY <2>1
<1> QED BY <1>1, <1>2, SaneFails

\* Loads and stores.
LEMMA SaneAfterAccesses ==
  ASSUME NEW I, NEW s, IsSane(s), IsTyped(I),
         I.gik \in StoresIntoMem \cup {"REG:=*REG", "REG:=*INV REG"}
  PROVE  KeepsSane(I, s)
<1>1. I.n \in Nat /\ I.a0 \in Nat
  <2>1. I.gik \notin WithoutOperands
    BY DEF WithoutOperands, StoresIntoMem
  <2> QED BY <2>1, Zenon DEF IsTyped
<1>2. I.gik \in TakeNumbers => IsWord(I.v, I.n)
  BY <1>1, Zenon DEF IsTyped, IsWord
<1>3. \A a : IsWord(Read(s.reg, a, I.n), I.n) /\ IsWord(Read(s.mem, a, I.n), I.n)
  BY <1>1, SaneOperands
<1>4. CASE I.gik = "*REG:=REG"
  <2>1. IsWord(Read(s.reg, I.a1, I.n), I.n)
    BY <1>3
  <2>2. IsSane(ExecuteDerefAsgnReg(I, s).cpu)
    BY <1>1, <2>1, SaneStoring DEF ExecuteDerefAsgnReg
  <2>3. Execute(I, s) = Checked(I, s, ExecuteDerefAsgnReg(I, s))
    BY <1>4, DispatchedMoves
  <2> QED BY <2>2, <2>3, SaneChecked
<1>5. CASE I.gik = "*INV REG:=REG"
  <2>1. IsWord(Reversed(Read(s.reg, I.a1, I.n)), I.n)
    BY <1>1, <1>3, ReversedIsWord
  <2>2. IsSane(ExecuteDerefInvAsgnReg(I, s).cpu)
    BY <1>1, <2>1, SaneStoring DEF ExecuteDerefInvAsgnReg
  <2>3. Execute(I, s) = Checked(I, s, ExecuteDerefInvAsgnReg(I, s))
    BY <1>5, DispatchedMoves
  <2> QED BY <2>2, <2>3, SaneChecked
<1>6. CASE I.gik = "*REG:=NUMBER"
  <2>1. IsWord(I.v, I.n)
    BY <1>2, <1>6 DEF TakeNumbers
  <2>2. IsSane(ExecuteDerefAsgnNumber(I, s).cpu)
    BY <1>1, <2>1, SaneStoring DEF ExecuteDerefAsgnNumber
  <2>3. Execute(I, s) = Checked(I, s, ExecuteDerefAsgnNumber(I, s))
    BY <1>6, DispatchedMoves
  <2> QED BY <2>2, <2>3, SaneChecked
<1>7. CASE I.gik = "*INV REG:=NUMBER"
  <2>1. IsWord(Reversed(I.v), I.n)
    BY <1>1, <1>2, <1>7, ReversedIsWord DEF TakeNumbers
  <2>2. IsSane(ExecuteDerefInvAsgnNumber(I, s).cpu)
    BY <1>1, <2>1, SaneStoring DEF ExecuteDerefInvAsgnNumber
  <2>3. Execute(I, s) = Checked(I, s, ExecuteDerefInvAsgnNumber(I, s))
    BY <1>7, DispatchedMoves
  <2> QED BY <2>2, <2>3, SaneChecked
<1>8. CASE I.gik = "REG:=*REG"
  <2>1. IsWord(Read(s.mem, Address(s, I.a1), I.n), I.n)
    BY <1>3
  <2>2. IsSane(ExecuteRegAsgnDeref(I, s).cpu)
    BY <1>1, <2>1, SaneLoading DEF ExecuteRegAsgnDeref
  <2>3. Execute(I, s) = Checked(I, s, ExecuteRegAsgnDeref(I, s))
    BY <1>8, DispatchedMoves
  <2> QED BY <2>2, <2>3, SaneChecked
<1>9. CASE I.gik = "REG:=*INV REG"
  <2>1. IsWord(Reversed(Read(s.mem, Address(s, I.a1), I.n)), I.n)
    BY <1>1, <1>3, ReversedIsWord
  <2>2. IsSane(ExecuteRegAsgnDerefInv(I, s).cpu)
    BY <1>1, <2>1, SaneLoading DEF ExecuteRegAsgnDerefInv
  <2>3. Execute(I, s) = Checked(I, s, ExecuteRegAsgnDerefInv(I, s))
    BY <1>9, DispatchedMoves
  <2> QED BY <2>2, <2>3, SaneChecked
<1> QED BY <1>4, <1>5, <1>6, <1>7, <1>8, <1>9 DEF StoresIntoMem

\* Words that are copied between registers, havoc and the extension of a sign.
LEMMA SaneAfterWordCopies ==
  ASSUME NEW I, NEW s, IsSane(s), IsTyped(I),
         I.gik \in CopiesWords \cup {"REG:=HAVOC", "REG[REG]:=HAVOC", "REG:=SIGN_EXTEND"}
  PROVE  KeepsSane(I, s)
<1>1. I.n \in Nat /\ I.a0 \in Nat
  <2>1. I.gik \notin WithoutOperands
    BY DEF WithoutOperands, CopiesWords
  <2> QED BY <2>1, Zenon DEF IsTyped
<1>2. /\ \A a : IsWord(Read(s.reg, a, I.n), I.n)
      /\ \A a : Address(s, a) \in Int
      /\ I.a0 \in Int /\ 2 * I.n \in Nat
  BY <1>1, SaneOperands, SaneAddress
<1>3. CASE I.gik = "REG:=REG[REG]"
  <2>1. IsWord(Read(s.reg, Address(s, I.a1), I.n), I.n)
    BY <1>2
  <2>2. IsSane(ExecuteCopyFrom(I, s).cpu)
    BY <1>1, <1>2, <2>1, SaneAssigns DEF ExecuteCopyFrom
  <2>3. Execute(I, s) = Checked(I, s, ExecuteCopyFrom(I, s))
    BY <1>3, DispatchedSpecial
  <2> QED BY <2>2, <2>3, SaneChecked
<1>4. CASE I.gik = "REG[REG]:=REG"
  <2>1. IsWord(Read(s.reg, I.a1, I.n), I.n)
    BY <1>2
  <2>2. IsSane(ExecuteCopyTo(I, s).cpu)
    BY <1>1, <1>2, <2>1, SaneAssigns DEF ExecuteCopyTo
  <2>3. Execute(I, s) = Checked(I, s, ExecuteCopyTo(I, s))
    BY <1>4, DispatchedSpecial
  <2> QED BY <2>2, <2>3, SaneChecked
<1>5. CASE I.gik = "REG:=HAVOC"
  <2>1. IsWord([i \in 1..I.n |-> HavocByte], I.n)
    BY <1>1, HavocIsWord
  <2>2. IsSane(ExecuteHavoc(I, s).cpu)
    BY <1>1, <1>2, <2>1, SaneAssigns DEF ExecuteHavoc
  <2>3. Execute(I, s) = Checked(I, s, ExecuteHavoc(I, s))
    BY <1>5, DispatchedMoves
  <2> QED BY <2>2, <2>3, SaneChecked
<1>6. CASE I.gik = "REG[REG]:=HAVOC"
  <2>1. IsWord([i \in 1..I.n |-> HavocByte], I.n)
    BY <1>1, HavocIsWord
  <2>2. IsSane(ExecuteHavocAt(I, s).cpu)
    BY <1>1, <1>2, <2>1, SaneAssigns DEF ExecuteHavocAt
  <2>3. Execute(I, s) = Checked(I, s, ExecuteHavocAt(I, s))
    BY <1>6, DispatchedSpecial
  <2> QED BY <2>2, <2>3, SaneChecked
<1>7. CASE I.gik = "REG:=ZERO_EXTEND"
  <2>1. IsWord(Low(Read(s.reg, I.a1, I.n), 2 * I.n), 2 * I.n)
    BY <1>1, <1>2, ExtendedIsWord
  <2>2. IsSane(ExecuteZeroExtend(I, s).cpu)
    BY <1>1, <1>2, <2>1, SaneAssigns DEF ExecuteZeroExtend
  <2>3. Execute(I, s) = Checked(I, s, ExecuteZeroExtend(I, s))
    BY <1>7, DispatchedMoves
  <2> QED BY <2>2, <2>3, SaneChecked
<1>8. CASE I.gik = "REG:=SIGN_EXTEND"
  <2>1. IsWord(SignExtended(Read(s.reg, I.a1, I.n), 2 * I.n), 2 * I.n)
    BY <1>1, <1>2, ExtendedIsWord
  <2> DEFINE w == SignExtended(Read(s.reg, I.a1, I.n), 2 * I.n)
             step == Assigns(s, I.a0, w, << >>)
  <2>2. IsSane(step.cpu) /\ step = [cpu |-> step.cpu, io |-> << >>]
    <3> HIDE DEF w
    <3>1. IsWord(w, 2 * I.n)
      BY <2>1 DEF w
    <3> QED BY <1>2, <3>1, SaneAssigns, AssignsIs
  <2>3. ExecuteSignExtend(I, s) = [step EXCEPT !.cpu.error = "assertion"]
    BY DEF ExecuteSignExtend
  <2> HIDE DEF step, w
  <2>4. ASSUME NEW x, NEW y
        PROVE  [[cpu |-> x, io |-> y] EXCEPT !.cpu.error = "assertion"].cpu = [x EXCEPT !.error = "assertion"]
    OBVIOUS
  <2>5. ExecuteSignExtend(I, s).cpu = Fails(step.cpu, "assertion").cpu
    BY <2>2, <2>3, <2>4 DEF Fails
  <2>6. IsSane(ExecuteSignExtend(I, s).cpu)
    BY <2>2, <2>5, SaneFails
  <2>7. Execute(I, s) = Checked(I, s, ExecuteSignExtend(I, s))
    BY <1>8, DispatchedMoves
  <2> QED BY <2>6, <2>7, SaneChecked
<1> QED BY <1>3, <1>4, <1>5, <1>6, <1>7, <1>8 DEF CopiesWords

\* A byte is a word of one byte.
LEMMA OneByteIsWord ==
  ASSUME NEW b \in Byte
  PROVE  IsWord(<<b>>, 1)
BY DEF IsWord

\* A stream that is opened, one that is read and one that is written hold bytes.
LEMMA StreamsStayTexts ==
  ASSUME NEW x, IsText(x), NEW read \in BOOLEAN, NEW write \in BOOLEAN, NEW b \in Byte
  PROVE  /\ IsText([open |-> TRUE, read |-> read, write |-> write, cursor |-> 0, content |-> x.content])
         /\ ~BehindEnd(x) => /\ IsText([x EXCEPT !.cursor = @ + 1])
                             /\ ByteOf(x.content, x.cursor + 1) \in Byte
         /\ IsText([open |-> x.open, read |-> x.read, write |-> x.write, cursor |-> x.cursor + 1,
                    content |-> Overwritten(x.content, x.cursor, b)])
<1> DEFINE n == Len(x.content)
           c == x.cursor
<1>1. IsStream(x) /\ IsWord(x.content, n) /\ n \in Nat /\ c \in 0..n /\ IsSeq(x.content, n)
  BY DEF IsText, IsStream, IsWord
<1>2. IsText([open |-> TRUE, read |-> read, write |-> write, cursor |-> 0, content |-> x.content])
  BY <1>1 DEF IsText, IsStream
<1>3. ASSUME ~BehindEnd(x)
      PROVE  IsText([x EXCEPT !.cursor = @ + 1]) /\ ByteOf(x.content, x.cursor + 1) \in Byte
  <2> DEFINE o == [open |-> x.open, read |-> x.read, write |-> x.write, cursor |-> c + 1,
                   content |-> x.content]
  <2>1. [x EXCEPT !.cursor = @ + 1] = o
    BY <1>1 DEF IsStream
  <2>2. c + 1 \in 0..n
    BY <1>1, <1>3 DEF BehindEnd
  <2>3. IsText(o)
    BY <1>1, <2>2 DEF IsText, IsStream
  <2>4. ByteOf(x.content, x.cursor + 1) \in Byte
    BY <1>1, ByteOfIsByte
  <2> QED BY <2>1, <2>3, <2>4
<1>4. IsText([open |-> x.open, read |-> x.read, write |-> x.write, cursor |-> x.cursor + 1,
              content |-> Overwritten(x.content, x.cursor, b)])
  <2> DEFINE m == IF c < n THEN n ELSE n + 1
             u == Overwritten(x.content, c, b)
             o == [open |-> x.open, read |-> x.read, write |-> x.write, cursor |-> c + 1, content |-> u]
  <2>1. IsSeq(u, m) /\ \A i \in 1..m : u[i] = IF i = c + 1 THEN b ELSE x.content[i]
    <3> HIDE DEF c
    <3> QED BY <1>1, OverwrittenBytes
  <2>2. m \in Nat /\ c + 1 \in 0..m
    BY <1>1
  <2>3. \A i \in 1..m : u[i] \in Byte
    <3>1. \A i \in 1..n : x.content[i] \in Byte
      BY <1>1, WordIsSeq
    <3>2. \A i \in 1..m : i # c + 1 => i \in 1..n
      BY <1>1
    <3> HIDE DEF u, m
    <3> QED BY <2>1, <3>1, <3>2
  <2> HIDE DEF u, m
  <2>4. Len(u) = m /\ u \in [1..m -> Byte]
    BY <2>1, <2>2, <2>3, SeqFacts DEF IsSeq
  <2>5. IsText(o)
    BY <1>1, <2>1, <2>2, <2>4 DEF IsText, IsStream, IsWord
  <2> QED BY <2>5 DEF u
<1> QED BY <1>2, <1>3, <1>4

\* The instructions that allocate blocks, ...
OfMemory == {"REG:=MEM ALLOC", "REG:=MEM STATIC"}
\* ... and those on streams.
OfStreams == {"REG:=STREAM OPEN", "REG:=STREAM READ", "REG:=STREAM WRITE"}

\* Blocks that are allocated.
LEMMA SaneAfterMemory ==
  ASSUME NEW I, NEW s, IsSane(s), IsTyped(I), I.gik \in OfMemory
  PROVE  KeepsSane(I, s)
<1>1. I.a0 \in Int /\ 1 \in Nat /\ 8 \in Nat
  <2>1. I.gik \notin WithoutOperands
    BY Zenon DEF WithoutOperands, OfMemory
  <2>2. I.a0 \in Nat
    BY <2>1, Zenon DEF IsTyped
  <2> QED BY <2>2
<1>2. CASE I.gik = "REG:=MEM ALLOC"
  <2>1. IsWord(Word(Allocated, 8), 8)
    <3>1. Allocated \in Int
      BY AllocatedAssumption
    <3> QED BY <1>1, <3>1, WordIsWord
  <2>2. IsSane(ExecuteMemAlloc(I, s).cpu)
    BY <1>1, <2>1, SaneAssigns DEF ExecuteMemAlloc
  <2>3. Execute(I, s) = Checked(I, s, ExecuteMemAlloc(I, s))
    BY <1>2, DispatchedSpecial
  <2> QED BY <2>2, <2>3, SaneChecked
<1>3. CASE I.gik = "REG:=MEM STATIC"
  <2> DEFINE w == Word(IF Touched(s, I.begin, I.size) = {} THEN I.begin ELSE 0, 8)
             new == [begin |-> I.begin, size |-> I.size, read |-> I.read, write |-> I.write]
             step == Assigns(s, I.a0, w, OneToN(<< >>, InReg(I.a0, 1)))
  <2>1. ExecuteMemStatic(I, s) = step \/ ExecuteMemStatic(I, s) = [step EXCEPT !.cpu.blocks = @ \cup {new}]
    BY DEF ExecuteMemStatic
  <2>2. IsWord(w, 8)
    <3>1. I.begin \in Nat
      BY <1>3, Zenon DEF IsTyped
    <3>2. (IF Touched(s, I.begin, I.size) = {} THEN I.begin ELSE 0) \in Int
      BY <3>1
    <3> QED BY <1>1, <3>2, WordIsWord
  <2>3. IsSane(step.cpu) /\ step = [cpu |-> step.cpu, io |-> step.io]
    <3> HIDE DEF w
    <3> QED BY <1>1, <2>2, SaneAssigns, AssignsIs
  <2> HIDE DEF step, new
  <2>4. [step EXCEPT !.cpu.blocks = @ \cup {new}].cpu = [step.cpu EXCEPT !.blocks = step.cpu.blocks \cup {new}]
    <3>1. ASSUME NEW c, NEW i, NEW added
          PROVE  [[cpu |-> c, io |-> i] EXCEPT !.cpu.blocks = @ \cup {added}].cpu
                   = [c EXCEPT !.blocks = c.blocks \cup {added}]
      OBVIOUS
    <3>2. ASSUME NEW x, x = [cpu |-> x.cpu, io |-> x.io], NEW added
          PROVE  [x EXCEPT !.cpu.blocks = @ \cup {added}].cpu
                   = [x.cpu EXCEPT !.blocks = x.cpu.blocks \cup {added}]
      BY <3>1, <3>2
    <3> QED BY <2>3, <3>2
  <2>5. IsSane(ExecuteMemStatic(I, s).cpu)
    <3>1. IsSane([step.cpu EXCEPT !.blocks = step.cpu.blocks \cup {new}])
      BY <2>3, SaneBlocks
    <3> QED BY <2>1, <2>3, <2>4, <3>1
  <2>6. Execute(I, s) = Checked(I, s, ExecuteMemStatic(I, s))
    BY <1>3, DispatchedSpecial
  <2> QED BY <2>5, <2>6, SaneChecked
<1> QED BY <1>2, <1>3, Zenon DEF OfMemory

\* Streams that are opened, read and written.
LEMMA SaneAfterStreams ==
  ASSUME NEW I, NEW s, IsSane(s), IsTyped(I),
         I.gik \in OfStreams
  PROVE  KeepsSane(I, s)
<1> DEFINE id == I.stream
           x == StreamInfo(s, id)
           b == ByteAt(s.reg, I.a1)
<1>1. I.a0 \in Int /\ 1 \in Nat /\ 8 \in Nat
  <2>1. I.gik \notin WithoutOperands
    BY Zenon DEF WithoutOperands, OfStreams
  <2>2. I.a0 \in Nat
    BY <2>1, Zenon DEF IsTyped
  <2> QED BY <2>2
<1>2. IsText(x) /\ b \in Byte
  BY DEF IsSane, HasBytes
<1>3. CASE I.gik = "REG:=STREAM OPEN"
  <2> DEFINE y == [open |-> TRUE, read |-> I.mode = 1, write |-> I.mode = 2, cursor |-> 0, content |-> x.content]
             s1 == WithStream(s, id, y)
             step == Assigns(s1, I.a0, Word(id, 8), OneToN(<< >>, InReg(I.a0, 8)))
  <2>1. ExecuteStreamOpen(I, s) = step \/ \E message : ExecuteStreamOpen(I, s) = Fails(s, message)
    BY DEF ExecuteStreamOpen
  <2>2. IsText(y)
    <3>1. (I.mode = 1) \in BOOLEAN /\ (I.mode = 2) \in BOOLEAN
      OBVIOUS
    <3> HIDE DEF x, b
    <3> QED BY <1>2, <3>1, StreamsStayTexts
  <2>3. IsWord(Word(id, 8), 8)
    <3>1. id \in Nat
      BY <1>3, Zenon DEF IsTyped
    <3>2. id \in Int
      BY <3>1
    <3> QED BY <1>1, <3>2, WordIsWord
  <2>4. IsSane(step.cpu)
    <3> HIDE DEF y
    <3>1. IsSane(s1)
      BY <2>2, SaneStream
    <3> HIDE DEF s1
    <3> QED BY <1>1, <2>3, <3>1, SaneAssigns
  <2>5. IsSane(ExecuteStreamOpen(I, s).cpu)
    <3> HIDE DEF step
    <3> QED BY <2>1, <2>4, SaneFails
  <2>6. Execute(I, s) = Checked(I, s, ExecuteStreamOpen(I, s))
    BY <1>3, DispatchedSpecial
  <2> QED BY <2>5, <2>6, SaneChecked
<1>4. CASE I.gik = "REG:=STREAM READ"
  <2> DEFINE y == [x EXCEPT !.cursor = @ + 1]
             s1 == WithStream(s, id, y)
             byte == ByteOf(x.content, x.cursor + 1)
             step == Assigns(s1, I.a0, <<byte>>, OneToOne(InStream(id, x.cursor), InReg(I.a0, 1)))
  <2>1. \/ ExecuteStreamRead(I, s) = step /\ ~BehindEnd(x)
        \/ \E message : ExecuteStreamRead(I, s) = Fails(s, message)
    BY DEF ExecuteStreamRead
  <2>2. ASSUME ~BehindEnd(x) PROVE IsSane(step.cpu)
    <3>1. IsText(y) /\ byte \in Byte
      <4> HIDE DEF x, b
      <4> QED BY <1>2, <2>2, StreamsStayTexts
    <3>2. IsWord(<<byte>>, 1)
      <4> HIDE DEF byte
      <4> QED BY <3>1, OneByteIsWord
    <3> HIDE DEF y, byte
    <3>3. IsSane(s1)
      BY <3>1, SaneStream
    <3> HIDE DEF s1
    <3> QED BY <1>1, <3>2, <3>3, SaneAssigns
  <2>3. IsSane(ExecuteStreamRead(I, s).cpu)
    <3> HIDE DEF step
    <3> QED BY <2>1, <2>2, SaneFails
  <2>4. Execute(I, s) = Checked(I, s, ExecuteStreamRead(I, s))
    BY <1>4, DispatchedSpecial
  <2> QED BY <2>3, <2>4, SaneChecked
<1>5. CASE I.gik = "REG:=STREAM WRITE"
  <2> DEFINE y == [open |-> x.open, read |-> x.read, write |-> x.write, cursor |-> x.cursor + 1,
                   content |-> Overwritten(x.content, x.cursor, b)]
             s1 == WithStream(s, id, y)
             step == Assigns(s1, I.a0, <<1>>, OneToN(InReg(I.a1, 1), InStream(id, x.cursor) \o InReg(I.a0, 1)))
  <2>1. ExecuteStreamWrite(I, s) = step \/ \E message : ExecuteStreamWrite(I, s) = Fails(s, message)
    BY DEF ExecuteStreamWrite, Overwritten
  <2>2. IsText(y)
    <3> HIDE DEF x, b
    <3> QED BY <1>2, StreamsStayTexts
  <2>3. IsWord(<<1>>, 1)
    <3>1. 1 \in Byte
      BY DEF Byte
    <3> QED BY <3>1, OneByteIsWord
  <2>4. IsSane(step.cpu)
    <3> HIDE DEF y
    <3>1. IsSane(s1)
      BY <2>2, SaneStream
    <3> HIDE DEF s1
    <3> QED BY <1>1, <2>3, <3>1, SaneAssigns
  <2>5. IsSane(ExecuteStreamWrite(I, s).cpu)
    <3> HIDE DEF step
    <3> QED BY <2>1, <2>4, SaneFails
  <2>6. Execute(I, s) = Checked(I, s, ExecuteStreamWrite(I, s))
    BY <1>5, DispatchedSpecial
  <2> QED BY <2>5, <2>6, SaneChecked
<1> QED BY <1>3, <1>4, <1>5, Zenon DEF OfStreams

\* What has no operands.
LEMMA SaneAfterRest ==
  ASSUME NEW I, NEW s, IsSane(s), IsTyped(I), I.gik \in WithoutOperands \cup {"REG:=INTERRUPT"}
  PROVE  KeepsSane(I, s)
<1>1. CASE I.gik = "NOP"
  <2>1. Execute(I, s) = [cpu |-> s, io |-> << >>]
    BY <1>1, DispatchedMoves
  <2> QED BY <2>1 DEF KeepsSane
<1>2. CASE I.gik = "STOP"
  <2>1. Execute(I, s) = Fails(s, "stop")
    BY <1>2, DispatchedMoves
  <2> QED BY <2>1, SaneFails DEF KeepsSane
<1>3. CASE I.gik = "REG:=INTERRUPT"
  <2>1. Execute(I, s) = Fails(s, "not implemented")
    BY <1>3, DispatchedMoves
  <2> QED BY <2>1, SaneFails DEF KeepsSane
<1>4. CASE I.gik = "*ADDRESS:=DATA"
  <2> DEFINE n == Len(I.data)
             s1 == [s EXCEPT !.mem = Write(s.mem, I.begin, I.data)]
  <2>1. I.begin \in Int /\ IsWord(I.data, n)
    <3>1. I.begin \in Nat /\ I.data \in [1..n -> Byte] /\ n > 0
      BY <1>4, Zenon DEF IsTyped
    <3>2. I.data = [i \in 1..n |-> I.data[i]]
      BY <3>1
    <3>3. n \in Nat
      BY <3>1
    <3> QED BY <3>1, <3>3 DEF IsWord
  <2>2. IsSane(s1)
    <3> HIDE DEF n
    <3>1. n \in Nat
      BY <2>1 DEF IsWord
    <3> QED BY <2>1, <3>1, SaneStores
  <2>3. \/ \E io : Execute(I, s) = [cpu |-> s1, io |-> io]
        \/ \E message : Execute(I, s) = Fails(s, message)
    <3>1. Execute(I, s) = ExecuteDerefAddressAsgnData(I, s)
      BY <1>4, DispatchedMoves
    <3> QED BY <3>1 DEF ExecuteDerefAddressAsgnData
  <2> HIDE DEF s1
  <2> QED BY <2>2, <2>3, SaneFails DEF KeepsSane
<1> QED BY <1>1, <1>2, <1>3, <1>4 DEF WithoutOperands

\* Whatever is executed.
LEMMA EveryInstructionKeepsSane ==
  ASSUME NEW I, NEW s, IsSane(s), IsTyped(I)
  PROVE  KeepsSane(I, s)
<1>1. I.gik \in Kinds
  BY Zenon DEF IsTyped
<1>2. CASE I.gik \in CopiesBytes \cup JoinsBytes \cup {"REG:=NUMBER"}
  BY <1>2, SaneAfterCopies
<1>3. CASE I.gik \in MixesBytes
  BY <1>3, SaneAfterMixes
<1>4. CASE I.gik \in StoresIntoMem \cup {"REG:=*REG", "REG:=*INV REG"}
  BY <1>4, SaneAfterAccesses
<1>5. CASE I.gik \in CopiesWords \cup {"REG:=HAVOC", "REG[REG]:=HAVOC", "REG:=SIGN_EXTEND"}
  BY <1>5, SaneAfterWordCopies
<1>6. CASE I.gik \in OfMemory
  BY <1>6, SaneAfterMemory
<1>7. CASE I.gik \in OfStreams
  BY <1>7, SaneAfterStreams
<1>8. CASE I.gik \in WithoutOperands \cup {"REG:=INTERRUPT"}
  BY <1>8, SaneAfterRest
<1> QED BY ONLY <1>1, <1>2, <1>3, <1>4, <1>5, <1>6, <1>7, <1>8, Zenon DEF Kinds, Others, OfMemory, OfStreams

-----------------------------------------------------------------------------
(* Threads *)

\* As long as they are together, a machine that has not failed and its twin agree
\* but for what is linked.
TwinAgrees == together /\ phase # "failed" => AgreeBut(cpu, twin, impacts)

\* The pools and the streams of both machines hold bytes.
MachinesAreSane == IsSane(cpu) /\ IsSane(twin)

\* Whatever else happens to a thread, with instructions or without: its machines
\* rest, they do not come together, and a thread that has failed does not go on.
MachinesRest ==
  /\ UNCHANGED <<cpu, twin, impacts>>
  /\ together' => together
  /\ phase = "failed" => phase' = "failed"

\* Of the steps of a thread only PassInstruction touches the machines.
LEMMA OtherStepsRest ==
  ASSUME ThreadStep
  PROVE  PassInstruction \/ MachinesRest
<1>1. CASE PassGuard
  BY <1>1 DEF PassGuard, MachinesRest
<1>2. CASE PassCall
  BY <1>2 DEF PassCall, MachinesRest
<1>3. CASE EnterLoop
  BY <1>3 DEF EnterLoop, MachinesRest
<1>4. CASE LeaveLoop
  BY <1>4 DEF LeaveLoop, MachinesRest
<1>5. CASE ReachExit
  BY <1>5 DEF ReachExit, MachinesRest
<1> QED BY <1>1, <1>2, <1>3, <1>4, <1>5 DEF ThreadStep

\* Both machines execute the same instruction, if the twin executes any.
LEMMA InstructionKeepsSane ==
  ASSUME NextIsWellFormed, MachinesAreSane, PassInstruction
  PROVE  MachinesAreSane'
<1> DEFINE I == Head(code)
<1>1. /\ phase = "run" /\ code # << >> /\ IsInstruction(I)
      /\ cpu' = Execute(I, cpu).cpu
      /\ twin' = Execute(I, twin).cpu \/ twin' = twin
  BY DEF PassInstruction
<1>2. IsTyped(I)
  BY <1>1 DEF NextIsWellFormed
<1> HIDE DEF I
<1>3. KeepsSane(I, cpu) /\ KeepsSane(I, twin)
  BY <1>2, EveryInstructionKeepsSane DEF MachinesAreSane
<1> QED BY <1>1, <1>3 DEF KeepsSane, MachinesAreSane

\* Sane machines have pools of bytes.
LEMMA SaneMachinesHavePools ==
  ASSUME MachinesAreSane
  PROVE  PoolsAreBytes
<1>1. ASSUME NEW pool, HasBytes(pool) PROVE {pool[l] : l \in DOMAIN pool} \subseteq Byte
  BY <1>1 DEF HasBytes, ByteAt
<1> QED BY <1>1 DEF MachinesAreSane, IsSane, PoolsAreBytes

\* Machines that do the same are those whose addresses are the same.
LEMMA SameAddressesMean ==
  ASSUME NEW I, SameAddresses(I)
  PROVE  SameAddressWords(I, cpu, twin)
<1>1. ASSUME I.gik \in StoresIntoMem \cup WritesAtAddress PROVE SameWord(cpu, twin, I.a0)
  BY <1>1 DEF SameAddresses, SameWord, WritesAtAddress, StoresIntoMem
<1>2. ASSUME I.gik \in {"REG:=*REG", "REG:=*INV REG", "REG:=REG[REG]"} PROVE SameWord(cpu, twin, I.a1)
  BY <1>2 DEF SameAddresses, SameWord, StoresIntoMem
<1> QED BY <1>1, <1>2 DEF SameAddressWords

\* An instruction that both machines execute keeps their agreement; if the twin leaves, nothing is asked
\* any more, and if the machine fails, neither.
LEMMA InstructionKeepsTwin ==
  ASSUME NextIsWellFormed, IsSane(cpu), TwinAgrees, PassInstruction
  PROVE  TwinAgrees'
<1> DEFINE I == Head(code)
           step == Execute(I, cpu)
<1>1. phase = "run" /\ code # << >> /\ IsInstruction(I)
  BY DEF PassInstruction
<1>2. /\ cpu' = step.cpu
      /\ phase' = IF HasFailed(step) THEN "failed" ELSE "run"
      /\ together' = (together /\ SameAddresses(I))
      /\ together' /\ ~HasFailed(step) => twin' = Execute(I, twin).cpu
      /\ impacts' = Linked(step.io, impacts)
  BY DEF PassInstruction, HasFailed
<1> HIDE DEF I, step
<1>3. SUFFICES ASSUME together', phase' # "failed" PROVE AgreeBut(cpu', twin', impacts')
  BY DEF TwinAgrees
<1>4. together /\ SameAddresses(I) /\ ~HasFailed(step)
  BY <1>2, <1>3
<1>5. Ready(I, cpu, twin, impacts)
  <2>1. AgreeBut(cpu, twin, impacts)
    BY <1>1, <1>4 DEF TwinAgrees
  <2>2. HasBytes(cpu.reg)
    BY DEF IsSane
  <2>3. IsTyped(I) /\ CopiesInOrder(I, cpu)
    BY <1>1 DEF NextIsWellFormed, I
  <2> QED BY <1>4, <2>1, <2>2, <2>3, SameAddressesMean DEF Ready
<1>6. Follows(step, Execute(I, twin), impacts)
  BY <1>4, <1>5, EveryInstructionIsFollowed DEF IsFollowed, step
<1> QED BY <1>2, <1>3, <1>4, <1>6 DEF Follows

\* The two invariants, which hold together.
TwinFollows == MachinesAreSane /\ TwinAgrees

\* The invariant is inductive.
LEMMA StepKeepsTwin ==
  ASSUME NextIsWellFormed, TwinFollows, [ThreadStep \/ MachinesRest]_threadVars
  PROVE  TwinFollows'
<1>1. CASE PassInstruction
  <2>1. IsSane(cpu)
    BY DEF TwinFollows, MachinesAreSane
  <2> QED BY <1>1, <2>1, InstructionKeepsSane, InstructionKeepsTwin DEF TwinFollows
<1>2. CASE MachinesRest
  BY <1>2 DEF MachinesRest, TwinFollows, MachinesAreSane, TwinAgrees
<1>3. CASE UNCHANGED threadVars
  BY <1>3 DEF threadVars, TwinFollows, MachinesAreSane, TwinAgrees
<1> QED BY <1>1, <1>2, <1>3, OtherStepsRest

\* Agreement but for links is what the property asks for.
LEMMA AgreementCovers ==
  ASSUME TwinAgrees
  PROVE  ImpactsCoverDifferences
<1>1. SUFFICES ASSUME together, phase \in {"run", "done"}
              PROVE  /\ \A l \in DOMAIN cpu.reg \cap DOMAIN twin.reg :
                          cpu.reg[l] # twin.reg[l] => <<"reg", l>> \in impacts
                     /\ \A l \in DOMAIN cpu.mem \cap DOMAIN twin.mem :
                          cpu.mem[l] # twin.mem[l] => <<"mem", l>> \in impacts
  BY DEF ImpactsCoverDifferences
<1>2. Covers(impacts, "reg", cpu.reg, twin.reg) /\ Covers(impacts, "mem", cpu.mem, twin.mem)
  BY <1>1 DEF TwinAgrees, AgreeBut
<1> QED BY <1>2 DEF Covers, ByteAt

\* What a thread may begin with.
BeginsOn(s, input) ==
  /\ IsSane(s)
  /\ \/ input = << >>
     \/ \E l : input = <<"reg", l>> \/ input = <<"mem", l>>
     \/ \E id : \E i \in Nat : input = <<"stream", id, i>>

\* A machine agrees with itself, whatever is linked.
LEMMA AgreesWithItself ==
  ASSUME NEW s, NEW input, BeginsOn(s, input), NEW links
  PROVE  AgreeBut(s, s, links)
<1>1. \A id : StreamsAgree(links, id, StreamInfo(s, id), StreamInfo(s, id))
  BY DEF StreamsAgree, BeginsOn, IsSane, IsText
<1> QED BY <1>1 DEF AgreeBut, Covers, BeginsOn, IsSane

\* One byte of a pool differs.
LEMMA ChangedCovers ==
  ASSUME NEW p, NEW pool, NEW l
  PROVE  Covers({<<pool, l>>}, pool, p, Changed(p, l))
BY DEF Covers, Changed, ByteAt

\* One byte of a stream differs.
LEMMA ChangedStreamAgrees ==
  ASSUME NEW x, IsStream(x), NEW id, NEW i \in Nat
  PROVE  StreamsAgree({<<"stream", id, i>>}, id, x, [x EXCEPT !.content = Changed(@, i + 1)])
<1> DEFINE w == Changed(x.content, i + 1)
           y == [x EXCEPT !.content = w]
<1>1. IsSeq(x.content, Len(x.content)) /\ Len(x.content) \in Nat
  BY DEF IsStream, IsSeq
<1>2. DOMAIN x.content = 1..Len(x.content)
  BY <1>1, SeqFacts
<1>3. w = [k \in 1..Len(x.content) |-> w[k]] /\ \A k \in 1..Len(x.content) : k # i + 1 => w[k] = x.content[k]
  BY <1>2 DEF Changed
<1>4. IsSeq(w, Len(x.content))
  BY <1>1, <1>3 DEF IsSeq
<1>5. Len(w) = Len(x.content)
  BY <1>4, SeqFacts
<1> HIDE DEF w
<1>6. /\ y.open = x.open /\ y.read = x.read /\ y.write = x.write /\ y.cursor = x.cursor
      /\ y.content = w
      /\ y = [open |-> y.open, read |-> y.read, write |-> y.write, cursor |-> y.cursor, content |-> y.content]
  BY DEF IsStream
<1> HIDE DEF y
<1>7. IsStream(y)
  BY <1>4, <1>5, <1>6 DEF IsStream
<1>8. StreamsAgree({<<"stream", id, i>>}, id, x, y)
  <2>1. ASSUME NEW k \in 1..Len(x.content), x.content[k] # w[k] PROVE <<"stream", id, k - 1>> = <<"stream", id, i>>
    <3>1. k = i + 1
      BY <1>3, <2>1
    <3>2. k - 1 = i
      BY <3>1
    <3> QED BY <3>2
  <2> QED BY <1>5, <1>6, <1>7, <2>1 DEF StreamsAgree
<1> QED BY <1>8 DEF y, w

\* A machine agrees with what it is when the input is changed, but for the input.
LEMMA TwinBeginsAgreed ==
  ASSUME NEW s, NEW input, BeginsOn(s, input)
  PROVE  AgreeBut(s, WithChanged(s, input), IF input = << >> THEN {} ELSE {input})
<1> DEFINE links == {input}
<1>0. IsMachine(s)
  BY DEF BeginsOn, IsSane
<1>1. CASE input = << >>
  BY <1>1, AgreesWithItself DEF WithChanged
<1>2. ASSUME NEW l, input = <<"reg", l>> PROVE AgreeBut(s, WithChanged(s, input), links) /\ input # << >>
  <2> DEFINE t == [s EXCEPT !.reg = Changed(s.reg, l)]
  <2>1. input # << >> /\ input[1] = "reg" /\ input[2] = l
    BY <1>2
  <2>2. WithChanged(s, input) = t
    BY <2>1 DEF WithChanged
  <2>3. /\ IsMachine(t) /\ t.reg = Changed(s.reg, l) /\ t.mem = s.mem /\ t.blocks = s.blocks
        /\ t.streams = s.streams
    BY <1>0 DEF IsMachine
  <2> HIDE DEF t
  <2>4. Covers(links, "reg", s.reg, t.reg)
    BY <1>2, <2>3, ChangedCovers
  <2>5. \A id : StreamInfo(t, id) = StreamInfo(s, id)
    BY <2>3 DEF StreamInfo
  <2>6. AgreeBut(s, s, links)
    BY AgreesWithItself
  <2>7. AgreeBut(s, t, links)
    BY <2>3, <2>4, <2>5, <2>6 DEF AgreeBut
  <2> QED BY <2>1, <2>2, <2>7
<1>3. ASSUME NEW l, input = <<"mem", l>> PROVE AgreeBut(s, WithChanged(s, input), links) /\ input # << >>
  <2> DEFINE t == [s EXCEPT !.mem = Changed(s.mem, l)]
  <2>1. input # << >> /\ input[1] = "mem" /\ input[2] = l
    BY <1>3
  <2>2. WithChanged(s, input) = t
    BY <2>1 DEF WithChanged
  <2>3. /\ IsMachine(t) /\ t.mem = Changed(s.mem, l) /\ t.reg = s.reg /\ t.blocks = s.blocks
        /\ t.streams = s.streams
    BY <1>0 DEF IsMachine
  <2> HIDE DEF t
  <2>4. Covers(links, "mem", s.mem, t.mem)
    BY <1>3, <2>3, ChangedCovers
  <2>5. \A id : StreamInfo(t, id) = StreamInfo(s, id)
    BY <2>3 DEF StreamInfo
  <2>6. AgreeBut(s, s, links)
    BY AgreesWithItself
  <2>7. AgreeBut(s, t, links)
    BY <2>3, <2>4, <2>5, <2>6 DEF AgreeBut
  <2> QED BY <2>1, <2>2, <2>7
<1>4. ASSUME NEW id, NEW i \in Nat, input = <<"stream", id, i>>
      PROVE  AgreeBut(s, WithChanged(s, input), links) /\ input # << >>
  <2> DEFINE x == s.streams[id]
             y == [x EXCEPT !.content = Changed(@, i + 1)]
             streams == [s.streams EXCEPT ![id] = y]
             t == [s EXCEPT !.streams = streams]
  <2>1. input # << >> /\ input[1] = "stream" /\ input[2] = id /\ input[3] = i
    BY <1>4
  <2>2. WithChanged(s, input) = [s EXCEPT !.streams[id].content = Changed(@, i + 1)]
    BY <2>1 DEF WithChanged
  <2>3. [s EXCEPT !.streams[id].content = Changed(@, i + 1)] = t
    OBVIOUS
  <2> HIDE DEF y
  <2>4. /\ IsMachine(t) /\ t.mem = s.mem /\ t.reg = s.reg /\ t.blocks = s.blocks /\ t.streams = streams
    BY <1>0 DEF IsMachine
  <2> HIDE DEF t
  <2>5. AgreeBut(s, s, links)
    BY AgreesWithItself
  <2>6. ASSUME NEW other PROVE StreamsAgree(links, other, StreamInfo(s, other), StreamInfo(t, other))
    <3>1. CASE other # id \/ other \notin DOMAIN s.streams
      <4>1. StreamInfo(t, other) = StreamInfo(s, other)
        BY <2>4, <3>1 DEF StreamInfo
      <4> QED BY <2>5, <4>1 DEF AgreeBut
    <3>2. CASE other = id /\ other \in DOMAIN s.streams
      <4>1. StreamInfo(t, other) = y /\ StreamInfo(s, other) = x
        BY <2>4, <3>2 DEF StreamInfo
      <4>2. IsStream(x)
        BY <4>1 DEF BeginsOn, IsSane, IsText
      <4>3. StreamsAgree({<<"stream", id, i>>}, id, x, y)
        BY <4>2, ChangedStreamAgrees DEF y
      <4> QED BY <1>4, <3>2, <4>1, <4>3
    <3> QED BY <3>1, <3>2
  <2>7. AgreeBut(s, t, links)
    BY <2>4, <2>5, <2>6 DEF AgreeBut
  <2> QED BY <2>1, <2>2, <2>3, <2>7
<1>5. \/ input = << >>
      \/ \E l : input = <<"reg", l>> \/ input = <<"mem", l>>
      \/ \E id : \E i \in Nat : input = <<"stream", id, i>>
  BY DEF BeginsOn
<1>6. CASE input # << >>
  <2>1. AgreeBut(s, WithChanged(s, input), links)
    BY ONLY <1>2, <1>3, <1>4, <1>5, <1>6
  <2> QED BY <1>6, <2>1
<1> QED BY <1>1, <1>6

\* The changed byte of a pool is a byte.
LEMMA ChangedHasBytes ==
  ASSUME NEW pool, HasBytes(pool), NEW l
  PROVE  HasBytes(Changed(pool, l))
<1> SUFFICES ASSUME NEW k PROVE ByteAt(Changed(pool, l), k) \in Byte
  BY DEF HasBytes
<1>1. ByteAt(pool, k) \in Byte
  BY DEF HasBytes
<1>2. /\ DOMAIN Changed(pool, l) = DOMAIN pool
      /\ k \in DOMAIN pool => Changed(pool, l)[k] = IF k = l THEN (pool[k] + 1) % 256 ELSE pool[k]
  BY DEF Changed
<1>3. CASE k \in DOMAIN pool
  <2>1. pool[k] \in Byte
    BY <1>1, <1>3 DEF ByteAt
  <2>2. (pool[k] + 1) % 256 \in Byte
    BY <2>1 DEF Byte
  <2> QED BY <1>2, <1>3, <2>1, <2>2 DEF ByteAt
<1>4. CASE k \notin DOMAIN pool
  BY <1>1, <1>2, <1>4 DEF ByteAt
<1> QED BY <1>3, <1>4

\* So is the changed byte of a stream.
LEMMA ChangedStaysText ==
  ASSUME NEW x, IsText(x), NEW k \in Nat
  PROVE  IsText([x EXCEPT !.content = Changed(@, k)])
<1> DEFINE n == Len(x.content)
           w == Changed(x.content, k)
           y == [x EXCEPT !.content = w]
<1>1. IsStream(x) /\ n \in Nat /\ x.content \in [1..n -> Byte]
  BY DEF IsText, IsWord
<1>2. w \in [1..n -> Byte]
  <2>1. ASSUME NEW b \in Byte PROVE (b + 1) % 256 \in Byte
    BY <2>1 DEF Byte
  <2> HIDE DEF n
  <2> QED BY <1>1, <2>1 DEF Changed
<1>3. IsSeq(w, n) /\ Len(w) = n
  BY <1>1, <1>2, SeqFacts DEF IsSeq
<1> HIDE DEF w
<1>4. /\ y.cursor = x.cursor /\ y.content = w
      /\ y = [open |-> y.open, read |-> y.read, write |-> y.write, cursor |-> y.cursor, content |-> y.content]
  BY <1>1 DEF IsStream
<1> HIDE DEF y
<1>5. IsText(y)
  BY <1>1, <1>2, <1>3, <1>4 DEF IsText, IsStream, IsWord
<1> QED BY <1>5 DEF y, w

\* The twin begins sane.
LEMMA TwinBeginsSane ==
  ASSUME NEW s, NEW input, BeginsOn(s, input)
  PROVE  IsSane(WithChanged(s, input))
<1>1. IsSane(s)
  BY DEF BeginsOn
<1>2. CASE input = << >>
  BY <1>1, <1>2 DEF WithChanged
<1>3. ASSUME NEW l, input = <<"reg", l>> PROVE IsSane(WithChanged(s, input))
  <2> DEFINE pool == Changed(s.reg, l)
             t == [s EXCEPT !.reg = pool]
  <2>1. input # << >> /\ input[1] = "reg" /\ input[2] = l
    BY <1>3
  <2>2. WithChanged(s, input) = t
    BY <2>1 DEF WithChanged
  <2>3. HasBytes(pool)
    BY <1>1, ChangedHasBytes DEF IsSane
  <2> HIDE DEF pool
  <2>4. IsMachine(t) /\ t.reg = pool /\ t.mem = s.mem /\ t.streams = s.streams
    BY <1>1 DEF IsSane, IsMachine
  <2> HIDE DEF t
  <2>5. \A id : StreamInfo(t, id) = StreamInfo(s, id)
    BY <2>4 DEF StreamInfo
  <2> QED BY <1>1, <2>2, <2>3, <2>4, <2>5 DEF IsSane
<1>4. ASSUME NEW l, input = <<"mem", l>> PROVE IsSane(WithChanged(s, input))
  <2> DEFINE pool == Changed(s.mem, l)
             t == [s EXCEPT !.mem = pool]
  <2>1. input # << >> /\ input[1] = "mem" /\ input[2] = l
    BY <1>4
  <2>2. WithChanged(s, input) = t
    BY <2>1 DEF WithChanged
  <2>3. HasBytes(pool)
    BY <1>1, ChangedHasBytes DEF IsSane
  <2> HIDE DEF pool
  <2>4. IsMachine(t) /\ t.mem = pool /\ t.reg = s.reg /\ t.streams = s.streams
    BY <1>1 DEF IsSane, IsMachine
  <2> HIDE DEF t
  <2>5. \A id : StreamInfo(t, id) = StreamInfo(s, id)
    BY <2>4 DEF StreamInfo
  <2> QED BY <1>1, <2>2, <2>3, <2>4, <2>5 DEF IsSane
<1>5. ASSUME NEW id, NEW i \in Nat, input = <<"stream", id, i>> PROVE IsSane(WithChanged(s, input))
  <2> DEFINE x == s.streams[id]
             y == [x EXCEPT !.content = Changed(@, i + 1)]
             streams == [s.streams EXCEPT ![id] = y]
             t == [s EXCEPT !.streams = streams]
  <2>1. input # << >> /\ input[1] = "stream" /\ input[2] = id /\ input[3] = i
    BY <1>5
  <2>2. WithChanged(s, input) = [s EXCEPT !.streams[id].content = Changed(@, i + 1)]
    BY <2>1 DEF WithChanged
  <2>3. [s EXCEPT !.streams[id].content = Changed(@, i + 1)] = t
    OBVIOUS
  <2> HIDE DEF y
  <2>4. IsMachine(t) /\ t.reg = s.reg /\ t.mem = s.mem /\ t.streams = streams
    BY <1>1 DEF IsSane, IsMachine
  <2> HIDE DEF t
  <2>5. ASSUME NEW other PROVE IsText(StreamInfo(t, other))
    <3>1. CASE other = id /\ other \in DOMAIN s.streams
      <4>1. StreamInfo(t, other) = y /\ StreamInfo(s, other) = x
        BY <2>4, <3>1 DEF StreamInfo
      <4>2. IsText(x)
        BY <1>1, <4>1 DEF IsSane
      <4>3. i + 1 \in Nat
        OBVIOUS
      <4>4. IsText(y)
        BY <4>2, <4>3, ChangedStaysText DEF y
      <4> QED BY <4>1, <4>4
    <3>2. CASE other # id \/ other \notin DOMAIN s.streams
      <4>1. StreamInfo(t, other) = StreamInfo(s, other)
        BY <2>4, <3>2 DEF StreamInfo
      <4> QED BY <1>1, <4>1 DEF IsSane
    <3> QED BY <3>1, <3>2
  <2> QED BY <1>1, <2>2, <2>3, <2>4, <2>5 DEF IsSane
<1>6. \/ input = << >>
      \/ \E l : input = <<"reg", l>> \/ input = <<"mem", l>>
      \/ \E id : \E i \in Nat : input = <<"stream", id, i>>
  BY DEF BeginsOn
<1> QED BY ONLY <1>2, <1>3, <1>4, <1>5, <1>6

-----------------------------------------------------------------------------
(* Memory lies in blocks *)

\* A machine keeps its memory and its blocks.
RestsOn(s, t) == t.mem = s.mem /\ t.blocks = s.blocks

\* Whatever is assigned to registers, ...
LEMMA AssignsRests ==
  ASSUME NEW s, IsMachine(s), NEW a, NEW w, NEW io
  PROVE  RestsOn(s, Assigns(s, a, w, io).cpu)
<1> DEFINE pool == Write(s.reg, a, w)
           s1 == [s EXCEPT !.reg = pool]
<1>1. Assigns(s, a, w, io).cpu = s1
  BY AssignsIs
<1> HIDE DEF pool
<1>2. s1.mem = s.mem /\ s1.blocks = s.blocks
  BY DEF IsMachine
<1> QED BY <1>1, <1>2 DEF RestsOn

\* ... a failure, ...
LEMMA FailsRests ==
  ASSUME NEW s, IsMachine(s), NEW message
  PROVE  RestsOn(s, Fails(s, message).cpu)
<1>1. Fails(s, message).cpu = [s EXCEPT !.error = message]
  BY DEF Fails
<1> QED BY <1>1 DEF IsMachine, RestsOn

\* ... and what happens to a stream leave memory alone.
LEMMA StreamRests ==
  ASSUME NEW s, IsMachine(s), NEW id, NEW info, NEW a, NEW w, NEW io
  PROVE  RestsOn(s, Assigns(WithStream(s, id, info), a, w, io).cpu)
<1> DEFINE s1 == WithStream(s, id, info)
<1>1. IsMachine(s1) /\ RestsOn(s, s1)
  BY WithStreamIs DEF RestsOn
<1> HIDE DEF s1
<1>2. RestsOn(s1, Assigns(s1, a, w, io).cpu)
  BY <1>1, AssignsRests
<1>3. RestsOn(s, Assigns(s1, a, w, io).cpu)
  BY <1>1, <1>2 DEF RestsOn
<1> QED BY <1>3 DEF s1

\* The instructions that write into memory or allocate a block.
TouchMemory == StoresIntoMem \cup {"*ADDRESS:=DATA", "REG:=MEM STATIC"}

\* The operator that executes an instruction leaves them alone, so the instruction does.
LEMMA CheckedRests ==
  ASSUME NEW I, NEW s, IsMachine(s), NEW step, RestsOn(s, step.cpu), Execute(I, s) = Checked(I, s, step)
  PROVE  RestsOn(s, Execute(I, s).cpu)
BY FailsRests DEF Checked

\* All others leave memory and blocks alone: moves and bitwise operations, ...
LEMMA CopiesRest ==
  ASSUME NEW I, NEW s, IsMachine(s), I.gik \in CopiesBytes \cup JoinsBytes \cup {"REG:=NUMBER"}
  PROVE  RestsOn(s, Execute(I, s).cpu)
<1>1. /\ RestsOn(s, ExecuteRegAsgnNumber(I, s).cpu) /\ RestsOn(s, ExecuteRegAsgnReg(I, s).cpu)
      /\ RestsOn(s, ExecuteAndNumber(I, s).cpu) /\ RestsOn(s, ExecuteAndReg(I, s).cpu)
      /\ RestsOn(s, ExecuteOrNumber(I, s).cpu) /\ RestsOn(s, ExecuteOrReg(I, s).cpu)
      /\ RestsOn(s, ExecuteNotReg(I, s).cpu) /\ RestsOn(s, ExecuteXorReg(I, s).cpu)
  BY AssignsRests DEF ExecuteRegAsgnNumber, ExecuteRegAsgnReg, ExecuteAndNumber, ExecuteAndReg,
     ExecuteOrNumber, ExecuteOrReg, ExecuteNotReg, ExecuteXorReg
<1>2. CASE I.gik = "REG:=NUMBER"
  <2>1. Execute(I, s) = Checked(I, s, ExecuteRegAsgnNumber(I, s))
    BY <1>2, DispatchedMoves
  <2> QED BY <1>1, <2>1, CheckedRests
<1>3. CASE I.gik = "REG:=REG"
  <2>1. Execute(I, s) = Checked(I, s, ExecuteRegAsgnReg(I, s))
    BY <1>3, DispatchedMoves
  <2> QED BY <1>1, <2>1, CheckedRests
<1>4. CASE I.gik = "REG:=REG&NUMBER"
  <2>1. Execute(I, s) = Checked(I, s, ExecuteAndNumber(I, s))
    BY <1>4, DispatchedBitwise
  <2> QED BY <1>1, <2>1, CheckedRests
<1>5. CASE I.gik = "REG:=REG&REG"
  <2>1. Execute(I, s) = Checked(I, s, ExecuteAndReg(I, s))
    BY <1>5, DispatchedBitwise
  <2> QED BY <1>1, <2>1, CheckedRests
<1>6. CASE I.gik = "REG:=REG|NUMBER"
  <2>1. Execute(I, s) = Checked(I, s, ExecuteOrNumber(I, s))
    BY <1>6, DispatchedBitwise
  <2> QED BY <1>1, <2>1, CheckedRests
<1>7. CASE I.gik = "REG:=REG|REG"
  <2>1. Execute(I, s) = Checked(I, s, ExecuteOrReg(I, s))
    BY <1>7, DispatchedBitwise
  <2> QED BY <1>1, <2>1, CheckedRests
<1>8. CASE I.gik = "REG:=~REG"
  <2>1. Execute(I, s) = Checked(I, s, ExecuteNotReg(I, s))
    BY <1>8, DispatchedBitwise
  <2> QED BY <1>1, <2>1, CheckedRests
<1>9. CASE I.gik = "REG:=REG^REG"
  <2>1. Execute(I, s) = Checked(I, s, ExecuteXorReg(I, s))
    BY <1>9, DispatchedBitwise
  <2> QED BY <1>1, <2>1, CheckedRests
<1> QED BY <1>2, <1>3, <1>4, <1>5, <1>6, <1>7, <1>8, <1>9 DEF CopiesBytes, JoinsBytes

\* ... arithmetic and shifts, ...
LEMMA MixesRest ==
  ASSUME NEW I, NEW s, IsMachine(s), I.gik \in MixesBytes
  PROVE  RestsOn(s, Execute(I, s).cpu)
<1>1. ASSUME NEW w, NEW operands PROVE RestsOn(s, Mixes(I, s, w, operands).cpu)
  BY AssignsRests DEF Mixes
<1>2. /\ RestsOn(s, ExecutePlusNumber(I, s).cpu) /\ RestsOn(s, ExecutePlusReg(I, s).cpu)
      /\ RestsOn(s, ExecuteTimesNumber(I, s).cpu) /\ RestsOn(s, ExecuteEqualToZero(I, s).cpu)
      /\ RestsOn(s, ExecuteParityReg(I, s).cpu)
      /\ RestsOn(s, ExecuteRShiftNumber(I, s).cpu) /\ RestsOn(s, ExecuteLShiftNumber(I, s).cpu)
      /\ RestsOn(s, ExecuteRShiftReg(I, s).cpu) /\ RestsOn(s, ExecuteLShiftReg(I, s).cpu)
  BY <1>1 DEF ExecutePlusNumber, ExecutePlusReg, ExecuteTimesNumber, ExecuteEqualToZero, ExecuteParityReg,
     ExecuteRShiftNumber, ExecuteLShiftNumber, ExecuteRShiftReg, ExecuteLShiftReg
<1>3. RestsOn(s, ExecuteDivideReg(I, s).cpu) /\ RestsOn(s, ExecuteModuloReg(I, s).cpu)
  BY <1>1, FailsRests DEF ExecuteDivideReg, ExecuteModuloReg
<1>4. \E step : RestsOn(s, step.cpu) /\ Execute(I, s) = Checked(I, s, step)
  BY <1>2, <1>3, DispatchedArithmetic, DispatchedBitwise DEF MixesBytes
<1> QED BY <1>4, FailsRests DEF Checked

\* ... copies of words, loads, havoc, MEM ALLOC, streams, and the rest.
LEMMA OthersRest ==
  ASSUME NEW I, NEW s, IsMachine(s),
         I.gik \in (CopiesWords \cup Others \cup {"NOP", "STOP"}) \ (TouchMemory \cup {"REG:=NUMBER", "REG:=SIGN_EXTEND"})
  PROVE  RestsOn(s, Execute(I, s).cpu)
<1>1. ASSUME NEW w, NEW from PROVE RestsOn(s, Loads(I, s, w, from).cpu)
  BY AssignsRests, FailsRests DEF Loads
<1>2. /\ RestsOn(s, ExecuteZeroExtend(I, s).cpu) /\ RestsOn(s, ExecuteCopyFrom(I, s).cpu)
      /\ RestsOn(s, ExecuteCopyTo(I, s).cpu) /\ RestsOn(s, ExecuteHavoc(I, s).cpu)
      /\ RestsOn(s, ExecuteHavocAt(I, s).cpu) /\ RestsOn(s, ExecuteMemAlloc(I, s).cpu)
  BY AssignsRests DEF ExecuteZeroExtend, ExecuteCopyFrom, ExecuteCopyTo, ExecuteHavoc, ExecuteHavocAt,
     ExecuteMemAlloc
<1>3. RestsOn(s, ExecuteRegAsgnDeref(I, s).cpu) /\ RestsOn(s, ExecuteRegAsgnDerefInv(I, s).cpu)
  BY <1>1 DEF ExecuteRegAsgnDeref, ExecuteRegAsgnDerefInv
<1>4. RestsOn(s, ExecuteStreamOpen(I, s).cpu)
  BY StreamRests, FailsRests DEF ExecuteStreamOpen
<1>5. RestsOn(s, ExecuteStreamRead(I, s).cpu)
  BY StreamRests, FailsRests DEF ExecuteStreamRead
<1>6. RestsOn(s, ExecuteStreamWrite(I, s).cpu)
  BY StreamRests, FailsRests DEF ExecuteStreamWrite
<1>7. CASE I.gik = "NOP"
  <2> DEFINE step == [cpu |-> s, io |-> << >>]
  <2>1. Execute(I, s) = step
    BY <1>7, DispatchedMoves
  <2>2. step.cpu = s
    OBVIOUS
  <2> QED BY <2>1, <2>2 DEF RestsOn
<1>8. CASE I.gik = "STOP"
  <2>1. Execute(I, s) = Fails(s, "stop")
    BY <1>8, DispatchedMoves
  <2> QED BY <2>1, FailsRests
<1>9. CASE I.gik = "REG:=INTERRUPT"
  <2>1. Execute(I, s) = Fails(s, "not implemented")
    BY <1>9, DispatchedMoves
  <2> QED BY <2>1, FailsRests
<1>10. CASE I.gik = "REG:=ZERO_EXTEND"
  <2>1. Execute(I, s) = Checked(I, s, ExecuteZeroExtend(I, s))
    BY <1>10, DispatchedMoves
  <2> QED BY <1>2, <2>1, CheckedRests
<1>11. CASE I.gik = "REG:=REG[REG]"
  <2>1. Execute(I, s) = Checked(I, s, ExecuteCopyFrom(I, s))
    BY <1>11, DispatchedSpecial
  <2> QED BY <1>2, <2>1, CheckedRests
<1>12. CASE I.gik = "REG[REG]:=REG"
  <2>1. Execute(I, s) = Checked(I, s, ExecuteCopyTo(I, s))
    BY <1>12, DispatchedSpecial
  <2> QED BY <1>2, <2>1, CheckedRests
<1>13. CASE I.gik = "REG:=HAVOC"
  <2>1. Execute(I, s) = Checked(I, s, ExecuteHavoc(I, s))
    BY <1>13, DispatchedMoves
  <2> QED BY <1>2, <2>1, CheckedRests
<1>14. CASE I.gik = "REG[REG]:=HAVOC"
  <2>1. Execute(I, s) = Checked(I, s, ExecuteHavocAt(I, s))
    BY <1>14, DispatchedSpecial
  <2> QED BY <1>2, <2>1, CheckedRests
<1>15. CASE I.gik = "REG:=MEM ALLOC"
  <2>1. Execute(I, s) = Checked(I, s, ExecuteMemAlloc(I, s))
    BY <1>15, DispatchedSpecial
  <2> QED BY <1>2, <2>1, CheckedRests
<1>16. CASE I.gik = "REG:=*REG"
  <2>1. Execute(I, s) = Checked(I, s, ExecuteRegAsgnDeref(I, s))
    BY <1>16, DispatchedMoves
  <2> QED BY <1>3, <2>1, CheckedRests
<1>17. CASE I.gik = "REG:=*INV REG"
  <2>1. Execute(I, s) = Checked(I, s, ExecuteRegAsgnDerefInv(I, s))
    BY <1>17, DispatchedMoves
  <2> QED BY <1>3, <2>1, CheckedRests
<1>18. CASE I.gik = "REG:=STREAM OPEN"
  <2>1. Execute(I, s) = Checked(I, s, ExecuteStreamOpen(I, s))
    BY <1>18, DispatchedSpecial
  <2> QED BY <1>4, <2>1, CheckedRests
<1>19. CASE I.gik = "REG:=STREAM READ"
  <2>1. Execute(I, s) = Checked(I, s, ExecuteStreamRead(I, s))
    BY <1>19, DispatchedSpecial
  <2> QED BY <1>5, <2>1, CheckedRests
<1>20. CASE I.gik = "REG:=STREAM WRITE"
  <2>1. Execute(I, s) = Checked(I, s, ExecuteStreamWrite(I, s))
    BY <1>20, DispatchedSpecial
  <2> QED BY <1>6, <2>1, CheckedRests
<1> QED BY <1>7, <1>8, <1>9, <1>10, <1>11, <1>12, <1>13, <1>14, <1>15, <1>16, <1>17, <1>18, <1>19, <1>20
       DEF CopiesWords, Others, TouchMemory, StoresIntoMem

\* A sign is extended before the assertion fails.
LEMMA SignExtendRests ==
  ASSUME NEW I, NEW s, IsMachine(s), I.gik = "REG:=SIGN_EXTEND"
  PROVE  RestsOn(s, Execute(I, s).cpu)
<1> DEFINE w == SignExtended(Read(s.reg, I.a1, I.n), 2 * I.n)
           c == [s EXCEPT !.reg = Write(s.reg, I.a0, w)]
<1>1. Assigns(s, I.a0, w, << >>) = [cpu |-> c, io |-> << >>]
  BY AssignsIs
<1>2. RestsOn(s, c) /\ IsMachine(c)
  BY DEF IsMachine, RestsOn
<1> HIDE DEF c
<1>3. ASSUME NEW x, NEW y
      PROVE  [[cpu |-> x, io |-> y] EXCEPT !.cpu.error = "assertion"].cpu = [x EXCEPT !.error = "assertion"]
  OBVIOUS
<1>4. ExecuteSignExtend(I, s).cpu = [c EXCEPT !.error = "assertion"]
  BY <1>1, <1>3 DEF ExecuteSignExtend
<1>5. RestsOn(s, [c EXCEPT !.error = "assertion"])
  BY <1>2 DEF RestsOn, IsMachine
<1>6. Execute(I, s) = Checked(I, s, ExecuteSignExtend(I, s))
  BY DispatchedMoves
<1> QED BY <1>4, <1>5, <1>6, FailsRests DEF Checked

\* So no instruction but these touches memory.
LEMMA OnlyTheseTouchMemory ==
  ASSUME NEW I, NEW s, IsMachine(s), IsTyped(I), I.gik \notin TouchMemory
  PROVE  RestsOn(s, Execute(I, s).cpu)
<1>1. I.gik \in Kinds
  BY Zenon DEF IsTyped
<1>2. CASE I.gik \in CopiesBytes \cup JoinsBytes \cup {"REG:=NUMBER"}
  BY <1>2, CopiesRest
<1>3. CASE I.gik \in MixesBytes
  BY <1>3, MixesRest
<1>4. CASE I.gik = "REG:=SIGN_EXTEND"
  BY <1>4, SignExtendRests
<1>5. CASE I.gik \in (CopiesWords \cup Others \cup {"NOP", "STOP"}) \ (TouchMemory \cup {"REG:=NUMBER", "REG:=SIGN_EXTEND"})
  BY <1>5, OthersRest
<1> QED BY <1>1, <1>2, <1>3, <1>4, <1>5 DEF Kinds, WithoutOperands, TouchMemory

\* Every location of the MEM pool that is used lies in a block.
MemoryInBlocks(s) == \A l \in DOMAIN s.mem : \E b \in s.blocks : l \in Block(b.begin, b.size)

\* A store ends in a block.
StaysInBlocks(I, s) ==
  I.gik \in StoresIntoMem \cup {"*ADDRESS:=DATA"} =>
    LET first == StoresAt(I, s)[1]
        n == StoresAt(I, s)[2]
    IN  Allowed(s, first, n, s.blocks) =>
          \A l \in Block(first, n) : \E b \in s.blocks : l \in Block(b.begin, b.size)

\* A word that is written where it may be lies in blocks.
LEMMA WriteStaysInBlocks ==
  ASSUME NEW s, IsMachine(s), MemoryInBlocks(s), NEW a, NEW n \in Nat, NEW w, Len(w) = n,
         \A l \in Block(a, n) : \E b \in s.blocks : l \in Block(b.begin, b.size)
  PROVE  MemoryInBlocks([s EXCEPT !.mem = Write(s.mem, a, w)])
<1> DEFINE pool == Write(s.mem, a, w)
           s1 == [s EXCEPT !.mem = pool]
<1>1. DOMAIN pool = Block(a, n) \cup DOMAIN s.mem
  BY DEF Write, Block
<1> HIDE DEF pool
<1>2. s1.mem = pool /\ s1.blocks = s.blocks
  BY DEF IsMachine
<1> HIDE DEF s1
<1>3. MemoryInBlocks(s1)
  BY <1>1, <1>2 DEF MemoryInBlocks
<1> QED BY <1>3 DEF s1, pool

\* What rests on a machine stays in blocks.
LEMMA RestingStaysInBlocks ==
  ASSUME NEW s, NEW t, RestsOn(s, t), MemoryInBlocks(s)
  PROVE  MemoryInBlocks(t)
BY DEF RestsOn, MemoryInBlocks

\* To allow an access is to allow it in all blocks, read-only or not.
LEMMA AllowedInAllBlocks ==
  ASSUME NEW s, NEW a, NEW n, Allowed(s, a, n, Writable(s))
  PROVE  Allowed(s, a, n, s.blocks)
<1>1. Touched(s, a, n) \subseteq s.blocks
  BY DEF Touched
<1> QED BY <1>1 DEF Allowed

\* A word is stored.
LEMMA StoringStaysInBlocks ==
  ASSUME NEW I, NEW s, IsMachine(s), MemoryInBlocks(s), I.gik \in StoresIntoMem, StaysInBlocks(I, s),
         I.n \in Nat, NEW w, Len(w) = I.n, NEW io
  PROVE  MemoryInBlocks(Stores(I, s, w, io).cpu)
<1> DEFINE adr == Address(s, I.a0)
           s1 == [s EXCEPT !.mem = Write(s.mem, adr, w)]
<1>1. StoresAt(I, s) = <<adr, I.n>>
  BY DEF StoresAt, StoresIntoMem
<1> HIDE DEF adr
<1>2. CASE Allowed(s, adr, I.n, Writable(s))
  <2>1. \A l \in Block(adr, I.n) : \E b \in s.blocks : l \in Block(b.begin, b.size)
    BY <1>1, <1>2, AllowedInAllBlocks DEF StaysInBlocks
  <2>2. MemoryInBlocks(s1)
    BY <2>1, WriteStaysInBlocks
  <2> HIDE DEF s1
  <2>3. Stores(I, s, w, io) = [cpu |-> s1, io |-> io]
    BY <1>2 DEF Stores, adr, s1
  <2> QED BY <2>2, <2>3
<1>3. CASE ~Allowed(s, adr, I.n, Writable(s))
  <2>1. Stores(I, s, w, io) = Fails(s, "not writable memory")
    BY <1>3 DEF Stores, adr
  <2> QED BY <2>1, FailsRests, RestingStaysInBlocks
<1> QED BY <1>2, <1>3

\* Data are stored.
LEMMA DataStayInBlocks ==
  ASSUME NEW I, NEW s, IsMachine(s), MemoryInBlocks(s), I.gik = "*ADDRESS:=DATA", StaysInBlocks(I, s),
         IsTyped(I)
  PROVE  MemoryInBlocks(ExecuteDerefAddressAsgnData(I, s).cpu)
<1> DEFINE n == Len(I.data)
           s1 == [s EXCEPT !.mem = Write(s.mem, I.begin, I.data)]
           relation == <<<<<<"mem", I.begin>>, {}>>>>
<1>1. StoresAt(I, s) = <<I.begin, n>>
  BY DEF StoresAt
<1>2. n \in Nat
  <2>1. I.data \in [1..n -> Byte] /\ n > 0
    BY Zenon DEF IsTyped
  <2>2. n \in Nat
    BY <2>1
  <2> QED BY <2>2
<1> HIDE DEF n
<1>3. CASE Allowed(s, I.begin, n, s.blocks)
  <2>1. \A l \in Block(I.begin, n) : \E b \in s.blocks : l \in Block(b.begin, b.size)
    BY <1>1, <1>3 DEF StaysInBlocks
  <2>2. MemoryInBlocks(s1)
    BY <1>2, <2>1, WriteStaysInBlocks DEF n
  <2> HIDE DEF s1
  <2>3. ExecuteDerefAddressAsgnData(I, s) = [cpu |-> s1, io |-> relation]
    BY <1>3 DEF ExecuteDerefAddressAsgnData, n, s1
  <2> HIDE DEF relation
  <2> QED BY <2>2, <2>3
<1>4. CASE ~Allowed(s, I.begin, n, s.blocks)
  <2>1. ExecuteDerefAddressAsgnData(I, s) = Fails(s, "not allocated memory")
    BY <1>4 DEF ExecuteDerefAddressAsgnData, n
  <2> QED BY <2>1, FailsRests, RestingStaysInBlocks
<1> QED BY <1>3, <1>4

\* A block is entered.
LEMMA BlockStaysInBlocks ==
  ASSUME NEW I, NEW s, IsMachine(s), MemoryInBlocks(s)
  PROVE  MemoryInBlocks(ExecuteMemStatic(I, s).cpu)
<1> DEFINE w == Word(IF Touched(s, I.begin, I.size) = {} THEN I.begin ELSE 0, 8)
           new == [begin |-> I.begin, size |-> I.size, read |-> I.read, write |-> I.write]
           step == Assigns(s, I.a0, w, OneToN(<< >>, InReg(I.a0, 1)))
<1>1. ExecuteMemStatic(I, s) = step \/ ExecuteMemStatic(I, s) = [step EXCEPT !.cpu.blocks = @ \cup {new}]
  BY DEF ExecuteMemStatic
<1>2. RestsOn(s, step.cpu) /\ step = [cpu |-> step.cpu, io |-> step.io]
  <2> HIDE DEF w
  <2> QED BY AssignsRests, AssignsIs
<1>3. IsMachine(step.cpu)
  <2> DEFINE pool == Write(s.reg, I.a0, w)
             c == [s EXCEPT !.reg = pool]
  <2>1. step.cpu = c
    <3> HIDE DEF w
    <3> QED BY AssignsIs
  <2> HIDE DEF pool
  <2>2. IsMachine(c)
    BY DEF IsMachine
  <2> HIDE DEF c, step
  <2> QED BY <2>1, <2>2
<1> HIDE DEF step, new
<1>4. [step EXCEPT !.cpu.blocks = @ \cup {new}].cpu = [step.cpu EXCEPT !.blocks = step.cpu.blocks \cup {new}]
  <2>1. ASSUME NEW c, NEW i, NEW added
        PROVE  [[cpu |-> c, io |-> i] EXCEPT !.cpu.blocks = @ \cup {added}].cpu
                 = [c EXCEPT !.blocks = c.blocks \cup {added}]
    OBVIOUS
  <2>2. ASSUME NEW x, x = [cpu |-> x.cpu, io |-> x.io], NEW added
        PROVE  [x EXCEPT !.cpu.blocks = @ \cup {added}].cpu
                 = [x.cpu EXCEPT !.blocks = x.cpu.blocks \cup {added}]
    BY <2>1, <2>2
  <2> QED BY <1>2, <2>2
<1> DEFINE t == [step.cpu EXCEPT !.blocks = step.cpu.blocks \cup {new}]
<1>5. t.mem = s.mem /\ s.blocks \subseteq t.blocks
  BY <1>2, <1>3 DEF RestsOn, IsMachine
<1> HIDE DEF t
<1>6. MemoryInBlocks(t)
  BY <1>5 DEF MemoryInBlocks
<1>7. MemoryInBlocks(step.cpu)
  BY <1>2, RestingStaysInBlocks
<1> QED BY <1>1, <1>4, <1>6, <1>7 DEF t

\* Every instruction leaves memory in blocks, if its store stays in one.
LEMMA InstructionStaysInBlocks ==
  ASSUME NEW I, NEW s, IsMachine(s), MemoryInBlocks(s), IsTyped(I), StaysInBlocks(I, s)
  PROVE  MemoryInBlocks(Execute(I, s).cpu)
<1>1. ASSUME NEW step, MemoryInBlocks(step.cpu), Execute(I, s) = Checked(I, s, step)
      PROVE  MemoryInBlocks(Execute(I, s).cpu)
  BY <1>1, FailsRests, RestingStaysInBlocks DEF Checked
<1>2. CASE I.gik \notin TouchMemory
  BY <1>2, OnlyTheseTouchMemory, RestingStaysInBlocks
<1>3. CASE I.gik = "*ADDRESS:=DATA"
  <2>1. Execute(I, s) = ExecuteDerefAddressAsgnData(I, s)
    BY <1>3, DispatchedMoves
  <2> QED BY <1>3, <2>1, DataStayInBlocks
<1>4. CASE I.gik = "REG:=MEM STATIC"
  <2>1. Execute(I, s) = Checked(I, s, ExecuteMemStatic(I, s))
    BY <1>4, DispatchedSpecial
  <2> QED BY <1>1, <2>1, BlockStaysInBlocks
<1>5. CASE I.gik \in StoresIntoMem
  <2>1. I.n \in Nat /\ (I.gik \in TakeNumbers => I.v \in [1..I.n -> Byte])
    <3>1. I.gik \notin WithoutOperands
      BY <1>5 DEF WithoutOperands, StoresIntoMem
    <3> QED BY <3>1, Zenon DEF IsTyped
  <2>2. IsSeq(Read(s.reg, I.a1, I.n), I.n) /\ IsSeq(Reversed(Read(s.reg, I.a1, I.n)), I.n)
    BY <2>1, ReadBytes, ReversedBytes
  <2>3. I.gik \in TakeNumbers => IsSeq(I.v, I.n) /\ IsSeq(Reversed(I.v), I.n)
    <3>1. ASSUME I.gik \in TakeNumbers PROVE IsSeq(I.v, I.n)
      BY <2>1, <3>1 DEF IsSeq
    <3> QED BY <3>1, ReversedBytes
  <2>4. \A w, io : IsSeq(w, I.n) => MemoryInBlocks(Stores(I, s, w, io).cpu)
    BY <1>5, <2>1, SeqFacts, StoringStaysInBlocks
  <2>5. CASE I.gik = "*REG:=REG"
    <3>1. Execute(I, s) = Checked(I, s, ExecuteDerefAsgnReg(I, s))
      BY <2>5, DispatchedMoves
    <3>2. MemoryInBlocks(ExecuteDerefAsgnReg(I, s).cpu)
      BY <2>2, <2>4 DEF ExecuteDerefAsgnReg
    <3> QED BY <1>1, <3>1, <3>2
  <2>6. CASE I.gik = "*INV REG:=REG"
    <3>1. Execute(I, s) = Checked(I, s, ExecuteDerefInvAsgnReg(I, s))
      BY <2>6, DispatchedMoves
    <3>2. MemoryInBlocks(ExecuteDerefInvAsgnReg(I, s).cpu)
      BY <2>2, <2>4 DEF ExecuteDerefInvAsgnReg
    <3> QED BY <1>1, <3>1, <3>2
  <2>7. CASE I.gik = "*REG:=NUMBER"
    <3>1. Execute(I, s) = Checked(I, s, ExecuteDerefAsgnNumber(I, s))
      BY <2>7, DispatchedMoves
    <3>2. MemoryInBlocks(ExecuteDerefAsgnNumber(I, s).cpu)
      BY <2>3, <2>4, <2>7 DEF ExecuteDerefAsgnNumber, TakeNumbers
    <3> QED BY <1>1, <3>1, <3>2
  <2>8. CASE I.gik = "*INV REG:=NUMBER"
    <3>1. Execute(I, s) = Checked(I, s, ExecuteDerefInvAsgnNumber(I, s))
      BY <2>8, DispatchedMoves
    <3>2. MemoryInBlocks(ExecuteDerefInvAsgnNumber(I, s).cpu)
      BY <2>3, <2>4, <2>8 DEF ExecuteDerefInvAsgnNumber, TakeNumbers
    <3> QED BY <1>1, <3>1, <3>2
  <2> QED BY <1>5, <2>5, <2>6, <2>7, <2>8 DEF StoresIntoMem
<1> QED BY <1>2, <1>3, <1>4, <1>5 DEF TouchMemory

\* The memories of both machines lie in blocks.
MemoriesInBlocks == MemoryInBlocks(cpu) /\ MemoryInBlocks(twin)

\* The twin stores where the machine stores.
LEMMA TwinStaysInBlocks ==
  ASSUME NEW I, SameAddresses(I), AgreeBut(cpu, twin, impacts), StaysInBlocks(I, cpu)
  PROVE  StaysInBlocks(I, twin)
<1>1. SUFFICES ASSUME I.gik \in StoresIntoMem \cup {"*ADDRESS:=DATA"} PROVE StaysInBlocks(I, twin)
  BY DEF StaysInBlocks
<1>2. StoresAt(I, cpu) = StoresAt(I, twin)
  <2>1. I.gik \in StoresIntoMem => SameWord(cpu, twin, I.a0)
    BY SameAddressesMean DEF SameAddressWords
  <2>2. I.gik \in StoresIntoMem => Address(cpu, I.a0) = Address(twin, I.a0)
    BY <2>1, AddressSame
  <2> QED BY <1>1, <2>2 DEF StoresAt
<1> DEFINE first == StoresAt(I, cpu)[1]
           n == StoresAt(I, cpu)[2]
<1>3. Allowed(cpu, first, n, cpu.blocks) <=> Allowed(twin, first, n, twin.blocks)
  BY AllowedSame
<1>4. cpu.blocks = twin.blocks
  BY DEF AgreeBut
<1> QED BY <1>1, <1>2, <1>3, <1>4 DEF StaysInBlocks

\* No step of a thread leaves the blocks, if its store does not.
LEMMA StepStaysInBlocks ==
  ASSUME NextIsWellFormed, NextStaysInBlocks, TwinFollows, MemoriesInBlocks,
         [ThreadStep \/ MachinesRest]_threadVars
  PROVE  MemoriesInBlocks'
<1>1. CASE PassInstruction
  <2> DEFINE I == Head(code)
  <2>1. phase = "run" /\ code # << >> /\ IsInstruction(I)
    BY <1>1 DEF PassInstruction
  <2>2. /\ cpu' = Execute(I, cpu).cpu
        /\ twin' = twin \/ (together /\ SameAddresses(I) /\ twin' = Execute(I, twin).cpu)
    BY <1>1 DEF PassInstruction
  <2>3. IsTyped(I)
    BY <2>1 DEF NextIsWellFormed
  <2>4. StaysInBlocks(I, cpu)
    BY <2>1 DEF NextStaysInBlocks, StaysInBlocks
  <2> HIDE DEF I
  <2>5. IsMachine(cpu) /\ IsMachine(twin)
    BY DEF TwinFollows, MachinesAreSane, IsSane
  <2>6. MemoryInBlocks(cpu')
    BY <2>2, <2>3, <2>4, <2>5, InstructionStaysInBlocks DEF MemoriesInBlocks
  <2>7. ASSUME together, SameAddresses(I) PROVE MemoryInBlocks(Execute(I, twin).cpu)
    <3>1. AgreeBut(cpu, twin, impacts)
      BY <2>1, <2>7 DEF TwinFollows, TwinAgrees
    <3>2. StaysInBlocks(I, twin)
      BY <2>4, <2>7, <3>1, TwinStaysInBlocks
    <3> QED BY <2>3, <2>5, <3>2, InstructionStaysInBlocks DEF MemoriesInBlocks
  <2>8. MemoryInBlocks(twin')
    BY <2>2, <2>7 DEF MemoriesInBlocks
  <2> QED BY <2>6, <2>8 DEF MemoriesInBlocks, MemoryInBlocks
<1>2. CASE MachinesRest
  BY <1>2 DEF MachinesRest, MemoriesInBlocks, MemoryInBlocks
<1>3. CASE UNCHANGED threadVars
  BY <1>3 DEF threadVars, MemoriesInBlocks, MemoryInBlocks
<1> QED BY <1>1, <1>2, <1>3, OtherStepsRest

-----------------------------------------------------------------------------
(* The theorems *)

\* What a thread executes: instructions, which the interpreter takes for granted
\* to be well-formed, and what comes in between.
Execution == [][ThreadStep \/ MachinesRest]_threadVars /\ []NextIsWellFormed

\* The invariant holds when a thread begins.
LEMMA ThreadBeginsAgreed ==
  ASSUME NEW p, NEW program, NEW s, NEW input, BeginsOn(s, input), Begins(p, program, s, input)
  PROVE  TwinFollows
<1>1. /\ cpu = s /\ twin = WithChanged(s, input)
      /\ impacts = IF input = << >> THEN {} ELSE {input}
  BY DEF Begins
<1> QED BY <1>1, TwinBeginsAgreed, TwinBeginsSane DEF TwinFollows, TwinAgrees, MachinesAreSane, BeginsOn

\* It holds as long as the thread executes.
LEMMA TwinAlwaysFollows == TwinFollows /\ Execution => []TwinFollows
<1>1. NextIsWellFormed /\ TwinFollows /\ [ThreadStep \/ MachinesRest]_threadVars => TwinFollows'
  BY StepKeepsTwin
<1> QED BY <1>1, PTL DEF Execution

\* Whatever a thread executes, on whatever machine it begins: the pools hold bytes
\* and nothing else.
THEOREM PoolsAreAlwaysBytes ==
  ASSUME NEW CONSTANT p, NEW CONSTANT program, NEW CONSTANT s, NEW CONSTANT input, BeginsOn(s, input)
  PROVE  Begins(p, program, s, input) /\ Execution => []PoolsAreBytes
<1>1. Begins(p, program, s, input) => TwinFollows
  BY ThreadBeginsAgreed
<1>2. TwinFollows => PoolsAreBytes
  BY SaneMachinesHavePools DEF TwinFollows
<1> QED BY <1>1, <1>2, TwinAlwaysFollows, PTL

\* Whatever program a thread executes, on whatever machine it begins and whatever
\* byte is the input: where the machine and its twin differ there is an impact link.
THEOREM ImpactsAlwaysCoverDifferences ==
  ASSUME NEW CONSTANT p, NEW CONSTANT program, NEW CONSTANT s, NEW CONSTANT input, BeginsOn(s, input)
  PROVE  Begins(p, program, s, input) /\ Execution => []ImpactsCoverDifferences
<1>1. Begins(p, program, s, input) => TwinFollows
  BY ThreadBeginsAgreed
<1>2. TwinFollows => ImpactsCoverDifferences
  BY AgreementCovers DEF TwinFollows
<1> QED BY <1>1, <1>2, TwinAlwaysFollows, PTL
=============================================================================
