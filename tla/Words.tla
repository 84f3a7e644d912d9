------------------------------- MODULE Words -------------------------------
(***************************************************************************)
(* Words: the unsigned integers of 1 to 16 bytes the Microcode works with, *)
(* as sequences of bytes with the most significant one first, which is how *)
(* they lie in the REG pool.  Sums, products and shifts are those of C++   *)
(* unsigned integers: they wrap around.                                    *)
(***************************************************************************)
EXTENDS Integers, Sequences, FiniteSets

Byte == 0..255

\* The functions of the module TLC by their definitions: with one argument, and
\* the first of two functions, extended by the other one.
x :> value == [y \in {x} |-> value]
f @@ g == [x \in DOMAIN f \cup DOMAIN g |-> IF x \in DOMAIN f THEN f[x] ELSE g[x]]

\* A word as a tuple, which TLC evaluates once and not at every use of a byte.
Tuple(w) == w \o << >>

\* F of a value, which is evaluated once wherever TLC evaluates it.
With(value, F(_)) == CHOOSE result \in {F(v) : v \in {value}} : TRUE

\* The last n bytes of a number, which may be negative (two's complement).
Word(v, n) ==
  LET Shifted[i \in 0..n] == IF i = 0 THEN v ELSE Shifted[i - 1] \div 256
  IN  Tuple([i \in 1..n |-> Shifted[n - i] % 256])

Zeros(n) == Tuple([i \in 1..n |-> 0])

\* The number of a word, for words below 2^31.
Num(w) ==
  LET Upto[i \in 0..Len(w)] == IF i = 0 THEN 0 ELSE 256 * Upto[i - 1] + w[i]
  IN  Upto[Len(w)]

Reversed(w) == Tuple([i \in 1..Len(w) |-> w[Len(w) + 1 - i]])

\* The low n bytes of a word, filled up with zeros.
Low(w, n) ==
  IF n <= Len(w) THEN SubSeq(w, Len(w) - n + 1, Len(w)) ELSE Zeros(n - Len(w)) \o w

IsZero(w) == \A i \in 1..Len(w) : w[i] = 0

-----------------------------------------------------------------------------
\* u + v + carry, with the carry out of the first byte in front of it.
SumWithCarry(u, v, carry) ==
  LET n == Len(u)
      Carried[i \in 0..n] ==
        IF i = 0 THEN carry ELSE (u[n + 1 - i] + v[n + 1 - i] + Carried[i - 1]) \div 256
  IN  <<Carried[n]>> \o [i \in 1..n |-> (u[i] + v[i] + Carried[n - i]) % 256]

Sum(u, v) == With(<<u, v>>, LAMBDA p : Tail(SumWithCarry(p[1], p[2], 0)))

\* The product of a word and a number below 2^22.
Product(u, k) ==
  LET n == Len(u)
      Carried[i \in 0..n] == IF i = 0 THEN 0 ELSE (u[n + 1 - i] * k + Carried[i - 1]) \div 256
  IN  Tuple([i \in 1..n |-> (u[i] * k + Carried[n - i]) % 256])

\* Long division of a word by a number below 2^22: the quotient and the remainder.
Division(u, d) ==
  LET Left[i \in 0..Len(u)] == IF i = 0 THEN 0 ELSE (256 * Left[i - 1] + u[i]) % d
  IN  [quotient  |-> Tuple([i \in 1..Len(u) |-> (256 * Left[i - 1] + u[i]) \div d]),
       remainder |-> Left[Len(u)]]

-----------------------------------------------------------------------------
\* The byte whose bits are 1 where the pair of the bits of two bytes is wanted.
ByteWhere(b, c, wanted) ==
  LET BitOf(x, k) == (x \div 2^k) % 2
      Upto[k \in 0..8] ==
        IF k = 0 THEN 0
        ELSE 2 * Upto[k - 1] + IF <<BitOf(b, 8 - k), BitOf(c, 8 - k)>> \in wanted THEN 1 ELSE 0
  IN  Upto[8]

BytesWhere(u, v, wanted) == Tuple([i \in 1..Len(u) |-> ByteWhere(u[i], v[i], wanted)])
BitAnd(u, v) == BytesWhere(u, v, {<<1, 1>>})
BitOr(u, v)  == BytesWhere(u, v, {<<0, 1>>, <<1, 0>>, <<1, 1>>})
BitXor(u, v) == BytesWhere(u, v, {<<0, 1>>, <<1, 0>>})
BitNot(u)    == Tuple([i \in 1..Len(u) |-> 255 - u[i]])

\* Shifts by k bits, k below 64: a byte takes its bits from two neighbours.
ByteOf(u, i) == IF i \in 1..Len(u) THEN u[i] ELSE 0

ShiftedRight(u, k) ==
  LET q == k \div 8  r == k % 8
  IN  Tuple([i \in 1..Len(u) |-> ((256 * ByteOf(u, i - q - 1) + ByteOf(u, i - q)) \div 2^r) % 256])

ShiftedLeft(u, k) ==
  LET q == k \div 8  r == k % 8
  IN  Tuple([i \in 1..Len(u) |-> (((256 * ByteOf(u, i + q) + ByteOf(u, i + q + 1)) * 2^r) \div 256) % 256])

\* The k-th bit, the lowest is the 0th.
Bit(u, k) == (u[Len(u) - k \div 8] \div 2^(k % 8)) % 2

SignBit(u) == u[1] \div 128

NumOnes(b) == Cardinality({k \in 0..7 : (b \div 2^k) % 2 = 1})

IsEven(u) ==
  LET Ones[i \in 0..Len(u)] == IF i = 0 THEN 0 ELSE Ones[i - 1] + NumOnes(u[i])
  IN  Ones[Len(u)] % 2 = 0

SignExtended(u, n) == [i \in 1..(n - Len(u)) |-> 255 * SignBit(u)] \o u
=============================================================================
