------------------------------- MODULE Words -------------------------------
(***************************************************************************)
(* The integers of core.c: u1, u2, u4 and u8 as natural numbers below a    *)
(* power of two, the casts between them and to i1, i2, i4 and i8, and the  *)
(* C operators that are not TLA+'s.  A byte has ByteBits bits, 8 in the    *)
(* code; everything else follows.                                          *)
(***************************************************************************)
EXTENDS Integers

CONSTANT ByteBits

\* A power of two, so that a mask of the low bits of a word counts the
\* positions of a word or a long (Distance).
ASSUME ByteAssumption == ByteBits \in Nat \ {0} /\ \E n \in 0 .. ByteBits : ByteBits = 2 ^ n

\* A type is named by its number of bytes.
One == 1
Two == 2
Four == 4
Eight == 8

Bits(k) == k * ByteBits
Values(k) == 2 ^ Bits(k)

\* The cast of any integer to the unsigned and to the signed type of k bytes.
U(k, v) == v % Values(k)
S(k, v) == LET u == U(k, v) IN IF 2 * u < Values(k) THEN u ELSE u - Values(k)

SmallestInt(k) == - (Values(k) \div 2)

\* C divides towards zero, TLA+ downwards.
Magnitude(a) == IF a < 0 THEN - a ELSE a
Quotient(a, b) ==
    LET q == Magnitude(a) \div Magnitude(b) IN IF (a < 0) = (b < 0) THEN q ELSE - q

\* v << n within k bytes; v >> n, arithmetic for a signed v and logical for
\* an unsigned one.
ShiftLeft(k, v, n) == (v % 2 ^ (Bits(k) - n)) * 2 ^ n
ShiftRight(v, n) == v \div 2 ^ n

\* The distance of a shift: the mask 0x1f keeps the bits that count positions
\* of a word, 0x3f those of a long.
Distance(k, v) == v % Bits(k)

\* The bits of unsigned a and b combined one by one, each pair by a function.
Bit == {0, 1}

Combine(k, bit, a, b) ==
    LET low[n \in 0 .. Bits(k)] ==
            IF n = 0 THEN 0
            ELSE low[n - 1] + 2 ^ (n - 1) * bit[ShiftRight(a, n - 1) % 2]
                                                  [ShiftRight(b, n - 1) % 2]
    IN  low[Bits(k)]

And(k, a, b) == Combine(k, [x \in Bit |-> [y \in Bit |-> x * y]], a, b)
Or(k, a, b) == Combine(k, [x \in Bit |-> [y \in Bit |-> x + y - x * y]], a, b)
Xor(k, a, b) == Combine(k, [x \in Bit |-> [y \in Bit |-> (x + y) % 2]], a, b)

============================================================================
