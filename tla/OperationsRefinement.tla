------------------------ MODULE OperationsRefinement ------------------------
(***************************************************************************)
(* Proof that the computing instructions of run() implement JavaValues:    *)
(* read by what the type checker knows, the words of the operand stack are *)
(* Java's values and the blocks of bytes its arrays, for any power of two  *)
(* as the bits of a byte and for any literals and bounds.                  *)
(***************************************************************************)
EXTENDS OperationsProofs

----------------------------------------------------------------------------
(* Casts.  S(k, v) is the one number of its range that differs from v by a *)
(* multiple of Values(k).                                                  *)

Congruent(k, a, b) == \E c \in Int : a = b + Values(k) * c
Signed(k, v) == v \in Int /\ - Values(k) <= 2 * v /\ 2 * v < Values(k)

LEMMA CastRange ==
    ASSUME NEW k \in Nat, NEW v \in Int
    PROVE  Signed(k, S(k, v)) /\ Congruent(k, S(k, v), v) /\ Congruent(k, U(k, v), v)
<1>1. PICK n \in Nat \ {0} : n = Values(k)
    BY ValuesTyped
<1>2. PICK c \in Int, u \in 0 .. n - 1 : v = n * c + u /\ c = v \div n /\ u = v % n
    OBVIOUS
<1>3. U(k, v) = u
    BY <1>1, <1>2 DEF U
<1>4. S(k, v) = IF 2 * u < n THEN u ELSE u - n
    BY <1>1, <1>3 DEF S
<1>5. u = v + n * (- c)
    BY <1>2
<1>6. u - n = v + n * (- c - 1)
    <2>1. PICK x \in Int : x = n * c
        OBVIOUS
    <2>2. n * (- c - 1) = - x - n
        BY <2>1
    <2>3. v = x + u
        BY <1>2, <2>1
    <2> QED
        BY <2>2, <2>3
<1>7. - c \in Int /\ - c - 1 \in Int
    OBVIOUS
<1>8. Congruent(k, u, v) /\ Congruent(k, u - n, v)
    BY <1>1, <1>5, <1>6, <1>7 DEF Congruent
<1>9. Congruent(k, S(k, v), v)
    BY <1>4, <1>8
<1>10. Signed(k, S(k, v))
    <2>1. u \in 0 .. n - 1
        OBVIOUS
    <2>2. PICK s : s = S(k, v) /\ s = IF 2 * u < n THEN u ELSE u - n
        BY <1>4
    <2>3. s \in Int /\ - n <= 2 * s /\ 2 * s < n
        BY <2>1, <2>2
    <2> QED
        BY <1>1, <2>2, <2>3 DEF Signed
<1> QED
    BY <1>3, <1>8, <1>9, <1>10

LEMMA CastCongruent ==
    ASSUME NEW k \in Nat, NEW a \in Int, NEW b \in Int, Congruent(k, a, b)
    PROVE  U(k, a) = U(k, b) /\ S(k, a) = S(k, b)
<1>1. PICK n \in Nat \ {0} : n = Values(k)
    BY ValuesTyped
<1>2. PICK c \in Int, u \in 0 .. n - 1 : b = n * c + u /\ c = b \div n /\ u = b % n
    OBVIOUS
<1>3. PICK d \in Int : a = b + n * d
    BY <1>1 DEF Congruent
<1>4. PICK e \in Int : e = c + d
    OBVIOUS
<1>5. n * e = n * c + n * d
    BY <1>4
<1>6. a = n * e + u
    <2>1. PICK x \in Int, y \in Int : x = n * c /\ y = n * d
        OBVIOUS
    <2>2. n * e = x + y /\ b = x + u /\ a = b + y
        BY <1>2, <1>3, <1>5, <2>1
    <2> QED
        BY <2>1, <2>2
<1>7. a % n = u
    BY <1>6, Remainder
<1>8. U(k, a) = U(k, b)
    BY <1>1, <1>2, <1>7 DEF U
<1> QED
    BY <1>8 DEF S

\* The casts leave the numbers of their range alone.
LEMMA CastIdentity ==
    ASSUME NEW k \in Nat, NEW v \in Int
    PROVE  /\ v \in 0 .. Values(k) - 1 => U(k, v) = v
           /\ Signed(k, v) => S(k, v) = v
<1>1. PICK n \in Nat \ {0} : n = Values(k)
    BY ValuesTyped
<1>2. ASSUME v \in 0 .. n - 1 PROVE U(k, v) = v
    BY <1>1, <1>2 DEF U
<1>3. ASSUME Signed(k, v) PROVE S(k, v) = v
    <2>1. - n <= 2 * v /\ 2 * v < n
        BY <1>1, <1>3 DEF Signed
    <2>2. CASE v >= 0
        <3>1. v \in 0 .. n - 1
            BY <2>1, <2>2
        <3>2. U(k, v) = v
            BY <3>1, <1>2
        <3> QED
            BY <1>1, <2>1, <3>2 DEF S
    <2>3. CASE v < 0
        <3>1. v + n \in 0 .. n - 1 /\ 2 * (v + n) >= n /\ v = n * (-1) + (v + n)
            BY <2>1, <2>3
        <3>2. v % n = v + n
            BY <3>1, Remainder
        <3> QED
            BY <1>1, <3>1, <3>2 DEF S, U
    <2> QED
        BY <2>2, <2>3
<1> QED
    BY <1>1, <1>2, <1>3

\* One cast after another, of the same number of bytes.
LEMMA CastTwice ==
    ASSUME NEW k \in Nat, NEW v \in Int
    PROVE  /\ S(k, U(k, v)) = S(k, v) /\ U(k, S(k, v)) = U(k, v)
           /\ U(k, U(k, v)) = U(k, v) /\ S(k, S(k, v)) = S(k, v)
           /\ v \in 0 .. Values(k) - 1 => U(k, S(k, v)) = v
<1>1. U(k, v) \in Int /\ S(k, v) \in Int
    BY CastTyped, ValuesTyped
<1>2. Congruent(k, S(k, v), v) /\ Congruent(k, U(k, v), v)
    BY CastRange
<1> QED
    BY <1>1, <1>2, CastCongruent, CastIdentity

\* Equal words are equal numbers.
LEMMA CastInjective ==
    ASSUME NEW k \in Nat, NEW a \in 0 .. Values(k) - 1, NEW b \in 0 .. Values(k) - 1,
           S(k, a) = S(k, b)
    PROVE  a = b
<1>1. a \in Int /\ b \in Int
    OBVIOUS
<1> QED
    BY <1>1, CastTwice

\* Numbers that agree in k bytes agree in fewer.
LEMMA CongruentBelow ==
    ASSUME NEW j \in Nat, NEW k \in Nat, j <= k, NEW a \in Int, NEW b \in Int,
           Congruent(k, a, b)
    PROVE  Congruent(j, a, b)
<1>1. PICK i \in Nat : k = j + i
    <2>1. k - j \in Nat /\ k = j + (k - j)
        OBVIOUS
    <2> QED
        BY <2>1
<1>2. PICK n \in Nat \ {0}, m \in Nat \ {0} : n = Values(j) /\ m = Values(i)
    BY ValuesTyped
<1>3. Values(k) = n * m
    BY <1>1, <1>2, ValuesOfSum
<1>4. PICK c \in Int : a = b + (n * m) * c
    BY <1>3 DEF Congruent
<1>5. PICK e \in Int : e = m * c
    OBVIOUS
<1>6. (n * m) * c = n * e
    BY <1>5
<1>7. a = b + n * e
    BY <1>4, <1>6
<1> QED
    BY <1>2, <1>7 DEF Congruent

LEMMA CastBelow ==
    ASSUME NEW j \in Nat, NEW k \in Nat, j <= k, NEW v \in Int
    PROVE  /\ U(j, U(k, v)) = U(j, v) /\ S(j, U(k, v)) = S(j, v)
           /\ U(j, S(k, v)) = U(j, v) /\ S(j, S(k, v)) = S(j, v)
<1>1. U(k, v) \in Int /\ S(k, v) \in Int
    BY CastTyped, ValuesTyped
<1>2. Congruent(k, S(k, v), v) /\ Congruent(k, U(k, v), v)
    BY CastRange
<1>3. Congruent(j, S(k, v), v) /\ Congruent(j, U(k, v), v)
    BY <1>1, <1>2, CongruentBelow
<1> QED
    BY <1>1, <1>3, CastCongruent

----------------------------------------------------------------------------
(* What is more than a cast: shifts, division and ranges. *)

LEMMA PowerOfTwoOnce == 2 ^ 1 = 2
<1>1. SUBSET (1 .. 1) = {{}, {1}} /\ {} # {1}
    <2>1. 1 .. 1 = {1}
        OBVIOUS
    <2> QED
        BY <2>1
<1>2. Cardinality({{}, {1}}) = 2
    <2>1. PICK a, b : a = {} /\ b = {1} /\ a # b
        BY <1>1
    <2>2. IsFiniteSet({b}) /\ Cardinality({b}) = 1
        BY FS_Singleton
    <2>3. Cardinality({b} \cup {a}) = Cardinality({b}) + 1
        BY <2>1, <2>2, FS_AddElement
    <2>4. {a, b} = {b} \cup {a}
        OBVIOUS
    <2> QED
        BY <2>1, <2>2, <2>3, <2>4
<1> QED
    BY <1>1, <1>2, PowerIsCardinality

LEMMA PowerLarger ==
    ASSUME NEW n \in Nat
    PROVE  n < 2 ^ n
<1> DEFINE X == {m \in Nat : m < 2 ^ m}
<1>1. 0 \in X
    BY PowerPositive
<1>2. ASSUME NEW m \in Nat, m \in X PROVE m + 1 \in X
    <2>1. 2 ^ (m + 1) = 2 ^ m * 2
        BY PowerOfTwoOnce, PowerOfSum
    <2>2. PICK p \in Nat : p = 2 ^ m
        BY PowerPositive
    <2>3. m + 1 <= p
        BY <1>2, <2>2
    <2>4. m + 1 < p * 2
        BY <2>3
    <2> QED
        BY <2>1, <2>2, <2>4
<1>3. Nat \subseteq X
    <2> HIDE DEF X
    <2> QED
        BY <1>1, <1>2, SetInduction
<1> QED
    BY <1>3

\* The numbers of values of one to eight bytes, as constants.
LEMMA AllSizes ==
    \E b \in Nat : /\ b >= 2 /\ Values(One) = b /\ Values(Two) = b * b
                   /\ \E w \in Nat : /\ w = (b * b) * (b * b) /\ 2 * (b * b) <= w /\ w > 2
                                     /\ Values(Four) = w /\ Values(Eight) = w * w
<1>1. PICK b \in Nat : b = Values(1)
    BY ValuesTyped
<1>2. b >= 2
    <2>1. Bits(1) \in Nat /\ Bits(1) >= 1
        BY ValuesTyped DEF Bits
    <2>2. Bits(1) < 2 ^ Bits(1)
        BY <2>1, PowerLarger
    <2> QED
        BY <1>1, <2>1, <2>2 DEF Values
<1>3. Values(1 + 1) = b * b
    BY <1>1, ValuesOfSum
<1>4. PICK d \in Nat : d = b * b
    BY <1>1
<1>5. Values(2 + 2) = d * d
    BY <1>3, <1>4, ValuesOfSum
<1>6. PICK w \in Nat : w = d * d
    BY <1>4
<1>7. Values(4 + 4) = w * w
    BY <1>5, <1>6, ValuesOfSum
<1>8. d >= 4
    <2>1. b * b >= 2 * b
        BY <1>2
    <2> QED
        BY <1>2, <1>4, <2>1
<1>9. 2 * d <= w /\ w > 2
    <2>1. d * d >= 4 * d
        BY <1>8
    <2> QED
        BY <1>6, <1>8, <2>1
<1>10. Values(1) = b /\ Values(2) = b * b /\ Values(4) = w /\ Values(8) = w * w
    BY <1>1, <1>3, <1>5, <1>6, <1>7
<1> QED
    BY <1>2, <1>4, <1>6, <1>9, <1>10 DEF One, Two, Four, Eight

LEMMA Ranges ==
    ASSUME NEW v \in Int
    PROVE  /\ Signed(Four, S(One, v)) /\ Signed(Four, U(One, v))
           /\ Signed(Four, S(Two, v)) /\ Signed(Four, U(Two, v))
           /\ Signed(Eight, S(Four, v))
           /\ Signed(Four, -1) /\ Signed(Four, 0) /\ Signed(Four, 1)
<1>1. PICK b \in Nat, w \in Nat :
          /\ b >= 2 /\ Values(One) = b /\ Values(Two) = b * b
          /\ w = (b * b) * (b * b) /\ 2 * (b * b) <= w /\ w > 2
          /\ Values(Four) = w /\ Values(Eight) = w * w
    BY AllSizes
<1>2. PICK d \in Nat : d = b * b /\ b <= d /\ 2 * d <= w
    <2>1. b <= b * b
        BY <1>1
    <2> QED
        BY <1>1, <2>1
<1>3. w <= w * w /\ w * w \in Nat
    BY <1>1
<1>4. /\ U(One, v) \in 0 .. b - 1 /\ U(Two, v) \in 0 .. d - 1
      /\ Signed(One, S(One, v)) /\ Signed(Two, S(Two, v)) /\ Signed(Four, S(Four, v))
    <2>1. One \in Nat /\ Two \in Nat /\ Four \in Nat
        BY DEF One, Two, Four
    <2> QED
        BY <1>1, <1>2, <2>1, CastTyped, CastRange
<1>5. ASSUME NEW x \in Int, - b <= 2 * x, 2 * x < 2 * b
      PROVE  Signed(Four, x)
    BY <1>1, <1>2, <1>5 DEF Signed
<1>6. ASSUME NEW x \in Int, - d <= 2 * x, 2 * x < 2 * d
      PROVE  Signed(Four, x)
    BY <1>1, <1>2, <1>6 DEF Signed
<1>7. Signed(Four, S(One, v)) /\ Signed(Four, U(One, v))
    BY <1>1, <1>4, <1>5 DEF Signed
<1>8. Signed(Four, S(Two, v)) /\ Signed(Four, U(Two, v))
    BY <1>1, <1>2, <1>4, <1>6 DEF Signed
<1>9. Signed(Eight, S(Four, v))
    BY <1>1, <1>3, <1>4 DEF Signed
<1>10. Signed(Four, -1) /\ Signed(Four, 0) /\ Signed(Four, 1)
    BY <1>1 DEF Signed
<1> QED
    BY <1>7, <1>8, <1>9, <1>10

\* A word and the number it stands for are the same distance: the positions of
\* a word and of a long are counted by its low bits.
LEMMA DistanceSame ==
    ASSUME NEW k \in Sizes, NEW v \in Int
    PROVE  S(Four, v) % Bits(k) = Distance(k, v)
<1>1. PICK i \in Nat, j \in Nat : Bits(k) = 2 ^ j /\ Bits(Four) = 2 ^ i /\ j <= 2 ^ i
    <2>1. PICK n \in Nat : ByteBits = 2 ^ n
        BY ByteAssumption
    <2>2. 2 ^ 2 = 4 /\ 2 ^ 3 = 8
        <3>1. PICK b \in Nat : b = 2 ^ 1 /\ b > 1
            BY PowerPositive, PowerLarger
        <3>2. 2 ^ (1 + 1) = b * b /\ 2 ^ (2 + 1) = 2 ^ 2 * b
            BY <3>1, PowerOfSum
        <3>3. b = 2
            BY PowerOfTwoOnce, <3>1
        <3> QED
            BY <3>2, <3>3
    <2>3. 2 ^ (2 + n) = 4 * 2 ^ n /\ 2 ^ (3 + n) = 8 * 2 ^ n
        BY <2>2, PowerOfSum
    <2>4. Bits(Four) = 2 ^ (2 + n) /\ Bits(Eight) = 2 ^ (3 + n)
        BY <2>1, <2>3 DEF Bits, Four, Eight
    <2>5. 2 + n < 2 ^ (2 + n) /\ 2 ^ (2 + n) \in Nat
        BY PowerLarger, PowerPositive
    <2>6. 2 + n <= 2 ^ (2 + n) /\ 3 + n <= 2 ^ (2 + n)
        BY <2>5
    <2>7. 2 + n \in Nat /\ 3 + n \in Nat
        OBVIOUS
    <2> QED
        BY <2>4, <2>6, <2>7 DEF Sizes
<1>2. PICK e \in Nat : 2 ^ i = j + e
    <2>1. 2 ^ i \in Nat
        BY PowerPositive
    <2>2. 2 ^ i - j \in Nat /\ 2 ^ i = j + (2 ^ i - j)
        BY <1>1, <2>1
    <2> QED
        BY <2>2
<1>3. PICK m \in Nat \ {0}, n \in Nat \ {0} : m = 2 ^ j /\ n = 2 ^ e
    BY PowerPositive
<1>4. Values(Four) = m * n
    <2>1. Values(Four) = 2 ^ (j + e)
        BY <1>1, <1>2 DEF Values
    <2> QED
        BY <1>3, <2>1, PowerOfSum
<1>5. PICK s \in Int, c \in Int : s = S(Four, v) /\ s = v + (m * n) * c
    <2>1. Congruent(Four, S(Four, v), v) /\ S(Four, v) \in Int
        BY CastRange, CastTyped DEF Four
    <2> QED
        BY <1>4, <2>1 DEF Congruent
<1>6. PICK q \in Int, r \in 0 .. m - 1 : v = m * q + r /\ q = v \div m /\ r = v % m
    OBVIOUS
<1>7. PICK g \in Int : g = q + n * c
    OBVIOUS
<1>8. m * g = m * q + (m * n) * c
    BY <1>7
<1>9. s = m * g + r
    <2>1. PICK x \in Int, y \in Int : x = m * q /\ y = (m * n) * c
        OBVIOUS
    <2>2. v = x + r
        BY <1>6, <2>1
    <2> QED
        BY <1>5, <1>8, <2>1, <2>2
<1>10. s % m = r
    BY <1>9, Remainder
<1> QED
    BY <1>1, <1>3, <1>5, <1>6, <1>10 DEF Distance

\* Bits that a shift pushes out of k bytes do not count.
LEMMA ShiftSame ==
    ASSUME NEW k \in Nat \ {0}, NEW a \in Int, NEW n \in Nat, n < Bits(k)
    PROVE  S(k, ShiftLeft(k, a, n)) = S(k, S(k, a) * 2 ^ n)
<1>1. Bits(k) - n \in Nat /\ Bits(k) = (Bits(k) - n) + n
    BY ValuesTyped
<1>2. PICK p \in Nat \ {0}, q \in Nat \ {0} : p = 2 ^ (Bits(k) - n) /\ q = 2 ^ n
    BY <1>1, PowerPositive
<1>3. Values(k) = p * q
    BY <1>1, <1>2, PowerOfSum DEF Values
<1>4. PICK d \in Int, r \in 0 .. p - 1 : a = p * d + r /\ d = a \div p /\ r = a % p
    OBVIOUS
<1>5. PICK s \in Int, c \in Int : s = S(k, a) /\ s = a + (p * q) * c
    <2>1. Congruent(k, S(k, a), a) /\ S(k, a) \in Int
        BY CastRange, CastTyped
    <2> QED
        BY <1>3, <2>1 DEF Congruent
<1>6. ShiftLeft(k, a, n) = r * q
    BY <1>2, <1>4 DEF ShiftLeft
<1>7. r * q = s * q + (p * q) * (- d - c * q)
    <2>1. PICK x \in Int, z \in Int : x = p * d /\ z = p * q
        OBVIOUS
    <2>2. r = a - x
        <3>1. a = p * d + r
            BY <1>4
        <3> QED
            BY <2>1, <3>1
    <2>3. s = a + z * c
        BY <1>5, <2>1
    <2>4. r * q = a * q - x * q
        BY <2>2
    <2>5. s * q = a * q + (z * c) * q
        BY <2>3
    <2>6. x * q = z * d
        BY <2>1
    <2>7. (z * c) * q = z * (c * q)
        OBVIOUS
    <2>8. z * (- d - c * q) = - (z * d) - z * (c * q)
        OBVIOUS
    <2>9. r * q = s * q + z * (- d - c * q)
        <3>1. PICK aq \in Int, zd \in Int, zcq \in Int, rq \in Int, sq \in Int, m \in Int :
                  /\ aq = a * q /\ zd = z * d /\ zcq = z * (c * q)
                  /\ rq = r * q /\ sq = s * q /\ m = z * (- d - c * q)
            OBVIOUS
        <3>2. rq = aq - zd
            BY <2>4, <2>6, <3>1
        <3>3. sq = aq + zcq
            BY <2>5, <2>7, <3>1
        <3>4. m = - zd - zcq
            BY <2>8, <3>1
        <3>5. rq = sq + m
            BY <3>2, <3>3, <3>4
        <3> QED
            BY <3>1, <3>5
    <2> QED
        BY <2>1, <2>9
<1>8. - d - c * q \in Int /\ r * q \in Int /\ s * q \in Int
    OBVIOUS
<1>9. Congruent(k, r * q, s * q)
    BY <1>3, <1>7, <1>8 DEF Congruent
<1>10. S(k, r * q) = S(k, s * q)
    BY <1>8, <1>9, CastCongruent
<1> QED
    BY <1>2, <1>5, <1>6, <1>10

----------------------------------------------------------------------------
(* JavaValues counts with the same words. *)

LEMMA JavaWords ==
    /\ \A k : Java!Bits(k) = Bits(k) /\ Java!Values(k) = Values(k)
              /\ Java!SmallestInt(k) = SmallestInt(k)
    /\ \A k, v : Java!U(k, v) = U(k, v) /\ Java!S(k, v) = S(k, v)
    /\ \A a : Java!Magnitude(a) = Magnitude(a)
    /\ Java!One = One /\ Java!Two = Two /\ Java!Four = Four /\ Java!Eight = Eight
<1>1. \A k : Java!Bits(k) = Bits(k) /\ Java!Values(k) = Values(k)
             /\ Java!SmallestInt(k) = SmallestInt(k)
    BY DEF Java!Bits, Java!Values, Java!SmallestInt, Bits, Values, SmallestInt
<1>2. \A k, v : Java!U(k, v) = U(k, v)
    BY <1>1 DEF Java!U, U
<1>3. \A k, v : Java!S(k, v) = S(k, v)
    BY <1>1, <1>2 DEF Java!S, S
<1>4. \A a : Java!Magnitude(a) = Magnitude(a)
    BY DEF Java!Magnitude, Magnitude
<1> QED
    BY <1>1, <1>2, <1>3, <1>4
       DEF Java!One, One, Java!Two, Two, Java!Four, Four, Java!Eight, Eight

LEMMA JavaBits ==
    ASSUME NEW k, NEW a, NEW b
    PROVE  Java!And(k, a, b) = And(k, a, b) /\ Java!Or(k, a, b) = Or(k, a, b)
           /\ Java!Xor(k, a, b) = Xor(k, a, b)
<1>1. \A bit : Java!Combine(k, bit, a, b) = Combine(k, bit, a, b)
    BY DEF Java!Combine, Combine, Java!Bits, Bits, Java!ShiftRight, ShiftRight
<1> QED
    BY <1>1 DEF Java!And, And, Java!Or, Or, Java!Xor, Xor, Java!Bit, Bit

\* The quotient of C and the remainder that makes up for it.
LEMMA DivisionSame ==
    ASSUME NEW name \in {"div", "rem"}, NEW k \in Nat, NEW a \in Int, NEW b \in Int, S(k, b) # 0
    PROVE  DivisionResult(name, k, a, b) = Java!Divided(name, S(k, a), S(k, b))
<1>1. PICK x \in Int, y \in Int : x = S(k, a) /\ y = S(k, b) /\ y # 0
    BY CastTyped
<1>2. PICK m \in Nat, n \in Nat \ {0} :
          /\ m = Magnitude(x) /\ n = Magnitude(y)
          /\ x = IF x < 0 THEN - m ELSE m
          /\ y = IF y < 0 THEN - n ELSE n
    BY <1>1 DEF Magnitude
<1>3. PICK q \in Nat, r \in Nat : m = n * q + r /\ q = m \div n /\ r = m % n
    OBVIOUS
<1>4. PICK d : d = IF (x < 0) = (y < 0) THEN q ELSE - q
    OBVIOUS
<1>5. Quotient(x, y) = d
    BY <1>2, <1>3, <1>4 DEF Quotient
<1>6. d \in Int
    BY <1>4
<1>7. DivisionResult(name, k, a, b) = IF name = "div" THEN d ELSE x - d * y
    BY <1>1, <1>5 DEF DivisionResult
<1>8. Java!Divided(name, x, y) =
          IF name = "div" THEN q * (IF (x < 0) = (y < 0) THEN 1 ELSE -1)
          ELSE r * (IF x < 0 THEN -1 ELSE 1)
    BY <1>2, <1>3, JavaWords DEF Java!Divided
<1>9. q * (IF (x < 0) = (y < 0) THEN 1 ELSE -1) = d
    BY <1>4
<1>10. x - d * y = r * (IF x < 0 THEN -1 ELSE 1)
    <2>1. PICK z \in Nat : z = n * q
        OBVIOUS
    <2>2. m = z + r
        <3>1. m = n * q + r
            BY <1>3
        <3> QED
            BY <2>1, <3>1
    <2>3. CASE x < 0 /\ y < 0
        <3>1. d = q /\ y = - n /\ x = - m
            BY <1>2, <1>4, <2>3
        <3>2. d * y = - z
            BY <2>1, <3>1
        <3> QED
            BY <2>2, <2>3, <3>1, <3>2
    <2>4. CASE x < 0 /\ ~ (y < 0)
        <3>1. d = - q /\ y = n /\ x = - m
            BY <1>2, <1>4, <2>4
        <3>2. d * y = - z
            BY <2>1, <3>1
        <3> QED
            BY <2>2, <2>4, <3>1, <3>2
    <2>5. CASE ~ (x < 0) /\ y < 0
        <3>1. d = - q /\ y = - n /\ x = m
            BY <1>2, <1>4, <2>5
        <3>2. d * y = z
            BY <2>1, <3>1
        <3> QED
            BY <2>2, <2>5, <3>1, <3>2
    <2>6. CASE ~ (x < 0) /\ ~ (y < 0)
        <3>1. d = q /\ y = n /\ x = m
            BY <1>2, <1>4, <2>6
        <3>2. d * y = z
            BY <2>1, <3>1
        <3> QED
            BY <2>2, <2>6, <3>1, <3>2
    <2> QED
        BY <2>3, <2>4, <2>5, <2>6
<1> QED
    BY <1>1, <1>7, <1>8, <1>9, <1>10

----------------------------------------------------------------------------
(* The values on a piece of the stack. *)

JavaValue == [kind : {"int", "long"} \cup Types, v : Int]

\* f reads the values of ever more words.
Reading(f, ts, words) ==
    f = [n \in 0 .. Len(ts) |->
            IF n = 0 THEN << >>
            ELSE IF ts[n] = "high" THEN f[n - 1]
            ELSE Append(f[n - 1], ValueAt(ts, words, n))]

\* The first n words of a piece.
ReadingTo(f, k, ts, words) ==
    f = [n \in 0 .. k |->
            IF n = 0 THEN << >>
            ELSE IF ts[n] = "high" THEN f[n - 1]
            ELSE Append(f[n - 1], ValueAt(ts, words, n))]

LEMMA ReadingExists ==
    ASSUME NEW ts, NEW words, Len(ts) \in Nat
    PROVE  \E f : Reading(f, ts, words)
<1>1. PICK k \in Nat : k = Len(ts)
    OBVIOUS
<1> DEFINE X == {m \in Nat : \E f : ReadingTo(f, m, ts, words)}
<1>2. 0 \in X
    <2>1. ReadingTo([n \in 0 .. 0 |-> << >>], 0, ts, words)
        BY DEF ReadingTo
    <2> QED
        BY <2>1
<1>3. ASSUME NEW m \in Nat, m \in X PROVE m + 1 \in X
    <2>1. PICK f : ReadingTo(f, m, ts, words)
        BY <1>3
    <2>2. PICK e : e = IF ts[m + 1] = "high" THEN f[m]
                       ELSE Append(f[m], ValueAt(ts, words, m + 1))
        OBVIOUS
    <2> DEFINE g == [n \in 0 .. m + 1 |-> IF n = m + 1 THEN e ELSE f[n]]
    <2>3. ASSUME NEW n \in 0 .. m + 1
          PROVE  g[n] = IF n = 0 THEN << >>
                        ELSE IF ts[n] = "high" THEN g[n - 1]
                        ELSE Append(g[n - 1], ValueAt(ts, words, n))
        <3>1. CASE n = m + 1
            <4>1. g[n] = e /\ g[n - 1] = f[m] /\ n # 0
                BY <3>1
            <4> QED
                BY <2>2, <3>1, <4>1
        <3>2. CASE n # m + 1
            <4>1. n \in 0 .. m /\ g[n] = f[n] /\ (n # 0 => g[n - 1] = f[n - 1])
                BY <3>2
            <4>2. f[n] = IF n = 0 THEN << >>
                         ELSE IF ts[n] = "high" THEN f[n - 1]
                         ELSE Append(f[n - 1], ValueAt(ts, words, n))
                BY <2>1, <4>1 DEF ReadingTo
            <4> QED
                BY <4>1, <4>2
        <3> QED
            BY <3>1, <3>2
    <2>4. ReadingTo(g, m + 1, ts, words)
        BY <2>3 DEF ReadingTo
    <2> QED
        BY <2>4
<1>4. Nat \subseteq X
    <2> HIDE DEF X
    <2> QED
        BY <1>2, <1>3, SetInduction
<1>5. PICK f : ReadingTo(f, k, ts, words)
    BY <1>4
<1> QED
    BY <1>1, <1>5 DEF Reading, ReadingTo

\* The words of a piece and what they are read as.
Piece(ts, words) ==
    /\ ts \in Seq(Tags) /\ Paired(ts)
    /\ \A p \in 1 .. Len(ts) : words[p] \in WordValues

LEMMA ValueTyped ==
    ASSUME NEW ts, NEW words, Piece(ts, words), NEW p \in 1 .. Len(ts), ts[p] # "high"
    PROVE  ValueAt(ts, words, p) \in JavaValue
<1>1. ts[p] \in Tags /\ words[p] \in WordValues
    BY DEF Piece
<1>2. Values(Four) \in Nat /\ words[p] \in Int
    <2>1. Values(Four) \in Nat
        BY ValuesTyped DEF Four
    <2> QED
        BY <1>1, <2>1 DEF WordValues
<1>3. CASE ts[p] = "int"
    <2>1. S(Four, words[p]) \in Int
        BY <1>2, CastTyped DEF Four
    <2>2. ValueAt(ts, words, p) = [kind |-> "int", v |-> S(Four, words[p])]
        BY <1>3 DEF ValueAt
    <2> QED
        BY <2>1, <2>2 DEF JavaValue
<1>4. CASE ts[p] = "low"
    <2>1. p + 1 \in 1 .. Len(ts)
        BY <1>4 DEF Piece, Paired
    <2>2. words[p + 1] \in Int
        BY <2>1 DEF Piece, WordValues
    <2>3. words[p] + Values(Four) * words[p + 1] \in Int
        BY <1>2, <2>2
    <2>4. S(Eight, words[p] + Values(Four) * words[p + 1]) \in Int
        BY <2>3, CastTyped DEF Eight
    <2>5. ValueAt(ts, words, p) =
              [kind |-> "long", v |-> S(Eight, words[p] + Values(Four) * words[p + 1])]
        BY <1>4 DEF ValueAt
    <2> QED
        BY <2>4, <2>5 DEF JavaValue
<1>5. CASE ts[p] \in Types
    <2>1. ts[p] # "int" /\ ts[p] # "low"
        BY <1>5 DEF Types
    <2>2. ValueAt(ts, words, p) = [kind |-> ts[p], v |-> words[p]]
        BY <2>1 DEF ValueAt
    <2> QED
        BY <1>2, <1>5, <2>2 DEF JavaValue
<1> QED
    BY <1>1, <1>3, <1>4, <1>5 DEF Tags

LEMMA ReadingTyped ==
    ASSUME NEW ts, NEW words, Piece(ts, words), NEW f, Reading(f, ts, words)
    PROVE  /\ \A n \in 0 .. Len(ts) : f[n] \in Seq(JavaValue)
           /\ f[0] = << >>
           /\ \A n \in 1 .. Len(ts) : f[n] = IF ts[n] = "high" THEN f[n - 1]
                                             ELSE Append(f[n - 1], ValueAt(ts, words, n))
<1>1. PICK k \in Nat : k = Len(ts)
    BY DEF Piece
<1>2. f[0] = << >>
    BY <1>1 DEF Reading
<1>3. ASSUME NEW n \in 1 .. k
      PROVE  f[n] = IF ts[n] = "high" THEN f[n - 1] ELSE Append(f[n - 1], ValueAt(ts, words, n))
    <2>1. n \in 0 .. k /\ n # 0
        OBVIOUS
    <2> QED
        BY <1>1, <2>1 DEF Reading
<1> DEFINE X == {m \in Nat : m <= k => f[m] \in Seq(JavaValue)}
<1>4. 0 \in X
    <2>1. << >> \in Seq(JavaValue)
        <3> HIDE DEF X
        <3> QED
            OBVIOUS
    <2> QED
        BY <1>2, <2>1
<1>5. ASSUME NEW m \in Nat, m \in X PROVE m + 1 \in X
    <2> SUFFICES ASSUME m + 1 <= k PROVE f[m + 1] \in Seq(JavaValue)
        OBVIOUS
    <2>1. PICK s \in Seq(JavaValue) : s = f[m]
        BY <1>5
    <2>2. m + 1 \in 1 .. k /\ (m + 1) - 1 = m
        OBVIOUS
    <2>3. CASE ts[m + 1] = "high"
        BY <1>3, <2>1, <2>2, <2>3
    <2>4. CASE ts[m + 1] # "high"
        <3>1. ValueAt(ts, words, m + 1) \in JavaValue
            BY <1>1, <2>2, <2>4, ValueTyped
        <3>2. f[m + 1] = Append(s, ValueAt(ts, words, m + 1))
            BY <1>3, <2>1, <2>2, <2>4
        <3> QED
            BY <3>1, <3>2, AppendProperties
    <2> QED
        BY <2>3, <2>4
<1>6. Nat \subseteq X
    <2> HIDE DEF X
    <2> QED
        BY <1>4, <1>5, SetInduction
<1> QED
    BY <1>1, <1>2, <1>3, <1>6

LEMMA ValuesRead ==
    ASSUME NEW ts, NEW words, Piece(ts, words)
    PROVE  \E f : Reading(f, ts, words) /\ ValuesIn(ts, words) = f[Len(ts)]
<1> DEFINE f == CHOOSE f : Reading(f, ts, words)
<1>1. Reading(f, ts, words)
    <2>1. Len(ts) \in Nat
        BY DEF Piece
    <2>2. \E g : Reading(g, ts, words)
        BY <2>1, ReadingExists
    <2> QED
        BY <2>2
<1>2. ValuesIn(ts, words) = f[Len(ts)]
    BY DEF ValuesIn, Reading
<1> QED
    BY <1>1, <1>2

\* Pieces between boundaries are read one after the other.
LEMMA ValuesSplit ==
    ASSUME NEW s, NEW v, Piece(s, v), NEW t, NEW u, Piece(t, u), NEW words,
           \A p \in 1 .. Len(s) : words[p] = v[p],
           \A p \in 1 .. Len(t) : words[Len(s) + p] = u[p]
    PROVE  /\ Piece(s \o t, words)
           /\ ValuesIn(s, v) \in Seq(JavaValue) /\ ValuesIn(t, u) \in Seq(JavaValue)
           /\ ValuesIn(s \o t, words) = ValuesIn(s, v) \o ValuesIn(t, u)
<1>1. PICK k \in Nat, l \in Nat : k = Len(s) /\ l = Len(t)
    BY DEF Piece
<1>2. PICK c : c = s \o t
    OBVIOUS
<1>3. /\ c \in Seq(Tags) /\ Len(c) = k + l /\ Paired(c)
      /\ \A p \in 1 .. k + l : c[p] = IF p <= k THEN s[p] ELSE t[p - k]
    <2>1. s \in Seq(Tags) /\ t \in Seq(Tags) /\ Paired(s) /\ Paired(t)
        BY DEF Piece
    <2>2. c \in Seq(Tags) /\ Len(c) = k + l /\ Paired(c)
        BY <1>1, <1>2, <2>1, ConcatPaired
    <2>3. \A p \in 1 .. k + l : (s \o t)[p] = IF p <= k THEN s[p] ELSE t[p - k]
        BY ONLY <1>1, <2>1, ConcatProperties
    <2> QED
        BY <1>2, <2>2, <2>3
<1>4. \A p \in 1 .. k : c[p] = s[p] /\ words[p] = v[p]
    BY <1>1, <1>3
<1>5. ASSUME NEW p \in 1 .. l PROVE c[k + p] = t[p] /\ words[k + p] = u[p]
    <2>1. k + p \in 1 .. k + l /\ ~ (k + p <= k) /\ (k + p) - k = p
        OBVIOUS
    <2>2. c[k + p] = t[p]
        BY <1>3, <2>1
    <2> QED
        BY <1>1, <2>2
<1>6. Piece(c, words)
    <2> SUFFICES ASSUME NEW p \in 1 .. k + l PROVE words[p] \in WordValues
        BY <1>3 DEF Piece
    <2>1. CASE p <= k
        BY <1>1, <1>4, <2>1 DEF Piece
    <2>2. CASE p > k
        <3>1. PICK q \in 1 .. l : p = k + q
            <4>1. p - k \in 1 .. l /\ p = k + (p - k)
                BY <2>2
            <4> QED
                BY <4>1
        <3> QED
            BY <1>1, <1>5, <3>1 DEF Piece
    <2> QED
        BY <2>1, <2>2
<1>7. PICK f : Reading(f, s, v) /\ ValuesIn(s, v) = f[k]
    BY <1>1, ValuesRead
<1>8. PICK h : Reading(h, t, u) /\ ValuesIn(t, u) = h[l]
    BY <1>1, ValuesRead
<1>9. PICK g : Reading(g, c, words) /\ ValuesIn(c, words) = g[k + l]
    BY <1>3, <1>6, ValuesRead
<1>10. /\ \A n \in 0 .. k : f[n] \in Seq(JavaValue)
       /\ f[0] = << >>
       /\ \A n \in 1 .. k : f[n] = IF s[n] = "high" THEN f[n - 1]
                                   ELSE Append(f[n - 1], ValueAt(s, v, n))
    BY <1>1, <1>7, ReadingTyped
<1>11. /\ \A n \in 0 .. l : h[n] \in Seq(JavaValue)
       /\ h[0] = << >>
       /\ \A n \in 1 .. l : h[n] = IF t[n] = "high" THEN h[n - 1]
                                   ELSE Append(h[n - 1], ValueAt(t, u, n))
    BY <1>1, <1>8, ReadingTyped
<1>12. /\ g[0] = << >>
       /\ \A n \in 1 .. k + l : g[n] = IF c[n] = "high" THEN g[n - 1]
                                       ELSE Append(g[n - 1], ValueAt(c, words, n))
    BY <1>3, <1>6, <1>9, ReadingTyped
<1>13. ASSUME NEW p \in 1 .. k PROVE ValueAt(c, words, p) = ValueAt(s, v, p)
    <2>1. c[p] = s[p] /\ words[p] = v[p]
        BY <1>4
    <2>2. s[p] = "low" => words[p + 1] = v[p + 1]
        <3> SUFFICES ASSUME s[p] = "low" PROVE words[p + 1] = v[p + 1]
            OBVIOUS
        <3>1. p + 1 \in 1 .. k
            BY <1>1 DEF Piece, Paired
        <3> QED
            BY <1>4, <3>1
    <2> QED
        BY <2>1, <2>2 DEF ValueAt
<1>14. ASSUME NEW p \in 1 .. l PROVE ValueAt(c, words, k + p) = ValueAt(t, u, p)
    <2>1. c[k + p] = t[p] /\ words[k + p] = u[p]
        BY <1>5
    <2>2. t[p] = "low" => words[(k + p) + 1] = u[p + 1]
        <3> SUFFICES ASSUME t[p] = "low" PROVE words[(k + p) + 1] = u[p + 1]
            OBVIOUS
        <3>1. p + 1 \in 1 .. l /\ (k + p) + 1 = k + (p + 1)
            BY <1>1 DEF Piece, Paired
        <3>2. words[k + (p + 1)] = u[p + 1]
            BY <1>5, <3>1
        <3> QED
            BY <3>1, <3>2
    <2> QED
        BY <2>1, <2>2 DEF ValueAt
<1> DEFINE X == {m \in Nat : m <= k => g[m] = f[m]}
<1>15. \A m \in 0 .. k : g[m] = f[m]
    <2>1. 0 \in X
        BY <1>10, <1>12
    <2>2. ASSUME NEW m \in Nat, m \in X PROVE m + 1 \in X
        <3> SUFFICES ASSUME m + 1 <= k PROVE g[m + 1] = f[m + 1]
            OBVIOUS
        <3>1. m + 1 \in 1 .. k /\ m + 1 \in 1 .. k + l /\ (m + 1) - 1 = m /\ g[m] = f[m]
            BY <2>2
        <3>2. c[m + 1] = s[m + 1] /\ ValueAt(c, words, m + 1) = ValueAt(s, v, m + 1)
            BY <1>4, <1>13, <3>1
        <3>3. f[m + 1] = IF s[m + 1] = "high" THEN f[m]
                         ELSE Append(f[m], ValueAt(s, v, m + 1))
            BY <1>10, <3>1
        <3>4. g[m + 1] = IF c[m + 1] = "high" THEN g[m]
                         ELSE Append(g[m], ValueAt(c, words, m + 1))
            BY <1>12, <3>1
        <3> QED
            BY <3>1, <3>2, <3>3, <3>4
    <2>3. Nat \subseteq X
        <3> HIDE DEF X
        <3> QED
            BY <2>1, <2>2, SetInduction
    <2> QED
        BY <2>3
<1>16. f[k] \in Seq(JavaValue) /\ g[k] = f[k] /\ h[l] \in Seq(JavaValue)
    BY <1>10, <1>11, <1>15
<1>17. PICK join : \A m \in 0 .. l : join[m] = f[k] \o h[m]
    <2> DEFINE e == [m \in 0 .. l |-> f[k] \o h[m]]
    <2>1. \A m \in 0 .. l : e[m] = f[k] \o h[m]
        OBVIOUS
    <2> QED
        BY <2>1
<1> DEFINE Y == {m \in Nat : m <= l => g[k + m] = join[m]}
<1>18. g[k + l] = join[l]
    <2>1. 0 \in Y
        <3>1. f[k] \o << >> = f[k]
            <4>1. PICK e \in Seq(JavaValue) : e = f[k]
                BY <1>16
            <4>2. e \o << >> = e
                BY ConcatEmptySeq
            <4> QED
                BY <4>1, <4>2
        <3>2. join[0] = f[k]
            <4>1. 0 \in 0 .. l
                OBVIOUS
            <4>2. join[0] = f[k] \o h[0]
                BY <1>17, <4>1, Zenon
            <4> QED
                BY <1>11, <3>1, <4>2
        <3>3. g[k + 0] = join[0]
            BY <1>16, <3>2
        <3> QED
            BY <3>3
    <2>2. ASSUME NEW m \in Nat, m \in Y PROVE m + 1 \in Y
        <3> SUFFICES ASSUME m + 1 <= l PROVE g[k + (m + 1)] = join[m + 1]
            OBVIOUS
        <3>1. join[m] = f[k] \o h[m] /\ join[m + 1] = f[k] \o h[m + 1]
            <4>1. m \in 0 .. l /\ m + 1 \in 0 .. l
                OBVIOUS
            <4> QED
                BY <1>17, <4>1, Zenon
        <3>2. /\ m + 1 \in 1 .. l /\ k + (m + 1) \in 1 .. k + l
              /\ (m + 1) - 1 = m /\ (k + (m + 1)) - 1 = k + m /\ g[k + m] = join[m]
            BY <2>2
        <3>3. c[k + (m + 1)] = t[m + 1]
              /\ ValueAt(c, words, k + (m + 1)) = ValueAt(t, u, m + 1)
            BY <1>5, <1>14, <3>2
        <3>4. h[m + 1] = IF t[m + 1] = "high" THEN h[m]
                         ELSE Append(h[m], ValueAt(t, u, m + 1))
            BY <1>11, <3>2
        <3>5. g[k + (m + 1)] = IF c[k + (m + 1)] = "high" THEN g[k + m]
                               ELSE Append(g[k + m], ValueAt(c, words, k + (m + 1)))
            BY <1>12, <3>2
        <3>6. CASE t[m + 1] = "high"
            BY <3>1, <3>2, <3>3, <3>4, <3>5, <3>6
        <3>7. CASE t[m + 1] # "high"
            <4>1. PICK e \in Seq(JavaValue), d \in Seq(JavaValue) : e = f[k] /\ d = h[m]
                <5>1. m \in 0 .. l
                    BY <3>2
                <5> QED
                    BY <1>11, <1>16, <5>1
            <4>2. PICK x \in JavaValue : x = ValueAt(t, u, m + 1)
                BY <1>1, <3>2, <3>7, ValueTyped
            <4>3. Append(e \o d, x) = e \o Append(d, x)
                <5>1. e \o d \in Seq(JavaValue) /\ <<x>> \in Seq(JavaValue)
                    BY ConcatProperties
                <5>2. Append(e \o d, x) = (e \o d) \o <<x>> /\ Append(d, x) = d \o <<x>>
                    BY <5>1, AppendIsConcat
                <5>3. (e \o d) \o <<x>> = e \o (d \o <<x>>)
                    BY <5>1, ConcatAssociative
                <5> QED
                    BY <5>2, <5>3
            <4> QED
                BY <3>1, <3>2, <3>3, <3>4, <3>5, <3>7, <4>1, <4>2, <4>3
        <3> QED
            BY <3>6, <3>7
    <2>3. Nat \subseteq Y
        <3> HIDE DEF Y
        <3> QED
            BY <2>1, <2>2, SetInduction
    <2> QED
        BY <2>3
<1>19. g[k + l] = f[k] \o h[l]
    <2>1. l \in 0 .. l
        OBVIOUS
    <2> QED
        BY <1>17, <1>18, <2>1, Zenon
<1> QED
    BY <1>2, <1>6, <1>7, <1>8, <1>9, <1>16, <1>19

LEMMA NoValues ==
    ASSUME NEW words
    PROVE  Piece(<< >>, words) /\ ValuesIn(<< >>, words) = << >>
<1>1. Piece(<< >>, words)
    BY TagsTyped DEF Piece
<1>2. PICK f : Reading(f, << >>, words) /\ ValuesIn(<< >>, words) = f[Len(<< >>)]
    BY <1>1, ValuesRead
<1>3. f[0] = << >>
    BY <1>1, <1>2, ReadingTyped
<1> QED
    BY <1>1, <1>2, <1>3

\* An integer of one word, or a reference.
LEMMA WordValue ==
    ASSUME NEW t \in {"int"} \cup Types, NEW words, words[1] \in WordValues
    PROVE  /\ Piece(<<t>>, words)
           /\ ValuesIn(<<t>>, words) =
                  <<[kind |-> t, v |-> IF t = "int" THEN S(Four, words[1]) ELSE words[1]]>>
<1> DEFINE ts == <<t>>
<1>1. ts \in Seq(Tags) /\ Paired(ts)
    BY TagsTyped
<1>2. Len(ts) = 1 /\ ts[1] = t
    OBVIOUS
<1>3. t # "high" /\ t # "low"
    BY DEF Types
<1> HIDE DEF ts
<1>4. Piece(ts, words)
    BY <1>1, <1>2 DEF Piece
<1>5. PICK f : Reading(f, ts, words) /\ ValuesIn(ts, words) = f[1]
    BY <1>2, <1>4, ValuesRead
<1>6. 1 \in 1 .. Len(ts) /\ 1 - 1 = 0
    BY <1>2
<1>7. /\ f[0] = << >>
      /\ f[1] = Append(f[0], ValueAt(ts, words, 1))
    <2>1. /\ f[0] = << >>
          /\ \A n \in 1 .. Len(ts) : f[n] = IF ts[n] = "high" THEN f[n - 1]
                                            ELSE Append(f[n - 1], ValueAt(ts, words, n))
        BY <1>4, <1>5, ReadingTyped
    <2> QED
        BY <1>2, <1>3, <1>6, <2>1
<1>8. ValueAt(ts, words, 1) =
          [kind |-> t, v |-> IF t = "int" THEN S(Four, words[1]) ELSE words[1]]
    BY <1>2, <1>3 DEF ValueAt
<1>9. ASSUME NEW x PROVE Append(<< >>, x) = <<x>>
    OBVIOUS
<1> QED
    BY <1>4, <1>5, <1>7, <1>8, <1>9 DEF ts

LEMMA LongValue ==
    ASSUME NEW words, words[1] \in WordValues, words[2] \in WordValues
    PROVE  /\ Piece(<<"low", "high">>, words)
           /\ ValuesIn(<<"low", "high">>, words) =
                  <<[kind |-> "long", v |-> S(Eight, words[1] + Values(Four) * words[2])]>>
<1> DEFINE ts == <<"low", "high">>
<1>1. ts \in Seq(Tags) /\ Paired(ts)
    BY TagsTyped
<1>2. Len(ts) = 2 /\ ts[1] = "low" /\ ts[2] = "high"
    OBVIOUS
<1> HIDE DEF ts
<1>3. Piece(ts, words)
    <2>1. \A p \in 1 .. 2 : words[p] \in WordValues
        <3> SUFFICES ASSUME NEW p \in 1 .. 2 PROVE words[p] \in WordValues
            OBVIOUS
        <3>1. p = 1 \/ p = 2
            OBVIOUS
        <3> QED
            BY <3>1
    <2> QED
        BY <1>1, <1>2, <2>1 DEF Piece
<1>4. PICK f : Reading(f, ts, words) /\ ValuesIn(ts, words) = f[2]
    BY <1>2, <1>3, ValuesRead
<1>5. 1 \in 1 .. Len(ts) /\ 1 - 1 = 0 /\ 2 \in 1 .. Len(ts) /\ 2 - 1 = 1
    BY <1>2
<1>6. /\ f[0] = << >>
      /\ \A n \in 1 .. Len(ts) : f[n] = IF ts[n] = "high" THEN f[n - 1]
                                        ELSE Append(f[n - 1], ValueAt(ts, words, n))
    BY <1>3, <1>4, ReadingTyped
<1>7. f[1] = Append(f[0], ValueAt(ts, words, 1)) /\ f[2] = f[1]
    BY <1>2, <1>5, <1>6
<1>8. ValueAt(ts, words, 1) =
          [kind |-> "long", v |-> S(Eight, words[1] + Values(Four) * words[2])]
    BY <1>2 DEF ValueAt
<1>9. ASSUME NEW x PROVE Append(<< >>, x) = <<x>>
    OBVIOUS
<1> QED
    BY <1>3, <1>4, <1>6, <1>7, <1>8, <1>9 DEF ts

\* A number of k bytes.
NumberIn(k, words) == IF k = Four THEN words[1] ELSE words[1] + Values(Four) * words[2]

LEMMA NumberValue ==
    ASSUME NEW k \in Sizes, NEW words, \A p \in 1 .. WordsOf(k) : words[p] \in WordValues
    PROVE  /\ Piece(TagsOf(k), words)
           /\ NumberIn(k, words) \in 0 .. Values(k) - 1
           /\ ValuesIn(TagsOf(k), words) = <<Java!Integer(k, NumberIn(k, words))>>
<1>1. CASE k = Four
    <2>1. WordsOf(k) = 1 /\ TagsOf(k) = <<"int">> /\ NumberIn(k, words) = words[1]
        BY <1>1 DEF WordsOf, TagsOf, NumberIn, Four
    <2>2. words[1] \in WordValues
        BY <2>1
    <2>3. Java!Integer(k, words[1]) = [kind |-> "int", v |-> S(Four, words[1])]
        BY <1>1, JavaWords DEF Java!Integer, Java!Value, Java!Kinds
    <2> QED
        BY <1>1, <2>1, <2>2, <2>3, WordValue DEF WordValues
<1>2. CASE k = Eight
    <2>1. k # Four
        BY <1>2 DEF Eight, Four
    <2>2. /\ WordsOf(k) = 2 /\ TagsOf(k) = <<"low", "high">>
          /\ NumberIn(k, words) = words[1] + Values(Four) * words[2]
        BY <1>2, <2>1 DEF WordsOf, TagsOf, NumberIn, Four, Eight
    <2>3. words[1] \in WordValues /\ words[2] \in WordValues
        BY <2>2
    <2>4. NumberIn(k, words) \in 0 .. Values(k) - 1
        BY <1>2, <2>2, <2>3, TwoWordsTyped
    <2>5. Java!Integer(k, NumberIn(k, words)) =
              [kind |-> "long", v |-> S(Eight, NumberIn(k, words))]
        BY <1>2, <2>1, JavaWords DEF Java!Integer, Java!Value, Java!Kinds
    <2> QED
        BY <2>2, <2>3, <2>4, <2>5, LongValue
<1> QED
    BY <1>1, <1>2 DEF Sizes

----------------------------------------------------------------------------
(* The stack of Java values before and after a step. *)

\* l words above the first d.
Segment(m, d, l) == [j \in 1 .. l |-> m[d + j]]

LEMMA SegmentsRead ==
    ASSUME NEW s \in Seq(Tags), NEW t \in Seq(Tags), Paired(s), Paired(t), NEW words,
           \A p \in 1 .. Len(s) + Len(t) : words[p] \in WordValues
    PROVE  /\ Piece(s, words) /\ Piece(t, Segment(words, Len(s), Len(t)))
           /\ ValuesIn(s, words) \in Seq(JavaValue)
           /\ ValuesIn(t, Segment(words, Len(s), Len(t))) \in Seq(JavaValue)
           /\ ValuesIn(s \o t, words) =
                  ValuesIn(s, words) \o ValuesIn(t, Segment(words, Len(s), Len(t)))
<1>1. PICK k \in Nat, l \in Nat : k = Len(s) /\ l = Len(t)
    OBVIOUS
<1>2. PICK u : u = Segment(words, k, l) /\ \A p \in 1 .. l : u[p] = words[k + p]
    <2>1. \A p \in 1 .. l : Segment(words, k, l)[p] = words[k + p]
        BY DEF Segment
    <2> QED
        BY <2>1
<1>3. \A p \in 1 .. k : p \in 1 .. k + l
    OBVIOUS
<1>4. \A p \in 1 .. l : k + p \in 1 .. k + l
    OBVIOUS
<1>5. Piece(s, words)
    BY <1>1, <1>3 DEF Piece
<1>6. Piece(t, u)
    BY <1>1, <1>2, <1>4 DEF Piece
<1>7. \A p \in 1 .. Len(t) : words[Len(s) + p] = u[p]
    BY <1>1, <1>2
<1>8. /\ ValuesIn(s, words) \in Seq(JavaValue) /\ ValuesIn(t, u) \in Seq(JavaValue)
      /\ ValuesIn(s \o t, words) = ValuesIn(s, words) \o ValuesIn(t, u)
    BY <1>5, <1>6, <1>7, ValuesSplit
<1>9. Segment(words, Len(s), Len(t)) = u
    BY <1>1, <1>2
<1> QED
    BY <1>5, <1>6, <1>8, <1>9

\* The words old on top, and what lies below them.
LEMMA StackParts ==
    ASSUME StackOK, NEW old \in Seq(Tags), NEW n, n = Len(old), n \in 0 .. optop, Boundary(n),
           \A j \in 1 .. n : tags[(optop - n) + j] = old[j]
    PROVE  /\ Piece(old, Segment(mem, optop - n, n))
           /\ ValuesIn(old, Segment(mem, optop - n, n)) \in Seq(JavaValue)
           /\ \E rest \in Seq(Tags) :
                 /\ rest = SubSeq(tags, 1, optop - n) /\ Len(rest) = optop - n /\ Paired(rest)
                 /\ Piece(rest, mem) /\ ValuesIn(rest, mem) \in Seq(JavaValue)
                 /\ JavaStack = ValuesIn(rest, mem) \o ValuesIn(old, Segment(mem, optop - n, n))
<1>1. PICK d \in Nat, o \in Nat, w \in Nat : d = optop - n /\ o = optop /\ w = StackWords
    <2>1. StackWords \in Nat
        BY OperationsAssumption
    <2>2. optop \in Nat
        BY DEF StackOK
    <2>3. optop - n \in Nat
        BY <2>2
    <2> QED
        BY <2>1, <2>2, <2>3
<1>2. /\ tags \in Seq(Tags) /\ Len(tags) = o /\ d \in 0 .. o /\ Paired(tags)
      /\ n \in 0 .. o /\ o = d + n /\ o <= w
    BY <1>1 DEF StackOK
<1>3. d < o => tags[d + 1] # "high"
    <2>1. (optop - n) + 1 = d + 1 /\ (d < o => n > 0)
        BY <1>1, <1>2
    <2> QED
        BY <1>1, <1>2, <2>1 DEF Boundary
<1>4. 0 < o => tags[1] # "high"
    <2> SUFFICES ASSUME 0 < o, tags[1] = "high" PROVE FALSE
        OBVIOUS
    <2>1. 1 \in 1 .. Len(tags)
        BY <1>2
    <2> QED
        BY <2>1, <1>2 DEF Paired
<1>5. PICK rest : /\ rest = SubSeq(tags, 1, d) /\ rest \in Seq(Tags) /\ Len(rest) = d
                  /\ Paired(rest) /\ \A p \in 1 .. d : rest[p] = tags[p]
    <2>1. 0 \in 0 .. Len(tags) /\ d \in 0 .. Len(tags)
        BY <1>2
    <2>2. 0 < Len(tags) => tags[0 + 1] # "high"
        BY <1>2, <1>4
    <2>3. d < Len(tags) => tags[d + 1] # "high"
        BY <1>2, <1>3
    <2>4. /\ SubSeq(tags, 0 + 1, d) \in Seq(Tags) /\ Len(SubSeq(tags, 0 + 1, d)) = d - 0
          /\ \A p \in 1 .. d - 0 : SubSeq(tags, 0 + 1, d)[p] = tags[0 + p]
          /\ Paired(SubSeq(tags, 0 + 1, d))
        BY <1>2, <2>1, <2>2, <2>3, SegmentPaired
    <2>5. /\ SubSeq(tags, 1, d) \in Seq(Tags) /\ Len(SubSeq(tags, 1, d)) = d
          /\ \A p \in 1 .. d : SubSeq(tags, 1, d)[p] = tags[p]
          /\ Paired(SubSeq(tags, 1, d))
        BY <2>4
    <2> QED
        BY <2>5
<1>6. Paired(old)
    <2>1. d \in 0 .. Len(tags) /\ o \in d .. Len(tags)
        BY <1>2
    <2>2. o < Len(tags) => tags[o + 1] # "high"
        BY <1>2
    <2>3. /\ SubSeq(tags, d + 1, o) \in Seq(Tags) /\ Len(SubSeq(tags, d + 1, o)) = o - d
          /\ \A p \in 1 .. o - d : SubSeq(tags, d + 1, o)[p] = tags[d + p]
          /\ Paired(SubSeq(tags, d + 1, o))
        BY <1>2, <1>3, <2>1, <2>2, SegmentPaired
    <2>4. SubSeq(tags, d + 1, o) = old
        <3>1. PICK x : /\ x = SubSeq(tags, d + 1, o) /\ x \in Seq(Tags)
                       /\ Len(x) = o - d /\ \A p \in 1 .. o - d : x[p] = tags[d + p]
            BY <2>3
        <3>2. x \in Seq(Tags) /\ Len(x) = n /\ \A p \in 1 .. n : x[p] = old[p]
            <4>1. o - d = n
                BY <1>2
            <4>2. \A p \in 1 .. n : tags[d + p] = old[p]
                BY <1>1
            <4> QED
                BY <3>1, <4>1, <4>2
        <3>3. x = old
            BY <3>2
        <3> QED
            BY <3>1, <3>3
    <2> QED
        BY <2>3, <2>4
<1>7. tags = rest \o old
    <2>1. PICK x : x = rest \o old
        OBVIOUS
    <2>2. x \in Seq(Tags) /\ Len(x) = d + n
        BY <1>5, <2>1
    <2>3. \A p \in 1 .. d + n : x[p] = IF p <= d THEN rest[p] ELSE old[p - d]
        BY ONLY <1>5, <2>1, old \in Seq(Tags), n = Len(old), ConcatProperties
    <2>4. ASSUME NEW p \in 1 .. d + n PROVE x[p] = tags[p]
        <3>1. CASE p <= d
            BY <1>5, <2>3, <3>1
        <3>2. CASE p > d
            <4>1. PICK j \in 1 .. n : j = p - d /\ d + j = p
                BY <1>2, <3>2
            <4>2. x[p] = old[j]
                BY <1>2, <2>3, <3>2, <4>1
            <4> QED
                BY <1>1, <4>1, <4>2
        <3> QED
            BY <3>1, <3>2
    <2>5. x = tags
        BY <1>2, <2>2, <2>4
    <2> QED
        BY <2>1, <2>5
<1>8. \A p \in 1 .. d + n : mem[p] \in WordValues
    BY <1>1, <1>2 DEF StackOK
<1>9. /\ Piece(old, Segment(mem, d, n))
       /\ Piece(rest, mem) /\ ValuesIn(rest, mem) \in Seq(JavaValue)
       /\ ValuesIn(old, Segment(mem, d, n)) \in Seq(JavaValue)
       /\ ValuesIn(rest \o old, mem) = ValuesIn(rest, mem) \o ValuesIn(old, Segment(mem, d, n))
    <2>1. d = Len(rest) /\ n = Len(old) /\ rest \in Seq(Tags) /\ Paired(rest)
        BY <1>5
    <2>2. \A p \in 1 .. Len(rest) + Len(old) : mem[p] \in WordValues
        BY <1>8, <2>1
    <2> QED
        BY <1>6, <2>1, <2>2, SegmentsRead
<1>10. JavaStack = ValuesIn(rest, mem) \o ValuesIn(old, Segment(mem, d, n))
    BY <1>7, <1>9 DEF JavaStack
<1> QED
    BY <1>1, <1>5, <1>9, <1>10

\* The words old on top are replaced by the words ts.
LEMMA StackStep ==
    ASSUME StackOK, NEW old \in Seq(Tags), NEW n, n = Len(old), NEW ts,
           Fits(n, mem', ts), Retag(n, ts),
           \A j \in 1 .. n : tags[(optop - n) + j] = old[j]
    PROVE  /\ Piece(old, Segment(mem, optop - n, n))
           /\ Piece(ts, Segment(mem', optop - n, Len(ts)))
           /\ ValuesIn(old, Segment(mem, optop - n, n)) \in Seq(JavaValue)
           /\ ValuesIn(ts, Segment(mem', optop - n, Len(ts))) \in Seq(JavaValue)
           /\ \E rest \in Seq(JavaValue) :
                 /\ JavaStack = rest \o ValuesIn(old, Segment(mem, optop - n, n))
                 /\ JavaStack' = rest \o ValuesIn(ts, Segment(mem', optop - n, Len(ts)))
<1>1. n \in 0 .. optop /\ Boundary(n) /\ optop \in Nat
    BY DEF Fits, StackOK
<1>2. PICK d \in Nat : d = optop - n
    BY <1>1
<1>3. PICK rest \in Seq(Tags) :
          /\ rest = SubSeq(tags, 1, d) /\ Len(rest) = d /\ Paired(rest)
          /\ Piece(rest, mem) /\ ValuesIn(rest, mem) \in Seq(JavaValue)
          /\ JavaStack = ValuesIn(rest, mem) \o ValuesIn(old, Segment(mem, d, n))
    BY <1>1, <1>2, StackParts
<1>4. /\ Piece(old, Segment(mem, d, n))
      /\ ValuesIn(old, Segment(mem, d, n)) \in Seq(JavaValue)
    BY <1>1, <1>2, StackParts
<1>5. tags' = rest \o ts
    BY <1>1, <1>2, <1>3 DEF Retag, StackOK
<1>6. PICK l \in Nat, w \in Nat : l = Len(ts) /\ w = StackWords
    BY OperationsAssumption DEF Fits
<1>7. ts \in Seq(Tags) /\ Paired(ts) /\ d + l <= w
    BY <1>2, <1>6 DEF Fits
<1>8. \A p \in 1 .. d + l : mem'[p] \in WordValues
    <2>1. mem' \in [1 .. w -> WordValues]
        BY <1>6 DEF Fits
    <2> QED
        BY <1>6, <1>7, <2>1
<1>9. PICK m : m = mem' /\ \A p \in 1 .. d : m[p] = mem[p]
    BY <1>2 DEF Fits
<1>10. /\ Piece(ts, Segment(m, d, l))
       /\ Piece(rest, m)
       /\ ValuesIn(ts, Segment(m, d, l)) \in Seq(JavaValue)
       /\ ValuesIn(rest \o ts, m) = ValuesIn(rest, m) \o ValuesIn(ts, Segment(m, d, l))
    <2>1. d = Len(rest) /\ l = Len(ts) /\ rest \in Seq(Tags) /\ Paired(rest)
        BY <1>3, <1>6
    <2>2. ts \in Seq(Tags) /\ Paired(ts)
        BY <1>7
    <2>3. \A p \in 1 .. Len(rest) + Len(ts) : m[p] \in WordValues
        BY <1>8, <1>9, <2>1
    <2> QED
        BY <2>1, <2>2, <2>3, SegmentsRead
<1>11. ValuesIn(rest, m) = ValuesIn(rest, mem)
    <2>1. Piece(<< >>, m) /\ ValuesIn(<< >>, m) = << >>
        BY NoValues
    <2>2. \A p \in 1 .. Len(rest) : m[p] = mem[p]
        BY <1>3, <1>9
    <2>3. ValuesIn(rest \o << >>, m) = ValuesIn(rest, mem) \o ValuesIn(<< >>, m)
        <3>1. PICK e : e = << >> /\ Len(e) = 0
            OBVIOUS
        <3>2. \A p \in 1 .. Len(e) : m[Len(rest) + p] = m[p]
            BY <3>1
        <3>3. Piece(e, m) /\ Piece(rest, mem)
            BY <1>3, <2>1, <3>1
        <3>4. ValuesIn(rest \o e, m) = ValuesIn(rest, mem) \o ValuesIn(e, m)
            BY <2>2, <3>2, <3>3, ValuesSplit
        <3> QED
            BY <3>1, <3>4
    <2>4. rest \o << >> = rest /\ ValuesIn(rest, mem) \o << >> = ValuesIn(rest, mem)
        BY <1>3, ConcatEmptySeq
    <2> QED
        BY <2>1, <2>3, <2>4
<1>12. JavaStack' = ValuesIn(tags', mem')
    BY DEF JavaStack
<1>13. JavaStack' = ValuesIn(rest, mem) \o ValuesIn(ts, Segment(m, d, l))
    BY <1>5, <1>9, <1>10, <1>11, <1>12
<1> QED
    BY <1>2, <1>3, <1>4, <1>6, <1>9, <1>10, <1>13

\* What Java's operations find on the stack and leave there.
LEMMA JavaTop ==
    ASSUME NEW rest \in Seq(JavaValue), NEW vals \in Seq(JavaValue), JavaStack = rest \o vals
    PROVE  /\ Java!Below(Len(vals)) = rest
           /\ \A i \in 1 .. Len(vals) : Java!Top(i) = vals[(Len(vals) + 1) - i].v
           /\ \A kinds : /\ vm = "running" /\ DOMAIN kinds = 1 .. Len(vals)
                         /\ Len(kinds) = Len(vals)
                         /\ \A i \in 1 .. Len(vals) : vals[i].kind = kinds[i]
                         => Java!Operands(kinds)
           /\ Len(vals) <= Len(JavaStack)
           /\ vm = "running" => Java!Operands(<< >>)
<1>1. PICK m \in Nat, n \in Nat : m = Len(rest) /\ n = Len(vals)
    OBVIOUS
<1>2. PICK st : st = rest \o vals
    OBVIOUS
<1>3. /\ st \in Seq(JavaValue) /\ Len(st) = m + n
      /\ \A p \in 1 .. m + n : st[p] = IF p <= m THEN rest[p] ELSE vals[p - m]
    <2>1. st \in Seq(JavaValue) /\ Len(st) = m + n
        BY <1>1, <1>2, ConcatProperties
    <2>2. \A p \in 1 .. m + n : (rest \o vals)[p] = IF p <= m THEN rest[p] ELSE vals[p - m]
        BY ONLY <1>1, rest \in Seq(JavaValue), vals \in Seq(JavaValue), ConcatProperties
    <2> QED
        BY <1>2, <2>1, <2>2
<1>4. JavaStack = st
    BY <1>2
<1>5. ASSUME NEW i \in 1 .. n PROVE st[m + i] = vals[i]
    <2>1. m + i \in 1 .. m + n /\ ~ (m + i <= m) /\ (m + i) - m = i
        OBVIOUS
    <2> QED
        BY <1>3, <2>1
<1>6. SubSeq(st, 1, m) = rest
    <2>1. PICK x : x = SubSeq(st, 1, m)
        OBVIOUS
    <2>2. \A p \in 1 .. m : p \in 1 .. m + n /\ st[p] = rest[p]
        BY <1>3
    <2>3. x \in Seq(JavaValue) /\ Len(x) = m /\ \A p \in 1 .. m : x[p] = st[p]
        <3>1. 1 \in Int /\ m \in Int /\ \A p \in 1 .. m : st[p] \in JavaValue
            BY <1>1, <2>2
        <3>2. /\ SubSeq(st, 1, m) \in Seq(JavaValue)
              /\ Len(SubSeq(st, 1, m)) = IF 1 <= m THEN m - 1 + 1 ELSE 0
              /\ \A p \in 1 .. m - 1 + 1 : SubSeq(st, 1, m)[p] = st[1 + p - 1]
            BY <3>1, SubSeqProperties
        <3> QED
            BY <2>1, <3>2
    <2>4. x = rest
        BY <1>1, <2>2, <2>3
    <2> QED
        BY <2>1, <2>4
<1>7. Java!Below(n) = rest
    <2>1. Len(JavaStack) - n = m
        BY <1>3, <1>4
    <2> QED
        BY <1>4, <1>6, <2>1 DEF Java!Below
<1>8. ASSUME NEW i \in 1 .. n PROVE Java!Top(i) = vals[(n + 1) - i].v
    <2>1. (Len(JavaStack) + 1) - i = m + ((n + 1) - i) /\ (n + 1) - i \in 1 .. n
        <3>1. Len(JavaStack) = m + n
            BY <1>3, <1>4
        <3>2. ((m + n) + 1) - i = m + ((n + 1) - i) /\ (n + 1) - i \in 1 .. n
            OBVIOUS
        <3> QED
            BY <3>1, <3>2
    <2>2. st[m + ((n + 1) - i)] = vals[(n + 1) - i]
        BY <1>5, <2>1
    <2> QED
        BY <1>4, <2>1, <2>2 DEF Java!Top
<1>9. ASSUME NEW kinds, vm = "running", DOMAIN kinds = 1 .. n, Len(kinds) = n,
             \A i \in 1 .. n : vals[i].kind = kinds[i]
      PROVE  Java!Operands(kinds)
    <2>1. n <= Len(JavaStack) /\ Len(JavaStack) - n = m
        BY <1>3, <1>4
    <2>2. \A i \in 1 .. n : JavaStack[(Len(JavaStack) - n) + i].kind = kinds[i]
        BY <1>4, <1>5, <1>9, <2>1
    <2> QED
        BY <1>9, <2>1, <2>2 DEF Java!Operands
<1>10. vm = "running" => Java!Operands(<< >>)
    <2>1. DOMAIN << >> = {} /\ Len(<< >>) = 0 /\ 0 <= Len(JavaStack)
        BY <1>3, <1>4
    <2> QED
        BY <2>1 DEF Java!Operands
<1>11. n <= Len(JavaStack)
    BY <1>3, <1>4
<1> QED
    BY <1>1, <1>7, <1>8, <1>9, <1>10, <1>11

Quiet == vm' = vm /\ JavaLocal' = JavaLocal /\ JavaArrays' = JavaArrays /\ branch' = branch

LEMMA JavaReplaces ==
    ASSUME NEW rest \in Seq(JavaValue), NEW vals \in Seq(JavaValue), NEW new,
           JavaStack = rest \o vals, JavaStack' = rest \o new, Quiet
    PROVE  Java!Replace(Len(vals), new)
<1>1. Java!Below(Len(vals)) = rest
    BY JavaTop
<1> QED
    BY <1>1 DEF Java!Replace, Quiet

LEMMA ReplaceQuiet ==
    ASSUME NEW n, NEW m, NEW ts, Replace(n, m, ts)
    PROVE  Quiet
<1>1. UNCHANGED <<vm, local, heap, branch, types, kept>>
    BY DEF Replace
<1> QED
    BY <1>1 DEF Quiet, JavaLocal, JavaArrays, Element

----------------------------------------------------------------------------
(* Numbers that are read and written. *)

LEMMA SegmentOfSegment ==
    ASSUME NEW m, NEW d \in Nat, NEW e \in Nat, NEW k \in Nat, NEW l \in Nat, e + k <= l
    PROVE  Segment(Segment(m, d, l), e, k) = Segment(m, d + e, k)
<1>1. ASSUME NEW j \in 1 .. k PROVE Segment(m, d, l)[e + j] = m[(d + e) + j]
    <2>1. e + j \in 1 .. l /\ d + (e + j) = (d + e) + j
        OBVIOUS
    <2> QED
        BY <2>1 DEF Segment
<1>2. Segment(Segment(m, d, l), e, k) = [j \in 1 .. k |-> Segment(m, d, l)[e + j]]
    BY DEF Segment
<1>3. [j \in 1 .. k |-> Segment(m, d, l)[e + j]] = [j \in 1 .. k |-> m[(d + e) + j]]
    BY <1>1
<1> QED
    BY <1>2, <1>3 DEF Segment

LEMMA ReadNumber ==
    ASSUME NEW k \in Sizes, NEW d \in Nat, NEW l \in Nat, WordsOf(k) <= l
    PROVE  Read(k, d + 1) = NumberIn(k, Segment(mem, d, l))
<1>1. CASE k = Four
    <2>1. 1 \in 1 .. l
        BY <1>1 DEF WordsOf, Four
    <2> QED
        BY <1>1, <2>1 DEF Segment, NumberIn, Read
<1>2. CASE k = Eight
    <2>1. 1 \in 1 .. l /\ 2 \in 1 .. l /\ k # Four /\ (d + 1) + 1 = d + 2
        BY <1>2 DEF WordsOf, Four, Eight
    <2>2. Segment(mem, d, l)[1] = mem[d + 1] /\ Segment(mem, d, l)[2] = mem[d + 2]
        BY <2>1 DEF Segment
    <2> QED
        BY <2>1, <2>2 DEF NumberIn, Read
<1> QED
    BY <1>1, <1>2 DEF Sizes

\* The two words of a number make up that number again.
LEMMA WrittenNumber ==
    ASSUME StackOK, NEW k \in Sizes, NEW d \in Nat, NEW v \in Int, d + WordsOf(k) <= StackWords,
           NEW l \in Nat, WordsOf(k) <= l
    PROVE  NumberIn(k, Segment(Write(k, d + 1, v), d, l)) = U(k, v)
<1>1. StackWords \in Nat /\ mem \in [1 .. StackWords -> WordValues]
    BY OperationsAssumption DEF StackOK
<1>2. CASE k = Four
    <2>1. WordsOf(k) = 1 /\ 1 \in 1 .. l
        BY <1>2 DEF WordsOf, Four
    <2>2. d + 1 \in 1 .. StackWords
        BY <1>1, <2>1
    <2>3. Write(k, d + 1, v)[d + 1] = U(k, v)
        BY <1>1, <1>2, <2>2 DEF Write
    <2> QED
        BY <1>2, <2>1, <2>3 DEF Segment, NumberIn
<1>3. CASE k = Eight
    <2>1. WordsOf(k) = 2 /\ 1 \in 1 .. l /\ 2 \in 1 .. l /\ k # Four
        BY <1>3 DEF WordsOf, Four, Eight
    <2>2. d + 1 \in 1 .. StackWords /\ d + 2 \in 1 .. StackWords /\ (d + 1) + 1 = d + 2 /\ d + 1 # d + 2
        BY <1>1, <2>1
    <2>3. PICK a, b : a = U(Four, v) /\ b = U(Eight, v) \div Values(Four)
        OBVIOUS
    <2>4. PICK w : w = Write(k, d + 1, v) /\ w = [mem EXCEPT ![d + 1] = a, ![d + 2] = b]
        BY <2>1, <2>2, <2>3 DEF Write
    <2>5. w[d + 1] = a /\ w[d + 2] = b
        BY <1>1, <2>2, <2>4
    <2>6. Segment(w, d, l)[1] = a /\ Segment(w, d, l)[2] = b
        BY <2>1, <2>5 DEF Segment
    <2>7. NumberIn(k, Segment(w, d, l)) = a + Values(Four) * b
        BY <2>1, <2>6 DEF NumberIn
    <2>8. a + Values(Four) * b = U(Eight, v)
        <3>1. PICK n \in Nat \ {0} : n = Values(Four)
            BY ValuesTyped DEF Four
        <3>2. PICK x \in Int : x = U(Eight, v)
            BY CastTyped, ValuesTyped DEF Eight
        <3>3. a = x % n
            <4>1. U(Four, U(Eight, v)) = U(Four, v)
                BY CastBelow DEF Four, Eight
            <4> QED
                BY <2>3, <3>1, <3>2, <4>1 DEF U
        <3>4. b = x \div n
            BY <2>3, <3>1, <3>2
        <3>5. x % n = x - n * (x \div n)
            OBVIOUS
        <3> QED
            BY <3>1, <3>2, <3>3, <3>4, <3>5
    <2> QED
        BY <1>3, <2>4, <2>7, <2>8
<1> QED
    BY <1>2, <1>3 DEF Sizes

LEMMA SizesTyped ==
    ASSUME NEW k \in Sizes
    PROVE  /\ k \in Nat \ {0} /\ WordsOf(k) \in 1 .. 2
           /\ TagsOf(k) \in Seq(Tags) /\ Paired(TagsOf(k)) /\ Len(TagsOf(k)) = WordsOf(k)
<1>1. k \in Nat \ {0}
    BY DEF Sizes, Four, Eight
<1> QED
    BY <1>1, TagsTyped

LEMMA IntegerOfCast ==
    ASSUME NEW k \in Sizes, NEW v \in Int
    PROVE  /\ Java!Integer(k, U(k, v)) = Java!Integer(k, v)
           /\ Java!Integer(k, v) \in JavaValue
           /\ Java!Integer(k, v).kind = Java!Kinds[k] /\ Java!Integer(k, v).v = S(k, v)
<1>1. k \in Nat
    BY SizesTyped
<1>2. S(k, U(k, v)) = S(k, v) /\ S(k, v) \in Int
    BY <1>1, CastTwice, CastTyped
<1>3. Java!Integer(k, v) = [kind |-> Java!Kinds[k], v |-> S(k, v)]
      /\ Java!Integer(k, U(k, v)) = [kind |-> Java!Kinds[k], v |-> S(k, U(k, v))]
    BY JavaWords DEF Java!Integer, Java!Value
<1>4. Java!Kinds[k] \in {"int", "long"}
    BY JavaWords DEF Java!Kinds, Sizes
<1> QED
    BY <1>2, <1>3, <1>4 DEF JavaValue

\* Numbers of k bytes on a piece of the stack.
LEMMA TwoNumbers ==
    ASSUME StackOK, NEW k \in Sizes, NEW d \in Nat, d + 2 * WordsOf(k) <= optop
    PROVE  ValuesIn(TagsOf(k) \o TagsOf(k), Segment(mem, d, 2 * WordsOf(k))) =
               <<Java!Integer(k, Read(k, d + 1))>>
               \o <<Java!Integer(k, Read(k, (d + WordsOf(k)) + 1))>>
<1>1. PICK n \in 1 .. 2 : n = WordsOf(k)
    BY SizesTyped
<1>2. PICK w : w = Segment(mem, d, 2 * n)
    OBVIOUS
<1>3. \A p \in 1 .. 2 * n : w[p] \in WordValues
    <2> SUFFICES ASSUME NEW p \in 1 .. 2 * n PROVE w[p] \in WordValues
        OBVIOUS
    <2>1. d + p \in 1 .. StackWords
        BY <1>1, OperationsAssumption DEF StackOK
    <2> QED
        BY <1>2, <2>1 DEF StackOK, Segment
<1>4. TagsOf(k) \in Seq(Tags) /\ Paired(TagsOf(k)) /\ Len(TagsOf(k)) = n
    BY <1>1, SizesTyped
<1>5. ValuesIn(TagsOf(k) \o TagsOf(k), w) =
          ValuesIn(TagsOf(k), w) \o ValuesIn(TagsOf(k), Segment(w, n, n))
    <2>1. \A p \in 1 .. Len(TagsOf(k)) + Len(TagsOf(k)) : w[p] \in WordValues
        BY <1>3, <1>4
    <2> QED
        BY <1>4, <2>1, SegmentsRead
<1>6. Segment(w, n, n) = Segment(mem, d + n, n)
    BY <1>2, SegmentOfSegment
<1>7. \A p \in 1 .. n : w[p] \in WordValues /\ Segment(mem, d + n, n)[p] \in WordValues
    <2> SUFFICES ASSUME NEW p \in 1 .. n
                 PROVE  w[p] \in WordValues /\ Segment(mem, d + n, n)[p] \in WordValues
        OBVIOUS
    <2>1. n + p \in 1 .. 2 * n /\ p \in 1 .. 2 * n
        OBVIOUS
    <2>2. Segment(w, n, n)[p] = w[n + p]
        BY DEF Segment
    <2> QED
        BY <1>3, <1>6, <2>1, <2>2
<1>8. ValuesIn(TagsOf(k), w) = <<Java!Integer(k, NumberIn(k, w))>>
    BY <1>1, <1>7, NumberValue
<1>9. ValuesIn(TagsOf(k), Segment(mem, d + n, n)) =
          <<Java!Integer(k, NumberIn(k, Segment(mem, d + n, n)))>>
    BY <1>1, <1>7, NumberValue
<1>10. Read(k, d + 1) = NumberIn(k, w)
    <2>1. 2 * n \in Nat /\ WordsOf(k) <= 2 * n
        BY <1>1
    <2> QED
        BY <1>2, <2>1, ReadNumber
<1>11. Read(k, (d + n) + 1) = NumberIn(k, Segment(mem, d + n, n))
    BY <1>1, ReadNumber
<1> QED
    BY <1>1, <1>2, <1>5, <1>6, <1>8, <1>9, <1>10, <1>11

LEMMA OneNumber ==
    ASSUME StackOK, NEW k \in Sizes, NEW d \in Nat, d + WordsOf(k) <= optop
    PROVE  ValuesIn(TagsOf(k), Segment(mem, d, WordsOf(k))) =
               <<Java!Integer(k, Read(k, d + 1))>>
<1>1. PICK n \in 1 .. 2 : n = WordsOf(k)
    BY SizesTyped
<1>2. \A p \in 1 .. n : Segment(mem, d, n)[p] \in WordValues
    <2> SUFFICES ASSUME NEW p \in 1 .. n PROVE Segment(mem, d, n)[p] \in WordValues
        OBVIOUS
    <2>1. d + p \in 1 .. StackWords
        BY <1>1, OperationsAssumption DEF StackOK
    <2> QED
        BY <2>1 DEF StackOK, Segment
<1>3. ValuesIn(TagsOf(k), Segment(mem, d, n)) =
          <<Java!Integer(k, NumberIn(k, Segment(mem, d, n)))>>
    BY <1>1, <1>2, NumberValue
<1>4. Read(k, d + 1) = NumberIn(k, Segment(mem, d, n))
    BY <1>1, ReadNumber
<1> QED
    BY <1>1, <1>3, <1>4

\* A number of k bytes with an integer of one word on top.
LEMMA NumberAndInt ==
    ASSUME StackOK, NEW k \in Sizes, NEW d \in Nat, (d + WordsOf(k)) + 1 <= optop
    PROVE  ValuesIn(TagsOf(k) \o <<"int">>, Segment(mem, d, WordsOf(k) + 1)) =
               <<Java!Integer(k, Read(k, d + 1))>>
               \o <<Java!Integer(Four, mem[(d + WordsOf(k)) + 1])>>
<1>1. PICK n \in 1 .. 2 : n = WordsOf(k)
    BY SizesTyped
<1>2. PICK w : w = Segment(mem, d, n + 1)
    OBVIOUS
<1>3. \A p \in 1 .. n + 1 : w[p] \in WordValues
    <2> SUFFICES ASSUME NEW p \in 1 .. n + 1 PROVE w[p] \in WordValues
        OBVIOUS
    <2>1. d + p \in 1 .. StackWords
        BY <1>1, OperationsAssumption DEF StackOK
    <2> QED
        BY <1>2, <2>1 DEF StackOK, Segment
<1>4. TagsOf(k) \in Seq(Tags) /\ Paired(TagsOf(k)) /\ Len(TagsOf(k)) = n
    BY <1>1, SizesTyped
<1>5. PICK int : int = <<"int">> /\ int = TagsOf(Four) /\ int \in Seq(Tags) /\ Paired(int)
                 /\ Len(int) = 1 /\ WordsOf(Four) = 1 /\ Four \in Sizes
    <2>1. <<"int">> = TagsOf(Four) /\ Len(<<"int">>) = 1 /\ Four \in Sizes /\ WordsOf(Four) = 1
        BY DEF TagsOf, Sizes, WordsOf, Four
    <2> QED
        BY <2>1, TagsTyped
<1>6. ValuesIn(TagsOf(k) \o int, w) = ValuesIn(TagsOf(k), w) \o ValuesIn(int, Segment(w, n, 1))
    <2>1. \A p \in 1 .. Len(TagsOf(k)) + Len(int) : w[p] \in WordValues
        BY <1>3, <1>4, <1>5
    <2> QED
        BY <1>4, <1>5, <2>1, SegmentsRead
<1>7. Segment(w, n, 1) = Segment(mem, d + n, 1)
    BY <1>2, SegmentOfSegment
<1>8. \A p \in 1 .. n : w[p] \in WordValues
    BY <1>3
<1>9. ValuesIn(TagsOf(k), w) = <<Java!Integer(k, NumberIn(k, w))>>
    BY <1>1, <1>8, NumberValue
<1>10. ValuesIn(int, Segment(mem, d + n, 1)) = <<Java!Integer(Four, Read(Four, (d + n) + 1))>>
    BY <1>1, <1>5, OneNumber
<1>11. Read(k, d + 1) = NumberIn(k, w)
    BY <1>1, <1>2, ReadNumber
<1>12. Read(Four, (d + n) + 1) = mem[(d + n) + 1]
    BY DEF Read
<1> QED
    BY <1>1, <1>2, <1>5, <1>6, <1>7, <1>9, <1>10, <1>11, <1>12

\* Numbers that replace what was on top.
LEMMA NumberStep ==
    ASSUME IInv, vm = "running", NEW old \in Seq(Tags), NEW n, n = Len(old), n <= optop,
           Boundary(n), \A j \in 1 .. n : tags[(optop - n) + j] = old[j],
           NEW k \in Sizes, NEW v \in Int, (optop - n) + WordsOf(k) <= StackWords,
           NEW p, p = (optop - n) + 1, Replace(n, Write(k, p, v), TagsOf(k)),
           NEW vals, vals = ValuesIn(old, Segment(mem, optop - n, n))
    PROVE  Java!Replace(Len(vals), <<Java!Integer(k, v)>>)
<1>1. StackOK /\ n \in Nat /\ optop \in Nat /\ n \in 0 .. optop
    BY DEF IInv, StackOK
<1>2. mem' = Write(k, p, v) /\ Retag(n, TagsOf(k))
    BY DEF Replace
<1>3. Fits(n, mem', TagsOf(k))
    BY <1>1, <1>2, NumberFits
<1>4. PICK d \in Nat : d = optop - n
    BY <1>1
<1>5. PICK rest \in Seq(JavaValue) :
          /\ vals \in Seq(JavaValue)
          /\ JavaStack = rest \o vals
          /\ JavaStack' = rest \o ValuesIn(TagsOf(k), Segment(mem', d, Len(TagsOf(k))))
          /\ Piece(TagsOf(k), Segment(mem', d, Len(TagsOf(k))))
    <2>1. PICK ts : ts = TagsOf(k)
        OBVIOUS
    <2>2. Fits(n, mem', ts) /\ Retag(n, ts)
        BY <1>2, <1>3, <2>1
    <2>3. /\ Piece(ts, Segment(mem', optop - n, Len(ts)))
          /\ ValuesIn(old, Segment(mem, optop - n, n)) \in Seq(JavaValue)
          /\ \E rest \in Seq(JavaValue) :
                /\ JavaStack = rest \o ValuesIn(old, Segment(mem, optop - n, n))
                /\ JavaStack' = rest \o ValuesIn(ts, Segment(mem', optop - n, Len(ts)))
        BY <1>1, <2>2, StackStep
    <2> QED
        BY <1>4, <2>1, <2>3
<1>6. ValuesIn(TagsOf(k), Segment(mem', d, Len(TagsOf(k)))) = <<Java!Integer(k, v)>>
    <2>1. PICK l \in 1 .. 2 : l = WordsOf(k) /\ l = Len(TagsOf(k))
        BY SizesTyped
    <2>2. PICK w : w = Segment(mem', d, l)
        OBVIOUS
    <2>3. \A q \in 1 .. l : w[q] \in WordValues
        BY <1>5, <2>1, <2>2 DEF Piece
    <2>4. ValuesIn(TagsOf(k), w) = <<Java!Integer(k, NumberIn(k, w))>>
        BY <2>1, <2>3, NumberValue
    <2>5. NumberIn(k, w) = U(k, v)
        <3>1. d + WordsOf(k) <= StackWords /\ p = d + 1 /\ l \in Nat /\ WordsOf(k) <= l
            BY <1>4, <2>1
        <3>2. NumberIn(k, Segment(Write(k, d + 1, v), d, l)) = U(k, v)
            BY <1>1, <3>1, WrittenNumber
        <3> QED
            BY <1>2, <2>2, <3>1, <3>2
    <2>6. Java!Integer(k, U(k, v)) = Java!Integer(k, v)
        BY IntegerOfCast
    <2> QED
        BY <2>1, <2>2, <2>4, <2>5, <2>6
<1>7. JavaStack' = rest \o <<Java!Integer(k, v)>>
    BY <1>5, <1>6
<1>8. Quiet
    BY ReplaceQuiet
<1> QED
    BY <1>5, <1>7, <1>8, JavaReplaces

----------------------------------------------------------------------------
(* The instructions, one after the other.  First what they find. *)

\* The values on top of Java's stack.
OnStack(vals) ==
    /\ \A i \in 1 .. Len(vals) : Java!Top(i) = vals[(Len(vals) + 1) - i].v
    /\ \A kinds : /\ DOMAIN kinds = 1 .. Len(vals) /\ Len(kinds) = Len(vals)
                  /\ \A i \in 1 .. Len(vals) : vals[i].kind = kinds[i]
                  => Java!Operands(kinds)

LEMMA OnStackOne ==
    ASSUME NEW vals, Len(vals) = 1, OnStack(vals)
    PROVE  Java!Top(1) = vals[1].v /\ Java!Operands(<<vals[1].kind>>)
<1>1. Java!Top(1) = vals[1].v
    BY DEF OnStack
<1>2. PICK kinds, x : /\ kinds = <<x>> /\ x = vals[1].kind
                      /\ DOMAIN kinds = 1 .. 1 /\ Len(kinds) = 1 /\ kinds[1] = x
    <2>1. PICK x : x = vals[1].kind
        OBVIOUS
    <2>2. DOMAIN <<x>> = 1 .. 1 /\ Len(<<x>>) = 1 /\ <<x>>[1] = x
        OBVIOUS
    <2> QED
        BY <2>1, <2>2
<1>3. Java!Operands(kinds)
    BY <1>2 DEF OnStack
<1> QED
    BY <1>1, <1>2, <1>3

LEMMA OnStackTwo ==
    ASSUME NEW vals, Len(vals) = 2, OnStack(vals)
    PROVE  /\ Java!Top(1) = vals[2].v /\ Java!Top(2) = vals[1].v
           /\ Java!Operands(<<vals[1].kind, vals[2].kind>>)
<1>1. 1 \in 1 .. 2 /\ 2 \in 1 .. 2 /\ (2 + 1) - 1 = 2 /\ (2 + 1) - 2 = 1
    OBVIOUS
<1>2. Java!Top(1) = vals[2].v /\ Java!Top(2) = vals[1].v
    BY <1>1 DEF OnStack
<1>3. PICK kinds, x, y : /\ kinds = <<x, y>> /\ x = vals[1].kind /\ y = vals[2].kind
                         /\ DOMAIN kinds = 1 .. 2 /\ Len(kinds) = 2
                         /\ kinds[1] = x /\ kinds[2] = y
    <2>1. PICK x, y : x = vals[1].kind /\ y = vals[2].kind
        OBVIOUS
    <2>2. /\ DOMAIN <<x, y>> = 1 .. 2 /\ Len(<<x, y>>) = 2
          /\ <<x, y>>[1] = x /\ <<x, y>>[2] = y
        OBVIOUS
    <2> QED
        BY <2>1, <2>2
<1>4. \A i \in 1 .. 2 : vals[i].kind = kinds[i]
    <2> SUFFICES ASSUME NEW i \in 1 .. 2 PROVE vals[i].kind = kinds[i]
        OBVIOUS
    <2>1. i = 1 \/ i = 2
        OBVIOUS
    <2> QED
        BY <1>3, <2>1
<1>5. Java!Operands(kinds)
    BY <1>3, <1>4 DEF OnStack
<1> QED
    BY <1>2, <1>3, <1>5

\* The words a guard asks for, as Java's operands.
LEMMA Found ==
    ASSUME IInv, NEW old \in Seq(Tags), old # << >>, old[1] # "high", Checked(old),
           NEW n, n = Len(old), NEW vals, vals = ValuesIn(old, Segment(mem, optop - n, n))
    PROVE  /\ Boundary(n) /\ vm = "running" /\ n \in 1 .. optop
           /\ \A j \in 1 .. n : tags[(optop - n) + j] = old[j]
           /\ Piece(old, Segment(mem, optop - n, n))
           /\ vals \in Seq(JavaValue)
           /\ OnStack(vals)
<1>1. StackOK /\ optop \in Nat
    BY DEF IInv, StackOK
<1>2. Boundary(n) /\ vm = "running" /\ n \in 1 .. optop
    BY <1>1, CheckedBoundary
<1>3. \A j \in 1 .. n : tags[(optop - n) + j] = old[j]
    BY <1>1, CheckedTags
<1>4. n \in 0 .. optop
    BY <1>1, <1>2
<1>5. /\ Piece(old, Segment(mem, optop - n, n))
      /\ vals \in Seq(JavaValue)
      /\ \E rest \in Seq(Tags) :
            /\ ValuesIn(rest, mem) \in Seq(JavaValue)
            /\ JavaStack = ValuesIn(rest, mem) \o vals
    BY <1>1, <1>2, <1>3, <1>4, StackParts
<1>6. PICK rest \in Seq(JavaValue) : JavaStack = rest \o vals
    BY <1>5
<1>7. OnStack(vals)
    BY <1>2, <1>5, <1>6, JavaTop DEF OnStack
<1> QED
    BY <1>2, <1>3, <1>5, <1>7

LEMMA TwoValues ==
    ASSUME NEW x, NEW y
    PROVE  /\ Len(<<x>> \o <<y>>) = 2 /\ (<<x>> \o <<y>>)[1] = x /\ (<<x>> \o <<y>>)[2] = y
           /\ <<x>> \o <<y>> = <<x, y>>
<1> DEFINE X == {x, y}
<1>1. PICK s : s = <<x>> /\ s \in Seq(X) /\ Len(s) = 1 /\ s[1] = x
    <2>1. <<x>> \in Seq(X) /\ Len(<<x>>) = 1 /\ <<x>>[1] = x
        OBVIOUS
    <2> QED
        BY <2>1
<1>2. PICK t : t = <<y>> /\ t \in Seq(X) /\ Len(t) = 1 /\ t[1] = y
    <2>1. <<y>> \in Seq(X) /\ Len(<<y>>) = 1 /\ <<y>>[1] = y
        OBVIOUS
    <2> QED
        BY <2>1
<1>3. PICK u : u = <<x, y>> /\ u \in Seq(X) /\ Len(u) = 2 /\ u[1] = x /\ u[2] = y
    <2>1. <<x, y>> \in Seq(X) /\ Len(<<x, y>>) = 2 /\ <<x, y>>[1] = x /\ <<x, y>>[2] = y
        OBVIOUS
    <2> QED
        BY <2>1
<1> HIDE DEF X
<1>4. /\ s \o t \in Seq(X) /\ Len(s \o t) = 2
      /\ \A i \in 1 .. 2 : (s \o t)[i] = IF i <= 1 THEN s[i] ELSE t[i - 1]
    BY <1>1, <1>2, ConcatProperties
<1>5. PICK c : c = s \o t /\ c \in Seq(X) /\ Len(c) = 2 /\ c[1] = x /\ c[2] = y
    <2>1. 1 \in 1 .. 2 /\ 2 \in 1 .. 2 /\ 2 - 1 = 1
        OBVIOUS
    <2>2. (s \o t)[1] = s[1] /\ (s \o t)[2] = t[1]
        BY <1>4, <2>1
    <2> QED
        BY <1>1, <1>2, <1>4, <2>2
<1>6. \A i \in 1 .. 2 : c[i] = u[i]
    <2> SUFFICES ASSUME NEW i \in 1 .. 2 PROVE c[i] = u[i]
        OBVIOUS
    <2>1. i = 1 \/ i = 2
        OBVIOUS
    <2> QED
        BY <1>3, <1>5, <2>1
<1>7. c = u
    <2>1. Len(c) = Len(u) /\ c \in Seq(X) /\ u \in Seq(X) /\ \A i \in 1 .. Len(c) : c[i] = u[i]
        BY <1>3, <1>5, <1>6
    <2> QED
        BY <2>1, SeqEqual
<1> QED
    BY <1>1, <1>2, <1>3, <1>5, <1>7

\* Two numbers of k bytes on top.
LEMMA FoundTwo ==
    ASSUME IInv, NEW k \in Sizes, Checked(TagsOf(k) \o TagsOf(k))
    PROVE  /\ Read(k, First(k)) \in 0 .. Values(k) - 1 /\ Read(k, First(k)) \in Int
           /\ Read(k, Second(k)) \in 0 .. Values(k) - 1 /\ Read(k, Second(k)) \in Int
           /\ Java!Operands(<<Java!Kinds[k], Java!Kinds[k]>>)
           /\ Java!Top(2) = S(k, Read(k, First(k))) /\ Java!Top(1) = S(k, Read(k, Second(k)))
<1> DEFINE old == TagsOf(k) \o TagsOf(k)
<1>1. StackOK /\ optop \in 0 .. StackWords /\ StackWords \in Nat
    BY OperationsAssumption DEF IInv, StackOK
<1>2. PICK w \in 1 .. 2 : w = WordsOf(k)
    BY SizesTyped
<1>3. /\ old \in Seq(Tags) /\ Len(old) = 2 * w /\ old # << >> /\ old[1] # "high"
    BY <1>2, TwoOperands
<1>4. Checked(old)
    OBVIOUS
<1> HIDE DEF old
<1>5. 2 * w \in 1 .. optop
    BY <1>3, <1>4, Found
<1>6. PICK d \in Nat : d = optop - 2 * w /\ d + 2 * w <= optop
    BY <1>1, <1>5
<1>7. /\ First(k) = d + 1 /\ First(k) \in Nat \ {0}
      /\ (First(k) + WordsOf(k)) - 1 <= StackWords
      /\ Second(k) = (d + w) + 1
      /\ Second(k) \in Nat \ {0} /\ (Second(k) + WordsOf(k)) - 1 <= StackWords
    BY <1>1, <1>2, <1>6 DEF First, Second
<1>8. PICK a \in Int, b \in Int :
          /\ a = Read(k, First(k)) /\ b = Read(k, Second(k))
          /\ a \in 0 .. Values(k) - 1 /\ b \in 0 .. Values(k) - 1
    BY <1>1, <1>7, ReadTyped
<1>9. PICK vals : /\ vals = ValuesIn(old, Segment(mem, optop - 2 * w, 2 * w))
                  /\ Len(vals) = 2
                  /\ vals[1] = Java!Integer(k, a) /\ vals[2] = Java!Integer(k, b)
    <2>1. ValuesIn(old, Segment(mem, d, 2 * w)) = <<Java!Integer(k, a)>> \o <<Java!Integer(k, b)>>
        BY <1>1, <1>2, <1>6, <1>7, <1>8, TwoNumbers DEF old
    <2> QED
        BY <1>6, <2>1, TwoValues
<1>10. OnStack(vals)
    <2>1. PICK n : n = Len(old) /\ n = 2 * w
        BY <1>3
    <2>2. vals = ValuesIn(old, Segment(mem, optop - n, n))
        BY <1>9, <2>1
    <2> QED
        BY <1>3, <1>4, <2>1, <2>2, Found
<1>11. /\ vals[1].kind = Java!Kinds[k] /\ vals[2].kind = Java!Kinds[k]
       /\ vals[1].v = S(k, a) /\ vals[2].v = S(k, b)
    BY <1>9, IntegerOfCast
<1>12. /\ Java!Top(1) = vals[2].v /\ Java!Top(2) = vals[1].v
       /\ Java!Operands(<<vals[1].kind, vals[2].kind>>)
    BY <1>9, <1>10, OnStackTwo
<1> QED
    BY <1>8, <1>11, <1>12

\* The result of an instruction with two numbers.
LEMMA TwoReplaced ==
    ASSUME IInv, NEW k \in Sizes, Checked(TagsOf(k) \o TagsOf(k)), NEW j \in Sizes, NEW v \in Int,
           Replace(2 * WordsOf(k), Write(j, First(k), v), TagsOf(j))
    PROVE  Java!Replace(2, <<Java!Integer(j, v)>>)
<1> DEFINE old == TagsOf(k) \o TagsOf(k)
<1>1. StackOK /\ optop \in 0 .. StackWords /\ StackWords \in Nat
    BY OperationsAssumption DEF IInv, StackOK
<1>2. PICK w \in 1 .. 2 : w = WordsOf(k)
    BY SizesTyped
<1>3. /\ old \in Seq(Tags) /\ Len(old) = 2 * w /\ old # << >> /\ old[1] # "high"
    BY <1>2, TwoOperands
<1>4. Checked(old)
    OBVIOUS
<1>5. PICK n : n = Len(old) /\ n = 2 * w
    BY <1>3
<1> HIDE DEF old
<1>6. /\ Boundary(n) /\ vm = "running" /\ n \in 1 .. optop
      /\ \A i \in 1 .. n : tags[(optop - n) + i] = old[i]
    BY <1>3, <1>4, <1>5, Found
<1>7. PICK d \in Nat : d = optop - n /\ d + 2 * w <= optop
    BY <1>1, <1>5, <1>6
<1>8. PICK vals : /\ vals = ValuesIn(old, Segment(mem, optop - n, n)) /\ Len(vals) = 2
    <2>1. ValuesIn(old, Segment(mem, d, n)) =
              <<Java!Integer(k, Read(k, d + 1))>> \o <<Java!Integer(k, Read(k, (d + w) + 1))>>
        BY <1>1, <1>2, <1>5, <1>7, TwoNumbers DEF old
    <2> QED
        BY <1>7, <2>1, TwoValues
<1>9. PICK p : p = First(k) /\ p = (optop - n) + 1
    BY <1>1, <1>2, <1>5 DEF First
<1>10. Replace(n, Write(j, p, v), TagsOf(j))
    BY <1>2, <1>5, <1>9
<1>11. (optop - n) + WordsOf(j) <= StackWords /\ n <= optop
    <2>1. WordsOf(j) \in 1 .. 2
        BY SizesTyped
    <2> QED
        BY <1>1, <1>2, <1>5, <1>6, <2>1
<1>12. Java!Replace(Len(vals), <<Java!Integer(j, v)>>)
    BY <1>3, <1>5, <1>6, <1>8, <1>9, <1>10, <1>11, NumberStep
<1> QED
    BY <1>8, <1>12

LEMMA BinarySame ==
    ASSUME IInv, NEW k \in Sizes, Checked(TagsOf(k) \o TagsOf(k)), NEW v \in Int, Binary(k, v)
    PROVE  Java!Replace(2, <<Java!Integer(k, v)>>)
BY TwoReplaced DEF Binary

LEMMA CalculateSame ==
    ASSUME IInv, NEW k \in Sizes, NEW name \in {"add", "sub", "mul", "and", "or", "xor"},
           calculate(name, k)
    PROVE  Java!Calculate(name, k)
<1>1. Checked(TagsOf(k) \o TagsOf(k)) /\ op' = <<name, k>>
    BY DEF calculate
<1>2. PICK a \in Int, b \in Int :
          /\ a = Read(k, First(k)) /\ b = Read(k, Second(k))
          /\ a \in 0 .. Values(k) - 1 /\ b \in 0 .. Values(k) - 1
          /\ Java!Operands(<<Java!Kinds[k], Java!Kinds[k]>>)
          /\ Java!Top(2) = S(k, a) /\ Java!Top(1) = S(k, b)
    BY <1>1, FoundTwo
<1>3. k \in Nat
    BY SizesTyped
<1>4. PICK x \in Int, y \in Int : x = S(k, a) /\ y = S(k, b)
    BY <1>3, CastTyped
<1>5. U(k, x) = a /\ U(k, y) = b
    BY <1>2, <1>3, <1>4, CastTwice
<1>6. Result(name, k, a, b) \in Int
    <2>1. And(k, a, b) \in Int /\ Or(k, a, b) \in Int /\ Xor(k, a, b) \in Int
        BY <1>3, BitsTyped
    <2>2. x + y \in Int /\ x - y \in Int /\ x * y \in Int
        OBVIOUS
    <2> QED
        BY <1>4, <2>1, <2>2 DEF Result
<1>7. Binary(k, Result(name, k, a, b))
    BY <1>2 DEF calculate
<1>8. Java!Replace(2, <<Java!Integer(k, Result(name, k, a, b))>>)
    BY <1>1, <1>6, <1>7, BinarySame
<1>9. Java!Calculated(name, k, x, y) = Result(name, k, a, b)
    BY <1>4, <1>5, JavaWords, JavaBits DEF Java!Calculated, Result
<1> QED
    BY <1>1, <1>2, <1>4, <1>8, <1>9 DEF Java!Calculate

LEMMA QuietWhenUnchanged ==
    ASSUME UNCHANGED <<mem, optop, local, heap, branch, history>>
    PROVE  /\ JavaStack' = JavaStack /\ JavaLocal' = JavaLocal
           /\ JavaArrays' = JavaArrays /\ branch' = branch
<1>1. UNCHANGED <<mem, optop, local, heap, branch, tags, types, kept>>
    BY DEF history
<1>2. JavaStack' = JavaStack
    BY <1>1 DEF JavaStack
<1>3. JavaLocal' = JavaLocal /\ JavaArrays' = JavaArrays
    BY <1>1 DEF JavaLocal, JavaArrays, Element
<1> QED
    BY <1>1, <1>2, <1>3

LEMMA AbortSame == Abort => Java!Abort
BY QuietWhenUnchanged DEF Abort, Java!Abort

LEMMA DivideSame ==
    ASSUME IInv, NEW k \in Sizes, NEW name \in {"div", "rem"}, divide(name, k)
    PROVE  Java!Divide(name, k)
<1>1. Checked(TagsOf(k) \o TagsOf(k)) /\ op' = <<name, k>>
    BY DEF divide
<1>2. PICK a \in Int, b \in Int :
          /\ a = Read(k, First(k)) /\ b = Read(k, Second(k))
          /\ a \in 0 .. Values(k) - 1 /\ b \in 0 .. Values(k) - 1
          /\ Java!Operands(<<Java!Kinds[k], Java!Kinds[k]>>)
          /\ Java!Top(2) = S(k, a) /\ Java!Top(1) = S(k, b)
    BY <1>1, FoundTwo
<1>3. k \in Nat /\ Values(k) \in Nat \ {0}
    BY SizesTyped, ValuesTyped
<1>4. PICK x \in Int, y \in Int : x = S(k, a) /\ y = S(k, b)
    BY <1>3, CastTyped
<1>5. (b = 0) <=> (y = 0)
    <2>1. S(k, 0) = 0
        <3>1. Signed(k, 0)
            BY <1>3 DEF Signed
        <3> QED
            BY <1>3, <3>1, CastIdentity
    <2>2. b # 0 => y # 0
        <3>1. b # 0 => b \in 1 .. Values(k) - 1
            BY <1>2, <1>3
        <3> QED
            BY <1>3, <1>4, <3>1, CastTyped
    <2> QED
        BY <1>4, <2>1, <2>2
<1>6. CASE b = 0
    <2>1. Abort
        BY <1>2, <1>6 DEF divide
    <2>2. Java!Abort
        BY <2>1, AbortSame
    <2> QED
        BY <1>1, <1>2, <1>4, <1>5, <1>6, <2>2 DEF Java!Divide
<1>7. CASE b # 0 /\ Binary(k, DivisionResult(name, k, a, b))
    <2>1. y # 0
        BY <1>5, <1>7
    <2>2. DivisionResult(name, k, a, b) = Java!Divided(name, x, y)
        <3>1. S(k, b) # 0 /\ k \in Nat
            BY <1>3, <1>4, <2>1
        <3>2. DivisionResult(name, k, a, b) = Java!Divided(name, S(k, a), S(k, b))
            BY <3>1, DivisionSame
        <3> QED
            BY <1>4, <3>2
    <2>3. DivisionResult(name, k, a, b) \in Int
        <3>1. PICK q \in Int : q = Quotient(x, y)
            BY <2>1, QuotientTyped
        <3>2. x - q * y \in Int
            OBVIOUS
        <3> QED
            BY <1>4, <3>1, <3>2 DEF DivisionResult
    <2>4. Java!Replace(2, <<Java!Integer(k, DivisionResult(name, k, a, b))>>)
        BY <1>1, <1>7, <2>3, BinarySame
    <2> QED
        BY <1>1, <1>2, <1>4, <2>1, <2>2, <2>4 DEF Java!Divide
<1>8. CASE /\ Overflows(k, a, b)
           /\ vm' = "undefined"
           /\ UNCHANGED <<mem, optop, local, heap, branch, history>>
    <2>1. Java!Undefined
        BY <1>8, QuietWhenUnchanged DEF Java!Undefined
    <2>2. x = Java!SmallestInt(k) /\ y = -1
        BY <1>4, <1>8, JavaWords DEF Overflows
    <2> QED
        BY <1>1, <1>2, <1>4, <2>1, <2>2 DEF Java!Divide
<1> QED
    BY <1>2, <1>6, <1>7, <1>8 DEF divide

\* One number of k bytes on top, and the number of j bytes that replaces it.
LEMMA FoundOne ==
    ASSUME IInv, NEW k \in Sizes, Checked(TagsOf(k))
    PROVE  /\ Read(k, Second(k)) \in 0 .. Values(k) - 1 /\ Read(k, Second(k)) \in Int
           /\ Java!Operands(<<Java!Kinds[k]>>)
           /\ Java!Top(1) = S(k, Read(k, Second(k)))
           /\ \A j \in Sizes : \A v \in Int :
                 /\ (optop - WordsOf(k)) + WordsOf(j) <= StackWords
                 /\ Replace(WordsOf(k), Write(j, Second(k), v), TagsOf(j))
                 => Java!Replace(1, <<Java!Integer(j, v)>>)
<1>1. StackOK /\ optop \in 0 .. StackWords /\ StackWords \in Nat
    BY OperationsAssumption DEF IInv, StackOK
<1>2. PICK w \in 1 .. 2 : w = WordsOf(k)
    BY SizesTyped
<1>3. PICK old \in Seq(Tags) : /\ old = TagsOf(k) /\ Len(old) = w
                               /\ old # << >> /\ old[1] # "high"
    BY <1>2, TwoOperands, TagsTyped
<1>4. Checked(old)
    BY <1>3
<1>5. PICK vals : vals = ValuesIn(old, Segment(mem, optop - w, w))
    OBVIOUS
<1>6. /\ Boundary(w) /\ vm = "running" /\ w \in 1 .. optop
      /\ \A i \in 1 .. w : tags[(optop - w) + i] = old[i]
      /\ OnStack(vals)
    BY <1>3, <1>4, <1>5, Found
<1>7. PICK d \in Nat : d = optop - w /\ d + w <= optop
    BY <1>1, <1>6
<1>8. PICK p \in Nat \ {0} : p = Second(k) /\ p = d + 1 /\ (p + WordsOf(k)) - 1 <= StackWords
    BY <1>1, <1>2, <1>7 DEF Second
<1>9. PICK a \in Int : a = Read(k, p) /\ a \in 0 .. Values(k) - 1
    BY <1>1, <1>8, ReadTyped
<1>10. /\ vals = <<Java!Integer(k, a)>> /\ Len(vals) = 1 /\ vals[1] = Java!Integer(k, a)
    <2>1. vals = <<Java!Integer(k, a)>>
        BY <1>1, <1>2, <1>3, <1>5, <1>7, <1>8, <1>9, OneNumber
    <2>2. \A x : Len(<<x>>) = 1 /\ <<x>>[1] = x
        OBVIOUS
    <2> QED
        BY <2>1, <2>2, Zenon
<1>11. vals[1].kind = Java!Kinds[k] /\ vals[1].v = S(k, a)
    BY <1>9, <1>10, IntegerOfCast
<1>12. Java!Top(1) = vals[1].v /\ Java!Operands(<<vals[1].kind>>)
    BY <1>6, <1>10, OnStackOne
<1>13. ASSUME NEW j \in Sizes, NEW v \in Int,
              (optop - WordsOf(k)) + WordsOf(j) <= StackWords,
              Replace(WordsOf(k), Write(j, Second(k), v), TagsOf(j))
       PROVE  Java!Replace(1, <<Java!Integer(j, v)>>)
    <2>1. PICK n : n = Len(old) /\ n = w
        BY <1>3
    <2>2. /\ n <= optop /\ (optop - n) + WordsOf(j) <= StackWords
          /\ p = (optop - n) + 1 /\ Replace(n, Write(j, p, v), TagsOf(j))
          /\ vals = ValuesIn(old, Segment(mem, optop - n, n))
        BY <1>1, <1>2, <1>5, <1>6, <1>7, <1>8, <1>13, <2>1
    <2>3. Java!Replace(Len(vals), <<Java!Integer(j, v)>>)
        BY <1>3, <1>6, <2>1, <2>2, NumberStep
    <2> QED
        BY <1>10, <2>3
<1> QED
    BY <1>8, <1>9, <1>11, <1>12, <1>13

\* A number of k bytes below an int.
LEMMA FoundMixed ==
    ASSUME IInv, NEW k \in Sizes, Checked(TagsOf(k) \o <<"int">>)
    PROVE  /\ Read(k, optop - WordsOf(k)) \in 0 .. Values(k) - 1
           /\ Read(k, optop - WordsOf(k)) \in Int
           /\ mem[optop] \in WordValues /\ mem[optop] \in Int
           /\ Java!Operands(<<Java!Kinds[k], "int">>)
           /\ Java!Top(2) = S(k, Read(k, optop - WordsOf(k)))
           /\ Java!Top(1) = S(Four, mem[optop])
           /\ \A v \in Int :
                 Replace(WordsOf(k) + 1, Write(k, optop - WordsOf(k), v), TagsOf(k))
                 => Java!Replace(2, <<Java!Integer(k, v)>>)
<1> DEFINE old == TagsOf(k) \o <<"int">>
<1>1. StackOK /\ optop \in 0 .. StackWords /\ StackWords \in Nat
    BY OperationsAssumption DEF IInv, StackOK
<1>2. PICK w \in 1 .. 2 : w = WordsOf(k)
    BY SizesTyped
<1>3. old \in Seq(Tags) /\ Len(old) = w + 1 /\ old # << >> /\ old[1] # "high"
    BY <1>2, TwoOperands
<1>4. Checked(old)
    OBVIOUS
<1>5. PICK n \in 2 .. 3 : n = Len(old) /\ n = w + 1
    BY <1>3
<1>6. PICK vals : /\ vals = ValuesIn(old, Segment(mem, optop - n, n))
                  /\ vals = ValuesIn(TagsOf(k) \o <<"int">>, Segment(mem, optop - n, n))
    OBVIOUS
<1> HIDE DEF old
<1>7. /\ Boundary(n) /\ vm = "running" /\ n \in 1 .. optop
      /\ \A i \in 1 .. n : tags[(optop - n) + i] = old[i]
      /\ OnStack(vals)
    BY <1>3, <1>4, <1>5, <1>6, Found
<1>8. PICK d \in Nat : d = optop - n /\ (d + w) + 1 <= optop /\ (d + w) + 1 = optop
    BY <1>1, <1>5, <1>7
<1>9. PICK p \in Nat \ {0} : p = optop - w /\ p = d + 1 /\ (p + w) - 1 <= StackWords
    BY <1>1, <1>2, <1>8
<1>10. PICK a \in Int : a = Read(k, p) /\ a \in 0 .. Values(k) - 1
    BY <1>1, <1>2, <1>9, ReadTyped
<1>11. PICK b \in Int : b = mem[optop] /\ b \in WordValues
    <2>1. optop \in 1 .. StackWords
        BY <1>1, <1>7
    <2> QED
        BY <1>1, <2>1 DEF StackOK, WordValues
<1>12. Len(vals) = 2 /\ vals[1] = Java!Integer(k, a) /\ vals[2] = Java!Integer(Four, b)
    <2>1. ValuesIn(TagsOf(k) \o <<"int">>, Segment(mem, d, w + 1)) =
              <<Java!Integer(k, a)>> \o <<Java!Integer(Four, b)>>
        BY <1>1, <1>2, <1>8, <1>9, <1>10, <1>11, NumberAndInt
    <2>2. vals = <<Java!Integer(k, a)>> \o <<Java!Integer(Four, b)>>
        BY <1>5, <1>6, <1>8, <2>1
    <2> QED
        BY <2>2, TwoValues
<1>13. /\ vals[1].kind = Java!Kinds[k] /\ vals[2].kind = "int"
       /\ vals[1].v = S(k, a) /\ vals[2].v = S(Four, b)
    <2>1. Four \in Sizes /\ Java!Kinds[Four] = "int"
        BY DEF Sizes, Java!Kinds, Java!Four, Four, Java!Eight, Eight
    <2> QED
        BY <1>10, <1>11, <1>12, <2>1, IntegerOfCast
<1>14. /\ Java!Top(1) = vals[2].v /\ Java!Top(2) = vals[1].v
       /\ Java!Operands(<<vals[1].kind, vals[2].kind>>)
    BY <1>7, <1>12, OnStackTwo
<1>15. ASSUME NEW v \in Int,
              Replace(WordsOf(k) + 1, Write(k, optop - WordsOf(k), v), TagsOf(k))
       PROVE  Java!Replace(2, <<Java!Integer(k, v)>>)
    <2>1. /\ n <= optop /\ (optop - n) + WordsOf(k) <= StackWords
          /\ p = (optop - n) + 1 /\ Replace(n, Write(k, p, v), TagsOf(k))
        BY <1>1, <1>2, <1>5, <1>7, <1>8, <1>9, <1>15
    <2>2. Java!Replace(Len(vals), <<Java!Integer(k, v)>>)
        BY <1>3, <1>5, <1>6, <1>7, <2>1, NumberStep
    <2> QED
        BY <1>12, <2>2
<1> QED
    BY <1>2, <1>9, <1>10, <1>11, <1>13, <1>14, <1>15

\* The whole stack: a sequence of values, and an instruction without operands.
LEMMA StackTyped ==
    ASSUME StackOK
    PROVE  JavaStack \in Seq(JavaValue)
<1>1. PICK old \in Seq(Tags), n \in Nat : old = << >> /\ n = Len(old) /\ n = 0
    <2>1. << >> \in Seq(Tags) /\ Len(<< >>) = 0 /\ 0 \in Nat
        OBVIOUS
    <2> QED
        BY <2>1
<1>2. n \in 0 .. optop
    BY <1>1, OperationsAssumption DEF StackOK
<1>3. Boundary(n)
    BY <1>1, <1>2 DEF Boundary, StackOK
<1>4. \A j \in 1 .. n : tags[(optop - n) + j] = old[j]
    BY <1>1
<1>5. /\ ValuesIn(old, Segment(mem, optop - n, n)) \in Seq(JavaValue)
      /\ \E rest \in Seq(Tags) :
            /\ ValuesIn(rest, mem) \in Seq(JavaValue)
            /\ JavaStack = ValuesIn(rest, mem) \o ValuesIn(old, Segment(mem, optop - n, n))
    BY <1>1, <1>2, <1>3, <1>4, StackParts
<1> QED
    BY <1>5

LEMMA EmptyOperands ==
    ASSUME IInv, vm = "running"
    PROVE  Java!Operands(<< >>)
<1>1. JavaStack \in Seq(JavaValue)
    BY StackTyped DEF IInv
<1>2. PICK n \in Nat : n = Len(JavaStack)
    BY <1>1
<1>3. Len(<< >>) = 0 /\ DOMAIN << >> = {}
    OBVIOUS
<1> QED
    BY <1>2, <1>3 DEF Java!Operands

LEMMA ShiftStepSame ==
    ASSUME IInv, NEW k \in Sizes, NEW name \in {"shl", "shr", "ushr"}, shift(name, k)
    PROVE  Java!Shift(name, k)
<1>1. Checked(TagsOf(k) \o <<"int">>) /\ op' = <<name, k>>
    BY DEF shift
<1>2. PICK a \in Int, b \in Int :
          /\ a = Read(k, optop - WordsOf(k)) /\ b = mem[optop]
          /\ a \in 0 .. Values(k) - 1
          /\ Java!Operands(<<Java!Kinds[k], "int">>)
          /\ Java!Top(2) = S(k, a) /\ Java!Top(1) = S(Four, b)
    BY <1>1, FoundMixed
<1>3. k \in Nat \ {0} /\ k \in Nat
    BY SizesTyped
<1>4. PICK n \in Nat : n = Distance(k, b) /\ n < Bits(k)
    BY <1>3, DistanceTyped
<1>5. Java!Top(1) % Java!Bits(k) = n
    BY <1>2, <1>4, DistanceSame, JavaWords
<1>6. PICK x \in Int : x = S(k, a) /\ U(k, x) = a
    BY <1>2, <1>3, CastTyped, CastTwice
<1>7. PICK v \in Int : v = ShiftResult(name, k, a, n)
    <2>1. ShiftRight(x, n) \in Int /\ ShiftRight(a, n) \in Int /\ ShiftLeft(k, a, n) \in Int
        BY <1>3, <1>4, ShiftTyped
    <2> QED
        BY <1>6, <2>1 DEF ShiftResult
<1>8. Replace(WordsOf(k) + 1, Write(k, optop - WordsOf(k), v), TagsOf(k))
    BY <1>2, <1>4, <1>7 DEF shift
<1>9. Java!Replace(2, <<Java!Integer(k, v)>>)
    BY <1>1, <1>8, FoundMixed
<1>10. Java!Integer(k, v) = Java!Integer(k, Java!Shifted(name, k, x, n))
    <2>1. CASE name = "shl"
        <3>1. S(k, ShiftLeft(k, a, n)) = S(k, S(k, a) * 2 ^ n)
            BY <1>3, <1>4, ShiftSame
        <3>2. v = ShiftLeft(k, a, n) /\ Java!Shifted(name, k, x, n) = x * 2 ^ n
            BY <1>7, <2>1 DEF ShiftResult, Java!Shifted
        <3> QED
            BY <1>6, <3>1, <3>2, JavaWords DEF Java!Integer
    <2>2. CASE name = "shr"
        BY <1>6, <1>7, <2>2 DEF ShiftResult, Java!Shifted, ShiftRight
    <2>3. CASE name = "ushr"
        <3>1. Java!U(k, x) = a
            BY <1>6, JavaWords
        <3> QED
            BY <1>7, <2>3, <3>1 DEF ShiftResult, Java!Shifted, ShiftRight
    <2> QED
        BY <2>1, <2>2, <2>3
<1> QED
    BY <1>1, <1>2, <1>5, <1>6, <1>9, <1>10 DEF Java!Shift

LEMMA NegateSame ==
    ASSUME IInv, NEW k \in Sizes, negate(k)
    PROVE  Java!Negate(k)
<1>1. Checked(TagsOf(k)) /\ op' = <<"neg", k>>
    BY DEF negate
<1>2. PICK a \in Int : /\ a = Read(k, Second(k))
                       /\ Java!Operands(<<Java!Kinds[k]>>) /\ Java!Top(1) = S(k, a)
    BY <1>1, FoundOne
<1>3. PICK x \in Int : x = S(k, a)
    <2>1. k \in Nat
        BY SizesTyped
    <2> QED
        BY <2>1, CastTyped
<1>4. PICK v \in Int : v = - x
    OBVIOUS
<1>5. Replace(WordsOf(k), Write(k, Second(k), v), TagsOf(k))
    BY <1>2, <1>3, <1>4 DEF negate
<1>6. (optop - WordsOf(k)) + WordsOf(k) <= StackWords
    <2>1. optop \in 0 .. StackWords /\ StackWords \in Nat
        BY OperationsAssumption DEF IInv, StackOK
    <2>2. PICK w \in 1 .. 2 : w = WordsOf(k)
        BY SizesTyped
    <2> QED
        BY <2>1, <2>2
<1>7. Java!Replace(1, <<Java!Integer(k, v)>>)
    BY <1>1, <1>5, <1>6, FoundOne
<1> QED
    BY <1>1, <1>2, <1>3, <1>4, <1>7 DEF Java!Negate

LEMMA IincSame ==
    ASSUME IInv, iinc
    PROVE  Java!Increment
<1>1. /\ vm = "running" /\ vm' = vm /\ op' = <<"iinc">>
      /\ UNCHANGED <<mem, optop, heap, branch, tags, types, kept>>
    BY DEF iinc, history
<1>2. PICK d \in Increments : local' = U(Four, S(Four, local) + d)
    BY DEF iinc
<1>3. PICK x \in Int : x = S(Four, local)
    <2>1. local \in Int /\ Four \in Nat
        BY DEF IInv, RestOK, WordValues, Four
    <2> QED
        BY <2>1, CastTyped
<1>4. PICK e \in Int : e = d
    BY OperationsAssumption
<1>5. JavaLocal' = S(Four, x + e)
    <2>1. x + e \in Int /\ Four \in Nat
        BY DEF Four
    <2>2. S(Four, U(Four, x + e)) = S(Four, x + e)
        BY <2>1, CastTwice
    <2>3. local' = U(Four, x + e)
        BY <1>2, <1>3, <1>4
    <2> QED
        BY <2>2, <2>3 DEF JavaLocal
<1>6. JavaStack' = JavaStack /\ JavaArrays' = JavaArrays /\ branch' = branch
    BY <1>1 DEF JavaStack, JavaArrays, Element
<1>7. Java!Operands(<< >>)
    BY <1>1, EmptyOperands
<1>8. JavaLocal' = Java!S(Java!Four, JavaLocal + d)
    BY <1>3, <1>4, <1>5, JavaWords DEF JavaLocal
<1> QED
    BY <1>1, <1>6, <1>7, <1>8 DEF Java!Increment

LEMMA IntSize ==
    /\ Four \in Sizes /\ Four \in Nat \ {0} /\ WordsOf(Four) = 1 /\ TagsOf(Four) = <<"int">>
    /\ Eight \in Sizes /\ Eight \in Nat \ {0} /\ WordsOf(Eight) = 2
    /\ TagsOf(Eight) = <<"low", "high">>
    /\ Java!Kinds[Four] = "int" /\ Java!Kinds[Eight] = "long"
BY DEF Sizes, Four, Eight, WordsOf, TagsOf, Java!Kinds, Java!Four, Java!Eight

\* The integer on top, as the conversions see it.
LEMMA FoundInt ==
    ASSUME IInv, Checked(<<"int">>)
    PROVE  /\ optop \in 1 .. StackWords
           /\ mem[optop] \in WordValues /\ mem[optop] \in Int
           /\ Java!Operands(<<"int">>) /\ Java!Top(1) = S(Four, mem[optop])
           /\ \A k \in Sizes : \A v \in Int :
                 /\ (optop - 1) + WordsOf(k) <= StackWords
                 /\ Replace(1, Write(k, optop, v), TagsOf(k))
                 => Java!Replace(1, <<Java!Integer(k, v)>>)
<1>1. /\ optop \in 1 .. StackWords /\ optop \in Int
      /\ mem[optop] \in WordValues /\ mem[optop] \in Int
    BY OneInt, OperationsAssumption
<1>2. Second(Four) = optop /\ Read(Four, optop) = mem[optop]
    BY <1>1, IntSize DEF Second, Read
<1>3. Checked(TagsOf(Four))
    BY IntSize
<1>4. /\ Java!Operands(<<Java!Kinds[Four]>>) /\ Java!Top(1) = S(Four, Read(Four, Second(Four)))
      /\ \A j \in Sizes : \A v \in Int :
            /\ (optop - WordsOf(Four)) + WordsOf(j) <= StackWords
            /\ Replace(WordsOf(Four), Write(j, Second(Four), v), TagsOf(j))
            => Java!Replace(1, <<Java!Integer(j, v)>>)
    BY <1>3, IntSize, FoundOne
<1> QED
    BY <1>1, <1>2, <1>4, IntSize

LEMMA LongFromInt ==
    ASSUME IInv, i2l
    PROVE  Java!Convert("i2l")
<1>1. Checked(<<"int">>) /\ op' = <<"i2l">> /\ optop + 1 <= StackWords
    BY DEF i2l
<1>2. PICK a \in Int : /\ a = mem[optop] /\ optop \in 1 .. StackWords
                       /\ Java!Operands(<<"int">>) /\ Java!Top(1) = S(Four, a)
    BY <1>1, FoundInt
<1>3. PICK x \in Int : x = S(Four, a) /\ S(Eight, x) = x
    <2>1. Four \in Nat /\ Eight \in Nat
        BY IntSize
    <2> QED
        BY <2>1, CastTyped, Ranges, CastIdentity
<1>4. Replace(1, Write(Eight, optop, x), TagsOf(Eight))
    BY <1>2, <1>3, IntSize DEF i2l
<1>5. (optop - 1) + WordsOf(Eight) <= StackWords
    BY <1>1, <1>2, IntSize, OperationsAssumption
<1>6. Java!Replace(1, <<Java!Integer(Eight, x)>>)
    BY <1>1, <1>4, <1>5, IntSize, FoundInt
<1>7. Java!Integer(Eight, x) = Java!Converted("i2l", x)
    BY <1>3, IntSize, JavaWords DEF Java!Integer, Java!Converted
<1> QED
    BY <1>1, <1>2, <1>3, <1>6, <1>7 DEF Java!Convert

LEMMA NarrowSame ==
    ASSUME IInv, NEW name \in {"int2byte", "int2char", "int2short"}, narrow(name)
    PROVE  Java!Convert(name)
<1>1. Checked(<<"int">>) /\ op' = <<name>>
    BY DEF narrow
<1>2. PICK a \in Int : /\ a = mem[optop] /\ optop \in 1 .. StackWords
                       /\ Java!Operands(<<"int">>) /\ Java!Top(1) = S(Four, a)
    BY <1>1, FoundInt
<1>3. /\ One \in Nat /\ Two \in Nat /\ Four \in Nat /\ One <= Four /\ Two <= Four
    BY DEF One, Two, Four
<1>4. /\ S(One, S(Four, a)) = S(One, a) /\ U(Two, S(Four, a)) = U(Two, a)
      /\ S(Two, S(Four, a)) = S(Two, a)
    BY <1>3, CastBelow
<1>5. PICK v \in Int : v = Narrowed(name, a) /\ S(Four, v) = v
    <2>1. S(One, a) \in Int /\ S(Two, a) \in Int /\ U(Two, a) \in 0 .. Values(Two) - 1
        BY <1>3, CastTyped
    <2>2. U(Two, a) \in Int
        BY <2>1
    <2>3. /\ S(Four, S(One, a)) = S(One, a) /\ S(Four, S(Two, a)) = S(Two, a)
          /\ S(Four, U(Two, a)) = U(Two, a)
        BY <1>3, <2>1, <2>2, Ranges, CastIdentity
    <2> QED
        BY <2>1, <2>2, <2>3 DEF Narrowed
<1>6. Replace(1, Write(Four, optop, v), TagsOf(Four))
    BY <1>2, <1>5, IntSize DEF narrow
<1>7. (optop - 1) + WordsOf(Four) <= StackWords
    BY <1>2, IntSize, OperationsAssumption
<1>8. Java!Replace(1, <<Java!Integer(Four, v)>>)
    BY <1>1, <1>6, <1>7, IntSize, FoundInt
<1>9. Java!Integer(Four, v) = Java!Converted(name, S(Four, a))
    BY <1>4, <1>5, IntSize, JavaWords DEF Java!Integer, Java!Converted, Narrowed
<1> QED
    BY <1>1, <1>2, <1>8, <1>9 DEF Java!Convert

LEMMA IntFromLong ==
    ASSUME IInv, l2i
    PROVE  Java!Convert("l2i")
<1>1. Checked(TagsOf(Eight)) /\ op' = <<"l2i">> /\ Replace(2, mem, TagsOf(Four))
    BY IntSize DEF l2i
<1>2. PICK a \in Int : /\ a = Read(Eight, Second(Eight))
                       /\ Java!Operands(<<"long">>) /\ Java!Top(1) = S(Eight, a)
    BY <1>1, IntSize, FoundOne
<1>3. StackOK /\ optop \in 0 .. StackWords /\ StackWords \in Nat
    BY OperationsAssumption DEF IInv, StackOK
<1>4. 2 \in 1 .. optop
    <2>1. PICK old \in Seq(Tags) : /\ old = TagsOf(Eight) /\ Len(old) = 2
                                   /\ old # << >> /\ old[1] # "high"
        BY IntSize, TwoOperands, TagsTyped
    <2> QED
        BY <1>1, <1>3, <2>1, CheckedBoundary
<1>5. PICK p \in 1 .. StackWords : p = Second(Eight) /\ p + 1 \in 1 .. StackWords
    BY <1>3, <1>4, IntSize DEF Second
<1>6. PICK low \in Int, high \in Int : /\ low = mem[p] /\ high = mem[p + 1]
                                       /\ low \in WordValues
    BY <1>3, <1>5 DEF StackOK, WordValues
<1>7. a = low + Values(Four) * high
    BY <1>2, <1>5, <1>6 DEF Read, Four, Eight
<1>8. Write(Four, p, low) = mem
    <2>1. U(Four, low) = low
        BY <1>6, IntSize, CastIdentity DEF WordValues
    <2> QED
        BY <1>3, <1>5, <1>6, <2>1 DEF Write, StackOK
<1>9. Java!Replace(1, <<Java!Integer(Four, low)>>)
    <2>1. (optop - WordsOf(Eight)) + WordsOf(Four) <= StackWords
        BY <1>3, <1>4, IntSize
    <2>2. Replace(WordsOf(Eight), Write(Four, Second(Eight), low), TagsOf(Four))
        BY <1>1, <1>5, <1>8, IntSize
    <2> QED
        BY <1>1, <2>1, <2>2, IntSize, FoundOne
<1>10. S(Four, low) = S(Four, S(Eight, a))
    <2>1. Congruent(Four, a, low)
        BY <1>7 DEF Congruent
    <2>2. S(Four, a) = S(Four, low)
        BY <2>1, IntSize, CastCongruent
    <2>3. Four \in Nat /\ Eight \in Nat /\ Four <= Eight
        BY DEF Four, Eight
    <2>4. S(Four, S(Eight, a)) = S(Four, a)
        BY <2>3, CastBelow
    <2> QED
        BY <2>2, <2>4
<1>11. Java!Integer(Four, low) = Java!Converted("l2i", S(Eight, a))
    BY <1>10, IntSize, JavaWords DEF Java!Integer, Java!Converted
<1> QED
    BY <1>1, <1>2, <1>9, <1>11 DEF Java!Convert

LEMMA PairsOfTags ==
    <<"low", "high", "low", "high">> = <<"low", "high">> \o <<"low", "high">>
<1> DEFINE X == {"low", "high"}
<1>1. PICK s : s = <<"low", "high">> /\ s \in Seq(X) /\ Len(s) = 2 /\ s[1] = "low" /\ s[2] = "high"
    <2>1. /\ <<"low", "high">> \in Seq(X) /\ Len(<<"low", "high">>) = 2
          /\ <<"low", "high">>[1] = "low" /\ <<"low", "high">>[2] = "high"
        OBVIOUS
    <2> QED
        BY <2>1
<1>2. PICK u : /\ u = <<"low", "high", "low", "high">> /\ u \in Seq(X) /\ Len(u) = 4
               /\ u[1] = "low" /\ u[2] = "high" /\ u[3] = "low" /\ u[4] = "high"
    <2> DEFINE r == <<"low", "high", "low", "high">>
    <2>1. /\ r \in Seq(X) /\ Len(r) = 4
          /\ r[1] = "low" /\ r[2] = "high" /\ r[3] = "low" /\ r[4] = "high"
        OBVIOUS
    <2> HIDE DEF r
    <2>2. \E u : /\ u = r /\ u \in Seq(X) /\ Len(u) = 4
                 /\ u[1] = "low" /\ u[2] = "high" /\ u[3] = "low" /\ u[4] = "high"
        BY <2>1
    <2> QED
        BY <2>2 DEF r
<1> HIDE DEF X
<1>3. /\ s \o s \in Seq(X) /\ Len(s \o s) = 4
      /\ \A i \in 1 .. 4 : (s \o s)[i] = IF i <= 2 THEN s[i] ELSE s[i - 2]
    BY <1>1, ConcatProperties
<1>4. PICK c : /\ c = s \o s /\ c \in Seq(X) /\ Len(c) = 4
               /\ \A i \in 1 .. 4 : c[i] = IF i <= 2 THEN s[i] ELSE s[i - 2]
    BY <1>3
<1>5. \A i \in 1 .. 4 : c[i] = u[i]
    <2> SUFFICES ASSUME NEW i \in 1 .. 4 PROVE c[i] = u[i]
        OBVIOUS
    <2>1. i = 1 \/ i = 2 \/ i = 3 \/ i = 4
        OBVIOUS
    <2> QED
        BY <1>1, <1>2, <1>4, <2>1
<1>6. c = u
    <2>1. Len(c) = Len(u) /\ \A i \in 1 .. Len(c) : c[i] = u[i]
        BY <1>2, <1>4, <1>5
    <2> QED
        BY <1>2, <1>4, <2>1, SeqEqual
<1> QED
    BY <1>1, <1>2, <1>4, <1>6

\* Operands that are only dropped.
LEMMA Dropped ==
    ASSUME StackOK, NEW old \in Seq(Tags), NEW n, n = Len(old), n \in 0 .. optop, Boundary(n),
           \A j \in 1 .. n : tags[(optop - n) + j] = old[j],
           mem' = mem, Retag(n, << >>),
           NEW vals, vals = ValuesIn(old, Segment(mem, optop - n, n))
    PROVE  /\ Piece(old, Segment(mem, optop - n, n))
           /\ vals \in Seq(JavaValue) /\ JavaStack' = Java!Below(Len(vals))
           /\ \E rest \in Seq(JavaValue) : JavaStack = rest \o vals /\ JavaStack' = rest
<1>1. PICK ts : ts = << >> /\ Len(ts) = 0
    OBVIOUS
<1>2. Fits(n, mem', ts) /\ Retag(n, ts)
    BY <1>1, DropFits
<1>3. /\ Piece(old, Segment(mem, optop - n, n))
      /\ vals \in Seq(JavaValue)
      /\ \E rest \in Seq(JavaValue) :
            /\ JavaStack = rest \o vals
            /\ JavaStack' = rest \o ValuesIn(ts, Segment(mem', optop - n, Len(ts)))
    <2>1. /\ Piece(old, Segment(mem, optop - n, n))
          /\ ValuesIn(old, Segment(mem, optop - n, n)) \in Seq(JavaValue)
          /\ \E rest \in Seq(JavaValue) :
                /\ JavaStack = rest \o ValuesIn(old, Segment(mem, optop - n, n))
                /\ JavaStack' = rest \o ValuesIn(ts, Segment(mem', optop - n, Len(ts)))
        BY ONLY StackOK, old \in Seq(Tags), n = Len(old), <1>2, StackStep,
                \A j \in 1 .. n : tags[(optop - n) + j] = old[j]
    <2> QED
        BY <2>1
<1>4. PICK rest \in Seq(JavaValue) :
          /\ JavaStack = rest \o vals
          /\ JavaStack' = rest \o ValuesIn(ts, Segment(mem', optop - n, Len(ts)))
    BY <1>3
<1>5. ValuesIn(ts, Segment(mem', optop - n, Len(ts))) = << >>
    BY <1>1, NoValues
<1>6. rest \o << >> = rest
    BY ConcatEmptySeq
<1>7. Java!Below(Len(vals)) = rest
    BY <1>3, <1>4, JavaTop
<1> QED
    BY <1>3, <1>4, <1>5, <1>6, <1>7

\* One or two integers, as the branches and istore see them.
LEMMA DroppedInt ==
    ASSUME IInv, Checked(<<"int">>), mem' = mem, Retag(1, << >>)
    PROVE  JavaStack' = Java!Below(1)
<1>1. StackOK /\ optop \in 0 .. StackWords /\ StackWords \in Nat
    BY OperationsAssumption DEF IInv, StackOK
<1>2. PICK old \in Seq(Tags) :
          old = <<"int">> /\ Len(old) = 1 /\ old # << >> /\ old[1] # "high"
    BY TagsTyped
<1>3. PICK n \in Nat : n = Len(old) /\ n = 1
    BY <1>2
<1>4. Checked(old)
    BY <1>2
<1>5. PICK vals : vals = ValuesIn(old, Segment(mem, optop - n, n))
    OBVIOUS
<1>6. /\ Boundary(n) /\ n \in 1 .. optop /\ n \in 0 .. optop
      /\ \A i \in 1 .. n : tags[(optop - n) + i] = old[i]
    <2>1. /\ Boundary(n) /\ n \in 1 .. optop
          /\ \A i \in 1 .. n : tags[(optop - n) + i] = old[i]
        BY <1>2, <1>3, <1>4, <1>5, Found
    <2>2. n \in 0 .. optop
        BY <1>1, <1>2, <1>3, <2>1
    <2> QED
        BY <2>1, <2>2
<1>7. Len(vals) = 1
    <2>1. PICK d \in Nat : d = optop - n /\ d + WordsOf(Four) <= optop
        BY <1>1, <1>2, <1>3, <1>6, IntSize
    <2>2. ValuesIn(TagsOf(Four), Segment(mem, d, WordsOf(Four))) =
              <<Java!Integer(Four, Read(Four, d + 1))>>
        BY <1>1, <2>1, IntSize, OneNumber
    <2>3. \A x : Len(<<x>>) = 1
        OBVIOUS
    <2> QED
        BY <1>2, <1>3, <1>5, <2>1, <2>2, <2>3, IntSize
<1>8. JavaStack' = Java!Below(Len(vals))
    BY <1>1, <1>2, <1>3, <1>5, <1>6, Dropped
<1> QED
    BY <1>7, <1>8

LEMMA DroppedInts ==
    ASSUME IInv, Checked(TagsOf(Four) \o TagsOf(Four)), mem' = mem, Retag(2, << >>)
    PROVE  JavaStack' = Java!Below(2)
<1> DEFINE ts == TagsOf(Four) \o TagsOf(Four)
<1>1. StackOK /\ optop \in 0 .. StackWords /\ StackWords \in Nat
    BY OperationsAssumption DEF IInv, StackOK
<1>2. PICK old \in Seq(Tags), n \in Nat :
          old = ts /\ n = Len(old) /\ n = 2 /\ old # << >> /\ old[1] # "high"
    <2>1. ts \in Seq(Tags) /\ Len(ts) = 2 * WordsOf(Four) /\ ts # << >> /\ ts[1] # "high"
        BY IntSize, TwoOperands
    <2> HIDE DEF ts
    <2>2. Len(ts) = 2 /\ 2 \in Nat
        BY <2>1, IntSize
    <2> QED
        BY <2>1, <2>2
<1>3. Checked(old)
    BY <1>2
<1>4. PICK vals : vals = ValuesIn(old, Segment(mem, optop - n, n))
    OBVIOUS
<1>5. /\ Boundary(n) /\ n \in 1 .. optop /\ n \in 0 .. optop
      /\ \A i \in 1 .. n : tags[(optop - n) + i] = old[i]
    <2>1. /\ Boundary(n) /\ n \in 1 .. optop
          /\ \A i \in 1 .. n : tags[(optop - n) + i] = old[i]
        BY <1>2, <1>3, <1>4, Found
    <2>2. n \in 0 .. optop
        BY <1>1, <1>2, <2>1
    <2> QED
        BY <2>1, <2>2
<1>6. Len(vals) = 2
    <2>1. PICK d \in Nat : d = optop - n /\ d + 2 * WordsOf(Four) <= optop
        BY <1>1, <1>2, <1>5, IntSize
    <2>2. ValuesIn(ts, Segment(mem, d, 2 * WordsOf(Four))) =
              <<Java!Integer(Four, Read(Four, d + 1))>>
              \o <<Java!Integer(Four, Read(Four, (d + WordsOf(Four)) + 1))>>
        BY <1>1, <2>1, IntSize, TwoNumbers
    <2>3. 2 * WordsOf(Four) = n
        BY <1>2, IntSize
    <2> HIDE DEF ts
    <2>4. vals = <<Java!Integer(Four, Read(Four, d + 1))>>
              \o <<Java!Integer(Four, Read(Four, (d + WordsOf(Four)) + 1))>>
        BY <1>2, <1>4, <2>1, <2>2, <2>3
    <2> QED
        BY <2>4, TwoValues
<1>7. JavaStack' = Java!Below(Len(vals))
    BY <1>1, <1>2, <1>4, <1>5, Dropped
<1> QED
    BY <1>6, <1>7

LEMMA IstoreSame ==
    ASSUME IInv, istore
    PROVE  Java!Keep
<1>1. /\ Checked(<<"int">>) /\ op' = <<"istore">> /\ local' = mem[optop]
      /\ Retag(1, << >>) /\ UNCHANGED <<vm, mem, heap, branch, types, kept>>
    BY DEF istore
<1>2. PICK a \in Int : /\ a = mem[optop]
                       /\ Java!Operands(<<"int">>) /\ Java!Top(1) = S(Four, a)
    BY <1>1, FoundInt
<1>3. JavaStack' = Java!Below(1)
    BY <1>1, DroppedInt
<1>4. JavaLocal' = Java!Top(1)
    BY <1>1, <1>2 DEF JavaLocal
<1>5. JavaArrays' = JavaArrays
    BY <1>1 DEF JavaArrays, Element
<1> QED
    BY <1>1, <1>2, <1>3, <1>4, <1>5 DEF Java!Keep

\* Equality of words is equality of the integers they stand for.
LEMMA HoldsSame ==
    ASSUME NEW condition \in Conditions, NEW a \in WordValues, NEW b \in WordValues
    PROVE  Holds(condition, a, b) = Java!Holds(condition, S(Four, a), S(Four, b))
<1>1. S(Four, a) = S(Four, b) <=> a = b
    <2>1. S(Four, a) = S(Four, b) => a = b
        BY IntSize, CastInjective DEF WordValues
    <2> QED
        BY <2>1
<1>2. CASE condition = "eq"
    BY <1>1, <1>2 DEF Holds, Java!Holds
<1>3. CASE condition = "ne"
    BY <1>1, <1>3 DEF Holds, Java!Holds
<1>4. CASE condition \in {"lt", "ge", "gt", "le"}
    BY <1>4 DEF Holds, Java!Holds
<1> QED
    BY <1>2, <1>3, <1>4 DEF Conditions

LEMMA IfSame ==
    ASSUME IInv, NEW name \in {"if", "if_icmp"}, NEW condition \in Conditions,
           if(name, condition)
    PROVE  Java!Branch(condition)
<1>1. /\ op' = <<name, condition>> /\ UNCHANGED <<vm, mem, local, heap, types, kept>>
      /\ JavaLocal' = JavaLocal /\ JavaArrays' = JavaArrays
    BY DEF if, JavaLocal, JavaArrays, Element
<1>2. CASE name = "if"
    <2>1. Checked(<<"int">>) /\ Retag(1, << >>) /\ branch' = Holds(condition, mem[optop], 0)
        BY <1>2 DEF if
    <2>2. PICK a \in WordValues : /\ a = mem[optop]
                                  /\ Java!Operands(<<"int">>) /\ Java!Top(1) = S(Four, a)
        BY <2>1, FoundInt
    <2>3. S(Four, 0) = 0 /\ 0 \in WordValues
        <3>1. 0 \in WordValues
            BY WordSizes DEF WordValues
        <3>2. Signed(Four, 0) /\ Four \in Nat
            BY Ranges, IntSize
        <3> QED
            BY <3>1, <3>2, CastIdentity
    <2>4. branch' = Java!Holds(condition, Java!Top(1), 0)
        BY <2>1, <2>2, <2>3, HoldsSame
    <2>5. JavaStack' = Java!Below(1)
        BY <1>1, <2>1, DroppedInt
    <2> QED
        BY <1>1, <1>2, <2>2, <2>4, <2>5 DEF Java!Branch
<1>3. CASE name = "if_icmp"
    <2>1. /\ Checked(TagsOf(Four) \o TagsOf(Four)) /\ Retag(2, << >>)
          /\ branch' = Holds(condition, mem[optop - 1], mem[optop])
        <3>1. Checked(<<"int", "int">>) /\ Retag(2, << >>)
              /\ branch' = Holds(condition, mem[optop - 1], mem[optop])
            BY <1>3 DEF if
        <3>2. <<"int", "int">> = <<"int">> \o <<"int">>
            BY TwoValues
        <3> QED
            BY <3>1, <3>2, IntSize
    <2>2. PICK a \in Int, b \in Int :
              /\ a = Read(Four, First(Four)) /\ b = Read(Four, Second(Four))
              /\ a \in WordValues /\ b \in WordValues
              /\ Java!Operands(<<"int", "int">>)
              /\ Java!Top(2) = S(Four, a) /\ Java!Top(1) = S(Four, b)
        BY <2>1, IntSize, FoundTwo DEF WordValues
    <2>3. a = mem[optop - 1] /\ b = mem[optop]
        <3>1. optop \in Int
            BY DEF IInv, StackOK
        <3>2. First(Four) = optop - 1 /\ Second(Four) = optop
            BY <3>1, IntSize DEF First, Second
        <3> QED
            BY <2>2, <3>2 DEF Read
    <2>4. branch' = Java!Holds(condition, Java!Top(2), Java!Top(1))
        BY <2>1, <2>2, <2>3, HoldsSame
    <2>5. JavaStack' = Java!Below(2)
        BY <1>1, <2>1, DroppedInts
    <2> QED
        BY <1>1, <1>3, <2>2, <2>4, <2>5 DEF Java!Branch
<1> QED
    BY <1>2, <1>3

LEMMA LcmpSame ==
    ASSUME IInv, lcmp
    PROVE  Java!Compare
<1>1. Checked(TagsOf(Eight) \o TagsOf(Eight)) /\ op' = <<"lcmp">>
    <2>1. Checked(<<"low", "high", "low", "high">>) /\ op' = <<"lcmp">>
        BY DEF lcmp
    <2>2. <<"low", "high", "low", "high">> = <<"low", "high">> \o <<"low", "high">>
        BY PairsOfTags
    <2> QED
        BY <2>1, <2>2, IntSize
<1>2. PICK a \in Int, b \in Int :
          /\ a = Read(Eight, First(Eight)) /\ b = Read(Eight, Second(Eight))
          /\ Java!Operands(<<"long", "long">>)
          /\ Java!Top(2) = S(Eight, a) /\ Java!Top(1) = S(Eight, b)
    BY <1>1, IntSize, FoundTwo
<1>3. PICK x \in Int, y \in Int : x = S(Eight, a) /\ y = S(Eight, b)
    <2>1. Eight \in Nat
        BY IntSize
    <2> QED
        BY <2>1, CastTyped
<1>4. PICK v \in {-1, 0, 1} : v = IF x > y THEN 1 ELSE IF x < y THEN -1 ELSE 0
    OBVIOUS
<1>5. v \in Int /\ S(Four, v) = v
    <2>1. Signed(Four, v) /\ v \in Int /\ Four \in Nat
        BY IntSize, Ranges
    <2> QED
        BY <2>1, CastIdentity
<1>6. Replace(2 * WordsOf(Eight), Write(Four, First(Eight), v), TagsOf(Four))
    <2>1. optop \in Int
        BY DEF IInv, StackOK
    <2>2. First(Eight) = optop - 3 /\ 2 * WordsOf(Eight) = 4
        BY <2>1, IntSize DEF First
    <2>3. Replace(4, Write(Four, optop - 3, v), <<"int">>)
        BY <1>2, <1>3, <1>4 DEF lcmp
    <2> QED
        BY <2>2, <2>3, IntSize
<1>7. Java!Replace(2, <<Java!Integer(Four, v)>>)
    BY <1>1, <1>5, <1>6, IntSize, TwoReplaced
<1>8. Java!Integer(Four, v) = Java!Value("int", v)
    BY <1>5, IntSize, JavaWords DEF Java!Integer
<1> QED
    BY <1>1, <1>2, <1>3, <1>4, <1>7, <1>8 DEF Java!Compare

----------------------------------------------------------------------------
(* Copies and exchanges: the sizes of values are numbers of words. *)

Adding(f, s, n) ==
    /\ f[0] = 0
    /\ \A i \in 1 .. n : f[i] = f[i - 1] + Java!Size(s[i])
    /\ Java!Sizes(s) = f[n]

LEMMA SizesSum ==
    ASSUME NEW s, NEW n \in Nat, n = Len(s)
    PROVE  \E f : Adding(f, s, n)
<1> DEFINE Q(total) == total = [i \in 0 .. n |-> IF i = 0 THEN 0
                                                 ELSE total[i - 1] + Java!Size(s[i])]
           l == CHOOSE total : Q(total)
           step == [i \in 1 .. n |-> Java!Size(s[i])]
<1>1. step \in [1 .. n -> Int] /\ \A i \in 1 .. n : step[i] = Java!Size(s[i])
    BY DEF Java!Size
<1>2. ASSUME NEW f PROVE Q(f) <=> Sums(f, n, step)
    <2> HIDE DEF step
    <2>1. [i \in 0 .. n |-> IF i = 0 THEN 0 ELSE f[i - 1] + step[i]]
          = [i \in 0 .. n |-> IF i = 0 THEN 0 ELSE f[i - 1] + Java!Size(s[i])]
        BY <1>1
    <2> QED
        BY <2>1 DEF Sums
<1>3. \E f : Q(f)
    <2> HIDE DEF Q, step
    <2> QED
        BY <1>1, <1>2, SumsExist
<1>4. Q(l)
    <2> HIDE DEF Q
    <2> QED
        BY <1>3
<1>5. Java!Sizes(s) = l[n]
    BY DEF Java!Sizes
<1> HIDE DEF l
<1>6. l[0] = 0 /\ \A i \in 1 .. n : l[i] = l[i - 1] + Java!Size(s[i])
    <2>1. 0 \in 0 .. n /\ \A i \in 1 .. n : i \in 0 .. n /\ i # 0
        OBVIOUS
    <2> QED
        BY <1>4, <2>1
<1>7. Adding(l, s, n)
    BY <1>5, <1>6 DEF Adding
<1> QED
    BY <1>7

LEMMA SizesSmall ==
    /\ Java!Sizes(<< >>) = 0
    /\ \A x : Java!Sizes(<<x>>) = Java!Size(x)
    /\ \A x, y : Java!Sizes(<<x, y>>) = Java!Size(x) + Java!Size(y)
<1>1. Java!Sizes(<< >>) = 0
    <2>1. PICK s : s = << >> /\ Len(s) = 0
        OBVIOUS
    <2>2. PICK n \in Nat : n = Len(s) /\ n = 0
        BY <2>1
    <2>3. PICK f : Adding(f, s, n)
        BY <2>2, SizesSum
    <2> QED
        BY <2>1, <2>3, <2>2 DEF Adding
<1>2. ASSUME NEW x PROVE Java!Sizes(<<x>>) = Java!Size(x)
    <2>1. PICK s : s = <<x>> /\ Len(s) = 1 /\ s[1] = x
        <3>1. Len(<<x>>) = 1 /\ <<x>>[1] = x
            OBVIOUS
        <3> QED
            BY <3>1
    <2>2. PICK f : /\ f[0] = 0 /\ \A i \in 1 .. 1 : f[i] = f[i - 1] + Java!Size(s[i])
                   /\ Java!Sizes(s) = f[1]
        <3>1. PICK n \in Nat : n = Len(s) /\ n = 1
            BY <2>1
        <3>2. PICK f : Adding(f, s, n)
            BY <3>1, SizesSum
        <3> QED
            BY <3>1, <3>2 DEF Adding
    <2>3. f[1] = f[0] + Java!Size(x)
        BY <2>1, <2>2
    <2>4. Java!Size(x) \in Int
        BY DEF Java!Size
    <2> QED
        BY <2>1, <2>2, <2>3, <2>4
<1>3. ASSUME NEW x, NEW y PROVE Java!Sizes(<<x, y>>) = Java!Size(x) + Java!Size(y)
    <2>1. PICK s : s = <<x, y>> /\ Len(s) = 2 /\ s[1] = x /\ s[2] = y
        <3>1. Len(<<x, y>>) = 2 /\ <<x, y>>[1] = x /\ <<x, y>>[2] = y
            OBVIOUS
        <3> QED
            BY <3>1
    <2>2. PICK f : /\ f[0] = 0 /\ \A i \in 1 .. 2 : f[i] = f[i - 1] + Java!Size(s[i])
                   /\ Java!Sizes(s) = f[2]
        <3>1. PICK n \in Nat : n = Len(s) /\ n = 2
            BY <2>1
        <3>2. PICK f : Adding(f, s, n)
            BY <3>1, SizesSum
        <3> QED
            BY <3>1, <3>2 DEF Adding
    <2>3. f[1] = f[0] + Java!Size(x) /\ f[2] = f[1] + Java!Size(y)
        <3>1. 1 \in 1 .. 2 /\ 2 \in 1 .. 2 /\ 1 - 1 = 0 /\ 2 - 1 = 1
            OBVIOUS
        <3> QED
            BY <2>1, <2>2, <3>1
    <2>4. PICK a \in Int, b \in Int : a = Java!Size(x) /\ b = Java!Size(y)
        BY DEF Java!Size
    <2> QED
        BY <2>1, <2>2, <2>3, <2>4
<1> QED
    BY <1>1, <1>2, <1>3

\* One or two whole words are values of that size.
LEMMA SizeOfWords ==
    ASSUME NEW ts, NEW words, Piece(ts, words), Len(ts) \in 0 .. 2
    PROVE  /\ Java!Sizes(ValuesIn(ts, words)) = Len(ts)
           /\ Len(ts) > 0 => Len(ValuesIn(ts, words)) \in 1 .. 2
           /\ Len(ts) = 0 => Len(ValuesIn(ts, words)) = 0
<1>1. ts \in Seq(Tags) /\ Paired(ts) /\ \A p \in 1 .. Len(ts) : words[p] \in WordValues
    BY DEF Piece
<1>2. ASSUME NEW t \in {"int"} \cup Types, NEW v
      PROVE  Java!Size([kind |-> t, v |-> v]) = 1
    BY DEF Java!Size, Types
<1>3. CASE Len(ts) = 0
    <2>1. ts = << >>
        BY <1>1, <1>3
    <2>2. Len(<< >>) = 0
        OBVIOUS
    <2> QED
        BY <1>3, <2>1, <2>2, NoValues, SizesSmall
<1>4. CASE Len(ts) = 1
    <2>1. ts[1] \in {"int"} \cup Types
        BY <1>1, <1>4 DEF Paired, Tags
    <2>2. PICK t \in {"int"} \cup Types : t = ts[1]
        BY <2>1
    <2>3. ts = <<t>>
        BY <1>1, <1>4, <2>2
    <2>4. words[1] \in WordValues
        BY <1>1, <1>4
    <2>5. PICK x : /\ x = [kind |-> t, v |-> IF t = "int" THEN S(Four, words[1]) ELSE words[1]]
                   /\ ValuesIn(ts, words) = <<x>>
        BY <2>3, <2>4, WordValue
    <2>6. Java!Size(x) = 1
        BY <1>2, <2>5
    <2>7. Java!Sizes(<<x>>) = Java!Size(x) /\ Len(<<x>>) = 1
        BY SizesSmall
    <2> QED
        BY <1>4, <2>5, <2>6, <2>7
<1>5. CASE Len(ts) = 2 /\ ts[1] = "low"
    <2>1. ts[2] = "high"
        BY <1>1, <1>5 DEF Paired
    <2>2. ts = <<"low", "high">>
        BY <1>1, <1>5, <2>1
    <2>3. words[1] \in WordValues /\ words[2] \in WordValues
        BY <1>1, <1>5
    <2>4. PICK x, w : /\ x = [kind |-> "long", v |-> w] /\ ValuesIn(ts, words) = <<x>>
        BY <2>2, <2>3, LongValue
    <2>5. Java!Size(x) = 2
        BY <2>4 DEF Java!Size
    <2>6. Java!Sizes(<<x>>) = Java!Size(x) /\ Len(<<x>>) = 1
        BY SizesSmall
    <2> QED
        BY <1>5, <2>4, <2>5, <2>6
<1>6. CASE Len(ts) = 2 /\ ts[1] # "low"
    <2>1. ts[1] \in {"int"} \cup Types /\ ts[2] \in {"int"} \cup Types
        <3>1. 1 \in 1 .. Len(ts) /\ 2 \in 1 .. Len(ts) /\ 2 - 1 = 1
            BY <1>6
        <3>2. ts[1] \in Tags /\ ts[2] \in Tags
            BY <1>1, <3>1
        <3>3. ts[1] # "high" /\ ts[2] # "high" /\ ts[2] # "low"
            BY <1>1, <1>6, <3>1 DEF Paired
        <3> QED
            BY <1>6, <3>2, <3>3 DEF Tags
    <2>2. PICK t \in {"int"} \cup Types, u \in {"int"} \cup Types : t = ts[1] /\ u = ts[2]
        BY <2>1
    <2>3. PICK r, s : /\ r = <<t>> /\ Len(r) = 1 /\ s = <<u>> /\ Len(s) = 1 /\ ts = r \o s
        <3>1. ts = <<t, u>>
            BY <1>1, <1>6, <2>2
        <3>2. <<t, u>> = <<t>> \o <<u>>
            BY TwoValues
        <3>3. Len(<<t>>) = 1 /\ Len(<<u>>) = 1
            OBVIOUS
        <3> QED
            BY <3>1, <3>2, <3>3
    <2>4. PICK w : w = Segment(words, 1, 1) /\ w[1] = words[2]
        <3>1. 1 \in 1 .. 1 /\ 1 + 1 = 2
            OBVIOUS
        <3>2. Segment(words, 1, 1)[1] = words[1 + 1]
            BY <3>1 DEF Segment
        <3> QED
            BY <3>1, <3>2
    <2>5. words[1] \in WordValues /\ w[1] \in WordValues
        BY <1>1, <1>6, <2>4
    <2>6. PICK x : /\ x = [kind |-> t, v |-> IF t = "int" THEN S(Four, words[1]) ELSE words[1]]
                   /\ Piece(r, words) /\ ValuesIn(r, words) = <<x>>
        BY <2>3, <2>5, WordValue
    <2>7. PICK y : /\ y = [kind |-> u, v |-> IF u = "int" THEN S(Four, w[1]) ELSE w[1]]
                   /\ Piece(s, w) /\ ValuesIn(s, w) = <<y>>
        BY <2>3, <2>5, WordValue
    <2>8. ValuesIn(ts, words) = <<x>> \o <<y>>
        <3>1. /\ \A p \in 1 .. Len(r) : words[p] = words[p]
              /\ \A p \in 1 .. Len(s) : words[Len(r) + p] = w[p]
            BY <2>3, <2>4
        <3>2. Piece(r, words) /\ Piece(s, w)
            BY <2>6, <2>7
        <3>3. ValuesIn(r \o s, words) = ValuesIn(r, words) \o ValuesIn(s, w)
            BY ONLY <3>1, <3>2, ValuesSplit
        <3> QED
            BY <2>3, <2>6, <2>7, <3>3
    <2>9. <<x>> \o <<y>> = <<x, y>> /\ Len(<<x>> \o <<y>>) = 2
        BY TwoValues
    <2>10. Java!Size(x) = 1 /\ Java!Size(y) = 1
        BY <1>2, <2>6, <2>7
    <2>11. Java!Sizes(<<x, y>>) = Java!Size(x) + Java!Size(y)
        BY SizesSmall
    <2>12. Java!Sizes(ValuesIn(ts, words)) = 2
        <3>1. Java!Sizes(<<x, y>>) = 2
            BY <2>10, <2>11
        <3>2. ValuesIn(ts, words) = <<x, y>>
            BY <2>8, <2>9
        <3> QED
            BY <3>1, <3>2
    <2>13. Len(ValuesIn(ts, words)) = 2
        BY <2>8, <2>9
    <2> QED
        BY <1>6, <2>12, <2>13
<1> QED
    BY <1>3, <1>4, <1>5, <1>6

\* The values of a stack of three parts.
LEMMA Joined ==
    ASSUME NEW a \in Seq(JavaValue), NEW b \in Seq(JavaValue), NEW x \in Nat, NEW y \in Nat,
           x = Len(a), y = Len(b), NEW s, s = a \o b
    PROVE  /\ s \in Seq(JavaValue) /\ Len(s) = x + y
           /\ \A p \in 1 .. x : s[p] = a[p]
           /\ \A p \in 1 .. y : s[x + p] = b[p]
<1>1. s \in Seq(JavaValue) /\ Len(s) = x + y
    BY ConcatProperties
<1>2. \A p \in 1 .. x + y : s[p] = IF p <= x THEN a[p] ELSE b[p - x]
    BY ONLY a \in Seq(JavaValue), b \in Seq(JavaValue), x = Len(a), y = Len(b), s = a \o b,
            ConcatProperties
<1>3. ASSUME NEW p \in 1 .. x PROVE s[p] = a[p]
    <2>1. p \in 1 .. x + y /\ p <= x
        OBVIOUS
    <2> QED
        BY <1>2, <2>1
<1>4. ASSUME NEW p \in 1 .. y PROVE s[x + p] = b[p]
    <2>1. x + p \in 1 .. x + y /\ ~ (x + p <= x) /\ (x + p) - x = p
        OBVIOUS
    <2> QED
        BY <1>2, <2>1
<1> QED
    BY <1>1, <1>3, <1>4

LEMMA PartOfSequence ==
    ASSUME NEW s \in Seq(JavaValue), NEW d \in Nat, NEW l \in Nat, d + l <= Len(s),
           NEW t \in Seq(JavaValue), Len(t) = l, \A p \in 1 .. l : s[d + p] = t[p]
    PROVE  SubSeq(s, d + 1, d + l) = t
<1>1. PICK u, f, g : u = SubSeq(s, f, g) /\ f = d + 1 /\ g = d + l
    OBVIOUS
<1>2. f \in Int /\ g \in Int /\ \A p \in f .. g : s[p] \in JavaValue
    <2>1. PICK n \in Nat : n = Len(s) /\ \A p \in 1 .. n : s[p] \in JavaValue
        OBVIOUS
    <2>2. f \in Int /\ g \in Int /\ \A p \in f .. g : p \in 1 .. n
        BY <1>1, <2>1
    <2> QED
        BY <2>1, <2>2
<1>3. /\ SubSeq(s, f, g) \in Seq(JavaValue)
      /\ Len(SubSeq(s, f, g)) = IF f <= g THEN g - f + 1 ELSE 0
      /\ \A p \in 1 .. g - f + 1 : SubSeq(s, f, g)[p] = s[f + p - 1]
    BY <1>2, SubSeqProperties
<1>4. g - f + 1 = l /\ (l # 0 => f <= g) /\ (l = 0 => ~ (f <= g))
    BY <1>1
<1>5. u \in Seq(JavaValue) /\ Len(u) = l
    BY <1>1, <1>3, <1>4
<1>6. ASSUME NEW p \in 1 .. l PROVE u[p] = t[p]
    <2>1. f + p - 1 = d + p
        BY <1>1
    <2>2. u[p] = s[f + p - 1]
        BY <1>1, <1>3, <1>4
    <2> QED
        BY <2>1, <2>2
<1>7. u = t
    <2>1. Len(u) = Len(t) /\ \A p \in 1 .. Len(u) : u[p] = t[p]
        BY <1>5, <1>6
    <2> QED
        BY <1>5, <2>1, SeqEqual
<1> QED
    BY <1>1, <1>7

LEMMA PartsOfSequence ==
    ASSUME NEW a \in Seq(JavaValue), NEW b \in Seq(JavaValue), NEW c \in Seq(JavaValue),
           NEW i, NEW j, i = Len(c), j = Len(b), NEW st, st = a \o (b \o c)
    PROVE  /\ st \in Seq(JavaValue) /\ Len(st) = (Len(a) + j) + i
           /\ SubSeq(st, Len(st) - i + 1, Len(st)) = c
           /\ SubSeq(st, Len(st) - i - j + 1, Len(st) - i) = b
<1>1. PICK x \in Nat, y \in Nat, z \in Nat : x = Len(a) /\ y = Len(b) /\ z = Len(c)
    OBVIOUS
<1>2. PICK bc : bc = b \o c
    OBVIOUS
<1>3. /\ bc \in Seq(JavaValue) /\ Len(bc) = y + z
      /\ \A p \in 1 .. y : bc[p] = b[p]
      /\ \A p \in 1 .. z : bc[y + p] = c[p]
    BY <1>1, <1>2, Joined
<1>4. PICK l \in Nat : l = y + z
    OBVIOUS
<1>5. /\ st \in Seq(JavaValue) /\ Len(st) = x + l
      /\ \A p \in 1 .. l : st[x + p] = bc[p]
    <2>1. st = a \o bc /\ l = Len(bc)
        BY <1>2, <1>3, <1>4
    <2> QED
        BY <1>1, <1>3, <2>1, Joined
<1>6. ASSUME NEW p \in 1 .. y PROVE st[x + p] = b[p]
    <2>1. p \in 1 .. l
        BY <1>4
    <2> QED
        BY <1>3, <1>5, <2>1
<1>7. ASSUME NEW p \in 1 .. z PROVE st[(x + y) + p] = c[p]
    <2>1. (x + y) + p = x + (y + p) /\ y + p \in 1 .. l
        BY <1>4
    <2> QED
        BY <1>3, <1>5, <2>1
<1>8. SubSeq(st, (x + y) + 1, (x + y) + z) = c
    <2>1. PICK d \in Nat : d = x + y
        OBVIOUS
    <2>2. d + z <= Len(st) /\ \A p \in 1 .. z : st[d + p] = c[p]
        BY <1>4, <1>5, <1>7, <2>1
    <2>3. SubSeq(st, d + 1, d + z) = c
        BY <1>1, <1>5, <2>2, PartOfSequence
    <2> QED
        BY <2>1, <2>3
<1>9. SubSeq(st, x + 1, x + y) = b
    <2>1. x + y <= Len(st)
        BY <1>4, <1>5
    <2> QED
        BY <1>1, <1>5, <1>6, <2>1, PartOfSequence
<1>10. /\ Len(st) - i + 1 = (x + y) + 1 /\ Len(st) = (x + y) + z
       /\ Len(st) - i - j + 1 = x + 1 /\ Len(st) - i = x + y
    BY <1>1, <1>4, <1>5
<1> QED
    BY <1>1, <1>5, <1>8, <1>9, <1>10

LEMMA PopSame ==
    ASSUME IInv, NEW w \in 1 .. 2, pop(w)
    PROVE  Java!Drop(w)
<1>1. StackOK /\ Len(tags) = optop /\ optop \in Nat /\ tags \in Seq(Tags) /\ Paired(tags)
    BY DEF IInv, StackOK
<1>2. /\ vm = "running" /\ w \in 0 .. optop /\ w \in 1 .. optop /\ Boundary(w)
      /\ Replace(w, mem, << >>) /\ op' = <<"pop", w>>
    BY <1>1 DEF pop
<1>3. PICK d \in Nat : d = optop - w /\ d + w = optop
    BY <1>1, <1>2
<1>4. PICK old \in Seq(Tags) : Len(old) = w /\ \A j \in 1 .. w : tags[d + j] = old[j]
    <2>1. /\ d \in 0 .. Len(tags) /\ optop \in d .. Len(tags) /\ optop - d = w
          /\ (d < Len(tags) => tags[d + 1] # "high") /\ ~ (optop < Len(tags))
        BY <1>1, <1>2, <1>3 DEF Boundary
    <2>2. /\ SubSeq(tags, d + 1, optop) \in Seq(Tags) /\ Len(SubSeq(tags, d + 1, optop)) = optop - d
          /\ \A p \in 1 .. optop - d : SubSeq(tags, d + 1, optop)[p] = tags[d + p]
        BY <1>1, <2>1, SegmentPaired
    <2> QED
        BY <2>1, <2>2
<1>5. PICK vals : vals = ValuesIn(old, Segment(mem, optop - w, w))
    OBVIOUS
<1>6. /\ Piece(old, Segment(mem, optop - w, w)) /\ vals \in Seq(JavaValue)
      /\ \E rest \in Seq(JavaValue) : JavaStack = rest \o vals /\ JavaStack' = rest
    <2>1. w = Len(old) /\ \A j \in 1 .. w : tags[(optop - w) + j] = old[j]
        BY <1>3, <1>4
    <2>2. mem' = mem /\ Retag(w, << >>)
        BY <1>2 DEF Replace
    <2> QED
        BY <1>1, <1>2, <1>5, <2>1, <2>2, Dropped
<1>7. PICK rest \in Seq(JavaValue) : JavaStack = rest \o vals /\ JavaStack' = rest \o << >>
    <2>1. PICK rest \in Seq(JavaValue) : JavaStack = rest \o vals /\ JavaStack' = rest
        BY <1>6
    <2>2. rest \o << >> = rest
        BY ConcatEmptySeq
    <2> QED
        BY <2>1, <2>2
<1>8. Java!Sizes(vals) = w /\ Len(vals) \in 1 .. 2
    <2>1. /\ Piece(old, Segment(mem, optop - w, w)) /\ Len(old) \in 0 .. 2 /\ Len(old) = w
          /\ w > 0
        BY <1>4, <1>6
    <2> QED
        BY <1>5, <2>1, SizeOfWords
<1>9. PICK n \in 1 .. 2 : n = Len(vals)
    BY <1>8
<1>10. Java!Replace(n, << >>)
    <2>1. Quiet
        BY <1>2, ReplaceQuiet
    <2> QED
        BY <1>6, <1>7, <1>9, <2>1, JavaReplaces
<1>11. /\ n \in 1 .. Len(JavaStack)
       /\ SubSeq(JavaStack, Len(JavaStack) - n + 1, Len(JavaStack)) = vals
    <2>1. << >> \in Seq(JavaValue) /\ Len(<< >>) = 0
        OBVIOUS
    <2>2. PICK e \in Seq(JavaValue) : e = << >> /\ Len(e) = 0
        BY <2>1
    <2>3. JavaStack = rest \o (e \o vals)
        BY <1>6, <1>7, <2>2, ConcatEmptySeq
    <2>4. /\ JavaStack \in Seq(JavaValue) /\ Len(JavaStack) = (Len(rest) + 0) + n
          /\ SubSeq(JavaStack, Len(JavaStack) - n + 1, Len(JavaStack)) = vals
        <3>1. PICK i, j : i = Len(vals) /\ j = Len(e) /\ i = n /\ j = 0
            BY <1>9, <2>2
        <3>2. i = Len(vals) /\ j = Len(e)
            BY <3>1
        <3>3. /\ JavaStack = rest \o (e \o vals) /\ rest \in Seq(JavaValue)
              /\ vals \in Seq(JavaValue) /\ e \in Seq(JavaValue)
            BY <1>6, <2>2, <2>3
        <3>4. /\ JavaStack \in Seq(JavaValue) /\ Len(JavaStack) = (Len(rest) + j) + i
              /\ SubSeq(JavaStack, Len(JavaStack) - i + 1, Len(JavaStack)) = vals
            BY ONLY <3>3, <3>2, PartsOfSequence
        <3> QED
            BY <3>1, <3>4
    <2>5. Len(rest) \in Nat
        OBVIOUS
    <2> QED
        BY <2>4, <2>5
<1> QED
    BY <1>2, <1>8, <1>10, <1>11, EmptyOperands DEF Java!Drop

\* words begins with the words of two pieces.
Beside(words, s, v, t, u) ==
    /\ Piece(s, v) /\ Piece(t, u)
    /\ \A p \in 1 .. Len(s) : words[p] = v[p]
    /\ \A p \in 1 .. Len(t) : words[Len(s) + p] = u[p]

LEMMA ValuesBeside ==
    ASSUME NEW words, NEW s, NEW v, NEW t, NEW u, Beside(words, s, v, t, u)
    PROVE  /\ Piece(s \o t, words)
           /\ ValuesIn(s \o t, words) = ValuesIn(s, v) \o ValuesIn(t, u)
BY ValuesSplit DEF Beside

LEMMA TagsJoined ==
    ASSUME NEW a \in Seq(Tags), NEW b \in Seq(Tags), NEW x \in Nat, NEW y \in Nat,
           x = Len(a), y = Len(b), NEW s, s = a \o b
    PROVE  /\ s \in Seq(Tags) /\ Len(s) = x + y
           /\ \A p \in 1 .. x : s[p] = a[p]
           /\ \A p \in 1 .. y : s[x + p] = b[p]
<1>1. s \in Seq(Tags) /\ Len(s) = x + y
    BY ConcatProperties
<1>2. \A p \in 1 .. x + y : s[p] = IF p <= x THEN a[p] ELSE b[p - x]
    BY ONLY a \in Seq(Tags), b \in Seq(Tags), x = Len(a), y = Len(b), s = a \o b,
            ConcatProperties
<1>3. ASSUME NEW p \in 1 .. x PROVE s[p] = a[p]
    <2>1. p \in 1 .. x + y /\ p <= x
        OBVIOUS
    <2> QED
        BY <1>2, <2>1
<1>4. ASSUME NEW p \in 1 .. y PROVE s[x + p] = b[p]
    <2>1. x + p \in 1 .. x + y /\ ~ (x + p <= x) /\ (x + p) - x = p
        OBVIOUS
    <2> QED
        BY <1>2, <2>1
<1> QED
    BY <1>1, <1>3, <1>4

\* The words old on top become the words ts.
Exchanged(old, ts) ==
    /\ old \in Seq(Tags) /\ Fits(Len(old), mem', ts) /\ Retag(Len(old), ts)
    /\ \A j \in 1 .. Len(old) : tags[(optop - Len(old)) + j] = old[j]

LEMMA StackExchange ==
    ASSUME StackOK, NEW old, NEW ts, Exchanged(old, ts)
    PROVE  \E rest \in Seq(JavaValue) :
              /\ JavaStack = rest \o ValuesIn(old, Segment(mem, optop - Len(old), Len(old)))
              /\ JavaStack' = rest \o ValuesIn(ts, Segment(mem', optop - Len(old), Len(ts)))
<1>1. PICK n : n = Len(old)
    OBVIOUS
<1>2. /\ old \in Seq(Tags) /\ n = Len(old) /\ Fits(n, mem', ts) /\ Retag(n, ts)
      /\ \A j \in 1 .. n : tags[(optop - n) + j] = old[j]
    BY <1>1 DEF Exchanged
<1>3. \E rest \in Seq(JavaValue) :
          /\ JavaStack = rest \o ValuesIn(old, Segment(mem, optop - n, n))
          /\ JavaStack' = rest \o ValuesIn(ts, Segment(mem', optop - n, Len(ts)))
    BY ONLY StackOK, <1>2, StackStep
<1> QED
    BY <1>1, <1>3

\* The values of a stack of three parts, from the bottom.
Three(st, a, b, c) ==
    /\ a \in Seq(JavaValue) /\ b \in Seq(JavaValue) /\ c \in Seq(JavaValue)
    /\ st = a \o (b \o c)

LEMMA PartsOfThree ==
    ASSUME NEW st, NEW a, NEW b, NEW c, Three(st, a, b, c)
    PROVE  /\ st \in Seq(JavaValue) /\ Len(st) = (Len(a) + Len(b)) + Len(c)
           /\ SubSeq(st, Len(st) - Len(c) + 1, Len(st)) = c
           /\ SubSeq(st, Len(st) - Len(c) - Len(b) + 1, Len(st) - Len(c)) = b
<1>1. PICK i, j : i = Len(c) /\ j = Len(b)
    OBVIOUS
<1>2. /\ a \in Seq(JavaValue) /\ b \in Seq(JavaValue) /\ c \in Seq(JavaValue)
      /\ st = a \o (b \o c) /\ i = Len(c) /\ j = Len(b)
    BY <1>1 DEF Three
<1>3. /\ st \in Seq(JavaValue) /\ Len(st) = (Len(a) + j) + i
      /\ SubSeq(st, Len(st) - i + 1, Len(st)) = c
      /\ SubSeq(st, Len(st) - i - j + 1, Len(st) - i) = b
    BY ONLY <1>2, PartsOfSequence
<1> QED
    BY <1>1, <1>3

LEMMA PieceTyped ==
    ASSUME NEW ts, NEW words, Piece(ts, words)
    PROVE  ValuesIn(ts, words) \in Seq(JavaValue)
<1>1. PICK f : Reading(f, ts, words) /\ ValuesIn(ts, words) = f[Len(ts)]
    BY ValuesRead
<1>2. Len(ts) \in 0 .. Len(ts)
    BY DEF Piece
<1> QED
    BY <1>1, <1>2, ReadingTyped

LEMMA SegmentTyped ==
    ASSUME StackOK, NEW d \in Nat, NEW l \in Nat, d + l <= optop
    PROVE  \A p \in 1 .. l : /\ Segment(mem, d, l)[p] = mem[d + p]
                             /\ Segment(mem, d, l)[p] \in WordValues
<1>1. optop \in 0 .. StackWords /\ StackWords \in Nat /\ mem \in [1 .. StackWords -> WordValues]
    BY OperationsAssumption DEF StackOK
<1>2. SUFFICES ASSUME NEW p \in 1 .. l
               PROVE  /\ Segment(mem, d, l)[p] = mem[d + p]
                      /\ Segment(mem, d, l)[p] \in WordValues
    OBVIOUS
<1>3. Segment(mem, d, l)[p] = mem[d + p]
    BY DEF Segment
<1>4. d + p \in 1 .. StackWords
    BY <1>1
<1> QED
    BY <1>1, <1>3, <1>4

\* The words of a copy, read as values: mid and tp before, tp, mid and tp after.
LEMMA DupValues ==
    ASSUME IInv, NEW n \in 1 .. 2, NEW m \in 0 .. 2, dup(n, m)
    PROVE  \E tp, mid, rest \in Seq(JavaValue) :
              /\ Java!Sizes(tp) = n /\ Java!Sizes(mid) = m
              /\ JavaStack = rest \o (mid \o tp)
              /\ JavaStack' = rest \o ((tp \o mid) \o tp)
<1>1. StackOK /\ optop \in 0 .. StackWords /\ StackWords \in Nat
    BY OperationsAssumption DEF IInv, StackOK
<1>2. PICK d \in Nat, top \in Seq(Tags), middle \in Seq(Tags), ts \in Seq(Tags), r \in Memory :
          DupParts(n, m, d, top, middle, ts, r)
    BY DupShape
<1>3. /\ d = optop - (n + m) /\ optop = (d + m) + n
      /\ Len(top) = n /\ Paired(top) /\ \A p \in 1 .. n : top[p] = tags[(d + m) + p]
      /\ Len(middle) = m /\ Paired(middle) /\ \A p \in 1 .. m : middle[p] = tags[d + p]
    BY <1>2 DEF DupParts
<1>4. /\ ts = (top \o middle) \o top /\ Len(ts) = (n + m) + n
      /\ Replace(n + m, r, ts) /\ Fits(n + m, r, ts)
    BY <1>2 DEF DupParts
<1>5. /\ \A j \in 1 .. n : r[d + j] = mem[(d + m) + j]
      /\ \A j \in 1 .. n : r[optop + j] = mem[(d + m) + j]
      /\ \A j \in 1 .. m : r[(d + n) + j] = mem[d + j]
    BY <1>2 DEF DupParts
<1>6. PICK l \in Nat, k \in Nat : l = n + m /\ k = (n + m) + n
    OBVIOUS
<1>7. PICK old \in Seq(Tags) : /\ old = middle \o top /\ Len(old) = l
                               /\ \A j \in 1 .. l : tags[(optop - l) + j] = old[j]
    <2>1. PICK c : c = middle \o top
        OBVIOUS
    <2>2. /\ c \in Seq(Tags) /\ Len(c) = m + n
          /\ \A p \in 1 .. m : c[p] = middle[p]
          /\ \A p \in 1 .. n : c[m + p] = top[p]
        <3>1. /\ middle \in Seq(Tags) /\ top \in Seq(Tags) /\ m \in Nat /\ n \in Nat
              /\ m = Len(middle) /\ n = Len(top)
            BY <1>3
        <3> QED
            BY ONLY <2>1, <3>1, TagsJoined
    <2>3. optop - l = d /\ m + n = l
        BY <1>3, <1>6
    <2>4. ASSUME NEW j \in 1 .. l PROVE tags[d + j] = c[j]
        <3>1. CASE j \in 1 .. m
            BY <1>3, <2>2, <3>1
        <3>2. CASE ~ (j \in 1 .. m)
            <4>1. PICK i \in 1 .. n : j = m + i /\ (d + m) + i = d + j
                <5>1. j - m \in 1 .. n /\ j = m + (j - m) /\ (d + m) + (j - m) = d + j
                    BY <2>3, <3>2
                <5> QED
                    BY <5>1
            <4>2. c[j] = top[i] /\ top[i] = tags[(d + m) + i]
                BY <1>3, <2>2, <4>1
            <4> QED
                BY <4>1, <4>2
        <3> QED
            BY <3>1, <3>2
    <2> QED
        BY <2>1, <2>2, <2>3, <2>4
<1>8. PICK wo, wt, wm, wn :
          /\ wo = Segment(mem, d, l) /\ wt = Segment(mem, d + m, n) /\ wm = Segment(mem, d, m)
          /\ wn = Segment(mem', d, k)
    OBVIOUS
<1>9. PICK rest \in Seq(JavaValue) : /\ JavaStack = rest \o ValuesIn(old, wo)
                                     /\ JavaStack' = rest \o ValuesIn(ts, wn)
    <2>1. mem' = r /\ Retag(l, ts) /\ Fits(l, mem', ts)
        BY <1>4, <1>6 DEF Replace
    <2>2. \E rest \in Seq(JavaValue) :
              /\ JavaStack = rest \o ValuesIn(old, Segment(mem, optop - l, l))
              /\ JavaStack' = rest \o ValuesIn(ts, Segment(mem', optop - l, Len(ts)))
        <3>1. Exchanged(old, ts)
            BY <1>7, <2>1 DEF Exchanged
        <3> QED
            BY <1>1, <1>7, <3>1, StackExchange
    <2>3. optop - l = d /\ Len(ts) = k
        BY <1>3, <1>4, <1>6
    <2> QED
        BY <1>8, <2>2, <2>3
<1>10. Piece(top, wt) /\ \A p \in 1 .. n : wt[p] = mem[(d + m) + p]
    <2>1. d + m \in Nat /\ (d + m) + n <= optop /\ n \in Nat
        BY <1>3
    <2>2. \A p \in 1 .. n : wt[p] = mem[(d + m) + p] /\ wt[p] \in WordValues
        BY <1>1, <1>8, <2>1, SegmentTyped
    <2> QED
        BY <1>3, <2>2 DEF Piece
<1>11. Piece(middle, wm) /\ \A p \in 1 .. m : wm[p] = mem[d + p]
    <2>1. d + m <= optop /\ m \in Nat
        BY <1>3
    <2>2. \A p \in 1 .. m : wm[p] = mem[d + p] /\ wm[p] \in WordValues
        BY <1>1, <1>8, <2>1, SegmentTyped
    <2> QED
        BY <1>3, <2>2 DEF Piece
<1>12. PICK tp \in Seq(JavaValue), mid \in Seq(JavaValue) :
           tp = ValuesIn(top, wt) /\ mid = ValuesIn(middle, wm)
    <2>1. ValuesIn(top, wt) \in Seq(JavaValue) /\ ValuesIn(middle, wm) \in Seq(JavaValue)
        BY <1>10, <1>11, PieceTyped
    <2> QED
        BY <2>1
<1>13. ValuesIn(old, wo) = mid \o tp
    <2>1. \A p \in 1 .. l : wo[p] = mem[d + p]
        BY <1>8 DEF Segment
    <2>2. ASSUME NEW p \in 1 .. m PROVE wo[p] = wm[p]
        <3>1. p \in 1 .. l
            BY <1>6
        <3> QED
            BY <1>11, <2>1, <3>1
    <2>3. ASSUME NEW p \in 1 .. n PROVE wo[m + p] = wt[p]
        <3>1. m + p \in 1 .. l /\ d + (m + p) = (d + m) + p
            BY <1>6
        <3>2. wo[m + p] = mem[d + (m + p)] /\ wt[p] = mem[(d + m) + p]
            BY <1>10, <2>1, <3>1
        <3> QED
            BY <3>1, <3>2
    <2>4. m = Len(middle) /\ n = Len(top) /\ Piece(middle, wm) /\ Piece(top, wt)
        BY <1>3, <1>10, <1>11
    <2>5. ValuesIn(middle \o top, wo) = ValuesIn(middle, wm) \o ValuesIn(top, wt)
        <3>1. Beside(wo, middle, wm, top, wt)
            BY ONLY <2>2, <2>3, <2>4 DEF Beside
        <3> QED
            BY ONLY <3>1, ValuesBeside
    <2> QED
        BY <1>7, <1>12, <2>5
<1>14. \A p \in 1 .. k : wn[p] = r[d + p]
    <2>1. mem' = r
        BY <1>4 DEF Replace
    <2> QED
        BY <1>8, <2>1 DEF Segment
<1>15. Piece(top \o middle, wn) /\ ValuesIn(top \o middle, wn) = tp \o mid
    <2>1. ASSUME NEW p \in 1 .. n PROVE wn[p] = wt[p]
        <3>1. p \in 1 .. k
            BY <1>6
        <3> QED
            BY <1>5, <1>10, <1>14, <3>1
    <2>2. ASSUME NEW p \in 1 .. m PROVE wn[n + p] = wm[p]
        <3>1. n + p \in 1 .. k /\ d + (n + p) = (d + n) + p
            BY <1>6
        <3>2. wn[n + p] = r[d + (n + p)] /\ r[(d + n) + p] = mem[d + p] /\ wm[p] = mem[d + p]
            BY <1>5, <1>11, <1>14, <3>1
        <3> QED
            BY <3>1, <3>2
    <2>3. m = Len(middle) /\ n = Len(top) /\ Piece(middle, wm) /\ Piece(top, wt)
        BY <1>3, <1>10, <1>11
    <2>4. /\ Piece(top \o middle, wn)
          /\ ValuesIn(top \o middle, wn) = ValuesIn(top, wt) \o ValuesIn(middle, wm)
        <3>1. Beside(wn, top, wt, middle, wm)
            BY ONLY <2>1, <2>2, <2>3 DEF Beside
        <3> QED
            BY ONLY <3>1, ValuesBeside
    <2> QED
        BY <1>12, <2>4
<1>16. ValuesIn(ts, wn) = (tp \o mid) \o tp
    <2>1. PICK half : half = top \o middle
        OBVIOUS
    <2>2. Len(half) = l
        <3>1. /\ middle \in Seq(Tags) /\ top \in Seq(Tags) /\ m \in Nat /\ n \in Nat
              /\ m = Len(middle) /\ n = Len(top)
            BY <1>3
        <3>2. Len(half) = n + m
            BY ONLY <2>1, <3>1, TagsJoined
        <3> QED
            BY <1>6, <3>2
    <2>3. ASSUME NEW p \in 1 .. n PROVE wn[l + p] = wt[p]
        <3>1. l + p \in 1 .. k /\ d + (l + p) = optop + p
            BY <1>3, <1>6
        <3>2. wn[l + p] = r[d + (l + p)] /\ r[optop + p] = mem[(d + m) + p]
            BY <1>5, <1>14, <3>1
        <3> QED
            BY <1>10, <3>1, <3>2
    <2>4. /\ l = Len(half) /\ n = Len(top) /\ Piece(half, wn) /\ Piece(top, wt)
          /\ \A p \in 1 .. l : wn[p] = wn[p]
        BY <1>3, <1>10, <1>15, <2>1, <2>2
    <2>5. ValuesIn(half \o top, wn) = ValuesIn(half, wn) \o ValuesIn(top, wt)
        <3>1. Beside(wn, half, wn, top, wt)
            BY ONLY <2>3, <2>4 DEF Beside
        <3> QED
            BY ONLY <3>1, ValuesBeside
    <2> QED
        BY <1>4, <1>12, <1>15, <2>1, <2>5
<1>17. Java!Sizes(tp) = n /\ Java!Sizes(mid) = m
    <2>1. Len(top) \in 0 .. 2 /\ Len(middle) \in 0 .. 2
        BY <1>3
    <2> QED
        BY <1>3, <1>10, <1>11, <1>12, <2>1, SizeOfWords
<1> QED
    BY <1>9, <1>12, <1>13, <1>16, <1>17

LEMMA DupSame ==
    ASSUME IInv, NEW n \in 1 .. 2, NEW m \in 0 .. 2, dup(n, m)
    PROVE  Java!Copy(n, m)
<1>1. vm = "running" /\ op' = <<"dup", n, m>> /\ Quiet
    <2>1. PICK d \in Nat, top \in Seq(Tags), middle \in Seq(Tags), ts \in Seq(Tags), r \in Memory :
              DupParts(n, m, d, top, middle, ts, r)
        BY DupShape
    <2>2. Quiet
        BY <2>1, ReplaceQuiet DEF DupParts
    <2> QED
        BY <2>2 DEF dup
<1>2. PICK tp \in Seq(JavaValue), mid \in Seq(JavaValue), rest \in Seq(JavaValue) :
          /\ Java!Sizes(tp) = n /\ Java!Sizes(mid) = m
          /\ JavaStack = rest \o (mid \o tp)
          /\ JavaStack' = rest \o ((tp \o mid) \o tp)
    BY DupValues
<1>3. PICK i \in Nat, j \in Nat, x \in Nat : i = Len(tp) /\ j = Len(mid) /\ x = Len(rest)
    OBVIOUS
<1>4. /\ Len(JavaStack) = (x + j) + i
      /\ SubSeq(JavaStack, Len(JavaStack) - i + 1, Len(JavaStack)) = tp
      /\ SubSeq(JavaStack, Len(JavaStack) - i - j + 1, Len(JavaStack) - i) = mid
    <2>1. PICK st : st = JavaStack
        OBVIOUS
    <2>2. /\ rest \in Seq(JavaValue) /\ mid \in Seq(JavaValue) /\ tp \in Seq(JavaValue)
          /\ i = Len(tp) /\ j = Len(mid) /\ st = rest \o (mid \o tp)
        BY <1>2, <1>3, <2>1
    <2>3. /\ Len(st) = (Len(rest) + j) + i
          /\ SubSeq(st, Len(st) - i + 1, Len(st)) = tp
          /\ SubSeq(st, Len(st) - i - j + 1, Len(st) - i) = mid
        <3>1. Three(st, rest, mid, tp)
            BY ONLY <2>2 DEF Three
        <3>2. /\ Len(st) = (Len(rest) + Len(mid)) + Len(tp)
              /\ SubSeq(st, Len(st) - Len(tp) + 1, Len(st)) = tp
              /\ SubSeq(st, Len(st) - Len(tp) - Len(mid) + 1, Len(st) - Len(tp)) = mid
            BY ONLY <3>1, PartsOfThree
        <3> QED
            BY ONLY <2>2, <3>2
    <2> QED
        BY <1>3, <2>1, <2>3
<1>5. i \in 0 .. Len(JavaStack) /\ j \in 0 .. Len(JavaStack) /\ i + j <= Len(JavaStack)
    BY <1>4
<1>6. Java!Replace(i + j, (tp \o mid) \o tp)
    <2>1. PICK vals \in Seq(JavaValue) : vals = mid \o tp /\ Len(vals) = i + j
        <3>1. PICK s : s = mid \o tp
            OBVIOUS
        <3>2. s \in Seq(JavaValue) /\ Len(s) = j + i
            BY <1>3, <3>1, Joined
        <3>3. j + i = i + j
            OBVIOUS
        <3> WITNESS s \in Seq(JavaValue)
        <3> QED
            BY <3>1, <3>2, <3>3
    <2>2. Java!Replace(Len(vals), (tp \o mid) \o tp)
        BY <1>1, <1>2, <2>1, JavaReplaces
    <2> QED
        BY <2>1, <2>2
<1> QED
    BY <1>1, <1>2, <1>4, <1>5, <1>6, EmptyOperands DEF Java!Copy

Appended(s, a, b) ==
    a \in Seq(JavaValue) /\ b \in Seq(JavaValue) /\ s = a \o b

LEMMA AppendedShape ==
    ASSUME NEW s, NEW a, NEW b, Appended(s, a, b)
    PROVE  /\ s \in Seq(JavaValue) /\ Len(s) = Len(a) + Len(b)
           /\ \A p \in 1 .. Len(b) : s[Len(a) + p] = b[p]
<1>1. a \in Seq(JavaValue) /\ b \in Seq(JavaValue) /\ s = a \o b
    BY DEF Appended
<1>2. Len(a) \in Nat /\ Len(b) \in Nat
    BY <1>1
<1>3. PICK x \in Nat : x = Len(a)
    BY <1>2
<1>4. PICK y \in Nat : y = Len(b)
    BY <1>2
<1>5. /\ s \in Seq(JavaValue) /\ Len(s) = x + y
      /\ \A p \in 1 .. y : s[x + p] = b[p]
    BY <1>1, <1>3, <1>4, Joined
<1> QED
    BY <1>3, <1>4, <1>5

\* The value of a word that is not part of a long.
WordAs(t, w) == [kind |-> t, v |-> IF t = "int" THEN S(Four, w) ELSE w]

LEMMA TwoWordValues ==
    ASSUME NEW t \in {"int"} \cup Types, NEW u \in {"int"} \cup Types, NEW words,
           words[1] \in WordValues, words[2] \in WordValues
    PROVE  ValuesIn(<<t, u>>, words) = <<WordAs(t, words[1]), WordAs(u, words[2])>>
<1>1. PICK r, s : /\ r = <<t>> /\ Len(r) = 1 /\ s = <<u>> /\ Len(s) = 1 /\ r \o s = <<t, u>>
    <2>1. <<t, u>> = <<t>> \o <<u>>
        BY TwoValues
    <2>2. Len(<<t>>) = 1 /\ Len(<<u>>) = 1
        OBVIOUS
    <2> QED
        BY <2>1, <2>2
<1>2. PICK w : w = Segment(words, 1, 1) /\ w[1] = words[2]
    <2>1. 1 \in 1 .. 1 /\ 1 + 1 = 2
        OBVIOUS
    <2>2. Segment(words, 1, 1)[1] = words[1 + 1]
        BY <2>1 DEF Segment
    <2> QED
        BY <2>1, <2>2
<1>3. Piece(r, words) /\ ValuesIn(r, words) = <<WordAs(t, words[1])>>
    BY <1>1, WordValue DEF WordAs
<1>4. Piece(s, w) /\ ValuesIn(s, w) = <<WordAs(u, words[2])>>
    BY <1>1, <1>2, WordValue DEF WordAs
<1>5. Beside(words, r, words, s, w)
    <2>1. /\ \A p \in 1 .. Len(r) : words[p] = words[p]
          /\ \A p \in 1 .. Len(s) : words[Len(r) + p] = w[p]
        BY <1>1, <1>2
    <2> QED
        BY <1>3, <1>4, <2>1 DEF Beside
<1>6. ValuesIn(r \o s, words) = ValuesIn(r, words) \o ValuesIn(s, w)
    BY ONLY <1>5, ValuesBeside
<1>7. \A x, y : <<x>> \o <<y>> = <<x, y>>
    BY TwoValues
<1> QED
    BY <1>1, <1>3, <1>4, <1>6, <1>7

\* One word replaces what was on top.
LEMMA WordStep ==
    ASSUME StackOK, NEW old, NEW t \in {"int"} \cup Types, Exchanged(old, <<t>>),
           NEW w, w = mem'[(optop - Len(old)) + 1]
    PROVE  \E rest \in Seq(JavaValue) :
              /\ JavaStack = rest \o ValuesIn(old, Segment(mem, optop - Len(old), Len(old)))
              /\ JavaStack' = rest \o <<WordAs(t, w)>>
<1>1. PICK ts : ts = <<t>> /\ Len(ts) = 1
    <2>1. Len(<<t>>) = 1
        OBVIOUS
    <2> QED
        BY <2>1
<1>2. PICK n \in Nat, d \in Nat : n = Len(old) /\ d = optop - n /\ d + 1 <= StackWords
    <2>1. Fits(Len(old), mem', ts) /\ optop \in 0 .. StackWords /\ StackWords \in Nat
        BY <1>1, OperationsAssumption DEF Exchanged, StackOK
    <2>2. Len(old) \in 0 .. optop /\ (optop - Len(old)) + 1 <= StackWords
        BY <1>1, <2>1 DEF Fits
    <2>3. PICK n : n = Len(old) /\ n \in 0 .. optop /\ (optop - n) + 1 <= StackWords
        BY <2>2
    <2>4. n \in Nat /\ optop - n \in Nat
        BY <2>1, <2>3
    <2> QED
        BY <2>3, <2>4
<1>3. PICK s : s = Segment(mem', d, 1) /\ s[1] = mem'[d + 1]
    <2>1. 1 \in 1 .. 1
        OBVIOUS
    <2>2. Segment(mem', d, 1)[1] = mem'[d + 1]
        BY <2>1 DEF Segment
    <2> QED
        BY <2>2
<1>4. s[1] \in WordValues
    <2>1. mem' \in [1 .. StackWords -> WordValues]
        BY DEF Exchanged, Fits
    <2>2. d + 1 \in 1 .. StackWords
        BY <1>2, OperationsAssumption
    <2> QED
        BY <1>3, <2>1, <2>2
<1>5. ValuesIn(ts, s) = <<WordAs(t, w)>>
    <2>1. ValuesIn(<<t>>, s) = <<WordAs(t, s[1])>>
        BY <1>4, WordValue DEF WordAs
    <2> QED
        BY <1>1, <1>2, <1>3, <2>1
<1>6. Exchanged(old, ts)
    BY <1>1
<1>7. \E rest \in Seq(JavaValue) :
          /\ JavaStack = rest \o ValuesIn(old, Segment(mem, optop - Len(old), Len(old)))
          /\ JavaStack' = rest \o ValuesIn(ts, Segment(mem', optop - Len(old), Len(ts)))
    BY <1>6, StackExchange
<1>8. ValuesIn(ts, Segment(mem', optop - Len(old), Len(ts))) = <<WordAs(t, w)>>
    BY <1>1, <1>2, <1>3, <1>5
<1> QED
    BY <1>7, <1>8

LEMMA SwapSame ==
    ASSUME IInv, swap
    PROVE  Java!Swap
<1>1. StackOK
    BY DEF IInv
<1>2. PICK q \in 1 .. StackWords, x \in Tags, y \in Tags, ts \in Seq(Tags), r \in Memory :
          SwapParts(q, x, y, ts, r)
    BY SwapShape
<1>3. /\ q = optop /\ q - 1 \in 1 .. StackWords /\ x = tags[q] /\ y = tags[q - 1]
      /\ x \in {"int"} \cup Types /\ y \in {"int"} \cup Types
      /\ ts = <<x, y>> /\ Len(ts) = 2
      /\ r[q] = mem[q - 1] /\ r[q - 1] = mem[q]
      /\ Replace(2, r, ts) /\ Fits(2, r, ts)
    BY <1>2 DEF SwapParts, Tags
<1>4. vm = "running" /\ op' = <<"swap">>
    BY DEF swap
<1>5. PICK old : old = <<y, x>> /\ Len(old) = 2 /\ old \in Seq(Tags) /\ old[1] = y /\ old[2] = x
    <2>1. <<y, x>> \in Seq(Tags) /\ Len(<<y, x>>) = 2 /\ <<y, x>>[1] = y /\ <<y, x>>[2] = x
        OBVIOUS
    <2> QED
        BY <2>1
<1>6. PICK d \in Nat : d = optop - 2 /\ d + 1 = q - 1 /\ d + 2 = q
    <2>1. q - 2 \in Nat /\ (q - 2) + 1 = q - 1 /\ (q - 2) + 2 = q
        BY <1>3
    <2> QED
        BY <1>3, <2>1
<1>7. Exchanged(old, ts)
    <2>1. \A j \in 1 .. 2 : tags[(optop - 2) + j] = old[j]
        BY <1>3, <1>5, <1>6
    <2>2. Fits(2, mem', ts) /\ Retag(2, ts)
        BY <1>3 DEF Replace
    <2> QED
        BY <1>5, <2>1, <2>2 DEF Exchanged
<1>8. PICK a, b : a = WordAs(y, mem[q - 1]) /\ b = WordAs(x, mem[q])
    OBVIOUS
<1>9. PICK wo, wn : /\ wo = Segment(mem, d, 2) /\ wo[1] = mem[q - 1] /\ wo[2] = mem[q]
                    /\ wn = Segment(mem', d, 2) /\ wn[1] = mem[q] /\ wn[2] = mem[q - 1]
    <2>1. 1 \in 1 .. 2 /\ 2 \in 1 .. 2
        OBVIOUS
    <2>2. /\ Segment(mem, d, 2)[1] = mem[d + 1] /\ Segment(mem, d, 2)[2] = mem[d + 2]
          /\ Segment(mem', d, 2)[1] = mem'[d + 1] /\ Segment(mem', d, 2)[2] = mem'[d + 2]
        BY <2>1 DEF Segment
    <2>3. mem' = r
        BY <1>3 DEF Replace
    <2> QED
        BY <1>3, <1>6, <2>2, <2>3
<1>10. mem[q] \in WordValues /\ mem[q - 1] \in WordValues
    BY <1>1, <1>3 DEF StackOK
<1>11. ValuesIn(old, wo) = <<a, b>> /\ ValuesIn(ts, wn) = <<b, a>>
    <2>1. /\ x \in {"int"} \cup Types /\ y \in {"int"} \cup Types
          /\ wo[1] \in WordValues /\ wo[2] \in WordValues
          /\ wn[1] \in WordValues /\ wn[2] \in WordValues
        BY <1>3, <1>9, <1>10
    <2>2. ValuesIn(<<y, x>>, wo) = <<WordAs(y, wo[1]), WordAs(x, wo[2])>>
        BY ONLY <2>1, TwoWordValues
    <2>3. ValuesIn(<<x, y>>, wn) = <<WordAs(x, wn[1]), WordAs(y, wn[2])>>
        BY ONLY <2>1, TwoWordValues
    <2> QED
        BY <1>3, <1>5, <1>8, <1>9, <2>2, <2>3
<1>12. PICK rest \in Seq(JavaValue) :
           JavaStack = rest \o <<a, b>> /\ JavaStack' = rest \o <<b, a>>
    <2>1. \E rest \in Seq(JavaValue) :
              /\ JavaStack = rest \o ValuesIn(old, Segment(mem, optop - Len(old), Len(old)))
              /\ JavaStack' = rest \o ValuesIn(ts, Segment(mem', optop - Len(old), Len(ts)))
        BY <1>1, <1>7, StackExchange
    <2> QED
        BY <1>3, <1>5, <1>6, <1>9, <1>11, <2>1
<1>13. a \in JavaValue /\ b \in JavaValue /\ Java!Size(a) = 1 /\ Java!Size(b) = 1
    <2>1. ASSUME NEW t \in {"int"} \cup Types, NEW w \in WordValues
          PROVE  WordAs(t, w) \in JavaValue /\ Java!Size(WordAs(t, w)) = 1
        <3>1. w \in Int /\ S(Four, w) \in Int
            BY CastTyped DEF WordValues, Four
        <3>2. Java!Size([kind |-> t, v |-> IF t = "int" THEN S(Four, w) ELSE w]) = 1
            BY DEF Java!Size, Types
        <3> QED
            BY <3>1, <3>2 DEF WordAs, JavaValue
    <2> QED
        BY <1>3, <1>8, <1>10, <2>1
<1>14. PICK vals \in Seq(JavaValue) : /\ vals = <<a, b>> /\ Len(vals) = 2
                                      /\ vals[1] = a /\ vals[2] = b
    <2>1. /\ <<a, b>> \in Seq(JavaValue) /\ Len(<<a, b>>) = 2
          /\ <<a, b>>[1] = a /\ <<a, b>>[2] = b
        BY <1>13
    <2> QED
        BY <2>1
<1>15. Java!Replace(2, <<b, a>>)
    <2>1. Quiet
        BY <1>3, ReplaceQuiet
    <2>2. JavaStack = rest \o vals /\ JavaStack' = rest \o <<b, a>>
        BY <1>12, <1>14
    <2>3. Java!Replace(Len(vals), <<b, a>>)
        BY <2>1, <2>2, JavaReplaces
    <2> QED
        BY <1>14, <2>3
<1>16. /\ Len(JavaStack) >= 2
       /\ JavaStack[Len(JavaStack) - 1] = a /\ JavaStack[Len(JavaStack)] = b
    <2>1. PICK st : st = rest \o vals /\ st = JavaStack
        BY <1>12, <1>14
    <2>2. PICK x0 \in Nat : x0 = Len(rest)
        OBVIOUS
    <2>3. /\ Len(st) = x0 + 2 /\ \A p \in 1 .. 2 : st[x0 + p] = vals[p]
        <3>1. /\ rest \in Seq(JavaValue) /\ vals \in Seq(JavaValue) /\ x0 \in Nat
              /\ 2 \in Nat /\ 2 = Len(vals) /\ x0 = Len(rest) /\ st = rest \o vals
            BY <1>14, <2>2, <2>1
        <3>2. Appended(st, rest, vals)
            BY <3>1 DEF Appended
        <3>3. /\ Len(st) = Len(rest) + Len(vals)
              /\ \A p \in 1 .. Len(vals) : st[Len(rest) + p] = vals[p]
            BY ONLY <3>2, AppendedShape
        <3> QED
            BY ONLY <3>1, <3>3
    <2>4. Len(st) - 1 = x0 + 1 /\ 1 \in 1 .. 2 /\ 2 \in 1 .. 2
        BY <2>3
    <2> QED
        BY <1>14, <2>3, <2>4, <2>1
<1> QED
    BY <1>4, <1>13, <1>15, <1>16, EmptyOperands DEF Java!Swap

----------------------------------------------------------------------------
(* Constants. *)

\* Nothing is asked for.
LEMMA NothingAsked ==
    ASSUME StackOK
    PROVE  /\ << >> \in Seq(Tags) /\ Len(<< >>) = 0 /\ 0 \in 0 .. optop /\ Boundary(0)
           /\ \A words : ValuesIn(<< >>, words) = << >>
<1>1. /\ << >> \in Seq(Tags) /\ Len(<< >>) = 0
    OBVIOUS
<1>2. 0 \in 0 .. optop /\ Boundary(0)
    <2>1. optop \in Nat /\ Len(tags) = optop
        BY OperationsAssumption DEF StackOK
    <2> QED
        BY <2>1 DEF Boundary
<1> QED
    BY <1>1, <1>2, NoValues

LEMMA PushNumber ==
    ASSUME IInv, vm = "running", NEW k \in Sizes, NEW v \in Int, Push(v, TagsOf(k))
    PROVE  Java!Replace(0, <<Java!Integer(k, v)>>)
<1>1. /\ StackOK /\ optop \in 0 .. StackWords /\ StackWords \in Nat
      /\ ConstantWords \in 0 .. StackWords
    BY OperationsAssumption DEF IInv, StackOK
<1>2. Len(TagsOf(k)) = WordsOf(k) /\ WordsOf(k) \in 1 .. 2 /\ Four * Len(TagsOf(k)) = k
    <2>1. Len(TagsOf(k)) = WordsOf(k) /\ WordsOf(k) \in 1 .. 2
        BY TagsTyped
    <2>2. Four * WordsOf(k) = k
        BY DEF Sizes, WordsOf, Four, Eight
    <2> QED
        BY <2>1, <2>2
<1>3. /\ optop + WordsOf(k) <= ConstantWords
      /\ Replace(0, Write(k, optop + 1, v), TagsOf(k))
    BY <1>2 DEF Push
<1>4. PICK old \in Seq(Tags) : old = << >> /\ Len(old) = 0
    BY <1>1, NothingAsked
<1>5. PICK n \in Nat : /\ old = << >> /\ n = Len(old) /\ n = 0 /\ n <= optop /\ Boundary(n)
    <2>1. 0 \in Nat /\ 0 <= optop /\ Boundary(0)
        BY <1>1, NothingAsked
    <2> QED
        BY <1>4, <2>1
<1>6. /\ (optop - n) + WordsOf(k) <= StackWords /\ optop + 1 = (optop - n) + 1
      /\ \A j \in 1 .. n : tags[(optop - n) + j] = old[j]
    BY <1>1, <1>2, <1>3, <1>5
<1>7. PICK vals : vals = ValuesIn(old, Segment(mem, optop - n, n))
    OBVIOUS
<1>8. vals = << >>
    BY <1>1, <1>5, <1>7, NothingAsked
<1>9. Replace(n, Write(k, optop + 1, v), TagsOf(k))
    BY <1>3, <1>5
<1>10. Java!Replace(Len(vals), <<Java!Integer(k, v)>>)
    BY <1>5, <1>6, <1>7, <1>9, NumberStep
<1>11. Len(vals) = 0
    BY <1>1, <1>8, NothingAsked
<1> QED
    BY <1>10, <1>11

LEMMA PushWord ==
    ASSUME IInv, vm = "running", NEW t \in {"int"} \cup Types, NEW a \in WordValues,
           Push(a, <<t>>)
    PROVE  Java!Replace(0, <<WordAs(t, a)>>)
<1>1. /\ StackOK /\ optop \in 0 .. StackWords /\ StackWords \in Nat
      /\ ConstantWords \in 0 .. StackWords /\ mem \in [1 .. StackWords -> WordValues]
    BY OperationsAssumption DEF IInv, StackOK
<1>2. <<t>> \in Seq(Tags) /\ Paired(<<t>>) /\ Len(<<t>>) = 1
    BY TagsTyped
<1>3. Boundary(0) /\ 0 \in 0 .. optop
    BY <1>1, NothingAsked
<1>4. /\ optop + 1 <= ConstantWords
      /\ Replace(0, Write(Four * Len(<<t>>), optop + 1, a), <<t>>)
    BY <1>2 DEF Push
<1>5. Four * Len(<<t>>) = Four
    BY <1>2 DEF Four
<1>6. U(Four, a) = a
    <2>1. a \in Int /\ a \in 0 .. Values(Four) - 1 /\ Four \in Nat
        BY DEF WordValues, Four
    <2> QED
        BY <2>1, CastIdentity
<1>7. mem' = [mem EXCEPT ![optop + 1] = a]
    BY <1>4, <1>5, <1>6 DEF Replace, Write
<1>8. PICK p \in 1 .. StackWords : p = optop + 1
    BY <1>1, <1>4
<1>9. /\ mem' \in [1 .. StackWords -> WordValues] /\ mem'[p] = a
      /\ \A q \in 1 .. optop : mem'[q] = mem[q]
    BY <1>1, <1>7, <1>8
<1>10. Fits(0, mem', <<t>>)
    BY <1>1, <1>2, <1>3, <1>8, <1>9 DEF Fits
<1>11. PICK old \in Seq(Tags) : old = << >> /\ Len(old) = 0
    BY <1>1, NothingAsked
<1>12. Exchanged(old, <<t>>)
    <2>1. Retag(0, <<t>>)
        BY <1>4 DEF Replace
    <2>2. \A j \in 1 .. 0 : tags[(optop - 0) + j] = old[j]
        OBVIOUS
    <2> QED
        BY <1>10, <1>11, <2>1, <2>2 DEF Exchanged
<1>13. a = mem'[(optop - Len(old)) + 1]
    BY <1>1, <1>8, <1>9, <1>11
<1>14. PICK rest \in Seq(JavaValue) :
           /\ JavaStack = rest \o ValuesIn(old, Segment(mem, optop - Len(old), Len(old)))
           /\ JavaStack' = rest \o <<WordAs(t, a)>>
    BY <1>1, <1>12, <1>13, WordStep
<1>15. PICK vals \in Seq(JavaValue) : vals = << >> /\ Len(vals) = 0
    <2>1. << >> \in Seq(JavaValue) /\ Len(<< >>) = 0
        OBVIOUS
    <2> QED
        BY <2>1
<1>16. JavaStack = rest \o vals
    BY <1>11, <1>14, <1>15, NoValues
<1>17. Quiet
    BY <1>4, ReplaceQuiet
<1>18. Java!Replace(Len(vals), <<WordAs(t, a)>>)
    BY <1>14, <1>16, <1>17, JavaReplaces
<1> QED
    BY <1>15, <1>18

LEMMA ConstantSame ==
    ASSUME IInv, Constant
    PROVE  Java!Constant
<1>1. /\ vm = "running" /\ IntLiterals \subseteq Int /\ ArrayLiterals \subseteq Int
      /\ LongLiterals \subseteq Int
    BY OperationsAssumption DEF Constant
<1>2. Java!Operands(<< >>)
    BY <1>1, EmptyOperands
<1>3. /\ Four \in Sizes /\ Eight \in Sizes
      /\ TagsOf(Four) = <<"int">> /\ TagsOf(Eight) = <<"low", "high">>
    BY IntSize
<1>4. Java!Four = Four /\ Java!Eight = Eight
    BY JavaWords
<1>5. CASE \E v \in IF left = Budget THEN IntLiterals ELSE ArrayLiterals :
               op' = <<"const", Four>> /\ Push(v, <<"int">>)
    <2>1. PICK v \in IntLiterals \cup ArrayLiterals : op' = <<"const", Four>> /\ Push(v, <<"int">>)
        BY <1>5
    <2>2. v \in Int
        BY <1>1
    <2>3. Java!Replace(0, <<Java!Integer(Four, v)>>)
        BY <1>1, <1>3, <2>1, <2>2, PushNumber
    <2>4. \E x \in IntLiterals \cup ArrayLiterals :
              op' = <<"const", Java!Four>> /\ Java!Replace(0, <<Java!Integer(Java!Four, x)>>)
        BY <1>4, <2>1, <2>3
    <2> QED
        BY <1>2, <2>4 DEF Java!Constant
<1>6. CASE \E v \in LongLiterals : op' = <<"const", Eight>> /\ Push(v, <<"low", "high">>)
    <2>1. PICK v \in LongLiterals : op' = <<"const", Eight>> /\ Push(v, <<"low", "high">>)
        BY <1>6
    <2>2. v \in Int
        BY <1>1
    <2>3. Java!Replace(0, <<Java!Integer(Eight, v)>>)
        BY <1>1, <1>3, <2>1, <2>2, PushNumber
    <2>4. \E x \in LongLiterals :
              op' = <<"const", Java!Eight>> /\ Java!Replace(0, <<Java!Integer(Java!Eight, x)>>)
        BY <1>4, <2>1, <2>3
    <2> QED
        BY <1>2, <2>4 DEF Java!Constant
<1>7. CASE \E t \in Types : op' = <<"null", t>> /\ Push(NullAddress, <<t>>)
    <2>1. PICK t \in Types : op' = <<"null", t>> /\ Push(NullAddress, <<t>>)
        BY <1>7
    <2>2. NullAddress \in WordValues
        BY WordSizes DEF NullAddress, WordValues
    <2>3. Java!Replace(0, <<WordAs(t, NullAddress)>>)
        BY <1>1, <2>1, <2>2, PushWord
    <2>4. WordAs(t, NullAddress) = Java!Value(t, Java!Null)
        BY DEF WordAs, Java!Value, Java!Null, NullAddress, Types
    <2>5. \E s \in Java!Types : op' = <<"null", s>> /\ Java!Replace(0, <<Java!Value(s, Java!Null)>>)
        BY <2>1, <2>3, <2>4 DEF Types, Java!Types
    <2> QED
        BY <1>2, <2>5 DEF Java!Constant
<1>8. CASE op' = <<"iload">> /\ Push(local, <<"int">>)
    <2>1. local \in WordValues
        BY DEF IInv, RestOK
    <2>2. Java!Replace(0, <<WordAs("int", local)>>)
        BY <1>1, <1>8, <2>1, PushWord
    <2>3. WordAs("int", local) = Java!Value("int", JavaLocal)
        BY DEF WordAs, Java!Value, JavaLocal
    <2>4. op' = <<"iload">> /\ Java!Replace(0, <<Java!Value("int", JavaLocal)>>)
        BY <1>8, <2>2, <2>3
    <2> QED
        BY <1>2, <2>4 DEF Java!Constant
<1>9. CASE \E a \in DOMAIN heap : op' = <<"aload">> /\ Push(a, <<types[a]>>)
    <2>1. PICK a \in DOMAIN heap : op' = <<"aload">> /\ Push(a, <<types[a]>>)
        BY <1>9
    <2>2. PICK h \in Nat : h = Len(heap) /\ h <= MaxArrays /\ a \in 1 .. h
        BY DEF IInv, HeapOK
    <2>3. PICK w \in Nat \ {0} : w = Values(Four)
        BY WordSizes
    <2>4. a \in WordValues
        BY <2>2, <2>3, OperationsAssumption DEF WordValues
    <2>5. PICK t \in Types : t = types[a]
        BY <2>2 DEF IInv, HeapOK
    <2>6. Java!Replace(0, <<WordAs(t, a)>>)
        BY <1>1, <2>1, <2>4, <2>5, PushWord
    <2>7. DOMAIN JavaArrays = 1 .. h /\ JavaArrays[a].type = t
        BY <2>2, <2>5 DEF JavaArrays
    <2>8. WordAs(t, a) = Java!Value(JavaArrays[a].type, a)
        BY <2>7 DEF WordAs, Java!Value, Types
    <2>9. \E x \in DOMAIN JavaArrays :
              op' = <<"aload">> /\ Java!Replace(0, <<Java!Value(JavaArrays[x].type, x)>>)
        BY <2>1, <2>2, <2>6, <2>7, <2>8
    <2> QED
        BY <1>2, <2>9 DEF Java!Constant
<1> QED
    BY <1>5, <1>6, <1>7, <1>8, <1>9 DEF Constant

----------------------------------------------------------------------------
(* Arrays. *)

\* An element as Java sees it, and a whole array.
ElementOf(t, block, i) ==
    IF Width(t) \in {Four, Eight} THEN S(Width(t), ElementAt(block, Width(t), i))
    ELSE ElementAt(block, Width(t), i)
ElementsOf(t, b) == [i \in 1 .. b.length |-> ElementOf(t, b.arr, i - 1)]
ArrayOf(t, b) == [type |-> t, elements |-> ElementsOf(t, b)]

LEMMA ArraysRead ==
    /\ JavaArrays = [a \in 1 .. Len(heap) |-> ArrayOf(types[a], heap[a])]
    /\ JavaArrays' = [a \in 1 .. Len(heap') |-> ArrayOf(types'[a], heap'[a])]
BY DEF JavaArrays, ArrayOf, ElementsOf, ElementOf, Element

\* k bytes are a number of k bytes.
LEMMA ElementRange ==
    ASSUME NEW block \in Seq(Byte), NEW k \in Nat, NEW i \in Nat, ~ Outside(block, k, i)
    PROVE  ElementAt(block, k, i) \in 0 .. Values(k) - 1
<1>1. \A n \in 1 .. k : block[k * i + n] \in Byte
    <2> SUFFICES ASSUME NEW n \in 1 .. k PROVE block[k * i + n] \in Byte
        OBVIOUS
    <2>1. Len(block) \in Nat
        OBVIOUS
    <2>2. k * i + n \in 1 .. Len(block)
        BY <2>1, ElementWithin
    <2> QED
        BY <2>2
<1>2. Byte \subseteq Int
    BY DEF Byte
<1>3. PICK f \in [0 .. k -> Int] : /\ Sums(f, k, Parts(block, k, i))
                                   /\ ElementAt(block, k, i) = f[k]
    BY <1>1, <1>2, ElementIsSum
<1> DEFINE X == {m \in Nat : m <= k => f[m] \in 0 .. Values(m) - 1}
<1>4. 0 \in X
    <2>1. PICK z \in Nat \ {0} : z = Values(0)
        BY ValuesTyped
    <2>2. f[0] = 0
        BY <1>3 DEF Sums
    <2> QED
        BY <2>1, <2>2
<1>5. ASSUME NEW m \in Nat, m \in X PROVE m + 1 \in X
    <2> SUFFICES ASSUME m + 1 <= k PROVE f[m + 1] \in 0 .. Values(m + 1) - 1
        OBVIOUS
    <2>1. f[m + 1] = f[m] + Parts(block, k, i)[m + 1]
        BY <1>3 DEF Sums
    <2>2. PICK p \in Nat \ {0} : p = Values(m)
        BY ValuesTyped
    <2>3. PICK q \in Nat \ {0} : q = Values(1)
        BY ValuesTyped
    <2>4. Values(m + 1) = p * q
        BY <2>2, <2>3, ValuesOfSum
    <2>5. (m + 1) - 1 = m /\ m + 1 \in 1 .. k
        OBVIOUS
    <2>6. PICK c \in 0 .. q - 1 : c = block[k * i + (m + 1)]
        BY <1>1, <2>3, <2>5 DEF Byte, One
    <2>7. Parts(block, k, i)[m + 1] = c * p
        BY <2>2, <2>5, <2>6 DEF Parts
    <2>8. PICK x \in 0 .. p - 1 : x = f[m]
        BY <1>5, <2>2
    <2>9. x + c * p \in 0 .. p * q - 1
        <3>1. c * p <= (q - 1) * p /\ c * p \in Nat
            <4>1. PICK e \in Nat : q - 1 = c + e
                <5>1. (q - 1) - c \in Nat /\ q - 1 = c + ((q - 1) - c)
                    OBVIOUS
                <5> QED
                    BY <5>1
            <4>2. (q - 1) * p = (c + e) * p
                BY <4>1
            <4>3. (c + e) * p = c * p + e * p /\ e * p \in Nat /\ c * p \in Nat
                OBVIOUS
            <4> QED
                BY <4>2, <4>3
        <3>2. (q - 1) * p = p * q - p
            OBVIOUS
        <3>3. PICK y \in Nat, z \in Int : y = c * p /\ z = p * q
            BY <3>1
        <3>4. y <= z - p
            BY <3>1, <3>2, <3>3
        <3>5. x + y \in 0 .. z - 1
            BY <2>8, <3>4
        <3> QED
            BY <3>3, <3>5
    <2> QED
        BY <2>1, <2>4, <2>7, <2>8, <2>9
<1>6. Nat \subseteq X
    <2> HIDE DEF X
    <2> QED
        BY <1>4, <1>5, SetInduction
<1>7. f[k] \in 0 .. Values(k) - 1
    BY <1>6
<1> QED
    BY <1>3, <1>7

\* calloc: every element is 0.
LEMMA ZeroElement ==
    ASSUME NEW block \in Seq(Byte), NEW k \in Nat, NEW i \in Nat, ~ Outside(block, k, i),
           \A b \in 1 .. Len(block) : block[b] = 0
    PROVE  ElementAt(block, k, i) = 0
<1>1. PICK new \in Seq(Byte) :
          /\ new = WithElement(block, k, i, 0) /\ Len(new) = Len(block)
          /\ \A b \in 1 .. Len(block) : new[b] =
                 IF b \in k * i + 1 .. k * i + k
                 THEN (0 \div Values(b - k * i - 1)) % Values(One) ELSE block[b]
    BY WithElementTyped
<1>2. ASSUME NEW b \in 1 .. Len(block) PROVE new[b] = block[b]
    <2>1. CASE b \in k * i + 1 .. k * i + k
        <3>1. PICK p \in Nat : p = k * i
            OBVIOUS
        <3>2. b - k * i - 1 \in Nat
            BY <2>1, <3>1
        <3>3. PICK n \in Nat \ {0}, m \in Nat \ {0} : n = Values(b - k * i - 1) /\ m = Values(One)
            BY <3>2, ValuesTyped DEF One
        <3>4. 0 \div n = 0 /\ 0 % m = 0
            <4>1. 0 = n * 0 + 0 /\ 0 = m * 0 + 0 /\ 0 \in 0 .. n - 1 /\ 0 \in 0 .. m - 1
                OBVIOUS
            <4> QED
                BY <4>1, Remainder
        <3> QED
            BY <1>1, <2>1, <3>3, <3>4
    <2>2. CASE ~ (b \in k * i + 1 .. k * i + k)
        BY <1>1, <2>2
    <2> QED
        BY <2>1, <2>2
<1>3. new = block
    BY <1>1, <1>2, SeqEqual
<1>4. ElementAt(WithElement(block, k, i, 0), k, i) = U(k, 0)
    <2>1. 0 \in Int
        OBVIOUS
    <2> QED
        BY <2>1, StoredIsLoaded
<1>5. U(k, 0) = 0
    <2>1. PICK n \in Nat \ {0} : n = Values(k)
        BY ValuesTyped
    <2>2. 0 \in 0 .. Values(k) - 1
        BY <2>1
    <2> QED
        BY <2>2, CastIdentity
<1> QED
    BY <1>1, <1>3, <1>4, <1>5

\* What an access finds in an array of its type.
LEMMA ElementRead ==
    ASSUME NEW t \in Types, NEW block \in Seq(Byte), NEW i \in Nat,
           ~ Outside(block, Width(t), i), NEW k, k = Four * Len(ElementTags(t))
    PROVE  /\ ElementAt(block, Width(t), i) \in Int
           /\ S(k, ElementAt(block, Width(t), i)) = ElementOf(t, block, i)
<1>1. PICK w \in Nat : w = Width(t) /\ w \in {1, 2, 4, 8}
    BY Widths
<1>2. PICK e \in Int : e = ElementAt(block, w, i) /\ e \in 0 .. Values(w) - 1
    <2>1. ElementAt(block, w, i) \in 0 .. Values(w) - 1
        BY <1>1, ElementRange
    <2>2. Values(w) \in Nat
        BY ValuesTyped
    <2> QED
        BY <2>1, <2>2
<1>3. CASE t = "T_LONG"
    <2>1. w = 8 /\ k = 8
        <3>1. Len(<<"low", "high">>) = 2
            OBVIOUS
        <3> QED
            BY <1>1, <1>3, <3>1 DEF Width, ElementTags, Four, Eight
    <2>2. ElementOf(t, block, i) = S(8, e)
        BY <1>1, <1>2, <2>1 DEF ElementOf, Eight
    <2> QED
        BY <1>1, <1>2, <2>1, <2>2
<1>4. CASE t = "T_INT"
    <2>1. w = 4 /\ k = 4
        <3>1. Len(<<"int">>) = 1
            OBVIOUS
        <3> QED
            BY <1>1, <1>4, <3>1 DEF Width, ElementTags, Four
    <2>2. ElementOf(t, block, i) = S(4, e)
        BY <1>1, <1>2, <2>1 DEF ElementOf, Four
    <2> QED
        BY <1>1, <1>2, <2>1, <2>2
<1>5. CASE t \notin {"T_INT", "T_LONG"}
    <2>1. w \in {One, Two} /\ k = Four
        <3>1. Len(<<"int">>) = 1
            OBVIOUS
        <3> QED
            BY <1>1, <1>5, <3>1 DEF Width, ElementTags, Four, Types, One, Two
    <2>2. ElementOf(t, block, i) = e
        BY <1>1, <1>2, <2>1 DEF ElementOf, Four, Eight, One, Two
    <2>3. U(w, e) = e
        BY <1>2, CastIdentity
    <2>4. Signed(Four, e)
        <3>1. Signed(Four, U(One, e)) /\ Signed(Four, U(Two, e))
            BY Ranges
        <3> QED
            BY <2>1, <2>3, <3>1
    <2>5. S(Four, e) = e
        <3>1. Four \in Nat
            BY DEF Four
        <3> QED
            BY <2>4, <3>1, CastIdentity
    <2> QED
        BY <1>1, <1>2, <2>1, <2>2, <2>5
<1> QED
    BY <1>3, <1>4, <1>5

\* A length is a positive integer, and so is an index within it.
LEMMA IndexSame ==
    ASSUME NEW n \in Nat, 2 * n < Values(Four), NEW i \in WordValues
    PROVE  /\ S(Four, n) = n
           /\ i >= n <=> S(Four, i) < 0 \/ S(Four, i) >= n
           /\ i < n => S(Four, i) = i
<1>1. PICK w \in Nat \ {0} : w = Values(Four)
    BY WordSizes
<1>2. i \in 0 .. w - 1 /\ i \in Nat
    BY <1>1 DEF WordValues
<1>3. U(Four, n) = n /\ U(Four, i) = i
    <2>1. n \in 0 .. Values(Four) - 1 /\ i \in 0 .. Values(Four) - 1 /\ Four \in Nat
        BY <1>1, <1>2 DEF Four
    <2> QED
        BY <1>2, <2>1, CastIdentity
<1>4. /\ S(Four, n) = IF 2 * n < w THEN n ELSE n - w
      /\ S(Four, i) = IF 2 * i < w THEN i ELSE i - w
    BY <1>1, <1>3 DEF S
<1> QED
    BY <1>1, <1>2, <1>4

LEMMA FunctionIsSequence ==
    ASSUME NEW n \in Nat, NEW X, NEW s, s \in [1 .. n -> X]
    PROVE  s \in Seq(X) /\ Len(s) = n
<1>1. s \in Seq(X)
    BY SeqDef
<1>2. DOMAIN s = 1 .. n /\ DOMAIN s = 1 .. Len(s) /\ Len(s) \in Nat
    BY <1>1
<1> QED
    BY <1>1, <1>2

LEMMA ArraysShape ==
    ASSUME HeapOK
    PROVE  /\ DOMAIN JavaArrays = 1 .. Len(heap) /\ Len(JavaArrays) = Len(heap)
           /\ Len(heap) \in Nat
           /\ \A a \in 1 .. Len(heap) : JavaArrays[a] = ArrayOf(types[a], heap[a])
<1>1. PICK h \in Nat : h = Len(heap)
    BY DEF HeapOK
<1>2. PICK s : s = JavaArrays /\ s = [a \in 1 .. h |-> ArrayOf(types[a], heap[a])]
    BY <1>1, ArraysRead
<1>3. PICK X : X = {ArrayOf(types[a], heap[a]) : a \in 1 .. h}
    OBVIOUS
<1>4. s \in [1 .. h -> X]
    BY <1>2, <1>3
<1>5. Len(s) = h
    BY <1>4, FunctionIsSequence
<1> QED
    BY <1>1, <1>2, <1>5

LEMMA ArraysAppended ==
    ASSUME HeapOK, NEW t \in Types, NEW b \in Block,
           heap' = Append(heap, b), types' = Append(types, t)
    PROVE  JavaArrays' = Append(JavaArrays, ArrayOf(t, b))
<1>1. PICK h \in Nat : h = Len(heap)
    BY DEF HeapOK
<1>2. heap \in Seq(Block) /\ types \in Seq(Types) /\ Len(types) = h
    BY <1>1 DEF HeapOK
<1>3. /\ Len(heap') = h + 1 /\ heap'[h + 1] = b /\ types'[h + 1] = t
      /\ \A a \in 1 .. h : heap'[a] = heap[a] /\ types'[a] = types[a]
    BY <1>1, <1>2
<1>4. PICK s : s = JavaArrays /\ s = [a \in 1 .. h |-> ArrayOf(types[a], heap[a])]
    BY <1>1, ArraysRead
<1>5. PICK u : u = JavaArrays' /\ u = [a \in 1 .. h + 1 |-> ArrayOf(types'[a], heap'[a])]
    BY <1>3, ArraysRead
<1>6. PICK x : x = ArrayOf(t, b)
    OBVIOUS
<1>7. PICK X : X = {ArrayOf(types[a], heap[a]) : a \in 1 .. h} \cup {x}
    OBVIOUS
<1>8. s \in Seq(X) /\ Len(s) = h
    <2>1. s \in [1 .. h -> X]
        BY <1>4, <1>7
    <2> QED
        BY <2>1, FunctionIsSequence
<1>9. /\ \A a \in 1 .. h : u[a] = s[a]
      /\ u[h + 1] = x
    <2>1. h + 1 \in 1 .. h + 1 /\ \A a \in 1 .. h : a \in 1 .. h + 1
        OBVIOUS
    <2>2. ASSUME NEW a \in 1 .. h PROVE u[a] = s[a]
        <3>1. u[a] = ArrayOf(types'[a], heap'[a]) /\ s[a] = ArrayOf(types[a], heap[a])
            BY <1>4, <1>5, <2>1
        <3> QED
            BY <1>3, <3>1
    <2>3. u[h + 1] = ArrayOf(types'[h + 1], heap'[h + 1])
        BY <1>5, <2>1
    <2> QED
        BY <1>3, <1>6, <2>2, <2>3
<1>10. u \in Seq(X) /\ Len(u) = h + 1
    <2>1. \A a \in 1 .. h + 1 : a \in 1 .. h \/ a = h + 1
        OBVIOUS
    <2>2. \A a \in 1 .. h : s[a] \in X
        BY <1>4, <1>7
    <2>3. x \in X
        BY <1>7
    <2>4. \A a \in 1 .. h + 1 : u[a] \in X
        BY <1>9, <2>1, <2>2, <2>3
    <2>5. u \in [1 .. h + 1 -> X]
        BY <1>5, <2>4
    <2>6. h + 1 \in Nat
        OBVIOUS
    <2> QED
        BY <2>5, <2>6, FunctionIsSequence
<1>11. PICK v \in Seq(X) : /\ v = Append(s, x) /\ Len(v) = h + 1
                           /\ \A a \in 1 .. h : v[a] = s[a]
                           /\ v[h + 1] = x
    <2>1. x \in X
        BY <1>7
    <2>2. /\ Append(s, x) \in Seq(X) /\ Len(Append(s, x)) = Len(s) + 1
          /\ \A a \in 1 .. Len(s) : Append(s, x)[a] = s[a]
          /\ Append(s, x)[Len(s) + 1] = x
        BY <1>8, <2>1, AppendProperties
    <2> QED
        BY <1>8, <2>2
<1>12. u = v
    <2>1. \A a \in 1 .. Len(u) : u[a] = v[a]
        <3>1. \A a \in 1 .. h + 1 : a \in 1 .. h \/ a = h + 1
            OBVIOUS
        <3> QED
            BY <1>9, <1>10, <1>11, <3>1
    <2> QED
        BY <1>10, <1>11, <2>1, SeqEqual
<1> QED
    BY <1>4, <1>5, <1>6, <1>11, <1>12

\* One word in the place of the words a guard asked for.
LEMMA WordReplaced ==
    ASSUME StackOK, NEW old, NEW t \in {"int"} \cup Types, Exchanged(old, <<t>>),
           NEW w, w = mem'[(optop - Len(old)) + 1],
           NEW vals, vals = ValuesIn(old, Segment(mem, optop - Len(old), Len(old))),
           vals \in Seq(JavaValue)
    PROVE  /\ Java!Below(Len(vals)) \in Seq(JavaValue)
           /\ JavaStack' = Java!Below(Len(vals)) \o <<WordAs(t, w)>>
<1>1. PICK rest \in Seq(JavaValue) :
          JavaStack = rest \o vals /\ JavaStack' = rest \o <<WordAs(t, w)>>
    <2>1. \E rest \in Seq(JavaValue) :
              /\ JavaStack = rest \o ValuesIn(old, Segment(mem, optop - Len(old), Len(old)))
              /\ JavaStack' = rest \o <<WordAs(t, w)>>
        BY WordStep
    <2> QED
        BY <2>1
<1>2. Java!Below(Len(vals)) = rest
    BY <1>1, JavaTop
<1> QED
    BY <1>1, <1>2

LEMMA WordTyped ==
    ASSUME NEW t \in {"int"} \cup Types, NEW w \in WordValues
    PROVE  WordAs(t, w) \in JavaValue
<1>1. w \in Int /\ S(Four, w) \in Int
    BY CastTyped DEF WordValues, Four
<1> QED
    BY <1>1 DEF WordAs, JavaValue

\* One word on top.
LEMMA FoundWord ==
    ASSUME IInv, NEW s \in {"int"} \cup Types, Checked(<<s>>)
    PROVE  /\ optop \in 1 .. StackWords /\ Boundary(1) /\ tags[optop] = s
           /\ mem[optop] \in WordValues
           /\ s \in Types => RefersTo(s, mem[optop])
           /\ Java!Operands(<<s>>)
           /\ Java!Top(1) = WordAs(s, mem[optop]).v
           /\ ValuesIn(<<s>>, Segment(mem, optop - 1, 1)) = <<WordAs(s, mem[optop])>>
           /\ WordAs(s, mem[optop]) \in JavaValue
<1>1. /\ StackOK /\ optop \in 0 .. StackWords /\ StackWords \in Nat
      /\ mem \in [1 .. StackWords -> WordValues]
    BY OperationsAssumption DEF IInv, StackOK
<1>2. PICK old \in Seq(Tags) : /\ old = <<s>> /\ Len(old) = 1 /\ old # << >> /\ old[1] = s
                               /\ old[1] # "high"
    <2>1. <<s>> \in Seq(Tags) /\ Len(<<s>>) = 1 /\ <<s>> # << >> /\ <<s>>[1] = s /\ s # "high"
        BY DEF Tags, Types
    <2> QED
        BY <2>1
<1>3. PICK vals : vals = ValuesIn(old, Segment(mem, optop - 1, 1))
    OBVIOUS
<1>4. /\ Boundary(1) /\ 1 \in 1 .. optop
      /\ \A j \in 1 .. 1 : tags[(optop - 1) + j] = old[j]
      /\ vals \in Seq(JavaValue) /\ OnStack(vals)
    <2>1. PICK n : n = Len(old) /\ n = 1
        BY <1>2
    <2>2. vals = ValuesIn(old, Segment(mem, optop - n, n))
        BY <1>3, <2>1
    <2>3. /\ Boundary(n) /\ n \in 1 .. optop
          /\ \A j \in 1 .. n : tags[(optop - n) + j] = old[j]
          /\ vals \in Seq(JavaValue) /\ OnStack(vals)
        BY <1>2, <2>1, <2>2, Found
    <2> QED
        BY <2>1, <2>3
<1>5. PICK q \in 1 .. StackWords : q = optop /\ (q - 1) + 1 = q
    BY <1>1, <1>4
<1>6. tags[q] = s /\ (s \in Types => RefersTo(s, mem[q]))
    <2>1. tags[q] = s /\ q \in 1 .. optop
        BY <1>2, <1>4, <1>5
    <2> QED
        BY <1>1, <2>1 DEF StackOK, ReferencesRight
<1>7. vals = <<WordAs(s, mem[q])>>
    <2>1. 1 \in 1 .. 1
        OBVIOUS
    <2>2. PICK seg : seg = Segment(mem, q - 1, 1) /\ seg[1] = mem[q]
        <3>1. Segment(mem, q - 1, 1)[1] = mem[(q - 1) + 1]
            BY <2>1 DEF Segment
        <3> QED
            BY <1>5, <3>1
    <2>3. ValuesIn(<<s>>, seg) = <<WordAs(s, seg[1])>>
        BY <1>1, <2>2, WordValue DEF WordAs
    <2> QED
        BY <1>2, <1>3, <1>5, <2>2, <2>3
<1>8. Len(vals) = 1 /\ vals[1] = WordAs(s, mem[q]) /\ vals[1].kind = s
    <2>1. Len(<<WordAs(s, mem[q])>>) = 1 /\ <<WordAs(s, mem[q])>>[1] = WordAs(s, mem[q])
        OBVIOUS
    <2>2. WordAs(s, mem[q]).kind = s
        BY DEF WordAs
    <2> QED
        BY <1>7, <2>1, <2>2
<1>9. Java!Operands(<<s>>) /\ Java!Top(1) = WordAs(s, mem[q]).v
    <2>1. Java!Top(1) = vals[1].v /\ Java!Operands(<<vals[1].kind>>)
        BY <1>4, <1>8, OnStackOne
    <2> QED
        BY <1>8, <2>1
<1>10. vals[1] \in JavaValue
    BY <1>1, <1>8, WordTyped
<1> QED
    BY <1>1, <1>2, <1>3, <1>4, <1>5, <1>6, <1>7, <1>8, <1>9, <1>10

\* And one word in its place.
LEMMA OneWordReplaced ==
    ASSUME IInv, NEW s \in {"int"} \cup Types, Checked(<<s>>), NEW t \in {"int"} \cup Types,
           Retag(1, <<t>>), NEW w \in WordValues, mem' = [mem EXCEPT ![optop] = w]
    PROVE  /\ Java!Below(1) \in Seq(JavaValue)
           /\ JavaStack' = Java!Below(1) \o <<WordAs(t, w)>>
<1>1. /\ StackOK /\ StackWords \in Nat
      /\ mem \in [1 .. StackWords -> WordValues]
    BY OperationsAssumption DEF IInv, StackOK
<1>2. PICK q \in 1 .. StackWords : /\ q = optop /\ (q - 1) + 1 = q /\ tags[q] = s
                                   /\ Boundary(1) /\ 1 \in 0 .. optop
    BY <1>1, FoundWord
<1>3. PICK old \in Seq(Tags) : old = <<s>> /\ Len(old) = 1 /\ old[1] = s
    <2>1. <<s>> \in Seq(Tags) /\ Len(<<s>>) = 1 /\ <<s>>[1] = s
        BY DEF Tags
    <2> QED
        BY <2>1
<1>4. PICK vals \in Seq(JavaValue) :
          vals = ValuesIn(old, Segment(mem, optop - 1, 1)) /\ Len(vals) = 1
    <2>1. PICK x \in JavaValue : x = WordAs(s, mem[optop])
        BY FoundWord
    <2>2. <<x>> \in Seq(JavaValue) /\ Len(<<x>>) = 1
        OBVIOUS
    <2>3. ValuesIn(<<s>>, Segment(mem, optop - 1, 1)) = <<x>>
        BY <2>1, FoundWord
    <2> QED
        BY <1>3, <2>2, <2>3
<1>5. mem' \in [1 .. StackWords -> WordValues] /\ mem'[q] = w
      /\ \A p \in 1 .. q - 1 : mem'[p] = mem[p]
    BY <1>1, <1>2
<1>6. Exchanged(old, <<t>>)
    <2>1. <<t>> \in Seq(Tags) /\ Paired(<<t>>) /\ Len(<<t>>) = 1
        BY TagsTyped
    <2>2. Fits(1, mem', <<t>>)
        BY <1>1, <1>2, <1>5, <2>1 DEF Fits
    <2>3. \A j \in 1 .. 1 : tags[(optop - 1) + j] = old[j]
        BY <1>2, <1>3
    <2> QED
        BY <1>3, <2>2, <2>3 DEF Exchanged
<1>7. /\ w = mem'[(optop - Len(old)) + 1]
      /\ vals = ValuesIn(old, Segment(mem, optop - Len(old), Len(old)))
    BY <1>2, <1>3, <1>4, <1>5
<1>8. /\ Java!Below(Len(vals)) \in Seq(JavaValue)
      /\ JavaStack' = Java!Below(Len(vals)) \o <<WordAs(t, w)>>
    <2>1. StackOK /\ vals \in Seq(JavaValue) /\ t \in {"int"} \cup Types
        BY <1>1
    <2> QED
        BY ONLY <1>6, <1>7, <2>1, WordReplaced
<1> QED
    BY <1>4, <1>8

\* The bytes of an element within the length.
LEMMA ElementInside ==
    ASSUME NEW block \in Seq(Byte), NEW n \in Nat, NEW k \in Nat, Len(block) = n * k,
           NEW i \in Nat, i < n
    PROVE  ~ Outside(block, k, i)
<1>1. k * i + k <= n * k
    <2>1. PICK e \in Nat : n = (i + 1) + e
        <3>1. n - (i + 1) \in Nat /\ n = (i + 1) + (n - (i + 1))
            OBVIOUS
        <3> QED
            BY <3>1
    <2>2. n * k = ((i + 1) + e) * k
        BY <2>1
    <2>3. ((i + 1) + e) * k = (k * i + k) + e * k /\ e * k \in Nat /\ k * i \in Nat
        OBVIOUS
    <2> QED
        BY <2>2, <2>3
<1>2. PICK x \in Nat, y \in Nat : x = k * i + k /\ y = n * k
    OBVIOUS
<1> QED
    BY <1>1, <1>2 DEF Outside

\* A new array holds zeros.
LEMMA ArrayOfZeros ==
    ASSUME NEW t \in Types, NEW n \in Nat, NEW b \in Block,
           b = [length |-> n, arr |-> [p \in 1 .. n * Width(t) |-> 0]]
    PROVE  ArrayOf(t, b) = [type |-> t, elements |-> [i \in 1 .. n |-> 0]]
<1>1. PICK k \in Nat : k = Width(t) /\ k \in {1, 2, 4, 8}
    BY Widths
<1>2. PICK block \in Seq(Byte) : block = b.arr
    BY DEF Block, Byte
<1>3. PICK m \in Nat : m = n * k
    BY <1>1
<1>4. block = [p \in 1 .. m |-> 0] /\ b.length = n
    BY <1>1, <1>2, <1>3
<1>5. Len(block) = n * k /\ \A p \in 1 .. Len(block) : block[p] = 0
    <2>1. Len([p \in 1 .. m |-> 0]) = m
        BY ZerosTyped
    <2> QED
        BY <1>3, <1>4, <2>1
<1>6. ASSUME NEW i \in 1 .. n PROVE ElementOf(t, block, i - 1) = 0
    <2>1. i - 1 \in Nat /\ i - 1 < n
        OBVIOUS
    <2>2. PICK j \in Nat : j = i - 1 /\ j < n
        BY <2>1
    <2>3. ~ Outside(block, k, j)
        BY <1>5, <2>2, ElementInside
    <2>4. ElementAt(block, k, j) = 0
        BY <1>5, <2>3, ZeroElement
    <2>5. PICK c \in Sizes : c = Four * Len(ElementTags(t))
        BY Widths
    <2>6. S(c, ElementAt(block, Width(t), j)) = ElementOf(t, block, j)
        BY <1>1, <2>3, <2>5, ElementRead
    <2>7. S(c, 0) = 0
        <3>1. c \in Nat
            BY DEF Sizes, Four, Eight
        <3>2. PICK v \in Nat \ {0} : v = Values(c)
            BY <3>1, ValuesTyped
        <3>3. Signed(c, 0)
            BY <3>2 DEF Signed
        <3> QED
            BY <3>1, <3>3, CastIdentity
    <2> QED
        BY <1>1, <2>2, <2>4, <2>6, <2>7
<1>7. ElementsOf(t, b) = [i \in 1 .. n |-> 0]
    <2>1. ElementsOf(t, b) = [i \in 1 .. n |-> ElementOf(t, block, i - 1)]
        BY <1>2, <1>4 DEF ElementsOf
    <2> QED
        BY <1>6, <2>1
<1> QED
    BY <1>7 DEF ArrayOf

LEMMA NewarraySame ==
    ASSUME IInv, NEW t \in Types, newarray(t)
    PROVE  Java!newarray
<1>1. Checked(<<"int">>) /\ op' = <<"newarray">>
    BY DEF newarray
<1>2. /\ optop \in 1 .. StackWords /\ mem[optop] \in WordValues
      /\ Java!Operands(<<"int">>) /\ Java!Top(1) = S(Four, mem[optop])
    BY <1>1, FoundInt
<1>3. PICK n \in Nat : n = mem[optop] /\ n \in WordValues
    BY <1>2 DEF WordValues
<1>4. PICK h \in Nat : h = Len(heap) /\ h <= MaxArrays
    BY DEF IInv, HeapOK
<1>5. PICK k \in {1, 2, 4, 8} : k = TypeSize(t) /\ k = Width(t)
    BY Widths
<1>6. CASE Abort
    <2>1. Java!Abort
        BY <1>6, AbortSame
    <2> QED
        BY <1>1, <1>2, <2>1 DEF Java!newarray
<1>7. CASE /\ h # MaxArrays /\ ~ (n * k > HeapBytes)
           /\ heap' = Append(heap, [length |-> n, arr |-> [b \in 1 .. n * k |-> 0]])
           /\ mem' = [mem EXCEPT ![optop] = h + 1]
           /\ Retag(1, <<t>>)
           /\ types' = Append(types, t)
           /\ UNCHANGED <<vm, optop, local, branch>>
    <2>1. PICK x : x = [length |-> n, arr |-> [b \in 1 .. n * k |-> 0]]
        OBVIOUS
    <2>2. heap' = Append(heap, x)
        BY <1>7, <2>1
    <2>3. IInv'
        BY NewarrayKeeps
    <2>4. HeapOK /\ heap \in Seq(Block) /\ types \in Seq(Types) /\ Len(types) = h
        BY <1>4 DEF IInv, HeapOK
    <2>5. Len(heap') = h + 1 /\ heap'[h + 1] = x /\ h + 1 \in DOMAIN heap'
        BY <1>4, <2>2, <2>4
    <2>6. heap' \in Seq(Block) /\ BlocksFit' /\ Len(heap') <= MaxArrays
        BY <2>3 DEF IInv, HeapOK
    <2>7. PICK b \in Block : b = x
        BY <2>5, <2>6
    <2>8. 2 * n < Values(Four)
        <3>1. 2 * heap'[h + 1].length < Values(Four)
            BY <2>5, <2>6 DEF BlocksFit
        <3> QED
            BY <2>1, <2>5, <3>1
    <2>9. h + 1 \in WordValues
        <3>1. PICK w \in Nat \ {0} : w = Values(Four)
            BY WordSizes
        <3> QED
            BY <2>5, <2>6, <3>1, OperationsAssumption DEF WordValues
    <2>10. Java!Top(1) = n
        BY <1>2, <1>3, <2>8, IndexSame
    <2>11. JavaArrays' = Append(JavaArrays, ArrayOf(t, b))
        BY <1>7, <2>2, <2>4, <2>7, ArraysAppended
    <2>12. ArrayOf(t, b) = [type |-> t, elements |-> [i \in 1 .. n |-> 0]]
        BY <1>5, <2>1, <2>7, ArrayOfZeros
    <2>13. Len(JavaArrays) = h
        BY <1>4, <2>4, ArraysShape
    <2>14. /\ Java!Below(1) \in Seq(JavaValue)
           /\ JavaStack' = Java!Below(1) \o <<WordAs(t, h + 1)>>
        BY <1>1, <1>7, <2>9, OneWordReplaced
    <2>15. WordAs(t, h + 1) = Java!Value(t, Len(JavaArrays) + 1) /\ WordAs(t, h + 1) \in JavaValue
        BY <2>13 DEF WordAs, Java!Value, Types, JavaValue
    <2>16. JavaStack' = Append(Java!Below(1), Java!Value(t, Len(JavaArrays) + 1))
        BY <2>14, <2>15, AppendIsConcat
    <2>17. /\ Java!Top(1) >= 0
           /\ \E s \in Java!Types :
                 /\ JavaArrays' = Append(JavaArrays, [type |-> s, elements |-> [i \in 1 .. Java!Top(1) |-> 0]])
                 /\ JavaStack' = Append(Java!Below(1), Java!Value(s, Len(JavaArrays) + 1))
        <3>1. PICK z : z = Java!Top(1) /\ z = n
            BY <2>10
        <3>2. /\ z >= 0 /\ t \in Java!Types
              /\ JavaArrays' = Append(JavaArrays, [type |-> t, elements |-> [i \in 1 .. z |-> 0]])
              /\ JavaStack' = Append(Java!Below(1), Java!Value(t, Len(JavaArrays) + 1))
            <4>1. z >= 0 /\ t \in Java!Types
                BY <3>1 DEF Types, Java!Types
            <4>2. JavaArrays' = Append(JavaArrays, [type |-> t, elements |-> [i \in 1 .. z |-> 0]])
                BY <2>11, <2>12, <3>1
            <4> QED
                BY <2>16, <4>1, <4>2
        <3> QED
            BY <3>1, <3>2
    <2>18. vm' = vm /\ JavaLocal' = JavaLocal /\ branch' = branch
        BY <1>7 DEF JavaLocal
    <2> QED
        BY <1>1, <1>2, <2>17, <2>18 DEF Java!newarray
<1> QED
    BY <1>3, <1>4, <1>5, <1>6, <1>7 DEF newarray

LEMMA ArraylengthSame ==
    ASSUME IInv, NEW t \in Types, arraylength(t)
    PROVE  Java!arraylength(t)
<1>1. Checked(<<t>>) /\ op' = <<"arraylength">> /\ HeapOK /\ t # "int"
    BY DEF arraylength, IInv, Types
<1>2. /\ optop \in 1 .. StackWords /\ mem[optop] \in WordValues
      /\ RefersTo(t, mem[optop]) /\ Java!Operands(<<t>>)
      /\ Java!Top(1) = WordAs(t, mem[optop]).v
    BY <1>1, FoundWord
<1>3. PICK a : a = mem[optop] /\ a = Java!Top(1)
    BY <1>1, <1>2 DEF WordAs
<1>4. CASE a = NullAddress
    <2>1. Java!Abort
        BY <1>3, <1>4, AbortSame DEF arraylength
    <2> QED
        BY <1>1, <1>2, <1>3, <1>4, <2>1 DEF Java!arraylength, Java!Null, NullAddress
<1>5. CASE a # NullAddress
    <2>1. a \in DOMAIN heap /\ types[a] = t /\ a \in 1 .. Len(heap)
        BY <1>1, <1>2, <1>3, <1>5 DEF RefersTo, HeapOK
    <2>2. PICK n \in Nat : n = heap[a].length /\ n \in WordValues /\ 2 * n < Values(Four)
        <3>1. heap[a] \in Block /\ 2 * heap[a].length < Values(Four)
            BY <1>1, <2>1 DEF HeapOK, BlocksFit
        <3> QED
            BY <3>1 DEF Block, WordValues
    <2>3. Replace(1, [mem EXCEPT ![optop] = n], <<"int">>)
        BY <1>3, <1>5, <2>2 DEF arraylength
    <2>4. Len(JavaArrays[a].elements) = n
        <3>1. JavaArrays[a] = ArrayOf(t, heap[a])
            BY <1>1, <2>1, ArraysShape
        <3>2. JavaArrays[a].elements = [i \in 1 .. n |-> ElementOf(t, heap[a].arr, i - 1)]
            BY <2>2, <3>1 DEF ArrayOf, ElementsOf
        <3>3. PICK X, s : /\ s = [i \in 1 .. n |-> ElementOf(t, heap[a].arr, i - 1)]
                          /\ X = {ElementOf(t, heap[a].arr, i - 1) : i \in 1 .. n}
            OBVIOUS
        <3>4. s \in [1 .. n -> X]
            BY <3>3
        <3> QED
            BY <3>2, <3>3, <3>4, FunctionIsSequence
    <2>5. S(Four, n) = n
        BY <2>2, IndexSame
    <2>6. /\ Java!Below(1) \in Seq(JavaValue)
          /\ JavaStack' = Java!Below(1) \o <<WordAs("int", n)>>
        <3>1. mem' = [mem EXCEPT ![optop] = n] /\ Retag(1, <<"int">>)
            BY <2>3 DEF Replace
        <3> QED
            BY <1>1, <2>2, <3>1, OneWordReplaced
    <2>7. WordAs("int", n) = Java!Value("int", Len(JavaArrays[Java!Top(1)].elements))
        BY <1>3, <2>4, <2>5 DEF WordAs, Java!Value
    <2>8. Quiet
        BY <2>3, ReplaceQuiet
    <2>9. Java!Replace(1, <<Java!Value("int", Len(JavaArrays[Java!Top(1)].elements))>>)
        BY <2>6, <2>7, <2>8 DEF Java!Replace, Quiet
    <2> QED
        BY <1>1, <1>2, <1>3, <1>5, <2>9 DEF Java!arraylength, Java!Null, NullAddress
<1> QED
    BY <1>4, <1>5

\* The length Java sees is the one in the struct array.
LEMMA LengthSame ==
    ASSUME HeapOK, NEW t, NEW a \in DOMAIN heap, types[a] = t
    PROVE  /\ heap[a] \in Block /\ heap[a].length \in Nat /\ 2 * heap[a].length < Values(Four)
           /\ a \in 1 .. Len(heap) /\ JavaArrays[a] = ArrayOf(t, heap[a])
           /\ Len(JavaArrays[a].elements) = heap[a].length
<1>1. a \in 1 .. Len(heap)
    BY DEF HeapOK
<1>2. heap[a] \in Block /\ 2 * heap[a].length < Values(Four)
    BY <1>1 DEF HeapOK, BlocksFit
<1>3. PICK n \in Nat : n = heap[a].length
    BY <1>2 DEF Block, WordValues
<1>4. JavaArrays[a] = ArrayOf(t, heap[a])
    BY <1>1, ArraysShape
<1>5. JavaArrays[a].elements = [i \in 1 .. n |-> ElementOf(t, heap[a].arr, i - 1)]
    BY <1>3, <1>4 DEF ArrayOf, ElementsOf
<1>6. PICK X, s : /\ s = [i \in 1 .. n |-> ElementOf(t, heap[a].arr, i - 1)]
                  /\ X = {ElementOf(t, heap[a].arr, i - 1) : i \in 1 .. n}
    OBVIOUS
<1>7. s \in [1 .. n -> X]
    BY <1>6
<1>8. Len(s) = n
    BY <1>7, FunctionIsSequence
<1> QED
    BY <1>1, <1>2, <1>3, <1>4, <1>5, <1>6, <1>8

\* The check of null and of the unsigned index is Java's of the signed one.
LEMMA NoElementSame ==
    ASSUME HeapOK, NEW t \in Types, NEW a, RefersTo(t, a), NEW i \in WordValues
    PROVE  /\ NoElement(a, i) <=> Java!NoElement(a, S(Four, i))
           /\ ~ NoElement(a, i) => S(Four, i) = i
<1>1. CASE a = NullAddress
    BY <1>1 DEF NoElement, Java!NoElement, NullAddress, Java!Null
<1>2. CASE a # NullAddress
    <2>1. a \in DOMAIN heap /\ types[a] = t
        BY <1>2 DEF RefersTo
    <2>2. PICK n \in Nat : /\ n = heap[a].length /\ 2 * n < Values(Four)
                           /\ Len(JavaArrays[a].elements) = n
        BY <2>1, LengthSame
    <2>3. PICK s : s = S(Four, i)
        OBVIOUS
    <2>4. /\ i >= n <=> s < 0 \/ s >= n
          /\ i < n => s = i
        BY <2>2, <2>3, IndexSame
    <2>5. NoElement(a, i) <=> i >= n
        BY <1>2, <2>2 DEF NoElement
    <2>6. Java!NoElement(a, s) <=> s < 0 \/ s >= n
        BY <1>2, <2>2 DEF Java!NoElement, NullAddress, Java!Null
    <2>7. ~ (i >= n) => i < n
        BY <2>2 DEF WordValues
    <2> QED
        BY <2>3, <2>4, <2>5, <2>6, <2>7
<1> QED
    BY <1>1, <1>2

\* An array and an index on top.
LEMMA FoundElement ==
    ASSUME IInv, NEW t \in Types, Checked(<<t, "int">>)
    PROVE  /\ mem[optop] \in WordValues /\ RefersTo(t, mem[optop - 1])
           /\ Java!Operands(<<t, "int">>)
           /\ Java!Top(2) = mem[optop - 1] /\ Java!Top(1) = S(Four, mem[optop])
           /\ \A k \in Sizes, v \in Int :
                 Replace(2, Write(k, optop - 1, v), TagsOf(k)) => Java!Replace(2, <<Java!Integer(k, v)>>)
<1>1. /\ StackOK /\ optop \in 0 .. StackWords /\ StackWords \in Nat
      /\ mem \in [1 .. StackWords -> WordValues] /\ t \in {"int"} \cup Types /\ t # "int"
    BY OperationsAssumption DEF IInv, StackOK, Types
<1>2. PICK old \in Seq(Tags) : /\ old = <<t, "int">> /\ Len(old) = 2 /\ old # << >>
                               /\ old[1] # "high" /\ old[1] = t
    <2>1. /\ <<t, "int">> \in Seq(Tags) /\ Len(<<t, "int">>) = 2 /\ <<t, "int">> # << >>
          /\ <<t, "int">>[1] = t /\ t # "high"
        BY DEF Tags, Types
    <2> QED
        BY <2>1
<1>3. PICK vals : vals = ValuesIn(old, Segment(mem, optop - 2, 2))
    OBVIOUS
<1>4. /\ Boundary(2) /\ vm = "running" /\ 2 \in 1 .. optop
      /\ \A j \in 1 .. 2 : tags[(optop - 2) + j] = old[j]
      /\ vals \in Seq(JavaValue) /\ OnStack(vals)
    <2>1. PICK n : n = Len(old) /\ n = 2
        BY <1>2
    <2>2. vals = ValuesIn(old, Segment(mem, optop - n, n))
        BY <1>3, <2>1
    <2>3. Checked(old)
        BY <1>2
    <2>4. /\ Boundary(n) /\ vm = "running" /\ n \in 1 .. optop
          /\ \A j \in 1 .. n : tags[(optop - n) + j] = old[j]
          /\ vals \in Seq(JavaValue) /\ OnStack(vals)
        BY <1>2, <2>1, <2>2, <2>3, Found
    <2> QED
        BY <2>1, <2>4
<1>5. PICK q \in 1 .. StackWords : q = optop /\ (optop - 2) + 2 = q /\ q - 1 \in 1 .. StackWords
    BY <1>1, <1>4
<1>6. PICK p \in 1 .. StackWords :
          /\ p = optop - 1 /\ q = optop /\ (optop - 2) + 1 = p /\ (optop - 2) + 2 = q
    BY <1>5
<1>7. RefersTo(t, mem[p])
    <2>1. 1 \in 1 .. 2
        OBVIOUS
    <2>2. tags[p] = t /\ p \in 1 .. optop
        BY <1>1, <1>2, <1>4, <1>6, <2>1
    <2> QED
        BY <1>1, <2>2 DEF StackOK, ReferencesRight
<1>8. mem[p] \in WordValues /\ mem[q] \in WordValues
    BY <1>1
<1>9. vals = <<WordAs(t, mem[p]), WordAs("int", mem[q])>>
    <2>1. PICK seg : seg = Segment(mem, optop - 2, 2) /\ seg[1] = mem[p] /\ seg[2] = mem[q]
        <3>1. 1 \in 1 .. 2 /\ 2 \in 1 .. 2
            OBVIOUS
        <3>2. /\ Segment(mem, optop - 2, 2)[1] = mem[(optop - 2) + 1]
              /\ Segment(mem, optop - 2, 2)[2] = mem[(optop - 2) + 2]
            BY <3>1 DEF Segment
        <3> QED
            BY <1>6, <3>2
    <2>2. ValuesIn(<<t, "int">>, seg) = <<WordAs(t, seg[1]), WordAs("int", seg[2])>>
        BY <1>1, <1>8, <2>1, TwoWordValues
    <2> QED
        BY <1>2, <1>3, <2>1, <2>2
<1>10. /\ Len(vals) = 2
       /\ vals[1].kind = t /\ vals[1].v = mem[p]
       /\ vals[2].kind = "int" /\ vals[2].v = S(Four, mem[q])
    <2>1. PICK x, y : x = WordAs(t, mem[p]) /\ y = WordAs("int", mem[q])
        OBVIOUS
    <2>2. Len(<<x, y>>) = 2 /\ <<x, y>>[1] = x /\ <<x, y>>[2] = y
        OBVIOUS
    <2>3. /\ x.kind = t /\ x.v = mem[p]
          /\ y.kind = "int" /\ y.v = S(Four, mem[q])
        BY <1>1, <2>1 DEF WordAs
    <2> QED
        BY <1>9, <2>1, <2>2, <2>3
<1>11. /\ Java!Top(1) = vals[2].v /\ Java!Top(2) = vals[1].v
       /\ Java!Operands(<<vals[1].kind, vals[2].kind>>)
    BY <1>4, <1>10, OnStackTwo
<1>12. ASSUME NEW k \in Sizes, NEW v \in Int, Replace(2, Write(k, optop - 1, v), TagsOf(k))
       PROVE  Java!Replace(2, <<Java!Integer(k, v)>>)
    <2>1. PICK n : n = Len(old) /\ n = 2
        BY <1>2
    <2>2. (optop - n) + WordsOf(k) <= StackWords /\ p = (optop - n) + 1 /\ n <= optop
        <3>1. WordsOf(k) \in 1 .. 2
            BY TagsTyped
        <3> QED
            BY <1>1, <1>4, <1>6, <2>1, <3>1
    <2>3. /\ Boundary(n) /\ \A j \in 1 .. n : tags[(optop - n) + j] = old[j]
          /\ vals = ValuesIn(old, Segment(mem, optop - n, n))
          /\ Replace(n, Write(k, p, v), TagsOf(k))
        BY <1>3, <1>4, <1>6, <1>12, <2>1
    <2>4. Java!Replace(Len(vals), <<Java!Integer(k, v)>>)
        BY <1>4, <2>1, <2>2, <2>3, NumberStep
    <2> QED
        BY <1>10, <2>4
<1> QED
    BY <1>6, <1>7, <1>8, <1>10, <1>11, <1>12

LEMMA KindOfElement ==
    ASSUME NEW t, NEW k, k = Four * Len(ElementTags(t))
    PROVE  Java!Kinds[k] = Java!ElementKind(t)
<1>1. CASE t = "T_LONG"
    <2>1. Len(<<"low", "high">>) = 2
        OBVIOUS
    <2>2. k = Eight
        BY <1>1, <2>1 DEF ElementTags, Four, Eight
    <2> QED
        BY <1>1, <2>2 DEF Java!Kinds, Java!ElementKind, Java!Four, Java!Eight, Eight
<1>2. CASE t # "T_LONG"
    <2>1. Len(<<"int">>) = 1
        OBVIOUS
    <2>2. k = Four
        BY <1>2, <2>1 DEF ElementTags, Four
    <2> QED
        BY <1>2, <2>2 DEF Java!Kinds, Java!ElementKind, Java!Four, Java!Eight, Four
<1> QED
    BY <1>1, <1>2

LEMMA LoadSame ==
    ASSUME IInv, NEW t \in Types, load(t)
    PROVE  Java!load(t)
<1>1. Checked(<<t, "int">>) /\ op' = <<"load", t>> /\ HeapOK
    BY DEF load, IInv
<1>2. PICK a : a = mem[optop - 1]
    OBVIOUS
<1>3. PICK i \in WordValues :
          /\ i = mem[optop] /\ a = mem[optop - 1] /\ RefersTo(t, a)
          /\ Java!Operands(<<t, "int">>) /\ Java!Top(2) = a /\ Java!Top(1) = S(Four, i)
    BY <1>1, <1>2, FoundElement
<1>4. CASE NoElement(a, i)
    <2>1. Java!Abort
        BY <1>3, <1>4, AbortSame DEF load
    <2>2. Java!NoElement(Java!Top(2), Java!Top(1))
        BY <1>1, <1>3, <1>4, NoElementSame
    <2> QED
        BY <1>1, <1>3, <2>1, <2>2 DEF Java!load
<1>5. CASE ~ NoElement(a, i)
    <2>1. /\ a \in DOMAIN heap /\ types[a] = t
          /\ heap[a] \in Block /\ i \in Nat /\ i < heap[a].length /\ Width(t) \in Nat
          /\ ~ Outside(heap[a].arr, Width(t), i)
        BY <1>1, <1>3, <1>5, AccessWithin
    <2>2. heap[a].arr \in Seq(Byte)
        BY <2>1 DEF Block, Byte
    <2>3. PICK k \in Sizes : k = Four * Len(ElementTags(t)) /\ ElementTags(t) = TagsOf(k)
        BY Widths
    <2>4. PICK v \in Int : /\ v = ElementAt(heap[a].arr, Width(t), i)
                           /\ S(k, v) = ElementOf(t, heap[a].arr, i)
        BY <2>1, <2>2, <2>3, ElementRead
    <2>5. Replace(2, Write(k, optop - 1, v), TagsOf(k))
        BY <1>3, <1>5, <2>1, <2>3, <2>4 DEF load
    <2>6. Java!Replace(2, <<Java!Integer(k, v)>>)
        BY <1>1, <2>5, FoundElement
    <2>7. ~ Java!NoElement(Java!Top(2), Java!Top(1)) /\ Java!Top(1) = i
        BY <1>1, <1>3, <1>5, NoElementSame
    <2>8. JavaArrays[a].elements[i + 1] = S(k, v)
        <3>1. PICK n \in Nat : n = heap[a].length /\ JavaArrays[a] = ArrayOf(t, heap[a])
            BY <1>1, <2>1, LengthSame
        <3>2. JavaArrays[a].elements = [j \in 1 .. n |-> ElementOf(t, heap[a].arr, j - 1)]
            BY <3>1 DEF ArrayOf, ElementsOf
        <3>3. i + 1 \in 1 .. n /\ (i + 1) - 1 = i
            BY <2>1, <3>1
        <3> QED
            BY <2>4, <3>2, <3>3
    <2>9. Java!Kinds[k] = Java!ElementKind(t)
        BY <2>3, KindOfElement
    <2>10. Java!Integer(k, v) =
               Java!Value(Java!ElementKind(t), JavaArrays[Java!Top(2)].elements[Java!Top(1) + 1])
        <3>1. Java!S(k, v) = S(k, v)
            BY <2>3, JavaWords DEF Sizes
        <3> QED
            BY <1>3, <2>7, <2>8, <2>9, <3>1 DEF Java!Integer
    <2>11. Java!Replace(2, <<Java!Value(Java!ElementKind(t),
                                        JavaArrays[Java!Top(2)].elements[Java!Top(1) + 1])>>)
        BY <2>6, <2>10
    <2> QED
        BY <1>1, <1>3, <2>7, <2>11 DEF Java!load
<1> QED
    BY <1>4, <1>5

\* What a store puts into an element, and that it leaves the others alone.
LEMMA ElementStored ==
    ASSUME NEW t \in Types, NEW block \in Seq(Byte), NEW i \in Nat,
           ~ Outside(block, Width(t), i), NEW v \in Int, NEW k, k = Four * Len(ElementTags(t))
    PROVE  /\ ElementOf(t, WithElement(block, Width(t), i, v), i) = Java!Kept(t, S(k, v))
           /\ \A j \in Nat \ {i} : ~ Outside(block, Width(t), j) =>
                 ElementOf(t, WithElement(block, Width(t), i, v), j) = ElementOf(t, block, j)
<1>1. PICK w \in Nat : w = Width(t) /\ w \in {1, 2, 4, 8}
    BY Widths
<1>2. PICK new : new = WithElement(block, w, i, v)
    OBVIOUS
<1>3. /\ ElementAt(new, w, i) = U(w, v)
      /\ \A j \in Nat \ {i} : ~ Outside(block, w, j) =>
             ElementAt(new, w, j) = ElementAt(block, w, j)
    BY <1>1, <1>2, StoredIsLoaded
<1>4. \A j \in Nat \ {i} : ~ Outside(block, w, j) => ElementOf(t, new, j) = ElementOf(t, block, j)
    BY <1>1, <1>3 DEF ElementOf
<1>5. ElementOf(t, new, i) = Java!Kept(t, S(k, v))
    <2>1. CASE t = "T_LONG"
        <3>1. w = 8 /\ k = 8
            <4>1. Len(<<"low", "high">>) = 2
                OBVIOUS
            <4> QED
                BY <1>1, <2>1, <4>1 DEF Width, ElementTags, Four, Eight
        <3>2. ElementOf(t, new, i) = S(8, U(8, v))
            BY <1>1, <1>3, <3>1 DEF ElementOf, Eight
        <3>3. S(8, U(8, v)) = S(8, v)
            BY CastTwice
        <3>4. Java!Kept(t, S(k, v)) = S(k, v)
            BY <2>1 DEF Java!Kept
        <3> QED
            BY <3>1, <3>2, <3>3, <3>4
    <2>2. CASE t = "T_INT"
        <3>1. w = 4 /\ k = 4
            <4>1. Len(<<"int">>) = 1
                OBVIOUS
            <4> QED
                BY <1>1, <2>2, <4>1 DEF Width, ElementTags, Four
        <3>2. ElementOf(t, new, i) = S(4, U(4, v))
            BY <1>1, <1>3, <3>1 DEF ElementOf, Four
        <3>3. S(4, U(4, v)) = S(4, v)
            BY CastTwice
        <3>4. Java!Kept(t, S(k, v)) = S(k, v)
            BY <2>2 DEF Java!Kept
        <3> QED
            BY <3>1, <3>2, <3>3, <3>4
    <2>3. CASE t \notin {"T_INT", "T_LONG"}
        <3>1. w \in {1, 2} /\ k = 4 /\ w = Java!ElementBytes(t)
            <4>1. Len(<<"int">>) = 1
                OBVIOUS
            <4>2. w \in {1, 2} /\ k = 4
                BY <1>1, <2>3, <4>1 DEF Width, ElementTags, Four, Types, One, Two
            <4>3. w = Java!ElementBytes(t)
                BY <1>1, <2>3 DEF Width, Types, Java!ElementBytes, One, Two, Java!One, Java!Two
            <4> QED
                BY <4>2, <4>3
        <3>2. ElementOf(t, new, i) = U(w, v)
            BY <1>1, <1>3, <3>1 DEF ElementOf, Four, Eight
        <3>3. U(w, S(k, v)) = U(w, v)
            <4>1. w \in Nat /\ k \in Nat /\ w <= k
                BY <3>1
            <4> QED
                BY <4>1, CastBelow
        <3>4. Java!Kept(t, S(k, v)) = U(w, S(k, v))
            BY <2>3, <3>1, JavaWords DEF Java!Kept
        <3> QED
            BY <3>2, <3>3, <3>4
    <2> QED
        BY <2>1, <2>2, <2>3
<1> QED
    BY <1>1, <1>2, <1>4, <1>5

\* The arrays Java sees after a store.
Storing(t, a, i, v, k, bytes) ==
    /\ HeapOK /\ HeapOK'
    /\ t \in Types /\ a \in DOMAIN heap /\ types[a] = t
    /\ i \in Nat /\ i < heap[a].length /\ v \in Int /\ k = Four * Len(ElementTags(t))
    /\ bytes = WithElement(heap[a].arr, Width(t), i, v)
    /\ heap' = [heap EXCEPT ![a].arr = bytes] /\ types' = types

LEMMA ArraysStored ==
    ASSUME NEW t, NEW a, NEW i, NEW v, NEW k, NEW bytes, Storing(t, a, i, v, k, bytes)
    PROVE  JavaArrays' = [JavaArrays EXCEPT ![a].elements[i + 1] = Java!Kept(t, S(k, v))]
<1>1. /\ HeapOK /\ HeapOK'
      /\ t \in Types /\ a \in DOMAIN heap /\ types[a] = t
      /\ i \in Nat /\ i < heap[a].length /\ v \in Int /\ k = Four * Len(ElementTags(t))
      /\ bytes = WithElement(heap[a].arr, Width(t), i, v)
      /\ heap' = [heap EXCEPT ![a].arr = bytes] /\ types' = types
    BY DEF Storing
<1>2. PICK h \in Nat : h = Len(heap) /\ DOMAIN heap = 1 .. h /\ a \in 1 .. h
    BY <1>1 DEF HeapOK
<1>3. PICK n \in Nat, b \in Block : /\ b = heap[a] /\ n = b.length /\ JavaArrays[a] = ArrayOf(t, b)
    BY <1>1, LengthSame
<1>4. PICK block \in Seq(Byte), w \in Nat : block = b.arr /\ w = Width(t) /\ Len(block) = n * w
    <2>1. PICK w \in Nat : w = Width(t)
        BY <1>1, Widths
    <2>2. PICK block \in Seq(Byte) : block = b.arr
        BY DEF Block, Byte
    <2>3. Len(heap[a].arr) = heap[a].length * Width(types[a])
        BY <1>1 DEF HeapOK, BlocksFit
    <2> QED
        BY <1>1, <1>3, <2>1, <2>2, <2>3
<1>5. PICK new : new = bytes /\ new = WithElement(block, w, i, v)
    BY <1>1, <1>3, <1>4
<1>6. PICK made : made = [b EXCEPT !.arr = new]
    OBVIOUS
<1>7. made.length = n /\ made.arr = new
    <2>1. b = [length |-> n, arr |-> block]
        BY <1>3, <1>4 DEF Block
    <2> QED
        BY <1>6, <2>1
<1>8. heap' = [heap EXCEPT ![a] = made]
    BY <1>1, <1>3, <1>4, <1>5, <1>6
<1>9. /\ heap'[a] = made /\ Len(heap') = h
      /\ \A x \in 1 .. h : x # a => heap'[x] = heap[x]
    <2>1. DOMAIN heap' = 1 .. h
        BY <1>2, <1>8
    <2>2. heap' \in Seq(Block)
        BY <1>1 DEF HeapOK
    <2>3. Len(heap') = h
        BY <1>2, <2>1, <2>2
    <2> QED
        BY <1>2, <1>8, <2>3
<1>10. PICK e : e = Java!Kept(t, S(k, v))
    OBVIOUS
<1>11. PICK row : row = [j \in 1 .. n |-> ElementOf(t, block, j - 1)] /\ row = ElementsOf(t, b)
    BY <1>3, <1>4 DEF ElementsOf
<1>12. ElementsOf(t, made) = [row EXCEPT ![i + 1] = e]
    <2>1. ElementsOf(t, made) = [j \in 1 .. n |-> ElementOf(t, new, j - 1)]
        BY <1>7 DEF ElementsOf
    <2>2. i + 1 \in 1 .. n /\ (i + 1) - 1 = i
        BY <1>1, <1>3
    <2>3. ASSUME NEW j \in 1 .. n
          PROVE  ElementOf(t, new, j - 1) = IF j = i + 1 THEN e ELSE ElementOf(t, block, j - 1)
        <3>1. ~ Outside(block, w, i) /\ i < n
            BY <1>1, <1>3, <1>4, ElementInside
        <3>2. PICK p \in Nat : p = j - 1 /\ p < n /\ (j = i + 1 <=> p = i)
            <4>1. j - 1 \in Nat /\ j - 1 < n /\ (j = i + 1 <=> j - 1 = i)
                BY <1>1
            <4> QED
                BY <4>1
        <3>3. ~ Outside(block, w, p)
            BY <1>4, <3>2, ElementInside
        <3>4. /\ ElementOf(t, new, i) = e
              /\ \A q \in Nat \ {i} : ~ Outside(block, w, q) =>
                    ElementOf(t, new, q) = ElementOf(t, block, q)
            BY <1>1, <1>4, <1>5, <1>10, <3>1, ElementStored
        <3> QED
            BY <3>2, <3>3, <3>4
    <2>4. [row EXCEPT ![i + 1] = e] =
              [j \in 1 .. n |-> IF j = i + 1 THEN e ELSE ElementOf(t, block, j - 1)]
        BY <1>11, <2>2
    <2> QED
        BY <2>1, <2>3, <2>4
<1>13. PICK changed : changed = [row EXCEPT ![i + 1] = e] /\ ArrayOf(t, made) = [type |-> t, elements |-> changed]
    BY <1>12 DEF ArrayOf
<1>14. PICK s : s = JavaArrays /\ s = [x \in 1 .. h |-> ArrayOf(types[x], heap[x])]
    BY <1>2, ArraysRead
<1>15. JavaArrays' = [x \in 1 .. h |-> ArrayOf(types[x], heap'[x])]
    BY <1>1, <1>9, ArraysRead
<1>16. PICK whole : whole = ArrayOf(t, made)
    OBVIOUS
<1>17. JavaArrays' = [s EXCEPT ![a] = whole]
    <2>1. ASSUME NEW x \in 1 .. h
          PROVE  ArrayOf(types[x], heap'[x]) = IF x = a THEN whole ELSE ArrayOf(types[x], heap[x])
        BY <1>1, <1>9, <1>16
    <2>2. [s EXCEPT ![a] = whole] =
              [x \in 1 .. h |-> IF x = a THEN whole ELSE ArrayOf(types[x], heap[x])]
        BY <1>2, <1>14
    <2> QED
        BY <1>15, <2>1, <2>2
<1>18. s[a] = ArrayOf(t, b)
    BY <1>3, <1>14
<1>19. PICK old : old = s[a] /\ old = [type |-> t, elements |-> row]
    BY <1>11, <1>18 DEF ArrayOf
<1>20. [old EXCEPT !.elements[i + 1] = e] = whole
    <2>1. whole = [type |-> t, elements |-> changed]
        BY <1>13, <1>16
    <2>2. old.elements = row
        BY <1>19
    <2>3. [old EXCEPT !.elements[i + 1] = e] = [old EXCEPT !.elements = changed]
        BY <1>13, <2>2
    <2>4. [old EXCEPT !.elements = changed] = [type |-> t, elements |-> changed]
        BY <1>19
    <2> QED
        BY <2>1, <2>3, <2>4
<1>21. [s EXCEPT ![a].elements[i + 1] = e] = [s EXCEPT ![a] = whole]
    BY <1>19, <1>20
<1> QED
    BY <1>10, <1>14, <1>17, <1>21

LEMMA OnStackThree ==
    ASSUME NEW vals, Len(vals) = 3, OnStack(vals)
    PROVE  /\ Java!Top(1) = vals[3].v /\ Java!Top(2) = vals[2].v /\ Java!Top(3) = vals[1].v
           /\ Java!Operands(<<vals[1].kind, vals[2].kind, vals[3].kind>>)
<1>1. /\ 1 \in 1 .. 3 /\ 2 \in 1 .. 3 /\ 3 \in 1 .. 3
      /\ (3 + 1) - 1 = 3 /\ (3 + 1) - 2 = 2 /\ (3 + 1) - 3 = 1
    OBVIOUS
<1>2. Java!Top(1) = vals[3].v /\ Java!Top(2) = vals[2].v /\ Java!Top(3) = vals[1].v
    BY <1>1 DEF OnStack
<1>3. PICK kinds, x, y, z :
          /\ kinds = <<x, y, z>> /\ x = vals[1].kind /\ y = vals[2].kind /\ z = vals[3].kind
          /\ DOMAIN kinds = 1 .. 3 /\ Len(kinds) = 3
          /\ kinds[1] = x /\ kinds[2] = y /\ kinds[3] = z
    <2>1. PICK x, y, z : x = vals[1].kind /\ y = vals[2].kind /\ z = vals[3].kind
        OBVIOUS
    <2>2. /\ DOMAIN <<x, y, z>> = 1 .. 3 /\ Len(<<x, y, z>>) = 3
          /\ <<x, y, z>>[1] = x /\ <<x, y, z>>[2] = y /\ <<x, y, z>>[3] = z
        OBVIOUS
    <2> QED
        BY <2>1, <2>2
<1>4. \A i \in 1 .. 3 : vals[i].kind = kinds[i]
    <2> SUFFICES ASSUME NEW i \in 1 .. 3 PROVE vals[i].kind = kinds[i]
        OBVIOUS
    <2>1. i = 1 \/ i = 2 \/ i = 3
        OBVIOUS
    <2> QED
        BY <1>3, <2>1
<1>5. Java!Operands(kinds)
    BY <1>3, <1>4 DEF OnStack
<1> QED
    BY <1>2, <1>3, <1>5

LEMMA ThreeInOne ==
    ASSUME NEW x, NEW y, NEW z
    PROVE  /\ Len(<<x, y>> \o <<z>>) = 3
           /\ (<<x, y>> \o <<z>>)[1] = x /\ (<<x, y>> \o <<z>>)[2] = y /\ (<<x, y>> \o <<z>>)[3] = z
<1>1. PICK X : X = {x, y, z}
    OBVIOUS
<1>2. PICK r \in Seq(X) : r = <<x, y>> /\ Len(r) = 2 /\ r[1] = x /\ r[2] = y
    <2>1. <<x, y>> \in Seq(X)
        BY <1>1
    <2>2. Len(<<x, y>>) = 2 /\ <<x, y>>[1] = x /\ <<x, y>>[2] = y
        OBVIOUS
    <2> QED
        BY <2>1, <2>2
<1>3. PICK s \in Seq(X) : s = <<z>> /\ Len(s) = 1 /\ s[1] = z
    <2>1. <<z>> \in Seq(X)
        BY <1>1
    <2>2. Len(<<z>>) = 1 /\ <<z>>[1] = z
        OBVIOUS
    <2> QED
        BY <2>1, <2>2
<1>4. /\ Len(r \o s) = 3 /\ (r \o s)[1] = r[1] /\ (r \o s)[2] = r[2] /\ (r \o s)[3] = s[1]
    BY <1>2, <1>3
<1> QED
    BY <1>2, <1>3, <1>4

\* An array, an index and a number of k bytes.
LEMMA StoredValues ==
    ASSUME NEW t \in Types, NEW k \in Sizes, NEW words,
           words[1] \in WordValues, words[2] \in WordValues,
           NEW seg, seg = Segment(words, 2, WordsOf(k)),
           \A p \in 1 .. WordsOf(k) : seg[p] \in WordValues
    PROVE  ValuesIn(<<t, "int">> \o TagsOf(k), words) =
               <<WordAs(t, words[1]), WordAs("int", words[2])>> \o <<Java!Integer(k, NumberIn(k, seg))>>
<1>1. t \in {"int"} \cup Types /\ "int" \in {"int"} \cup Types
    OBVIOUS
<1>2. PICK r : r = <<t, "int">> /\ Len(r) = 2
    <2>1. Len(<<t, "int">>) = 2
        OBVIOUS
    <2> QED
        BY <2>1
<1>3. PICK s : s = TagsOf(k) /\ Len(s) = WordsOf(k)
    BY SizesTyped
<1>4. Piece(r, words)
    <2>1. r \in Seq(Tags) /\ Paired(r)
        <3>1. <<t, "int">> \in Seq(Tags)
            BY DEF Tags
        <3>2. /\ <<t, "int">>[1] \notin {"low", "high"} /\ <<t, "int">>[2] \notin {"low", "high"}
            BY DEF Types
        <3>3. \A p \in 1 .. 2 : p = 1 \/ p = 2
            OBVIOUS
        <3>4. \A p \in 1 .. Len(r) : r[p] \notin {"low", "high"}
            BY <1>2, <3>2, <3>3
        <3> QED
            BY <1>2, <3>1, <3>4 DEF Paired
    <2>2. \A p \in 1 .. 2 : words[p] \in WordValues
        <3>1. \A p \in 1 .. 2 : p = 1 \/ p = 2
            OBVIOUS
        <3> QED
            BY <3>1
    <2> QED
        BY <1>2, <2>1, <2>2 DEF Piece
<1>5. ValuesIn(r, words) = <<WordAs(t, words[1]), WordAs("int", words[2])>>
    BY <1>1, <1>2, TwoWordValues
<1>6. Piece(s, seg) /\ ValuesIn(s, seg) = <<Java!Integer(k, NumberIn(k, seg))>>
    BY <1>3, NumberValue
<1>7. Beside(words, r, words, s, seg)
    <2>1. \A p \in 1 .. Len(s) : words[Len(r) + p] = seg[p]
        BY <1>2, <1>3 DEF Segment
    <2>2. \A p \in 1 .. Len(r) : words[p] = words[p]
        OBVIOUS
    <2> QED
        BY <1>4, <1>6, <2>1, <2>2 DEF Beside
<1>8. ValuesIn(r \o s, words) = ValuesIn(r, words) \o ValuesIn(s, seg)
    BY ONLY <1>7, ValuesBeside
<1> QED
    BY <1>2, <1>3, <1>5, <1>6, <1>8

\* What a store finds: an array, an index and a number.
LEMMA FoundStored ==
    ASSUME IInv, NEW t \in Types, NEW k \in Sizes, Checked(<<t, "int">> \o TagsOf(k)),
           NEW w, w = WordsOf(k)
    PROVE  /\ w \in 1 .. 2 /\ w + 2 \in 1 .. optop
           /\ mem[optop - w] \in WordValues /\ RefersTo(t, mem[(optop - 1) - w])
           /\ Read(k, Second(k)) \in Int
           /\ Java!Operands(<<t, "int", Java!Kinds[k]>>)
           /\ Java!Top(3) = mem[(optop - 1) - w]
           /\ Java!Top(2) = S(Four, mem[optop - w])
           /\ Java!Top(1) = S(k, Read(k, Second(k)))
           /\ mem' = mem /\ Retag(w + 2, << >>) => JavaStack' = Java!Below(3)
<1>1. /\ StackOK /\ optop \in 0 .. StackWords /\ StackWords \in Nat
      /\ mem \in [1 .. StackWords -> WordValues]
    BY OperationsAssumption DEF IInv, StackOK
<1>2. w \in 1 .. 2
    BY SizesTyped
<1>3. PICK n \in 3 .. 4 : n = w + 2
    <2>1. w + 2 \in 3 .. 4
        BY <1>2
    <2> QED
        BY <2>1
<1>4. PICK old \in Seq(Tags) : /\ old = <<t, "int">> \o TagsOf(k) /\ Len(old) = n /\ old # << >>
                               /\ old[1] # "high" /\ old[1] = t
    <2>1. PICK r \in Seq(Tags) : r = <<t, "int">> /\ Len(r) = 2 /\ r[1] = t /\ t # "high"
        <3>1. /\ <<t, "int">> \in Seq(Tags) /\ Len(<<t, "int">>) = 2 /\ <<t, "int">>[1] = t /\ t # "high"
            BY DEF Tags, Types
        <3> QED
            BY <3>1
    <2>2. PICK s \in Seq(Tags) : s = TagsOf(k) /\ Len(s) = w
        BY SizesTyped
    <2>3. r \o s \in Seq(Tags) /\ Len(r \o s) = n /\ (r \o s)[1] = r[1]
        BY <1>2, <1>3, <2>1, <2>2
    <2>4. r \o s # << >>
        BY <1>3, <2>3
    <2> QED
        BY <2>1, <2>2, <2>3, <2>4
<1>5. PICK vals : vals = ValuesIn(old, Segment(mem, optop - n, n))
    OBVIOUS
<1>6. /\ Boundary(n) /\ vm = "running" /\ n \in 1 .. optop
      /\ \A j \in 1 .. n : tags[(optop - n) + j] = old[j]
      /\ vals \in Seq(JavaValue) /\ OnStack(vals)
    <2>1. Checked(old) /\ n = Len(old)
        BY <1>4
    <2> QED
        BY <1>4, <1>5, <2>1, Found
<1>7. PICK whole \in Nat : whole = StackWords
    BY <1>1
<1>8. PICK l \in 1 .. 2 : l = w /\ n = l + 2 /\ WordsOf(k) = l
    BY <1>2, <1>3
<1>9. PICK top \in Nat : top = optop /\ top <= whole /\ n <= top
    BY <1>1, <1>6, <1>7
<1>10. PICK d \in Nat : d = optop - n /\ top = d + n
    <2>1. top - n \in Nat /\ top = (top - n) + n
        BY <1>9
    <2> QED
        BY <1>9, <2>1
<1>11. PICK p \in 1 .. StackWords :
          /\ p = d + 1 /\ p = (optop - 1) - w /\ p + 1 \in 1 .. StackWords /\ p + 1 = d + 2
          /\ p + 1 = optop - w
    <2>1. d + 1 \in 1 .. whole /\ d + 1 = (top - 1) - l /\ (d + 1) + 1 = d + 2
          /\ (d + 1) + 1 \in 1 .. whole /\ (d + 1) + 1 = top - l
        BY ONLY <1>8, <1>9, <1>10
    <2> QED
        BY <1>8, <1>9, <1>7, <2>1
<1>12. RefersTo(t, mem[p])
    <2>1. 1 \in 1 .. n /\ p \in 1 .. optop
        BY <1>1, <1>6, <1>10, <1>11
    <2>2. tags[p] = t
        BY <1>4, <1>6, <1>10, <1>11, <2>1
    <2> QED
        BY <1>1, <2>1, <2>2 DEF StackOK, ReferencesRight
<1>13. mem[p] \in WordValues /\ mem[p + 1] \in WordValues
    BY <1>1, <1>11
<1>14. /\ Second(k) = (d + 2) + 1 /\ Read(k, Second(k)) \in 0 .. Values(k) - 1
       /\ Read(k, Second(k)) \in Int
    <2>1. PICK r \in Nat \ {0} : r = (d + 2) + 1 /\ r = (top - l) + 1 /\ (r + l) - 1 <= whole
        <3>1. (d + 2) + 1 \in Nat \ {0} /\ (d + 2) + 1 = (top - l) + 1
              /\ (((d + 2) + 1) + l) - 1 <= whole
            BY ONLY <1>8, <1>9, <1>10
        <3> QED
            BY <3>1
    <2>2. Second(k) = r
        BY <1>8, <1>9, <2>1 DEF Second
    <2>3. (Second(k) + WordsOf(k)) - 1 <= StackWords
        BY <1>8, <1>7, <2>1, <2>2
    <2> QED
        BY <1>1, <2>1, <2>2, <2>3, ReadTyped
<1>15. PICK v \in Int : v = Read(k, Second(k))
    BY <1>14
<1>16. PICK words : words = Segment(mem, d, n)
    OBVIOUS
<1>17. /\ words[1] = mem[p] /\ words[2] = mem[p + 1]
       /\ \A j \in 1 .. w : words[2 + j] \in WordValues
    <2>1. 1 \in 1 .. n /\ 2 \in 1 .. n
        BY <1>3
    <2>2. words[1] = mem[p] /\ words[2] = mem[p + 1]
        BY <1>11, <1>16, <2>1 DEF Segment
    <2>3. ASSUME NEW j \in 1 .. w PROVE words[2 + j] \in WordValues
        <3>1. j \in 1 .. l
            BY <1>8
        <3>2. 2 + j \in 1 .. n /\ d + (2 + j) \in 1 .. whole
            BY ONLY <1>8, <1>9, <1>10, <3>1
        <3> QED
            BY <1>1, <1>7, <1>16, <3>2 DEF Segment
    <2> QED
        BY <2>2, <2>3
<1>18. PICK seg : /\ seg = Segment(words, 2, w) /\ NumberIn(k, seg) = v
                  /\ \A j \in 1 .. w : seg[j] \in WordValues
    <2>1. \A j \in 1 .. w : Segment(words, 2, w)[j] = words[2 + j]
        BY DEF Segment
    <2>2. Segment(words, 2, w) = Segment(mem, d + 2, w)
        <3>1. w \in Nat /\ n \in Nat /\ 2 \in Nat /\ 2 + w <= n
            BY <1>2, <1>3
        <3> QED
            BY <1>16, <3>1, SegmentOfSegment
    <2>3. Read(k, (d + 2) + 1) = NumberIn(k, Segment(mem, d + 2, w))
        <3>1. d + 2 \in Nat /\ w \in Nat /\ WordsOf(k) <= w
            BY <1>2
        <3> QED
            BY <3>1, ReadNumber
    <2> QED
        BY <1>14, <1>15, <1>17, <2>1, <2>2, <2>3
<1>19. PICK x, y, z : /\ x = WordAs(t, mem[p]) /\ y = WordAs("int", mem[p + 1])
                      /\ z = Java!Integer(k, v)
    OBVIOUS
<1>20. vals = <<x, y>> \o <<z>>
    <2>1. ValuesIn(<<t, "int">> \o TagsOf(k), words) =
              <<WordAs(t, words[1]), WordAs("int", words[2])>> \o <<Java!Integer(k, NumberIn(k, seg))>>
        BY <1>13, <1>17, <1>18, StoredValues
    <2> QED
        BY <1>4, <1>5, <1>10, <1>16, <1>17, <1>18, <1>19, <2>1
<1>21. Len(vals) = 3 /\ vals[1] = x /\ vals[2] = y /\ vals[3] = z
    BY <1>20, ThreeInOne
<1>22. /\ x.kind = t /\ x.v = mem[p]
       /\ y.kind = "int" /\ y.v = S(Four, mem[p + 1])
       /\ z.kind = Java!Kinds[k] /\ z.v = S(k, v)
    <2>1. z.kind = Java!Kinds[k] /\ z.v = S(k, v)
        BY <1>19, IntegerOfCast
    <2>2. t # "int"
        BY DEF Types
    <2> QED
        BY <1>19, <2>1, <2>2 DEF WordAs
<1>23. /\ Java!Top(1) = vals[3].v /\ Java!Top(2) = vals[2].v /\ Java!Top(3) = vals[1].v
       /\ Java!Operands(<<vals[1].kind, vals[2].kind, vals[3].kind>>)
    BY <1>6, <1>21, OnStackThree
<1>24. ASSUME mem' = mem, Retag(w + 2, << >>) PROVE JavaStack' = Java!Below(3)
    <2>1. Retag(n, << >>) /\ n \in 0 .. optop /\ n = Len(old)
        BY <1>1, <1>3, <1>4, <1>6, <1>24
    <2>2. JavaStack' = Java!Below(Len(vals))
        BY <1>1, <1>5, <1>6, <1>24, <2>1, Dropped
    <2> QED
        BY <1>21, <2>2
<1> QED
    BY <1>2, <1>3, <1>6, <1>11, <1>12, <1>13, <1>14, <1>15, <1>21, <1>22, <1>23, <1>24

LEMMA StoreSame ==
    ASSUME IInv, NEW t \in Types, store(t)
    PROVE  Java!store(t)
<1>1. PICK k \in Sizes : k = Four * Len(ElementTags(t)) /\ ElementTags(t) = TagsOf(k)
    BY Widths
<1>2. PICK w : w = WordsOf(k)
    OBVIOUS
<1>3. Checked(<<t, "int">> \o TagsOf(k)) /\ op' = <<"store", t>> /\ HeapOK
    BY <1>1 DEF store, IInv
<1>4. /\ w \in 1 .. 2 /\ w + 2 \in 1 .. optop
      /\ mem[optop - w] \in WordValues /\ RefersTo(t, mem[(optop - 1) - w])
      /\ Read(k, Second(k)) \in Int
      /\ Java!Operands(<<t, "int", Java!Kinds[k]>>)
      /\ Java!Top(3) = mem[(optop - 1) - w]
      /\ Java!Top(2) = S(Four, mem[optop - w])
      /\ Java!Top(1) = S(k, Read(k, Second(k)))
      /\ mem' = mem /\ Retag(w + 2, << >>) => JavaStack' = Java!Below(3)
    BY <1>2, <1>3, FoundStored
<1>5. PICK a : a = mem[(optop - 1) - w]
    OBVIOUS
<1>6. PICK i \in WordValues, v \in Int : i = mem[optop - w] /\ v = Read(k, Second(k))
    BY <1>4
<1>7. Java!Kinds[k] = Java!ElementKind(t)
    BY <1>1, KindOfElement
<1>8. Java!Operands(<<t, "int", Java!ElementKind(t)>>)
    BY <1>4, <1>7
<1>9. CASE NoElement(a, i)
    <2>1. Java!Abort
        BY <1>1, <1>2, <1>5, <1>6, <1>9, AbortSame DEF store
    <2>2. Java!NoElement(Java!Top(3), Java!Top(2))
        BY <1>3, <1>4, <1>5, <1>6, <1>9, NoElementSame
    <2> QED
        BY <1>3, <1>8, <2>1, <2>2 DEF Java!store
<1>10. CASE ~ NoElement(a, i)
    <2>1. /\ a \in DOMAIN heap /\ types[a] = t
          /\ heap[a] \in Block /\ i \in Nat /\ i < heap[a].length /\ Width(t) \in Nat
          /\ ~ Outside(heap[a].arr, Width(t), i)
        BY <1>3, <1>4, <1>5, <1>10, AccessWithin
    <2>2. /\ heap' = [heap EXCEPT ![a].arr = WithElement(@, Width(t), i, v)]
          /\ Retag(2 + w, << >>)
          /\ UNCHANGED <<vm, mem, local, branch, types>>
        BY <1>1, <1>2, <1>5, <1>6, <1>10, <2>1 DEF store
    <2>3. HeapOK'
        <3>1. IInv'
            BY StoreKeeps
        <3> QED
            BY <3>1 DEF IInv
    <2>4. JavaArrays' = [JavaArrays EXCEPT ![a].elements[i + 1] = Java!Kept(t, S(k, v))]
        <3>1. PICK bytes : bytes = WithElement(heap[a].arr, Width(t), i, v)
            OBVIOUS
        <3>2. Storing(t, a, i, v, k, bytes)
            BY <1>1, <1>3, <2>1, <2>2, <2>3, <3>1 DEF Storing
        <3> QED
            BY ONLY <3>2, ArraysStored
    <2>5. 2 + w = w + 2
        BY <1>4
    <2>6. JavaStack' = Java!Below(3)
        BY <1>4, <2>2, <2>5
    <2>7. ~ Java!NoElement(Java!Top(3), Java!Top(2)) /\ Java!Top(2) = i
        BY <1>3, <1>4, <1>5, <1>6, <1>10, NoElementSame
    <2>8. JavaArrays' = [JavaArrays EXCEPT ![Java!Top(3)].elements[Java!Top(2) + 1] =
                             Java!Kept(t, Java!Top(1))]
        BY <1>4, <1>5, <1>6, <2>4, <2>7
    <2>9. vm' = vm /\ JavaLocal' = JavaLocal /\ branch' = branch
        BY <2>2 DEF JavaLocal
    <2> QED
        BY <1>3, <1>8, <2>6, <2>7, <2>8, <2>9 DEF Java!store
<1> QED
    BY <1>9, <1>10

----------------------------------------------------------------------------
(* The refinement. *)

LEMMA InitSame == Init => Java!Init
<1> SUFFICES ASSUME Init PROVE Java!Init
    OBVIOUS
<1>1. /\ vm = "running" /\ tags = << >> /\ local = 0 /\ heap = << >> /\ branch = FALSE /\ op = << >>
    BY DEF Init
<1>2. JavaStack = << >>
    BY <1>1, NoValues DEF JavaStack
<1>3. JavaLocal = 0
    <2>1. Four \in Nat
        BY DEF Four
    <2>2. Signed(Four, 0)
        BY Ranges
    <2> QED
        BY <1>1, <2>1, <2>2, CastIdentity DEF JavaLocal
<1>4. JavaArrays = << >>
    <2>1. JavaArrays = [a \in 1 .. Len(heap) |-> ArrayOf(types[a], heap[a])]
        BY ArraysRead
    <2>2. Len(heap) = 0
        BY <1>1
    <2>3. JavaArrays \in [1 .. 0 -> {}]
        BY <2>1, <2>2
    <2>4. JavaArrays \in Seq({}) /\ Len(JavaArrays) = 0
        BY <2>3, FunctionIsSequence
    <2> QED
        BY <2>4, EmptySeq
<1> QED
    BY <1>1, <1>2, <1>3, <1>4 DEF Java!Init

LEMMA StutterSame ==
    ASSUME UNCHANGED vars
    PROVE  UNCHANGED Java!vars
<1>1. /\ UNCHANGED <<mem, optop, local, heap, branch, history>> /\ vm' = vm /\ op' = op
    BY DEF vars
<1>2. /\ JavaStack' = JavaStack /\ JavaLocal' = JavaLocal
      /\ JavaArrays' = JavaArrays /\ branch' = branch
    BY <1>1, QuietWhenUnchanged
<1> QED
    BY <1>1, <1>2 DEF Java!vars

LEMMA StepSame == IInv /\ [Next]_vars => [Java!Next]_(Java!vars)
<1> SUFFICES ASSUME IInv, [Next]_vars PROVE [Java!Next]_(Java!vars)
    OBVIOUS
<1> USE DEF Java!Next
<1>1. CASE Constant
    BY <1>1, ConstantSame
<1>2. CASE istore
    BY <1>2, IstoreSame
<1>3. CASE swap
    BY <1>3, SwapSame
<1>4. CASE iinc
    BY <1>4, IincSame
<1>5. CASE i2l
    BY <1>5, LongFromInt
<1>6. CASE l2i
    BY <1>6, IntFromLong
<1>7. CASE lcmp
    BY <1>7, LcmpSame
<1>8. CASE \E name \in {"int2byte", "int2char", "int2short"} : narrow(name)
    BY <1>8, NarrowSame
<1>9. CASE \E w \in 1 .. 2 : pop(w)
    BY <1>9, PopSame
<1>10. CASE \E n \in 1 .. 2, m \in 0 .. 2 : dup(n, m)
    BY <1>10, DupSame
<1>11. CASE \E k \in {Four, Eight} :
              \/ \E name \in {"add", "sub", "mul", "and", "or", "xor"} : calculate(name, k)
              \/ \E name \in {"div", "rem"} : divide(name, k)
              \/ \E name \in {"shl", "shr", "ushr"} : shift(name, k)
              \/ negate(k)
    <2>1. PICK k \in Sizes :
              \/ \E name \in {"add", "sub", "mul", "and", "or", "xor"} : Java!Calculate(name, k)
              \/ \E name \in {"div", "rem"} : Java!Divide(name, k)
              \/ \E name \in {"shl", "shr", "ushr"} : Java!Shift(name, k)
              \/ Java!Negate(k)
        BY <1>11, CalculateSame, DivideSame, ShiftStepSame, NegateSame DEF Sizes
    <2>2. k \in {Java!Four, Java!Eight}
        BY JavaWords DEF Sizes
    <2> QED
        BY <2>1, <2>2
<1>12. CASE \E name \in {"if", "if_icmp"}, condition \in {"eq", "ne", "lt", "ge", "gt", "le"} :
              if(name, condition)
    BY <1>12, IfSame DEF Conditions
<1>13. CASE \E t \in Types : newarray(t) \/ arraylength(t) \/ load(t) \/ store(t)
    <2>1. PICK t \in Types : Java!newarray \/ Java!arraylength(t) \/ Java!load(t) \/ Java!store(t)
        BY <1>13, NewarraySame, ArraylengthSame, LoadSame, StoreSame
    <2>2. t \in Java!Types
        BY DEF Types, Java!Types
    <2> QED
        BY <2>1, <2>2
<1>14. CASE Rest \/ UNCHANGED vars
    BY <1>14, StutterSame DEF Rest
<1> QED
    BY <1>1, <1>2, <1>3, <1>4, <1>5, <1>6, <1>7, <1>8, <1>9, <1>10, <1>11, <1>12, <1>13, <1>14
       DEF Next, Execute

\* Every instruction does to Java's values what it promises: the words, read by
\* what the type checker knows, and the blocks of bytes, read element by
\* element, follow the abstract machine, whatever copies and exchanges of words
\* came before.
THEOREM OperationsAreJava == Spec => ImplementsJavaValues
<1>1. Spec => Java!Spec
    BY InitSame, StepSame, IInvAlways, PTL DEF Spec, Java!Spec
<1> QED
    BY <1>1 DEF ImplementsJavaValues

============================================================================
