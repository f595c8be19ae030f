-------------------------- MODULE OperationsProofs --------------------------
(***************************************************************************)
(* Proof, for bytes of any power of two bits, any literals and bounds,     *)
(* that the computing instructions of run() keep every word typed, follow  *)
(* only references to arrays of the right type, stay within the blocks,    *)
(* and that an element that was stored is the one that is loaded.          *)
(***************************************************************************)
EXTENDS Operations, FiniteSetTheorems, SequenceTheorems, WellFoundedInduction, TLAPS

----------------------------------------------------------------------------
(* Induction, powers of two and sums. *)

\* A set of natural numbers with a member has a least one.
LEMMA LeastNumber ==
    ASSUME NEW X \in SUBSET Nat, X # {}
    PROVE  \E n \in X : \A m \in X : n <= m
<1> DEFINE less == {ss \in Nat \X Nat : ss[1] < ss[2]}
<1>1. IsWellFoundedOn(less, Nat)
    BY NatLessThanWellFounded DEF OpToRel
<1>2. PICK n \in X : \A m \in X : <<m, n>> \notin less
    <2> HIDE DEF less
    <2> QED
        BY <1>1, WFMin
<1>3. ASSUME NEW m \in X
      PROVE  n <= m
    <2>1. m \in Nat /\ n \in Nat /\ <<m, n>> \in Nat \X Nat /\ <<m, n>> \notin less
        BY <1>2
    <2>2. ~ (m < n)
        BY <2>1
    <2> QED
        BY <2>1, <2>2
<1> QED
    BY <1>3

\* Induction, for a set instead of a predicate.
LEMMA SetInduction ==
    ASSUME NEW X, 0 \in X, \A n \in Nat : n \in X => n + 1 \in X
    PROVE  Nat \subseteq X
<1> SUFFICES ASSUME Nat \ X # {} PROVE FALSE
    OBVIOUS
<1>1. PICK n \in Nat \ X : \A m \in Nat \ X : n <= m
    BY LeastNumber
<1>2. n # 0
    BY <1>1
<1>3. n - 1 \in Nat /\ n - 1 \in X
    BY <1>1, <1>2
<1>4. (n - 1) + 1 \in X
    BY <1>3
<1> QED
    BY <1>1, <1>3, <1>4

LEMMA PowerIsCardinality ==
    ASSUME NEW n \in Nat
    PROVE  2 ^ n = Cardinality(SUBSET (1 .. n)) /\ IsFiniteSet(SUBSET (1 .. n))
           /\ 2 ^ n \in Nat \ {0}
<1>1. IsFiniteSet(1 .. n) /\ Cardinality(1 .. n) = n
    <2>1. 1 \in Int /\ n \in Int
        OBVIOUS
    <2>2. /\ IsFiniteSet(1 .. n)
          /\ Cardinality(1 .. n) = IF 1 > n THEN 0 ELSE n - 1 + 1
        BY ONLY <2>1, FS_Interval
    <2> QED
        BY <2>2
<1> DEFINE I == 1 .. n
<1>2. IsFiniteSet(SUBSET I) /\ Cardinality(SUBSET I) = 2 ^ Cardinality(I)
    <2>1. IsFiniteSet(I)
        BY <1>1
    <2> HIDE DEF I
    <2> QED
        BY <2>1, FS_SUBSET
<1>3. Cardinality(SUBSET I) = 2 ^ n
    BY <1>1, <1>2
<1>4. SUBSET I # {}
    OBVIOUS
<1>5. Cardinality(SUBSET I) \in Nat /\ Cardinality(SUBSET I) # 0
    <2> HIDE DEF I
    <2> QED
        BY <1>2, <1>4, FS_CardinalityType, FS_EmptySet
<1> QED
    BY <1>2, <1>3, <1>5
\* f adds up the steps.
Sums(f, k, step) == f = [n \in 0 .. k |-> IF n = 0 THEN 0 ELSE f[n - 1] + step[n]]

LEMMA SumsTyped ==
    ASSUME NEW k \in Nat, NEW step \in [1 .. k -> Int], NEW f, Sums(f, k, step)
    PROVE  f \in [0 .. k -> Int]
<1> DEFINE X == {m \in Nat : m <= k => f[m] \in Int}
<1>1. 0 \in X
    BY DEF Sums
<1>2. ASSUME NEW m \in Nat, m \in X PROVE m + 1 \in X
    <2> SUFFICES ASSUME m + 1 <= k PROVE f[m + 1] \in Int
        OBVIOUS
    <2>1. f[m + 1] = f[m] + step[m + 1]
        BY DEF Sums
    <2>2. f[m] \in Int /\ step[m + 1] \in Int
        BY <1>2
    <2> QED
        BY <2>1, <2>2
<1>3. Nat \subseteq X
    <2> HIDE DEF X
    <2> QED
        BY <1>1, <1>2, SetInduction
<1>4. \A n \in 0 .. k : f[n] \in Int
    BY <1>3
<1> QED
    BY <1>4 DEF Sums

LEMMA SumsExist ==
    ASSUME NEW k \in Nat, NEW step \in [1 .. k -> Int]
    PROVE  \E f : Sums(f, k, step)
<1> DEFINE X == {m \in Nat : m <= k => \E f : Sums(f, m, step)}
<1>1. 0 \in X
    <2>1. Sums([n \in 0 .. 0 |-> 0], 0, step)
        BY DEF Sums
    <2> QED
        BY <2>1
<1>2. ASSUME NEW m \in Nat, m \in X PROVE m + 1 \in X
    <2> SUFFICES ASSUME m + 1 <= k PROVE \E f : Sums(f, m + 1, step)
        OBVIOUS
    <2>1. PICK f : Sums(f, m, step)
        BY <1>2
    <2> DEFINE g == [n \in 0 .. m + 1 |-> IF n = m + 1 THEN f[m] + step[m + 1] ELSE f[n]]
    <2>2. ASSUME NEW n \in 0 .. m + 1
          PROVE  g[n] = IF n = 0 THEN 0 ELSE g[n - 1] + step[n]
        <3>1. CASE n = m + 1
            <4>1. g[n] = f[m] + step[m + 1] /\ g[n - 1] = f[m]
                BY <3>1
            <4> QED
                BY <3>1, <4>1
        <3>2. CASE n # m + 1
            <4>1. n \in 0 .. m /\ g[n] = f[n] /\ (n # 0 => g[n - 1] = f[n - 1])
                BY <3>2
            <4>2. f[n] = IF n = 0 THEN 0 ELSE f[n - 1] + step[n]
                BY <2>1, <4>1 DEF Sums
            <4> QED
                BY <4>1, <4>2
        <3> QED
            BY <3>1, <3>2
    <2>3. Sums(g, m + 1, step)
        BY <2>2 DEF Sums
    <2> QED
        BY <2>3
<1>3. Nat \subseteq X
    <2> HIDE DEF X
    <2> QED
        BY <1>1, <1>2, SetInduction
<1> QED
    BY <1>3


LEMMA PowerPositive ==
    ASSUME NEW n \in Nat
    PROVE  2 ^ n \in Nat \ {0}
BY PowerIsCardinality

LEMMA SumsUnique ==
    ASSUME NEW k \in Nat, NEW step, NEW f, NEW g, Sums(f, k, step), Sums(g, k, step)
    PROVE  f[k] = g[k]
<1> DEFINE X == {m \in Nat : m <= k => f[m] = g[m]}
<1>1. 0 \in X
    BY DEF Sums
<1>2. ASSUME NEW m \in Nat, m \in X PROVE m + 1 \in X
    <2> SUFFICES ASSUME m + 1 <= k PROVE f[m + 1] = g[m + 1]
        OBVIOUS
    <2>1. f[m + 1] = f[m] + step[m + 1] /\ g[m + 1] = g[m] + step[m + 1]
        BY DEF Sums
    <2> QED
        BY <1>2, <2>1
<1>3. Nat \subseteq X
    <2> HIDE DEF X
    <2> QED
        BY <1>1, <1>2, SetInduction
<1> QED
    BY <1>3

LEMMA PowerOfSum ==
    ASSUME NEW m \in Nat, NEW n \in Nat
    PROVE  2 ^ (m + n) = 2 ^ m * 2 ^ n
<1> DEFINE A == 1 .. m
           B == m + 1 .. m + n
           join == [p \in (SUBSET A) \X (SUBSET B) |-> p[1] \cup p[2]]
<1>1. /\ IsFiniteSet(A) /\ Cardinality(A) = m
      /\ IsFiniteSet(B) /\ Cardinality(B) = n
    <2>1. 1 \in Int /\ m \in Int /\ m + 1 \in Int /\ m + n \in Int
        OBVIOUS
    <2>2. /\ IsFiniteSet(1 .. m)
          /\ Cardinality(1 .. m) = IF 1 > m THEN 0 ELSE m - 1 + 1
        BY ONLY <2>1, FS_Interval
    <2>3. /\ IsFiniteSet(m + 1 .. m + n)
          /\ Cardinality(m + 1 .. m + n) = IF m + 1 > m + n THEN 0 ELSE (m + n) - (m + 1) + 1
        BY ONLY <2>1, FS_Interval
    <2> QED
        BY <2>2, <2>3
<1>2. A \cup B = 1 .. m + n /\ A \cap B = {}
    OBVIOUS
<1>3. /\ IsFiniteSet(SUBSET A) /\ Cardinality(SUBSET A) = 2 ^ m
      /\ IsFiniteSet(SUBSET B) /\ Cardinality(SUBSET B) = 2 ^ n
    <2> HIDE DEF A, B
    <2> QED
        BY <1>1, FS_SUBSET
<1>4. join \in Bijection((SUBSET A) \X (SUBSET B), SUBSET (A \cup B))
    <2> SUFFICES ASSUME NEW X, NEW Y, X = A, Y = B, X \cap Y = {}
                 PROVE  [p \in (SUBSET X) \X (SUBSET Y) |-> p[1] \cup p[2]]
                            \in Bijection((SUBSET X) \X (SUBSET Y), SUBSET (X \cup Y))
        BY <1>2
    <2> HIDE DEF A, B, join
    <2> DEFINE f == [p \in (SUBSET X) \X (SUBSET Y) |-> p[1] \cup p[2]]
    <2>1. f \in [(SUBSET X) \X (SUBSET Y) -> SUBSET (X \cup Y)]
        OBVIOUS
    <2>2. ASSUME NEW p \in (SUBSET X) \X (SUBSET Y), NEW q \in (SUBSET X) \X (SUBSET Y),
                 f[p] = f[q]
          PROVE  p = q
        <3>1. p[1] \cup p[2] = q[1] \cup q[2]
            BY <2>2
        <3>2. p[1] = q[1] /\ p[2] = q[2]
            BY <3>1
        <3> QED
            BY <3>2
    <2>3. ASSUME NEW u \in SUBSET (X \cup Y)
          PROVE  \E p \in (SUBSET X) \X (SUBSET Y) : f[p] = u
        <3>1. <<u \cap X, u \cap Y>> \in (SUBSET X) \X (SUBSET Y)
            OBVIOUS
        <3>2. f[<<u \cap X, u \cap Y>>] = (u \cap X) \cup (u \cap Y)
            BY <3>1
        <3> QED
            BY <3>1, <3>2
    <2> HIDE DEF f
    <2>4. f \in Injection((SUBSET X) \X (SUBSET Y), SUBSET (X \cup Y))
        BY <2>1, <2>2 DEF Injection, IsInjective
    <2>5. f \in Surjection((SUBSET X) \X (SUBSET Y), SUBSET (X \cup Y))
        BY <2>1, <2>3 DEF Surjection
    <2>6. f \in Bijection((SUBSET X) \X (SUBSET Y), SUBSET (X \cup Y))
        BY <2>4, <2>5 DEF Bijection
    <2> QED
        BY <2>6 DEF f
<1>5. /\ IsFiniteSet((SUBSET A) \X (SUBSET B))
      /\ Cardinality((SUBSET A) \X (SUBSET B)) = 2 ^ m * 2 ^ n
    <2> HIDE DEF A, B
    <2> DEFINE P == SUBSET A
               Q == SUBSET B
    <2>1. /\ IsFiniteSet(P) /\ Cardinality(P) = 2 ^ m
          /\ IsFiniteSet(Q) /\ Cardinality(Q) = 2 ^ n
        BY <1>3
    <2> HIDE DEF P, Q
    <2>2. IsFiniteSet(P \X Q) /\ Cardinality(P \X Q) = Cardinality(P) * Cardinality(Q)
        BY ONLY <2>1, FS_Product
    <2>3. IsFiniteSet(P \X Q) /\ Cardinality(P \X Q) = 2 ^ m * 2 ^ n
        BY ONLY <2>1, <2>2
    <2> QED
        BY <2>3 DEF P, Q
<1>6. Cardinality(SUBSET (A \cup B)) = 2 ^ m * 2 ^ n
    <2>1. ExistsBijection((SUBSET A) \X (SUBSET B), SUBSET (A \cup B))
        BY <1>4 DEF ExistsBijection
    <2> HIDE DEF A, B, join
    <2> QED
        BY <1>5, <2>1, FS_Bijection
<1>7. m + n \in Nat
    OBVIOUS
<1> QED
    BY <1>2, <1>6, <1>7, PowerIsCardinality

----------------------------------------------------------------------------
(* Words and the numbers made of them. *)

LEMMA ValuesTyped ==
    /\ ByteBits \in Nat \ {0}
    /\ \A k \in Nat : Bits(k) \in Nat /\ Values(k) \in Nat \ {0}
<1>1. ByteBits \in Nat \ {0}
    BY ByteAssumption
<1> QED
    BY <1>1, PowerPositive DEF Bits, Values

LEMMA ValuesOfSum ==
    ASSUME NEW j \in Nat, NEW k \in Nat
    PROVE  Values(j + k) = Values(j) * Values(k)
<1>1. PICK b \in Nat : b = ByteBits
    BY ByteAssumption
<1>2. Bits(j + k) = Bits(j) + Bits(k)
    BY <1>1 DEF Bits
<1> QED
    BY <1>2, ValuesTyped, PowerOfSum DEF Values

\* The numbers of values of a word and of a long, as constants.
LEMMA WordSizes ==
    \E w \in Nat \ {0} : Values(Four) = w /\ Values(Eight) = w * w
<1>1. Values(4 + 4) = Values(4) * Values(4)
    BY ValuesOfSum
<1>2. Values(4) \in Nat \ {0}
    BY ValuesTyped
<1> QED
    BY <1>1, <1>2 DEF Four, Eight

LEMMA CastTyped ==
    ASSUME NEW k \in Nat, NEW v \in Int
    PROVE  /\ U(k, v) \in 0 .. Values(k) - 1
           /\ S(k, v) \in Int
           /\ v \in 1 .. Values(k) - 1 => S(k, v) # 0
<1>1. PICK n \in Nat \ {0} : n = Values(k)
    BY ValuesTyped
<1>2. PICK u \in 0 .. n - 1 : u = v % n
    OBVIOUS
<1>3. U(k, v) = u
    BY <1>1, <1>2 DEF U
<1>4. v \in 1 .. n - 1 => u = v
    BY <1>2
<1>5. S(k, v) = IF 2 * u < n THEN u ELSE u - n
    BY <1>1, <1>3 DEF S
<1> QED
    BY <1>1, <1>2, <1>3, <1>4, <1>5

\* The words of a number of k bytes.
LEMMA WordsTyped ==
    ASSUME NEW v \in Int
    PROVE  /\ U(Four, v) \in WordValues
           /\ U(Eight, v) \div Values(Four) \in WordValues
<1>1. PICK w \in Nat \ {0} : Values(Four) = w /\ Values(Eight) = w * w
    BY WordSizes
<1>2. U(Four, v) \in 0 .. w - 1
    BY <1>1, CastTyped DEF Four
<1>3. PICK u \in 0 .. w * w - 1 : u = U(Eight, v)
    BY <1>1, CastTyped DEF Eight
<1>4. u \div w \in 0 .. w - 1
    BY <1>3
<1> QED
    BY <1>1, <1>2, <1>3, <1>4 DEF WordValues

LEMMA TwoWordsTyped ==
    ASSUME NEW a \in WordValues, NEW b \in WordValues
    PROVE  a + Values(Four) * b \in 0 .. Values(Eight) - 1
<1>1. PICK w \in Nat \ {0} : Values(Four) = w /\ Values(Eight) = w * w
    BY WordSizes
<1>2. a \in 0 .. w - 1 /\ b \in 0 .. w - 1
    BY <1>1 DEF WordValues
<1>3. w * b <= w * (w - 1) /\ w * b >= 0
    BY <1>2
<1>4. a + w * b \in 0 .. w * w - 1
    BY <1>2, <1>3
<1> QED
    BY <1>1, <1>4

LEMMA QuotientTyped ==
    ASSUME NEW a \in Int, NEW b \in Int, b # 0
    PROVE  Quotient(a, b) \in Int
<1>1. PICK m \in Nat : m = Magnitude(a)
    BY DEF Magnitude
<1>2. PICK n \in Nat \ {0} : n = Magnitude(b)
    BY DEF Magnitude
<1>3. PICK q \in Int : q = m \div n
    OBVIOUS
<1>4. Quotient(a, b) = IF (a < 0) = (b < 0) THEN q ELSE - q
    BY <1>1, <1>2, <1>3 DEF Quotient
<1> QED
    BY <1>4

LEMMA ShiftTyped ==
    ASSUME NEW v \in Int, NEW k \in Nat, NEW n \in Nat, n < Bits(k)
    PROVE  ShiftRight(v, n) \in Int /\ ShiftLeft(k, v, n) \in Int
<1>1. PICK p \in Nat \ {0} : p = 2 ^ n
    BY PowerPositive
<1>2. Bits(k) - n \in Nat
    BY ValuesTyped
<1>3. PICK q \in Nat \ {0} : q = 2 ^ (Bits(k) - n)
    BY <1>2, PowerPositive
<1>4. v \div p \in Int /\ (v % q) * p \in Int
    OBVIOUS
<1> QED
    BY <1>1, <1>3, <1>4 DEF ShiftRight, ShiftLeft

LEMMA DistanceTyped ==
    ASSUME NEW k \in Nat \ {0}, NEW v \in Int
    PROVE  Distance(k, v) \in Nat /\ Distance(k, v) < Bits(k)
<1>1. PICK b \in Nat \ {0} : b = ByteBits
    BY ByteAssumption
<1>2. k * b \in Nat \ {0}
    BY <1>1
<1>3. PICK n \in Nat \ {0} : n = Bits(k)
    BY <1>1, <1>2 DEF Bits
<1>4. v % n \in 0 .. n - 1
    OBVIOUS
<1> QED
    BY <1>3, <1>4 DEF Distance

\* The bits of two numbers combined are a number.
LEMMA CombineTyped ==
    ASSUME NEW k \in Nat, NEW a \in Int, NEW b \in Int, NEW bit \in [Bit -> [Bit -> Int]]
    PROVE  Combine(k, bit, a, b) \in Int
<1> DEFINE B == Bits(k)
           step == [n \in 1 .. B |-> 2 ^ (n - 1) * bit[ShiftRight(a, n - 1) % 2][ShiftRight(b, n - 1) % 2]]
           Q(low) == low = [n \in 0 .. B |->
                               IF n = 0 THEN 0
                               ELSE low[n - 1] + 2 ^ (n - 1) * bit[ShiftRight(a, n - 1) % 2][ShiftRight(b, n - 1) % 2]]
           l == CHOOSE low : Q(low)
<1>1. B \in Nat
    BY ValuesTyped
<1>2. step \in [1 .. B -> Int]
    <2> SUFFICES ASSUME NEW n \in 1 .. B PROVE step[n] \in Int
        BY Zenon
    <2>1. PICK p \in Nat \ {0} : p = 2 ^ (n - 1)
        BY <1>1, PowerPositive
    <2>2. (a \div p) % 2 \in {0, 1} /\ (b \div p) % 2 \in {0, 1}
        BY <2>1
    <2>3. PICK d \in Int : d = bit[ShiftRight(a, n - 1) % 2][ShiftRight(b, n - 1) % 2]
        BY <2>1, <2>2 DEF ShiftRight, Bit
    <2> QED
        BY <2>1, <2>3
<1>3. ASSUME NEW f PROVE Q(f) <=> Sums(f, B, step)
    <2>1. \A n \in 1 .. B :
              step[n] = 2 ^ (n - 1) * bit[ShiftRight(a, n - 1) % 2][ShiftRight(b, n - 1) % 2]
        BY Zenon
    <2> HIDE DEF step
    <2>2. [n \in 0 .. B |-> IF n = 0 THEN 0 ELSE f[n - 1] + step[n]]
          = [n \in 0 .. B |->
                IF n = 0 THEN 0
                ELSE f[n - 1] + 2 ^ (n - 1) * bit[ShiftRight(a, n - 1) % 2][ShiftRight(b, n - 1) % 2]]
        BY <1>1, <2>1
    <2> QED
        BY <2>2 DEF Sums
<1>4. \E f : Q(f)
    <2> HIDE DEF Q, step
    <2> QED
        BY <1>1, <1>2, <1>3, SumsExist
<1>5. Q(l)
    <2> HIDE DEF Q
    <2> QED
        BY <1>4
<1>6. l \in [0 .. B -> Int]
    <2> HIDE DEF Q, l, step
    <2> QED
        BY <1>1, <1>2, <1>3, <1>5, SumsTyped
<1>7. Combine(k, bit, a, b) = l[B]
    BY DEF Combine
<1> HIDE DEF l
<1> QED
    BY <1>1, <1>6, <1>7

LEMMA BitsTyped ==
    ASSUME NEW k \in Nat, NEW a \in Int, NEW b \in Int
    PROVE  And(k, a, b) \in Int /\ Or(k, a, b) \in Int /\ Xor(k, a, b) \in Int
<1>1. [x \in Bit |-> [y \in Bit |-> x * y]] \in [Bit -> [Bit -> Int]]
    BY DEF Bit
<1>2. [x \in Bit |-> [y \in Bit |-> x + y - x * y]] \in [Bit -> [Bit -> Int]]
    BY DEF Bit
<1>3. [x \in Bit |-> [y \in Bit |-> (x + y) % 2]] \in [Bit -> [Bit -> Int]]
    BY DEF Bit
<1> QED
    BY <1>1, <1>2, <1>3, CombineTyped DEF And, Or, Xor

----------------------------------------------------------------------------
(* Elements of arrays. *)

Byte == 0 .. Values(One) - 1

\* What the bytes of an element contribute to it.
Parts(block, k, i) == [n \in 1 .. k |-> block[k * i + n] * Values(n - 1)]

LEMMA ElementIsSum ==
    ASSUME NEW k \in Nat, NEW i \in Nat, NEW block,
           \A n \in 1 .. k : block[k * i + n] \in Int
    PROVE  \E f : /\ Sums(f, k, Parts(block, k, i)) /\ f \in [0 .. k -> Int]
                  /\ ElementAt(block, k, i) = f[k]
<1> DEFINE Q(number) == number = [n \in 0 .. k |->
                                     IF n = 0 THEN 0
                                     ELSE number[n - 1] + block[k * i + n] * Values(n - 1)]
           l == CHOOSE number : Q(number)
<1>1. Parts(block, k, i) \in [1 .. k -> Int]
    <2> SUFFICES ASSUME NEW n \in 1 .. k PROVE block[k * i + n] * Values(n - 1) \in Int
        BY Zenon DEF Parts
    <2>1. block[k * i + n] \in Int
        OBVIOUS
    <2>2. n - 1 \in Nat
        OBVIOUS
    <2>3. Values(n - 1) \in Int
        BY <2>2, ValuesTyped
    <2> QED
        BY <2>1, <2>3
<1>2. ASSUME NEW f PROVE Q(f) <=> Sums(f, k, Parts(block, k, i))
    <2>1. \A n \in 1 .. k : Parts(block, k, i)[n] = block[k * i + n] * Values(n - 1)
        BY Zenon DEF Parts
    <2>2. [n \in 0 .. k |-> IF n = 0 THEN 0 ELSE f[n - 1] + Parts(block, k, i)[n]]
          = [n \in 0 .. k |->
                IF n = 0 THEN 0 ELSE f[n - 1] + block[k * i + n] * Values(n - 1)]
        BY <2>1
    <2> QED
        BY <2>2 DEF Sums
<1>3. \E f : Q(f)
    <2> HIDE DEF Q
    <2> QED
        BY <1>1, <1>2, SumsExist
<1>4. Q(l)
    <2> HIDE DEF Q
    <2> QED
        BY <1>3
<1>5. Sums(l, k, Parts(block, k, i)) /\ l \in [0 .. k -> Int]
    <2> HIDE DEF Q, l
    <2> QED
        BY <1>1, <1>2, <1>4, SumsTyped
<1>6. ElementAt(block, k, i) = l[k]
    BY DEF ElementAt
<1> HIDE DEF l
<1> QED
    BY <1>5, <1>6

\* The bytes of an element lie within the block.
LEMMA ElementWithin ==
    ASSUME NEW block, NEW k \in Nat, NEW i \in Nat, Len(block) \in Nat,
           ~ Outside(block, k, i), NEW n \in 1 .. k
    PROVE  k * i + n \in 1 .. Len(block)
<1>1. PICK p \in Nat : p = k * i
    OBVIOUS
<1> QED
    BY <1>1 DEF Outside

LEMMA ElementTyped ==
    ASSUME NEW block \in Seq(Byte), NEW k \in Nat, NEW i \in Nat, ~ Outside(block, k, i)
    PROVE  ElementAt(block, k, i) \in Int
<1>1. \A n \in 1 .. k : block[k * i + n] \in Int
    <2> SUFFICES ASSUME NEW n \in 1 .. k PROVE block[k * i + n] \in Int
        OBVIOUS
    <2>1. Len(block) \in Nat
        OBVIOUS
    <2>2. k * i + n \in 1 .. Len(block)
        BY <2>1, ElementWithin
    <2>3. block[k * i + n] \in Byte
        BY <2>2
    <2>4. Byte \subseteq Int
        BY DEF Byte
    <2> QED
        BY <2>3, <2>4
<1>2. PICK f \in [0 .. k -> Int] : ElementAt(block, k, i) = f[k]
    BY <1>1, ElementIsSum
<1>3. f[k] \in Int
    OBVIOUS
<1> QED
    BY <1>2, <1>3

LEMMA WithElementTyped ==
    ASSUME NEW block \in Seq(Byte), NEW k \in Nat, NEW i \in Nat, NEW v \in Int
    PROVE  /\ WithElement(block, k, i, v) \in Seq(Byte)
           /\ Len(WithElement(block, k, i, v)) = Len(block)
           /\ \A b \in 1 .. Len(block) : WithElement(block, k, i, v)[b] =
                  IF b \in k * i + 1 .. k * i + k
                  THEN (v \div Values(b - k * i - 1)) % Values(One) ELSE block[b]
<1>1. DOMAIN block = 1 .. Len(block) /\ Len(block) \in Nat
    OBVIOUS
<1>2. PICK p \in Nat : p = k * i
    OBVIOUS
<1>3. PICK w \in Nat \ {0} : w = Values(One)
    BY ValuesTyped DEF One
<1> DEFINE e(b) == IF b \in k * i + 1 .. k * i + k
                   THEN (v \div Values(b - k * i - 1)) % Values(One) ELSE block[b]
<1>4. ASSUME NEW b \in 1 .. Len(block) PROVE e(b) \in Byte
    <2>1. CASE b \in k * i + 1 .. k * i + k
        <3>1. b - k * i - 1 \in Nat
            BY <2>1, <1>2
        <3>2. PICK z \in Nat \ {0} : z = Values(b - k * i - 1)
            BY <3>1, ValuesTyped
        <3>3. (v \div z) % w \in 0 .. w - 1
            OBVIOUS
        <3> QED
            BY <2>1, <3>2, <3>3, <1>3 DEF Byte
    <2>2. CASE ~ (b \in k * i + 1 .. k * i + k)
        <3>1. block[b] \in Byte
            OBVIOUS
        <3> QED
            BY <2>2, <3>1
    <2> QED
        BY <2>1, <2>2
<1>5. WithElement(block, k, i, v) = [b \in 1 .. Len(block) |-> e(b)]
    BY <1>1 DEF WithElement
<1> HIDE DEF e
<1>6. [b \in 1 .. Len(block) |-> e(b)] \in [1 .. Len(block) -> Byte]
    BY <1>4
<1>7. WithElement(block, k, i, v) \in [1 .. Len(block) -> Byte]
    BY <1>5, <1>6
<1>8. WithElement(block, k, i, v) \in Seq(Byte) /\ Len(WithElement(block, k, i, v)) = Len(block)
    BY <1>1, <1>7, SeqDef
<1>9. \A b \in 1 .. Len(block) : WithElement(block, k, i, v)[b] = e(b)
    BY <1>5
<1> QED
    BY <1>8, <1>9 DEF e

LEMMA Distribute ==
    ASSUME NEW p \in Int, NEW q \in Int, NEW c \in Int, NEW t \in Int
    PROVE  p * (q * c + t) = (p * q) * c + t * p
OBVIOUS

\* Division is unique.
LEMMA Remainder ==
    ASSUME NEW v \in Int, NEW n \in Nat \ {0}, NEW c \in Int, NEW r \in 0 .. n - 1, v = n * c + r
    PROVE  v % n = r /\ v \div n = c
<1>1. PICK d \in Int, s \in 0 .. n - 1 : v = n * d + s /\ d = v \div n /\ s = v % n
    OBVIOUS
<1>2. n * (d - c) = r - s
    BY <1>1
<1>3. PICK e \in Int : e = d - c
    OBVIOUS
<1>4. n * e = r - s
    BY <1>2, <1>3
<1>5. ~ (e >= 1)
    <2> SUFFICES ASSUME e >= 1 PROVE FALSE
        OBVIOUS
    <2>1. n * e >= n
        OBVIOUS
    <2> QED
        BY <2>1, <1>4
<1>6. ~ (e <= -1)
    <2> SUFFICES ASSUME e <= -1 PROVE FALSE
        OBVIOUS
    <2>1. n * e <= - n
        OBVIOUS
    <2> QED
        BY <2>1, <1>4
<1>7. e = 0
    BY <1>5, <1>6
<1>8. s = r /\ d = c
    BY <1>3, <1>4, <1>7
<1> QED
    BY <1>1, <1>8

\* Dividing in two steps.
LEMMA TwoDigits ==
    ASSUME NEW v \in Int, NEW p \in Nat \ {0}, NEW q \in Nat \ {0}
    PROVE  v % (p * q) = (v % p) + ((v \div p) % q) * p
<1>1. PICK d \in Int, r \in 0 .. p - 1 : v = p * d + r /\ d = v \div p /\ r = v % p
    OBVIOUS
<1>2. PICK c \in Int, t \in 0 .. q - 1 : d = q * c + t /\ t = d % q
    OBVIOUS
<1>3. p * t <= p * (q - 1) /\ 0 <= p * t
    BY <1>2
<1>4. PICK n \in Nat \ {0} : n = p * q
    OBVIOUS
<1>5. p * t = t * p /\ p * (q - 1) = n - p
    BY <1>4
<1>6. t * p + r \in 0 .. n - 1
    BY <1>1, <1>3, <1>5
<1>7. v = n * c + (t * p + r)
    <2>1. p * (q * c + t) = (p * q) * c + t * p
        BY Distribute
    <2>2. v = ((p * q) * c + t * p) + r
        BY <1>1, <1>2, <2>1
    <2> QED
        BY <1>4, <2>2
<1>8. v % n = t * p + r
    BY <1>6, <1>7, Remainder
<1>9. v % p = r /\ (v \div p) % q = t
    BY <1>1, <1>2
<1>10. v % (p * q) = v % n
    BY <1>4
<1> QED
    BY <1>8, <1>9, <1>10

\* The bytes that store writes are the digits of the value.
LEMMA DigitsAddUp ==
    ASSUME NEW v \in Int, NEW k \in Nat, NEW step, NEW f, Sums(f, k, step),
           \A n \in 1 .. k : step[n] = ((v \div Values(n - 1)) % Values(One)) * Values(n - 1)
    PROVE  f[k] = U(k, v)
<1> DEFINE X == {m \in Nat : m <= k => f[m] = v % Values(m)}
<1>1. 0 \in X
    <2>1. Values(0 + 0) = Values(0) * Values(0)
        BY ValuesOfSum
    <2>2. PICK z \in Nat \ {0} : z = Values(0)
        BY ValuesTyped
    <2>3. z = z * z
        BY <2>1, <2>2
    <2>4. z = 1
        BY <2>3
    <2>5. v % 1 = 0
        OBVIOUS
    <2>6. f[0] = 0
        BY DEF Sums
    <2> QED
        BY <2>2, <2>4, <2>5, <2>6
<1>2. ASSUME NEW m \in Nat, m \in X PROVE m + 1 \in X
    <2> SUFFICES ASSUME m + 1 <= k PROVE f[m + 1] = v % Values(m + 1)
        OBVIOUS
    <2>1. f[m + 1] = f[m] + step[m + 1]
        BY DEF Sums
    <2>2. PICK p \in Nat \ {0} : p = Values(m)
        BY ValuesTyped
    <2>3. PICK q \in Nat \ {0} : q = Values(1)
        BY ValuesTyped
    <2>4. Values(m + 1) = p * q
        BY <2>2, <2>3, ValuesOfSum
    <2>5. (m + 1) - 1 = m /\ m + 1 \in 1 .. k
        OBVIOUS
    <2>6. step[m + 1] = ((v \div p) % q) * p
        BY <2>2, <2>3, <2>5 DEF One
    <2>7. f[m] = v % p
        BY <1>2, <2>2
    <2>8. v % (p * q) = (v % p) + ((v \div p) % q) * p
        BY TwoDigits
    <2> QED
        BY <2>1, <2>4, <2>6, <2>7, <2>8
<1>3. Nat \subseteq X
    <2> HIDE DEF X
    <2> QED
        BY <1>1, <1>2, SetInduction
<1>4. f[k] = v % Values(k)
    BY <1>3
<1> QED
    BY <1>4 DEF U

\* Element i lies outside the bytes of element j.
LEMMA Apart ==
    ASSUME NEW k \in Nat, NEW i \in Nat, NEW j \in Nat, i # j, NEW n \in 1 .. k
    PROVE  k * j + n \notin k * i + 1 .. k * i + k
<1>1. PICK p \in Nat : p = k * i
    OBVIOUS
<1>2. PICK q \in Nat : q = k * j
    OBVIOUS
<1>3. CASE i < j
    <2>1. k * (i + 1) <= k * j
        BY <1>3
    <2>2. k * (i + 1) = k * i + k
        OBVIOUS
    <2>3. p + k <= q
        BY <1>1, <1>2, <2>1, <2>2
    <2> QED
        BY <1>1, <1>2, <2>3
<1>4. CASE j < i
    <2>1. k * (j + 1) <= k * i
        BY <1>4
    <2>2. k * (j + 1) = k * j + k
        OBVIOUS
    <2>3. q + k <= p
        BY <1>1, <1>2, <2>1, <2>2
    <2> QED
        BY <1>1, <1>2, <2>3
<1> QED
    BY <1>3, <1>4

\* An element that xastore wrote is read back by xaload: the low k bytes of the
\* value, lowest first, for every width; and no other element is touched.
THEOREM StoredIsLoaded ==
    ASSUME NEW block \in Seq(Byte), NEW k \in Nat, NEW i \in Nat, NEW v \in Int,
           ~ Outside(block, k, i)
    PROVE  /\ ElementAt(WithElement(block, k, i, v), k, i) = U(k, v)
           /\ \A j \in Nat \ {i} : ~ Outside(block, k, j) =>
                  ElementAt(WithElement(block, k, i, v), k, j) = ElementAt(block, k, j)
<1> DEFINE new == WithElement(block, k, i, v)
<1>1. Len(block) \in Nat /\ Byte \subseteq Int
    BY DEF Byte
<1>2. /\ new \in Seq(Byte) /\ Len(new) = Len(block)
      /\ \A b \in 1 .. Len(block) : new[b] =
             IF b \in k * i + 1 .. k * i + k
             THEN (v \div Values(b - k * i - 1)) % Values(One) ELSE block[b]
    BY WithElementTyped
<1> HIDE DEF new
<1>3. ASSUME NEW j \in Nat, ~ Outside(block, k, j)
      PROVE  \A n \in 1 .. k :
                /\ k * j + n \in 1 .. Len(block)
                /\ new[k * j + n] \in Int /\ block[k * j + n] \in Int
    <2> SUFFICES ASSUME NEW n \in 1 .. k
                 PROVE  /\ k * j + n \in 1 .. Len(block)
                        /\ new[k * j + n] \in Int /\ block[k * j + n] \in Int
        OBVIOUS
    <2>1. k * j + n \in 1 .. Len(block)
        BY <1>1, <1>3, ElementWithin
    <2>2. new[k * j + n] \in Byte /\ block[k * j + n] \in Byte
        BY <1>2, <2>1
    <2> QED
        BY <1>1, <2>1, <2>2
<1>4. ElementAt(new, k, i) = U(k, v)
    <2>1. PICK f : Sums(f, k, Parts(new, k, i)) /\ ElementAt(new, k, i) = f[k]
        BY <1>3, ElementIsSum
    <2>2. ASSUME NEW n \in 1 .. k
          PROVE  Parts(new, k, i)[n] = ((v \div Values(n - 1)) % Values(One)) * Values(n - 1)
        <3>1. PICK p \in Nat : p = k * i
            OBVIOUS
        <3>2. PICK b \in 1 .. Len(block) : b = k * i + n
            BY <1>3
        <3>3. b \in k * i + 1 .. k * i + k /\ b - k * i - 1 = n - 1
            BY <3>1, <3>2
        <3>4. new[b] = (v \div Values(b - k * i - 1)) % Values(One)
            BY <1>2, <3>3
        <3>5. Parts(new, k, i)[n] = new[k * i + n] * Values(n - 1)
            BY DEF Parts
        <3> QED
            BY <3>2, <3>3, <3>4, <3>5
    <2> QED
        BY <2>1, <2>2, DigitsAddUp
<1>5. ASSUME NEW j \in Nat \ {i}, ~ Outside(block, k, j)
      PROVE  ElementAt(new, k, j) = ElementAt(block, k, j)
    <2>1. PICK f : Sums(f, k, Parts(new, k, j)) /\ ElementAt(new, k, j) = f[k]
        BY <1>3, <1>5, ElementIsSum
    <2>2. PICK g : Sums(g, k, Parts(block, k, j)) /\ ElementAt(block, k, j) = g[k]
        BY <1>3, <1>5, ElementIsSum
    <2>3. \A n \in 1 .. k : new[k * j + n] = block[k * j + n]
        BY <1>2, <1>3, <1>5, Apart
    <2>4. Parts(new, k, j) = Parts(block, k, j)
        BY <2>3 DEF Parts
    <2> QED
        BY <2>1, <2>2, <2>4, SumsUnique
<1> QED
    BY <1>4, <1>5 DEF new

----------------------------------------------------------------------------
(* The stack.  Its invariant and that of the arrays are looked at apart. *)

\* The words of a long stand together.
Paired(s) ==
    \A p \in 1 .. Len(s) :
        /\ s[p] = "low" => p < Len(s) /\ s[p + 1] = "high"
        /\ s[p] = "high" => p > 1 /\ s[p - 1] = "low"

StackOK ==
    /\ mem \in [1 .. StackWords -> WordValues]
    /\ optop \in 0 .. StackWords
    /\ tags \in Seq(Tags) /\ Len(tags) = optop
    /\ Paired(tags)
    /\ ReferencesRight

HeapOK ==
    /\ heap \in Seq(Block) /\ Len(heap) <= MaxArrays
    /\ types \in Seq(Types) /\ Len(types) = Len(heap)
    /\ kept \in Seq(Seq(Int)) /\ Len(kept) = Len(heap)
    /\ \A a \in DOMAIN heap : Len(kept[a]) = heap[a].length
    /\ BlocksFit

RestOK ==
    /\ vm \in {"running", "aborted", "undefined"}
    /\ local \in WordValues
    /\ branch \in BOOLEAN
    /\ left \in 0 .. Budget

IInv == StackOK /\ HeapOK /\ RestOK /\ UndefinedOnlyInDivision

LEMMA InvariantParts ==
    IInv <=> TypeOK /\ ReferencesRight /\ BlocksFit /\ UndefinedOnlyInDivision
<1>1. ASSUME tags \in Seq(Tags), Len(tags) = optop
      PROVE  /\ Paired(tags) <=>
                  \A p \in 1 .. optop :
                     /\ tags[p] = "low" => p < optop /\ tags[p + 1] = "high"
                     /\ tags[p] = "high" => p > 1 /\ tags[p - 1] = "low"
    BY <1>1 DEF Paired
<1>2. IInv => TypeOK /\ ReferencesRight /\ BlocksFit /\ UndefinedOnlyInDivision
    BY <1>1, Zenon DEF IInv, StackOK, HeapOK, RestOK, TypeOK
<1>3. TypeOK /\ ReferencesRight /\ BlocksFit /\ UndefinedOnlyInDivision => IInv
    BY <1>1, Zenon DEF IInv, StackOK, HeapOK, RestOK, TypeOK
<1> QED
    BY <1>2, <1>3

LEMMA ConcatPaired ==
    ASSUME NEW s \in Seq(Tags), NEW t \in Seq(Tags), Paired(s), Paired(t)
    PROVE  /\ s \o t \in Seq(Tags) /\ Len(s \o t) = Len(s) + Len(t)
           /\ Paired(s \o t)
<1>1. PICK m \in Nat : m = Len(s)
    OBVIOUS
<1>2. PICK n \in Nat : n = Len(t)
    OBVIOUS
<1>3. /\ s \o t \in Seq(Tags) /\ Len(s \o t) = m + n
      /\ \A p \in 1 .. m + n : (s \o t)[p] = IF p <= m THEN s[p] ELSE t[p - m]
    BY <1>1, <1>2, ConcatProperties
<1>4. ASSUME NEW u, u = s \o t, NEW p \in 1 .. m + n
      PROVE  /\ u[p] = "low" => p < m + n /\ u[p + 1] = "high"
             /\ u[p] = "high" => p > 1 /\ u[p - 1] = "low"
    <2>0. \A x \in 1 .. m + n : u[x] = IF x <= m THEN s[x] ELSE t[x - m]
        BY <1>3, <1>4
    <2>1. CASE p <= m
        <3>1. /\ s[p] = "low" => p < m /\ s[p + 1] = "high"
              /\ s[p] = "high" => p > 1 /\ s[p - 1] = "low"
            BY <1>1, <2>1 DEF Paired
        <3> QED
            BY <2>0, <2>1, <3>1
    <2>2. CASE p > m
        <3>1. PICK q \in 1 .. n : q = p - m
            BY <2>2
        <3>2. /\ t[q] = "low" => q < n /\ t[q + 1] = "high"
              /\ t[q] = "high" => q > 1 /\ t[q - 1] = "low"
            BY <1>2 DEF Paired
        <3>3. u[p] = t[q]
            BY <2>0, <2>2, <3>1
        <3>4. q < n => p + 1 \in 1 .. m + n /\ ~ (p + 1 <= m) /\ (p + 1) - m = q + 1
            BY <3>1
        <3>5. q > 1 => p - 1 \in 1 .. m + n /\ ~ (p - 1 <= m) /\ (p - 1) - m = q - 1
            BY <3>1
        <3>6. q < n => u[p + 1] = t[q + 1]
            BY <2>0, <3>4
        <3>7. q > 1 => u[p - 1] = t[q - 1]
            BY <2>0, <3>5
        <3> QED
            BY <3>1, <3>2, <3>3, <3>6, <3>7
    <2> QED
        BY <2>1, <2>2
<1> QED
    BY <1>1, <1>2, <1>3, <1>4 DEF Paired

\* A piece of the stack between two boundaries of values.
LEMMA SegmentPaired ==
    ASSUME NEW s \in Seq(Tags), Paired(s), NEW a \in 0 .. Len(s), NEW b \in a .. Len(s),
           a < Len(s) => s[a + 1] # "high",
           b < Len(s) => s[b + 1] # "high"
    PROVE  /\ SubSeq(s, a + 1, b) \in Seq(Tags) /\ Len(SubSeq(s, a + 1, b)) = b - a
           /\ \A p \in 1 .. b - a : SubSeq(s, a + 1, b)[p] = s[a + p]
           /\ Paired(SubSeq(s, a + 1, b))
<1>1. PICK n \in Nat : n = Len(s)
    OBVIOUS
<1>2. /\ SubSeq(s, a + 1, b) \in Seq(Tags) /\ Len(SubSeq(s, a + 1, b)) = b - a
      /\ \A p \in 1 .. b - a : SubSeq(s, a + 1, b)[p] = s[a + p]
    <2>1. a + 1 \in Int /\ b \in Int
        BY <1>1
    <2>2. \A p \in a + 1 .. b : s[p] \in Tags
        BY <1>1
    <2>3. /\ SubSeq(s, a + 1, b) \in Seq(Tags)
          /\ Len(SubSeq(s, a + 1, b)) = IF a + 1 <= b THEN b - (a + 1) + 1 ELSE 0
          /\ \A p \in 1 .. b - (a + 1) + 1 : SubSeq(s, a + 1, b)[p] = s[(a + 1) + p - 1]
        BY <2>1, <2>2, SubSeqProperties
    <2>4. \A p \in 1 .. b - a : (a + 1) + p - 1 = a + p /\ p \in 1 .. b - (a + 1) + 1
        BY <1>1
    <2> QED
        BY <1>1, <2>3, <2>4
<1>3. ASSUME NEW u, u = SubSeq(s, a + 1, b), NEW p \in 1 .. b - a
      PROVE  /\ u[p] = "low" => p < b - a /\ u[p + 1] = "high"
             /\ u[p] = "high" => p > 1 /\ u[p - 1] = "low"
    <2>1. \A x \in 1 .. b - a : u[x] = s[a + x]
        BY <1>2, <1>3
    <2>2. PICK q \in 1 .. n : q = a + p
        BY <1>1
    <2>3. /\ s[q] = "low" => q < n /\ s[q + 1] = "high"
          /\ s[q] = "high" => q > 1 /\ s[q - 1] = "low"
        BY <1>1 DEF Paired
    <2>4. p < b - a => p + 1 \in 1 .. b - a /\ a + (p + 1) = q + 1
        BY <1>1, <2>2
    <2>5. p > 1 => p - 1 \in 1 .. b - a /\ a + (p - 1) = q - 1
        BY <1>1, <2>2
    <2>6. ~ (p < b - a) => q = b
        BY <1>1, <2>2
    <2>7. ~ (p > 1) => q = a + 1
        BY <1>1, <2>2
    <2>8. u[p] = s[q]
        BY <2>1, <2>2
    <2>9. u[p] = "low" => p < b - a /\ u[p + 1] = "high"
        <3> SUFFICES ASSUME u[p] = "low" PROVE p < b - a /\ u[p + 1] = "high"
            OBVIOUS
        <3>1. q < n /\ s[q + 1] = "high"
            BY <2>3, <2>8
        <3>2. p < b - a
            BY <1>1, <2>6, <3>1
        <3>3. u[p + 1] = s[a + (p + 1)]
            BY <2>1, <2>4, <3>2
        <3> QED
            BY <2>4, <3>1, <3>2, <3>3
    <2>10. u[p] = "high" => p > 1 /\ u[p - 1] = "low"
        <3> SUFFICES ASSUME u[p] = "high" PROVE p > 1 /\ u[p - 1] = "low"
            OBVIOUS
        <3>1. q > 1 /\ s[q - 1] = "low" /\ s[q] = "high"
            BY <2>3, <2>8
        <3>2. p > 1
            BY <1>1, <2>2, <2>7, <3>1
        <3>3. u[p - 1] = s[a + (p - 1)]
            BY <2>1, <2>5, <3>2
        <3> QED
            BY <2>5, <3>1, <3>2, <3>3
    <2> QED
        BY <2>9, <2>10
<1> QED
    BY <1>1, <1>2, <1>3 DEF Paired

\* RefersTo, for the arrays of any state.
RefersIn(h, ty, t, a) == a = NullAddress \/ (a \in DOMAIN h /\ ty[a] = t)

\* A stack m on which the words ts replace the n words on top.
Fits(n, m, ts) ==
    /\ n \in 0 .. optop /\ Boundary(n)
    /\ ts \in Seq(Tags) /\ Paired(ts)
    /\ (optop - n) + Len(ts) <= StackWords
    /\ m \in [1 .. StackWords -> WordValues]
    /\ \A p \in 1 .. optop - n : m[p] = mem[p]

LEMMA StackKeeps ==
    ASSUME StackOK, NEW n, NEW ts, Fits(n, mem', ts),
           \A j \in 1 .. Len(ts) :
               ts[j] \in Types => RefersIn(heap', types', ts[j], mem'[(optop - n) + j]),
           \A t, a : RefersIn(heap, types, t, a) => RefersIn(heap', types', t, a),
           optop' = (optop - n) + Len(ts), Retag(n, ts)
    PROVE  StackOK'
<1>1. PICK d \in Nat : d = optop - n
    BY DEF Fits, StackOK
<1>2. PICK l \in Nat : l = Len(ts)
    BY DEF Fits
<1>3. /\ tags \in Seq(Tags) /\ Len(tags) = optop /\ optop \in Nat /\ d \in 0 .. optop
      /\ Paired(tags) /\ n \in 0 .. optop
    BY <1>1 DEF Fits, StackOK
<1>4. d < Len(tags) => tags[d + 1] # "high"
    <2>1. (optop - n) + 1 = d + 1 /\ (d < optop => n > 0)
        BY <1>1, <1>3
    <2> QED
        BY <1>3, <2>1 DEF Fits, Boundary
<1> DEFINE rest == SubSeq(tags, 1, d)
<1>5. /\ rest \in Seq(Tags) /\ Len(rest) = d /\ Paired(rest)
      /\ \A p \in 1 .. d : rest[p] = tags[p]
    <2>1. 0 \in 0 .. Len(tags) /\ d \in 0 .. Len(tags)
        BY <1>3
    <2>2. tags # << >> => tags[1] # "high"
        <3> SUFFICES ASSUME tags # << >>, tags[1] = "high" PROVE FALSE
            OBVIOUS
        <3>1. 1 \in 1 .. Len(tags)
            BY <1>3
        <3> QED
            BY <1>3, <3>1 DEF Paired
    <2>3. 0 < Len(tags) => tags[0 + 1] # "high"
        BY <1>3, <2>2
    <2>4. /\ SubSeq(tags, 0 + 1, d) \in Seq(Tags) /\ Len(SubSeq(tags, 0 + 1, d)) = d - 0
          /\ \A p \in 1 .. d - 0 : SubSeq(tags, 0 + 1, d)[p] = tags[0 + p]
          /\ Paired(SubSeq(tags, 0 + 1, d))
        BY <1>3, <1>4, <2>1, <2>3, SegmentPaired
    <2> QED
        BY <2>4
<1>6. tags' = rest \o ts
    BY <1>1, <1>3 DEF Retag
<1> HIDE DEF rest
<1>7. ts \in Seq(Tags) /\ Paired(ts)
    BY DEF Fits
<1>8. tags' \in Seq(Tags) /\ Len(tags') = d + l /\ Paired(tags')
    BY <1>2, <1>5, <1>6, <1>7, ConcatPaired
<1>9. \A p \in 1 .. d + l : tags'[p] = IF p <= d THEN tags[p] ELSE ts[p - d]
    <2>1. rest \in Seq(Tags) /\ ts \in Seq(Tags)
        BY <1>5, <1>7
    <2>2. \A p \in 1 .. Len(rest) + Len(ts) :
              (rest \o ts)[p] = IF p <= Len(rest) THEN rest[p] ELSE ts[p - Len(rest)]
        BY ONLY <2>1, ConcatProperties
    <2>3. \A p \in 1 .. d + l : (rest \o ts)[p] = IF p <= d THEN rest[p] ELSE ts[p - d]
        BY <1>2, <1>5, <2>2
    <2> SUFFICES ASSUME NEW p \in 1 .. d + l
                 PROVE  tags'[p] = IF p <= d THEN tags[p] ELSE ts[p - d]
        OBVIOUS
    <2>4. tags'[p] = IF p <= d THEN rest[p] ELSE ts[p - d]
        BY <1>6, <2>3
    <2>5. p <= d => rest[p] = tags[p]
        BY <1>5
    <2> QED
        BY <2>4, <2>5
<1>10. ASSUME NEW p \in 1 .. d + l, tags'[p] \in Types
       PROVE  RefersIn(heap', types', tags'[p], mem'[p])
    <2>1. CASE p <= d
        <3>1. tags'[p] = tags[p] /\ p \in 1 .. d
            BY <1>9, <2>1
        <3>2. p \in 1 .. optop
            BY <1>3, <3>1
        <3>3. mem'[p] = mem[p]
            BY <1>1, <3>1 DEF Fits
        <3>4. RefersIn(heap, types, tags[p], mem[p])
            BY <1>10, <3>1, <3>2 DEF StackOK, ReferencesRight, RefersTo, RefersIn
        <3> QED
            BY <3>1, <3>3, <3>4
    <2>2. CASE p > d
        <3>1. PICK j \in 1 .. l : j = p - d /\ p = d + j
            BY <2>2
        <3>2. tags'[p] = ts[j]
            BY <1>9, <2>2, <3>1
        <3> QED
            BY <1>1, <1>2, <1>10, <3>1, <3>2
    <2> QED
        BY <2>1, <2>2
<1>11. optop' = d + l /\ d + l <= StackWords
    BY <1>1, <1>2 DEF Fits
<1>12. ReferencesRight'
    BY <1>10, <1>11 DEF ReferencesRight, RefersTo, RefersIn
<1>13. mem' \in [1 .. StackWords -> WordValues]
    BY DEF Fits
<1>14. optop' \in 0 .. StackWords
    BY <1>11, OperationsAssumption
<1> QED
    BY <1>8, <1>11, <1>12, <1>13, <1>14 DEF StackOK

LEMMA ReplaceKeeps ==
    ASSUME IInv, vm = "running", NEW n, NEW m, NEW ts, Fits(n, m, ts), Replace(n, m, ts),
           \A j \in 1 .. Len(ts) : ts[j] \in Types => RefersTo(ts[j], m[(optop - n) + j]),
           left' \in 0 .. Budget
    PROVE  IInv'
<1>1. /\ mem' = m /\ Retag(n, ts)
      /\ UNCHANGED <<vm, local, heap, branch, types, kept>>
    BY DEF Replace
<1>2. optop' = (optop - n) + Len(ts)
    BY DEF Replace
<1>3. StackOK /\ HeapOK /\ RestOK
    BY DEF IInv
<1>4. \A j \in 1 .. Len(ts) :
          ts[j] \in Types => RefersIn(heap', types', ts[j], mem'[(optop - n) + j])
    BY <1>1 DEF RefersTo, RefersIn
<1>5. \A t, a : RefersIn(heap, types, t, a) => RefersIn(heap', types', t, a)
    BY <1>1 DEF RefersIn
<1>6. Fits(n, mem', ts)
    BY <1>1
<1>7. StackOK'
    BY <1>1, <1>2, <1>3, <1>4, <1>5, <1>6, StackKeeps
<1>8. HeapOK'
    BY <1>1, <1>3 DEF HeapOK, BlocksFit
<1>9. RestOK'
    BY <1>1, <1>3 DEF RestOK
<1>10. UndefinedOnlyInDivision'
    BY <1>1 DEF UndefinedOnlyInDivision
<1> QED
    BY <1>7, <1>8, <1>9, <1>10 DEF IInv

LEMMA AbortKeeps ==
    ASSUME IInv, Abort, left' \in 0 .. Budget
    PROVE  IInv'
<1>1. vm' = "aborted" /\ UNCHANGED <<mem, optop, local, heap, branch, tags, types, kept>>
    BY DEF Abort, history
<1>2. StackOK' /\ HeapOK'
    BY <1>1 DEF IInv, StackOK, HeapOK, BlocksFit, ReferencesRight, RefersTo
<1>3. RestOK' /\ UndefinedOnlyInDivision'
    BY <1>1 DEF IInv, RestOK, UndefinedOnlyInDivision
<1> QED
    BY <1>2, <1>3 DEF IInv

LEMMA SpendKeeps ==
    ASSUME IInv, NEW cost \in {0, CheapCost, CopyCost, OtherCost}, Spend(cost)
    PROVE  left' \in 0 .. Budget
<1>1. Budget \in Nat \ {0} /\ left \in 0 .. Budget
    BY OperationsAssumption DEF IInv, RestOK
<1> QED
    BY <1>1 DEF Spend, CheapCost, CopyCost, OtherCost

LEMMA ReverseShape ==
    ASSUME NEW s \in Seq(Tags)
    PROVE  /\ Reverse(s) \in [1 .. Len(s) -> Tags] /\ Len(Reverse(s)) = Len(s)
           /\ \A j \in 1 .. Len(s) : Reverse(s)[j] = s[(Len(s) - j) + 1]
BY DEF Reverse

\* What a guard says of the words on top.
LEMMA CheckedTags ==
    ASSUME StackOK, NEW ts \in Seq(Tags), Checked(ts)
    PROVE  /\ vm = "running"
           /\ Len(ts) \in 0 .. optop
           /\ \A j \in 1 .. Len(ts) : tags[(optop - Len(ts)) + j] = ts[j]
<1>1. PICK l \in Nat : l = Len(ts)
    OBVIOUS
<1>2. PICK n \in Nat : n = Len(tags) /\ n = optop
    BY DEF StackOK
<1>3. tags \in Seq(Tags)
    BY DEF StackOK
<1>4. IsPrefix(Reverse(ts), Reverse(tags))
    BY DEF Checked, IsSuffix
<1>5. /\ Reverse(ts) \in [1 .. l -> Tags] /\ Len(Reverse(ts)) = l
      /\ \A j \in 1 .. l : Reverse(ts)[j] = ts[(l - j) + 1]
    BY <1>1, ReverseShape
<1>6. /\ Reverse(tags) \in [1 .. n -> Tags] /\ Len(Reverse(tags)) = n
      /\ \A j \in 1 .. n : Reverse(tags)[j] = tags[(n - j) + 1]
    BY <1>2, <1>3, ReverseShape
<1>7. l <= n /\ SubSeq(Reverse(ts), 1, l) = SubSeq(Reverse(tags), 1, l)
    BY <1>4, <1>5, <1>6 DEF IsPrefix
<1>8. ASSUME NEW j \in 1 .. l PROVE ts[(l - j) + 1] = tags[(n - j) + 1]
    <2>1. SubSeq(Reverse(ts), 1, l)[j] = Reverse(ts)[j]
        BY <1>5
    <2>2. SubSeq(Reverse(tags), 1, l)[j] = Reverse(tags)[j]
        BY <1>6, <1>7
    <2> QED
        BY <1>5, <1>6, <1>7, <2>1, <2>2
<1>9. ASSUME NEW j \in 1 .. l PROVE tags[(n - l) + j] = ts[j]
    <2>1. PICK i \in 1 .. l : i = (l - j) + 1
        OBVIOUS
    <2>2. (l - i) + 1 = j /\ (n - i) + 1 = (n - l) + j
        BY <2>1, <1>7
    <2> QED
        BY <1>8, <2>2
<1> QED
    BY <1>1, <1>2, <1>7, <1>9 DEF Checked

Sizes == {Four, Eight}

LEMMA WriteTyped ==
    ASSUME NEW m \in [1 .. StackWords -> WordValues], m = mem,
           NEW k \in Sizes, NEW p \in Nat \ {0}, NEW v \in Int,
           (p + WordsOf(k)) - 1 <= StackWords
    PROVE  /\ Write(k, p, v) \in [1 .. StackWords -> WordValues]
           /\ \A q \in 1 .. p - 1 : Write(k, p, v)[q] = mem[q]
<1>1. U(Four, v) \in WordValues /\ U(Eight, v) \div Values(Four) \in WordValues
    BY WordsTyped
<1>2. StackWords \in Nat
    BY OperationsAssumption
<1>3. CASE k = Four
    <2>1. WordsOf(k) = 1
        BY <1>3 DEF WordsOf, Four
    <2>2. p \in 1 .. StackWords
        BY <1>2, <2>1
    <2>3. Write(k, p, v) = [mem EXCEPT ![p] = U(Four, v)]
        BY <1>3 DEF Write
    <2> QED
        BY <1>1, <2>2, <2>3
<1>4. CASE k = Eight
    <2>1. WordsOf(k) = 2 /\ k # Four
        BY <1>4 DEF WordsOf, Eight, Four
    <2>2. p \in 1 .. StackWords /\ p + 1 \in 1 .. StackWords
        BY <1>2, <2>1
    <2>3. Write(k, p, v) = [mem EXCEPT ![p] = U(Four, v), ![p + 1] = U(Eight, v) \div Values(Four)]
        BY <2>1 DEF Write
    <2>4. PICK a \in WordValues, b \in WordValues :
              a = U(Four, v) /\ b = U(Eight, v) \div Values(Four)
        BY <1>1
    <2>5. PICK w : w = Write(k, p, v) /\ w = [mem EXCEPT ![p] = a, ![p + 1] = b]
        BY <2>3, <2>4
    <2>6. w \in [1 .. StackWords -> WordValues]
        BY <2>2, <2>5
    <2>7. ASSUME NEW q \in 1 .. p - 1 PROVE w[q] = mem[q]
        <3>1. q \in 1 .. StackWords /\ q # p /\ q # p + 1
            BY <1>2, <2>2
        <3> QED
            BY <2>5, <3>1
    <2> QED
        BY <2>5, <2>6, <2>7
<1> QED
    BY <1>3, <1>4 DEF Sizes

LEMMA ReadTyped ==
    ASSUME StackOK, NEW k \in Sizes, NEW p \in Nat \ {0}, (p + WordsOf(k)) - 1 <= StackWords
    PROVE  Read(k, p) \in 0 .. Values(k) - 1 /\ Read(k, p) \in Int
<1>1. StackWords \in Nat /\ mem \in [1 .. StackWords -> WordValues]
    BY OperationsAssumption DEF StackOK
<1>2. CASE k = Four
    <2>1. WordsOf(k) = 1
        BY <1>2 DEF WordsOf, Four
    <2>2. mem[p] \in WordValues
        BY <1>1, <2>1
    <2> QED
        BY <1>2, <2>2 DEF Read, WordValues
<1>3. CASE k = Eight
    <2>1. WordsOf(k) = 2 /\ k # Four
        BY <1>3 DEF WordsOf, Eight, Four
    <2>2. mem[p] \in WordValues /\ mem[p + 1] \in WordValues
        BY <1>1, <2>1
    <2>3. mem[p] + Values(Four) * mem[p + 1] \in 0 .. Values(Eight) - 1
        BY <2>2, TwoWordsTyped
    <2>4. Read(k, p) = mem[p] + Values(Four) * mem[p + 1]
        BY <2>1 DEF Read
    <2>5. 0 .. Values(Eight) - 1 \subseteq Int
        OBVIOUS
    <2> QED
        BY <1>3, <2>3, <2>4, <2>5
<1> QED
    BY <1>2, <1>3 DEF Sizes

LEMMA TagsTyped ==
    /\ <<"int">> \in Seq(Tags) /\ Paired(<<"int">>)
    /\ <<"low", "high">> \in Seq(Tags) /\ Paired(<<"low", "high">>)
    /\ << >> \in Seq(Tags) /\ Paired(<< >>)
    /\ \A t \in Types : <<t>> \in Seq(Tags) /\ Paired(<<t>>)
    /\ \A k \in Sizes : /\ TagsOf(k) \in Seq(Tags) /\ Paired(TagsOf(k))
                         /\ Len(TagsOf(k)) = WordsOf(k) /\ WordsOf(k) \in 1 .. 2
                         /\ TagsOf(k)[1] # "high"
                         /\ \A j \in 1 .. Len(TagsOf(k)) : TagsOf(k)[j] \notin Types
<1>1. <<"int">> \in Seq(Tags) /\ Paired(<<"int">>)
    BY DEF Tags, Paired
<1>2. <<"low", "high">> \in Seq(Tags) /\ Paired(<<"low", "high">>)
    BY DEF Tags, Paired
<1>3. << >> \in Seq(Tags) /\ Paired(<< >>)
    BY DEF Paired
<1>4. ASSUME NEW t \in Types PROVE <<t>> \in Seq(Tags) /\ Paired(<<t>>)
    BY DEF Tags, Types, Paired
<1>5. ASSUME NEW k \in Sizes
      PROVE  /\ TagsOf(k) \in Seq(Tags) /\ Paired(TagsOf(k))
             /\ Len(TagsOf(k)) = WordsOf(k) /\ WordsOf(k) \in 1 .. 2
             /\ TagsOf(k)[1] # "high"
             /\ \A j \in 1 .. Len(TagsOf(k)) : TagsOf(k)[j] \notin Types
    <2>1. CASE k = Four
        BY <1>1, <2>1 DEF TagsOf, WordsOf, Four, Types
    <2>2. CASE k = Eight
        BY <1>2, <2>2 DEF TagsOf, WordsOf, Four, Eight, Types
    <2> QED
        BY <2>1, <2>2 DEF Sizes
<1> QED
    BY <1>1, <1>2, <1>3, <1>4, <1>5

\* The result of an instruction that computes a number of k bytes in the place
\* of the n words on top.
LEMMA NumberFits ==
    ASSUME StackOK, NEW n \in 0 .. optop, Boundary(n), NEW k \in Sizes, NEW v \in Int,
           (optop - n) + WordsOf(k) <= StackWords, NEW p, p = (optop - n) + 1
    PROVE  /\ Fits(n, Write(k, p, v), TagsOf(k))
           /\ \A m : \A j \in 1 .. Len(TagsOf(k)) : TagsOf(k)[j] \in Types =>
                  RefersTo(TagsOf(k)[j], m[(optop - n) + j])
<1>1. PICK d \in Nat : d = optop - n /\ p = d + 1
    BY DEF StackOK
<1>2. /\ TagsOf(k) \in Seq(Tags) /\ Paired(TagsOf(k)) /\ Len(TagsOf(k)) = WordsOf(k)
      /\ WordsOf(k) \in 1 .. 2
      /\ \A j \in 1 .. Len(TagsOf(k)) : TagsOf(k)[j] \notin Types
    BY TagsTyped
<1>3. (p + WordsOf(k)) - 1 <= StackWords /\ p \in Nat \ {0} /\ p - 1 = d
    BY <1>1, <1>2
<1>4. mem \in [1 .. StackWords -> WordValues]
    BY DEF StackOK
<1>5. /\ Write(k, p, v) \in [1 .. StackWords -> WordValues]
      /\ \A q \in 1 .. p - 1 : Write(k, p, v)[q] = mem[q]
    BY <1>3, <1>4, WriteTyped
<1> QED
    BY <1>1, <1>2, <1>3, <1>5 DEF Fits

----------------------------------------------------------------------------
(* Every instruction preserves the invariant: constants, locals, arithmetic. *)

LEMMA NumberKeeps ==
    ASSUME IInv, vm = "running", NEW n \in 0 .. optop, Boundary(n), NEW k \in Sizes,
           NEW v \in Int, (optop - n) + WordsOf(k) <= StackWords,
           NEW p, p = (optop - n) + 1,
           Replace(n, Write(k, p, v), TagsOf(k)), left' \in 0 .. Budget
    PROVE  IInv'
<1>1. StackOK
    BY DEF IInv
<1>2. /\ Fits(n, Write(k, p, v), TagsOf(k))
      /\ \A m : \A j \in 1 .. Len(TagsOf(k)) : TagsOf(k)[j] \in Types =>
             RefersTo(TagsOf(k)[j], m[(optop - n) + j])
    BY <1>1, NumberFits
<1> QED
    BY <1>2, ReplaceKeeps

\* Guards end at a boundary of values.
LEMMA CheckedBoundary ==
    ASSUME StackOK, NEW ts \in Seq(Tags), Checked(ts), ts # << >>, ts[1] # "high"
    PROVE  Boundary(Len(ts)) /\ vm = "running" /\ Len(ts) \in 1 .. optop
<1>1. PICK l \in Nat \ {0} : l = Len(ts)
    OBVIOUS
<1>2. PICK n \in Nat : n = Len(tags) /\ n = optop
    BY DEF StackOK
<1>3. /\ vm = "running" /\ l \in 0 .. n
      /\ \A j \in 1 .. l : tags[(n - l) + j] = ts[j]
    BY <1>1, <1>2, CheckedTags
<1>4. tags[(n - l) + 1] # "high"
    BY <1>3
<1> QED
    BY <1>1, <1>2, <1>3, <1>4 DEF Boundary

LEMMA TwoOperands ==
    ASSUME NEW k \in Sizes
    PROVE  /\ TagsOf(k) \o TagsOf(k) \in Seq(Tags)
           /\ Len(TagsOf(k) \o TagsOf(k)) = 2 * WordsOf(k)
           /\ TagsOf(k) \o TagsOf(k) # << >>
           /\ (TagsOf(k) \o TagsOf(k))[1] # "high"
           /\ TagsOf(k) \o <<"int">> \in Seq(Tags)
           /\ Len(TagsOf(k) \o <<"int">>) = WordsOf(k) + 1
           /\ TagsOf(k) \o <<"int">> # << >>
           /\ (TagsOf(k) \o <<"int">>)[1] # "high"
           /\ TagsOf(k) # << >>
<1>1. /\ TagsOf(k) \in Seq(Tags) /\ Len(TagsOf(k)) = WordsOf(k) /\ WordsOf(k) \in 1 .. 2
      /\ TagsOf(k)[1] # "high" /\ <<"int">> \in Seq(Tags)
    BY TagsTyped
<1>2. PICK s \in Seq(Tags) : s = TagsOf(k)
    BY <1>1
<1>3. /\ s \o s \in Seq(Tags) /\ Len(s \o s) = Len(s) + Len(s)
      /\ \A i \in 1 .. Len(s) + Len(s) : (s \o s)[i] = IF i <= Len(s) THEN s[i] ELSE s[i - Len(s)]
    BY ConcatProperties
<1>4. PICK t \in Seq(Tags) : t = <<"int">> /\ Len(t) = 1
    BY <1>1
<1>5. /\ s \o t \in Seq(Tags) /\ Len(s \o t) = Len(s) + Len(t)
      /\ \A i \in 1 .. Len(s) + Len(t) : (s \o t)[i] = IF i <= Len(s) THEN s[i] ELSE t[i - Len(s)]
    BY ConcatProperties
<1>6. Len(s) \in 1 .. 2 /\ s[1] # "high"
    BY <1>1, <1>2
<1>7. (s \o s)[1] = s[1] /\ (s \o t)[1] = s[1] /\ s # << >>
    BY <1>3, <1>4, <1>5, <1>6
<1>8. s \o s # << >> /\ s \o t # << >> /\ Len(s \o s) = 2 * WordsOf(k)
      /\ Len(s \o t) = WordsOf(k) + 1
    BY <1>1, <1>2, <1>3, <1>4, <1>5, <1>6
<1> QED
    BY <1>2, <1>3, <1>4, <1>5, <1>6, <1>7, <1>8

LEMMA CalculateKeeps ==
    ASSUME IInv, NEW k \in Sizes, NEW name \in {"add", "sub", "mul", "and", "or", "xor"},
           calculate(name, k)
    PROVE  IInv'
<1>1. StackOK /\ optop \in 0 .. StackWords /\ StackWords \in Nat
    BY OperationsAssumption DEF IInv, StackOK
<1>2. PICK w \in 1 .. 2 : w = WordsOf(k)
    BY TagsTyped
<1>3. Checked(TagsOf(k) \o TagsOf(k))
    BY DEF calculate
<1>4. Boundary(2 * w) /\ vm = "running" /\ 2 * w \in 1 .. optop
    BY <1>1, <1>2, <1>3, TwoOperands, CheckedBoundary
<1>5. /\ First(k) = (optop - 2 * w) + 1 /\ First(k) \in Nat \ {0}
      /\ (First(k) + WordsOf(k)) - 1 <= StackWords
      /\ Second(k) \in Nat \ {0} /\ (Second(k) + WordsOf(k)) - 1 <= StackWords
    BY <1>1, <1>2, <1>4 DEF First, Second
<1>6. PICK a \in Int : a = Read(k, First(k))
    BY <1>1, <1>5, ReadTyped
<1>7. PICK b \in Int : b = Read(k, Second(k))
    BY <1>1, <1>5, ReadTyped
<1>8. k \in Nat
    BY DEF Sizes, Four, Eight
<1>9. Result(name, k, a, b) \in Int
    <2>1. PICK x \in Int : x = S(k, a)
        BY <1>8, CastTyped
    <2>2. PICK y \in Int : y = S(k, b)
        BY <1>8, CastTyped
    <2>3. And(k, a, b) \in Int /\ Or(k, a, b) \in Int /\ Xor(k, a, b) \in Int
        BY <1>8, BitsTyped
    <2>4. x + y \in Int /\ x - y \in Int /\ x * y \in Int
        OBVIOUS
    <2> QED
        BY <2>1, <2>2, <2>3, <2>4 DEF Result
<1>10. left' \in 0 .. Budget
    BY SpendKeeps DEF calculate
<1>11. Replace(2 * w, Write(k, First(k), Result(name, k, a, b)), TagsOf(k))
    BY <1>2, <1>6, <1>7 DEF calculate, Binary
<1>12. (optop - 2 * w) + WordsOf(k) <= StackWords /\ 2 * w \in 0 .. optop
    BY <1>1, <1>2, <1>4
<1> QED
    BY <1>4, <1>5, <1>9, <1>10, <1>11, <1>12, NumberKeeps

LEMMA DivideKeeps ==
    ASSUME IInv, NEW k \in Sizes, NEW name \in {"div", "rem"}, divide(name, k)
    PROVE  IInv'
<1>1. StackOK /\ optop \in 0 .. StackWords /\ StackWords \in Nat
    BY OperationsAssumption DEF IInv, StackOK
<1>2. PICK w \in 1 .. 2 : w = WordsOf(k)
    BY TagsTyped
<1>3. Checked(TagsOf(k) \o TagsOf(k))
    BY DEF divide
<1>4. Boundary(2 * w) /\ vm = "running" /\ 2 * w \in 1 .. optop
    BY <1>1, <1>2, <1>3, TwoOperands, CheckedBoundary
<1>5. /\ First(k) = (optop - 2 * w) + 1 /\ First(k) \in Nat \ {0}
      /\ (First(k) + WordsOf(k)) - 1 <= StackWords
      /\ Second(k) \in Nat \ {0} /\ (Second(k) + WordsOf(k)) - 1 <= StackWords
    BY <1>1, <1>2, <1>4 DEF First, Second
<1>6. PICK a \in Int : a = Read(k, First(k))
    BY <1>1, <1>5, ReadTyped
<1>7. PICK b \in Int : b = Read(k, Second(k)) /\ b \in 0 .. Values(k) - 1
    BY <1>1, <1>5, ReadTyped
<1>8. k \in Nat
    BY DEF Sizes, Four, Eight
<1>10. left' \in 0 .. Budget
    BY SpendKeeps DEF divide
<1>11. CASE b = 0
    <2>1. Abort
        BY <1>6, <1>7, <1>11 DEF divide
    <2> QED
        BY <1>10, <2>1, AbortKeeps
<1>12. CASE b # 0 /\ Binary(k, DivisionResult(name, k, a, b))
    <2>1. PICK x \in Int : x = S(k, a)
        BY <1>8, CastTyped
    <2>2. PICK y \in Int : y = S(k, b) /\ y # 0
        <3>1. Values(k) \in Nat
            BY <1>8, ValuesTyped
        <3>2. b \in 1 .. Values(k) - 1
            BY <1>7, <1>12, <3>1
        <3> QED
            BY <1>8, <3>2, CastTyped
    <2>3. PICK q \in Int : q = Quotient(x, y)
        BY <2>2, QuotientTyped
    <2>4. x - q * y \in Int
        OBVIOUS
    <2>5. DivisionResult(name, k, a, b) \in Int
        BY <2>1, <2>2, <2>3, <2>4 DEF DivisionResult
    <2>6. Replace(2 * w, Write(k, First(k), DivisionResult(name, k, a, b)), TagsOf(k))
        BY <1>2, <1>12 DEF Binary
    <2>7. (optop - 2 * w) + WordsOf(k) <= StackWords /\ 2 * w \in 0 .. optop
        BY <1>1, <1>2, <1>4
    <2> QED
        BY <1>4, <1>5, <1>10, <2>5, <2>6, <2>7, NumberKeeps
<1>13. CASE /\ Overflows(k, a, b)
            /\ vm' = "undefined"
            /\ UNCHANGED <<mem, optop, local, heap, branch, history>>
    <2>1. UNCHANGED <<mem, optop, local, heap, branch, tags, types, kept>> /\ vm' = "undefined"
        BY <1>13 DEF history
    <2>2. StackOK' /\ HeapOK' /\ RestOK'
        BY <1>10, <2>1 DEF IInv, StackOK, HeapOK, RestOK, BlocksFit, ReferencesRight, RefersTo
    <2>3. First(k)' = First(k) /\ Second(k)' = Second(k)
        BY <2>1 DEF First, Second
    <2>4. Read(k, First(k))' = a /\ Read(k, Second(k))' = b
        BY <1>6, <1>7, <2>1, <2>3 DEF Read
    <2>5. op' = <<name, k>>
        BY DEF divide
    <2>6. UndefinedOnlyInDivision'
        BY <1>13, <2>4, <2>5 DEF UndefinedOnlyInDivision, Sizes, Overflows
    <2> QED
        BY <2>2, <2>6 DEF IInv
<1> QED
    BY <1>6, <1>7, <1>11, <1>12, <1>13 DEF divide

LEMMA ShiftKeeps ==
    ASSUME IInv, NEW k \in Sizes, NEW name \in {"shl", "shr", "ushr"}, shift(name, k)
    PROVE  IInv'
<1>1. StackOK /\ optop \in 0 .. StackWords /\ StackWords \in Nat
    BY OperationsAssumption DEF IInv, StackOK
<1>2. PICK w \in 1 .. 2 : w = WordsOf(k)
    BY TagsTyped
<1>3. Checked(TagsOf(k) \o <<"int">>)
    BY DEF shift
<1>4. Boundary(w + 1) /\ vm = "running" /\ w + 1 \in 1 .. optop
    BY <1>1, <1>2, <1>3, TwoOperands, CheckedBoundary
<1>5. PICK p \in Nat \ {0} : p = optop - WordsOf(k) /\ (p + WordsOf(k)) - 1 <= StackWords
    BY <1>1, <1>2, <1>4
<1>6. PICK a \in Int : a = Read(k, p)
    BY <1>1, <1>5, ReadTyped
<1>7. mem[optop] \in Int
    <2>1. optop \in 1 .. StackWords
        BY <1>1, <1>4
    <2> QED
        BY <1>1, <2>1 DEF StackOK, WordValues
<1>8. k \in Nat \ {0}
    BY DEF Sizes, Four, Eight
<1>9. PICK n \in Nat : n = Distance(k, mem[optop]) /\ n < Bits(k)
    BY <1>7, <1>8, DistanceTyped
<1>10. ShiftResult(name, k, a, n) \in Int
    <2>1. PICK x \in Int : x = S(k, a)
        BY <1>8, CastTyped
    <2>2. ShiftRight(x, n) \in Int /\ ShiftRight(a, n) \in Int /\ ShiftLeft(k, a, n) \in Int
        BY <1>8, <1>9, ShiftTyped
    <2> QED
        BY <2>1, <2>2 DEF ShiftResult
<1>11. left' \in 0 .. Budget
    BY SpendKeeps DEF shift
<1>12. Replace(w + 1, Write(k, p, ShiftResult(name, k, a, n)), TagsOf(k))
    BY <1>2, <1>5, <1>6, <1>9 DEF shift
<1>13. /\ (optop - (w + 1)) + WordsOf(k) <= StackWords /\ w + 1 \in 0 .. optop
       /\ p = (optop - (w + 1)) + 1
    BY <1>1, <1>2, <1>4, <1>5
<1> QED
    BY <1>4, <1>10, <1>11, <1>12, <1>13, NumberKeeps

LEMMA NegateKeeps ==
    ASSUME IInv, NEW k \in Sizes, negate(k)
    PROVE  IInv'
<1>1. StackOK /\ optop \in 0 .. StackWords /\ StackWords \in Nat
    BY OperationsAssumption DEF IInv, StackOK
<1>2. PICK w \in 1 .. 2 : w = WordsOf(k)
    BY TagsTyped
<1>3. Checked(TagsOf(k))
    BY DEF negate
<1>4. Boundary(w) /\ vm = "running" /\ w \in 1 .. optop
    BY <1>1, <1>2, <1>3, TagsTyped, TwoOperands, CheckedBoundary
<1>5. PICK p \in Nat \ {0} :
          /\ p = Second(k) /\ p = (optop - w) + 1 /\ (p + WordsOf(k)) - 1 <= StackWords
    BY <1>1, <1>2, <1>4 DEF Second
<1>6. PICK a \in Int : a = Read(k, p)
    BY <1>1, <1>5, ReadTyped
<1>7. PICK x \in Int : x = S(k, a)
    <2>1. k \in Nat
        BY DEF Sizes, Four, Eight
    <2> QED
        BY <2>1, CastTyped
<1>8. left' \in 0 .. Budget
    BY SpendKeeps DEF negate
<1>9. - x \in Int
    OBVIOUS
<1>10. Replace(w, Write(k, p, - x), TagsOf(k))
    BY <1>2, <1>5, <1>6, <1>7 DEF negate
<1>11. (optop - w) + WordsOf(k) <= StackWords /\ w \in 0 .. optop
    BY <1>1, <1>2, <1>4
<1> QED
    BY <1>4, <1>5, <1>8, <1>9, <1>10, <1>11, NumberKeeps

\* The integer on top.
LEMMA OneInt ==
    ASSUME IInv, Checked(<<"int">>)
    PROVE  /\ Boundary(1) /\ vm = "running" /\ optop \in 1 .. StackWords
           /\ mem[optop] \in Int /\ mem[optop] \in WordValues
<1>1. StackOK /\ optop \in 0 .. StackWords /\ StackWords \in Nat
    BY OperationsAssumption DEF IInv, StackOK
<1>2. PICK t \in Seq(Tags) : t = <<"int">> /\ Len(t) = 1 /\ t # << >> /\ t[1] # "high"
    BY TagsTyped
<1>3. Boundary(1) /\ vm = "running" /\ 1 \in 1 .. optop
    BY <1>1, <1>2, CheckedBoundary
<1>4. optop \in 1 .. StackWords
    BY <1>1, <1>3
<1>5. mem[optop] \in WordValues
    BY <1>1, <1>4 DEF StackOK
<1> QED
    BY <1>3, <1>4, <1>5 DEF WordValues

LEMMA IincKeeps ==
    ASSUME IInv, iinc
    PROVE  IInv'
<1>1. /\ vm = "running" /\ vm' = vm
      /\ UNCHANGED <<mem, optop, heap, branch, tags, types, kept>>
    BY DEF iinc, history
<1>2. StackOK' /\ HeapOK'
    BY <1>1 DEF IInv, StackOK, HeapOK, BlocksFit, ReferencesRight, RefersTo
<1>3. PICK d \in Increments : local' = U(Four, S(Four, local) + d)
    BY DEF iinc
<1>4. PICK e \in Int : e = d
    BY OperationsAssumption
<1>5. local \in Int
    BY DEF IInv, RestOK, WordValues
<1>6. PICK x \in Int : x = S(Four, local)
    BY <1>5, CastTyped DEF Four
<1>7. local' \in WordValues
    <2>1. x + e \in Int
        OBVIOUS
    <2>2. U(Four, x + e) \in WordValues
        BY <2>1, WordsTyped
    <2> QED
        BY <1>3, <1>4, <1>6, <2>2
<1>8. left' \in 0 .. Budget
    BY SpendKeeps DEF iinc
<1>9. RestOK' /\ UndefinedOnlyInDivision'
    BY <1>1, <1>7, <1>8 DEF IInv, RestOK, UndefinedOnlyInDivision
<1> QED
    BY <1>2, <1>9 DEF IInv

LEMMA ConversionsKeep ==
    ASSUME IInv,
           \/ i2l \/ l2i \/ lcmp
           \/ \E name \in {"int2byte", "int2char", "int2short"} : narrow(name)
    PROVE  IInv'
<1>1. StackOK /\ optop \in 0 .. StackWords /\ StackWords \in Nat
    BY OperationsAssumption DEF IInv, StackOK
<1>2. /\ Four \in Sizes /\ Eight \in Sizes /\ WordsOf(Four) = 1 /\ WordsOf(Eight) = 2
      /\ TagsOf(Four) = <<"int">> /\ TagsOf(Eight) = <<"low", "high">>
    BY DEF Sizes, WordsOf, TagsOf, Four, Eight
<1>3. left' \in 0 .. Budget
    BY SpendKeeps DEF i2l, l2i, lcmp, narrow
<1>4. CASE i2l
    <2>1. Boundary(1) /\ vm = "running" /\ optop \in 1 .. StackWords /\ mem[optop] \in Int
        BY <1>4, OneInt DEF i2l
    <2>2. PICK v \in Int : v = S(Four, mem[optop])
        BY <2>1, CastTyped DEF Four
    <2>3. Replace(1, Write(Eight, optop, v), TagsOf(Eight)) /\ optop + 1 <= StackWords
        BY <1>2, <1>4, <2>2 DEF i2l
    <2>4. 1 \in 0 .. optop /\ optop = (optop - 1) + 1 /\ (optop - 1) + WordsOf(Eight) <= StackWords
        BY <1>1, <1>2, <2>1, <2>3
    <2> QED
        BY <1>2, <1>3, <2>1, <2>3, <2>4, NumberKeeps
<1>5. CASE \E name \in {"int2byte", "int2char", "int2short"} : narrow(name)
    <2>1. PICK name \in {"int2byte", "int2char", "int2short"} : narrow(name)
        BY <1>5
    <2>2. Boundary(1) /\ vm = "running" /\ optop \in 1 .. StackWords /\ mem[optop] \in Int
        BY <2>1, OneInt DEF narrow
    <2>3. /\ S(One, mem[optop]) \in Int /\ S(Two, mem[optop]) \in Int
          /\ U(Two, mem[optop]) \in 0 .. Values(Two) - 1
        BY <2>2, CastTyped DEF One, Two
    <2>4. PICK v \in Int : v = Narrowed(name, mem[optop])
        BY <2>3 DEF Narrowed
    <2>5. Replace(1, Write(Four, optop, v), TagsOf(Four))
        BY <1>2, <2>1, <2>4 DEF narrow
    <2>6. 1 \in 0 .. optop /\ optop = (optop - 1) + 1 /\ (optop - 1) + WordsOf(Four) <= StackWords
        BY <1>1, <1>2, <2>2
    <2> QED
        BY <1>2, <1>3, <2>2, <2>5, <2>6, NumberKeeps
<1>6. CASE l2i
    <2>1. Checked(<<"low", "high">>) /\ Replace(2, mem, <<"int">>)
        BY <1>6 DEF l2i
    <2>2. PICK t \in Seq(Tags) : t = <<"low", "high">> /\ Len(t) = 2 /\ t # << >> /\ t[1] # "high"
        BY TagsTyped
    <2>3. Boundary(2) /\ vm = "running" /\ 2 \in 1 .. optop
        BY <1>1, <2>1, <2>2, CheckedBoundary
    <2>4. <<"int">> \in Seq(Tags) /\ Paired(<<"int">>) /\ Len(<<"int">>) = 1
        BY TagsTyped
    <2>5. Fits(2, mem, <<"int">>)
        BY <1>1, <2>3, <2>4 DEF Fits, StackOK
    <2>6. \A j \in 1 .. Len(<<"int">>) : <<"int">>[j] \notin Types
        BY DEF Types
    <2> QED
        BY <1>3, <2>1, <2>3, <2>5, <2>6, ReplaceKeeps
<1>7. CASE lcmp
    <2>1. Checked(<<"low", "high", "low", "high">>)
        BY <1>7 DEF lcmp
    <2>9. PICK t : t = <<"low", "high", "low", "high">>
        OBVIOUS
    <2>10. "low" \in Tags /\ "high" \in Tags
        BY DEF Tags
    <2>2. t \in Seq(Tags) /\ Len(t) = 4 /\ t # << >> /\ t[1] # "high"
        <3>1. t \in Seq(Tags)
            BY <2>9, <2>10
        <3>2. Len(t) = 4 /\ t[1] = "low"
            BY <2>9
        <3> QED
            BY <3>1, <3>2
    <2>3. Boundary(4) /\ vm = "running" /\ 4 \in 1 .. optop
        BY <1>1, <2>1, <2>9, <2>2, CheckedBoundary
    <2>4. PICK a : a = S(Eight, Read(Eight, First(Eight)))
        OBVIOUS
    <2>5. PICK b : b = S(Eight, Read(Eight, Second(Eight)))
        OBVIOUS
    <2>6. PICK v \in Int : v = IF a > b THEN 1 ELSE IF a < b THEN -1 ELSE 0
        OBVIOUS
    <2>7. Replace(4, Write(Four, optop - 3, v), TagsOf(Four))
        BY <1>2, <1>7, <2>4, <2>5, <2>6 DEF lcmp
    <2>8. 4 \in 0 .. optop /\ optop - 3 = (optop - 4) + 1 /\ (optop - 4) + WordsOf(Four) <= StackWords
        BY <1>1, <1>2, <2>3
    <2> QED
        BY <1>2, <1>3, <2>3, <2>7, <2>8, NumberKeeps
<1> QED
    BY <1>4, <1>5, <1>6, <1>7

LEMMA PushKeeps ==
    ASSUME IInv, vm = "running", NEW k \in Sizes, NEW v \in Int, Push(v, TagsOf(k)),
           left' \in 0 .. Budget
    PROVE  IInv'
<1>1. StackOK /\ optop \in 0 .. StackWords /\ StackWords \in Nat /\ ConstantWords \in 0 .. StackWords
    BY OperationsAssumption DEF IInv, StackOK
<1>2. Len(TagsOf(k)) = WordsOf(k) /\ WordsOf(k) \in 1 .. 2 /\ Four * Len(TagsOf(k)) = k
    <2>1. Len(TagsOf(k)) = WordsOf(k) /\ WordsOf(k) \in 1 .. 2
        BY TagsTyped
    <2>2. Four * WordsOf(k) = k
        BY DEF Sizes, WordsOf, Four, Eight
    <2> QED
        BY <2>1, <2>2
<1>3. Boundary(0) /\ 0 \in 0 .. optop
    BY <1>1 DEF Boundary, StackOK
<1>4. optop + WordsOf(k) <= ConstantWords /\ Replace(0, Write(k, optop + 1, v), TagsOf(k))
    BY <1>2 DEF Push
<1>5. (optop - 0) + WordsOf(k) <= StackWords /\ optop + 1 = (optop - 0) + 1
    BY <1>1, <1>2, <1>4
<1> QED
    BY <1>3, <1>4, <1>5, NumberKeeps

LEMMA PushReferenceKeeps ==
    ASSUME IInv, vm = "running", NEW t \in Types, NEW a \in WordValues, RefersTo(t, a),
           Push(a, <<t>>), left' \in 0 .. Budget
    PROVE  IInv'
<1>1. StackOK /\ optop \in 0 .. StackWords /\ StackWords \in Nat /\ ConstantWords \in 0 .. StackWords
    BY OperationsAssumption DEF IInv, StackOK
<1>2. <<t>> \in Seq(Tags) /\ Paired(<<t>>) /\ Len(<<t>>) = 1 /\ <<t>>[1] = t
    BY TagsTyped
<1>3. Boundary(0) /\ 0 \in 0 .. optop
    BY <1>1 DEF Boundary, StackOK
<1>4. /\ optop + 1 <= ConstantWords
      /\ Replace(0, Write(Four * Len(<<t>>), optop + 1, a), <<t>>)
    BY <1>2 DEF Push
<1>5. Four * Len(<<t>>) = Four
    BY <1>2 DEF Four
<1>6. PICK m : m = Write(Four, optop + 1, a)
    OBVIOUS
<1>7. U(Four, a) = a
    <2>1. PICK w \in Nat \ {0} : w = Values(Four)
        BY WordSizes
    <2>2. a \in 0 .. w - 1
        BY <2>1 DEF WordValues
    <2>3. a % w = a
        BY <2>2
    <2> QED
        BY <2>1, <2>3 DEF U
<1>8. m = [mem EXCEPT ![optop + 1] = a]
    BY <1>6, <1>7 DEF Write
<1>9. optop + 1 \in 1 .. StackWords /\ mem \in [1 .. StackWords -> WordValues]
    BY <1>1, <1>4 DEF StackOK
<1>10. /\ m \in [1 .. StackWords -> WordValues] /\ m[optop + 1] = a
       /\ \A p \in 1 .. optop : m[p] = mem[p]
    BY <1>1, <1>8, <1>9
<1>11. Fits(0, m, <<t>>)
    BY <1>1, <1>2, <1>3, <1>9, <1>10 DEF Fits
<1>12. \A j \in 1 .. Len(<<t>>) : <<t>>[j] \in Types => RefersTo(<<t>>[j], m[(optop - 0) + j])
    BY <1>1, <1>2, <1>10
<1>13. Replace(0, m, <<t>>)
    BY <1>4, <1>5, <1>6
<1> QED
    BY <1>11, <1>12, <1>13, ReplaceKeeps

LEMMA ConstantKeeps ==
    ASSUME IInv, Constant
    PROVE  IInv'
<1>1. vm = "running" /\ IntLiterals \subseteq Int /\ ArrayLiterals \subseteq Int
      /\ LongLiterals \subseteq Int
    BY OperationsAssumption DEF Constant
<1>2. /\ Four \in Sizes /\ Eight \in Sizes
      /\ TagsOf(Four) = <<"int">> /\ TagsOf(Eight) = <<"low", "high">>
    BY DEF Sizes, TagsOf, Four, Eight
<1>3. left' \in 0 .. Budget
    BY SpendKeeps DEF Constant
<1>4. CASE \E v \in IF left = Budget THEN IntLiterals ELSE ArrayLiterals : Push(v, <<"int">>)
    <2>1. PICK v \in Int : Push(v, <<"int">>)
        BY <1>1, <1>4
    <2> QED
        BY <1>1, <1>2, <1>3, <2>1, PushKeeps
<1>5. CASE \E v \in LongLiterals : Push(v, <<"low", "high">>)
    <2>1. PICK v \in Int : Push(v, <<"low", "high">>)
        BY <1>1, <1>5
    <2> QED
        BY <1>1, <1>2, <1>3, <2>1, PushKeeps
<1>6. CASE \E t \in Types : Push(NullAddress, <<t>>)
    <2>1. PICK t \in Types : Push(NullAddress, <<t>>)
        BY <1>6
    <2>2. NullAddress \in WordValues
        BY WordSizes DEF NullAddress, WordValues
    <2>3. RefersTo(t, NullAddress)
        BY DEF RefersTo
    <2> QED
        BY <1>1, <1>3, <2>1, <2>2, <2>3, PushReferenceKeeps
<1>7. CASE Push(local, <<"int">>)
    <2>1. PICK v \in Int : v = local
        BY DEF IInv, RestOK, WordValues
    <2> QED
        BY <1>1, <1>2, <1>3, <1>7, <2>1, PushKeeps
<1>8. CASE \E a \in DOMAIN heap : Push(a, <<types[a]>>)
    <2>1. PICK a \in DOMAIN heap : Push(a, <<types[a]>>)
        BY <1>8
    <2>2. PICK h \in Nat : h = Len(heap) /\ h <= MaxArrays /\ a \in 1 .. h
        BY DEF IInv, HeapOK
    <2>3. PICK w \in Nat \ {0} : w = Values(Four)
        BY WordSizes
    <2>4. a \in WordValues
        BY <2>2, <2>3, OperationsAssumption DEF WordValues
    <2>5. PICK t \in Types : t = types[a]
        BY <2>2 DEF IInv, HeapOK
    <2>6. RefersTo(t, a)
        BY <2>1, <2>5 DEF RefersTo
    <2> QED
        BY <1>1, <1>3, <2>1, <2>4, <2>5, <2>6, PushReferenceKeeps
<1> QED
    BY <1>4, <1>5, <1>6, <1>7, <1>8 DEF Constant

\* Words are only dropped.
LEMMA DropFits ==
    ASSUME StackOK, NEW n \in 0 .. optop, Boundary(n)
    PROVE  /\ Fits(n, mem, << >>)
           /\ Len(<< >>) = 0
<1>1. optop \in 0 .. StackWords /\ StackWords \in Nat /\ mem \in [1 .. StackWords -> WordValues]
    BY OperationsAssumption DEF StackOK
<1>2. << >> \in Seq(Tags) /\ Paired(<< >>) /\ Len(<< >>) = 0
    BY TagsTyped
<1>3. (optop - n) + Len(<< >>) <= StackWords
    BY <1>1, <1>2
<1> QED
    BY <1>1, <1>2, <1>3 DEF Fits

LEMMA PopKeeps ==
    ASSUME IInv, NEW w \in 1 .. 2, pop(w)
    PROVE  IInv'
<1>1. StackOK /\ Len(tags) = optop /\ optop \in Nat
    BY DEF IInv, StackOK
<1>2. vm = "running" /\ w \in 0 .. optop /\ Boundary(w) /\ Replace(w, mem, << >>)
    BY <1>1 DEF pop
<1>3. left' \in 0 .. Budget
    BY SpendKeeps DEF pop
<1>4. Fits(w, mem, << >>) /\ Len(<< >>) = 0
    BY <1>1, <1>2, DropFits
<1>5. \A j \in 1 .. Len(<< >>) : << >>[j] \in Types => RefersTo(<< >>[j], mem[(optop - w) + j])
    BY <1>4
<1> QED
    BY <1>2, <1>3, <1>4, <1>5, ReplaceKeeps

\* Words are dropped, and the arrays keep their types.
LEMMA DropKeeps ==
    ASSUME StackOK, NEW n \in 0 .. optop, Boundary(n),
           mem' = mem, optop' = optop - n, Retag(n, << >>),
           DOMAIN heap' = DOMAIN heap, types' = types
    PROVE  StackOK'
<1>1. Fits(n, mem', << >>) /\ Len(<< >>) = 0
    BY DropFits
<1>2. \A j \in 1 .. Len(<< >>) :
          << >>[j] \in Types => RefersIn(heap', types', << >>[j], mem'[(optop - n) + j])
    BY <1>1
<1>3. \A t, a : RefersIn(heap, types, t, a) => RefersIn(heap', types', t, a)
    BY DEF RefersIn
<1>4. optop' = (optop - n) + Len(<< >>)
    BY <1>1 DEF StackOK
<1> QED
    BY <1>1, <1>2, <1>3, <1>4, StackKeeps

LEMMA IstoreKeeps ==
    ASSUME IInv, istore
    PROVE  IInv'
<1>1. Checked(<<"int">>) /\ local' = mem[optop] /\ optop' = optop - 1 /\ Retag(1, << >>)
      /\ UNCHANGED <<vm, mem, heap, branch, types, kept>>
    BY DEF istore
<1>2. Boundary(1) /\ vm = "running" /\ optop \in 1 .. StackWords /\ mem[optop] \in WordValues
    BY <1>1, OneInt
<1>3. 1 \in 0 .. optop
    BY <1>2, OperationsAssumption
<1>4. StackOK'
    BY <1>1, <1>2, <1>3, DropKeeps DEF IInv
<1>5. left' \in 0 .. Budget
    BY SpendKeeps DEF istore
<1>6. HeapOK'
    BY <1>1 DEF IInv, HeapOK, BlocksFit
<1>7. RestOK' /\ UndefinedOnlyInDivision'
    BY <1>1, <1>2, <1>5 DEF IInv, RestOK, UndefinedOnlyInDivision
<1> QED
    BY <1>4, <1>6, <1>7 DEF IInv

Conditions == {"eq", "ne", "lt", "ge", "gt", "le"}

LEMMA IfKeeps ==
    ASSUME IInv, NEW name \in {"if", "if_icmp"}, NEW condition \in Conditions,
           if(name, condition)
    PROVE  IInv'
<1>1. StackOK /\ optop \in 0 .. StackWords /\ StackWords \in Nat
    BY OperationsAssumption DEF IInv, StackOK
<1>2. PICK n \in 1 .. 2 : n = IF name = "if" THEN 1 ELSE 2
    OBVIOUS
<1>3. optop' = optop - n /\ Retag(n, << >>) /\ UNCHANGED <<vm, mem, local, heap, types, kept>>
    BY <1>2 DEF if
<1>4. PICK ts \in Seq(Tags) : /\ ts = (IF name = "if" THEN <<"int">> ELSE <<"int", "int">>)
                              /\ Len(ts) = n /\ ts # << >> /\ ts[1] # "high"
    <2>1. "int" \in Tags
        BY DEF Tags
    <2>2. <<"int">> \in Seq(Tags) /\ <<"int", "int">> \in Seq(Tags)
        BY <2>1
    <2>3. /\ Len(<<"int">>) = 1 /\ Len(<<"int", "int">>) = 2
          /\ <<"int">>[1] = "int" /\ <<"int", "int">>[1] = "int"
        OBVIOUS
    <2> QED
        BY <1>2, <2>2, <2>3
<1>5. Checked(ts)
    BY <1>4 DEF if
<1>6. Boundary(n) /\ vm = "running" /\ n \in 1 .. optop
    BY <1>1, <1>4, <1>5, CheckedBoundary
<1>7. n \in 0 .. optop
    BY <1>1, <1>6
<1>8. StackOK'
    BY <1>1, <1>3, <1>6, <1>7, DropKeeps
<1>9. \A a, b \in WordValues : Holds(condition, a, b) \in BOOLEAN
    <2> SUFFICES ASSUME NEW a \in WordValues, NEW b \in WordValues
                 PROVE  Holds(condition, a, b) \in BOOLEAN
        OBVIOUS
    <2>1. PICK x \in Int : x = S(Four, a)
        BY CastTyped DEF Four, WordValues
    <2>2. PICK y \in Int : y = S(Four, b)
        BY CastTyped DEF Four, WordValues
    <2>3. (x < y) \in BOOLEAN /\ (x >= y) \in BOOLEAN /\ (x > y) \in BOOLEAN /\ (x <= y) \in BOOLEAN
        OBVIOUS
    <2>4. CASE condition = "eq"
        BY <2>4, Zenon DEF Holds
    <2>5. CASE condition = "ne"
        BY <2>5 DEF Holds
    <2>6. CASE condition = "lt"
        BY <2>1, <2>2, <2>3, <2>6 DEF Holds
    <2>7. CASE condition = "ge"
        BY <2>1, <2>2, <2>3, <2>7 DEF Holds
    <2>8. CASE condition = "gt"
        BY <2>1, <2>2, <2>3, <2>8 DEF Holds
    <2>9. CASE condition = "le"
        BY <2>1, <2>2, <2>3, <2>9 DEF Holds
    <2> QED
        BY <2>4, <2>5, <2>6, <2>7, <2>8, <2>9 DEF Conditions
<1>10. branch' \in BOOLEAN
    <2>1. /\ branch' = IF name = "if" THEN Holds(condition, mem[optop], 0)
                       ELSE Holds(condition, mem[optop - 1], mem[optop])
          /\ 0 \in WordValues
        BY WordSizes DEF if, WordValues
    <2>2. mem[optop] \in WordValues /\ (name # "if" => mem[optop - 1] \in WordValues)
        BY <1>1, <1>2, <1>6 DEF StackOK
    <2> QED
        BY <1>9, <2>1, <2>2
<1>11. left' \in 0 .. Budget
    BY SpendKeeps DEF if
<1>12. HeapOK'
    BY <1>3 DEF IInv, HeapOK, BlocksFit
<1>13. RestOK' /\ UndefinedOnlyInDivision'
    BY <1>3, <1>6, <1>10, <1>11 DEF IInv, RestOK, UndefinedOnlyInDivision
<1> QED
    BY <1>8, <1>12, <1>13 DEF IInv

----------------------------------------------------------------------------
(* Copies and exchanges. *)

Memory == [1 .. StackWords -> WordValues]

\* The words and tags of an exchange.
SwapParts(q, x, y, ts, m) ==
    /\ q = optop /\ q - 1 \in 1 .. StackWords /\ Boundary(2)
    /\ x = tags[q] /\ y = tags[q - 1]
    /\ x \notin {"low", "high"} /\ y \notin {"low", "high"}
    /\ ts = <<x, y>> /\ Len(ts) = 2 /\ ts[1] = x /\ ts[2] = y
    /\ m[q] = mem[q - 1] /\ m[q - 1] = mem[q]
    /\ Replace(2, m, ts) /\ Fits(2, m, ts)

LEMMA SwapShape ==
    ASSUME IInv, swap
    PROVE  \E q \in 1 .. StackWords, x \in Tags, y \in Tags, ts \in Seq(Tags), m \in Memory :
               SwapParts(q, x, y, ts, m)
<1>1. StackOK /\ optop \in 0 .. StackWords /\ StackWords \in Nat /\ Len(tags) = optop
      /\ tags \in Seq(Tags) /\ Paired(tags)
    BY OperationsAssumption DEF IInv, StackOK
<1>2. /\ vm = "running" /\ 2 \in 0 .. optop /\ Boundary(2) /\ Boundary(1)
      /\ Replace(2, [mem EXCEPT ![optop] = mem[optop - 1], ![optop - 1] = mem[optop]],
                 <<tags[optop], tags[optop - 1]>>)
    BY <1>1 DEF swap
<1>3. PICK q \in 1 .. StackWords : q = optop /\ q - 1 \in 1 .. StackWords
    BY <1>1, <1>2
<1>4. PICK x \in Tags : x = tags[q]
    BY <1>1, <1>3
<1>5. PICK y \in Tags : y = tags[q - 1]
    BY <1>1, <1>3
<1>6. x # "high" /\ y # "high"
    <2>1. q - 1 + 1 = q /\ q - 2 + 1 = q - 1
        BY <1>3
    <2>2. tags[q - 1 + 1] # "high" /\ tags[q - 2 + 1] # "high"
        BY <1>1, <1>3 DEF swap, Boundary
    <2> QED
        BY <1>4, <1>5, <2>1, <2>2
<1>7. x # "low" /\ y # "low"
    BY <1>1, <1>3, <1>4, <1>5, <1>6 DEF Paired
<1>8. PICK ts \in Seq(Tags) : ts = <<x, y>> /\ Len(ts) = 2 /\ ts[1] = x /\ ts[2] = y
    <2>1. <<x, y>> \in Seq(Tags)
        BY <1>4, <1>5
    <2>2. Len(<<x, y>>) = 2 /\ <<x, y>>[1] = x /\ <<x, y>>[2] = y
        OBVIOUS
    <2> QED
        BY <2>1, <2>2
<1>9. Paired(ts)
    BY <1>6, <1>7, <1>8 DEF Paired
<1>10. mem \in [1 .. StackWords -> WordValues]
    BY <1>1 DEF StackOK
<1>11. PICK m : m = [mem EXCEPT ![q] = mem[q - 1], ![q - 1] = mem[q]]
    OBVIOUS
<1>12. /\ m \in [1 .. StackWords -> WordValues] /\ m[q] = mem[q - 1] /\ m[q - 1] = mem[q]
       /\ \A p \in 1 .. q - 2 : m[p] = mem[p]
    <2>1. PICK a \in WordValues : a = mem[q]
        BY <1>10
    <2>2. PICK b \in WordValues : b = mem[q - 1]
        BY <1>3, <1>10
    <2>3. q - 1 # q /\ \A p \in 1 .. q - 2 : p \in 1 .. StackWords /\ p # q /\ p # q - 1
        BY <1>1, <1>3
    <2>4. m = [mem EXCEPT ![q] = b, ![q - 1] = a]
        BY <1>11, <2>1, <2>2
    <2>5. m \in [1 .. StackWords -> WordValues]
        BY <1>10, <2>4
    <2> QED
        BY <1>3, <1>10, <2>1, <2>2, <2>3, <2>4, <2>5
<1>13. Replace(2, m, ts)
    BY <1>2, <1>3, <1>4, <1>5, <1>8, <1>11
<1>14. (optop - 2) + Len(ts) <= StackWords
    BY <1>3, <1>8
<1>15. Fits(2, m, ts)
    BY <1>2, <1>3, <1>8, <1>9, <1>12, <1>14 DEF Fits
<1>16. SwapParts(q, x, y, ts, m)
    BY <1>2, <1>3, <1>4, <1>5, <1>6, <1>7, <1>8, <1>12, <1>13, <1>15 DEF SwapParts
<1>17. m \in Memory
    BY <1>12 DEF Memory
<1> QED
    BY <1>3, <1>4, <1>5, <1>8, <1>16, <1>17

LEMMA SwapKeeps ==
    ASSUME IInv, swap
    PROVE  IInv'
<1>1. StackOK /\ vm = "running"
    BY DEF IInv, swap
<1>2. PICK q \in 1 .. StackWords, x \in Tags, y \in Tags, ts \in Seq(Tags), m \in Memory :
          SwapParts(q, x, y, ts, m)
    BY SwapShape
<1>3. q = optop /\ q - 1 \in 1 .. StackWords
    BY <1>2 DEF SwapParts
<1>4. x = tags[q] /\ y = tags[q - 1]
    BY <1>2 DEF SwapParts
<1>5. Len(ts) = 2 /\ ts[1] = x /\ ts[2] = y
    BY <1>2 DEF SwapParts
<1>6. m[q] = mem[q - 1] /\ m[q - 1] = mem[q]
    BY <1>2 DEF SwapParts
<1>7. Replace(2, m, ts) /\ Fits(2, m, ts)
    BY <1>2 DEF SwapParts
<1>8. ASSUME NEW j \in 1 .. Len(ts), ts[j] \in Types
       PROVE  RefersTo(ts[j], m[(optop - 2) + j])
    <2>1. q \in 1 .. optop /\ q - 1 \in 1 .. optop
        BY <1>3
    <2>2. x \in Types => RefersTo(x, mem[q])
        BY <1>1, <1>4, <2>1 DEF StackOK, ReferencesRight
    <2>3. y \in Types => RefersTo(y, mem[q - 1])
        BY <1>1, <1>4, <2>1 DEF StackOK, ReferencesRight
    <2>4. CASE j = 1
        <3>1. (optop - 2) + j = q - 1
            BY <1>3, <2>4
        <3> QED
            BY <1>5, <1>6, <1>8, <2>2, <2>4, <3>1
    <2>5. CASE j = 2
        <3>1. (optop - 2) + j = q
            BY <1>3, <2>5
        <3> QED
            BY <1>5, <1>6, <1>8, <2>3, <2>5, <3>1
    <2> QED
        BY <1>5, <2>4, <2>5
<1>9. left' \in 0 .. Budget
    BY SpendKeeps DEF swap
<1> QED
    BY <1>1, <1>7, <1>8, <1>9, ReplaceKeeps

LEMMA MoveShape ==
    ASSUME NEW s \in Memory, NEW to \in Int, NEW from \in Int, optop \in Int,
           optop + to \in 1 .. StackWords, optop + from \in 1 .. StackWords
    PROVE  /\ Move(s, to, from) \in Memory
           /\ \A p \in 1 .. StackWords :
                  Move(s, to, from)[p] = IF p = optop + to THEN s[optop + from] ELSE s[p]
BY DEF Move, Memory

\* The n words on top are copied below the m words under them.
Copied(r, n, m) ==
    /\ r \in Memory
    /\ \A p \in 1 .. optop - (n + m) : r[p] = mem[p]
    /\ \A j \in 1 .. n : /\ r[(optop - (n + m)) + j] = mem[(optop - n) + j]
                         /\ r[optop + j] = mem[(optop - n) + j]
    /\ \A j \in 1 .. m : r[(optop - m) + j] = mem[(optop - (n + m)) + j]

LEMMA DupCopies ==
    ASSUME StackOK, NEW n \in 1 .. 2, NEW m \in 0 .. 2, n + m <= optop, optop + n <= StackWords
    PROVE  Copied(Dup(n, m), n, m)
<1>1. mem \in Memory /\ StackWords \in Nat
    BY OperationsAssumption DEF StackOK, Memory
<1>2. PICK q \in Nat : q = optop
    BY DEF StackOK
<1>3. CASE n = 1 /\ m = 0
    <2>1. PICK r1 \in Memory : r1 = Move(mem, 1, 0) /\ r1 = Dup(n, m) /\
              \A p \in 1 .. StackWords : r1[p] = IF p = q + 1 THEN mem[q] ELSE mem[p]
        BY <1>1, <1>2, <1>3, MoveShape DEF Dup
    <2> QED
        BY <1>1, <1>2, <1>3, <2>1 DEF Copied
<1>4. CASE n = 1 /\ m = 1
    <2>1. PICK r1 \in Memory : r1 = Move(mem, 1, 0) /\
              \A p \in 1 .. StackWords : r1[p] = IF p = q + 1 THEN mem[q] ELSE mem[p]
        BY <1>1, <1>2, <1>4, MoveShape
    <2>2. PICK r2 \in Memory : r2 = Move(r1, 0, -1) /\
              \A p \in 1 .. StackWords : r2[p] = IF p = q THEN r1[q - 1] ELSE r1[p]
        BY <1>1, <1>2, <1>4, MoveShape
    <2>3. PICK r3 \in Memory : r3 = Move(r2, -1, 1) /\
              \A p \in 1 .. StackWords : r3[p] = IF p = q - 1 THEN r2[q + 1] ELSE r2[p]
        BY <1>1, <1>2, <1>4, MoveShape
    <2>4. r3 = Dup(n, m)
        BY <1>4, <2>1, <2>2, <2>3 DEF Dup
    <2>5. r3[q - 1] = mem[q] /\ r3[q] = mem[q - 1] /\ r3[q + 1] = mem[q]
          /\ \A p \in 1 .. q - 2 : r3[p] = mem[p]
        BY <1>1, <1>2, <1>4, <2>1, <2>2, <2>3
    <2> QED
        BY <1>1, <1>2, <1>4, <2>4, <2>5 DEF Copied
<1>5. CASE n = 1 /\ m = 2
    <2>1. PICK r1 \in Memory : r1 = Move(mem, 1, 0) /\
              \A p \in 1 .. StackWords : r1[p] = IF p = q + 1 THEN mem[q] ELSE mem[p]
        BY <1>1, <1>2, <1>5, MoveShape
    <2>2. PICK r2 \in Memory : r2 = Move(r1, 0, -1) /\
              \A p \in 1 .. StackWords : r2[p] = IF p = q THEN r1[q - 1] ELSE r1[p]
        BY <1>1, <1>2, <1>5, MoveShape
    <2>3. PICK r3 \in Memory : r3 = Move(r2, -1, -2) /\
              \A p \in 1 .. StackWords : r3[p] = IF p = q - 1 THEN r2[q - 2] ELSE r2[p]
        BY <1>1, <1>2, <1>5, MoveShape
    <2>4. PICK r4 \in Memory : r4 = Move(r3, -2, 1) /\
              \A p \in 1 .. StackWords : r4[p] = IF p = q - 2 THEN r3[q + 1] ELSE r3[p]
        BY <1>1, <1>2, <1>5, MoveShape
    <2>5. r4 = Dup(n, m)
        BY <1>5, <2>1, <2>2, <2>3, <2>4 DEF Dup
    <2>6. /\ r4[q - 2] = mem[q] /\ r4[q - 1] = mem[q - 2] /\ r4[q] = mem[q - 1]
          /\ r4[q + 1] = mem[q]
          /\ \A p \in 1 .. q - 3 : r4[p] = mem[p]
        BY <1>1, <1>2, <1>5, <2>1, <2>2, <2>3, <2>4
    <2> QED
        BY <1>1, <1>2, <1>5, <2>5, <2>6 DEF Copied
<1>6. CASE n = 2 /\ m = 0
    <2>1. PICK r1 \in Memory : r1 = Move(mem, 1, -1) /\
              \A p \in 1 .. StackWords : r1[p] = IF p = q + 1 THEN mem[q - 1] ELSE mem[p]
        BY <1>1, <1>2, <1>6, MoveShape
    <2>2. PICK r2 \in Memory : r2 = Move(r1, 2, 0) /\
              \A p \in 1 .. StackWords : r2[p] = IF p = q + 2 THEN r1[q] ELSE r1[p]
        BY <1>1, <1>2, <1>6, MoveShape
    <2>3. r2 = Dup(n, m)
        BY <1>6, <2>1, <2>2 DEF Dup
    <2>4. /\ r2[q - 1] = mem[q - 1] /\ r2[q] = mem[q] /\ r2[q + 1] = mem[q - 1]
          /\ r2[q + 2] = mem[q]
          /\ \A p \in 1 .. q - 2 : r2[p] = mem[p]
        BY <1>1, <1>2, <1>6, <2>1, <2>2
    <2> QED
        BY <1>1, <1>2, <1>6, <2>3, <2>4 DEF Copied
<1>7. CASE n = 2 /\ m = 1
    <2>1. PICK r1 \in Memory : r1 = Move(mem, 2, 0) /\
              \A p \in 1 .. StackWords : r1[p] = IF p = q + 2 THEN mem[q] ELSE mem[p]
        BY <1>1, <1>2, <1>7, MoveShape
    <2>2. PICK r2 \in Memory : r2 = Move(r1, 1, -1) /\
              \A p \in 1 .. StackWords : r2[p] = IF p = q + 1 THEN r1[q - 1] ELSE r1[p]
        BY <1>1, <1>2, <1>7, MoveShape
    <2>3. PICK r3 \in Memory : r3 = Move(r2, 0, -2) /\
              \A p \in 1 .. StackWords : r3[p] = IF p = q THEN r2[q - 2] ELSE r2[p]
        BY <1>1, <1>2, <1>7, MoveShape
    <2>4. PICK r4 \in Memory : r4 = Move(r3, -1, 2) /\
              \A p \in 1 .. StackWords : r4[p] = IF p = q - 1 THEN r3[q + 2] ELSE r3[p]
        BY <1>1, <1>2, <1>7, MoveShape
    <2>5. PICK r5 \in Memory : r5 = Move(r4, -2, 1) /\
              \A p \in 1 .. StackWords : r5[p] = IF p = q - 2 THEN r4[q + 1] ELSE r4[p]
        BY <1>1, <1>2, <1>7, MoveShape
    <2>6. r5 = Dup(n, m)
        BY <1>7, <2>1, <2>2, <2>3, <2>4, <2>5 DEF Dup
    <2>7. /\ r5[q - 2] = mem[q - 1] /\ r5[q - 1] = mem[q] /\ r5[q] = mem[q - 2]
          /\ r5[q + 1] = mem[q - 1] /\ r5[q + 2] = mem[q]
          /\ \A p \in 1 .. q - 3 : r5[p] = mem[p]
        BY <1>1, <1>2, <1>7, <2>1, <2>2, <2>3, <2>4, <2>5
    <2> QED
        BY <1>1, <1>2, <1>7, <2>6, <2>7 DEF Copied
<1>8. CASE n = 2 /\ m = 2
    <2>1. PICK r1 \in Memory : r1 = Move(mem, 2, 0) /\
              \A p \in 1 .. StackWords : r1[p] = IF p = q + 2 THEN mem[q] ELSE mem[p]
        BY <1>1, <1>2, <1>8, MoveShape
    <2>2. PICK r2 \in Memory : r2 = Move(r1, 1, -1) /\
              \A p \in 1 .. StackWords : r2[p] = IF p = q + 1 THEN r1[q - 1] ELSE r1[p]
        BY <1>1, <1>2, <1>8, MoveShape
    <2>3. PICK r3 \in Memory : r3 = Move(r2, 0, -2) /\
              \A p \in 1 .. StackWords : r3[p] = IF p = q THEN r2[q - 2] ELSE r2[p]
        BY <1>1, <1>2, <1>8, MoveShape
    <2>4. PICK r4 \in Memory : r4 = Move(r3, -1, -3) /\
              \A p \in 1 .. StackWords : r4[p] = IF p = q - 1 THEN r3[q - 3] ELSE r3[p]
        BY <1>1, <1>2, <1>8, MoveShape
    <2>5. PICK r5 \in Memory : r5 = Move(r4, -2, 2) /\
              \A p \in 1 .. StackWords : r5[p] = IF p = q - 2 THEN r4[q + 2] ELSE r4[p]
        BY <1>1, <1>2, <1>8, MoveShape
    <2>6. PICK r6 \in Memory : r6 = Move(r5, -3, 1) /\
              \A p \in 1 .. StackWords : r6[p] = IF p = q - 3 THEN r5[q + 1] ELSE r5[p]
        BY <1>1, <1>2, <1>8, MoveShape
    <2>7. r6 = Dup(n, m)
        BY <1>8, <2>1, <2>2, <2>3, <2>4, <2>5, <2>6 DEF Dup
    <2>8. /\ r6[q - 3] = mem[q - 1] /\ r6[q - 2] = mem[q] /\ r6[q - 1] = mem[q - 3]
          /\ r6[q] = mem[q - 2] /\ r6[q + 1] = mem[q - 1] /\ r6[q + 2] = mem[q]
          /\ \A p \in 1 .. q - 4 : r6[p] = mem[p]
        BY <1>1, <1>2, <1>8, <2>1, <2>2, <2>3, <2>4, <2>5, <2>6
    <2> QED
        BY <1>1, <1>2, <1>8, <2>7, <2>8 DEF Copied
<1> QED
    BY <1>3, <1>4, <1>5, <1>6, <1>7, <1>8

\* ts is top, middle and top again.
Around(ts, top, middle) ==
    /\ Len(ts) = Len(top) + Len(middle) + Len(top) /\ Paired(ts)
    /\ \A j \in 1 .. Len(top) : ts[j] = top[j] /\ ts[(Len(top) + Len(middle)) + j] = top[j]
    /\ \A j \in 1 .. Len(middle) : ts[Len(top) + j] = middle[j]

LEMMA AroundPaired ==
    ASSUME NEW top \in Seq(Tags), NEW middle \in Seq(Tags), Paired(top), Paired(middle)
    PROVE  /\ (top \o middle) \o top \in Seq(Tags)
           /\ Around((top \o middle) \o top, top, middle)
<1>1. PICK n \in Nat : n = Len(top)
    OBVIOUS
<1>2. PICK m \in Nat : m = Len(middle)
    OBVIOUS
<1>3. PICK half \in Seq(Tags) : half = top \o middle /\ Len(half) = n + m /\ Paired(half)
    <2>1. /\ top \o middle \in Seq(Tags) /\ Len(top \o middle) = Len(top) + Len(middle)
          /\ Paired(top \o middle)
        BY ConcatPaired
    <2> QED
        BY <1>1, <1>2, <2>1
<1>4. \A p \in 1 .. n + m : half[p] = IF p <= n THEN top[p] ELSE middle[p - n]
    BY <1>1, <1>2, <1>3, ConcatProperties
<1>5. PICK ts \in Seq(Tags) : ts = half \o top /\ Len(ts) = (n + m) + n /\ Paired(ts)
    <2>1. /\ half \o top \in Seq(Tags) /\ Len(half \o top) = Len(half) + Len(top)
          /\ Paired(half \o top)
        BY <1>3, ConcatPaired
    <2> QED
        BY <1>1, <1>3, <2>1
<1>6. \A p \in 1 .. (n + m) + n : ts[p] = IF p <= n + m THEN half[p] ELSE top[p - (n + m)]
    <2>1. \A p \in 1 .. Len(half) + Len(top) :
              (half \o top)[p] = IF p <= Len(half) THEN half[p] ELSE top[p - Len(half)]
        BY ConcatProperties
    <2> QED
        BY <1>1, <1>3, <1>5, <2>1
<1>7. ASSUME NEW j \in 1 .. n PROVE ts[j] = top[j] /\ ts[(n + m) + j] = top[j]
    <2>1. /\ j \in 1 .. n + m /\ j \in 1 .. (n + m) + n /\ j <= n + m /\ j <= n
          /\ (n + m) + j \in 1 .. (n + m) + n /\ ~ ((n + m) + j <= n + m)
          /\ ((n + m) + j) - (n + m) = j
        OBVIOUS
    <2>2. ts[j] = half[j] /\ half[j] = top[j]
        BY <1>4, <1>6, <2>1
    <2>3. ts[(n + m) + j] = top[((n + m) + j) - (n + m)]
        BY <1>6, <2>1
    <2> QED
        BY <2>1, <2>2, <2>3
<1>8. ASSUME NEW j \in 1 .. m PROVE ts[n + j] = middle[j]
    <2>1. /\ n + j \in 1 .. n + m /\ n + j \in 1 .. (n + m) + n /\ n + j <= n + m
          /\ ~ (n + j <= n) /\ (n + j) - n = j
        OBVIOUS
    <2>2. ts[n + j] = half[n + j] /\ half[n + j] = middle[(n + j) - n]
        BY <1>4, <1>6, <2>1
    <2> QED
        BY <2>1, <2>2
<1>9. Around(ts, top, middle)
    BY <1>1, <1>2, <1>5, <1>7, <1>8 DEF Around
<1> QED
    BY <1>3, <1>5, <1>9

\* The words and tags of a copy: d words stay, and over them are m and n words
\* before and n, m and n words afterwards.
DupParts(n, m, d, top, middle, ts, r) ==
    /\ d = optop - (n + m) /\ optop - n = d + m /\ optop = (d + m) + n
    /\ Len(top) = n /\ Paired(top) /\ \A p \in 1 .. n : top[p] = tags[(d + m) + p]
    /\ Len(middle) = m /\ Paired(middle) /\ \A p \in 1 .. m : middle[p] = tags[d + p]
    /\ ts = (top \o middle) \o top /\ Len(ts) = (n + m) + n
    /\ \A j \in 1 .. n : ts[j] = top[j] /\ ts[(n + m) + j] = top[j]
    /\ \A j \in 1 .. m : ts[n + j] = middle[j]
    /\ Replace(n + m, r, ts) /\ Fits(n + m, r, ts)
    /\ \A j \in 1 .. n : /\ r[d + j] = mem[(d + m) + j]
                         /\ r[optop + j] = mem[(d + m) + j]
    /\ \A j \in 1 .. m : r[(d + n) + j] = mem[d + j]

LEMMA DupShape ==
    ASSUME IInv, NEW n \in 1 .. 2, NEW m \in 0 .. 2, dup(n, m)
    PROVE  \E d \in Nat, top \in Seq(Tags), middle \in Seq(Tags), ts \in Seq(Tags), r \in Memory :
               DupParts(n, m, d, top, middle, ts, r)
<1>1. StackOK /\ optop \in 0 .. StackWords /\ StackWords \in Nat /\ Len(tags) = optop
      /\ tags \in Seq(Tags) /\ Paired(tags)
    BY OperationsAssumption DEF IInv, StackOK
<1>2. /\ vm = "running" /\ n + m \in 0 .. optop /\ Boundary(n + m) /\ Boundary(n)
      /\ optop + n <= StackWords
    BY <1>1 DEF dup
<1>3. PICK d \in Nat, q \in Nat :
          /\ q = optop /\ d = q - (n + m) /\ (q - n) - m = d /\ q - n = d + m
          /\ q = (d + m) + n
    BY <1>1, <1>2
<1>4. PICK r : r = Dup(n, m) /\ Copied(r, n, m)
    BY <1>1, <1>2, DupCopies
<1>5. tags[(d + m) + 1] # "high" /\ (d < Len(tags) => tags[d + 1] # "high")
    <2>1. (Len(tags) - n) + 1 = (d + m) + 1 /\ (Len(tags) - (n + m)) + 1 = d + 1 /\ n > 0 /\ n + m > 0
        BY <1>1, <1>3
    <2> QED
        BY <1>2, <2>1 DEF Boundary
<1>6. PICK top \in Seq(Tags) :
          /\ top = SubSeq(tags, (d + m) + 1, q) /\ Len(top) = n /\ Paired(top)
          /\ \A p \in 1 .. n : top[p] = tags[(d + m) + p]
    <2>1. /\ d + m \in 0 .. Len(tags) /\ q \in d + m .. Len(tags) /\ q - (d + m) = n
          /\ ~ (q < Len(tags))
        BY <1>1, <1>3
    <2>2. /\ SubSeq(tags, (d + m) + 1, q) \in Seq(Tags)
          /\ Len(SubSeq(tags, (d + m) + 1, q)) = q - (d + m)
          /\ \A p \in 1 .. q - (d + m) : SubSeq(tags, (d + m) + 1, q)[p] = tags[(d + m) + p]
          /\ Paired(SubSeq(tags, (d + m) + 1, q))
        BY <1>1, <1>5, <2>1, SegmentPaired
    <2> QED
        BY <2>1, <2>2
<1>7. PICK middle \in Seq(Tags) :
          /\ middle = SubSeq(tags, d + 1, d + m) /\ Len(middle) = m /\ Paired(middle)
          /\ \A p \in 1 .. m : middle[p] = tags[d + p]
    <2>1. d \in 0 .. Len(tags) /\ d + m \in d .. Len(tags) /\ (d + m) - d = m
        BY <1>1, <1>3
    <2>2. /\ SubSeq(tags, d + 1, d + m) \in Seq(Tags)
          /\ Len(SubSeq(tags, d + 1, d + m)) = (d + m) - d
          /\ \A p \in 1 .. (d + m) - d : SubSeq(tags, d + 1, d + m)[p] = tags[d + p]
          /\ Paired(SubSeq(tags, d + 1, d + m))
        BY <1>1, <1>5, <2>1, SegmentPaired
    <2> QED
        BY <2>1, <2>2
<1>8. PICK ts \in Seq(Tags) : ts = (top \o middle) \o top /\ Around(ts, top, middle)
    BY <1>6, <1>7, AroundPaired
<1>9. /\ Len(ts) = (n + m) + n /\ Paired(ts)
      /\ \A j \in 1 .. n : ts[j] = top[j] /\ ts[(n + m) + j] = top[j]
      /\ \A j \in 1 .. m : ts[n + j] = middle[j]
    <2>1. Len(top) = n /\ Len(middle) = m
        BY <1>6, <1>7
    <2>2. /\ Len(ts) = (Len(top) + Len(middle)) + Len(top) /\ Paired(ts)
          /\ \A j \in 1 .. Len(top) : ts[j] = top[j] /\ ts[(Len(top) + Len(middle)) + j] = top[j]
          /\ \A j \in 1 .. Len(middle) : ts[Len(top) + j] = middle[j]
        BY <1>8 DEF Around
    <2> QED
        BY ONLY <2>1, <2>2
<1>10. Replace(n + m, r, ts)
    <2>1. /\ Len(tags) - n + 1 = (d + m) + 1 /\ Len(tags) - n - m + 1 = d + 1
          /\ Len(tags) - n = d + m
        BY <1>1, <1>3
    <2>2. Replace(n + m, Dup(n, m),
                  (SubSeq(tags, Len(tags) - n + 1, Len(tags))
                     \o SubSeq(tags, Len(tags) - n - m + 1, Len(tags) - n))
                     \o SubSeq(tags, Len(tags) - n + 1, Len(tags)))
        BY Zenon DEF dup
    <2>3. ts = (SubSeq(tags, Len(tags) - n + 1, Len(tags))
                  \o SubSeq(tags, Len(tags) - n - m + 1, Len(tags) - n))
                  \o SubSeq(tags, Len(tags) - n + 1, Len(tags))
        BY <1>1, <1>3, <1>6, <1>7, <1>8, <2>1
    <2> QED
        BY <1>4, <2>2, <2>3
<1>11. Fits(n + m, r, ts)
    <2>1. /\ optop = d + (n + m) /\ optop + n <= StackWords
          /\ n \in Int /\ m \in Int /\ StackWords \in Int
        BY <1>1, <1>2, <1>3
    <2>2. Len(ts) = (n + m) + n
        BY <1>9
    <2>3. (optop - (n + m)) + Len(ts) <= StackWords
        BY ONLY <2>1, <2>2
    <2> QED
        BY <1>2, <1>4, <1>9, <2>3 DEF Fits, Copied, Memory
<1>12. /\ \A j \in 1 .. n : r[d + j] = mem[(d + m) + j] /\ r[q + j] = mem[(d + m) + j]
       /\ \A j \in 1 .. m : r[(d + n) + j] = mem[d + j]
    <2>1. optop - (n + m) = d /\ optop - n = d + m /\ optop = q /\ optop - m = d + n
        BY <1>3
    <2> QED
        BY <1>4, <2>1 DEF Copied
<1>13. DupParts(n, m, d, top, middle, ts, r)
    BY <1>3, <1>6, <1>7, <1>8, <1>9, <1>10, <1>11, <1>12 DEF DupParts
<1>14. r \in Memory
    BY <1>4 DEF Copied
<1> QED
    BY <1>6, <1>7, <1>8, <1>13, <1>14

LEMMA DupKeeps ==
    ASSUME IInv, NEW n \in 1 .. 2, NEW m \in 0 .. 2, dup(n, m)
    PROVE  IInv'
<1>1. StackOK /\ vm = "running"
    BY DEF IInv, dup
<1>2. PICK d \in Nat, top \in Seq(Tags), middle \in Seq(Tags), ts \in Seq(Tags), r \in Memory :
          DupParts(n, m, d, top, middle, ts, r)
    BY DupShape
<1>3. PICK q \in Nat :
          /\ q = optop /\ d = q - (n + m) /\ q - n = d + m /\ q = (d + m) + n
    BY <1>2 DEF DupParts
<1>4. \A p \in 1 .. n : top[p] = tags[(d + m) + p]
    BY <1>2 DEF DupParts
<1>5. \A p \in 1 .. m : middle[p] = tags[d + p]
    BY <1>2 DEF DupParts
<1>6. /\ Len(ts) = (n + m) + n
      /\ \A j \in 1 .. n : ts[j] = top[j] /\ ts[(n + m) + j] = top[j]
      /\ \A j \in 1 .. m : ts[n + j] = middle[j]
    BY <1>2 DEF DupParts
<1>7. Replace(n + m, r, ts) /\ Fits(n + m, r, ts)
    BY <1>2 DEF DupParts
<1>8. /\ \A j \in 1 .. n : r[d + j] = mem[(d + m) + j] /\ r[q + j] = mem[(d + m) + j]
      /\ \A j \in 1 .. m : r[(d + n) + j] = mem[d + j]
    BY <1>2, <1>3 DEF DupParts
<1>9. ASSUME NEW j \in 1 .. Len(ts), ts[j] \in Types
       PROVE  RefersTo(ts[j], r[(optop - (n + m)) + j])
    <2>1. PICK x \in 1 .. q : ts[j] = tags[x] /\ r[d + j] = mem[x]
        <3>1. CASE j <= n
            <4>1. ts[j] = top[j] /\ j \in 1 .. n
                BY <1>6, <3>1
            <4>2. (d + m) + j \in 1 .. q
                BY <1>3, <4>1
            <4>4. top[j] = tags[(d + m) + j]
                BY <1>4, <4>1
            <4>3. r[d + j] = mem[(d + m) + j]
                BY <1>8, <4>1
            <4> QED
                BY <4>1, <4>2, <4>3, <4>4
        <3>2. CASE j > n /\ j <= n + m
            <4>1. PICK i \in 1 .. m : i = j - n /\ j = n + i
                BY <1>6, <3>2
            <4>2. ts[j] = middle[i]
                BY <1>6, <4>1
            <4>3. d + i \in 1 .. q
                BY <1>3, <4>1
            <4>4. middle[i] = tags[d + i] /\ r[(d + n) + i] = mem[d + i]
                BY <1>5, <1>8
            <4>5. (d + n) + i = d + j
                BY <4>1
            <4> QED
                BY <4>2, <4>3, <4>4, <4>5
        <3>3. CASE j > n + m
            <4>1. PICK i \in 1 .. n : i = j - (n + m) /\ j = (n + m) + i
                BY <1>6, <3>3
            <4>2. ts[j] = top[i]
                BY <1>6, <4>1
            <4>3. (d + m) + i \in 1 .. q
                BY <1>3, <4>1
            <4>4. top[i] = tags[(d + m) + i] /\ r[q + i] = mem[(d + m) + i]
                BY <1>4, <1>8
            <4>5. q + i = d + j
                BY <1>3, <4>1
            <4> QED
                BY <4>2, <4>3, <4>4, <4>5
        <3> QED
            BY <1>6, <3>1, <3>2, <3>3
    <2>2. tags[x] \in Types => RefersTo(tags[x], mem[x])
        BY <1>1, <1>3, <2>1 DEF StackOK, ReferencesRight
    <2> QED
        BY <1>3, <1>9, <2>1, <2>2
<1>10. left' \in 0 .. Budget
    BY SpendKeeps DEF dup
<1> QED
    BY <1>1, <1>7, <1>9, <1>10, ReplaceKeeps

----------------------------------------------------------------------------
(* Arrays. *)

LEMMA Widths ==
    ASSUME NEW t \in Types
    PROVE  /\ TypeSize(t) = Width(t) /\ Width(t) \in {1, 2, 4, 8}
           /\ Four * Len(ElementTags(t)) \in Sizes
           /\ ElementTags(t) = TagsOf(Four * Len(ElementTags(t)))
<1>1. TypeSize(t) = Width(t) /\ Width(t) \in {1, 2, 4, 8}
    BY DEF TypeSize, Width, Types, One, Two, Four, Eight
<1>2. CASE t = "T_LONG"
    <2>1. ElementTags(t) = <<"low", "high">> /\ Len(ElementTags(t)) = 2
        BY <1>2 DEF ElementTags
    <2>2. Four * Len(ElementTags(t)) = Eight /\ Eight # Four
        BY <2>1 DEF Four, Eight
    <2> QED
        BY <1>1, <2>1, <2>2 DEF TagsOf, Sizes
<1>3. CASE t # "T_LONG"
    <2>1. ElementTags(t) = <<"int">> /\ Len(ElementTags(t)) = 1
        BY <1>3 DEF ElementTags
    <2>2. Four * Len(ElementTags(t)) = Four
        BY <2>1 DEF Four
    <2> QED
        BY <1>1, <2>1, <2>2 DEF TagsOf, Sizes
<1> QED
    BY <1>2, <1>3

\* A guard that asks for a reference of type t under the words ts.
LEMMA ReferenceBelow ==
    ASSUME StackOK, NEW t \in Types, NEW ts \in Seq(Tags), Checked(<<t>> \o ts)
    PROVE  /\ vm = "running" /\ Len(ts) + 1 \in 1 .. optop /\ Boundary(Len(ts) + 1)
           /\ RefersTo(t, mem[optop - Len(ts)])
           /\ optop - Len(ts) \in 1 .. StackWords
<1>1. PICK l \in Nat : l = Len(ts)
    OBVIOUS
<1>2. PICK q \in Nat : q = optop /\ q <= StackWords
    BY OperationsAssumption DEF StackOK
<1>3. <<t>> \in Seq(Tags) /\ Len(<<t>>) = 1 /\ <<t>>[1] = t
    BY TagsTyped
<1>4. PICK all \in Seq(Tags) : all = <<t>> \o ts /\ Len(all) = l + 1 /\ all[1] = t
    <2>1. PICK one \in Seq(Tags) : one = <<t>> /\ Len(one) = 1 /\ one[1] = t
        BY <1>3
    <2>2. /\ one \o ts \in Seq(Tags) /\ Len(one \o ts) = Len(one) + Len(ts)
          /\ \A i \in 1 .. Len(one) + Len(ts) :
                 (one \o ts)[i] = IF i <= Len(one) THEN one[i] ELSE ts[i - Len(one)]
        BY ConcatProperties
    <2>3. (one \o ts)[1] = t /\ Len(one \o ts) = l + 1
        BY <1>1, <2>1, <2>2
    <2> QED
        BY <2>1, <2>2, <2>3
<1>5. t # "high" /\ all # << >>
    BY <1>1, <1>4 DEF Types
<1>6. Boundary(Len(all)) /\ vm = "running" /\ Len(all) \in 1 .. optop
    BY <1>4, <1>5, CheckedBoundary
<1>7. \A j \in 1 .. Len(all) : tags[(optop - Len(all)) + j] = all[j]
    BY <1>4, CheckedTags
<1>8. q - l \in 1 .. q /\ (q - (l + 1)) + 1 = q - l
    BY <1>1, <1>2, <1>4, <1>6
<1>9. tags[q - l] = t
    BY <1>1, <1>2, <1>4, <1>7, <1>8
<1>10. RefersTo(t, mem[q - l])
    BY <1>2, <1>8, <1>9 DEF StackOK, ReferencesRight
<1> QED
    BY <1>1, <1>2, <1>4, <1>6, <1>8, <1>10, OperationsAssumption

LEMMA ZerosTyped ==
    ASSUME NEW n \in Nat
    PROVE  /\ Len([b \in 1 .. n |-> 0]) = n
           /\ \A X : 0 \in X => [b \in 1 .. n |-> 0] \in Seq(X)
<1>1. ASSUME NEW X, 0 \in X PROVE [b \in 1 .. n |-> 0] \in Seq(X)
    BY <1>1, SeqDef
<1>2. PICK s \in Seq({0}) : s = [b \in 1 .. n |-> 0]
    BY <1>1
<1>3. DOMAIN s = 1 .. n /\ DOMAIN s = 1 .. Len(s) /\ Len(s) \in Nat
    BY <1>2
<1>4. Len(s) = n
    BY <1>3
<1> QED
    BY <1>1, <1>2, <1>4

LEMMA PairOfTags ==
    ASSUME NEW t \in Types
    PROVE  /\ <<t, "int">> = <<t>> \o <<"int">>
           /\ <<t, "int">> \in Seq(Tags)
<1>1. PICK one \in Seq(Tags) : one = <<t>> /\ Len(one) = 1 /\ one[1] = t
    BY TagsTyped
<1>2. PICK other \in Seq(Tags) : other = <<"int">> /\ Len(other) = 1 /\ other[1] = "int"
    BY TagsTyped
<1>3. PICK both \in Seq(Tags) :
          both = one \o other /\ Len(both) = 2 /\ both[1] = t /\ both[2] = "int"
    <2>1. /\ one \o other \in Seq(Tags) /\ Len(one \o other) = Len(one) + Len(other)
          /\ \A i \in 1 .. Len(one) + Len(other) :
                 (one \o other)[i] = IF i <= Len(one) THEN one[i] ELSE other[i - Len(one)]
        BY ConcatProperties
    <2>2. (one \o other)[1] = t /\ (one \o other)[2] = "int" /\ Len(one \o other) = 2
        BY <1>1, <1>2, <2>1
    <2> QED
        BY <2>1, <2>2
<1>4. <<t, "int">> \in Seq(Tags)
    <2>1. t \in Tags /\ "int" \in Tags
        BY DEF Tags
    <2> QED
        BY <2>1
<1>5. PICK pair \in Seq(Tags) :
          pair = <<t, "int">> /\ Len(pair) = 2 /\ pair[1] = t /\ pair[2] = "int"
    BY <1>4
<1>6. \A i \in 1 .. Len(both) : both[i] = pair[i]
    BY <1>3, <1>5
<1>7. both = pair
    BY <1>3, <1>5, <1>6, SeqEqual
<1> QED
    BY <1>1, <1>2, <1>3, <1>4, <1>5, <1>7

LEMMA NewarrayKeeps ==
    ASSUME IInv, NEW t \in Types, newarray(t)
    PROVE  IInv'
<1>1. Checked(<<"int">>) /\ left' \in 0 .. Budget
    BY SpendKeeps DEF newarray
<1>2. /\ Boundary(1) /\ vm = "running" /\ optop \in 1 .. StackWords
      /\ mem[optop] \in Int /\ mem[optop] \in WordValues
    BY <1>1, OneInt
<1>3. PICK n \in Nat : n = mem[optop] /\ n \in WordValues
    BY <1>2 DEF WordValues
<1>4. PICK h \in Nat : h = Len(heap) /\ h <= MaxArrays
    BY DEF IInv, HeapOK
<1>5. PICK k \in {1, 2, 4, 8} : k = TypeSize(t) /\ k = Width(t)
    BY Widths
<1>6. CASE Abort
    BY <1>1, <1>6, AbortKeeps
<1>7. CASE /\ h # MaxArrays /\ ~ (n * k > HeapBytes)
           /\ heap' = Append(heap, [length |-> n, arr |-> [b \in 1 .. n * k |-> 0]])
           /\ mem' = [mem EXCEPT ![optop] = h + 1]
           /\ Retag(1, <<t>>)
           /\ types' = Append(types, t)
           /\ kept' = Append(kept, [i \in 1 .. n |-> 0])
           /\ UNCHANGED <<vm, optop, local, branch>>
    <2>1. StackOK /\ HeapOK /\ mem \in [1 .. StackWords -> WordValues] /\ StackWords \in Nat
          /\ MaxArrays \in Nat /\ MaxArrays < Values(Four) /\ HeapBytes \in Nat
          /\ 2 * HeapBytes < Values(Four)
        BY OperationsAssumption DEF IInv, StackOK
    <2>2. PICK w \in Nat \ {0} : w = Values(Four)
        BY WordSizes
    <2>3. h + 1 <= MaxArrays /\ h + 1 \in WordValues
        BY <1>4, <1>7, <2>1, <2>2 DEF WordValues
    <2>4. n * k \in Nat /\ n <= n * k /\ n * k <= HeapBytes /\ 2 * n < w
        <3>1. n * k \in Nat /\ n <= n * k
            <4>1. CASE k = 1
                BY <4>1
            <4>2. CASE k = 2
                BY <4>2
            <4>3. CASE k = 4
                BY <4>3
            <4>4. CASE k = 8
                BY <4>4
            <4> QED
                BY <4>1, <4>2, <4>3, <4>4
        <3>2. PICK e \in Nat : e = n * k
            BY <3>1
        <3> QED
            BY <1>7, <2>1, <2>2, <3>1, <3>2
    <2>5. PICK bytes \in Seq(0 .. Values(One) - 1) : bytes = [b \in 1 .. n * k |-> 0] /\ Len(bytes) = n * k
        <3>1. 0 \in 0 .. Values(One) - 1
            BY ValuesTyped DEF One
        <3>2. PICK e \in Nat : e = n * k
            BY <2>4
        <3>3. [b \in 1 .. e |-> 0] \in Seq(0 .. Values(One) - 1) /\ Len([b \in 1 .. e |-> 0]) = e
            BY <3>1, ZerosTyped
        <3> QED
            BY <3>2, <3>3
    <2>6. PICK block \in Block : block = [length |-> n, arr |-> bytes]
        BY <1>3 DEF Block
    <2>7. PICK zeros \in Seq(Int) : zeros = [i \in 1 .. n |-> 0] /\ Len(zeros) = n
        <3>1. [i \in 1 .. n |-> 0] \in Seq(Int) /\ Len([i \in 1 .. n |-> 0]) = n
            BY ZerosTyped
        <3> QED
            BY <3>1
    <2>8. /\ heap' = Append(heap, block) /\ types' = Append(types, t)
          /\ kept' = Append(kept, zeros)
        BY <1>7, <2>5, <2>6, <2>7
    <2>9. /\ heap \in Seq(Block) /\ types \in Seq(Types) /\ kept \in Seq(Seq(Int))
          /\ Len(types) = h /\ Len(kept) = h
          /\ DOMAIN heap = 1 .. h
        BY <1>4, <2>1 DEF HeapOK
    <2>10. /\ heap' \in Seq(Block) /\ Len(heap') = h + 1 /\ heap'[h + 1] = block
           /\ \A a \in 1 .. h : heap'[a] = heap[a]
        BY <1>4, <2>8, <2>9
    <2>11. /\ types' \in Seq(Types) /\ Len(types') = h + 1 /\ types'[h + 1] = t
           /\ \A a \in 1 .. h : types'[a] = types[a]
        BY <2>8, <2>9
    <2>12. /\ kept' \in Seq(Seq(Int)) /\ Len(kept') = h + 1 /\ kept'[h + 1] = zeros
           /\ \A a \in 1 .. h : kept'[a] = kept[a]
        BY <2>8, <2>9
    <2>13. /\ mem' \in [1 .. StackWords -> WordValues] /\ mem'[optop] = h + 1
           /\ \A p \in 1 .. optop - 1 : mem'[p] = mem[p]
        BY <1>2, <1>7, <2>1, <2>3
    <2>14. <<t>> \in Seq(Tags) /\ Paired(<<t>>) /\ Len(<<t>>) = 1 /\ <<t>>[1] = t
        BY TagsTyped
    <2>15. Fits(1, mem', <<t>>) /\ optop' = (optop - 1) + Len(<<t>>)
        BY <1>2, <1>7, <2>1, <2>13, <2>14 DEF Fits
    <2>16. \A s, a : RefersIn(heap, types, s, a) => RefersIn(heap', types', s, a)
        BY <1>4, <2>9, <2>10, <2>11 DEF RefersIn
    <2>17. \A j \in 1 .. Len(<<t>>) : <<t>>[j] \in Types =>
               RefersIn(heap', types', <<t>>[j], mem'[(optop - 1) + j])
        <3>1. (optop - 1) + 1 = optop
            BY <1>2
        <3>2. RefersIn(heap', types', t, h + 1)
            BY <2>10, <2>11 DEF RefersIn
        <3> QED
            BY <2>13, <2>14, <3>1, <3>2
    <2>18. StackOK'
        BY <1>7, <2>1, <2>15, <2>16, <2>17, StackKeeps
    <2>19. \A a \in DOMAIN heap' : Len(kept'[a]) = heap'[a].length
        <3>1. \A a \in 1 .. h : Len(kept[a]) = heap[a].length
            BY <2>1, <2>9 DEF HeapOK
        <3>2. Len(zeros) = block.length
            BY <2>6, <2>7
        <3> SUFFICES ASSUME NEW a \in DOMAIN heap' PROVE Len(kept'[a]) = heap'[a].length
            OBVIOUS
        <3>3. a \in 1 .. h \/ a = h + 1
            BY <2>10
        <3> QED
            BY <2>10, <2>12, <3>1, <3>2, <3>3
    <2>20. BlocksFit'
        <3>1. \A a \in 1 .. h : /\ Len(heap[a].arr) = heap[a].length * Width(types[a])
                                /\ 2 * heap[a].length < Values(Four)
            BY <2>1, <2>9 DEF HeapOK, BlocksFit
        <3>2. Len(block.arr) = block.length * Width(t) /\ 2 * block.length < Values(Four)
            BY <1>5, <2>2, <2>4, <2>5, <2>6
        <3>3. \A a \in 1 .. h + 1 : /\ Len(heap'[a].arr) = heap'[a].length * Width(types'[a])
                                    /\ 2 * heap'[a].length < Values(Four)
            <4> SUFFICES ASSUME NEW a \in 1 .. h + 1
                         PROVE  /\ Len(heap'[a].arr) = heap'[a].length * Width(types'[a])
                                /\ 2 * heap'[a].length < Values(Four)
                OBVIOUS
            <4>1. a \in 1 .. h \/ a = h + 1
                OBVIOUS
            <4> QED
                BY <2>10, <2>11, <3>1, <3>2, <4>1
        <3> QED
            BY <2>10, <3>3 DEF BlocksFit
    <2>21. HeapOK'
        BY <2>3, <2>10, <2>11, <2>12, <2>19, <2>20 DEF HeapOK
    <2>22. RestOK' /\ UndefinedOnlyInDivision'
        BY <1>1, <1>2, <1>7 DEF IInv, RestOK, UndefinedOnlyInDivision
    <2> QED
        BY <2>18, <2>21, <2>22 DEF IInv
<1> QED
    BY <1>3, <1>4, <1>5, <1>6, <1>7 DEF newarray

LEMMA ArraylengthKeeps ==
    ASSUME IInv, NEW t \in Types, arraylength(t)
    PROVE  IInv'
<1>1. StackOK /\ optop \in 0 .. StackWords /\ StackWords \in Nat
      /\ mem \in [1 .. StackWords -> WordValues]
    BY OperationsAssumption DEF IInv, StackOK
<1>2. Checked(<<t>>) /\ left' \in 0 .. Budget
    BY SpendKeeps DEF arraylength
<1>3. PICK ts \in Seq(Tags) : ts = <<t>> /\ Len(ts) = 1 /\ ts # << >> /\ ts[1] = t
    BY TagsTyped
<1>4. Boundary(1) /\ vm = "running" /\ 1 \in 1 .. optop /\ 1 \in 0 .. optop
    <2>1. t # "high"
        BY DEF Types
    <2>2. Boundary(Len(ts)) /\ vm = "running" /\ Len(ts) \in 1 .. optop
        BY <1>1, <1>2, <1>3, <2>1, CheckedBoundary
    <2> QED
        BY <1>1, <1>3, <2>2
<1>5. PICK q \in 1 .. StackWords : q = optop /\ (q - 1) + 1 = q
    BY <1>1, <1>4
<1>6. tags[q] = t
    <2>1. \A j \in 1 .. Len(ts) : tags[(optop - Len(ts)) + j] = ts[j]
        BY <1>1, <1>2, <1>3, CheckedTags
    <2> QED
        BY <1>3, <1>5, <2>1
<1>7. RefersTo(t, mem[q])
    <2>1. q \in 1 .. optop
        BY <1>5
    <2> QED
        BY <1>1, <1>6, <2>1 DEF StackOK, ReferencesRight
<1>8. CASE mem[q] = NullAddress
    <2>1. Abort
        BY <1>5, <1>8 DEF arraylength
    <2> QED
        BY <1>2, <2>1, AbortKeeps
<1>9. CASE mem[q] # NullAddress
    <2>1. mem[q] \in DOMAIN heap
        BY <1>7, <1>9 DEF RefersTo
    <2>2. PICK n \in WordValues : n = heap[mem[q]].length
        <3>1. heap[mem[q]] \in Block
            BY <2>1 DEF IInv, HeapOK
        <3> QED
            BY <3>1 DEF Block
    <2>3. PICK m : m = [mem EXCEPT ![q] = n]
        OBVIOUS
    <2>4. Replace(1, m, <<"int">>)
        BY <1>5, <1>9, <2>2, <2>3 DEF arraylength
    <2>5. <<"int">> \in Seq(Tags) /\ Paired(<<"int">>) /\ Len(<<"int">>) = 1 /\ <<"int">>[1] = "int"
        BY TagsTyped
    <2>6. m \in [1 .. StackWords -> WordValues] /\ \A p \in 1 .. q - 1 : m[p] = mem[p]
        BY <1>1, <2>3
    <2>7. (optop - 1) + Len(<<"int">>) <= StackWords
        BY <1>1, <2>5
    <2>8. Fits(1, m, <<"int">>)
        BY <1>4, <1>5, <2>5, <2>6, <2>7 DEF Fits
    <2>9. \A j \in 1 .. Len(<<"int">>) : <<"int">>[j] \notin Types
        BY DEF Types
    <2> QED
        BY <1>2, <1>4, <2>4, <2>8, <2>9, ReplaceKeeps
<1> QED
    BY <1>8, <1>9

\* An access that passes the check of null and of the index is to an array of
\* its type and stays within the block.
LEMMA AccessWithin ==
    ASSUME HeapOK, NEW t \in Types, NEW a, RefersTo(t, a), NEW i \in WordValues,
           ~ NoElement(a, i)
    PROVE  /\ a \in DOMAIN heap /\ types[a] = t
           /\ heap[a] \in Block /\ i \in Nat /\ i < heap[a].length
           /\ Width(t) \in Nat \ {0}
           /\ ~ Outside(heap[a].arr, Width(t), i)
<1>1. i \in Nat
    BY DEF WordValues
<1>2. a \in DOMAIN heap /\ types[a] = t /\ ~ (i >= heap[a].length)
    BY DEF RefersTo, NoElement
<1>3. heap[a] \in Block
    BY <1>2 DEF HeapOK
<1>4. PICK n \in Nat : n = heap[a].length
    BY <1>3 DEF Block, WordValues
<1>5. PICK k \in Nat \ {0} : k = Width(t)
    BY Widths
<1>6. Len(heap[a].arr) = n * k
    BY <1>2, <1>4, <1>5 DEF HeapOK, BlocksFit
<1>7. i + 1 <= n
    BY <1>1, <1>2, <1>4
<1>8. k * i + k <= n * k
    <2>1. k * (i + 1) <= k * n
        BY <1>1, <1>7
    <2>2. k * (i + 1) = k * i + k /\ k * n = n * k
        BY <1>1
    <2> QED
        BY <2>1, <2>2
<1>9. ~ (k * i + k > n * k)
    <2>1. PICK x \in Nat : x = k * i + k
        BY <1>1
    <2>2. PICK y \in Nat : y = n * k
        OBVIOUS
    <2> QED
        BY <1>8, <2>1, <2>2
<1>10. ~ Outside(heap[a].arr, Width(t), i)
    BY <1>5, <1>6, <1>9 DEF Outside
<1> QED
    BY <1>1, <1>2, <1>3, <1>4, <1>5, <1>7, <1>10

LEMMA LoadKeeps ==
    ASSUME IInv, NEW t \in Types, load(t)
    PROVE  IInv'
<1>1. StackOK /\ HeapOK /\ optop \in 0 .. StackWords /\ StackWords \in Nat
      /\ mem \in [1 .. StackWords -> WordValues]
    BY OperationsAssumption DEF IInv, StackOK
<1>2. Checked(<<t, "int">>) /\ left' \in 0 .. Budget
    BY SpendKeeps DEF load
<1>3. PICK ts \in Seq(Tags) : ts = <<"int">> /\ Len(ts) = 1
    BY TagsTyped
<1>4. Checked(<<t>> \o ts)
    BY <1>2, <1>3, PairOfTags
<1>5. /\ vm = "running" /\ Len(ts) + 1 \in 1 .. optop /\ Boundary(Len(ts) + 1)
      /\ RefersTo(t, mem[optop - Len(ts)])
    BY <1>1, <1>4, ReferenceBelow
<1>6. Boundary(2) /\ 2 \in 0 .. optop /\ RefersTo(t, mem[optop - 1])
    BY <1>1, <1>3, <1>5
<1>7. PICK i \in WordValues : i = mem[optop]
    BY <1>1, <1>6
<1>8. PICK a : a = mem[optop - 1] /\ RefersTo(t, a)
    BY <1>6
<1>9. CASE NoElement(a, i)
    <2>1. Abort
        BY <1>7, <1>8, <1>9 DEF load
    <2> QED
        BY <1>2, <2>1, AbortKeeps
<1>10. CASE ~ NoElement(a, i)
    <2>1. /\ heap[a] \in Block /\ i \in Nat /\ Width(t) \in Nat
          /\ ~ Outside(heap[a].arr, Width(t), i)
        BY <1>1, <1>8, <1>10, AccessWithin
    <2>2. heap[a].arr \in Seq(Byte)
        BY <2>1 DEF Block, Byte
    <2>3. PICK v \in Int : v = ElementAt(heap[a].arr, Width(t), i)
        BY <2>1, <2>2, ElementTyped
    <2>4. PICK k \in Sizes : k = Four * Len(ElementTags(t)) /\ ElementTags(t) = TagsOf(k)
        BY Widths
    <2>5. Replace(2, Write(k, optop - 1, v), TagsOf(k))
        BY <1>7, <1>8, <1>10, <2>1, <2>3, <2>4 DEF load
    <2>6. (optop - 2) + WordsOf(k) <= StackWords /\ optop - 1 = (optop - 2) + 1
        <3>1. WordsOf(k) \in 1 .. 2
            BY TagsTyped
        <3> QED
            BY <1>1, <1>6, <3>1
    <2> QED
        BY <1>2, <1>5, <1>6, <2>5, <2>6, NumberKeeps
<1> QED
    BY <1>9, <1>10

\* What xastore changes in the arrays.
LEMMA ElementKeeps ==
    ASSUME HeapOK, NEW a \in DOMAIN heap, NEW block \in Seq(Byte),
           Len(block) = Len(heap[a].arr),
           NEW i \in Nat, i < heap[a].length, NEW v \in Int,
           heap' = [heap EXCEPT ![a].arr = block],
           kept' = [kept EXCEPT ![a][i + 1] = v], types' = types
    PROVE  HeapOK' /\ DOMAIN heap' = DOMAIN heap
<1>1. PICK h \in Nat : h = Len(heap) /\ h <= MaxArrays /\ DOMAIN heap = 1 .. h /\ a \in 1 .. h
    BY DEF HeapOK
<1>2. /\ heap \in [1 .. h -> Block] /\ Len(types) = h /\ types \in Seq(Types)
      /\ kept \in Seq(Seq(Int)) /\ Len(kept) = h /\ kept \in [1 .. h -> Seq(Int)]
      /\ \A x \in 1 .. h : Len(kept[x]) = heap[x].length
    BY <1>1 DEF HeapOK
<1>3. PICK old \in Block : old = heap[a]
    BY <1>1, <1>2
<1>4. PICK new \in Block : new = [old EXCEPT !.arr = block] /\ new.arr = block /\ new.length = old.length
    <2>1. PICK n \in WordValues : n = old.length /\ old = [length |-> n, arr |-> old.arr]
        BY DEF Block
    <2>2. PICK made \in Block : made = [length |-> n, arr |-> block]
        BY DEF Block, Byte
    <2>3. [old EXCEPT !.arr = block] = made
        BY <2>1, <2>2
    <2> QED
        BY <2>1, <2>2, <2>3
<1>5. heap' = [heap EXCEPT ![a] = new]
    BY <1>3, <1>4
<1>6. /\ heap' \in [1 .. h -> Block] /\ DOMAIN heap' = 1 .. h
      /\ heap'[a] = new /\ \A x \in 1 .. h : x # a => heap'[x] = heap[x]
    BY <1>1, <1>2, <1>5
<1>7. heap' \in Seq(Block) /\ Len(heap') = h
    <2>1. heap' \in Seq(Block)
        <3>1. heap' \in UNION {[1 .. n -> Block] : n \in Nat}
            BY <1>6
        <3> QED
            BY <3>1, SeqDef
    <2> QED
        BY <1>6, <2>1
<1>8. PICK row \in Seq(Int) : row = kept[a] /\ Len(row) = old.length
    BY <1>1, <1>2, <1>3
<1>9. PICK changed \in Seq(Int) : changed = [row EXCEPT ![i + 1] = v] /\ Len(changed) = old.length
    <2>1. i + 1 \in 1 .. Len(row)
        BY <1>3, <1>8
    <2> QED
        <3>1. [row EXCEPT ![i + 1] = v] \in Seq(Int) /\ Len([row EXCEPT ![i + 1] = v]) = Len(row)
            BY <2>1, ExceptSeq
        <3> QED
            BY <1>8, <3>1
<1>10. kept' = [kept EXCEPT ![a] = changed]
    BY <1>8, <1>9
<1>11. /\ kept' \in Seq(Seq(Int)) /\ Len(kept') = h
       /\ kept'[a] = changed /\ \A x \in 1 .. h : x # a => kept'[x] = kept[x]
    <2>1. a \in 1 .. Len(kept)
        BY <1>1, <1>2
    <2>2. /\ [kept EXCEPT ![a] = changed] \in Seq(Seq(Int))
          /\ Len([kept EXCEPT ![a] = changed]) = Len(kept)
          /\ \A x \in 1 .. Len(kept) :
                 [kept EXCEPT ![a] = changed][x] = IF x = a THEN changed ELSE kept[x]
        BY <1>2, <2>1, ExceptSeq
    <2> QED
        BY <1>2, <1>10, <2>1, <2>2
<1>12. ASSUME NEW x \in 1 .. h
       PROVE  /\ Len(kept'[x]) = heap'[x].length
              /\ Len(heap'[x].arr) = heap'[x].length * Width(types'[x])
              /\ 2 * heap'[x].length < Values(Four)
    <2>1. /\ Len(heap[x].arr) = heap[x].length * Width(types[x])
          /\ 2 * heap[x].length < Values(Four)
        BY <1>1 DEF HeapOK, BlocksFit
    <2>2. CASE x = a
        BY <1>3, <1>4, <1>6, <1>9, <1>11, <2>1, <2>2
    <2>3. CASE x # a
        BY <1>2, <1>6, <1>11, <2>1, <2>3
    <2> QED
        BY <2>2, <2>3
<1>13. BlocksFit'
    BY <1>6, <1>12 DEF BlocksFit
<1> QED
    BY <1>1, <1>2, <1>6, <1>7, <1>11, <1>12, <1>13 DEF HeapOK

LEMMA StoreKeeps ==
    ASSUME IInv, NEW t \in Types, store(t)
    PROVE  IInv'
<1>1. StackOK /\ HeapOK /\ optop \in 0 .. StackWords /\ StackWords \in Nat
      /\ mem \in [1 .. StackWords -> WordValues]
    BY OperationsAssumption DEF IInv, StackOK
<1>2. Checked(<<t, "int">> \o ElementTags(t)) /\ left' \in 0 .. Budget
    BY SpendKeeps DEF store
<1>3. PICK k \in Sizes : k = Four * Len(ElementTags(t)) /\ ElementTags(t) = TagsOf(k)
    BY Widths
<1>4. PICK w \in 1 .. 2 : w = WordsOf(k)
    BY TagsTyped
<1>5. PICK ts \in Seq(Tags) : ts = <<"int">> \o ElementTags(t) /\ Len(ts) = w + 1
    <2>1. PICK one \in Seq(Tags) : one = <<"int">> /\ Len(one) = 1
        BY TagsTyped
    <2>2. PICK rest \in Seq(Tags) : rest = ElementTags(t) /\ Len(rest) = w
        BY <1>3, <1>4, TagsTyped
    <2>3. one \o rest \in Seq(Tags) /\ Len(one \o rest) = Len(one) + Len(rest)
        BY ConcatProperties
    <2>4. Len(one \o rest) = w + 1
        BY <2>1, <2>2, <2>3
    <2> QED
        BY <2>1, <2>2, <2>3, <2>4
<1>6. Checked(<<t>> \o ts)
    <2>1. /\ <<t>> \in Seq(Tags) /\ <<"int">> \in Seq(Tags) /\ ElementTags(t) \in Seq(Tags)
        BY <1>3, TagsTyped
    <2>2. (<<t>> \o <<"int">>) \o ElementTags(t) = <<t>> \o (<<"int">> \o ElementTags(t))
        BY ONLY <2>1, ConcatAssociative
    <2> QED
        BY <1>2, <1>5, <2>2, PairOfTags
<1>7. /\ vm = "running" /\ Boundary(w + 2) /\ w + 2 \in 0 .. optop
      /\ RefersTo(t, mem[(optop - 1) - w])
    <2>1. /\ vm = "running" /\ Len(ts) + 1 \in 1 .. optop /\ Boundary(Len(ts) + 1)
          /\ RefersTo(t, mem[optop - Len(ts)])
        BY <1>1, <1>6, ReferenceBelow
    <2>2. Len(ts) + 1 = w + 2 /\ optop - Len(ts) = (optop - 1) - w
        BY <1>1, <1>5
    <2> QED
        BY <1>1, <2>1, <2>2
<1>8. PICK i \in WordValues : i = mem[optop - w]
    BY <1>1, <1>7
<1>9. PICK a : a = mem[(optop - 1) - w] /\ RefersTo(t, a)
    BY <1>7
<1>10. PICK v \in Int : v = Read(k, Second(k))
    <2>1. Second(k) \in Nat \ {0} /\ (Second(k) + WordsOf(k)) - 1 <= StackWords
        BY <1>1, <1>4, <1>7 DEF Second
    <2> QED
        BY <1>1, <2>1, ReadTyped
<1>11. CASE NoElement(a, i)
    <2>1. Abort
        BY <1>3, <1>4, <1>8, <1>9, <1>11 DEF store
    <2> QED
        BY <1>2, <2>1, AbortKeeps
<1>12. CASE ~ NoElement(a, i)
    <2>1. /\ a \in DOMAIN heap /\ types[a] = t
          /\ heap[a] \in Block /\ i \in Nat /\ i < heap[a].length /\ Width(t) \in Nat
          /\ ~ Outside(heap[a].arr, Width(t), i)
        BY <1>1, <1>9, <1>12, AccessWithin
    <2>2. heap[a].arr \in Seq(Byte)
        BY <2>1 DEF Block, Byte
    <2>3. PICK block \in Seq(Byte) : /\ block = WithElement(heap[a].arr, Width(t), i, v)
                                     /\ Len(block) = Len(heap[a].arr)
        BY <2>1, <2>2, WithElementTyped
    <2>4. PICK e \in Int : e = JavaKeeps(t, S(k, v))
        <3>1. PICK x \in Int : x = S(k, v)
            BY CastTyped DEF Sizes, Four, Eight
        <3>2. U(One, x) \in Int /\ S(One, x) \in Int /\ U(Two, x) \in Int /\ S(Two, x) \in Int
            <4>1. PICK m \in Nat : m = Values(One) /\ U(One, x) \in 0 .. m - 1
                BY CastTyped, ValuesTyped DEF One
            <4>2. PICK n \in Nat : n = Values(Two) /\ U(Two, x) \in 0 .. n - 1
                BY CastTyped, ValuesTyped DEF Two
            <4>3. S(One, x) \in Int /\ S(Two, x) \in Int
                BY CastTyped DEF One, Two
            <4> QED
                BY <4>1, <4>2, <4>3
        <3> QED
            BY <3>1, <3>2 DEF JavaKeeps
    <2>5. /\ heap' = [heap EXCEPT ![a].arr = block]
          /\ kept' = [kept EXCEPT ![a][i + 1] = e]
          /\ optop' = (optop - 2) - w
          /\ Retag(2 + w, << >>)
          /\ UNCHANGED <<vm, mem, local, branch, types>>
        BY <1>3, <1>4, <1>8, <1>9, <1>10, <1>12, <2>1, <2>3, <2>4 DEF store
    <2>6. HeapOK' /\ DOMAIN heap' = DOMAIN heap
        BY <1>1, <2>1, <2>3, <2>5, ElementKeeps
    <2>7. StackOK'
        <3>1. 2 + w = w + 2 /\ optop' = optop - (w + 2)
            BY <1>1, <2>5
        <3> QED
            BY <1>1, <1>7, <2>5, <2>6, <3>1, DropKeeps
    <2>8. RestOK' /\ UndefinedOnlyInDivision'
        BY <1>2, <1>7, <2>5 DEF IInv, RestOK, UndefinedOnlyInDivision
    <2> QED
        BY <2>6, <2>7, <2>8 DEF IInv
<1> QED
    BY <1>11, <1>12

----------------------------------------------------------------------------
(* The specification. *)

LEMMA InitiallyIInv == Init => IInv
<1> SUFFICES ASSUME Init PROVE IInv
    OBVIOUS
<1>1. 0 \in WordValues
    BY WordSizes DEF WordValues
<1>2. << >> \in Seq(Tags) /\ Paired(<< >>) /\ Len(<< >>) = 0
    BY TagsTyped
<1>3. StackOK
    BY <1>1, <1>2, OperationsAssumption DEF Init, StackOK, ReferencesRight
<1>4. HeapOK
    BY OperationsAssumption DEF Init, HeapOK, BlocksFit
<1>5. RestOK /\ UndefinedOnlyInDivision
    <2>1. /\ vm = "running" /\ local \in WordValues /\ branch = FALSE /\ left = Budget
          /\ Budget \in Nat \ {0}
        BY <1>1, OperationsAssumption DEF Init
    <2>2. vm \in {"running", "aborted", "undefined"} /\ branch \in BOOLEAN
        BY <2>1, Zenon
    <2>4. left \in 0 .. Budget
        BY <2>1
    <2>3. UndefinedOnlyInDivision
        BY <2>1 DEF UndefinedOnlyInDivision
    <2> QED
        BY <2>1, <2>2, <2>3, <2>4 DEF RestOK
<1> QED
    BY <1>3, <1>4, <1>5 DEF IInv

LEMMA StutterKeeps == IInv /\ UNCHANGED vars => IInv'
<1> SUFFICES ASSUME IInv, UNCHANGED vars PROVE IInv'
    OBVIOUS
<1>1. UNCHANGED <<vm, mem, optop, local, heap, branch, op, tags, types, kept, left>>
    BY DEF vars, history
<1>2. StackOK' /\ HeapOK' /\ RestOK'
    BY <1>1 DEF IInv, StackOK, HeapOK, RestOK, BlocksFit, ReferencesRight, RefersTo
<1>3. UndefinedOnlyInDivision'
    BY <1>1 DEF IInv, UndefinedOnlyInDivision, Read, First, Second
<1> QED
    BY <1>2, <1>3 DEF IInv

LEMMA StepKeepsIInv == IInv /\ [Next]_vars => IInv'
<1> SUFFICES ASSUME IInv, [Next]_vars PROVE IInv'
    OBVIOUS
<1>1. CASE Constant
    BY <1>1, ConstantKeeps
<1>2. CASE istore
    BY <1>2, IstoreKeeps
<1>3. CASE swap
    BY <1>3, SwapKeeps
<1>4. CASE iinc
    BY <1>4, IincKeeps
<1>5. CASE \/ i2l \/ l2i \/ lcmp
           \/ \E name \in {"int2byte", "int2char", "int2short"} : narrow(name)
    BY <1>5, ConversionsKeep
<1>6. CASE \E w \in 1 .. 2 : pop(w)
    BY <1>6, PopKeeps
<1>7. CASE \E n \in 1 .. 2, m \in 0 .. 2 : dup(n, m)
    BY <1>7, DupKeeps
<1>8. CASE \E k \in {Four, Eight} :
              \/ \E name \in {"add", "sub", "mul", "and", "or", "xor"} : calculate(name, k)
              \/ \E name \in {"div", "rem"} : divide(name, k)
              \/ \E name \in {"shl", "shr", "ushr"} : shift(name, k)
              \/ negate(k)
    BY <1>8, CalculateKeeps, DivideKeeps, ShiftKeeps, NegateKeeps DEF Sizes
<1>9. CASE \E name \in {"if", "if_icmp"}, condition \in {"eq", "ne", "lt", "ge", "gt", "le"} :
              if(name, condition)
    BY <1>9, IfKeeps DEF Conditions
<1>10. CASE \E t \in Types : newarray(t) \/ arraylength(t) \/ load(t) \/ store(t)
    BY <1>10, NewarrayKeeps, ArraylengthKeeps, LoadKeeps, StoreKeeps
<1>11. CASE Rest \/ UNCHANGED vars
    BY <1>11, StutterKeeps DEF Rest
<1> QED
    BY <1>1, <1>2, <1>3, <1>4, <1>5, <1>6, <1>7, <1>8, <1>9, <1>10, <1>11 DEF Next, Execute

LEMMA IInvAlways == Spec => []IInv
BY InitiallyIInv, StepKeepsIInv, PTL DEF Spec

\* Every word fits the machine word it is kept in, whatever the instructions
\* computed, and optop is where the type checker of Java expects the top.
THEOREM WordsAlwaysTyped == Spec => []TypeOK
BY IInvAlways, InvariantParts, PTL

\* A word the code dereferences without a look is the null address or that of
\* an array of the right type, through every dup, swap and store.
THEOREM ReferencesAlwaysRight == Spec => []ReferencesRight
BY IInvAlways, InvariantParts, PTL

\* The block newarray allocated is as long as the elements that xaload and
\* xastore reach in it, for every element type and every length.
THEOREM BlocksAlwaysFit == Spec => []BlocksFit
BY IInvAlways, InvariantParts, PTL

\* Only the one quotient without a representation takes the process out of the
\* semantics of C; no access to an array does.
THEOREM OnlyDivisionUndefined == Spec => []UndefinedOnlyInDivision
BY IInvAlways, InvariantParts, PTL

============================================================================
