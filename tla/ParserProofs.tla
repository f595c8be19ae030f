---------------------------- MODULE ParserProofs ----------------------------
(***************************************************************************)
(* Proof, for any class files and in any life of the process, that the     *)
(* parser accepts every valid file, up to its end, and that the class it   *)
(* makes is the one the file describes.                                    *)
(*                                                                         *)
(* ParseInv says, for every place where the parser can stand, what of the  *)
(* class was read and where the rest is in the file.  The lemmas before it *)
(* show that the bytes read and swapped are the numbers of the file, that  *)
(* its parts follow one another as the calls of the parser do, and that    *)
(* each step goes from one place to the next one.                          *)
(***************************************************************************)
EXTENDS LifecycleProofs

----------------------------------------------------------------------------
(* What has been read, and what is ahead, while a valid file is parsed.    *)

\* The parts of a class that are as they were written, so far.
PoolRead(f, c, n) ==
    /\ Len(c.pool) = n /\ n <= Len(Written[f].pool)
    /\ \A x \in 1 .. n : SameEntry(c.pool[x], Written[f].pool[x])

HeadRead(f, c) ==
    /\ PoolRead(f, c, Len(Written[f].pool))
    /\ c.access = Written[f].access /\ c.this = Written[f].this
    /\ c.super = Written[f].super

FieldsRead(f, c, k) ==
    /\ HeadRead(f, c) /\ c.interfaces = Written[f].interfaces
    /\ Len(c.fields) = k /\ k <= Len(Written[f].fields)
    /\ \A j \in 1 .. k : c.fields[j] = FieldOf(Written[f].fields[j])

\* The code of a method is known when it is among the x attributes read.
MethodSoFar(d, x) ==
    [access |-> d.access, name |-> d.name, signature |-> d.signature, nargs |-> d.words,
     c_attr |-> IF d.code \in 1 .. x THEN d.code ELSE Unset]

MethodsSoFar(f, c, k) ==
    \A j \in 1 .. k : c.methods[j] = MethodSoFar(Written[f].methods[j], Len(c.attributes))

MethodsRead(f, c, k) ==
    /\ FieldsRead(f, c, Len(Written[f].fields))
    /\ Len(c.methods) = k /\ k <= Len(Written[f].methods)
    /\ MethodsSoFar(f, c, k)

AttributesRead(f, c, x) ==
    /\ Len(c.attributes) = x /\ x <= Len(Written[f].attributes)
    /\ \A y \in 1 .. x : c.attributes[y] = Written[f].attributes[y]

\* The calls that read a table of this kind, of which n items are left.
Reads(kind, n) == << Frame(kind, n, << >>) >>
FieldsLeft(f, k) == Reads("field", Len(Written[f].fields) - k)
MethodsLeft(f, k) == Reads("method", Len(Written[f].methods) - k)

\* The attributes of an owner: the calls around, where its table is, its first
\* and its last attribute, where it ends, and its code.
FieldTable(f, k) ==
    [owner |-> <<"field", k>>, around |-> FieldsLeft(f, k),
     place |-> Places[f].fields[k] + 6, end |-> Places[f].fields[k + 1],
     first |-> Places[f].ofField[k], last |-> Places[f].ofField[k + 1] - 1, code |-> Unset]

MethodTable(f, k) ==
    [owner |-> <<"method", k>>, around |-> MethodsLeft(f, k),
     place |-> Places[f].methods[k] + 6, end |-> Places[f].methods[k + 1],
     first |-> Places[f].ofMethod[k], last |-> Places[f].ofMethod[k + 1] - 1,
     code |-> Written[f].methods[k].code]

ClassTable(f) ==
    LET n == Len(Written[f].methods) + 1
    IN  [owner |-> <<"class", 0>>, around |-> << >>,
         place |-> Places[f].methods[n], end |-> Len(Content[f]) + 1,
         first |-> Places[f].ofMethod[n], last |-> Len(Written[f].attributes), code |-> Unset]

\* Behind attribute x of a table, n of it are left.
Ahead(f, t, x, n) ==
    IF n = 0 THEN x = t.last
    ELSE /\ x < t.last
         /\ Written[f].attributes[x + 1].owner = t.owner
         /\ Places[f].more[x + 1] = n - 1

\* The next attribute is one of the owner itself, ...
InOuter(f, t, calls, p, x, n) ==
    /\ calls = Append(t.around, Frame("attribute", n, t.owner))
    /\ t.first - 1 <= x /\ x <= t.last
    /\ p = IF x < t.first THEN t.place + 2 ELSE Behind(f, x)
    /\ Ahead(f, t, x, n)

\* ... or one in the code of attribute y, which is.
InCode(f, t, calls, p, x, y, n) ==
    /\ calls = Append(Append(t.around, Frame("attribute", Places[f].more[y], t.owner)),
                      Frame("attribute", n, <<"code", y>>))
    /\ t.first <= y /\ y <= x /\ x <= t.last
    /\ x = y + Inner(f, y) - n
    /\ Written[f].attributes[y].owner = t.owner
    /\ p = Behind(f, x)

\* x attributes have been read, and the calls are at position p.
Among(f, t, calls, p, x) ==
    \/ \E n \in Nat : InOuter(f, t, calls, p, x, n)
    \/ \E n \in Nat : \E y \in 1 .. x : InCode(f, t, calls, p, x, y, n)

----------------------------------------------------------------------------
(* Where the parser stands. *)

ConstantsAhead(f, n) ==
    /\ at = "reading" /\ todo = Reads("constant", Len(Written[f].pool) - n)
    /\ PoolRead(f, class, n)
    /\ pos = Places[f].constants[n + 1]
    /\ second_double_or_long_part <=>
          n < Len(Written[f].pool) /\ Written[f].pool[n + 1].tag = Unset
    /\ class.fields = << >> /\ class.methods = << >> /\ class.attributes = << >>

InterfacesAhead(f) ==
    /\ at = "reading" /\ todo = Reads("interfaces", Len(Written[f].interfaces))
    /\ HeadRead(f, class)
    /\ pos = Places[f].constants[Len(Written[f].pool) + 1] + 8
    /\ class.fields = << >> /\ class.methods = << >> /\ class.attributes = << >>

FieldsAhead(f, k) ==
    /\ at = "reading" /\ todo = FieldsLeft(f, k)
    /\ FieldsRead(f, class, k) /\ class.methods = << >>
    /\ pos = Places[f].fields[k + 1]
    /\ AttributesRead(f, class, Places[f].ofField[k + 1] - 1)

InAttributes(f, t) ==
    /\ at = "reading"
    /\ AttributesRead(f, class, Len(class.attributes))
    /\ Among(f, t, todo, pos, Len(class.attributes))

InField(f, k) ==
    /\ FieldsRead(f, class, k) /\ class.methods = << >>
    /\ InAttributes(f, FieldTable(f, k))

MethodsAhead(f, k) ==
    /\ at = "reading" /\ todo = MethodsLeft(f, k)
    /\ MethodsRead(f, class, k)
    /\ pos = Places[f].methods[k + 1]
    /\ AttributesRead(f, class, Places[f].ofMethod[k + 1] - 1)

\* The words of the arguments of method k are being counted.
InSignature(f, k) ==
    /\ at = "signature" /\ todo = MethodsLeft(f, k - 1)
    /\ FieldsRead(f, class, Len(Written[f].fields))
    /\ Len(class.methods) = k
    /\ MethodsSoFar(f, class, k - 1)
    /\ class.methods[k] = [access |-> Written[f].methods[k].access,
                           name |-> Written[f].methods[k].name,
                           signature |-> Written[f].methods[k].signature,
                           nargs |-> Unset, c_attr |-> Unset]
    /\ pos = Places[f].methods[k] + 6
    /\ AttributesRead(f, class, Places[f].ofMethod[k] - 1)

InMethod(f, k) ==
    /\ c_attr_to_set = k
    /\ MethodsRead(f, class, k)
    /\ InAttributes(f, MethodTable(f, k))

InClass(f) ==
    /\ MethodsRead(f, class, Len(Written[f].methods))
    /\ InAttributes(f, ClassTable(f))

Done(f) ==
    /\ at = "parsed"
    /\ MethodsRead(f, class, Len(Written[f].methods))
    /\ AttributesRead(f, class, Len(Written[f].attributes))
    /\ class.name = Written[f].name
    /\ pos = Len(Content[f]) + 1

Begun == at = "start" /\ pos = 1 /\ class = NoClass

Members(f) ==
    \/ \E k \in 0 .. Len(Written[f].fields) : FieldsAhead(f, k)
    \/ \E k \in 1 .. Len(Written[f].fields) : InField(f, k)
    \/ \E k \in 0 .. Len(Written[f].methods) : MethodsAhead(f, k)
    \/ \E k \in 1 .. Len(Written[f].methods) : InSignature(f, k) \/ InMethod(f, k)

Progress(f) ==
    \/ Begun
    \/ \E n \in 0 .. Len(Written[f].pool) : ConstantsAhead(f, n)
    \/ /\ ~ second_double_or_long_part
       /\ InterfacesAhead(f) \/ Members(f) \/ InClass(f) \/ Done(f)

ParseInv ==
    /\ little_endian
    /\ at = "idle" => file = << >>
    /\ \A f \in DOMAIN Written : file = f =>
          /\ stream = Content[f]
          /\ Carried \/ Progress(f)

----------------------------------------------------------------------------
(* Numbers in a file. *)

\* The digits of a number, whatever how many.
LEMMA AllDigitsExist ==
    ASSUME NEW n \in Nat, NEW c \in Nat, NEW d \in [1 .. n -> Nat]
    PROVE  \E g : Digits(g, n, c, d) /\ g \in [0 .. n -> Nat]
    <1> DEFINE Good(m, g) == g \in [0 .. m -> Nat] /\ g[0] = 0
                             /\ \A k \in 1 .. m : g[k] = g[k - 1] * c + d[k]
               X == {m \in 0 .. n : \A g : ~ Good(m, g)}
    <1>1. X = {}
        <2> SUFFICES ASSUME X # {} PROVE FALSE
            OBVIOUS
        <2>1. X \in SUBSET Nat
            OBVIOUS
        <2>2. PICK m \in X : \A k \in X : m <= k
            <3> HIDE DEF X
            <3> QED
                BY <2>1, LeastNumber
        <2>3. m # 0
            <3>1. Good(0, [k \in 0 .. 0 |-> 0])
                OBVIOUS
            <3> QED
                BY <3>1
        <2>4. PICK l \in 0 .. n : l = m - 1 /\ m = l + 1
            BY <2>3
        <2>5. PICK g : Good(l, g)
            <3>1. l \notin X /\ l \in 0 .. n
                <4> HIDE DEF X
                <4> QED
                    BY <2>1, <2>2, <2>4
            <3> HIDE DEF Good
            <3> QED
                BY <3>1
        <2>6. PICK v \in Nat : v = g[l] * c + d[m]
            <3>1. PICK a \in Nat, b \in Nat : a = g[l] /\ b = d[m]
                BY <2>4, <2>5
            <3> QED
                BY <3>1
        <2> DEFINE h == [k \in 0 .. m |-> IF k = m THEN v ELSE g[k]]
        <2>7. Good(m, h)
            <3>1. h \in [0 .. m -> Nat] /\ h[0] = 0
                BY <2>3, <2>4, <2>5
            <3>2. \A k \in 1 .. l : h[k] = g[k] /\ h[k - 1] = g[k - 1]
                BY <2>4
            <3>3. h[m] = v /\ h[m - 1] = g[l]
                BY <2>3, <2>4
            <3>4. \A k \in 1 .. m : k \in 1 .. l \/ k = m
                BY <2>4
            <3> HIDE DEF h
            <3> QED
                BY <2>5, <2>6, <3>1, <3>2, <3>3, <3>4
        <2> HIDE DEF h
        <2> QED
            BY <2>2, <2>7
    <1>2. PICK g : Good(n, g)
        <2> HIDE DEF Good
        <2> QED
            BY <1>1, n \in 0 .. n
    <1>3. g = [k \in 0 .. n |-> g[k]]
        BY <1>2
    <1>4. \A k \in 0 .. n : g[k] = IF k = 0 THEN 0 ELSE g[k - 1] * c + d[k]
        BY <1>2
    <1> QED
        BY <1>2, <1>3, <1>4 DEF Digits

\* A position inside the file holds one of its bytes.
LEMMA ByteInFile ==
    ASSUME NEW f \in Files, NEW p
    PROVE  Byte(f, p) \in 0 .. ByteValues - 1
    <1> DEFINE S == 0 .. ByteValues - 1
    <1>1. Content[f] \in Seq(S) /\ 0 \in S
        BY FileAssumption
    <1> HIDE DEF S
    <1>2. p \in DOMAIN Content[f] => Content[f][p] \in S
        BY <1>1
    <1> QED
        BY <1>1, <1>2 DEF Byte, S

\* The number in a file is the value of its bytes as digits.
LEMMA NumberDigits ==
    ASSUME NEW f \in Files, NEW p, NEW n \in Nat
    PROVE  \E g : /\ Digits(g, n, ByteValues, [k \in 1 .. n |-> Byte(f, p + k - 1)])
                  /\ Number(f, p, n) = g[n]
    <1> DEFINE d == [k \in 1 .. n |-> Byte(f, p + k - 1)]
               Q(g) == g = [k \in 0 .. n |->
                               IF k = 0 THEN 0 ELSE g[k - 1] * ByteValues + Byte(f, p + k - 1)]
               g == CHOOSE h : Q(h)
    <1>1. ByteValues \in Nat /\ 0 .. ByteValues - 1 \subseteq Nat
        BY FileAssumption
    <1>2. d \in [1 .. n -> Nat]
        BY <1>1, ByteInFile
    <1>3. \A k \in 0 .. n : k # 0 => d[k] = Byte(f, p + k - 1)
        OBVIOUS
    <1>4. Number(f, p, n) = g[n]
        BY DEF Number
    <1> HIDE DEF d
    <1>5. PICK a : Digits(a, n, ByteValues, d)
        BY <1>1, <1>2, AllDigitsExist
    <1>6. Q(a)
        BY <1>3, <1>5 DEF Digits
    <1> HIDE DEF Q
    <1>7. Q(g)
        BY <1>6
    <1> HIDE DEF g
    <1>8. Digits(g, n, ByteValues, d)
        BY <1>3, <1>7 DEF Q, Digits
    <1> QED
        BY <1>4, <1>8 DEF d

\* The digits one by one.
LEMMA DigitStep ==
    ASSUME NEW n \in Nat, NEW c, NEW d, NEW g, Digits(g, n, c, d)
    PROVE  /\ g[0] = 0
           /\ \A k \in 1 .. n : g[k] = g[k - 1] * c + d[k]
    <1>1. \A k \in 0 .. n : g[k] = IF k = 0 THEN 0 ELSE g[k - 1] * c + d[k]
        BY DEF Digits
    <1>2. 0 \in 0 .. n /\ \A k \in 1 .. n : k \in 0 .. n /\ k # 0
        OBVIOUS
    <1> QED
        BY <1>1, <1>2, Zenon

\* Division is unique.
LEMMA DivisionUnique ==
    ASSUME NEW q \in Nat, NEW b \in Nat \ {0}, NEW r \in 0 .. b - 1
    PROVE  (q * b + r) \div b = q /\ (q * b + r) % b = r
    <1>1. PICK v \in Nat : v = q * b + r
        OBVIOUS
    <1>2. PICK d \in Int, s \in 0 .. b - 1 : v = b * d + s /\ d = v \div b /\ s = v % b
        OBVIOUS
    <1>3. PICK e \in Int : e = d - q
        OBVIOUS
    <1>4. b * e = r - s
        <2>1. PICK x \in Int, y \in Int : x = b * d /\ y = q * b
            OBVIOUS
        <2>2. b * (d - q) = x - y
            BY <2>1
        <2>3. v = x + s /\ v = y + r
            BY <1>1, <1>2, <2>1
        <2>4. b * e = x - y
            BY <1>3, <2>2
        <2> HIDE <1>1, <1>2, <1>3, <2>1, <2>2
        <2> QED
            BY <2>3, <2>4
    <1>5. ~ (e >= 1)
        <2> SUFFICES ASSUME e >= 1 PROVE FALSE
            OBVIOUS
        <2>1. b * e >= b
            OBVIOUS
        <2> QED
            BY <2>1, <1>4
    <1>6. ~ (e <= -1)
        <2> SUFFICES ASSUME e <= -1 PROVE FALSE
            OBVIOUS
        <2>1. b * e <= - b
            OBVIOUS
        <2> QED
            BY <2>1, <1>4
    <1>7. e = 0
        BY <1>5, <1>6
    <1>8. s = r /\ d = q
        BY <1>3, <1>4, <1>7
    <1> QED
        BY <1>1, <1>2, <1>8

\* A number above a digit d and the lower ones below it, whose weight is w.
Splits(v, w, b, q, d) ==
    /\ (v \div w) % b = d
    /\ \E s \in 0 .. w * b - 1 : v = q * (w * b) + s

\* A number, taken apart around one digit.
LEMMA NextDigit ==
    ASSUME NEW b \in Nat \ {0}, NEW w \in Nat \ {0}, NEW q \in Nat, NEW d \in 0 .. b - 1,
           NEW r \in 0 .. w - 1, NEW h, h = q * b + d, NEW v, v = h * w + r
    PROVE  Splits(v, w, b, q, d)
    <1>1. h \in Nat
        OBVIOUS
    <1>2. v \div w = h
        BY <1>1, DivisionUnique
    <1>3. h % b = d
        BY DivisionUnique
    <1>4. w * b \in Nat \ {0}
        OBVIOUS
    <1>5. d * w + r \in 0 .. w * b - 1
        <2>1. /\ d * w >= 0 /\ d * w <= (b - 1) * w /\ (b - 1) * w = w * b - w
            OBVIOUS
        <2>2. PICK x \in Int, y \in Int : x = d * w /\ y = w * b
            OBVIOUS
        <2>3. 0 <= x /\ x <= y - w
            BY <2>1, <2>2
        <2>4. x + r \in 0 .. y - 1
            BY <2>3
        <2> QED
            BY <2>2, <2>4
    <1>6. v = q * (w * b) + (d * w + r)
        OBVIOUS
    <1> QED
        BY <1>2, <1>3, <1>4, <1>5, <1>6 DEF Splits

\* The weights of the digits of at most four bytes.
LEMMA Weights ==
    /\ Weight[0] = 1
    /\ \A k \in 1 .. 4 : Weight[k] = Weight[k - 1] * ByteValues
    <1> DEFINE Q(f) == f = [k \in 0 .. u4 |-> IF k = 0 THEN 1 ELSE f[k - 1] * ByteValues]
    <1>1. PICK b \in Nat \ {0} : b = ByteValues
        BY FileAssumption
    <1>2. \E f : Q(f)
        <2> DEFINE g == [k \in 0 .. 4 |-> IF k = 0 THEN 1 ELSE IF k = 1 THEN b
                                          ELSE IF k = 2 THEN b * b
                                          ELSE IF k = 3 THEN b * b * b ELSE b * b * b * b]
        <2>1. ASSUME NEW k \in 0 .. 4
              PROVE  g[k] = IF k = 0 THEN 1 ELSE g[k - 1] * b
            <3>1. k = 0 \/ k = 1 \/ k = 2 \/ k = 3 \/ k = 4
                OBVIOUS
            <3>2. g[0] = 1 /\ g[1] = b /\ g[2] = b * b /\ g[3] = b * b * b /\ g[4] = b * b * b * b
                OBVIOUS
            <3>3. 1 * b = b
                OBVIOUS
            <3> HIDE DEF g
            <3> QED
                BY <3>1, <3>2, <3>3
        <2>2. g = [k \in 0 .. 4 |-> g[k]]
            OBVIOUS
        <2> HIDE DEF g
        <2>3. g = [k \in 0 .. 4 |-> IF k = 0 THEN 1 ELSE g[k - 1] * b]
            BY <2>1, <2>2
        <2> QED
            BY <1>1, <2>3 DEF u4
    <1>3. Weight = CHOOSE f : Q(f)
        BY DEF Weight
    <1> HIDE DEF Q
    <1>4. Q(Weight)
        BY <1>2, <1>3
    <1>5. Weight = [k \in 0 .. 4 |-> IF k = 0 THEN 1 ELSE Weight[k - 1] * b]
        BY <1>1, <1>4 DEF Q, u4
    <1>6. \A k \in 1 .. 4 : k \in 0 .. 4 /\ k # 0
        OBVIOUS
    <1>7. 0 \in 0 .. 4
        OBVIOUS
    <1> QED
        BY <1>1, <1>5, <1>6, <1>7

\* The number a machine of the other order makes of n bytes, as a sum.
LEMMA FreadDigits ==
    ASSUME NEW f \in Files, stream = Content[f], NEW p \in Int, NEW n \in 1 .. 4
    PROVE  \E c \in [1 .. n -> 0 .. ByteValues - 1], g \in [0 .. n -> Nat] :
               /\ \A k \in 1 .. n : c[k] = Byte(f, p + n - k)
               /\ g[0] = 0 /\ \A k \in 1 .. n : g[k] = g[k - 1] * ByteValues + c[k]
               /\ fread(p, n) = g[n]
    <1> DEFINE S == 0 .. ByteValues - 1
               c == [k \in 1 .. n |-> Byte(f, p + n - k)]
               Q(h) == h = [k \in 0 .. n |->
                               IF k = 0 THEN 0 ELSE h[k - 1] * ByteValues + ByteAt(p + n - k)]
               g == CHOOSE h : Q(h)
    <1>1. ByteValues \in Nat /\ S \subseteq Nat
        BY FileAssumption
    <1>2. \A x : ByteAt(x) = Byte(f, x)
        BY DEF ByteAt, Byte
    <1>3. \A x : Byte(f, x) \in S
        BY ByteInFile
    <1> HIDE DEF S
    <1>4. c \in [1 .. n -> S] /\ \A k \in 1 .. n : c[k] = ByteAt(p + n - k)
        BY <1>2, <1>3
    <1>5. fread(p, n) = g[n]
        BY DEF fread
    <1>6. \A k \in 1 .. n : c[k] = Byte(f, p + n - k)
        OBVIOUS
    <1> HIDE DEF c
    <1>7. c \in [1 .. n -> Nat]
        BY <1>1, <1>4
    <1>8. PICK a \in [0 .. n -> Nat] : Digits(a, n, ByteValues, c)
        <2>1. n \in Nat
            OBVIOUS
        <2> QED
            BY <2>1, <1>1, <1>7, AllDigitsExist, Zenon
    <1>9. \A k \in 0 .. n : k = 0 \/ k \in 1 .. n
        OBVIOUS
    <1>10. Q(a)
        BY <1>4, <1>8, <1>9 DEF Digits
    <1> HIDE DEF Q
    <1>11. Q(g)
        BY <1>10
    <1> HIDE DEF g
    <1>12. Digits(g, n, ByteValues, c)
        BY <1>4, <1>9, <1>11 DEF Q, Digits
    <1>13. g[0] = 0 /\ \A k \in 1 .. n : g[k] = g[k - 1] * ByteValues + c[k]
        BY <1>12, DigitStep
    <1>14. g \in [0 .. n -> Nat]
        <2>1. PICK b \in Nat : b = ByteValues
            BY <1>1
        <2>2. \A x \in Nat, y \in Nat : x * b + y \in Nat
            OBVIOUS
        <2>3. \A k \in 1 .. n : c[k] \in Nat
            BY <1>7
        <2>4. n = 1 \/ n = 2 \/ n = 3 \/ n = 4
            OBVIOUS
        <2>5. /\ g[0] \in Nat /\ g[1] \in Nat
              /\ n >= 2 => g[2] \in Nat
              /\ n >= 3 => g[3] \in Nat
              /\ n >= 4 => g[4] \in Nat
            <3>1. /\ g[1] = g[0] * b + c[1] /\ c[1] \in Nat
                  /\ n >= 2 => g[2] = g[1] * b + c[2] /\ c[2] \in Nat
                  /\ n >= 3 => g[3] = g[2] * b + c[3] /\ c[3] \in Nat
                  /\ n >= 4 => g[4] = g[3] * b + c[4] /\ c[4] \in Nat
                BY <1>13, <2>1, <2>3
            <3>2. g[0] \in Nat
                BY <1>13
            <3>3. g[1] \in Nat
                BY <2>2, <3>1, <3>2, Zenon
            <3>4. n >= 2 => g[2] \in Nat
                BY <2>2, <3>1, <3>3, Zenon
            <3>5. n >= 3 => g[3] \in Nat
                <4>1. n >= 3 => n >= 2
                    OBVIOUS
                <4> QED
                    BY <4>1, <2>2, <3>1, <3>4, Zenon
            <3>6. n >= 4 => g[4] \in Nat
                <4>1. n >= 4 => n >= 3
                    OBVIOUS
                <4> QED
                    BY <4>1, <2>2, <3>1, <3>5, Zenon
            <3> QED
                BY <3>2, <3>3, <3>4, <3>5, <3>6
        <2>6. \A k \in 0 .. n : k = 0 \/ k = 1 \/ (k = 2 /\ n >= 2) \/ (k = 3 /\ n >= 3) \/ (k = 4 /\ n >= 4)
            OBVIOUS
        <2>7. \A k \in 0 .. n : g[k] \in Nat
            BY <2>5, <2>6
        <2>8. g = [k \in 0 .. n |-> g[k]]
            BY <1>12 DEF Digits
        <2> QED
            BY <2>7, <2>8
    <1> QED
        BY <1>4, <1>5, <1>6, <1>13, <1>14 DEF S

\* Taking it apart gives the bytes in the order of the file.
LEMMA SwappedBytes ==
    ASSUME NEW f \in Files, stream = Content[f], NEW p \in Int, NEW n \in 1 .. 4
    PROVE  \A k \in 1 .. n : (fread(p, n) \div Weight[k - 1]) % ByteValues = Byte(f, p + k - 1)
    <1>1. PICK b \in Nat \ {0} : b = ByteValues
        BY FileAssumption
    <1>2. PICK c \in [1 .. n -> 0 .. b - 1], g \in [0 .. n -> Nat] :
              /\ \A k \in 1 .. n : c[k] = Byte(f, p + n - k)
              /\ \A k \in 1 .. n : g[k] = g[k - 1] * b + c[k]
              /\ fread(p, n) = g[n]
        <2>1. \E c \in [1 .. n -> 0 .. ByteValues - 1], g \in [0 .. n -> Nat] :
                  /\ \A k \in 1 .. n : c[k] = Byte(f, p + n - k)
                  /\ g[0] = 0 /\ \A k \in 1 .. n : g[k] = g[k - 1] * ByteValues + c[k]
                  /\ fread(p, n) = g[n]
            BY FreadDigits, Zenon
        <2> QED
            BY <1>1, <2>1, Zenon
    <1>8. \A k \in 1 .. n : c[k] \in 0 .. b - 1
        OBVIOUS
    <1>9. \A k \in 0 .. n : g[k] \in Nat
        OBVIOUS
    <1> DEFINE Rest(m) == \E r \in 0 .. Weight[m] - 1 : g[n] = g[n - m] * Weight[m] + r
    <1>3. \A k \in 0 .. 4 : Weight[k] \in Nat \ {0}
        BY WeightTyped
    <1>10. \A k \in 1 .. n : g[k] = g[k - 1] * b + c[k]
        BY <1>2
    <1> HIDE <1>2
    <1>4. ASSUME NEW m \in 0 .. 3, m < n, Rest(m)
          PROVE  (g[n] \div Weight[m]) % b = c[n - m] /\ Rest(m + 1)
        <2>1. m \in 0 .. n - 1 /\ m \in 0 .. 4
            BY <1>4
        <2>2. PICK w \in Nat \ {0} : w = Weight[m]
            <3> HIDE DEF Rest
            <3> QED
                BY <1>3, <2>1, Zenon
        <2>3. PICK r \in 0 .. w - 1 : g[n] = g[n - m] * w + r
            BY <1>4, <2>2
        <2> HIDE DEF Rest
        <2>12. n - m \in 1 .. n /\ n - m - 1 \in 0 .. n
            BY <2>1
        <2>4. PICK q \in Nat, e \in 0 .. b - 1 : q = g[n - m - 1] /\ e = c[n - m]
            BY <1>8, <1>9, <2>12, Zenon
        <2>13. g[n - m] = q * b + e
            BY <1>10, <2>4, <2>12, Zenon
        <2>9. PICK v, h : v = g[n] /\ h = g[n - m]
            OBVIOUS
        <2>10. h = q * b + e /\ v = h * w + r
            BY <2>3, <2>13, <2>9, Zenon
        <2>11. /\ (v \div w) % b = e
               /\ \E s \in 0 .. w * b - 1 : v = q * (w * b) + s
            <3>1. Splits(v, w, b, q, e)
                BY <2>10, NextDigit, Zenon
            <3> QED
                BY <3>1 DEF Splits
        <2>7. Weight[m + 1] = w * b
            <3>1. PICK k \in 1 .. 4 : k = m + 1 /\ k - 1 = m
                BY <2>1
            <3>2. Weight[k] = Weight[k - 1] * ByteValues
                BY Weights, Zenon
            <3>3. Weight[k] = Weight[m] * b
                BY <1>1, <3>1, <3>2, Zenon
            <3> QED
                BY <2>2, <3>1, <3>3, Zenon
        <2>8. n - m - 1 = n - (m + 1)
            OBVIOUS
        <2>14. \E s \in 0 .. Weight[m + 1] - 1 : g[n] = g[n - (m + 1)] * Weight[m + 1] + s
            BY <2>4, <2>7, <2>8, <2>9, <2>11, Zenon
        <2>15. (g[n] \div Weight[m]) % b = c[n - m]
            BY <2>2, <2>4, <2>9, <2>11, Zenon
        <2> QED
            BY <2>14, <2>15 DEF Rest
    <1>5. Rest(0)
        <2>1. g[n] \in Nat /\ n - 0 = n
            OBVIOUS
        <2>2. g[n] = g[n - 0] * 1 + 0 /\ 0 \in 0 .. 1 - 1
            BY <2>1
        <2> QED
            BY <2>2, Weights
    <1> HIDE DEF Rest
    <1>6. ASSUME NEW m \in 0 .. 3, m < n
          PROVE  (g[n] \div Weight[m]) % b = c[n - m]
        <2>1. m = 0 \/ m = 1 \/ m = 2 \/ m = 3
            OBVIOUS
        <2>2. (m >= 1 => Rest(1)) /\ (m >= 2 => Rest(2)) /\ (m >= 3 => Rest(3))
            <3>1. m >= 1 => Rest(0 + 1)
                BY <1>4, <1>5, <1>6
            <3>2. m >= 2 => Rest(1 + 1)
                BY <1>4, <1>6, <3>1
            <3>3. m >= 3 => Rest(2 + 1)
                BY <1>4, <1>6, <3>2
            <3> QED
                BY <3>1, <3>2, <3>3
        <2>3. Rest(m)
            BY <1>5, <2>1, <2>2
        <2> QED
            BY <1>4, <1>6, <2>3, Zenon
    <1>7. ASSUME NEW k \in 1 .. n
          PROVE  (fread(p, n) \div Weight[k - 1]) % ByteValues = Byte(f, p + k - 1)
        <2>1. k - 1 \in 0 .. 3 /\ k - 1 < n /\ n - (k - 1) \in 1 .. n
            OBVIOUS
        <2>2. p + n - (n - (k - 1)) = p + k - 1
            OBVIOUS
        <2>3. (g[n] \div Weight[k - 1]) % b = c[n - (k - 1)]
            BY <1>6, <2>1, Zenon
        <2>4. c[n - (k - 1)] = Byte(f, p + k - 1)
            BY <1>2, <2>1, <2>2
        <2> QED
            BY <1>1, <1>2, <2>3, <2>4, Zenon
    <1> QED
        BY <1>7

\* What fread left in memory, swapped, is the number in the file.
LEMMA SwapIsNumber ==
    ASSUME NEW f \in Files, stream = Content[f], NEW p \in Int, NEW n \in 1 .. 4
    PROVE  bswap(n, fread(p, n)) = Number(f, p, n)
    <1> DEFINE v == fread(p, n)
               D(k) == (v \div Weight[k - 1]) % ByteValues
               Swapped(h) == [k \in 0 .. n |-> IF k = 0 THEN 0 ELSE h[k - 1] * ByteValues + D(k)]
               Counted(h) == [k \in 0 .. n |->
                    IF k = 0 THEN 0 ELSE h[k - 1] * ByteValues + Byte(f, p + k - 1)]
    <1>1. bswap(n, v) = (CHOOSE h : h = Swapped(h))[n]
        BY DEF bswap
    <1>2. Number(f, p, n) = (CHOOSE h : h = Counted(h))[n]
        BY DEF Number
    <1>3. \A k \in 1 .. n : D(k) = Byte(f, p + k - 1)
        BY SwappedBytes
    <1> HIDE DEF D, v
    <1>4. \A k \in 0 .. n : k = 0 \/ k \in 1 .. n
        OBVIOUS
    <1>5. \A h : Swapped(h) = Counted(h)
        BY <1>3, <1>4
    <1> HIDE DEF Swapped, Counted
    <1>6. (CHOOSE h : h = Swapped(h)) = (CHOOSE h : h = Counted(h))
        BY <1>5
    <1> QED
        BY <1>1, <1>2, <1>6 DEF v

\* On a little-endian machine read_e8, read_e16 and read_e32 give the number that
\* is in the file, highest byte first: fread and the swap undo each other.
LEMMA NumberTyped ==
    ASSUME NEW f \in Files, NEW p, NEW n \in 1 .. 4
    PROVE  Number(f, p, n) \in Nat
    <1> DEFINE d == [k \in 1 .. n |-> Byte(f, p + k - 1)]
               e == [k \in 1 .. 4 |-> IF k \in 1 .. n THEN d[k] ELSE 0]
    <1>1. ByteValues \in Nat /\ n \in Nat /\ 0 .. ByteValues - 1 \subseteq Nat
        BY FileAssumption
    <1>2. d \in [1 .. n -> Nat]
        BY <1>1, ByteInFile
    <1>3. PICK g : Digits(g, n, ByteValues, d) /\ Number(f, p, n) = g[n]
        BY <1>1, NumberDigits, Zenon
    <1> HIDE DEF d
    <1>4. e \in [1 .. 4 -> Nat] /\ \A k \in 1 .. n : e[k] = d[k]
        BY <1>1, <1>2
    <1> HIDE DEF e
    <1>5. Digits(g, n, ByteValues, e)
        <2>1. \A k \in 0 .. n : k # 0 => k \in 1 .. n
            OBVIOUS
        <2> QED
            BY <1>3, <1>4, <2>1 DEF Digits
    <1>6. n \in 0 .. 4
        OBVIOUS
    <1> QED
        BY <1>1, <1>3, <1>4, <1>5, <1>6, DigitsTyped

\* On a little-endian machine read_e8, read_e16 and read_e32 give the number that
\* is in the file, highest byte first: fread and the swap undo each other.
THEOREM ReadIsNumber ==
    ASSUME NEW f \in Files, stream = Content[f], little_endian, NEW p \in Int,
           NEW n \in {u1, u2, u4}
    PROVE  read_e(p, n) = Number(f, p, n) /\ Number(f, p, n) \in Nat
    <1>1. n \in 1 .. 4
        BY DEF u1, u2, u4
    <1> QED
        BY <1>1, SwapIsNumber, NumberTyped DEF read_e

\* A number of one byte, and one of two halves.
LEMMA OneByte ==
    ASSUME NEW f \in Files, NEW p \in Int
    PROVE  Number(f, p, u1) = Byte(f, p)
    <1>1. PICK g : /\ Digits(g, 1, ByteValues, [k \in 1 .. 1 |-> Byte(f, p + k - 1)])
                   /\ Number(f, p, 1) = g[1]
        BY NumberDigits, 1 \in Nat
    <1>2. PICK d : d = [k \in 1 .. 1 |-> Byte(f, p + k - 1)]
        OBVIOUS
    <1>3. 1 \in 1 .. 1 /\ d[1] = Byte(f, p) /\ Byte(f, p) \in Int
        BY <1>2, ByteInFile
    <1>4. g[0] = 0 /\ g[1] = g[1 - 1] * ByteValues + d[1]
        BY <1>1, <1>2, <1>3, DigitStep, 1 \in Nat
    <1>5. ByteValues \in Nat
        BY FileAssumption
    <1> QED
        BY <1>1, <1>3, <1>4, <1>5 DEF u1

----------------------------------------------------------------------------
(* Numbers in a row. *)

\* The sums of the first numbers.
SumsOf(x, m, s) == x = [k \in 0 .. m |-> IF k = 0 THEN 0 ELSE x[k - 1] + s[k]]

\* The sums of a row of numbers, whatever how many.
LEMMA SumsExist ==
    ASSUME NEW m \in Nat, NEW d \in [1 .. m -> Nat]
    PROVE  \E h : SumsOf(h, m, d) /\ h \in [0 .. m -> Nat]
    <1>1. PICK c : c = 1 /\ c \in Nat
        OBVIOUS
    <1>2. PICK g : Digits(g, m, c, d) /\ g \in [0 .. m -> Nat]
        BY <1>1, AllDigitsExist, Zenon
    <1>3. \A k \in 0 .. m : g[k] \in Nat
        BY <1>2
    <1>4. \A k \in 0 .. m : g[k] = IF k = 0 THEN 0 ELSE g[k - 1] + d[k]
        <2>1. \A k \in 0 .. m : g[k] = IF k = 0 THEN 0 ELSE g[k - 1] * c + d[k]
            BY <1>2 DEF Digits
        <2>2. \A k \in 0 .. m : k # 0 => k - 1 \in 0 .. m
            OBVIOUS
        <2>3. \A x \in Nat : x * c = x
            BY <1>1
        <2> QED
            BY <1>3, <2>1, <2>2, <2>3
    <1> QED
        BY <1>2, <1>4 DEF SumsOf, Digits

\* One number more is added to the sum before it.
LEMMA SumStep ==
    ASSUME NEW m \in Nat, NEW h, NEW s, SumsOf(h, m, s)
    PROVE  h[0] = 0 /\ \A k \in 1 .. m : h[k] = h[k - 1] + s[k]
    <1>1. \A k \in 0 .. m : h[k] = IF k = 0 THEN 0 ELSE h[k - 1] + s[k]
        BY DEF SumsOf
    <1>2. 0 \in 0 .. m /\ \A k \in 1 .. m : k \in 0 .. m /\ k # 0
        OBVIOUS
    <1> QED
        BY <1>1, <1>2, Zenon

\* What the numbers in front of a number take.
LEMMA TotalBefore ==
    ASSUME NEW ws \in Seq(Nat), NEW m \in 0 .. Len(ws)
    PROVE  \E h : /\ h[0] = 0 /\ \A k \in 1 .. m : h[k] = h[k - 1] + ws[k]
                  /\ Total(SubSeq(ws, 1, m)) = h[m]
    <1>1. m \in Nat /\ m <= Len(ws)
        OBVIOUS
    <1>2. PICK s : /\ s = SubSeq(ws, 1, m) /\ Len(s) = m
                   /\ \A k \in 1 .. m : s[k] = ws[k] /\ s[k] \in Nat
        <2>1. Len(SubSeq(ws, 1, m)) = m
            BY <1>1
        <2>2. \A k \in 1 .. m : SubSeq(ws, 1, m)[k] = ws[k] /\ ws[k] \in Nat
            BY <1>1
        <2> QED
            BY <2>1, <2>2
    <1>3. Total(s) = (CHOOSE g : SumsOf(g, m, s))[m]
        BY <1>2 DEF Total, SumsOf
    <1>4. PICK d \in [1 .. m -> Nat] : \A k \in 1 .. m : d[k] = s[k]
        <2> DEFINE d == [k \in 1 .. m |-> s[k]]
        <2>1. d \in [1 .. m -> Nat] /\ \A k \in 1 .. m : d[k] = s[k]
            BY <1>2
        <2> HIDE DEF d
        <2> QED
            BY <2>1
    <1>5. \E g : SumsOf(g, m, d)
        BY <1>1, SumsExist
    <1>6. \A g : SumsOf(g, m, d) <=> SumsOf(g, m, s)
        <2>1. \A k \in 0 .. m : k = 0 \/ k \in 1 .. m
            OBVIOUS
        <2> QED
            BY <1>4, <2>1 DEF SumsOf
    <1>7. PICK h : h = (CHOOSE g : SumsOf(g, m, s)) /\ SumsOf(h, m, s)
        BY <1>5, <1>6, Zenon
    <1>8. h[0] = 0 /\ \A k \in 1 .. m : h[k] = h[k - 1] + s[k]
        BY <1>1, <1>7, SumStep
    <1> QED
        BY <1>2, <1>3, <1>7, <1>8, Zenon

\* The sums of the short rows that the parser asks for.
LEMMA FewTotals ==
    ASSUME NEW ws \in Seq(Nat)
    PROVE  /\ Total(SubSeq(ws, 1, 0)) = 0
           /\ Len(ws) >= 1 => Total(SubSeq(ws, 1, 1)) = ws[1]
           /\ Len(ws) >= 2 => Total(SubSeq(ws, 1, 2)) = ws[1] + ws[2]
           /\ Len(ws) >= 3 => Total(SubSeq(ws, 1, 3)) = ws[1] + ws[2] + ws[3]
    <1>1. Len(ws) \in Nat /\ \A k \in 1 .. Len(ws) : ws[k] \in Nat
        OBVIOUS
    <1>2. Total(SubSeq(ws, 1, 0)) = 0
        <2>1. 0 \in 0 .. Len(ws)
            BY <1>1
        <2> QED
            BY <2>1, TotalBefore
    <1>3. ASSUME Len(ws) >= 1 PROVE Total(SubSeq(ws, 1, 1)) = ws[1]
        <2>1. 1 \in 0 .. Len(ws)
            BY <1>1, <1>3
        <2>2. PICK h : /\ h[0] = 0 /\ \A k \in 1 .. 1 : h[k] = h[k - 1] + ws[k]
                       /\ Total(SubSeq(ws, 1, 1)) = h[1]
            BY <2>1, TotalBefore
        <2>3. h[1] = h[0] + ws[1] /\ ws[1] \in Nat
            BY <1>1, <1>3, <2>2
        <2> QED
            BY <2>2, <2>3
    <1>4. ASSUME Len(ws) >= 2 PROVE Total(SubSeq(ws, 1, 2)) = ws[1] + ws[2]
        <2>1. 2 \in 0 .. Len(ws)
            BY <1>1, <1>4
        <2>2. PICK h : /\ h[0] = 0 /\ \A k \in 1 .. 2 : h[k] = h[k - 1] + ws[k]
                       /\ Total(SubSeq(ws, 1, 2)) = h[2]
            BY <2>1, TotalBefore
        <2>3. h[1] = h[0] + ws[1] /\ ws[1] \in Nat /\ h[2] = h[1] + ws[2]
            BY <1>1, <1>4, <2>2
        <2> QED
            BY <2>2, <2>3
    <1>5. ASSUME Len(ws) >= 3 PROVE Total(SubSeq(ws, 1, 3)) = ws[1] + ws[2] + ws[3]
        <2>1. 3 \in 0 .. Len(ws)
            BY <1>1, <1>5
        <2>2. PICK h : /\ h[0] = 0 /\ \A k \in 1 .. 3 : h[k] = h[k - 1] + ws[k]
                       /\ Total(SubSeq(ws, 1, 3)) = h[3]
            BY <2>1, TotalBefore
        <2>3. h[1] = h[0] + ws[1] /\ ws[1] \in Nat /\ h[2] = h[1] + ws[2] /\ h[3] = h[2] + ws[3]
            BY <1>1, <1>5, <2>2
        <2> QED
            BY <2>2, <2>3
    <1> QED
        BY <1>2, <1>3, <1>4, <1>5

\* A valid file is open.
Open(f) == f \in Files /\ stream = Content[f] /\ little_endian

\* The numbers of a row.
LEMMA RowIsNumbers ==
    ASSUME NEW f, Open(f), NEW p \in Int, NEW ws \in Seq({u1, u2, u4}), NEW k \in 1 .. Len(ws),
           NEW before \in Nat, Total(SubSeq(ws, 1, k - 1)) = before
    PROVE  /\ ReadFrom(p, ws)[k] = Number(f, p + before, ws[k])
           /\ Number(f, p + before, ws[k]) \in Nat
    <1>1. k \in DOMAIN ws /\ ws[k] \in {u1, u2, u4}
        OBVIOUS
    <1>2. ReadFrom(p, ws)[k] = read_e(p + before, ws[k])
        BY <1>1 DEF ReadFrom
    <1>3. p + before \in Int
        OBVIOUS
    <1> QED
        BY <1>1, <1>2, <1>3, ReadIsNumber DEF Open

\* The widths that are read are numbers of bytes.
LEMMA WidthsTyped ==
    ASSUME NEW ws \in Seq({u1, u2, u4})
    PROVE  ws \in Seq(Nat)
    <1>1. {u1, u2, u4} \subseteq Nat
        BY DEF u1, u2, u4
    <1>2. PICK S \in SUBSET Nat : S = {u1, u2, u4}
        BY <1>1
    <1>3. ws \in Seq(S)
        BY <1>2
    <1>4. PICK n \in Nat : n = Len(ws) /\ ws \in [1 .. n -> S]
        BY <1>3
    <1>5. ws \in [1 .. n -> Nat]
        BY <1>2, <1>4
    <1> QED
        BY <1>4, <1>5

\* The first four numbers of a row that is read at once.
LEMMA FirstNumbers ==
    ASSUME NEW f, Open(f), NEW p \in Int, NEW ws \in Seq({u1, u2, u4})
    PROVE  /\ Len(ws) >= 1 => ReadFrom(p, ws)[1] = Number(f, p, ws[1])
           /\ Len(ws) >= 2 => ReadFrom(p, ws)[2] = Number(f, p + ws[1], ws[2])
           /\ Len(ws) >= 3 => ReadFrom(p, ws)[3] = Number(f, p + (ws[1] + ws[2]), ws[3])
           /\ Len(ws) >= 4 => ReadFrom(p, ws)[4] = Number(f, p + (ws[1] + ws[2] + ws[3]), ws[4])
    <1>1. ws \in Seq(Nat) /\ Len(ws) \in Nat /\ \A k \in 1 .. Len(ws) : ws[k] \in Nat
        BY WidthsTyped
    <1>2. ASSUME Len(ws) >= 1 PROVE ReadFrom(p, ws)[1] = Number(f, p, ws[1])
        <2>1. 1 \in 1 .. Len(ws) /\ 1 - 1 = 0 /\ p + 0 = p /\ 0 \in Nat
            BY <1>1, <1>2
        <2>2. Total(SubSeq(ws, 1, 1 - 1)) = 0
            BY <1>1, <2>1, FewTotals
        <2>3. ReadFrom(p, ws)[1] = Number(f, p + 0, ws[1])
            BY <2>1, <2>2, RowIsNumbers
        <2> QED
            BY <2>1, <2>3
    <1>3. ASSUME Len(ws) >= 2 PROVE ReadFrom(p, ws)[2] = Number(f, p + ws[1], ws[2])
        <2>1. 2 \in 1 .. Len(ws) /\ 2 - 1 = 1 /\ Len(ws) >= 1 /\ ws[1] \in Nat
            BY <1>1, <1>3
        <2>2. Total(SubSeq(ws, 1, 2 - 1)) = ws[1]
            BY <1>1, <2>1, FewTotals
        <2> QED
            BY <2>1, <2>2, RowIsNumbers
    <1>4. ASSUME Len(ws) >= 3 PROVE ReadFrom(p, ws)[3] = Number(f, p + (ws[1] + ws[2]), ws[3])
        <2>1. 3 \in 1 .. Len(ws) /\ 3 - 1 = 2 /\ Len(ws) >= 2 /\ ws[1] + ws[2] \in Nat
            BY <1>1, <1>4
        <2>2. Total(SubSeq(ws, 1, 3 - 1)) = ws[1] + ws[2]
            BY <1>1, <2>1, FewTotals
        <2> QED
            BY <2>1, <2>2, RowIsNumbers
    <1>5. ASSUME Len(ws) >= 4
          PROVE  ReadFrom(p, ws)[4] = Number(f, p + (ws[1] + ws[2] + ws[3]), ws[4])
        <2>1. 4 \in 1 .. Len(ws) /\ 4 - 1 = 3 /\ Len(ws) >= 3 /\ ws[1] + ws[2] + ws[3] \in Nat
            BY <1>1, <1>5
        <2>2. Total(SubSeq(ws, 1, 4 - 1)) = ws[1] + ws[2] + ws[3]
            BY <1>1, <2>1, FewTotals
        <2> QED
            BY <2>1, <2>2, RowIsNumbers
    <1> QED
        BY <1>2, <1>3, <1>4, <1>5

\* As many numbers of two bytes as a table has items.
LEMMA PairsAreNumbers ==
    ASSUME NEW f, Open(f), NEW p \in Int, NEW n \in Nat,
           NEW ws, ws = [k \in 1 .. n |-> u2]
    PROVE  /\ ws \in Seq({u1, u2, u4}) /\ Len(ws) = n
           /\ \A k \in 1 .. n : ReadFrom(p, ws)[k] = Number(f, p + 2 * (k - 1), u2)
    <1>1. ws \in Seq({u1, u2, u4}) /\ Len(ws) = n
        <2>1. ws \in [1 .. n -> {u1, u2, u4}]
            OBVIOUS
        <2>2. ws \in Seq({u1, u2, u4})
            BY <2>1
        <2>3. DOMAIN ws = 1 .. n
            OBVIOUS
        <2> QED
            BY <2>2, <2>3
    <1>2. \A k \in 1 .. n : ws[k] = 2
        BY DEF u2
    <1>3. ASSUME NEW k \in 1 .. n
          PROVE  ReadFrom(p, ws)[k] = Number(f, p + 2 * (k - 1), u2)
        <2>8. ws \in Seq(Nat)
            BY <1>1, WidthsTyped
        <2>1. k - 1 \in 0 .. Len(ws) /\ ws \in Seq(Nat)
            BY <1>1, <2>8
        <2>2. PICK m \in 0 .. n : m = k - 1
            BY <1>1, <2>1
        <2>3. PICK h :
                  /\ h[0] = 0 /\ \A l \in 1 .. m : h[l] = h[l - 1] + ws[l]
                  /\ Total(SubSeq(ws, 1, m)) = h[m]
            BY <2>1, <2>2, TotalBefore
        <2>4. \A l \in 0 .. m : h[l] = 2 * l
            <3> DEFINE X == {l \in 0 .. m : h[l] # 2 * l}
            <3> SUFFICES ASSUME X # {} PROVE FALSE
                OBVIOUS
            <3>1. X \in SUBSET Nat
                OBVIOUS
            <3>2. PICK l \in X : \A j \in X : l <= j
                <4> HIDE DEF X
                <4> QED
                    BY <3>1, LeastNumber
            <3>3. l # 0
                BY <2>3
            <3>4. l \in 1 .. m /\ l - 1 \in 0 .. m /\ l - 1 \notin X
                <4>1. l \in 0 .. m
                    OBVIOUS
                <4> HIDE DEF X
                <4> QED
                    BY <3>1, <3>2, <3>3, <4>1
            <3>5. h[l - 1] = 2 * (l - 1)
                BY <3>4
            <3>6. h[l] = h[l - 1] + 2
                <4>1. l \in 1 .. n
                    BY <3>4
                <4>2. h[l] = h[l - 1] + ws[l]
                    BY <2>3, <3>4
                <4> QED
                    BY <1>2, <4>1, <4>2
            <3>7. h[l] = 2 * l
                BY <3>4, <3>5, <3>6
            <3> QED
                BY <3>7
        <2>5. h[m] = 2 * m /\ 2 * m \in Nat
            BY <2>2, <2>4
        <2>6. Total(SubSeq(ws, 1, k - 1)) = 2 * (k - 1) /\ 2 * (k - 1) \in Nat
            BY <2>2, <2>3, <2>5
        <2>7. ReadFrom(p, ws)[k] = Number(f, p + 2 * (k - 1), ws[k])
            <3>1. k \in 1 .. Len(ws)
                BY <1>1
            <3>2. PICK before \in Nat : before = 2 * (k - 1)
                BY <2>6
            <3>4. Total(SubSeq(ws, 1, k - 1)) = before /\ ws \in Seq({u1, u2, u4})
                BY <1>1, <2>6, <3>2
            <3>3. ReadFrom(p, ws)[k] = Number(f, p + before, ws[k])
                BY <3>1, <3>4, RowIsNumbers
            <3> QED
                BY <3>2, <3>3
        <2> QED
            BY <1>2, <2>7 DEF u2
    <1> QED
        BY <1>1, <1>3

\* A number of eight bytes has two halves.
LEMMA Regroup ==
    ASSUME NEW h \in Nat, NEW w \in Nat, NEW m \in Nat, NEW b \in Nat, NEW d \in Nat
    PROVE  (h * w + m) * b + d = h * (w * b) + (m * b + d)
    <1>1. (h * w + m) * b = h * w * b + m * b
        OBVIOUS
    <1>2. h * w * b = h * (w * b)
        OBVIOUS
    <1>3. PICK x \in Nat, y \in Nat, z \in Nat :
              x = (h * w + m) * b /\ y = h * (w * b) /\ z = m * b
        OBVIOUS
    <1>4. x = y + z
        BY <1>1, <1>2, <1>3
    <1>5. x + d = y + (z + d)
        BY <1>4
    <1> QED
        BY <1>3, <1>5

\* A number in a file, byte by byte.
LEMMA NumberSteps ==
    ASSUME NEW f \in Files, NEW p \in Int, NEW n \in Nat
    PROVE  \E g : /\ g[0] = 0 /\ Number(f, p, n) = g[n]
                  /\ \A k \in 1 .. n : g[k] = g[k - 1] * ByteValues + Byte(f, p + k - 1)
    <1> DEFINE d == [k \in 1 .. n |-> Byte(f, p + k - 1)]
    <1>1. \A k \in 1 .. n : d[k] = Byte(f, p + k - 1)
        OBVIOUS
    <1>2. PICK g : Digits(g, n, ByteValues, d) /\ Number(f, p, n) = g[n]
        BY NumberDigits
    <1> HIDE DEF d
    <1>3. g[0] = 0 /\ \A k \in 1 .. n : g[k] = g[k - 1] * ByteValues + d[k]
        BY <1>2, DigitStep
    <1> QED
        BY <1>1, <1>2, <1>3

\* Eight bytes are two numbers of four.
LEMMA Halves ==
    ASSUME NEW f \in Files, NEW p \in Int
    PROVE  Number(f, p, 8) = Number(f, p, 4) * Weight[4] + Number(f, p + 4, 4)
    <1>1. PICK b \in Nat : b = ByteValues
        BY FileAssumption
    <1>2. \A x : Byte(f, x) \in Nat
        <2>1. 0 .. b - 1 \subseteq Nat
            BY <1>1
        <2> QED
            BY <1>1, <2>1, ByteInFile
    <1>3. PICK g : /\ g[0] = 0 /\ Number(f, p, 8) = g[8]
                   /\ \A k \in 1 .. 8 : g[k] = g[k - 1] * b + Byte(f, p + k - 1)
        <2>1. PICK n \in Nat, q \in Int : n = 8 /\ q = p
            OBVIOUS
        <2>2. \E h : /\ h[0] = 0 /\ Number(f, q, n) = h[n]
                     /\ \A k \in 1 .. n : h[k] = h[k - 1] * ByteValues + Byte(f, q + k - 1)
            BY NumberSteps, Zenon
        <2> QED
            BY <1>1, <2>1, <2>2
    <1>4. PICK a : /\ a[0] = 0 /\ Number(f, p, 4) = a[4]
                   /\ \A k \in 1 .. 4 : a[k] = a[k - 1] * b + Byte(f, p + k - 1)
        <2>1. PICK n \in Nat, q \in Int : n = 4 /\ q = p
            OBVIOUS
        <2>2. \E h : /\ h[0] = 0 /\ Number(f, q, n) = h[n]
                     /\ \A k \in 1 .. n : h[k] = h[k - 1] * ByteValues + Byte(f, q + k - 1)
            BY NumberSteps, Zenon
        <2> QED
            BY <1>1, <2>1, <2>2
    <1>5. PICK e : /\ e[0] = 0 /\ Number(f, p + 4, 4) = e[4]
                   /\ \A k \in 1 .. 4 : e[k] = e[k - 1] * b + Byte(f, p + 4 + k - 1)
        <2>1. PICK n \in Nat, q \in Int : n = 4 /\ q = p + 4
            OBVIOUS
        <2>2. \E h : /\ h[0] = 0 /\ Number(f, q, n) = h[n]
                     /\ \A k \in 1 .. n : h[k] = h[k - 1] * ByteValues + Byte(f, q + k - 1)
            BY NumberSteps, Zenon
        <2> QED
            BY <1>1, <2>1, <2>2
    <1>6. a[4] = g[4]
        <2>1. /\ a[1] = a[0] * b + Byte(f, p + 1 - 1) /\ g[1] = g[0] * b + Byte(f, p + 1 - 1)
              /\ a[2] = a[1] * b + Byte(f, p + 2 - 1) /\ g[2] = g[1] * b + Byte(f, p + 2 - 1)
              /\ a[3] = a[2] * b + Byte(f, p + 3 - 1) /\ g[3] = g[2] * b + Byte(f, p + 3 - 1)
              /\ a[4] = a[3] * b + Byte(f, p + 4 - 1) /\ g[4] = g[3] * b + Byte(f, p + 4 - 1)
            BY <1>3, <1>4
        <2>2. a[1] = g[1]
            BY <1>3, <1>4, <2>1, Zenon
        <2>3. a[2] = g[2]
            BY <2>1, <2>2, Zenon
        <2>4. a[3] = g[3]
            BY <2>1, <2>3, Zenon
        <2> QED
            BY <2>1, <2>4, Zenon
    <1>7. PICK h \in Nat : h = g[4]
        BY <1>4, <1>6, NumberTyped, 4 \in 1 .. 4
    <1>8. \A k \in 0 .. 4 : Weight[k] \in Nat
        BY WeightTyped
    <1> DEFINE Sum(k) == e[k] \in Nat /\ g[4 + k] = h * Weight[k] + e[k]
    <1>9. Sum(0)
        BY <1>5, <1>7, Weights
    <1>10. ASSUME NEW k \in 0 .. 3, Sum(k)
           PROVE  Sum(k + 1)
        <2>1. PICK w \in Nat, m \in Nat, d \in Nat :
                  w = Weight[k] /\ m = e[k] /\ d = Byte(f, p + 4 + k)
            <3>1. k \in 0 .. 4 /\ e[k] \in Nat
                BY <1>10
            <3> QED
                BY <1>2, <1>8, <3>1
        <2>2. g[4 + k] = h * w + m
            BY <1>10, <2>1
        <2> HIDE DEF Sum
        <2>3. PICK l \in 1 .. 4, o \in 1 .. 8 :
                  /\ l = k + 1 /\ l - 1 = k /\ o = 4 + k + 1 /\ o - 1 = 4 + k
                  /\ p + 4 + l - 1 = p + 4 + k /\ p + o - 1 = p + 4 + k
            OBVIOUS
        <2>4. e[l] = m * b + d
            BY <1>5, <2>1, <2>3, Zenon
        <2>5. g[o] = (h * w + m) * b + d
            BY <1>3, <2>1, <2>2, <2>3, Zenon
        <2>6. Weight[l] = w * b
            BY <1>1, <2>1, <2>3, Weights, Zenon
        <2>7. (h * w + m) * b + d = h * (w * b) + (m * b + d)
            BY Regroup
        <2>8. g[o] = h * Weight[l] + e[l]
            BY <2>4, <2>5, <2>6, <2>7, Zenon
        <2>9. e[l] \in Nat
            BY <2>4
        <2>10. o = 4 + (k + 1)
            BY <2>3
        <2> QED
            BY <2>3, <2>8, <2>9, <2>10, Zenon DEF Sum
    <1> HIDE DEF Sum
    <1>11. Sum(1) /\ Sum(2) /\ Sum(3) /\ Sum(4)
        <2>1. Sum(0 + 1)
            BY <1>9, <1>10
        <2>2. Sum(1 + 1)
            BY <2>1, <1>10
        <2>3. Sum(2 + 1)
            BY <2>2, <1>10
        <2>4. Sum(3 + 1)
            BY <2>3, <1>10
        <2> QED
            BY <2>1, <2>2, <2>3, <2>4
    <1>12. g[4 + 4] = h * Weight[4] + e[4]
        BY <1>11 DEF Sum
    <1>13. 4 + 4 = 8
        OBVIOUS
    <1> QED
        BY <1>3, <1>4, <1>5, <1>6, <1>7, <1>12, <1>13, Zenon

----------------------------------------------------------------------------
(* The format of a valid file, part by part. *)

\* A sequence is typed by its own elements.
LEMMA ListIsSequence ==
    ASSUME NEW s, IsList(s)
    PROVE  IsSequence(s) /\ Len(s) \in Nat /\ DOMAIN s = 1 .. Len(s)
    <1>1. IsSequence(s)
        BY DEF IsList, IsSequence
    <1> QED
        BY <1>1, SequenceTyped

\* Sequences with the same elements are the same.
LEMMA SameSequence ==
    ASSUME NEW s, IsSequence(s), NEW t, IsSequence(t), Len(s) = Len(t),
           \A k \in 1 .. Len(s) : s[k] = t[k]
    PROVE  s = t
    <1>1. PICK S : s \in Seq(S)
        BY DEF IsSequence
    <1>2. PICK T : t \in Seq(T)
        BY DEF IsSequence
    <1>3. s = [k \in 1 .. Len(s) |-> s[k]] /\ t = [k \in 1 .. Len(t) |-> t[k]]
        BY <1>1, <1>2
    <1> QED
        BY <1>3

\* What the assumption on valid files says of one of them.
LEMMA FileFormat ==
    ASSUME NEW f \in DOMAIN Written
    PROVE  /\ IsPool(f) /\ IsHead(f) /\ f \in Files /\ f # << >>
           /\ \A x \in 1 .. Len(Written[f].attributes) : IsAttribute(f, x)
           /\ \A k \in 1 .. Len(Written[f].fields) : IsField(f, k)
           /\ \A k \in 1 .. Len(Written[f].methods) : IsMethodAt(f, k)
           /\ \A s \in {Written[f].pool, Written[f].interfaces, Written[f].fields,
                         Written[f].methods, Written[f].attributes} :
                 IsSequence(s) /\ Len(s) \in Nat /\ DOMAIN s = 1 .. Len(s)
    <1>1. IsClassFile(f)
        BY WrittenAssumption
    <1>2. /\ IsPool(f) /\ IsHead(f)
          /\ IsList(Written[f].fields) /\ IsList(Written[f].methods) /\ IsList(Written[f].attributes)
          /\ \A x \in 1 .. Len(Written[f].attributes) : IsAttribute(f, x)
          /\ \A k \in 1 .. Len(Written[f].fields) : IsField(f, k)
          /\ \A k \in 1 .. Len(Written[f].methods) : IsMethodAt(f, k)
        BY <1>1 DEF IsClassFile
    <1>3. IsList(Written[f].pool) /\ IsList(Written[f].interfaces)
        BY <1>2 DEF IsPool, IsHead
    <1>4. f \in Files /\ f \in STRING \X STRING
        BY FileAssumption
    <1>5. f # << >>
        <2>1. f = <<f[1], f[2]>>
            BY <1>4
        <2>2. PICK a, b : f = <<a, b>>
            BY <2>1
        <2>3. Len(<< >>) = 0 /\ Len(<<a, b>>) = 2
            OBVIOUS
        <2> QED
            BY <2>2, <2>3
    <1> QED
        BY <1>2, <1>3, <1>4, <1>5, ListIsSequence

\* The lengths and the places.
LEMMA PlacesTyped ==
    ASSUME NEW f \in DOMAIN Written
    PROVE  /\ Len(Written[f].pool) \in Nat \ {0} /\ Len(Written[f].fields) \in Nat
           /\ Len(Written[f].methods) \in Nat /\ Len(Written[f].attributes) \in Nat
           /\ \A x \in 1 .. Len(Written[f].pool) + 1 : Places[f].constants[x] \in Nat
           /\ \A k \in 1 .. Len(Written[f].fields) + 1 :
                 Places[f].fields[k] \in Nat /\ Places[f].ofField[k] \in Nat
           /\ \A k \in 1 .. Len(Written[f].methods) + 1 :
                 Places[f].methods[k] \in Nat /\ Places[f].ofMethod[k] \in Nat
           /\ \A x \in 1 .. Len(Written[f].attributes) :
                 Places[f].attributes[x] \in Nat /\ Places[f].more[x] \in Nat
    <1>1. IsClassFile(f)
        BY WrittenAssumption
    <1>2. PICK F \in Nat, M \in Nat, A \in Nat, P \in Nat :
              /\ F = Len(Written[f].fields) /\ M = Len(Written[f].methods)
              /\ A = Len(Written[f].attributes) /\ P = Len(Written[f].pool)
        BY FileFormat
    <1>3. Places[f].constants \in [1 .. P + 1 -> Nat] /\ P # 0
        <2>1. Places[f].constants \in [1 .. P + 1 -> Nat] /\ Written[f].pool # << >>
            BY <1>2, FileFormat DEF IsPool
        <2>2. P # 0
            BY <1>2, <2>1, FileFormat, EmptySequence, SameSequence
        <2> QED
            BY <2>1, <2>2
    <1>4. /\ Places[f].attributes \in [1 .. A -> Nat] /\ Places[f].more \in [1 .. A -> Nat]
          /\ Places[f].fields \in [1 .. F + 1 -> Nat] /\ Places[f].ofField \in [1 .. F + 1 -> Nat]
          /\ Places[f].methods \in [1 .. M + 1 -> Nat]
          /\ Places[f].ofMethod \in [1 .. M + 1 -> Nat]
        BY <1>1, <1>2 DEF IsClassFile
    <1> QED
        BY <1>2, <1>3, <1>4

\* The parser does not read behind the end.
LEMMA GoesOn ==
    ASSUME NEW n \in Nat, NEW skip, NEW there, GoOn(n, skip, there), pos \in Int,
           Len(stream) \in Int, pos + n <= Len(stream) + 1
    PROVE  pos' = pos + n + skip /\ at' = there
    BY DEF GoOn, Past

----------------------------------------------------------------------------
(* Tables of attributes. *)

GoodTable(f, t) ==
    /\ f \in DOMAIN Written
    /\ t.first \in Nat /\ t.last \in Int /\ t.place \in Nat
    /\ IsTable(f, t.owner, t.place, t.first, t.last, t.end)
    /\ HasCodeAt(f, t.owner, t.code, t.first, t.last)
    /\ \A y : t.owner # <<"code", y>>

\* The tables of the fields, of the methods and of the class are tables.
LEMMA TablesGood ==
    ASSUME NEW f \in DOMAIN Written
    PROVE  /\ \A k \in 1 .. Len(Written[f].fields) : GoodTable(f, FieldTable(f, k))
           /\ \A k \in 1 .. Len(Written[f].methods) : GoodTable(f, MethodTable(f, k))
           /\ GoodTable(f, ClassTable(f))
    <1>1. /\ \A y, k : <<"field", k>> # <<"code", y>>
          /\ \A y, k : <<"method", k>> # <<"code", y>>
          /\ \A y, k : <<"class", k>> # <<"code", y>>
        <2>1. \A y, k : /\ <<"field", k>>[1] = "field" /\ <<"class", k>>[1] = "class"
                        /\ <<"code", y>>[1] = "code" /\ <<"method", k>>[1] = "method"
            OBVIOUS
        <2> QED
            BY <2>1
    <1>2. PICK F \in Nat, M \in Nat, A \in Nat :
              /\ F = Len(Written[f].fields) /\ M = Len(Written[f].methods)
              /\ A = Len(Written[f].attributes)
        BY PlacesTyped
    <1>3. ASSUME NEW k \in 1 .. F
          PROVE  GoodTable(f, FieldTable(f, k))
        <2>1. IsField(f, k)
            BY <1>2, FileFormat
        <2>2. /\ Places[f].ofField[k] \in Nat /\ Places[f].ofField[k + 1] \in Nat
              /\ Places[f].fields[k] \in Nat
            <3>1. k \in 1 .. F + 1 /\ k + 1 \in 1 .. F + 1
                OBVIOUS
            <3> QED
                BY <1>2, <3>1, PlacesTyped
        <2>3. PICK a, b, p, o, e :
                  /\ a \in Nat /\ b \in Nat /\ p \in Nat
                  /\ a = Places[f].ofField[k] /\ b = Places[f].ofField[k + 1]
                  /\ p = Places[f].fields[k] /\ o = <<"field", k>> /\ e = Places[f].fields[k + 1]
            BY <2>2
        <2>4. IsTable(f, o, p + 6, a, b - 1, e) /\ HasCodeAt(f, o, Unset, a, b - 1)
            BY <2>1, <2>3 DEF IsField, IsMember
        <2>5. PICK t : t = FieldTable(f, k)
            OBVIOUS
        <2>6. /\ t.owner = o /\ t.place = p + 6 /\ t.end = e /\ t.first = a /\ t.last = b - 1
              /\ t.code = Unset
            BY <2>3, <2>5 DEF FieldTable
        <2> QED
            BY <1>1, <2>3, <2>4, <2>5, <2>6 DEF GoodTable
    <1>4. ASSUME NEW k \in 1 .. M
          PROVE  GoodTable(f, MethodTable(f, k))
        <2>1. IsMethodAt(f, k)
            BY <1>2, FileFormat
        <2>2. /\ Places[f].ofMethod[k] \in Nat /\ Places[f].ofMethod[k + 1] \in Nat
              /\ Places[f].methods[k] \in Nat
            <3>1. k \in 1 .. M + 1 /\ k + 1 \in 1 .. M + 1
                OBVIOUS
            <3> QED
                BY <1>2, <3>1, PlacesTyped
        <2>3. PICK a, b, p, o, e, c :
                  /\ a \in Nat /\ b \in Nat /\ p \in Nat
                  /\ a = Places[f].ofMethod[k] /\ b = Places[f].ofMethod[k + 1]
                  /\ p = Places[f].methods[k] /\ o = <<"method", k>> /\ e = Places[f].methods[k + 1]
                  /\ c = Written[f].methods[k].code
            BY <2>2
        <2>4. IsTable(f, o, p + 6, a, b - 1, e) /\ HasCodeAt(f, o, c, a, b - 1)
            BY <2>1, <2>3 DEF IsMethodAt, IsMember
        <2>5. PICK t : t = MethodTable(f, k)
            OBVIOUS
        <2>6. /\ t.owner = o /\ t.place = p + 6 /\ t.end = e /\ t.first = a /\ t.last = b - 1
              /\ t.code = c
            BY <2>3, <2>5 DEF MethodTable
        <2> QED
            BY <1>1, <2>3, <2>4, <2>5, <2>6 DEF GoodTable
    <1>5. GoodTable(f, ClassTable(f))
        <2>1. /\ Places[f].ofMethod[M + 1] \in Nat /\ Places[f].methods[M + 1] \in Nat
            <3>1. M + 1 \in 1 .. M + 1
                OBVIOUS
            <3> QED
                BY <1>2, <3>1, PlacesTyped
        <2>2. PICK a, p, o, e :
                  /\ a \in Nat /\ p \in Nat
                  /\ a = Places[f].ofMethod[M + 1] /\ p = Places[f].methods[M + 1]
                  /\ o = <<"class", 0>> /\ e = Len(Content[f]) + 1
            BY <2>1
        <2>3. IsTable(f, o, p, a, A, e) /\ HasCodeAt(f, o, Unset, a, A)
            <3>1. IsClassFile(f)
                BY WrittenAssumption
            <3> QED
                BY <1>2, <2>2, <3>1 DEF IsClassFile
        <2>4. PICK t : t = ClassTable(f)
            OBVIOUS
        <2>5. /\ t.owner = o /\ t.place = p /\ t.end = e /\ t.first = a /\ t.last = A
              /\ t.code = Unset
            BY <1>2, <2>2, <2>4 DEF ClassTable
        <2> QED
            BY <1>1, <1>2, <2>2, <2>3, <2>4, <2>5 DEF GoodTable
    <1> QED
        BY <1>2, <1>3, <1>4, <1>5

\* One attribute.
LEMMA AttributeFacts ==
    ASSUME NEW f \in DOMAIN Written, NEW x \in 1 .. Len(Written[f].attributes)
    PROVE  /\ Places[f].attributes[x] \in Nat /\ Places[f].more[x] \in Nat
           /\ Inner(f, x) \in Nat /\ Behind(f, x) \in Nat
           /\ Within(f, Places[f].attributes[x], Behind(f, x))
           /\ IsText(f, Places[f].attributes[x], Written[f].attributes[x].name)
           /\ Written[f].attributes[x].length = Number(f, Places[f].attributes[x] + 2, u4)
           /\ ~ IsCode(f, x) => Inner(f, x) = 0
    <1>1. IsAttribute(f, x)
        BY FileFormat
    <1>2. Places[f].attributes[x] \in Nat /\ Places[f].more[x] \in Nat
        BY PlacesTyped
    <1>3. PICK p \in Nat : p = Places[f].attributes[x]
        BY <1>2
    <1>4. f \in Files /\ 2 \in 1 .. 4 /\ 4 \in 1 .. 4
        BY FileFormat
    <1>5. \A q : Number(f, q, u2) \in Nat /\ Number(f, q, u4) \in Nat
        BY <1>4, NumberTyped DEF u2, u4
    <1>6. Inner(f, x) \in Nat
        BY <1>5 DEF Inner
    <1>7. Written[f].attributes[x].length = Number(f, p + 2, u4)
        BY <1>1, <1>3 DEF IsAttribute
    <1>8. InnerAt(f, p) \in Nat
        <2>1. PICK l \in Nat : l = CodeLength(f, p)
            BY <1>5 DEF CodeLength
        <2>2. PICK e \in Nat : e = Number(f, ExceptionsAt(f, p), u2)
            BY <1>5
        <2>3. InnerAt(f, p) = p + 14 + l + 2 + 8 * e
            BY <2>1, <2>2 DEF InnerAt, ExceptionsAt
        <2> QED
            BY <2>3
    <1>9. Behind(f, x) \in Nat
        <2>1. PICK l \in Nat, n \in Nat : l = Written[f].attributes[x].length /\ n = InnerAt(f, p)
            BY <1>5, <1>7, <1>8
        <2>2. Behind(f, x) \in {n + 2, p + 6 + l}
            BY <1>3, <2>1 DEF Behind
        <2> QED
            BY <2>2
    <1>10. IsText(f, p, Written[f].attributes[x].name) /\ Within(f, p, Behind(f, x))
        BY <1>1, <1>3 DEF IsAttribute
    <1> QED
        BY <1>2, <1>3, <1>6, <1>7, <1>9, <1>10 DEF Inner

\* The bounds of a table.
LEMMA TableBounds ==
    ASSUME NEW f, NEW t, GoodTable(f, t)
    PROVE  /\ f \in DOMAIN Written
           /\ t.first \in Nat /\ t.first >= 1 /\ t.last \in Int
           /\ t.last <= Len(Written[f].attributes)
           /\ t.first - 1 <= t.last /\ t.place \in Nat
           /\ \A x \in t.first .. t.last :
                 /\ x \in 1 .. Len(Written[f].attributes)
                 /\ x < t.last => Places[f].attributes[x + 1] = Behind(f, x)
                 /\ Written[f].attributes[x].owner = t.owner => InTable(f, t.owner, x, t.last)
                 /\ IsCode(f, x) <=> x = t.code
           /\ t.code # Unset => /\ t.code \in t.first .. t.last
                                /\ Written[f].attributes[t.code].owner = t.owner
    <1>1. f \in DOMAIN Written
        BY DEF GoodTable
    <1>7. PICK A \in Nat : A = Len(Written[f].attributes)
        BY <1>1, PlacesTyped
    <1>2. PICK a, b, o, p, e :
              /\ a \in Nat /\ b \in Int
              /\ a = t.first /\ b = t.last /\ o = t.owner /\ p = t.place /\ e = t.end /\ p \in Nat
        BY DEF GoodTable
    <1>3. IsTable(f, o, p, a, b, e) /\ HasCodeAt(f, o, t.code, a, b)
        BY <1>2 DEF GoodTable
    <1>4. /\ a >= 1 /\ b <= A /\ a - 1 <= b
          /\ \A x \in a .. b : /\ x < b => Places[f].attributes[x + 1] = Behind(f, x)
                               /\ Written[f].attributes[x].owner = o => InTable(f, o, x, b)
        BY <1>1, <1>2, <1>3, <1>7 DEF IsTable
    <1>5. \A x \in a .. b : x \in 1 .. A
        BY <1>1, <1>2, <1>4
    <1>6. /\ \A x \in a .. b : IsCode(f, x) <=> x = t.code
          /\ t.code # Unset => t.code \in a .. b /\ Written[f].attributes[t.code].owner = o
        BY <1>3 DEF HasCodeAt
    <1> QED
        BY <1>1, <1>2, <1>4, <1>5, <1>6, <1>7

\* In front of its first attribute, the whole table is ahead.
LEMMA TableBegins ==
    ASSUME NEW f, NEW t, GoodTable(f, t), NEW n, n = Number(f, t.place, u2)
    PROVE  /\ n \in Nat /\ Within(f, t.place, t.place + 2)
           /\ Among(f, t, Append(t.around, Frame("attribute", n, t.owner)), t.place + 2, t.first - 1)
    <1>1. PICK a, b, o, p, e :
              /\ a \in Nat /\ b \in Int
              /\ a = t.first /\ b = t.last /\ o = t.owner /\ p = t.place /\ e = t.end /\ p \in Nat
        BY DEF GoodTable
    <1>2. IsTable(f, o, p, a, b, e)
        BY <1>1 DEF GoodTable
    <1>3. n \in Nat
        <2>1. f \in Files /\ 2 \in 1 .. 4
            BY FileFormat DEF GoodTable
        <2> QED
            BY <2>1, NumberTyped DEF u2
    <1>4. a - 1 <= b /\ a \in Int /\ b <= Len(Written[f].attributes) /\ a >= 1
        BY <1>1, TableBounds
    <1>5. Ahead(f, t, a - 1, n)
        <2>1. CASE a > b
            <3>1. b = a - 1 /\ n = 0
                BY <1>1, <1>2, <2>1 DEF IsTable
            <3> QED
                BY <1>1, <3>1 DEF Ahead
        <2>2. CASE a <= b
            <3>1. ~ (a > b)
                BY <1>1, <2>2
            <3>2. /\ Written[f].attributes[a].owner = o
                  /\ Places[f].more[a] = n - 1
                BY <1>1, <1>2, <3>1 DEF IsTable
            <3>3. Places[f].more[a] \in Nat
                <4>1. a \in 1 .. Len(Written[f].attributes)
                    BY <1>1, <2>2, TableBounds
                <4> QED
                    BY <4>1, PlacesTyped DEF GoodTable
            <3>4. n # 0 /\ a - 1 < b /\ (a - 1) + 1 = a
                BY <1>1, <1>3, <2>2, <3>2, <3>3
            <3> QED
                BY <1>1, <3>2, <3>4 DEF Ahead
        <2> QED
            BY <1>1, <2>1, <2>2
    <1>6. a - 1 < a
        BY <1>1
    <1>7. InOuter(f, t, Append(t.around, Frame("attribute", n, t.owner)), t.place + 2, a - 1, n)
        BY <1>1, <1>4, <1>5, <1>6 DEF InOuter
    <1>8. Within(f, p, p + 2)
        BY <1>2 DEF IsTable
    <1> QED
        BY <1>1, <1>3, <1>7, <1>8 DEF Among

\* The next attribute of the owner.
LEMMA NextInOuter ==
    ASSUME NEW f, NEW t, GoodTable(f, t), NEW calls, NEW p, NEW x \in Int, NEW n \in Nat,
           InOuter(f, t, calls, p, x, n), n # 0
    PROVE  /\ x + 1 \in t.first .. t.last /\ x + 1 \in 1 .. Len(Written[f].attributes)
           /\ x + 1 <= t.last
           /\ p = Places[f].attributes[x + 1]
           /\ Written[f].attributes[x + 1].owner = t.owner
           /\ Places[f].more[x + 1] = n - 1
    <1>1. PICK a, b, o, q, e :
              /\ a \in Nat /\ b \in Int
              /\ a = t.first /\ b = t.last /\ o = t.owner /\ q = t.place /\ e = t.end /\ q \in Nat
        BY DEF GoodTable
    <1>2. /\ x < b /\ Written[f].attributes[x + 1].owner = o /\ Places[f].more[x + 1] = n - 1
          /\ a - 1 <= x
          /\ p = IF x < a THEN q + 2 ELSE Behind(f, x)
        BY <1>1 DEF InOuter, Ahead
    <1>3. x + 1 \in a .. b
        BY <1>1, <1>2
    <1>4. x + 1 \in 1 .. Len(Written[f].attributes)
        BY <1>1, <1>3, TableBounds
    <1>5. p = Places[f].attributes[x + 1]
        <2>1. CASE x < a
            <3>1. x + 1 = a /\ ~ (a > b)
                BY <1>1, <1>2, <2>1
            <3>2. Places[f].attributes[a] = q + 2
                BY <1>1, <3>1 DEF GoodTable, IsTable
            <3> QED
                BY <1>2, <2>1, <3>1, <3>2
        <2>2. CASE ~ (x < a)
            <3>1. x \in a .. b
                BY <1>1, <1>2, <2>2
            <3>2. Places[f].attributes[x + 1] = Behind(f, x)
                BY <1>1, <1>2, <3>1, TableBounds
            <3> QED
                BY <1>2, <2>2, <3>2
        <2> QED
            BY <2>1, <2>2
    <1> QED
        BY <1>1, <1>2, <1>3, <1>4, <1>5

\* Where the table of an owner goes on behind an attribute of it.
LEMMA AheadBehind ==
    ASSUME NEW f, NEW t, GoodTable(f, t), NEW x \in t.first .. t.last,
           Written[f].attributes[x].owner = t.owner, NEW z, z = x + Inner(f, x)
    PROVE  /\ z \in Int /\ x <= z /\ z <= t.last
           /\ Ahead(f, t, z, Places[f].more[x])
           /\ \A y \in x + 1 .. z : Written[f].attributes[y].owner = <<"code", x>>
    <1>1. PICK a, b, o :
              a \in Nat /\ b \in Int /\ a = t.first /\ b = t.last /\ o = t.owner
        BY DEF GoodTable
    <1>2. x \in 1 .. Len(Written[f].attributes) /\ InTable(f, o, x, b) /\ f \in DOMAIN Written
        BY <1>1, TableBounds
    <1>3. PICK m \in Nat, r \in Nat : m = Inner(f, x) /\ r = Places[f].more[x]
        BY <1>2, AttributeFacts
    <1>4. z \in Int /\ x <= z /\ x + 1 + m = z + 1 /\ z + 1 - 1 = z
        BY <1>3
    <1>5. /\ IF r = 0 THEN z + 1 = b + 1
             ELSE /\ z + 1 <= b /\ Written[f].attributes[z + 1].owner = o
                  /\ Places[f].more[z + 1] = r - 1
          /\ \A y \in x + 1 .. z : Written[f].attributes[y].owner = <<"code", x>>
        <2>1. PICK next : next = x + 1 + Inner(f, x)
            OBVIOUS
        <2>2. /\ IF Places[f].more[x] = 0 THEN next = b + 1
                 ELSE /\ next <= b /\ Written[f].attributes[next].owner = o
                      /\ Places[f].more[next] = Places[f].more[x] - 1
              /\ \A y \in x + 1 .. next - 1 : Written[f].attributes[y].owner = <<"code", x>>
            BY <1>2, <2>1 DEF InTable
        <2>3. next = z + 1
            BY <1>3, <1>4, <2>1
        <2> QED
            BY <1>3, <1>4, <2>2, <2>3
    <1>6. z <= b /\ Ahead(f, t, z, r)
        BY <1>1, <1>4, <1>5 DEF Ahead
    <1> QED
        BY <1>1, <1>3, <1>4, <1>5, <1>6

\* The next attribute in the code of attribute y.
NextOfCode(f, t, p, x, y, n) ==
    /\ x + 1 \in t.first .. t.last /\ x + 1 \in 1 .. Len(Written[f].attributes)
    /\ x + 1 <= t.last
    /\ p = Places[f].attributes[x + 1]
    /\ Written[f].attributes[x + 1].owner = <<"code", y>>
    /\ ~ IsCode(f, x + 1) /\ t.first <= y /\ x + 1 = y + Inner(f, y) - (n - 1)
    /\ Written[f].attributes[y].owner = t.owner

\* What follows an attribute of code.
LEMMA NextInCode ==
    ASSUME NEW f, NEW t, GoodTable(f, t), NEW calls, NEW p, NEW x \in Nat, NEW y \in Nat, 1 <= y, y <= x,
           NEW n \in Nat, InCode(f, t, calls, p, x, y, n), n # 0
    PROVE  NextOfCode(f, t, p, x, y, n)
    <1>1. PICK a, b, o :
              a \in Nat /\ b \in Int /\ a = t.first /\ b = t.last /\ o = t.owner
        BY DEF GoodTable
    <1>11. PICK m \in Nat : m = Inner(f, y)
        <2>1. y \in t.first .. t.last
            BY <1>1 DEF InCode
        <2> QED
            BY <2>1, TableBounds, AttributeFacts
    <1>2. /\ a <= y /\ y <= x /\ x <= b /\ x = y + m - n /\ p = Behind(f, x)
          /\ Written[f].attributes[y].owner = o
        BY <1>1, <1>11 DEF InCode
    <1>3. PICK z : z = y + m
        OBVIOUS
    <1>4. y \in a .. b
        BY <1>1, <1>2
    <1>5. /\ z <= b /\ \A k \in y + 1 .. z : Written[f].attributes[k].owner = <<"code", y>>
        BY <1>1, <1>2, <1>3, <1>4, <1>11, AheadBehind
    <1>6. x + 1 \in y + 1 .. z /\ x + 1 <= b /\ x < b /\ x \in a .. b /\ x + 1 \in a .. b
        BY <1>1, <1>2, <1>3, <1>5, <1>11
    <1>7. Written[f].attributes[x + 1].owner = <<"code", y>>
        BY <1>5, <1>6
    <1>8. x + 1 \in 1 .. Len(Written[f].attributes) /\ Places[f].attributes[x + 1] = Behind(f, x)
        BY <1>1, <1>6, TableBounds
    <1>9. ~ IsCode(f, x + 1)
        <2> SUFFICES ASSUME IsCode(f, x + 1) PROVE FALSE
            OBVIOUS
        <2>1. x + 1 = t.code
            BY <1>1, <1>6, TableBounds
        <2>2. t.code # Unset
            BY <2>1 DEF Unset
        <2>3. Written[f].attributes[x + 1].owner = t.owner
            BY <2>1, <2>2, TableBounds
        <2> QED
            BY <1>7, <2>3 DEF GoodTable
    <1>10. x + 1 = y + m - (n - 1)
        BY <1>2, <1>11
    <1> QED
        BY <1>1, <1>11, <1>2, <1>6, <1>7, <1>8, <1>9, <1>10 DEF NextOfCode

\* An attribute of the owner that is not code has been read.
LEMMA PlainInOuter ==
    ASSUME NEW f, NEW t, GoodTable(f, t), NEW calls, NEW p, NEW x \in Int, NEW n \in Nat,
           InOuter(f, t, calls, p, x, n), n # 0, ~ IsCode(f, x + 1)
    PROVE  InOuter(f, t, Append(t.around, Frame("attribute", n - 1, t.owner)),
                   Behind(f, x + 1), x + 1, n - 1)
    <1>1. /\ x + 1 \in t.first .. t.last /\ x + 1 \in 1 .. Len(Written[f].attributes)
          /\ Written[f].attributes[x + 1].owner = t.owner /\ Places[f].more[x + 1] = n - 1
        BY NextInOuter
    <1>2. PICK a \in Nat, b \in Int : a = t.first /\ b = t.last
        BY DEF GoodTable
    <1>3. Inner(f, x + 1) = 0 /\ f \in DOMAIN Written
        BY <1>1, AttributeFacts DEF GoodTable
    <1>4. x + 1 = (x + 1) + Inner(f, x + 1)
        BY <1>3
    <1>5. Ahead(f, t, x + 1, n - 1)
        BY <1>1, <1>4, AheadBehind
    <1>6. a - 1 <= x + 1 /\ x + 1 <= b /\ ~ (x + 1 < a)
        BY <1>1, <1>2
    <1> QED
        BY <1>2, <1>5, <1>6 DEF InOuter

\* An attribute within code was read: the next one, or the end of the code.
LEMMA PlainInCode ==
    ASSUME NEW f, NEW t, GoodTable(f, t), NEW calls, NEW p, NEW x \in Nat, NEW y \in 1 .. x,
           NEW n \in Nat, InCode(f, t, calls, p, x, y, n), n # 0
    PROVE  /\ y \in 1 .. x + 1
           /\ InCode(f, t, Append(Append(t.around, Frame("attribute", Places[f].more[y], t.owner)),
                                  Frame("attribute", n - 1, <<"code", y>>)),
                     Behind(f, x + 1), x + 1, y, n - 1)
    <1>1. /\ t.first <= y /\ x + 1 <= t.last /\ x + 1 = y + Inner(f, y) - (n - 1)
          /\ Written[f].attributes[y].owner = t.owner
        <2>1. y \in Nat /\ 1 <= y /\ y <= x
            OBVIOUS
        <2>2. NextOfCode(f, t, p, x, y, n)
            BY <2>1, NextInCode, Zenon
        <2> QED
            BY <2>2 DEF NextOfCode
    <1>2. y <= x + 1 /\ y \in 1 .. x + 1
        OBVIOUS
    <1> QED
        BY <1>1, <1>2 DEF InCode

\* The code of the owner has been read up to its own attributes.
LEMMA CodeInOuter ==
    ASSUME NEW f, NEW t, GoodTable(f, t), NEW calls, NEW p, NEW x \in Nat, NEW n \in Nat,
           InOuter(f, t, calls, p, x, n), n # 0
    PROVE  InCode(f, t, Append(Append(t.around, Frame("attribute", n - 1, t.owner)),
                               Frame("attribute", Inner(f, x + 1), <<"code", x + 1>>)),
                  Behind(f, x + 1), x + 1, x + 1, Inner(f, x + 1))
    <1>1. /\ x + 1 \in t.first .. t.last /\ x + 1 \in 1 .. Len(Written[f].attributes)
          /\ Written[f].attributes[x + 1].owner = t.owner /\ Places[f].more[x + 1] = n - 1
          /\ x + 1 <= t.last
        BY NextInOuter
    <1>2. Inner(f, x + 1) \in Nat
        BY <1>1, AttributeFacts DEF GoodTable
    <1>3. x + 1 = x + 1 + Inner(f, x + 1) - Inner(f, x + 1)
        BY <1>2
    <1>4. t.first <= x + 1 /\ x + 1 <= x + 1
        BY <1>1 DEF GoodTable
    <1> QED
        BY <1>1, <1>3, <1>4 DEF InCode

\* The attributes in a code have been read.
LEMMA CodeDone ==
    ASSUME NEW f, NEW t, GoodTable(f, t), NEW calls, NEW p, NEW x \in Nat, NEW y \in 1 .. x,
           InCode(f, t, calls, p, x, y, 0)
    PROVE  InOuter(f, t, Append(t.around, Frame("attribute", Places[f].more[y], t.owner)),
                   p, x, Places[f].more[y])
    <1>1. PICK a \in Nat, b \in Int : a = t.first /\ b = t.last
        BY DEF GoodTable
    <1>2. y \in a .. b /\ x <= b
        BY <1>1 DEF InCode
    <1>3. PICK m \in Nat : m = Inner(f, y)
        BY <1>1, <1>2, TableBounds, AttributeFacts
    <1>4. /\ x = y + m - 0 /\ Written[f].attributes[y].owner = t.owner /\ p = Behind(f, x)
        BY <1>3 DEF InCode
    <1>5. x = y + m
        BY <1>3, <1>4
    <1>6. Ahead(f, t, x, Places[f].more[y])
        BY <1>1, <1>2, <1>3, <1>4, <1>5, AheadBehind
    <1>7. a - 1 <= x /\ ~ (x < a)
        BY <1>1, <1>2
    <1> QED
        BY <1>1, <1>2, <1>4, <1>6, <1>7 DEF InOuter

\* The table has been read.
LEMMA TableDone ==
    ASSUME NEW f, NEW t, GoodTable(f, t), NEW calls, NEW p, NEW x \in Int,
           InOuter(f, t, calls, p, x, 0)
    PROVE  x = t.last /\ p = t.end
    <1>1. PICK a, b, o, q, e :
              /\ a \in Nat /\ b \in Int
              /\ a = t.first /\ b = t.last /\ o = t.owner /\ q = t.place /\ e = t.end
        BY DEF GoodTable
    <1>2. x = b /\ p = IF x < a THEN q + 2 ELSE Behind(f, x)
        BY <1>1 DEF InOuter, Ahead
    <1>3. IF a > b THEN e = q + 2 ELSE e = Behind(f, b)
        BY <1>1 DEF GoodTable, IsTable
    <1>4. x < a <=> a > b
        BY <1>1, <1>2
    <1> QED
        BY <1>1, <1>2, <1>3, <1>4

\* The rows of numbers that the parser reads at once.
LEMMA Rows ==
    ASSUME NEW f, Open(f), stream \in Seq(Nat), NEW p \in Int
    PROVE  /\ ReadFrom(p, <<u2>>) = << Number(f, p, u2) >>
           /\ Total(<<u2>>) = 2
           /\ ReadFrom(p, <<u4>>) = << Number(f, p, u4) >>
           /\ Total(<<u4>>) = 4
           /\ ReadFrom(p, <<u2, u2>>) = << Number(f, p, u2), Number(f, p + 2, u2) >>
           /\ Total(<<u2, u2>>) = 4
           /\ ReadFrom(p, <<u4, u4>>) = << Number(f, p, u4), Number(f, p + 4, u4) >>
           /\ Total(<<u4, u4>>) = 8
           /\ ReadFrom(p, <<u2, u2, u2>>) = << Number(f, p, u2), Number(f, p + 2, u2), Number(f, p + 4, u2) >>
           /\ Total(<<u2, u2, u2>>) = 6
           /\ ReadFrom(p, <<u2, u2, u4>>) = << Number(f, p, u2), Number(f, p + 2, u2), Number(f, p + 4, u4) >>
           /\ Total(<<u2, u2, u4>>) = 8
           /\ ReadFrom(p, <<u2, u2, u2, u2>>) = << Number(f, p, u2), Number(f, p + 2, u2), Number(f, p + 4, u2), Number(f, p + 6, u2) >>
    <1>1. /\ ReadFrom(p, <<u2>>) = << Number(f, p, u2) >>
          /\ Total(<<u2>>) = 2
        <2>1. /\ <<u2>> \in Seq({u1, u2, u4}) /\ Len(<<u2>>) = 1
              /\ <<u2>>[1] = u2
            OBVIOUS
        <2>2. PICK ws : ws = <<u2>>
            OBVIOUS
        <2>3. /\ ws \in Seq({u1, u2, u4}) /\ Len(ws) = 1 /\ ws[1] = u2
            BY <2>1, <2>2
        <2>4. Len(ws) >= 1
            BY <2>3
        <2>5. PICK r : r = ReadFrom(p, ws) /\ r \in Seq(Nat) /\ Len(r) = 1
            BY <2>3, ReadNumbers
        <2>6. /\ ReadFrom(p, ws)[1] = Number(f, p, ws[1])
            BY <2>3, <2>4, FirstNumbers, Zenon
        <2>8. r = << Number(f, p, u2) >>
            BY <2>3, <2>5, <2>6
        <2>9. ws \in Seq(Nat)
            BY <2>3, WidthsTyped
        <2>10. SubSeq(ws, 1, 1) = ws
            BY <2>3, <2>9
        <2>11. Total(SubSeq(ws, 1, 1)) = ws[1]
            BY <2>4, <2>9, FewTotals, Zenon
        <2>12. Total(ws) = 2
            <3>1. ws[1] = 2
                BY <2>3 DEF u2, u4
            <3> QED
                BY <2>10, <2>11, <3>1
        <2> QED
            BY <2>2, <2>5, <2>8, <2>12
    <1>2. /\ ReadFrom(p, <<u4>>) = << Number(f, p, u4) >>
          /\ Total(<<u4>>) = 4
        <2>1. /\ <<u4>> \in Seq({u1, u2, u4}) /\ Len(<<u4>>) = 1
              /\ <<u4>>[1] = u4
            OBVIOUS
        <2>2. PICK ws : ws = <<u4>>
            OBVIOUS
        <2>3. /\ ws \in Seq({u1, u2, u4}) /\ Len(ws) = 1 /\ ws[1] = u4
            BY <2>1, <2>2
        <2>4. Len(ws) >= 1
            BY <2>3
        <2>5. PICK r : r = ReadFrom(p, ws) /\ r \in Seq(Nat) /\ Len(r) = 1
            BY <2>3, ReadNumbers
        <2>6. /\ ReadFrom(p, ws)[1] = Number(f, p, ws[1])
            BY <2>3, <2>4, FirstNumbers, Zenon
        <2>8. r = << Number(f, p, u4) >>
            BY <2>3, <2>5, <2>6
        <2>9. ws \in Seq(Nat)
            BY <2>3, WidthsTyped
        <2>10. SubSeq(ws, 1, 1) = ws
            BY <2>3, <2>9
        <2>11. Total(SubSeq(ws, 1, 1)) = ws[1]
            BY <2>4, <2>9, FewTotals, Zenon
        <2>12. Total(ws) = 4
            <3>1. ws[1] = 4
                BY <2>3 DEF u2, u4
            <3> QED
                BY <2>10, <2>11, <3>1
        <2> QED
            BY <2>2, <2>5, <2>8, <2>12
    <1>3. /\ ReadFrom(p, <<u2, u2>>) = << Number(f, p, u2), Number(f, p + 2, u2) >>
          /\ Total(<<u2, u2>>) = 4
        <2>1. /\ <<u2, u2>> \in Seq({u1, u2, u4}) /\ Len(<<u2, u2>>) = 2
              /\ <<u2, u2>>[1] = u2
              /\ <<u2, u2>>[2] = u2
            OBVIOUS
        <2>2. PICK ws : ws = <<u2, u2>>
            OBVIOUS
        <2>3. /\ ws \in Seq({u1, u2, u4}) /\ Len(ws) = 2 /\ ws[1] = u2 /\ ws[2] = u2
            BY <2>1, <2>2
        <2>4. Len(ws) >= 1 /\ Len(ws) >= 2
            BY <2>3
        <2>5. PICK r : r = ReadFrom(p, ws) /\ r \in Seq(Nat) /\ Len(r) = 2
            BY <2>3, ReadNumbers
        <2>6. /\ ReadFrom(p, ws)[1] = Number(f, p, ws[1])
              /\ ReadFrom(p, ws)[2] = Number(f, p + ws[1], ws[2])
            BY <2>3, <2>4, FirstNumbers, Zenon
        <2>7. p + ws[1] = p + 2
            BY <2>3 DEF u2, u4
        <2>8. r = << Number(f, p, u2), Number(f, p + 2, u2) >>
            BY <2>3, <2>5, <2>6, <2>7
        <2>9. ws \in Seq(Nat)
            BY <2>3, WidthsTyped
        <2>10. SubSeq(ws, 1, 2) = ws
            BY <2>3, <2>9
        <2>11. Total(SubSeq(ws, 1, 2)) = ws[1] + ws[2]
            BY <2>4, <2>9, FewTotals, Zenon
        <2>12. Total(ws) = 4
            <3>1. ws[1] + ws[2] = 4
                BY <2>3 DEF u2, u4
            <3> QED
                BY <2>10, <2>11, <3>1
        <2> QED
            BY <2>2, <2>5, <2>8, <2>12
    <1>4. /\ ReadFrom(p, <<u4, u4>>) = << Number(f, p, u4), Number(f, p + 4, u4) >>
          /\ Total(<<u4, u4>>) = 8
        <2>1. /\ <<u4, u4>> \in Seq({u1, u2, u4}) /\ Len(<<u4, u4>>) = 2
              /\ <<u4, u4>>[1] = u4
              /\ <<u4, u4>>[2] = u4
            OBVIOUS
        <2>2. PICK ws : ws = <<u4, u4>>
            OBVIOUS
        <2>3. /\ ws \in Seq({u1, u2, u4}) /\ Len(ws) = 2 /\ ws[1] = u4 /\ ws[2] = u4
            BY <2>1, <2>2
        <2>4. Len(ws) >= 1 /\ Len(ws) >= 2
            BY <2>3
        <2>5. PICK r : r = ReadFrom(p, ws) /\ r \in Seq(Nat) /\ Len(r) = 2
            BY <2>3, ReadNumbers
        <2>6. /\ ReadFrom(p, ws)[1] = Number(f, p, ws[1])
              /\ ReadFrom(p, ws)[2] = Number(f, p + ws[1], ws[2])
            BY <2>3, <2>4, FirstNumbers, Zenon
        <2>7. p + ws[1] = p + 4
            BY <2>3 DEF u2, u4
        <2>8. r = << Number(f, p, u4), Number(f, p + 4, u4) >>
            BY <2>3, <2>5, <2>6, <2>7
        <2>9. ws \in Seq(Nat)
            BY <2>3, WidthsTyped
        <2>10. SubSeq(ws, 1, 2) = ws
            BY <2>3, <2>9
        <2>11. Total(SubSeq(ws, 1, 2)) = ws[1] + ws[2]
            BY <2>4, <2>9, FewTotals, Zenon
        <2>12. Total(ws) = 8
            <3>1. ws[1] + ws[2] = 8
                BY <2>3 DEF u2, u4
            <3> QED
                BY <2>10, <2>11, <3>1
        <2> QED
            BY <2>2, <2>5, <2>8, <2>12
    <1>5. /\ ReadFrom(p, <<u2, u2, u2>>) = << Number(f, p, u2), Number(f, p + 2, u2), Number(f, p + 4, u2) >>
          /\ Total(<<u2, u2, u2>>) = 6
        <2>1. /\ <<u2, u2, u2>> \in Seq({u1, u2, u4}) /\ Len(<<u2, u2, u2>>) = 3
              /\ <<u2, u2, u2>>[1] = u2
              /\ <<u2, u2, u2>>[2] = u2
              /\ <<u2, u2, u2>>[3] = u2
            OBVIOUS
        <2>2. PICK ws : ws = <<u2, u2, u2>>
            OBVIOUS
        <2>3. /\ ws \in Seq({u1, u2, u4}) /\ Len(ws) = 3 /\ ws[1] = u2 /\ ws[2] = u2 /\ ws[3] = u2
            BY <2>1, <2>2
        <2>4. Len(ws) >= 1 /\ Len(ws) >= 2 /\ Len(ws) >= 3
            BY <2>3
        <2>5. PICK r : r = ReadFrom(p, ws) /\ r \in Seq(Nat) /\ Len(r) = 3
            BY <2>3, ReadNumbers
        <2>6. /\ ReadFrom(p, ws)[1] = Number(f, p, ws[1])
              /\ ReadFrom(p, ws)[2] = Number(f, p + ws[1], ws[2])
              /\ ReadFrom(p, ws)[3] = Number(f, p + (ws[1] + ws[2]), ws[3])
            BY <2>3, <2>4, FirstNumbers, Zenon
        <2>7. p + ws[1] = p + 2 /\ p + (ws[1] + ws[2]) = p + 4
            BY <2>3 DEF u2, u4
        <2>8. r = << Number(f, p, u2), Number(f, p + 2, u2), Number(f, p + 4, u2) >>
            BY <2>3, <2>5, <2>6, <2>7
        <2>9. ws \in Seq(Nat)
            BY <2>3, WidthsTyped
        <2>10. SubSeq(ws, 1, 3) = ws
            BY <2>3, <2>9
        <2>11. Total(SubSeq(ws, 1, 3)) = ws[1] + ws[2] + ws[3]
            BY <2>4, <2>9, FewTotals, Zenon
        <2>12. Total(ws) = 6
            <3>1. ws[1] + ws[2] + ws[3] = 6
                BY <2>3 DEF u2, u4
            <3> QED
                BY <2>10, <2>11, <3>1
        <2> QED
            BY <2>2, <2>5, <2>8, <2>12
    <1>6. /\ ReadFrom(p, <<u2, u2, u4>>) = << Number(f, p, u2), Number(f, p + 2, u2), Number(f, p + 4, u4) >>
          /\ Total(<<u2, u2, u4>>) = 8
        <2>1. /\ <<u2, u2, u4>> \in Seq({u1, u2, u4}) /\ Len(<<u2, u2, u4>>) = 3
              /\ <<u2, u2, u4>>[1] = u2
              /\ <<u2, u2, u4>>[2] = u2
              /\ <<u2, u2, u4>>[3] = u4
            OBVIOUS
        <2>2. PICK ws : ws = <<u2, u2, u4>>
            OBVIOUS
        <2>3. /\ ws \in Seq({u1, u2, u4}) /\ Len(ws) = 3 /\ ws[1] = u2 /\ ws[2] = u2 /\ ws[3] = u4
            BY <2>1, <2>2
        <2>4. Len(ws) >= 1 /\ Len(ws) >= 2 /\ Len(ws) >= 3
            BY <2>3
        <2>5. PICK r : r = ReadFrom(p, ws) /\ r \in Seq(Nat) /\ Len(r) = 3
            BY <2>3, ReadNumbers
        <2>6. /\ ReadFrom(p, ws)[1] = Number(f, p, ws[1])
              /\ ReadFrom(p, ws)[2] = Number(f, p + ws[1], ws[2])
              /\ ReadFrom(p, ws)[3] = Number(f, p + (ws[1] + ws[2]), ws[3])
            BY <2>3, <2>4, FirstNumbers, Zenon
        <2>7. p + ws[1] = p + 2 /\ p + (ws[1] + ws[2]) = p + 4
            BY <2>3 DEF u2, u4
        <2>8. r = << Number(f, p, u2), Number(f, p + 2, u2), Number(f, p + 4, u4) >>
            BY <2>3, <2>5, <2>6, <2>7
        <2>9. ws \in Seq(Nat)
            BY <2>3, WidthsTyped
        <2>10. SubSeq(ws, 1, 3) = ws
            BY <2>3, <2>9
        <2>11. Total(SubSeq(ws, 1, 3)) = ws[1] + ws[2] + ws[3]
            BY <2>4, <2>9, FewTotals, Zenon
        <2>12. Total(ws) = 8
            <3>1. ws[1] + ws[2] + ws[3] = 8
                BY <2>3 DEF u2, u4
            <3> QED
                BY <2>10, <2>11, <3>1
        <2> QED
            BY <2>2, <2>5, <2>8, <2>12
    <1>7. /\ ReadFrom(p, <<u2, u2, u2, u2>>) = << Number(f, p, u2), Number(f, p + 2, u2), Number(f, p + 4, u2), Number(f, p + 6, u2) >>
        <2>1. /\ <<u2, u2, u2, u2>> \in Seq({u1, u2, u4}) /\ Len(<<u2, u2, u2, u2>>) = 4
              /\ <<u2, u2, u2, u2>>[1] = u2
              /\ <<u2, u2, u2, u2>>[2] = u2
              /\ <<u2, u2, u2, u2>>[3] = u2
              /\ <<u2, u2, u2, u2>>[4] = u2
            OBVIOUS
        <2>2. PICK ws : ws = <<u2, u2, u2, u2>>
            OBVIOUS
        <2>3. /\ ws \in Seq({u1, u2, u4}) /\ Len(ws) = 4 /\ ws[1] = u2 /\ ws[2] = u2 /\ ws[3] = u2 /\ ws[4] = u2
            BY <2>1, <2>2
        <2>4. Len(ws) >= 1 /\ Len(ws) >= 2 /\ Len(ws) >= 3 /\ Len(ws) >= 4
            BY <2>3
        <2>5. PICK r : r = ReadFrom(p, ws) /\ r \in Seq(Nat) /\ Len(r) = 4
            BY <2>3, ReadNumbers
        <2>6. /\ ReadFrom(p, ws)[1] = Number(f, p, ws[1])
              /\ ReadFrom(p, ws)[2] = Number(f, p + ws[1], ws[2])
              /\ ReadFrom(p, ws)[3] = Number(f, p + (ws[1] + ws[2]), ws[3])
              /\ ReadFrom(p, ws)[4] = Number(f, p + (ws[1] + ws[2] + ws[3]), ws[4])
            BY <2>3, <2>4, FirstNumbers, Zenon
        <2>7. p + ws[1] = p + 2 /\ p + (ws[1] + ws[2]) = p + 4 /\ p + (ws[1] + ws[2] + ws[3]) = p + 6
            BY <2>3 DEF u2, u4
        <2>8. r = << Number(f, p, u2), Number(f, p + 2, u2), Number(f, p + 4, u2), Number(f, p + 6, u2) >>
            BY <2>3, <2>5, <2>6, <2>7
        <2> QED
            BY <2>2, <2>5, <2>8
    <1> QED
        BY <1>1, <1>2, <1>3, <1>4, <1>5, <1>6, <1>7

----------------------------------------------------------------------------
(* The beginning of a valid file. *)

\* What the parser knows while it reads a valid file.
Reading(f) == f \in DOMAIN Written /\ Open(f) /\ FileInv

\* What holds whenever a valid file is read.
LEMMA ReadingFacts ==
    ASSUME NEW f, Reading(f)
    PROVE  /\ f \in DOMAIN Written /\ f \in Files /\ stream = Content[f] /\ little_endian
           /\ Open(f) /\ pos \in Nat /\ Len(stream) \in Nat /\ Len(Content[f]) \in Nat
           /\ DOMAIN Content[f] = 1 .. Len(Content[f])
           /\ \A p, n : n \in {u1, u2, u4} => Number(f, p, n) \in Nat
           /\ IsSequence(class.pool) /\ Len(class.pool) \in Nat
           /\ DOMAIN class.pool = 1 .. Len(class.pool)
    <1>1. stream \in Seq(Nat) /\ pos \in Nat
        BY DEF Reading, FileInv, Numbers
    <1>2. f \in DOMAIN Written /\ f \in Files /\ stream = Content[f] /\ little_endian /\ Open(f)
        BY DEF Reading, Open
    <1>3. \A n \in {u1, u2, u4} : n \in 1 .. 4
        BY DEF u1, u2, u4
    <1>4. \A p, n : n \in {u1, u2, u4} => Number(f, p, n) \in Nat
        BY <1>2, <1>3, NumberTyped
    <1>5. IsSequence(class.pool)
        BY DEF Reading, FileInv, ClassOK, PartsOK, EntriesOK
    <1> QED
        BY <1>1, <1>2, <1>4, <1>5, SequenceTyped

\* The kinds of parts that stay when a step leaves them alone.
LEMMA BeginStep ==
    ASSUME NEW f, Reading(f), Begun, ~ second_double_or_long_part, Parse
    PROVE  ConstantsAhead(f, 0)'
    <1>1. PICK L \in Nat \ {0} : L = Len(Written[f].pool)
        BY PlacesTyped DEF Reading
    <1>2. /\ Places[f].constants[1] = 11 /\ Len(Content[f]) >= 10 /\ Number(f, 1, u4) = MAGIC
          /\ Number(f, 9, u2) = L + 1 /\ IsConstant(f, 1)
        <2>1. IsPool(f) /\ 1 \in 1 .. L
            BY <1>1, FileFormat DEF Reading
        <2> QED
            BY <1>1, <2>1 DEF IsPool
    <1>3. ~ NotAClassFile
        <2>1. bswap(u4, fread(1, u4)) = MAGIC
            <3>1. u4 \in 1 .. 4 /\ 1 \in Int
                BY DEF u4
            <3> QED
                BY <1>2, <3>1, ReadingFacts, SwapIsNumber
        <2> QED
            BY <2>1 DEF NotAClassFile, magic, Begun
    <1>4. parse_file
        BY <1>3, AtTable DEF Parse, Begun, BadMagic, SecondPart, parse_constant, parse_Utf8,
            WrongTag, ClassHead, parse_interfaces, parse_field, ThenMethods, parse_method,
            ScanSignature, ScanFails, MethodAttributes, ThenAttributes, WrongName,
            parse_ConstantValue_attribute, parse_Code_attribute, SkipAttribute,
            AttributesDone, Finish, At, Constant, Attribute
    <1>5. ReadFrom(pos + u4, <<u2, u2, u2>>)[3] = L + 1
        <2>1. pos + u4 = 5 /\ 5 + 4 = 9 /\ 5 \in Int
            BY DEF Begun, u4
        <2>2. stream \in Seq(Nat) /\ Open(f)
            BY DEF Reading, FileInv, Numbers
        <2>3. ReadFrom(5, <<u2, u2, u2>>) = << Number(f, 5, u2), Number(f, 5 + 2, u2), Number(f, 5 + 4, u2) >>
            BY <2>1, <2>2, Rows
        <2> QED
            BY <1>2, <2>1, <2>3
    <1>6. todo' = Reads("constant", L)
        <2>1. todo' = << Frame("constant", L + 1 - 1, << >>) >>
            BY <1>4, <1>5 DEF parse_file
        <2>2. L + 1 - 1 = L
            BY <1>1
        <2> QED
            BY <2>1, <2>2 DEF Reads
    <1>7. pos' = 11 /\ at' = "reading"
        <2>1. GoOn(u4 + 3 * u2, 0, "reading") /\ pos = 1
            BY <1>4 DEF parse_file, Begun
        <2>2. u4 + 3 * u2 = 10
            BY DEF u2, u4
        <2>3. GoOn(10, 0, "reading") /\ pos + 10 <= Len(stream) + 1 /\ 10 \in Nat
            BY <1>2, <2>1, <2>2, ReadingFacts
        <2>5. pos \in Int /\ Len(stream) \in Int
            BY ReadingFacts
        <2>4. pos' = pos + 10 + 0 /\ at' = "reading"
            BY <2>3, <2>5, GoesOn
        <2> QED
            BY <2>1, <2>4
    <1>8. class' = NoClass /\ ~ second_double_or_long_part'
        BY <1>4 DEF parse_file, Begun
    <1>9. PoolRead(f, class', 0)
        <2>1. class'.pool = << >> /\ Len(<< >>) = 0
            BY <1>8 DEF NoClass
        <2> QED
            BY <1>1, <2>1 DEF PoolRead
    <1>10. Written[f].pool[1].tag # Unset
        BY <1>2 DEF IsConstant
    <1>11. class'.fields = << >> /\ class'.methods = << >> /\ class'.attributes = << >>
        BY <1>8 DEF NoClass
    <1> QED
        BY <1>1, <1>2, <1>6, <1>7, <1>8, <1>9, <1>10, <1>11 DEF ConstantsAhead

----------------------------------------------------------------------------
(* The constants. *)

\* Numbers behind a tag.
LEMMA LayoutNumbers ==
    ASSUME NEW f, Reading(f), NEW t \in Numeric, NEW p \in Int
    PROVE  /\ Total(Layout(t)) = NumericSize(t) /\ NumericSize(t) \in {2, 4, 8}
           /\ t \in Eights => ReadFrom(p, Layout(t)) = << Number(f, p, 4), Number(f, p + 4, 4) >>
           /\ t \notin Eights => ReadFrom(p, Layout(t)) = NumericValue(f, t, p)
    <1>2. /\ Total(<<u2>>) = 2 /\ ReadFrom(p, <<u2>>) = << Number(f, p, 2) >>
          /\ Total(<<u4>>) = 4 /\ ReadFrom(p, <<u4>>) = << Number(f, p, 4) >>
          /\ Total(<<u2, u2>>) = 4 /\ ReadFrom(p, <<u2, u2>>) = << Number(f, p, 2), Number(f, p + 2, 2) >>
          /\ Total(<<u4, u4>>) = 8 /\ ReadFrom(p, <<u4, u4>>) = << Number(f, p, 4), Number(f, p + 4, 4) >>
        <2>1. stream \in Seq(Nat) /\ Open(f)
            BY DEF Reading, FileInv, Numbers
        <2>2. /\ Total(<<u2>>) = 2 /\ ReadFrom(p, <<u2>>) = << Number(f, p, u2) >>
              /\ Total(<<u4>>) = 4 /\ ReadFrom(p, <<u4>>) = << Number(f, p, u4) >>
              /\ Total(<<u2, u2>>) = 4
              /\ ReadFrom(p, <<u2, u2>>) = << Number(f, p, u2), Number(f, p + 2, u2) >>
              /\ Total(<<u4, u4>>) = 8
              /\ ReadFrom(p, <<u4, u4>>) = << Number(f, p, u4), Number(f, p + 4, u4) >>
            BY <2>1, Rows
        <2>3. u2 = 2 /\ u4 = 4
            BY DEF u2, u4
        <2> QED
            BY <2>2, <2>3
    <1>3. CASE t \in {CONSTANT_Class, CONSTANT_String}
        <2>1. Layout(t) = <<u2>> /\ NumericSize(t) = 2 /\ NumericValue(f, t, p) = << Number(f, p, 2) >>
              /\ t \notin Eights
            BY <1>3 DEF Layout, NumericSize, NumericValue, References, Fours, Eights,
                        CONSTANT_Class, CONSTANT_String, CONSTANT_NameAndType
        <2> QED
            BY <1>2, <2>1
    <1>4. CASE t \in References \cup {CONSTANT_NameAndType}
        <2>1. /\ Layout(t) = <<u2, u2>> /\ NumericSize(t) = 4
              /\ NumericValue(f, t, p) = << Number(f, p, 2), Number(f, p + 2, 2) >>
              /\ t \notin Eights
            BY <1>4 DEF Layout, NumericSize, NumericValue, References, Fours, Eights,
                        CONSTANT_Class, CONSTANT_String, CONSTANT_NameAndType
        <2> QED
            BY <1>2, <2>1
    <1>5. CASE t \in Fours
        <2>1. Layout(t) = <<u4>> /\ NumericSize(t) = 4 /\ NumericValue(f, t, p) = << Number(f, p, 4) >>
              /\ t \notin Eights
            BY <1>5 DEF Layout, NumericSize, NumericValue, References, Fours, Eights,
                        CONSTANT_Class, CONSTANT_String, CONSTANT_NameAndType
        <2> QED
            BY <1>2, <2>1
    <1>6. CASE t \in Eights
        <2>1. Layout(t) = <<u4, u4>> /\ NumericSize(t) = 8
            BY <1>6 DEF Layout, NumericSize, References, Fours, Eights,
                        CONSTANT_Class, CONSTANT_String, CONSTANT_NameAndType
        <2> QED
            BY <1>2, <1>6, <2>1
    <1> QED
        BY <1>3, <1>4, <1>5, <1>6 DEF Numeric

\* The steps by where the parser stands.
LEMMA ParseKinds ==
    ASSUME Parse
    PROVE  /\ at = "reading" /\ Top.kind = "constant" =>
                  SecondPart \/ parse_constant \/ parse_Utf8 \/ WrongTag \/ ClassHead
           /\ at = "reading" /\ Top.kind = "interfaces" => parse_interfaces
           /\ at = "reading" /\ Top.kind = "field" => parse_field \/ ThenMethods
           /\ at = "reading" /\ Top.kind = "method" => parse_method \/ ThenAttributes
           /\ at = "reading" /\ Top.kind = "attribute" =>
                  \/ WrongName \/ parse_ConstantValue_attribute \/ parse_Code_attribute
                  \/ SkipAttribute \/ AttributesDone \/ Finish
           /\ at = "signature" => ScanSignature \/ ScanFails \/ MethodAttributes
    BY DEF Parse, BadMagic, parse_file, SecondPart, parse_constant, parse_Utf8,
            WrongTag, ClassHead, parse_interfaces, parse_field, ThenMethods, parse_method,
            ScanSignature, ScanFails, MethodAttributes, ThenAttributes, WrongName,
            parse_ConstantValue_attribute, parse_Code_attribute, SkipAttribute,
            AttributesDone, Finish, At, Constant, Attribute

\* One call is under way.
OneCallOf(kind, m) ==
    /\ Top.kind = kind /\ Top.n = m /\ Top.owner = << >> /\ Below = << >>
    /\ CountDown = Reads(kind, m - 1)

\* With one call under way, the top is that call.
LEMMA OneCall ==
    ASSUME NEW kind, NEW m \in Int, todo = Reads(kind, m)
    PROVE  OneCallOf(kind, m)
    <1>1. PICK e : e = [kind |-> kind, n |-> m, owner |-> << >>]
        OBVIOUS
    <1>2. todo = << e >> /\ e.kind = kind /\ e.n = m /\ e.owner = << >>
        BY <1>1 DEF Reads, Frame
    <1>3. Top = e /\ Below = << >>
        BY <1>2 DEF Top, Below, Last, Front
    <1>4. [e EXCEPT !.n = @ - 1] = [kind |-> kind, n |-> m - 1, owner |-> << >>]
        BY <1>1
    <1>5. CountDown = << [kind |-> kind, n |-> m - 1, owner |-> << >>] >>
        BY <1>3, <1>4 DEF CountDown
    <1> QED
        BY <1>2, <1>3, <1>5 DEF OneCallOf, Reads, Frame

\* A constant of the file.
LEMMA ConstantFacts ==
    ASSUME NEW f \in DOMAIN Written, NEW x \in 1 .. Len(Written[f].pool),
           Written[f].pool[x].tag # Unset
    PROVE  /\ Places[f].constants[x] \in Nat /\ Places[f].constants[x] >= 1
           /\ Places[f].constants[x + 1] \in Nat
           /\ Places[f].constants[x] < Places[f].constants[x + 1]
           /\ Places[f].constants[x + 1] <= Len(Content[f]) + 1
           /\ Content[f][Places[f].constants[x]] = Written[f].pool[x].tag
           /\ Written[f].pool[x].tag \in 1 .. 12 \ {2}
    <1> DEFINE c == Written[f].pool[x]
               p == Places[f].constants[x]
               end == Places[f].constants[x + 1]
    <1>1. p \in Nat /\ end \in Nat
        <2>1. x \in 1 .. Len(Written[f].pool) + 1 /\ x + 1 \in 1 .. Len(Written[f].pool) + 1
            BY PlacesTyped
        <2> QED
            BY <2>1, PlacesTyped
    <1>2. IsConstant(f, x)
        BY FileFormat DEF IsPool
    <1>3. /\ Within(f, p, end) /\ Content[f][p] = c.tag /\ c.tag \in 1 .. 12 \ {2}
          /\ c.tag = CONSTANT_Utf8 => end = p + 3 + Number(f, p + 1, u2)
          /\ c.tag # CONSTANT_Utf8 => end = p + 1 + NumericSize(c.tag)
        BY <1>2 DEF IsConstant
    <1>4. Number(f, p + 1, u2) \in Nat /\ NumericSize(c.tag) \in {2, 4, 8}
        <2>1. f \in Files /\ 2 \in 1 .. 4
            BY FileFormat
        <2> QED
            BY <2>1, NumberTyped DEF u2, NumericSize
    <1> HIDE DEF c, p, end
    <1>5. p < end
        <2>1. CASE c.tag = CONSTANT_Utf8
            BY <1>1, <1>3, <1>4, <2>1
        <2>2. CASE c.tag # CONSTANT_Utf8
            BY <1>1, <1>3, <1>4, <2>2
        <2> QED
            BY <2>1, <2>2
    <1> QED
        BY <1>1, <1>3, <1>5 DEF Within, c, p, end

\* The tag of a constant is read.
LEMMA TagRead ==
    ASSUME NEW f, Reading(f), NEW x \in 1 .. Len(Written[f].pool),
           Written[f].pool[x].tag # Unset, pos = Places[f].constants[x]
    PROVE  tag = Written[f].pool[x].tag
    <1>1. pos \in Int /\ f \in Files /\ u1 \in {u1, u2, u4}
        BY ReadingFacts
    <1>2. tag = Byte(f, pos)
        <2>1. tag = Number(f, pos, u1)
            BY <1>1, ReadingFacts, ReadIsNumber DEF tag
        <2> QED
            BY <1>1, <2>1, OneByte
    <1>3. pos \in DOMAIN Content[f] /\ Content[f][pos] = Written[f].pool[x].tag
        <2>1. pos >= 1 /\ pos <= Len(Content[f])
            <3>1. PICK L \in Nat : L = Len(Content[f])
                BY ReadingFacts
            <3>2. PICK end \in Nat : pos >= 1 /\ pos < end /\ end <= L + 1 /\ pos \in Nat
                BY <3>1, ConstantFacts, ReadingFacts
            <3>3. pos <= L
                BY <3>2
            <3> QED
                BY <3>1, <3>2, <3>3
        <2>2. Content[f][pos] = Written[f].pool[x].tag
            BY ConstantFacts, ReadingFacts
        <2> QED
            BY <2>1, <2>2, ReadingFacts
    <1> QED
        BY <1>2, <1>3 DEF Byte

\* The entry that follows an entry.
LEMMA EntryBehind ==
    ASSUME NEW f \in DOMAIN Written, NEW x \in 1 .. Len(Written[f].pool)
    PROVE  /\ x < Len(Written[f].pool) =>
                  (Written[f].pool[x + 1].tag = Unset <=> Written[f].pool[x].tag \in Eights)
           /\ x = Len(Written[f].pool) => Written[f].pool[x].tag \notin Eights
           /\ x = 1 => Written[f].pool[x].tag # Unset
           /\ Written[f].pool[x].tag = Unset =>
                  Places[f].constants[x + 1] = Places[f].constants[x]
    <1>1. PICK L \in Nat : L = Len(Written[f].pool)
        BY PlacesTyped
    <1>2. /\ \A y \in 1 .. L : IsConstant(f, y)
          /\ Written[f].pool[L].tag \notin Eights
        BY <1>1, FileFormat DEF IsPool
    <1>3. ASSUME x < L
          PROVE  Written[f].pool[x + 1].tag = Unset <=> Written[f].pool[x].tag \in Eights
        <2>1. PICK y \in 1 .. L : y = x + 1 /\ y - 1 = x /\ y > 1
            BY <1>1, <1>3
        <2>2. Written[f].pool[y].tag = Unset <=> (y > 1 /\ Written[f].pool[y - 1].tag \in Eights)
            BY <1>2 DEF IsConstant
        <2> QED
            BY <2>1, <2>2
    <1>4. x = 1 => Written[f].pool[x].tag # Unset
        BY <1>1, <1>2 DEF IsConstant
    <1>5. Written[f].pool[x].tag = Unset =>
              Places[f].constants[x + 1] = Places[f].constants[x]
        BY <1>1, <1>2 DEF IsConstant
    <1> QED
        BY <1>1, <1>2, <1>3, <1>4, <1>5

\* An entry is read.
LEMMA EntryRead ==
    ASSUME NEW f, Reading(f), NEW n \in Nat, n < Len(Written[f].pool), ConstantsAhead(f, n),
           NEW e, SameEntry(e, Written[f].pool[n + 1]), NewConstant(e),
           second_double_or_long_part' <=> Written[f].pool[n + 1].tag \in Eights,
           pos' = Places[f].constants[n + 2], at' = "reading"
    PROVE  ConstantsAhead(f, n + 1)'
    <1>0. PICK L \in Nat : L = Len(Written[f].pool)
        BY PlacesTyped, Zenon DEF Reading
    <1>1. L = Len(Written[f].pool) /\ n < L /\ n + 1 \in 1 .. L
        BY <1>0
    <1>2. /\ todo = Reads("constant", L - n) /\ L - n \in Int /\ L - n - 1 = L - (n + 1)
          /\ Len(class.pool) = n /\ n + 1 <= L
          /\ \A x \in 1 .. n : SameEntry(class.pool[x], Written[f].pool[x])
          /\ class.fields = << >> /\ class.methods = << >> /\ class.attributes = << >>
        BY <1>1 DEF ConstantsAhead, PoolRead
    <1>3. todo' = Reads("constant", L - (n + 1))
        BY <1>2, OneCall DEF OneCallOf, NewConstant
    <1>4. /\ class'.pool = Append(class.pool, e)
          /\ class'.fields = << >> /\ class'.methods = << >> /\ class'.attributes = << >>
        BY <1>2 DEF NewConstant, Reading, FileInv, ClassOK, HasParts, ClassParts
    <1>5. PoolRead(f, class', n + 1)
        <2>1. PICK q : q = class'.pool
            OBVIOUS
        <2>2. /\ Len(q) = n + 1 /\ q[n + 1] = e
              /\ \A x \in 1 .. n : q[x] = class.pool[x]
            BY <1>2, <1>4, <2>1, ReadingFacts, AppendSequence
        <2>3. \A x \in 1 .. n + 1 : x \in 1 .. n \/ x = n + 1
            OBVIOUS
        <2>4. \A x \in 1 .. n + 1 : SameEntry(q[x], Written[f].pool[x])
            BY <1>2, <2>2, <2>3
        <2> QED
            BY <1>1, <1>2, <2>1, <2>2, <2>4 DEF PoolRead
    <1>6. second_double_or_long_part' <=>
              n + 1 < L /\ Written[f].pool[n + 2].tag = Unset
        <2>1. n + 1 + 1 = n + 2 /\ f \in DOMAIN Written
            BY DEF Reading
        <2>2. PICK x \in 1 .. L : x = n + 1 /\ x + 1 = n + 2
            BY <1>1
        <2>3. /\ x < L => (Written[f].pool[x + 1].tag = Unset <=> Written[f].pool[x].tag \in Eights)
              /\ x = L => Written[f].pool[x].tag \notin Eights
            BY <1>1, <2>1, EntryBehind
        <2>4. x < L \/ x = L
            BY <1>1
        <2>5. second_double_or_long_part' <=> Written[f].pool[x].tag \in Eights
            BY <2>2
        <2>6. ~ (L < L)
            BY <1>1
        <2> QED
            BY <2>2, <2>3, <2>4, <2>5, <2>6
    <1>7. n + 1 + 1 = n + 2
        OBVIOUS
    <1> QED
        BY <1>1, <1>3, <1>4, <1>5, <1>6, <1>7 DEF ConstantsAhead

\* A block of the file is read.
LEMMA BlockIsBytes ==
    ASSUME NEW f, Reading(f), NEW p \in Nat, p >= 1, NEW n \in Nat,
           p + n <= Len(Content[f]) + 1
    PROVE  Block(p, n) = Bytes(f, p, n)
    <1>1. PICK L \in Nat : /\ L = Len(Content[f]) /\ DOMAIN Content[f] = 1 .. L
                           /\ stream = Content[f] /\ p + n <= L + 1
        BY ReadingFacts
    <1>2. Content[f] \in Seq(Nat)
        BY <1>1 DEF Reading, FileInv, Numbers
    <1>3. Bytes(f, p, n) = [k \in 1 .. n |-> Content[f][p + k - 1]]
        <2>1. PICK q \in Nat : q = p + n - 1 /\ q <= L /\ q - p + 1 = n
            BY <1>1
        <2>2. SubSeq(Content[f], p, q) = [k \in 1 .. q - p + 1 |-> Content[f][p + k - 1]]
            BY <1>1, <1>2, <2>1
        <2> QED
            BY <2>1, <2>2 DEF Bytes
    <1>4. \A k \in 1 .. n : ByteAt(p + k - 1) = Content[f][p + k - 1]
        BY <1>1 DEF ByteAt
    <1> QED
        BY <1>3, <1>4 DEF Block

\* The entry of a long or a double: the low word is the first in memory.
LEMMA WideEntry ==
    ASSUME NEW a \in Nat, NEW b \in Nat
    PROVE  Reverse(<< a, b >>) = << b, a >>
    BY DEF Reverse

\* The parts that make an entry the one described.
LEMMA EntrySame ==
    ASSUME NEW e, NEW d, e.tag = d.tag, d.tag # Unset,
           e.resolved = (d.tag \in {CONSTANT_Utf8} \cup Fours \cup Eights), Value(e) = d.value
    PROVE  SameEntry(e, d)
    BY DEF SameEntry

\* What is stored of a constant with numbers is what the file says.
LEMMA NumericSame ==
    ASSUME NEW f, Reading(f), NEW d, d.tag \in Numeric, NEW p \in Int,
           d.value = NumericValue(f, d.tag, p)
    PROVE  SameEntry([tag |-> d.tag, resolved |-> d.tag \in Fours \cup Eights,
                      words |-> InMemory(d.tag, ReadFrom(p, Layout(d.tag)))], d)
    <1> DEFINE w == InMemory(d.tag, ReadFrom(p, Layout(d.tag)))
               e == [tag |-> d.tag, resolved |-> d.tag \in Fours \cup Eights, words |-> w]
    <1>1. e.tag = d.tag /\ e.words = w /\ e.resolved = (d.tag \in Fours \cup Eights)
        OBVIOUS
    <1>2. d.tag # Unset /\ d.tag # CONSTANT_Utf8
        BY DEF Numeric, Unset, CONSTANT_Utf8, References, Fours, Eights, CONSTANT_Class,
               CONSTANT_String, CONSTANT_NameAndType
    <1>a. (d.tag \in Fours \cup Eights) = (d.tag \in {CONSTANT_Utf8} \cup Fours \cup Eights)
        <2>1. d.tag \in Fours \cup Eights <=> d.tag \in {CONSTANT_Utf8} \cup Fours \cup Eights
            BY <1>2
        <2> QED
            BY <2>1
    <1>3. CASE d.tag \in Eights
        <2>1. PICK a \in Nat, b \in Nat : a = Number(f, p, 4) /\ b = Number(f, p + 4, 4)
            BY ReadingFacts DEF u4
        <2>2. w = << b, a >>
            BY <1>3, <2>1, LayoutNumbers, WideEntry DEF InMemory
        <2>3. NumericValue(f, d.tag, p) = << Number(f, p, 8) >>
            BY <1>3 DEF NumericValue, Eights, Fours, References, CONSTANT_Class,
                        CONSTANT_String, CONSTANT_NameAndType
        <2>4. Number(f, p, 8) = a * Weight[4] + b
            BY <2>1, Halves, ReadingFacts
        <2>5. PICK v \in Nat : v = Weight[4]
            BY WeightTyped
        <2>6. b + a * v = a * v + b
            OBVIOUS
        <2>7. w[1] = b /\ w[2] = a
            BY <2>2
        <2> HIDE DEF w
        <2>8. Value(e) = << b + a * Weight[u4] >>
            BY <1>1, <1>3, <2>7 DEF Value
        <2>9. Value(e) = d.value
            BY <2>3, <2>4, <2>5, <2>6, <2>8, Zenon DEF u4
        <2> HIDE DEF e
        <2>10. SameEntry(e, d)
            BY <1>1, <1>2, <1>a, <2>9, EntrySame
        <2> QED
            BY <2>10 DEF e, w
    <1>4. CASE d.tag \notin Eights
        <2>1. w = NumericValue(f, d.tag, p)
            BY <1>4, LayoutNumbers DEF InMemory
        <2> HIDE DEF w
        <2>2. Value(e) = d.value
            BY <1>1, <1>4, <2>1 DEF Value
        <2> HIDE DEF e
        <2>3. SameEntry(e, d)
            BY <1>1, <1>2, <1>a, <2>2, EntrySame
        <2> QED
            BY <2>3 DEF e, w
    <1> QED
        BY <1>3, <1>4

\* The entry made of a text is the one described.
LEMMA TextEntry ==
    ASSUME NEW t, NEW d, d.tag = CONSTANT_Utf8, d.value = << t >>
    PROVE  SameEntry([tag |-> CONSTANT_Utf8, resolved |-> TRUE, words |-> << t >>], d)
    <1>1. PICK e : e = [tag |-> CONSTANT_Utf8, resolved |-> TRUE, words |-> << t >>]
        OBVIOUS
    <1>2. e.tag = d.tag /\ d.tag # Unset /\ e.resolved = TRUE /\ e.tag \notin Eights
        BY <1>1 DEF CONSTANT_Utf8, Unset, Eights
    <1>3. (d.tag \in {CONSTANT_Utf8} \cup Fours \cup Eights) = TRUE
        OBVIOUS
    <1>4. Value(e) = d.value
        BY <1>1, <1>2 DEF Value
    <1> QED
        BY <1>1, <1>2, <1>3, <1>4, EntrySame, Zenon

\* The step of the parser in the pool: the next entry is read.
LEMMA SecondPartStep ==
    ASSUME NEW f, Reading(f), NEW n \in Nat, n < Len(Written[f].pool), ConstantsAhead(f, n),
           SecondPart
    PROVE  ConstantsAhead(f, n + 1)'
    <1>1. /\ Written[f].pool[n + 1].tag = Unset /\ pos = Places[f].constants[n + 1]
          /\ at = "reading"
        BY DEF ConstantsAhead, SecondPart
    <1>2. PICK x \in 1 .. Len(Written[f].pool) : x = n + 1 /\ x + 1 = n + 2
        BY PlacesTyped DEF Reading
    <1>3. Places[f].constants[n + 2] = Places[f].constants[n + 1]
        BY <1>1, <1>2, EntryBehind DEF Reading
    <1> DEFINE e == [tag |-> Unset]
    <1>4. SameEntry(e, Written[f].pool[n + 1]) /\ NewConstant(e)
        BY <1>1 DEF SameEntry, SecondPart
    <1>5. (second_double_or_long_part' <=> Written[f].pool[n + 1].tag \in Eights)
        BY <1>1 DEF SecondPart, Unset, Eights
    <1>6. pos' = Places[f].constants[n + 2] /\ at' = "reading"
        BY <1>1, <1>3 DEF SecondPart
    <1> HIDE DEF e
    <1> QED
        BY <1>4, <1>5, <1>6, EntryRead

\* A constant with a number or with indices is read.
LEMMA ConstantStep ==
    ASSUME NEW f, Reading(f), NEW n \in Nat, n < Len(Written[f].pool), ConstantsAhead(f, n),
           parse_constant
    PROVE  ConstantsAhead(f, n + 1)'
    <1>1. Written[f].pool[n + 1].tag # Unset /\ pos = Places[f].constants[n + 1] /\ pos \in Nat
        BY ReadingFacts DEF ConstantsAhead, parse_constant
    <1>2. PICK x \in 1 .. Len(Written[f].pool) : x = n + 1 /\ x + 1 = n + 2
        BY PlacesTyped DEF Reading
    <1>3. PICK d : d = Written[f].pool[x]
        OBVIOUS
    <1>4. tag = d.tag /\ d.tag \in Numeric
        BY <1>1, <1>2, <1>3, TagRead DEF parse_constant
    <1>5. IsConstant(f, x)
        BY FileFormat DEF IsPool, Reading
    <1>6. d.tag \notin {Unset, CONSTANT_Utf8}
        BY <1>4 DEF Numeric, Unset, CONSTANT_Utf8, References, Fours, Eights, CONSTANT_Class,
               CONSTANT_String, CONSTANT_NameAndType
    <1>7. /\ d.value = NumericValue(f, d.tag, pos + 1)
          /\ Places[f].constants[n + 2] = pos + 1 + NumericSize(d.tag)
          /\ Places[f].constants[n + 2] <= Len(Content[f]) + 1
        BY <1>1, <1>2, <1>3, <1>5, <1>6 DEF IsConstant, Within
    <1> DEFINE e == [tag |-> d.tag, resolved |-> d.tag \in Fours \cup Eights,
                     words |-> InMemory(d.tag, ReadFrom(pos + 1, Layout(d.tag)))]
    <1>8. SameEntry(e, d)
        <2>1. pos + 1 \in Int
            BY <1>1
        <2> QED
            BY <1>4, <1>7, <2>1, NumericSame
    <1>9. /\ NewConstant(e) /\ second_double_or_long_part' = (d.tag \in Eights)
          /\ GoOn(1 + Total(Layout(d.tag)), 0, "reading")
        BY <1>4 DEF parse_constant, u1
    <1> HIDE DEF e
    <1>10. PICK s \in Nat : s = NumericSize(d.tag) /\ Total(Layout(d.tag)) = s
        <2>1. pos + 1 \in Int
            BY <1>1
        <2>2. Total(Layout(d.tag)) = NumericSize(d.tag) /\ NumericSize(d.tag) \in {2, 4, 8}
            BY <1>4, <2>1, LayoutNumbers, Zenon
        <2> QED
            BY <2>2
    <1>11. pos' = Places[f].constants[n + 2] /\ at' = "reading"
        <2>0. GoOn(1 + s, 0, "reading")
            BY <1>9, <1>10
        <2>z. PICK z \in Nat : z = 1 + s /\ pos + z = pos + 1 + s
            BY <1>1
        <2>1. z = 1 + s /\ GoOn(z, 0, "reading") /\ pos + z = pos + 1 + s
            BY <2>0, <2>z, Zenon
        <2>2. pos + z <= Len(stream) + 1 /\ Len(stream) \in Int /\ pos \in Int
            <3>1. PICK L \in Nat : L = Len(stream) /\ L = Len(Content[f])
                BY ReadingFacts
            <3>2. pos + 1 + s <= L + 1
                BY <1>7, <1>10, <3>1
            <3> QED
                BY <1>1, <2>1, <3>1, <3>2
        <2>3. pos' = pos + z + 0 /\ at' = "reading"
            BY <2>1, <2>2, GoesOn
        <2> QED
            BY <1>1, <1>7, <1>10, <2>1, <2>3
    <1>12. SameEntry(e, Written[f].pool[n + 1])
           /\ (second_double_or_long_part' <=> Written[f].pool[n + 1].tag \in Eights)
        BY <1>2, <1>3, <1>8, <1>9
    <1> QED
        BY <1>9, <1>11, <1>12, EntryRead

\* A text is read.
LEMMA Utf8Step ==
    ASSUME NEW f, Reading(f), NEW n \in Nat, n < Len(Written[f].pool), ConstantsAhead(f, n),
           parse_Utf8
    PROVE  ConstantsAhead(f, n + 1)'
    <1>1. /\ Written[f].pool[n + 1].tag # Unset /\ pos = Places[f].constants[n + 1] /\ pos \in Nat
          /\ ~ second_double_or_long_part
        BY ReadingFacts DEF ConstantsAhead, parse_Utf8
    <1>2. PICK x \in 1 .. Len(Written[f].pool) : x = n + 1 /\ x + 1 = n + 2
        BY PlacesTyped DEF Reading
    <1>3. PICK d : d = Written[f].pool[x]
        OBVIOUS
    <1>4. tag = d.tag /\ d.tag = CONSTANT_Utf8
        BY <1>1, <1>2, <1>3, TagRead DEF parse_Utf8
    <1>5. IsConstant(f, x)
        BY FileFormat DEF IsPool, Reading
    <1>t. PICK t : t = d.value[1]
        OBVIOUS
    <1>l. PICK l \in Nat : l = Number(f, pos + 1, u2)
        BY ReadingFacts
    <1>6. t = d.value[1] /\ l = Number(f, pos + 1, u2)
        BY <1>t, <1>l
    <1>7. /\ d.value = << t >> /\ t \in Texts
          /\ Places[f].constants[n + 2] = pos + 3 + l /\ Bytes(f, pos + 3, l) = Utf8[t]
          /\ Places[f].constants[n + 2] <= Len(Content[f]) + 1
        BY <1>1, <1>2, <1>3, <1>4, <1>5, <1>6 DEF IsConstant, Within
    <1>8. read_e(pos + u1, u2) = l
        <2>1. pos + 1 \in Int /\ u2 \in {u1, u2, u4}
            BY <1>1
        <2>2. read_e(pos + 1, u2) = Number(f, pos + 1, u2)
            BY <2>1, ReadIsNumber, ReadingFacts
        <2> QED
            BY <1>6, <2>2 DEF u1
    <1>9. Block(pos + u1 + u2, l) = Utf8[t]
        <2>0. PICK p \in Nat : p = pos + 3 /\ pos + 1 + 2 = p /\ p >= 1
            BY <1>1
        <2>1. p = pos + 3 /\ pos + u1 + u2 = p /\ p >= 1 /\ p + l <= Len(Content[f]) + 1
            BY <1>7, <2>0 DEF u1, u2
        <2>2. Block(p, l) = Bytes(f, p, l)
            BY <2>1, BlockIsBytes
        <2> QED
            BY <1>7, <2>1, <2>2
    <1>10. {s \in Texts : Utf8[s] = Utf8[t]} = {t}
        BY <1>7, FileAssumption
    <1> DEFINE e == [tag |-> CONSTANT_Utf8, resolved |-> TRUE, words |-> << t >>]
    <1>11. NewConstant(e) /\ GoOn(u1 + u2 + l, 0, "reading")
           /\ UNCHANGED second_double_or_long_part
        <2>1. {s \in Texts : Utf8[s] = Block(pos + u1 + u2, read_e(pos + u1, u2))} = {t}
            BY <1>8, <1>9, <1>10
        <2>2. (CHOOSE s \in {t} : TRUE) = t
            OBVIOUS
        <2>3. {t} # {}
            OBVIOUS
        <2> QED
            BY <1>4, <1>8, <2>1, <2>2, <2>3 DEF parse_Utf8
    <1>12. SameEntry(e, d)
        BY <1>4, <1>7, TextEntry
    <1> HIDE DEF e
    <1>13. pos' = Places[f].constants[n + 2] /\ at' = "reading"
        <2>0. GoOn(3 + l, 0, "reading")
            <3>1. u1 + u2 + l = 3 + l
                BY DEF u1, u2
            <3> QED
                BY <1>11, <3>1
        <2>z. PICK z \in Nat : z = 3 + l /\ pos + z = pos + 3 + l
            BY <1>1
        <2>1. z = 3 + l /\ GoOn(z, 0, "reading") /\ pos + z = pos + 3 + l
            BY <2>0, <2>z, Zenon
        <2>2. pos + z <= Len(stream) + 1 /\ Len(stream) \in Int /\ pos \in Int
            <3>1. PICK L \in Nat : L = Len(stream) /\ L = Len(Content[f])
                BY ReadingFacts
            <3>2. pos + 3 + l <= L + 1
                BY <1>7, <3>1
            <3> QED
                BY <1>1, <2>1, <3>1, <3>2
        <2>3. pos' = pos + z + 0 /\ at' = "reading"
            BY <2>1, <2>2, GoesOn
        <2> QED
            BY <1>1, <1>7, <2>1, <2>3
    <1>14. SameEntry(e, Written[f].pool[n + 1])
           /\ (second_double_or_long_part' <=> Written[f].pool[n + 1].tag \in Eights)
        BY <1>1, <1>2, <1>3, <1>4, <1>11, <1>12 DEF Eights, CONSTANT_Utf8
    <1> QED
        BY <1>11, <1>13, <1>14, EntryRead

\* Whatever comes next in the pool is read, and no tag is wrong.
LEMMA ConstantsStep ==
    ASSUME NEW f, Reading(f), NEW n \in Nat, n < Len(Written[f].pool), ConstantsAhead(f, n), Parse
    PROVE  ConstantsAhead(f, n + 1)'
    <1>0. PICK L \in Nat : L = Len(Written[f].pool) /\ n < L
        BY PlacesTyped DEF Reading
    <1>1. PICK m \in Int : m = Len(Written[f].pool) - n /\ m > 0 /\ ~ (m <= 0)
        BY <1>0
    <1>2. Top.kind = "constant" /\ Top.n = m /\ at = "reading"
        BY <1>1, OneCall DEF OneCallOf, ConstantsAhead
    <1>3. SecondPart \/ parse_constant \/ parse_Utf8 \/ WrongTag
        BY <1>1, <1>2, ParseKinds DEF ClassHead
    <1>4. ~ WrongTag
        <2>1. SUFFICES ASSUME WrongTag PROVE FALSE
            OBVIOUS
        <2>2. Written[f].pool[n + 1].tag # Unset /\ pos = Places[f].constants[n + 1]
            BY <2>1 DEF ConstantsAhead, WrongTag
        <2>3. PICK x \in 1 .. Len(Written[f].pool) : x = n + 1
            BY PlacesTyped DEF Reading
        <2>4. tag = Written[f].pool[x].tag /\ Written[f].pool[x].tag \in 1 .. 12 \ {2}
            BY <2>2, <2>3, TagRead, ConstantFacts DEF Reading
        <2>5. tag \in Numeric \cup {CONSTANT_Utf8}
            BY <2>4 DEF Numeric, Unset, CONSTANT_Utf8, References, Fours, Eights, CONSTANT_Class,
               CONSTANT_String, CONSTANT_NameAndType
        <2> QED
            BY <2>1, <2>5 DEF WrongTag
    <1> QED
        BY <1>3, <1>4, SecondPartStep, ConstantStep, Utf8Step

\* The head of a class: where it is, and what it says.
HeadAt(f) == Places[f].constants[Len(Written[f].pool) + 1]

HeadOf(f, p, m) ==
    /\ p \in Nat /\ m \in Nat
    /\ Written[f].access = Number(f, p, u2) /\ Written[f].this = Number(f, p + 2, u2)
    /\ Written[f].super = Number(f, p + 4, u2) /\ Number(f, p + 6, u2) = m
    /\ \A k \in 1 .. m : Written[f].interfaces[k] = Number(f, p + 6 + 2 * k, u2)
    /\ Number(f, p + 8 + 2 * m, u2) = Len(Written[f].fields)
    /\ Places[f].fields[1] = p + 10 + 2 * m
    /\ p + 10 + 2 * m <= Len(stream) + 1
    /\ IsSequence(Written[f].interfaces)

\* What the file says of its head.
LEMMA HeadFacts ==
    ASSUME NEW f, Reading(f)
    PROVE  HeadOf(f, HeadAt(f), Len(Written[f].interfaces))
    <1>1. /\ IsHead(f) /\ IsSequence(Written[f].interfaces)
          /\ Len(Written[f].interfaces) \in Nat
        BY FileFormat DEF Reading
    <1>2. HeadAt(f) \in Nat
        <2>1. PICK L \in Nat : L = Len(Written[f].pool) /\ L + 1 \in 1 .. L + 1
            BY PlacesTyped DEF Reading
        <2> QED
            BY <2>1, PlacesTyped DEF Reading, HeadAt
    <1> QED
        BY <1>1, <1>2, ReadingFacts DEF IsHead, HeadAt, Within, HeadOf

\* Behind the pool is the head.
LEMMA HeadStep ==
    ASSUME NEW f, Reading(f), ConstantsAhead(f, Len(Written[f].pool)), Parse
    PROVE  InterfacesAhead(f)' /\ ~ second_double_or_long_part'
    <1>0. PICK L \in Nat : L = Len(Written[f].pool)
        BY PlacesTyped, Zenon DEF Reading
    <1>p. PICK p : p = HeadAt(f)
        OBVIOUS
    <1>m. PICK m : m = Len(Written[f].interfaces)
        OBVIOUS
    <1>1. /\ at = "reading" /\ todo = Reads("constant", L - L) /\ PoolRead(f, class, L)
          /\ pos = p /\ ~ second_double_or_long_part
          /\ class.fields = << >> /\ class.methods = << >> /\ class.attributes = << >>
        BY <1>0, <1>p DEF ConstantsAhead, HeadAt
    <1>2. Top.kind = "constant" /\ Top.n = 0
        <2>1. L - L = 0 /\ 0 \in Int
            BY <1>0
        <2> QED
            BY <1>1, <2>1, OneCall DEF OneCallOf
    <1>3. ClassHead
        <2>1. ~ (0 > 0)
            OBVIOUS
        <2> QED
            BY <1>1, <1>2, <2>1, ParseKinds DEF SecondPart, parse_constant, parse_Utf8, WrongTag,
                Constant
    <1>4. /\ p \in Nat /\ m \in Nat /\ Written[f].access = Number(f, p, u2)
          /\ Written[f].this = Number(f, p + 2, u2)
          /\ Written[f].super = Number(f, p + 4, u2) /\ Number(f, p + 6, u2) = m
          /\ p + 10 + 2 * m <= Len(stream) + 1
        <2>1. HeadOf(f, p, m)
            BY <1>p, <1>m, HeadFacts, Zenon
        <2> QED
            BY <2>1 DEF HeadOf
    <1>5. ReadFrom(p, <<u2, u2, u2, u2>>) =
              << Written[f].access, Written[f].this, Written[f].super, m >>
        <2>1. stream \in Seq(Nat) /\ Open(f) /\ p \in Int
            BY <1>4 DEF Reading, FileInv, Numbers
        <2>2. ReadFrom(p, <<u2, u2, u2, u2>>) =
                  << Number(f, p, u2), Number(f, p + 2, u2), Number(f, p + 4, u2), Number(f, p + 6, u2) >>
            BY <2>1, Rows
        <2> QED
            BY <1>4, <2>2, Zenon
    <1>6. PICK v : /\ v = Read(<<u2, u2, u2, u2>>) /\ v[1] = Written[f].access /\ v[2] = Written[f].this
                   /\ v[3] = Written[f].super /\ v[4] = m
        BY <1>1, <1>5 DEF Read
    <1>7. /\ class' = [class EXCEPT !.access = v[1], !.this = v[2], !.super = v[3]]
          /\ todo' = << Frame("interfaces", v[4], << >>) >> /\ GoOn(4 * u2, 0, "reading")
          /\ UNCHANGED second_double_or_long_part
        BY <1>3, <1>6 DEF ClassHead
    <1>8. pos' = p + 8 /\ at' = "reading"
        <2>1. 4 * u2 = 8 /\ 8 \in Nat
            BY DEF u2
        <2>2. GoOn(8, 0, "reading")
            BY <1>7, <2>1
        <2>s. PICK l \in Nat : l = Len(stream)
            BY ReadingFacts
        <2>3. pos + 8 <= Len(stream) + 1 /\ pos \in Int /\ Len(stream) \in Int /\ pos + 8 + 0 = p + 8
            BY <1>1, <1>4, <2>s
        <2> QED
            BY <2>1, <2>2, <2>3, GoesOn
    <1>9. /\ class'.pool = class.pool /\ class'.access = v[1] /\ class'.this = v[2]
          /\ class'.super = v[3] /\ class'.fields = class.fields
          /\ class'.methods = class.methods /\ class'.attributes = class.attributes
        BY <1>7 DEF Reading, FileInv, ClassOK, HasParts, ClassParts
    <1>10. HeadRead(f, class')
        BY <1>0, <1>1, <1>6, <1>9 DEF HeadRead, PoolRead
    <1> QED
        BY <1>1, <1>6, <1>7, <1>8, <1>9, <1>10, <1>p, <1>m DEF InterfacesAhead, Reads, HeadAt

\* The interfaces and the number of fields.
LEMMA InterfacesStep ==
    ASSUME NEW f, Reading(f), InterfacesAhead(f), Parse
    PROVE  FieldsAhead(f, 0)' /\ second_double_or_long_part' = second_double_or_long_part
    <1>p. PICK p : p = HeadAt(f)
        OBVIOUS
    <1>m. PICK m : m = Len(Written[f].interfaces)
        OBVIOUS
    <1>f. PICK F \in Nat : F = Len(Written[f].fields)
        BY PlacesTyped, Zenon DEF Reading
    <1>1. /\ at = "reading" /\ todo = Reads("interfaces", m) /\ HeadRead(f, class)
          /\ pos = p + 8
          /\ class.fields = << >> /\ class.methods = << >> /\ class.attributes = << >>
        BY <1>m, <1>p DEF InterfacesAhead, HeadAt
    <1>2. /\ p \in Nat /\ m \in Nat
          /\ \A k \in 1 .. m : Written[f].interfaces[k] = Number(f, p + 6 + 2 * k, u2)
          /\ Number(f, p + 8 + 2 * m, u2) = F
          /\ Places[f].fields[1] = p + 10 + 2 * m
          /\ p + 10 + 2 * m <= Len(stream) + 1 /\ IsSequence(Written[f].interfaces)
        <2>1. HeadOf(f, p, m)
            BY <1>p, <1>m, HeadFacts, Zenon
        <2> QED
            BY <1>f, <2>1 DEF HeadOf
    <1>3. Top.kind = "interfaces" /\ Top.n = m
        BY <1>1, <1>2, OneCall DEF OneCallOf
    <1>4. parse_interfaces
        BY <1>1, <1>3, ParseKinds
    <1>5. PICK n \in Nat : n = m + 1
        BY <1>2
    <1>6. PICK ws : ws = [k \in 1 .. n |-> u2]
        OBVIOUS
    <1>7. PICK v : v = Read(ws)
        OBVIOUS
    <1>8. /\ class' = [class EXCEPT !.interfaces = SubSeq(v, 1, m)]
          /\ todo' = << Frame("field", v[n], << >>) >> /\ GoOn(n * u2, 0, "reading")
          /\ UNCHANGED second_double_or_long_part
        BY <1>3, <1>4, <1>5, <1>6, <1>7 DEF parse_interfaces
    <1>9. /\ ws \in Seq({u1, u2, u4}) /\ Len(ws) = n
          /\ \A k \in 1 .. n : v[k] = Number(f, p + 8 + 2 * (k - 1), u2)
        <2>1. Open(f) /\ pos \in Int
            BY <1>1, <1>2, ReadingFacts
        <2>2. /\ ws \in Seq({u1, u2, u4}) /\ Len(ws) = n
              /\ \A k \in 1 .. n : ReadFrom(pos, ws)[k] = Number(f, pos + 2 * (k - 1), u2)
            BY <1>6, <2>1, PairsAreNumbers
        <2> QED
            BY <1>1, <1>7, <2>2 DEF Read
    <1>10. v[n] = F
        <2>1. n \in 1 .. n /\ p + 8 + 2 * (n - 1) = p + 8 + 2 * m
            BY <1>2, <1>5
        <2> QED
            BY <1>2, <1>9, <2>1
    <1>11. SubSeq(v, 1, m) = Written[f].interfaces
        <2>1. IsSequence(v) /\ Len(v) = n
            <3>1. DOMAIN ws = 1 .. n
                BY <1>6
            <3>2. v = [k \in 1 .. n |-> v[k]] /\ DOMAIN v = 1 .. n
                BY <1>7, <3>1 DEF Read, ReadFrom
            <3>3. v \in Seq({v[k] : k \in 1 .. n})
                BY <3>2
            <3> QED
                BY <3>2, <3>3 DEF IsSequence
        <2>2. PICK w : w = SubSeq(v, 1, m)
            OBVIOUS
        <2>3. IsSequence(w) /\ Len(w) = m /\ \A k \in 1 .. m : w[k] = v[k]
            <3>1. PICK S : v \in Seq(S)
                BY <2>1 DEF IsSequence
            <3>2. m <= Len(v)
                BY <1>2, <1>5, <2>1
            <3>3. w \in Seq(S) /\ Len(w) = m /\ \A k \in 1 .. m : w[k] = v[k]
                BY <1>2, <2>2, <3>1, <3>2
            <3> QED
                BY <3>3 DEF IsSequence
        <2>4. \A k \in 1 .. m : w[k] = Written[f].interfaces[k]
            <3>1. SUFFICES ASSUME NEW k \in 1 .. m PROVE w[k] = Written[f].interfaces[k]
                OBVIOUS
            <3>2. k \in 1 .. n /\ p + 8 + 2 * (k - 1) = p + 6 + 2 * k
                BY <1>2, <1>5
            <3> QED
                BY <1>2, <1>9, <2>3, <3>2
        <2> QED
            BY <1>2, <1>m, <2>2, <2>3, <2>4, SameSequence
    <1>12. pos' = Places[f].fields[1] /\ at' = "reading"
        <2>m. p \in Nat /\ m \in Nat
            BY <1>2
        <2>0. PICK z \in Nat : z = 2 * m + 2 /\ p + 8 + z + 0 = p + 10 + 2 * m
            BY <2>m
        <2>1. z = 2 * m + 2 /\ z = n * u2 /\ pos + z + 0 = p + 10 + 2 * m
            <3>1. z = n * u2
                BY <1>2, <1>5, <2>0 DEF u2
            <3> QED
                BY <1>1, <2>0, <3>1
        <2>2. GoOn(z, 0, "reading")
            BY <1>8, <2>1
        <2>3. pos + z <= Len(stream) + 1 /\ pos \in Int /\ Len(stream) \in Int
            BY <1>1, <1>2, <2>1, ReadingFacts
        <2> QED
            BY <1>2, <2>1, <2>2, <2>3, GoesOn
    <1>13. PICK d : d = class'
        OBVIOUS
    <1>14. /\ d.pool = class.pool /\ d.access = class.access /\ d.this = class.this
           /\ d.super = class.super /\ d.interfaces = Written[f].interfaces /\ d.fields = << >>
           /\ d.methods = << >> /\ d.attributes = << >>
        BY <1>1, <1>8, <1>11, <1>13 DEF Reading, FileInv, ClassOK, HasParts, ClassParts
    <1>15. FieldsRead(f, d, 0)
        <2>1. HeadRead(f, d)
            BY <1>1, <1>14 DEF HeadRead, PoolRead
        <2>2. Len(d.fields) = 0 /\ 0 <= F /\ 1 .. 0 = {}
            BY <1>f, <1>14
        <2> QED
            BY <1>f, <1>14, <2>1, <2>2 DEF FieldsRead
    <1>16. AttributesRead(f, d, Places[f].ofField[1] - 1)
        <2>1. Places[f].ofField[1] = 1
            BY WrittenAssumption DEF Reading, IsClassFile
        <2>2. PICK A \in Nat : A = Len(Written[f].attributes)
            BY PlacesTyped, Zenon DEF Reading
        <2>3. Places[f].ofField[1] - 1 = 0 /\ 0 <= A /\ Len(d.attributes) = 0 /\ 1 .. 0 = {}
            BY <1>14, <2>1
        <2> QED
            BY <2>2, <2>3 DEF AttributesRead
    <1>17. todo' = FieldsLeft(f, 0)
        <2>1. F - 0 = F
            BY <1>f
        <2> QED
            BY <1>f, <1>8, <1>10, <2>1 DEF FieldsLeft, Reads
    <1>18. 0 + 1 = 1
        OBVIOUS
    <1> QED
        BY <1>8, <1>12, <1>13, <1>14, <1>15, <1>16, <1>17, <1>18 DEF FieldsAhead

\* A text that an index leads to is found in the pool.
LEMMA TextFound ==
    ASSUME NEW f, Reading(f), HeadRead(f, class), NEW p \in Int, NEW t, IsText(f, p, t)
    PROVE  IsUtf8(Number(f, p, u2)) /\ Str(Number(f, p, u2)) = t
    <1>1. PICK L \in Nat : L = Len(Written[f].pool) /\ DOMAIN Written[f].pool = 1 .. L
        BY FileFormat DEF Reading
    <1>2. PICK x : x = Number(f, p, u2)
        OBVIOUS
    <1>3. x \in 1 .. L /\ Written[f].pool[x] = [tag |-> CONSTANT_Utf8, value |-> << t >>]
        BY <1>1, <1>2 DEF IsText
    <1>4. Len(class.pool) = L /\ SameEntry(class.pool[x], Written[f].pool[x])
        BY <1>1, <1>3 DEF HeadRead, PoolRead
    <1>5. x \in DOMAIN class.pool
        BY <1>3, <1>4, ReadingFacts
    <1>6. PICK e : e = class.pool[x]
        OBVIOUS
    <1>7. e.tag = CONSTANT_Utf8 /\ Value(e) = << t >>
        BY <1>3, <1>4, <1>6 DEF SameEntry, CONSTANT_Utf8, Unset
    <1>8. e.words = << t >>
        BY <1>7 DEF Value, CONSTANT_Utf8, Eights
    <1> QED
        BY <1>2, <1>5, <1>6, <1>7, <1>8 DEF IsUtf8, Str

\* A field or a method in the file.
MemberAt(f, d, p) ==
    /\ p \in Nat /\ p + 6 <= Len(stream) + 1
    /\ d.access = Number(f, p, u2)
    /\ IsText(f, p + 2, d.name) /\ IsText(f, p + 4, d.signature)

\* What the file says of a field or a method.
LEMMA MemberFacts ==
    ASSUME NEW f, Reading(f)
    PROVE  /\ \A k \in 1 .. Len(Written[f].fields) :
                  MemberAt(f, Written[f].fields[k], Places[f].fields[k])
           /\ \A k \in 1 .. Len(Written[f].methods) :
                  /\ MemberAt(f, Written[f].methods[k], Places[f].methods[k])
                  /\ Written[f].methods[k].signature \in Descriptors
                  /\ Written[f].methods[k].words =
                         WordsBefore[Written[f].methods[k].signature]
                                    [Count(Written[f].methods[k].signature) + 1]
    <1>1. PICK l \in Nat : l = Len(stream) /\ l = Len(Content[f])
        BY ReadingFacts
    <1>2. ASSUME NEW d, NEW p \in Nat, NEW o, NEW c, NEW a, NEW b, NEW e,
                 IsMember(f, d, p, o, c, a, b, e)
          PROVE  MemberAt(f, d, p)
        BY <1>1, <1>2 DEF IsMember, MemberAt, Within
    <1>3. ASSUME NEW k \in 1 .. Len(Written[f].fields)
          PROVE  MemberAt(f, Written[f].fields[k], Places[f].fields[k])
        <2>1. k \in 1 .. Len(Written[f].fields) + 1
            BY PlacesTyped DEF Reading
        <2>2. Places[f].fields[k] \in Nat
            BY <2>1, PlacesTyped DEF Reading
        <2>3. IsField(f, k)
            BY FileFormat DEF Reading
        <2> QED
            BY <1>2, <2>2, <2>3 DEF IsField
    <1>4. ASSUME NEW k \in 1 .. Len(Written[f].methods)
          PROVE  /\ MemberAt(f, Written[f].methods[k], Places[f].methods[k])
                 /\ Written[f].methods[k].signature \in Descriptors
                 /\ Written[f].methods[k].words =
                        WordsBefore[Written[f].methods[k].signature]
                                   [Count(Written[f].methods[k].signature) + 1]
        <2>1. k \in 1 .. Len(Written[f].methods) + 1
            BY PlacesTyped DEF Reading
        <2>2. Places[f].methods[k] \in Nat
            BY <2>1, PlacesTyped DEF Reading
        <2>3. IsMethodAt(f, k)
            BY FileFormat DEF Reading
        <2> QED
            BY <1>2, <2>2, <2>3 DEF IsMethodAt
    <1> QED
        BY <1>3, <1>4

\* What is read of a member.
LEMMA MemberRead ==
    ASSUME NEW f, Reading(f), HeadRead(f, class), NEW d, NEW p, MemberAt(f, d, p)
    PROVE  /\ ReadFrom(p, <<u2, u2, u2>>) = << d.access, Number(f, p + 2, u2), Number(f, p + 4, u2) >>
           /\ ReadFrom(p, <<u2, u2, u2, u2>>) =
                  << d.access, Number(f, p + 2, u2), Number(f, p + 4, u2), Number(f, p + 6, u2) >>
           /\ IsUtf8(Number(f, p + 2, u2)) /\ Str(Number(f, p + 2, u2)) = d.name
           /\ IsUtf8(Number(f, p + 4, u2)) /\ Str(Number(f, p + 4, u2)) = d.signature
    <1>1. /\ p \in Int /\ d.access = Number(f, p, u2)
          /\ IsText(f, p + 2, d.name) /\ IsText(f, p + 4, d.signature)
        BY DEF MemberAt
    <1>2. PICK a \in Int, b \in Int : a = p + 2 /\ b = p + 4
        BY <1>1
    <1>3. stream \in Seq(Nat) /\ Open(f)
        BY DEF Reading, FileInv, Numbers
    <1>4. /\ ReadFrom(p, <<u2, u2, u2>>) =
                 << Number(f, p, u2), Number(f, p + 2, u2), Number(f, p + 4, u2) >>
          /\ ReadFrom(p, <<u2, u2, u2, u2>>) =
                 << Number(f, p, u2), Number(f, p + 2, u2), Number(f, p + 4, u2), Number(f, p + 6, u2) >>
        BY <1>1, <1>3, Rows
    <1>5. /\ IsUtf8(Number(f, a, u2)) /\ Str(Number(f, a, u2)) = d.name
          /\ IsUtf8(Number(f, b, u2)) /\ Str(Number(f, b, u2)) = d.signature
        BY <1>1, <1>2, TextFound
    <1> QED
        BY <1>1, <1>2, <1>4, <1>5, Zenon

\* The next field of the table.
LEMMA FieldStep ==
    ASSUME NEW f, Reading(f), NEW k \in Nat, k < Len(Written[f].fields), FieldsAhead(f, k), Parse
    PROVE  InField(f, k + 1)' /\ second_double_or_long_part' = second_double_or_long_part
    <1>1. PICK F \in Nat : F = Len(Written[f].fields)
        BY PlacesTyped, Zenon DEF Reading
    <1>2. PICK m \in Int : m = F - k /\ m > 0 /\ ~ (m <= 0) /\ m - 1 = F - (k + 1)
        <2>1. k < F
            BY <1>1
        <2> QED
            BY <2>1
    <1>3. /\ at = "reading" /\ todo = Reads("field", m) /\ FieldsRead(f, class, k)
          /\ class.methods = << >> /\ pos = Places[f].fields[k + 1]
          /\ AttributesRead(f, class, Places[f].ofField[k + 1] - 1)
        BY <1>1, <1>2 DEF FieldsAhead, FieldsLeft
    <1>4. Top.kind = "field" /\ Top.n = m /\ CountDown = FieldsLeft(f, k + 1)
        BY <1>1, <1>2, <1>3, OneCall DEF OneCallOf, FieldsLeft
    <1>5. parse_field
        BY <1>2, <1>3, <1>4, ParseKinds DEF ThenMethods
    <1>6. PICK x \in 1 .. F : x = k + 1
        BY <1>1
    <1>7. PICK d : d = Written[f].fields[x]
        OBVIOUS
    <1>8. MemberAt(f, d, pos) /\ GoodTable(f, FieldTable(f, x)) /\ pos \in Nat
        BY <1>1, <1>3, <1>6, <1>7, MemberFacts, TablesGood, ReadingFacts
    <1>9. HeadRead(f, class) /\ Len(class.fields) = k
        BY <1>3 DEF FieldsRead
    <1>10. PICK v : v = Read(<<u2, u2, u2, u2>>)
        OBVIOUS
    <1>11. /\ v[1] = d.access /\ v[4] = Number(f, pos + 6, u2)
           /\ IsUtf8(v[2]) /\ Str(v[2]) = d.name
           /\ IsUtf8(v[3]) /\ Str(v[3]) = d.signature
        BY <1>8, <1>9, <1>10, MemberRead DEF Read
    <1>12. /\ class' = [class EXCEPT !.fields = Append(@, FieldOf(d))]
           /\ todo' = Append(CountDown, Frame("attribute", v[4], <<"field", k + 1>>))
           /\ GoOn(4 * u2, 0, "reading")
           /\ UNCHANGED second_double_or_long_part
        BY <1>5, <1>9, <1>10, <1>11 DEF parse_field, FieldOf
    <1>13. PICK t : t = FieldTable(f, x)
        OBVIOUS
    <1>14. /\ t.place = pos + 6 /\ t.around = FieldsLeft(f, k + 1) /\ t.owner = <<"field", k + 1>>
           /\ t.first = Places[f].ofField[k + 1]
        BY <1>3, <1>6, <1>13 DEF FieldTable
    <1>15. /\ v[4] \in Nat /\ Within(f, t.place, t.place + 2)
           /\ Among(f, t, Append(t.around, Frame("attribute", v[4], t.owner)),
                    t.place + 2, t.first - 1)
        BY <1>8, <1>11, <1>13, <1>14, TableBegins
    <1>16. pos' = t.place + 2 /\ at' = "reading"
        <2>1. 4 * u2 = 8 /\ 8 \in Nat
            BY DEF u2
        <2>2. GoOn(8, 0, "reading")
            BY <1>12, <2>1
        <2>s. PICK l \in Nat : l = Len(stream) /\ l = Len(Content[f])
            BY ReadingFacts
        <2>3. pos + 8 <= Len(stream) + 1 /\ pos \in Int /\ Len(stream) \in Int
            BY <1>8, <1>14, <1>15, <2>s DEF Within
        <2>4. pos + 8 + 0 = t.place + 2
            BY <1>8, <1>14
        <2> QED
            BY <2>1, <2>2, <2>3, <2>4, GoesOn
    <1>17. PICK c : c = class'
        OBVIOUS
    <1>18. /\ c.pool = class.pool /\ c.access = class.access /\ c.this = class.this
           /\ c.super = class.super /\ c.interfaces = class.interfaces
           /\ c.fields = Append(class.fields, FieldOf(d))
           /\ c.methods = << >> /\ c.attributes = class.attributes
        BY <1>3, <1>12, <1>17 DEF Reading, FileInv, ClassOK, HasParts, ClassParts
    <1>19. FieldsRead(f, c, x)
        <2>1. HeadRead(f, c) /\ c.interfaces = Written[f].interfaces
            BY <1>3, <1>18 DEF FieldsRead, HeadRead, PoolRead
        <2>2. IsSequence(class.fields) /\ DOMAIN class.fields = 1 .. k
            BY <1>9, SequenceTyped DEF Reading, FileInv, ClassOK, PartsOK
        <2>3. /\ Len(c.fields) = k + 1 /\ c.fields[k + 1] = FieldOf(d)
              /\ \A j \in 1 .. k : c.fields[j] = class.fields[j]
            BY <1>9, <1>18, <2>2, AppendSequence
        <2>4. \A j \in 1 .. k : class.fields[j] = FieldOf(Written[f].fields[j])
            BY <1>3 DEF FieldsRead
        <2>5. \A j \in 1 .. x : j \in 1 .. k \/ j = x
            BY <1>6
        <2>6. \A j \in 1 .. x : c.fields[j] = FieldOf(Written[f].fields[j])
            BY <1>6, <1>7, <2>3, <2>4, <2>5
        <2>7. x <= F
            OBVIOUS
        <2> QED
            BY <1>1, <1>6, <2>1, <2>3, <2>6, <2>7 DEF FieldsRead
    <1>20. /\ AttributesRead(f, c, Len(c.attributes)) /\ Len(c.attributes) = t.first - 1
        BY <1>3, <1>14, <1>18 DEF AttributesRead
    <1>21. todo' = Append(t.around, Frame("attribute", v[4], t.owner))
        BY <1>4, <1>12, <1>14
    <1>22. Among(f, t, todo', pos', Len(c.attributes))
        BY <1>15, <1>16, <1>20, <1>21
    <1> QED
        BY <1>6, <1>12, <1>13, <1>16, <1>17, <1>18, <1>19, <1>20, <1>22 DEF InField, InAttributes

\* The fields are done.
LEMMA FieldsDoneStep ==
    ASSUME NEW f, Reading(f), FieldsAhead(f, Len(Written[f].fields)), Parse
    PROVE  MethodsAhead(f, 0)' /\ second_double_or_long_part' = second_double_or_long_part
    <1>1. PICK F \in Nat : F = Len(Written[f].fields)
        BY PlacesTyped, Zenon DEF Reading
    <1>2. PICK M \in Nat : M = Len(Written[f].methods)
        BY PlacesTyped, Zenon DEF Reading
    <1>3. /\ at = "reading" /\ todo = Reads("field", F - F) /\ FieldsRead(f, class, F)
          /\ class.methods = << >> /\ pos = Places[f].fields[F + 1]
          /\ AttributesRead(f, class, Places[f].ofField[F + 1] - 1)
        BY <1>1 DEF FieldsAhead, FieldsLeft
    <1>4. Top.kind = "field" /\ Top.n = 0
        <2>1. F - F = 0 /\ 0 \in Int
            OBVIOUS
        <2> QED
            BY <1>3, <2>1, OneCall DEF OneCallOf
    <1>5. ThenMethods
        <2>1. ~ (0 > 0)
            OBVIOUS
        <2> QED
            BY <1>3, <1>4, <2>1, ParseKinds DEF parse_field
    <1>6. /\ Number(f, pos, u2) = M /\ Places[f].methods[1] = pos + 2
          /\ Within(f, pos, pos + 2) /\ Places[f].ofMethod[1] = Places[f].ofField[F + 1]
        BY <1>1, <1>2, <1>3, WrittenAssumption DEF IsClassFile, Reading
    <1>7. read_e(pos, u2) = M /\ pos \in Nat
        <2>1. pos \in Int /\ u2 \in {u1, u2, u4}
            BY ReadingFacts
        <2> QED
            BY <1>6, <2>1, ReadIsNumber, ReadingFacts
    <1>8. pos' = pos + 2 /\ at' = "reading"
        <2>1. GoOn(2, 0, "reading") /\ 2 \in Nat
            BY <1>5 DEF ThenMethods, u2
        <2>s. PICK l \in Nat : l = Len(stream) /\ l = Len(Content[f])
            BY ReadingFacts
        <2>2. pos + 2 <= Len(stream) + 1 /\ pos \in Int /\ Len(stream) \in Int
            BY <1>6, <1>7, <2>s DEF Within
        <2>3. pos + 2 + 0 = pos + 2
            BY <1>7
        <2> QED
            BY <2>1, <2>2, <2>3, GoesOn
    <1>9. /\ todo' = MethodsLeft(f, 0) /\ class' = class
          /\ UNCHANGED second_double_or_long_part
        <2>1. M - 0 = M
            OBVIOUS
        <2> QED
            BY <1>2, <1>5, <1>7, <2>1 DEF ThenMethods, MethodsLeft, Reads
    <1>10. MethodsRead(f, class, 0)
        <2>1. Len(class.methods) = 0 /\ 0 <= M /\ 1 .. 0 = {}
            BY <1>3
        <2> QED
            BY <1>1, <1>2, <1>3, <2>1 DEF MethodsRead, MethodsSoFar
    <1>11. 0 + 1 = 1
        OBVIOUS
    <1> QED
        BY <1>3, <1>6, <1>8, <1>9, <1>10, <1>11 DEF MethodsAhead

\* The methods that were read stay as they were while the attributes do.
LEMMA SoFarStays ==
    ASSUME NEW f, NEW c, NEW d, NEW k, MethodsSoFar(f, c, k), d.attributes = c.attributes,
           \A j \in 1 .. k : d.methods[j] = c.methods[j]
    PROVE  MethodsSoFar(f, d, k)
    BY DEF MethodsSoFar

\* The next method of the table.
LEMMA MethodStep ==
    ASSUME NEW f, Reading(f), NEW k \in Nat, k < Len(Written[f].methods), MethodsAhead(f, k), Parse
    PROVE  InSignature(f, k + 1)' /\ second_double_or_long_part' = second_double_or_long_part
    <1>1. PICK M \in Nat : M = Len(Written[f].methods)
        BY PlacesTyped, Zenon DEF Reading
    <1>2. PICK m \in Int : m = M - k /\ m > 0 /\ ~ (m <= 0)
        <2>1. k < M
            BY <1>1
        <2> QED
            BY <2>1
    <1>3. /\ at = "reading" /\ todo = Reads("method", m) /\ todo = MethodsLeft(f, k)
          /\ MethodsRead(f, class, k) /\ pos = Places[f].methods[k + 1]
          /\ AttributesRead(f, class, Places[f].ofMethod[k + 1] - 1)
        BY <1>1, <1>2 DEF MethodsAhead, MethodsLeft
    <1>4. Top.kind = "method" /\ Top.n = m
        BY <1>2, <1>3, OneCall DEF OneCallOf
    <1>5. parse_method
        BY <1>2, <1>3, <1>4, ParseKinds DEF ThenAttributes
    <1>6. PICK x \in 1 .. M : x = k + 1 /\ x - 1 = k
        BY <1>1
    <1>7. PICK d : d = Written[f].methods[x]
        OBVIOUS
    <1>8. MemberAt(f, d, pos) /\ pos \in Nat
        BY <1>1, <1>3, <1>6, <1>7, MemberFacts, ReadingFacts
    <1>9. HeadRead(f, class) /\ Len(class.methods) = k
        BY <1>3 DEF FieldsRead, MethodsRead
    <1>10. PICK v : v = Read(<<u2, u2, u2>>)
        OBVIOUS
    <1>11. /\ v[1] = d.access
           /\ IsUtf8(v[2]) /\ Str(v[2]) = d.name
           /\ IsUtf8(v[3]) /\ Str(v[3]) = d.signature
        <2>1. /\ v = << d.access, Number(f, pos + 2, u2), Number(f, pos + 4, u2) >>
              /\ IsUtf8(Number(f, pos + 2, u2)) /\ Str(Number(f, pos + 2, u2)) = d.name
              /\ IsUtf8(Number(f, pos + 4, u2)) /\ Str(Number(f, pos + 4, u2)) = d.signature
            BY <1>8, <1>9, <1>10, MemberRead DEF Read
        <2>2. /\ v[1] = d.access /\ v[2] = Number(f, pos + 2, u2)
              /\ v[3] = Number(f, pos + 4, u2)
            BY <2>1
        <2> QED
            BY <2>1, <2>2
    <1>12. PICK e : e = [access |-> d.access, name |-> d.name, signature |-> d.signature,
                         nargs |-> Unset, c_attr |-> Unset]
        OBVIOUS
    <1>13. /\ class' = [class EXCEPT !.methods = Append(@, e)]
           /\ GoOn(3 * u2, 0, "signature")
           /\ UNCHANGED <<todo, second_double_or_long_part>>
        BY <1>5, <1>10, <1>11, <1>12 DEF parse_method
    <1>14. pos' = pos + 6 /\ at' = "signature"
        <2>1. 3 * u2 = 6 /\ 6 \in Nat
            BY DEF u2
        <2>2. GoOn(6, 0, "signature")
            BY <1>13, <2>1
        <2>s. PICK l \in Nat : l = Len(stream)
            BY ReadingFacts
        <2>3. pos + 6 <= Len(stream) + 1 /\ pos \in Int /\ Len(stream) \in Int
            BY <1>8, <2>s DEF MemberAt
        <2>4. pos + 6 + 0 = pos + 6
            BY <1>8
        <2> QED
            BY <2>1, <2>2, <2>3, <2>4, GoesOn
    <1>15. PICK c : c = class'
        OBVIOUS
    <1>16. /\ c.pool = class.pool /\ c.access = class.access /\ c.this = class.this
           /\ c.super = class.super /\ c.interfaces = class.interfaces
           /\ c.fields = class.fields
           /\ c.methods = Append(class.methods, e) /\ c.attributes = class.attributes
        BY <1>13, <1>15 DEF Reading, FileInv, ClassOK, HasParts, ClassParts
    <1>17. FieldsRead(f, c, Len(Written[f].fields))
        BY <1>3, <1>16 DEF MethodsRead, FieldsRead, HeadRead, PoolRead
    <1>18. /\ Len(c.methods) = x /\ c.methods[x] = e
           /\ \A j \in 1 .. k : c.methods[j] = class.methods[j]
        <2>1. class.methods \in Seq(Methods)
            BY DEF Reading, FileInv, ClassOK, PartsOK
        <2>2. IsSequence(class.methods)
            BY <2>1 DEF IsSequence
        <2>3. DOMAIN class.methods = 1 .. k
            BY <1>9, <2>2, SequenceTyped
        <2> QED
            BY <1>6, <1>9, <1>16, <2>2, <2>3, AppendSequence
    <1>19. MethodsSoFar(f, c, k)
        BY <1>3, <1>16, <1>18, SoFarStays DEF MethodsRead
    <1>20. AttributesRead(f, c, Places[f].ofMethod[x] - 1)
        BY <1>3, <1>6, <1>16 DEF AttributesRead
    <1>21. todo' = MethodsLeft(f, x - 1) /\ pos' = Places[f].methods[x] + 6
        BY <1>3, <1>6, <1>13, <1>14
    <1>22. InSignature(f, x)'
        BY <1>6, <1>7, <1>12, <1>14, <1>15, <1>17, <1>18, <1>19, <1>20, <1>21 DEF InSignature
    <1> QED
        BY <1>6, <1>13, <1>22

\* While the words of a method are counted, and when they are.
LEMMA SignatureStep ==
    ASSUME NEW f, Reading(f), NEW k \in 1 .. Len(Written[f].methods), InSignature(f, k), Parse
    PROVE  /\ InSignature(f, k)' \/ InMethod(f, k)'
           /\ second_double_or_long_part' = second_double_or_long_part
    <1>1. PICK M \in Nat : M = Len(Written[f].methods) /\ k \in 1 .. M
        BY PlacesTyped DEF Reading
    <1>2. PICK d : d = Written[f].methods[k]
        OBVIOUS
    <1>3. /\ at = "signature" /\ todo = MethodsLeft(f, k - 1)
          /\ FieldsRead(f, class, Len(Written[f].fields))
          /\ Len(class.methods) = k /\ MethodsSoFar(f, class, k - 1)
          /\ class.methods[k] = [access |-> d.access, name |-> d.name, signature |-> d.signature,
                                 nargs |-> Unset, c_attr |-> Unset]
          /\ pos = Places[f].methods[k] + 6 /\ pos \in Nat
          /\ AttributesRead(f, class, Places[f].ofMethod[k] - 1)
        BY <1>2, ReadingFacts DEF InSignature
    <1>4. signature = d.signature /\ signature \in Descriptors
        <2>1. signature = class.methods[k].signature
            BY <1>3 DEF Reading, FileInv, WordsOK
        <2>2. d.signature \in Descriptors
            BY <1>2, MemberFacts
        <2> QED
            BY <1>3, <2>1, <2>2
    <1>5. NargsRight
        BY DEF Reading, FileInv, ScanInv
    <1>6. ScanSignature \/ ScanFails \/ MethodAttributes
        BY <1>3, ParseKinds
    <1>7. ~ ScanFails
        BY <1>4, <1>5 DEF NargsRight, ScanFails
    <1>8. CASE ScanSignature
        <2>1. UNCHANGED <<at, todo, class, pos, second_double_or_long_part>>
            BY <1>8 DEF ScanSignature, fileVars
        <2> QED
            BY <2>1 DEF InSignature
    <1>9. CASE MethodAttributes
        <2>1. nargs = d.words
            BY <1>2, <1>4, <1>5, <1>9, MemberFacts DEF MethodAttributes, Return, NargsRight
        <2>2. PICK w \in Nat : w = nargs
            BY DEF Reading, FileInv, Numbers
        <2>3. PICK t : t = MethodTable(f, k)
            OBVIOUS
        <2>4. /\ t.place = pos /\ t.around = MethodsLeft(f, k) /\ t.owner = <<"method", k>>
              /\ t.first = Places[f].ofMethod[k] /\ t.code = d.code
            BY <1>2, <1>3, <2>3 DEF MethodTable
        <2>5. GoodTable(f, t)
            BY <2>3, TablesGood DEF Reading
        <2>6. PICK n \in Nat : n = Number(f, pos, u2) /\ n = read_e(pos, u2)
            <3>1. pos \in Int /\ u2 \in {u1, u2, u4}
                BY <1>3
            <3> QED
                BY <3>1, ReadIsNumber, ReadingFacts
        <2>7. /\ Within(f, t.place, t.place + 2)
              /\ Among(f, t, Append(t.around, Frame("attribute", n, t.owner)),
                       t.place + 2, t.first - 1)
            BY <2>4, <2>5, <2>6, TableBegins
        <2>8. /\ class' = [class EXCEPT !.methods[k].nargs = w] /\ c_attr_to_set' = k
              /\ todo' = Append(CountDown, Frame("attribute", n, <<"method", k>>))
              /\ GoOn(2, 0, "reading") /\ UNCHANGED second_double_or_long_part
            BY <1>3, <1>9, <2>2, <2>6 DEF MethodAttributes, TargetOf, u2
        <2>9. CountDown = MethodsLeft(f, k)
            <3>1. PICK m \in Int : m = M - (k - 1) /\ m - 1 = M - k
                <4>1. k \in Nat
                    BY <1>1
                <4> QED
                    BY <4>1
            <3>2. todo = Reads("method", m)
                BY <1>1, <1>3, <3>1 DEF MethodsLeft
            <3> QED
                BY <1>1, <3>1, <3>2, OneCall DEF OneCallOf, MethodsLeft
        <2>10. pos' = t.place + 2 /\ at' = "reading"
            <3>s. PICK l \in Nat : l = Len(stream) /\ l = Len(Content[f])
                BY ReadingFacts
            <3>1. pos + 2 <= Len(stream) + 1 /\ pos \in Int /\ Len(stream) \in Int /\ 2 \in Nat
                BY <1>3, <2>4, <2>7, <3>s DEF Within
            <3>2. pos + 2 + 0 = t.place + 2
                BY <1>3, <2>4
            <3> QED
                BY <2>8, <3>1, <3>2, GoesOn
        <2>11. PICK q : q = WithWords(class.methods, k, w)
            OBVIOUS
        <2>12. class.methods \in Seq(Methods)
            BY DEF Reading, FileInv, ClassOK, PartsOK
        <2>13. /\ Len(q) = k
               /\ \A j \in 1 .. k : q[j] = IF j = k THEN [class.methods[k] EXCEPT !.nargs = w]
                                           ELSE class.methods[j]
            BY <1>3, <2>11, <2>12 DEF WithWords
        <2>14. PICK c : c = class'
            OBVIOUS
        <2>15. /\ c.pool = class.pool /\ c.access = class.access /\ c.this = class.this
               /\ c.super = class.super /\ c.interfaces = class.interfaces
               /\ c.fields = class.fields /\ c.methods = q /\ c.attributes = class.attributes
            BY <2>8, <2>11, <2>14 DEF Reading, FileInv, ClassOK, HasParts, ClassParts, WithWords
        <2>16. FieldsRead(f, c, Len(Written[f].fields))
            BY <1>3, <2>15 DEF FieldsRead, HeadRead, PoolRead
        <2>17. PICK x : x = Len(class.attributes) /\ x = t.first - 1
            BY <1>3, <2>4 DEF AttributesRead
        <2>18. d.code \notin 1 .. x
            <3>1. t.first \in Nat
                BY <2>5 DEF GoodTable
            <3>2. d.code = Unset \/ d.code \in t.first .. t.last
                BY <2>4, <2>5, TableBounds
            <3>3. t.last \in Int
                BY <2>5 DEF GoodTable
            <3> QED
                BY <2>17, <3>1, <3>2, <3>3 DEF Unset
        <2>19. q[k] = MethodSoFar(d, x)
            <3>1. q[k] = [access |-> d.access, name |-> d.name, signature |-> d.signature,
                          nargs |-> w, c_attr |-> Unset]
                BY <1>3, <2>13
            <3> QED
                BY <2>1, <2>2, <2>18, <3>1 DEF MethodSoFar
        <2>20. MethodsSoFar(f, c, k)
            <3>1. \A j \in 1 .. k : j = k \/ (j \in 1 .. k - 1 /\ j # k)
                BY <1>1
            <3>2. \A j \in 1 .. k - 1 : class.methods[j] = MethodSoFar(Written[f].methods[j], x)
                BY <1>3, <2>17 DEF MethodsSoFar
            <3>3. \A j \in 1 .. k : q[j] = MethodSoFar(Written[f].methods[j], x)
                BY <1>2, <2>13, <2>19, <3>1, <3>2
            <3> QED
                BY <2>15, <2>17, <3>3 DEF MethodsSoFar
        <2>21. MethodsRead(f, c, k)
            BY <1>1, <2>13, <2>15, <2>16, <2>20 DEF MethodsRead
        <2>22. AttributesRead(f, c, Len(c.attributes)) /\ Len(c.attributes) = t.first - 1
            BY <1>3, <2>4, <2>15 DEF AttributesRead
        <2>23. Among(f, t, todo', pos', Len(c.attributes))
            BY <2>4, <2>7, <2>8, <2>9, <2>10, <2>22
        <2> QED
            BY <2>3, <2>8, <2>10, <2>14, <2>21, <2>22, <2>23 DEF InMethod, InAttributes
    <1> QED
        BY <1>6, <1>7, <1>8, <1>9

\* The methods are done.
LEMMA MethodsDoneStep ==
    ASSUME NEW f, Reading(f), MethodsAhead(f, Len(Written[f].methods)), Parse
    PROVE  InClass(f)' /\ second_double_or_long_part' = second_double_or_long_part
    <1>1. PICK M \in Nat : M = Len(Written[f].methods)
        BY PlacesTyped, Zenon DEF Reading
    <1>2. /\ at = "reading" /\ todo = Reads("method", M - M) /\ MethodsRead(f, class, M)
          /\ pos = Places[f].methods[M + 1]
          /\ AttributesRead(f, class, Places[f].ofMethod[M + 1] - 1)
        BY <1>1 DEF MethodsAhead, MethodsLeft
    <1>3. Top.kind = "method" /\ Top.n = 0 /\ CountDown = Reads("method", 0 - 1)
          /\ Below = << >>
        <2>1. M - M = 0 /\ 0 \in Int
            OBVIOUS
        <2> QED
            BY <1>2, <2>1, OneCall DEF OneCallOf
    <1>4. ThenAttributes
        <2>1. ~ (0 > 0)
            OBVIOUS
        <2> QED
            BY <1>2, <1>3, <2>1, ParseKinds DEF parse_method
    <1>5. PICK t : t = ClassTable(f)
        OBVIOUS
    <1>6. /\ t.place = pos /\ t.around = << >> /\ t.owner = <<"class", 0>>
          /\ t.first = Places[f].ofMethod[M + 1]
        BY <1>1, <1>2, <1>5 DEF ClassTable
    <1>7. GoodTable(f, t)
        BY <1>5, TablesGood DEF Reading
    <1>8. PICK n \in Nat : n = Number(f, pos, u2) /\ n = read_e(pos, u2)
        <2>1. pos \in Int /\ u2 \in {u1, u2, u4}
            BY ReadingFacts
        <2> QED
            BY <2>1, ReadIsNumber, ReadingFacts
    <1>9. /\ Within(f, t.place, t.place + 2)
          /\ Among(f, t, Append(t.around, Frame("attribute", n, t.owner)),
                   t.place + 2, t.first - 1)
        BY <1>6, <1>7, <1>8, TableBegins
    <1>10. /\ todo' = << Frame("attribute", n, <<"class", 0>>) >> /\ GoOn(2, 0, "reading")
           /\ UNCHANGED <<class, second_double_or_long_part>>
        BY <1>4, <1>8 DEF ThenAttributes, u2
    <1>11. todo' = Append(t.around, Frame("attribute", n, t.owner))
        <2>1. PICK e : e = Frame("attribute", n, <<"class", 0>>)
            OBVIOUS
        <2>2. Append(<< >>, e) = << e >>
            OBVIOUS
        <2> QED
            BY <1>6, <1>10, <2>1, <2>2
    <1>12. pos' = t.place + 2 /\ at' = "reading"
        <2>s. PICK l \in Nat, p \in Nat : l = Len(stream) /\ l = Len(Content[f]) /\ p = pos
            BY ReadingFacts
        <2>1. pos + 2 <= Len(stream) + 1 /\ pos \in Int /\ Len(stream) \in Int /\ 2 \in Nat
            BY <1>6, <1>9, <2>s DEF Within
        <2>2. pos + 2 + 0 = t.place + 2
            BY <1>6, <2>s
        <2> QED
            BY <1>10, <2>1, <2>2, GoesOn
    <1>13. AttributesRead(f, class, Len(class.attributes)) /\ Len(class.attributes) = t.first - 1
        BY <1>2, <1>6 DEF AttributesRead
    <1>14. Among(f, t, todo', pos', Len(class.attributes))
        BY <1>9, <1>11, <1>12, <1>13
    <1> QED
        BY <1>1, <1>2, <1>5, <1>10, <1>12, <1>13, <1>14 DEF InClass, InAttributes

\* The parts of the class that an attribute does not change.
RestStays ==
    /\ class'.pool = class.pool /\ class'.access = class.access /\ class'.this = class.this
    /\ class'.super = class.super /\ class'.interfaces = class.interfaces
    /\ class'.fields = class.fields
    /\ UNCHANGED <<second_double_or_long_part, c_attr_to_set>>

\* The next attribute was read: one without code, ...
PlainRead(f, x) ==
    /\ RestStays /\ class'.methods = class.methods
    /\ class'.attributes = Append(class.attributes, Written[f].attributes[x])
    /\ ~ IsCode(f, x)
    /\ todo' = CountDown
    /\ pos' = Behind(f, x) /\ at' = "reading"

\* ... or code, whose own attributes come next.
CodeRead(f, x) ==
    /\ RestStays /\ class'.methods = WithShortcut(class.methods, c_attr_to_set, x)
    /\ class'.attributes = Append(class.attributes, Written[f].attributes[x])
    /\ IsCode(f, x)
    /\ todo' = Append(CountDown, Frame("attribute", Inner(f, x), <<"code", x>>))
    /\ pos' = Behind(f, x) /\ at' = "reading"

\* The name and the length of the next attribute.
LEMMA AttributeHead ==
    ASSUME NEW f, Reading(f), HeadRead(f, class), NEW x \in 1 .. Len(Written[f].attributes),
           pos = Places[f].attributes[x]
    PROVE  /\ IsUtf8(NameIndex) /\ Str(NameIndex) = Written[f].attributes[x].name
           /\ AttributeLength = Written[f].attributes[x].length
           /\ Written[f].attributes[x].length \in Nat
           /\ pos \in Nat /\ Behind(f, x) \in Nat /\ Behind(f, x) <= Len(stream) + 1
    <1>1. /\ pos \in Nat /\ IsText(f, pos, Written[f].attributes[x].name)
          /\ Written[f].attributes[x].length = Number(f, pos + 2, u4)
          /\ Behind(f, x) \in Nat /\ Within(f, pos, Behind(f, x))
        BY AttributeFacts, ReadingFacts
    <1>2. NameIndex = Number(f, pos, u2)
        <2>1. pos \in Int /\ u2 \in {u1, u2, u4}
            BY <1>1
        <2> QED
            BY <2>1, ReadIsNumber, ReadingFacts DEF NameIndex
    <1>3. AttributeLength = Number(f, pos + 2, u4)
        <2>1. pos + 2 \in Int /\ u4 \in {u1, u2, u4}
            BY <1>1
        <2>2. read_e(pos + 2, u4) = Number(f, pos + 2, u4)
            BY <2>1, ReadIsNumber, ReadingFacts
        <2> QED
            BY <2>2 DEF AttributeLength, u2
    <1>4. pos \in Int
        BY <1>1
    <1> QED
        BY <1>1, <1>2, <1>3, <1>4, TextFound, ReadingFacts DEF Within

\* What the file says of an attribute at position p.
AttributeOf(f, p, a) ==
    /\ a = [owner |-> a.owner, name |-> a.name, length |-> a.length, body |-> a.body]
    /\ a.name = Code => a.body = << Number(f, p + 6, u2), Number(f, p + 8, u2),
                                    Bytes(f, p + 14, CodeLength(f, p)) >>
    /\ a.name = ConstantValue => a.body = << Number(f, p + 6, u2) >> /\ a.length = 2
    /\ a.name \notin {Code, ConstantValue} => a.body = << >>

\* An attribute of the description, as the file has it.
LEMMA AttributeIs ==
    ASSUME NEW f, Reading(f), NEW x \in 1 .. Len(Written[f].attributes)
    PROVE  AttributeOf(f, Places[f].attributes[x], Written[f].attributes[x])
    <1>a. PICK a : a = Written[f].attributes[x]
        OBVIOUS
    <1>1. IsAttribute(f, x)
        BY FileFormat DEF Reading
    <1>2. ConstantValue # Code
        BY FileAssumption
    <1> DEFINE p == Places[f].attributes[x]
    <1>3. PICK l : l = Number(f, p + 2, u4)
        OBVIOUS
    <1>4. PICK c : c = << Number(f, p + 6, u2), Number(f, p + 8, u2),
                          Bytes(f, p + 14, CodeLength(f, p)) >>
        OBVIOUS
    <1>5. PICK v : v = << Number(f, p + 6, u2) >>
        OBVIOUS
    <1>6. /\ a = [owner |-> a.owner, name |-> a.name, length |-> l,
                  body |-> IF a.name = Code THEN c ELSE IF a.name = ConstantValue THEN v ELSE << >>]
          /\ a.name = ConstantValue => a.length = 2
        BY <1>1, <1>3, <1>4, <1>5, <1>a DEF IsAttribute
    <1> HIDE DEF p
    <1>7. /\ a = [owner |-> a.owner, name |-> a.name, length |-> a.length, body |-> a.body]
          /\ a.name = Code => a.body = c
          /\ a.name = ConstantValue => a.body = v /\ a.length = 2
          /\ a.name \notin {Code, ConstantValue} => a.body = << >>
        BY <1>2, <1>6
    <1> QED
        BY <1>4, <1>5, <1>7, <1>a DEF p, AttributeOf

\* An attribute with a given body is added.
LEMMA AttributeAdded ==
    ASSUME NEW f, Reading(f), HeadRead(f, class), NEW x \in 1 .. Len(Written[f].attributes),
           pos = Places[f].attributes[x], Top.owner = Written[f].attributes[x].owner
    PROVE  WithAttribute(Written[f].attributes[x].body) =
               [class EXCEPT !.attributes = Append(@, Written[f].attributes[x])]
    <1>1. PICK a : a = Written[f].attributes[x]
        OBVIOUS
    <1>2. a = [owner |-> a.owner, name |-> a.name, length |-> a.length, body |-> a.body]
        BY <1>1, AttributeIs DEF AttributeOf
    <1>3. Str(NameIndex) = a.name /\ AttributeLength = a.length
        BY <1>1, AttributeHead
    <1>4. [owner |-> Top.owner, name |-> Str(NameIndex), length |-> AttributeLength,
           body |-> a.body] = a
        BY <1>1, <1>2, <1>3
    <1> QED
        BY <1>1, <1>4 DEF WithAttribute

\* What follows from the class with another attribute.
LEMMA OnlyAttributes ==
    ASSUME FileInv, NEW a, class' = [class EXCEPT !.attributes = Append(@, a)],
           UNCHANGED <<second_double_or_long_part, c_attr_to_set>>
    PROVE  /\ RestStays /\ class'.methods = class.methods
           /\ class'.attributes = Append(class.attributes, a)
    BY DEF FileInv, ClassOK, HasParts, ClassParts, RestStays

\* An attribute other than code is read or skipped.
LEMMA PlainStep ==
    ASSUME NEW f, Reading(f), HeadRead(f, class), NEW x \in 1 .. Len(Written[f].attributes),
           pos = Places[f].attributes[x], Top.owner = Written[f].attributes[x].owner,
           parse_ConstantValue_attribute \/ SkipAttribute
    PROVE  PlainRead(f, x)
    <1>1. PICK a : a = Written[f].attributes[x]
        OBVIOUS
    <1>2. /\ IsUtf8(NameIndex) /\ Str(NameIndex) = a.name
          /\ AttributeLength = a.length /\ a.length \in Nat
          /\ pos \in Nat /\ Behind(f, x) \in Nat /\ Behind(f, x) <= Len(stream) + 1
        BY <1>1, AttributeHead
    <1>3. /\ a.name = ConstantValue => a.body = << Number(f, pos + 6, u2) >> /\ a.length = 2
          /\ a.name \notin {Code, ConstantValue} => a.body = << >>
        BY <1>1, AttributeIs DEF AttributeOf
    <1>4. Code # ConstantValue
        BY FileAssumption
    <1>5. a.name # Code /\ ~ IsCode(f, x)
        BY <1>1, <1>2, <1>4 DEF parse_ConstantValue_attribute, SkipAttribute, NameIs, IsCode
    <1>6. Behind(f, x) = pos + 6 + a.length
        BY <1>1, <1>5 DEF Behind
    <1>l. PICK l \in Nat : l = Len(stream)
        BY ReadingFacts
    <1>7. CASE parse_ConstantValue_attribute
        <2>1. a.name = ConstantValue
            BY <1>2, <1>7 DEF parse_ConstantValue_attribute, NameIs
        <2>2. read_e(pos + u2 + u4, u2) = Number(f, pos + 6, u2)
            <3>0. pos \in Nat
                BY <1>2
            <3>1. PICK p \in Int : p = pos + 6 /\ pos + 2 + 4 = p
                <4>1. pos + 6 \in Int /\ pos + 2 + 4 = pos + 6
                    BY <3>0
                <4> QED
                    BY <4>1, Zenon
            <3>2. u2 \in {u1, u2, u4}
                OBVIOUS
            <3>3. read_e(p, u2) = Number(f, p, u2)
                BY <3>2, ReadIsNumber, ReadingFacts
            <3>4. pos + u2 + u4 = p
                BY <3>1 DEF u2, u4
            <3> QED
                BY <3>1, <3>3, <3>4
        <2>3. WithAttribute(<< read_e(pos + u2 + u4, u2) >>) =
                  [class EXCEPT !.attributes = Append(@, a)]
            <3>1. << read_e(pos + u2 + u4, u2) >> = a.body
                BY <1>3, <2>1, <2>2
            <3> QED
                BY <1>1, <3>1, AttributeAdded
        <2>4. /\ class' = [class EXCEPT !.attributes = Append(@, a)] /\ todo' = CountDown
              /\ GoOn(u2 + u4 + u2, 0, "reading")
              /\ UNCHANGED <<second_double_or_long_part, c_attr_to_set>>
            BY <1>7, <2>3 DEF parse_ConstantValue_attribute
        <2>5. pos' = Behind(f, x) /\ at' = "reading"
            <3>1. u2 + u4 + u2 = 8 /\ 8 \in Nat
                BY DEF u2, u4
            <3>2. GoOn(8, 0, "reading")
                BY <2>4, <3>1
            <3>4. a.length = 2 /\ pos \in Nat
                BY <1>2, <1>3, <2>1
            <3>3. pos + 8 <= Len(stream) + 1 /\ pos \in Int /\ Len(stream) \in Int
                  /\ pos + 8 + 0 = Behind(f, x)
                BY <1>2, <1>6, <1>l, <3>4
            <3> QED
                BY <3>1, <3>2, <3>3, GoesOn
        <2>6. RestStays /\ class'.methods = class.methods /\ class'.attributes = Append(class.attributes, a)
            BY <2>4, OnlyAttributes DEF Reading
        <2> QED
            BY <1>1, <1>5, <2>4, <2>5, <2>6 DEF PlainRead
    <1>8. CASE SkipAttribute
        <2>1. a.name \notin {Code, ConstantValue}
            BY <1>2, <1>8 DEF SkipAttribute
        <2>3. WithAttribute(<< >>) = [class EXCEPT !.attributes = Append(@, a)]
            <3>1. << >> = a.body
                BY <1>3, <2>1
            <3> QED
                BY <1>1, <3>1, AttributeAdded
        <2>4. /\ class' = [class EXCEPT !.attributes = Append(@, a)] /\ todo' = CountDown
              /\ GoOn(u2 + u4, a.length, "reading")
              /\ UNCHANGED <<second_double_or_long_part, c_attr_to_set>>
            BY <1>2, <1>8, <2>3 DEF SkipAttribute
        <2>5. pos' = Behind(f, x) /\ at' = "reading"
            <3>1. u2 + u4 = 6 /\ 6 \in Nat
                BY DEF u2, u4
            <3>2. GoOn(6, a.length, "reading")
                BY <2>4, <3>1
            <3>3. pos + 6 <= Len(stream) + 1 /\ pos \in Int /\ Len(stream) \in Int
                BY <1>2, <1>6, <1>l
            <3> QED
                BY <1>6, <3>1, <3>2, <3>3, GoesOn
        <2>6. RestStays /\ class'.methods = class.methods /\ class'.attributes = Append(class.attributes, a)
            BY <2>4, OnlyAttributes DEF Reading
        <2> QED
            BY <1>1, <1>5, <2>4, <2>5, <2>6 DEF PlainRead
    <1> QED
        BY <1>7, <1>8

\* The parts of code at position p: where each is, and what is read of it.
CodeParts(f, x, p, l, n, m, q) ==
    /\ l = CodeLength(f, p) /\ n = Number(f, p + 14 + l, u2)
    /\ q = p + 16 + l + 8 * n /\ m = Number(f, q, u2)
    /\ Behind(f, x) = q + 2 /\ Inner(f, x) = m

\* The parts of code lie one behind the other in the file.
LEMMA CodePlaces ==
    ASSUME NEW f \in DOMAIN Written, NEW x, IsCode(f, x), NEW p \in Nat,
           p = Places[f].attributes[x]
    PROVE  \E l \in Nat, n \in Nat, m \in Nat, q \in Nat : CodeParts(f, x, p, l, n, m, q)
    <1>1. f \in Files /\ 4 \in 1 .. 4 /\ 2 \in 1 .. 4
        BY FileFormat
    <1>2. PICK l \in Nat : l = CodeLength(f, p)
        BY <1>1, NumberTyped DEF CodeLength, u4
    <1>3. PICK n \in Nat : n = Number(f, p + 14 + l, u2)
        BY <1>1, NumberTyped DEF u2
    <1>4. PICK q \in Nat : q = p + 16 + l + 8 * n /\ p + 14 + l + 2 + 8 * n = q
        OBVIOUS
    <1>5. PICK m \in Nat : m = Number(f, q, u2)
        BY <1>1, NumberTyped DEF u2
    <1>6. ExceptionsAt(f, p) = p + 14 + l
        BY <1>2 DEF ExceptionsAt
    <1>7. InnerAt(f, p) = q
        BY <1>3, <1>4, <1>6 DEF InnerAt
    <1>8. Inner(f, x) = m /\ Behind(f, x) = q + 2
        BY <1>5, <1>7 DEF Inner, Behind
    <1> QED
        BY <1>2, <1>3, <1>4, <1>5, <1>8 DEF CodeParts

\* Code is read, up to the attributes in it.
LEMMA CodeStep ==
    ASSUME NEW f, Reading(f), HeadRead(f, class), NEW x \in 1 .. Len(Written[f].attributes),
           pos = Places[f].attributes[x], Top.owner = Written[f].attributes[x].owner,
           Len(class.attributes) + 1 = x, c_attr_to_set \notin Elsewhere, parse_Code_attribute
    PROVE  CodeRead(f, x)
    <1>1. PICK a : a = Written[f].attributes[x]
        OBVIOUS
    <1>2. /\ IsUtf8(NameIndex) /\ Str(NameIndex) = a.name
          /\ pos \in Nat /\ Behind(f, x) \in Nat /\ Behind(f, x) <= Len(stream) + 1
        BY <1>1, AttributeHead
    <1>3. a.name = Code /\ IsCode(f, x)
        BY <1>1, <1>2 DEF parse_Code_attribute, NameIs, IsCode
    <1>p. PICK p \in Nat : p = pos
        BY <1>2
    <1>4. PICK l \in Nat, n \in Nat, m \in Nat, q \in Nat : CodeParts(f, x, p, l, n, m, q)
        BY <1>3, <1>p, CodePlaces DEF Reading
    <1>5. /\ l = Number(f, p + 10, u4) /\ n = Number(f, p + 14 + l, u2)
          /\ m = Number(f, q, u2) /\ Behind(f, x) = q + 2 /\ Inner(f, x) = m
          /\ l = CodeLength(f, p)
        BY <1>4 DEF CodeParts, CodeLength
    <1>6. q = p + 16 + l + 8 * n
        BY <1>4 DEF CodeParts
    <1>L. PICK L \in Nat : L = Len(stream) /\ L = Len(Content[f]) /\ q + 2 <= L + 1
        BY <1>2, <1>5, ReadingFacts
    <1>7. a.body = << Number(f, p + 6, u2), Number(f, p + 8, u2), Bytes(f, p + 14, l) >>
        <2>1. AttributeOf(f, p, a)
            BY <1>1, <1>p, AttributeIs
        <2> QED
            BY <1>3, <1>5, <2>1 DEF AttributeOf
    <1>8. PICK s \in Nat : s = p + 6 /\ s + 2 = p + 8 /\ s + 4 = p + 10 /\ pos + u2 + u4 = s
        <2>1. PICK s \in Nat : s = p + 6 /\ s + 2 = p + 8 /\ s + 4 = p + 10 /\ p + 2 + 4 = s
            OBVIOUS
        <2> QED
            BY <1>p, <2>1 DEF u2, u4
    <1>9. PICK v : v = ReadFrom(s, <<u2, u2, u4>>)
        OBVIOUS
    <1>10. v[1] = Number(f, p + 6, u2) /\ v[2] = Number(f, p + 8, u2) /\ v[3] = l
        <2>1. stream \in Seq(Nat) /\ Open(f) /\ s \in Int
            BY DEF Reading, FileInv, Numbers
        <2>2. v = << Number(f, s, u2), Number(f, s + 2, u2), Number(f, s + 4, u4) >>
            BY <1>9, <2>1, Rows
        <2> QED
            BY <1>5, <1>8, <2>2
    <1>11. PICK c \in Nat : c = p + 14 /\ s + 2 * u2 + u4 = c
        <2>1. PICK c \in Nat : c = p + 14 /\ s + 2 * 2 + 4 = c
            BY <1>8
        <2> QED
            BY <2>1 DEF u2, u4
    <1>12. read_e(c + l, u2) = n
        <2>1. c + l \in Int /\ u2 \in {u1, u2, u4}
            BY <1>11
        <2>2. read_e(c + l, u2) = Number(f, c + l, u2)
            BY <2>1, ReadIsNumber, ReadingFacts
        <2> QED
            BY <1>5, <1>11, <2>2
    <1>13. c + l + u2 + n * ExceptionEntry = q
        <2>1. ExceptionEntry = 8
            BY DEF ExceptionEntry, u2
        <2>2. n * 8 = 8 * n
            OBVIOUS
        <2>3. c + l + 2 + 8 * n = p + 16 + l + 8 * n
            BY <1>11
        <2> QED
            BY <1>6, <2>1, <2>2, <2>3 DEF u2
    <1>14. read_e(q, u2) = m
        <2>1. q \in Int /\ u2 \in {u1, u2, u4}
            OBVIOUS
        <2> QED
            BY <1>5, <2>1, ReadIsNumber, ReadingFacts
    <1>15. Block(c, l) = Bytes(f, p + 14, l)
        <2>1. c >= 1 /\ c + l <= Len(Content[f]) + 1
            BY <1>6, <1>11, <1>L
        <2> QED
            BY <1>11, <2>1, BlockIsBytes
    <1>16. << v[1], v[2], Block(c, v[3]) >> = a.body
        BY <1>7, <1>10, <1>15
    <1>17. WithAttribute(<< v[1], v[2], Block(c, v[3]) >>) =
               [class EXCEPT !.attributes = Append(@, a)]
        <2>1. WithAttribute(a.body) = [class EXCEPT !.attributes = Append(@, a)]
            BY <1>1, AttributeAdded
        <2> QED
            BY <1>16, <2>1
    <1>18. New = x
        BY DEF New
    <1>19. PICK k : k = c_attr_to_set
        OBVIOUS
    <1>24. c_attr_to_set # Dangling
        BY DEF Elsewhere
    <1>20. /\ class' = [[class EXCEPT !.attributes = Append(@, a)] EXCEPT !.methods[k].c_attr = x]
           /\ todo' = Append(CountDown, Frame("attribute", m, <<"code", x>>))
           /\ GoOn(q + u2 - pos, 0, "reading")
           /\ UNCHANGED <<second_double_or_long_part, c_attr_to_set>>
        <2>1. /\ v = ReadFrom(pos + u2 + u4, <<u2, u2, u4>>) /\ v[3] = l
              /\ pos + u2 + u4 + 2 * u2 + u4 = c
              /\ c + l + u2 + read_e(c + l, u2) * ExceptionEntry = q
            BY <1>8, <1>9, <1>10, <1>11, <1>12, <1>13
        <2>2. class' = [WithAttribute(<< v[1], v[2], Block(c, v[3]) >>)
                           EXCEPT !.methods[k].c_attr = x]
            BY <1>18, <1>19, <2>1 DEF parse_Code_attribute
        <2>3. todo' = Append(CountDown, Frame("attribute", m, <<"code", x>>))
            BY <1>14, <1>18, <2>1 DEF parse_Code_attribute
        <2>4. GoOn(q + u2 - pos, 0, "reading")
            BY <1>24, <2>1 DEF parse_Code_attribute
        <2>5. UNCHANGED <<second_double_or_long_part, c_attr_to_set>>
            BY DEF parse_Code_attribute
        <2> QED
            BY <1>17, <2>2, <2>3, <2>4, <2>5
    <1>21. pos' = Behind(f, x) /\ at' = "reading"
        <2>1. PICK z \in Nat : z = q + 2 - p
            BY <1>6
        <2>2. GoOn(z, 0, "reading")
            BY <1>20, <1>p, <2>1 DEF u2
        <2>3. pos + z <= Len(stream) + 1 /\ pos \in Int /\ Len(stream) \in Int
              /\ pos + z + 0 = Behind(f, x)
            <3>1. p + z = q + 2
                BY <1>6, <2>1
            <3>2. pos + z = q + 2 /\ Behind(f, x) = q + 2 /\ q + 2 <= L + 1 /\ L = Len(stream)
                BY <1>5, <1>L, <1>p, <3>1
            <3>3. q + 2 + 0 = q + 2
                OBVIOUS
            <3> QED
                BY <1>p, <1>L, <3>2, <3>3
        <2> QED
            BY <2>2, <2>3, GoesOn
    <1>22. HasParts(class', class.pool, class.fields, WithShortcut(class.methods, k, x),
                    Append(class.attributes, a))
        BY <1>20, CodeStored DEF Reading, FileInv
    <1>23. RestStays
        BY <1>20, <1>22 DEF RestStays, HasParts, Reading, FileInv, ClassOK, ClassParts
    <1> QED
        BY <1>1, <1>3, <1>5, <1>19, <1>20, <1>21, <1>22, <1>23 DEF CodeRead, HasParts

\* The next attribute.
LEMMA NextAttribute ==
    ASSUME NEW f, Reading(f), HeadRead(f, class), NEW x \in 1 .. Len(Written[f].attributes),
           pos = Places[f].attributes[x], Top.owner = Written[f].attributes[x].owner,
           Len(class.attributes) + 1 = x, IsCode(f, x) => c_attr_to_set \notin Elsewhere,
           at = "reading", Top.kind = "attribute", NEW n \in Nat, Top.n = n, n # 0, Parse
    PROVE  PlainRead(f, x) \/ CodeRead(f, x)
    <1>1. IsUtf8(NameIndex) /\ Str(NameIndex) = Written[f].attributes[x].name
        BY AttributeHead
    <1>2. ~ (n <= 0)
        OBVIOUS
    <1>3. parse_ConstantValue_attribute \/ parse_Code_attribute \/ SkipAttribute
        BY <1>1, <1>2, ParseKinds DEF WrongName, AttributesDone, Finish
    <1>4. parse_Code_attribute => IsCode(f, x)
        BY <1>1 DEF parse_Code_attribute, NameIs, IsCode
    <1> QED
        BY <1>3, <1>4, PlainStep, CodeStep

\* A call for attributes is under way.
CallOf(calls, n, owner) ==
    /\ Top.kind = "attribute" /\ Top.n = n /\ Top.owner = owner /\ Below = calls
    /\ CountDown = Append(calls, Frame("attribute", n - 1, owner))

\* The calls under way after code has begun its attributes.
LEMMA CallPushed ==
    ASSUME NEW s, IsSequence(s), NEW n \in Int, NEW o, todo = Append(s, Frame("attribute", n, o))
    PROVE  CallOf(s, n, o)
    <1>1. PICK e : e = [kind |-> "attribute", n |-> n, owner |-> o]
        OBVIOUS
    <1>2. todo = Append(s, e)
        BY <1>1 DEF Frame
    <1>3. PICK l \in Nat : l = Len(s) /\ DOMAIN s = 1 .. l
        BY SequenceTyped
    <1>4. Len(todo) = l + 1 /\ todo[l + 1] = e /\ \A k \in 1 .. l : todo[k] = s[k]
        BY <1>2, <1>3, AppendSequence
    <1>5. Top = e
        BY <1>4 DEF Top, Last
    <1>6. PICK b : b = Below
        OBVIOUS
    <1>7. b = s
        <2>1. b = SubSeq(todo, 1, l)
            BY <1>3, <1>4, <1>6 DEF Below, Front
        <2>2. IsSequence(todo)
            BY <1>2, AppendSequence
        <2>3. PICK S : todo \in Seq(S)
            BY <2>2 DEF IsSequence
        <2>4. b \in Seq(S) /\ Len(b) = l /\ \A k \in 1 .. l : b[k] = todo[k]
            BY <1>4, <2>1, <2>3
        <2>5. IsSequence(b)
            BY <2>4 DEF IsSequence
        <2> QED
            BY <1>3, <1>4, <2>4, <2>5, SameSequence
    <1>8. [e EXCEPT !.n = @ - 1] = [kind |-> "attribute", n |-> n - 1, owner |-> o]
        BY <1>1
    <1>9. CountDown = Append(s, [kind |-> "attribute", n |-> n - 1, owner |-> o])
        BY <1>5, <1>6, <1>7, <1>8 DEF CountDown
    <1> QED
        BY <1>1, <1>5, <1>6, <1>7, <1>9 DEF CallOf, Frame

\* A step within a table: an attribute is read, or code is left, ...
Moved(f, t, x) ==
    /\ InAttributes(f, t)'
    /\ \/ PlainRead(f, x + 1) /\ x + 1 \in t.first .. t.last
       \/ CodeRead(f, x + 1) /\ x + 1 \in t.first .. t.last
       \/ UNCHANGED <<class, second_double_or_long_part, c_attr_to_set>>

\* ... or the table is done.
Left(f, t, x) ==
    /\ CallOf(t.around, 0, t.owner)
    /\ AttributesDone \/ Finish
    /\ x = t.last /\ pos = t.end

\* One attribute more is as described.
LEMMA AttributesGrow ==
    ASSUME NEW f, NEW x \in Nat, AttributesRead(f, class, x), IsSequence(class.attributes),
           x + 1 \in 1 .. Len(Written[f].attributes), f \in DOMAIN Written,
           class'.attributes = Append(class.attributes, Written[f].attributes[x + 1])
    PROVE  AttributesRead(f, class', x + 1) /\ Len(class'.attributes) = x + 1
    <1>1. PICK A \in Nat : A = Len(Written[f].attributes)
        BY PlacesTyped
    <1>2. PICK q : q = class'.attributes
        OBVIOUS
    <1>3. /\ Len(class.attributes) = x /\ DOMAIN class.attributes = 1 .. x
          /\ \A y \in 1 .. x : class.attributes[y] = Written[f].attributes[y]
        BY SequenceTyped DEF AttributesRead
    <1>4. /\ Len(q) = x + 1 /\ q[x + 1] = Written[f].attributes[x + 1]
          /\ \A y \in 1 .. x : q[y] = class.attributes[y]
        BY <1>2, <1>3, AppendSequence
    <1>5. \A y \in 1 .. x + 1 : y \in 1 .. x \/ y = x + 1
        OBVIOUS
    <1>6. \A y \in 1 .. x + 1 : q[y] = Written[f].attributes[y]
        BY <1>3, <1>4, <1>5
    <1> QED
        BY <1>1, <1>2, <1>4, <1>6 DEF AttributesRead

\* A step in a table outside code.
LEMMA OuterStep ==
    ASSUME NEW f, Reading(f), HeadRead(f, class), NEW t, GoodTable(f, t), IsSequence(t.around),
           at = "reading", NEW x \in Nat, AttributesRead(f, class, x), NEW n \in Nat,
           InOuter(f, t, todo, pos, x, n),
           t.code # Unset => c_attr_to_set \notin Elsewhere, Parse
    PROVE  Moved(f, t, x) \/ Left(f, t, x)
    <1>1. CallOf(t.around, n, t.owner)
        BY CallPushed DEF InOuter
    <1>2. Len(class.attributes) = x /\ IsSequence(class.attributes)
        BY DEF AttributesRead, Reading, FileInv, ClassOK, PartsOK, AttributesOK
    <1>3. CASE n # 0
        <2>1. PICK z \in Nat : z = x + 1
            OBVIOUS
        <2>2. /\ z \in t.first .. t.last /\ z \in 1 .. Len(Written[f].attributes)
              /\ pos = Places[f].attributes[z] /\ Written[f].attributes[z].owner = t.owner
            BY <1>3, <2>1, NextInOuter
        <2>3. IsCode(f, z) => c_attr_to_set \notin Elsewhere
            <3>1. IsCode(f, z) => z = t.code
                BY <2>2, TableBounds
            <3>2. z # Unset
                BY DEF Unset
            <3> QED
                BY <3>1, <3>2
        <2>4. PlainRead(f, z) \/ CodeRead(f, z)
            BY <1>1, <1>2, <1>3, <2>1, <2>2, <2>3, NextAttribute DEF CallOf
        <2>5. AttributesRead(f, class', z) /\ Len(class'.attributes) = z
            BY <1>2, <2>1, <2>2, <2>4, AttributesGrow DEF PlainRead, CodeRead, Reading
        <2>6. CASE PlainRead(f, z)
            <3>1. InOuter(f, t, Append(t.around, Frame("attribute", n - 1, t.owner)),
                          Behind(f, z), z, n - 1)
                BY <1>3, <2>1, <2>6, PlainInOuter DEF PlainRead
            <3>2. InOuter(f, t, todo', pos', z, n - 1) /\ n - 1 \in Nat /\ at' = "reading"
                BY <1>1, <1>3, <2>6, <3>1 DEF PlainRead, CallOf
            <3>3. Among(f, t, todo', pos', z)
                BY <3>2 DEF Among
            <3>4. InAttributes(f, t)'
                BY <2>5, <3>2, <3>3 DEF InAttributes
            <3> QED
                BY <2>1, <2>2, <2>6, <3>4 DEF Moved
        <2>7. CASE CodeRead(f, z)
            <3>1. InCode(f, t, Append(Append(t.around, Frame("attribute", n - 1, t.owner)),
                               Frame("attribute", Inner(f, z), <<"code", z>>)),
                         Behind(f, z), z, z, Inner(f, z))
                BY <1>3, <2>1, CodeInOuter
            <3>2. InCode(f, t, todo', pos', z, z, Inner(f, z)) /\ at' = "reading"
                BY <1>1, <1>3, <2>7, <3>1 DEF CodeRead, CallOf
            <3>3. Inner(f, z) \in Nat /\ z \in 1 .. z
                BY <2>2, AttributeFacts DEF Reading
            <3>4. Among(f, t, todo', pos', z)
                BY <3>2, <3>3 DEF Among
            <3>5. InAttributes(f, t)'
                BY <2>5, <3>2, <3>4 DEF InAttributes
            <3> QED
                BY <2>1, <2>2, <2>7, <3>5 DEF Moved
        <2> QED
            BY <2>4, <2>6, <2>7
    <1>4. CASE n = 0
        <2>1. x = t.last /\ pos = t.end
            BY <1>4, TableDone
        <2>2. ~ (0 > 0)
            OBVIOUS
        <2>3. AttributesDone \/ Finish
            BY <1>1, <1>4, <2>2, ParseKinds DEF CallOf, WrongName, parse_ConstantValue_attribute,
                parse_Code_attribute, SkipAttribute, Attribute
        <2> QED
            BY <1>1, <1>4, <2>1, <2>3 DEF Left
    <1> QED
        BY <1>3, <1>4

\* A step in the attributes of code.
LEMMA InnerStep ==
    ASSUME NEW f, Reading(f), HeadRead(f, class), NEW t, GoodTable(f, t), IsSequence(t.around),
           at = "reading", NEW x \in Nat, AttributesRead(f, class, x), NEW n \in Nat,
           NEW y \in 1 .. x, InCode(f, t, todo, pos, x, y, n), Parse
    PROVE  Moved(f, t, x)
    <1>1. PICK s : s = Append(t.around, Frame("attribute", Places[f].more[y], t.owner))
        OBVIOUS
    <1>2. IsSequence(s) /\ s # << >>
        <2>1. IsSequence(s) /\ Len(s) = Len(t.around) + 1 /\ Len(t.around) \in Nat
            BY <1>1, AppendSequence, SequenceTyped
        <2>2. Len(s) # 0
            BY <2>1
        <2> QED
            BY <2>1, <2>2
    <1>3. CallOf(s, n, <<"code", y>>)
        <2>1. todo = Append(s, Frame("attribute", n, <<"code", y>>))
            BY <1>1 DEF InCode
        <2>2. PICK o : o = <<"code", y>>
            OBVIOUS
        <2>3. n \in Int
            OBVIOUS
        <2> QED
            BY <1>2, <2>1, <2>2, <2>3, CallPushed
    <1>4. Len(class.attributes) = x /\ IsSequence(class.attributes)
        BY DEF AttributesRead, Reading, FileInv, ClassOK, PartsOK, AttributesOK
    <1>5. y \in Nat /\ 1 <= y /\ y <= x
        OBVIOUS
    <1>6. CASE n # 0
        <2>1. PICK z \in Nat : z = x + 1
            OBVIOUS
        <2>2. /\ z \in t.first .. t.last /\ z \in 1 .. Len(Written[f].attributes)
              /\ pos = Places[f].attributes[z] /\ Written[f].attributes[z].owner = <<"code", y>>
              /\ ~ IsCode(f, z)
            BY <1>5, <1>6, <2>1, NextInCode DEF NextOfCode
        <2>4. PlainRead(f, z)
            BY <1>3, <1>4, <1>6, <2>1, <2>2, NextAttribute DEF CallOf, CodeRead
        <2>5. AttributesRead(f, class', z) /\ Len(class'.attributes) = z
            BY <1>4, <2>1, <2>2, <2>4, AttributesGrow DEF PlainRead, Reading
        <2>6. /\ y \in 1 .. z
              /\ InCode(f, t, Append(s, Frame("attribute", n - 1, <<"code", y>>)),
                        Behind(f, z), z, y, n - 1)
            BY <1>1, <1>6, <2>1, PlainInCode
        <2>7. InCode(f, t, todo', pos', z, y, n - 1) /\ n - 1 \in Nat /\ at' = "reading"
            BY <1>3, <1>6, <2>4, <2>6 DEF PlainRead, CallOf
        <2>8. Among(f, t, todo', pos', z)
            BY <2>6, <2>7 DEF Among
        <2>9. InAttributes(f, t)'
            BY <2>5, <2>7, <2>8 DEF InAttributes
        <2> QED
            BY <2>1, <2>2, <2>4, <2>9 DEF Moved
    <1>7. CASE n = 0
        <2>1. PICK r : r = Places[f].more[y]
            OBVIOUS
        <2>2. InOuter(f, t, s, pos, x, r)
            BY <1>1, <1>7, <2>1, CodeDone
        <2>3. r \in Nat
            <3>1. y \in 1 .. Len(Written[f].attributes)
                BY <1>4 DEF AttributesRead
            <3> QED
                BY <2>1, <3>1, AttributeFacts DEF Reading
        <2>4. ~ (0 > 0)
            OBVIOUS
        <2>5. AttributesDone
            BY <1>2, <1>3, <1>7, <2>4, ParseKinds DEF CallOf, WrongName,
                parse_ConstantValue_attribute, parse_Code_attribute, SkipAttribute, Attribute, Finish
        <2>6. /\ todo' = s /\ pos' = pos /\ at' = "reading"
              /\ UNCHANGED <<class, second_double_or_long_part, c_attr_to_set>>
            BY <1>3, <2>5 DEF AttributesDone, CallOf
        <2>7. Among(f, t, todo', pos', x)
            BY <2>2, <2>3, <2>6 DEF Among
        <2>8. InAttributes(f, t)'
            BY <1>4, <2>6, <2>7 DEF InAttributes
        <2> QED
            BY <2>6, <2>8 DEF Moved
    <1> QED
        BY <1>6, <1>7

\* A step anywhere in a table.
LEMMA TableStep ==
    ASSUME NEW f, Reading(f), HeadRead(f, class), NEW t, GoodTable(f, t), IsSequence(t.around),
           InAttributes(f, t), t.code # Unset => c_attr_to_set \notin Elsewhere, Parse
    PROVE  Moved(f, t, Len(class.attributes)) \/ Left(f, t, Len(class.attributes))
    <1>1. PICK x \in Nat : x = Len(class.attributes)
        BY SequenceTyped DEF Reading, FileInv, ClassOK, PartsOK, AttributesOK
    <1>2. at = "reading" /\ AttributesRead(f, class, x) /\ Among(f, t, todo, pos, x)
        BY <1>1 DEF InAttributes
    <1>3. CASE \E n \in Nat : InOuter(f, t, todo, pos, x, n)
        BY <1>1, <1>2, <1>3, OuterStep
    <1>4. CASE \E n \in Nat : \E y \in 1 .. x : InCode(f, t, todo, pos, x, y, n)
        BY <1>1, <1>2, <1>4, InnerStep
    <1> QED
        BY <1>2, <1>3, <1>4 DEF Among

\* The calls around a table.
LEMMA AroundTables ==
    ASSUME NEW f, NEW k
    PROVE  /\ IsSequence(FieldTable(f, k).around) /\ FieldTable(f, k).around # << >>
           /\ IsSequence(MethodTable(f, k).around) /\ MethodTable(f, k).around # << >>
           /\ IsSequence(ClassTable(f).around)
    <1>1. \A e : IsSequence(<< e >>) /\ << e >> # << >>
        <2>1. ASSUME NEW e PROVE IsSequence(<< e >>) /\ << e >> # << >>
            BY SingleSequence, EmptySequence
        <2> QED
            BY <2>1
    <1>2. IsSequence(<< >>)
        BY EmptySequence
    <1>3. PICK a : a = Frame("field", Len(Written[f].fields) - k, << >>)
        OBVIOUS
    <1>4. PICK b : b = Frame("method", Len(Written[f].methods) - k, << >>)
        OBVIOUS
    <1>5. FieldTable(f, k).around = << a >>
        BY <1>3 DEF FieldTable, FieldsLeft, Reads
    <1>6. MethodTable(f, k).around = << b >>
        BY <1>4 DEF MethodTable, MethodsLeft, Reads
    <1>7. ClassTable(f).around = << >>
        BY DEF ClassTable
    <1> QED
        BY <1>1, <1>2, <1>5, <1>6, <1>7, Zenon

\* Attributes leave fields and methods to be read as they were.
LEMMA RestReads ==
    ASSUME NEW f, NEW k, FieldsRead(f, class, k), RestStays
    PROVE  FieldsRead(f, class', k)
    BY DEF FieldsRead, HeadRead, PoolRead, RestStays

\* A step among the attributes of a field.
LEMMA InFieldStep ==
    ASSUME NEW f, Reading(f), NEW k \in 1 .. Len(Written[f].fields), InField(f, k), Parse
    PROVE  /\ InField(f, k)' \/ FieldsAhead(f, k)'
           /\ second_double_or_long_part' = second_double_or_long_part
    <1>1. PICK t : t = FieldTable(f, k)
        OBVIOUS
    <1>2. /\ FieldsRead(f, class, k) /\ class.methods = << >> /\ InAttributes(f, t)
          /\ HeadRead(f, class)
        BY <1>1 DEF InField, FieldsRead
    <1>3. GoodTable(f, t) /\ IsSequence(t.around) /\ t.around # << >>
        BY <1>1, TablesGood, AroundTables DEF Reading
    <1>4. /\ t.code = Unset /\ t.around = FieldsLeft(f, k) /\ t.end = Places[f].fields[k + 1]
          /\ t.last = Places[f].ofField[k + 1] - 1
        BY <1>1 DEF FieldTable
    <1>5. PICK x \in Nat : x = Len(class.attributes)
        BY SequenceTyped DEF Reading, FileInv, ClassOK, PartsOK, AttributesOK
    <1>6. Moved(f, t, x) \/ Left(f, t, x)
        BY <1>2, <1>3, <1>4, <1>5, TableStep
    <1>7. ASSUME x + 1 \in t.first .. t.last PROVE ~ IsCode(f, x + 1)
        <2>1. IsCode(f, x + 1) => x + 1 = t.code
            BY <1>3, <1>7, TableBounds
        <2>2. x + 1 # Unset
            BY DEF Unset
        <2> QED
            BY <1>4, <2>1, <2>2
    <1>8. CASE Moved(f, t, x)
        <2>1. \/ RestStays /\ class'.methods = class.methods
              \/ UNCHANGED <<class, second_double_or_long_part, c_attr_to_set>>
            BY <1>7, <1>8 DEF Moved, PlainRead, CodeRead
        <2>2. FieldsRead(f, class', k) /\ class'.methods = << >>
            BY <1>2, <2>1, RestReads
        <2>3. InAttributes(f, t)'
            BY <1>8 DEF Moved
        <2>4. second_double_or_long_part' = second_double_or_long_part
            BY <2>1 DEF RestStays
        <2> QED
            BY <1>1, <2>2, <2>3, <2>4 DEF InField
    <1>9. CASE Left(f, t, x)
        <2>1. AttributesDone
            BY <1>3, <1>9 DEF Left, CallOf, Finish
        <2>2. /\ todo' = FieldsLeft(f, k) /\ pos' = Places[f].fields[k + 1]
              /\ at' = "reading" /\ UNCHANGED <<class, second_double_or_long_part>>
            BY <1>2, <1>4, <1>9, <2>1 DEF AttributesDone, Left, CallOf, InAttributes
        <2>3. AttributesRead(f, class, Places[f].ofField[k + 1] - 1)
            BY <1>2, <1>4, <1>5, <1>9 DEF Left, InAttributes
        <2> QED
            BY <1>2, <2>2, <2>3 DEF FieldsAhead
    <1> QED
        BY <1>6, <1>8, <1>9

\* The methods read so far, when an attribute is read in the table of an owner
\* that is not one of them.
LEMMA OthersStay ==
    ASSUME NEW f \in DOMAIN Written, NEW t, GoodTable(f, t), NEW z \in t.first .. t.last,
           NEW j \in 1 .. Len(Written[f].methods), t.owner # <<"method", j>>, z \in Nat
    PROVE  Written[f].methods[j].code # z
    <1>1. PICK c : c = Written[f].methods[j].code
        OBVIOUS
    <1>2. SUFFICES ASSUME c = z PROVE FALSE
        BY <1>1
    <1>3. PICK s : s = MethodTable(f, j)
        OBVIOUS
    <1>4. s.code = c /\ s.owner = <<"method", j>> /\ GoodTable(f, s)
        BY <1>1, <1>3, TablesGood DEF MethodTable
    <1>5. c # Unset
        BY <1>2 DEF Unset
    <1>6. Written[f].attributes[z].owner = <<"method", j>> /\ c \in s.first .. s.last
        BY <1>2, <1>4, <1>5, TableBounds
    <1>7. IsCode(f, z)
        BY <1>2, <1>4, <1>6, TableBounds
    <1>8. z = t.code
        BY <1>7, TableBounds
    <1>9. Written[f].attributes[z].owner = t.owner
        BY <1>2, <1>5, <1>8, TableBounds
    <1> QED
        BY <1>6, <1>9

\* Shortcuts are those of the attributes read.
LEMMA MoreSoFar ==
    ASSUME NEW d, NEW x \in Nat, d.code # x + 1
    PROVE  MethodSoFar(d, x + 1) = MethodSoFar(d, x)
    <1>1. d.code \in 1 .. x + 1 <=> d.code \in 1 .. x
        OBVIOUS
    <1> QED
        BY <1>1 DEF MethodSoFar

\* The own code of a method is known once its attribute was read.
LEMMA CodeSoFar ==
    ASSUME NEW d, NEW x \in Nat, d.code = x + 1
    PROVE  MethodSoFar(d, x + 1) = [MethodSoFar(d, x) EXCEPT !.c_attr = x + 1]
    <1>1. d.code \in 1 .. x + 1 /\ d.code \notin 1 .. x
        OBVIOUS
    <1> QED
        BY <1>1 DEF MethodSoFar

\* A step among the attributes of a method.
LEMMA InMethodStep ==
    ASSUME NEW f, Reading(f), NEW k \in 1 .. Len(Written[f].methods), InMethod(f, k), Parse
    PROVE  /\ InMethod(f, k)' \/ MethodsAhead(f, k)'
           /\ second_double_or_long_part' = second_double_or_long_part
    <1>0. PICK M \in Nat : M = Len(Written[f].methods) /\ k \in 1 .. M
        BY PlacesTyped DEF Reading
    <1>1. PICK t : t = MethodTable(f, k)
        OBVIOUS
    <1>2. /\ MethodsRead(f, class, k) /\ InAttributes(f, t) /\ c_attr_to_set = k
          /\ FieldsRead(f, class, Len(Written[f].fields)) /\ HeadRead(f, class)
        BY <1>1 DEF InMethod, MethodsRead, FieldsRead
    <1>3. GoodTable(f, t) /\ IsSequence(t.around) /\ t.around # << >>
        BY <1>1, TablesGood, AroundTables DEF Reading
    <1>d. PICK d : d = Written[f].methods[k]
        OBVIOUS
    <1>4. /\ t.code = d.code /\ t.around = MethodsLeft(f, k)
          /\ t.end = Places[f].methods[k + 1] /\ t.owner = <<"method", k>>
          /\ t.last = Places[f].ofMethod[k + 1] - 1
        BY <1>1, <1>d DEF MethodTable
    <1>5. PICK x \in Nat : x = Len(class.attributes)
        BY SequenceTyped DEF Reading, FileInv, ClassOK, PartsOK, AttributesOK
    <1>6. Moved(f, t, x) \/ Left(f, t, x)
        <2>1. c_attr_to_set \notin Elsewhere
            BY <1>0, <1>2, ElsewhereIsNoMethod
        <2> QED
            BY <1>2, <1>3, <1>5, <2>1, TableStep
    <1>7. /\ Len(class.methods) = k
          /\ \A j \in 1 .. k : class.methods[j] = MethodSoFar(Written[f].methods[j], x)
        BY <1>2, <1>5 DEF MethodsRead, MethodsSoFar
    <1>s. class.methods \in Seq(Methods)
        BY DEF Reading, FileInv, ClassOK, PartsOK
    <1>8. CASE PlainRead(f, x + 1) /\ x + 1 \in t.first .. t.last /\ InAttributes(f, t)'
        <2>1. RestStays /\ class'.methods = class.methods
              /\ class'.attributes = Append(class.attributes, Written[f].attributes[x + 1])
              /\ ~ IsCode(f, x + 1)
            BY <1>8 DEF PlainRead
        <2>2. Len(class'.attributes) = x + 1
            BY <1>5, <2>1, AppendSequence DEF Reading, FileInv, ClassOK, PartsOK, AttributesOK
        <2>3. ASSUME NEW j \in 1 .. k PROVE class.methods[j] = MethodSoFar(Written[f].methods[j], x + 1)
            <3>1. j \in 1 .. Len(Written[f].methods) /\ x + 1 \in Nat
                BY <1>0
            <3>2. Written[f].methods[j].code # x + 1
                <4>1. CASE j = k
                    <5>1. IsCode(f, x + 1) <=> x + 1 = t.code
                        BY <1>3, <1>8, TableBounds
                    <5> QED
                        BY <1>d, <1>4, <2>1, <4>1, <5>1
                <4>2. CASE j # k
                    <5>1. t.owner # <<"method", j>>
                        <6>1. j \in Nat /\ k \in Nat
                            BY <1>0
                        <6> QED
                            BY <1>4, <4>2, <6>1, OwnersDiffer
                    <5> QED
                        BY <1>3, <1>8, <3>1, <5>1, OthersStay DEF Reading
                <4> QED
                    BY <4>1, <4>2
            <3> QED
                BY <1>7, <3>2, MoreSoFar
        <2>4. MethodsRead(f, class', k)
            <3>1. FieldsRead(f, class', Len(Written[f].fields))
                BY <1>2, <2>1, RestReads
            <3>2. MethodsSoFar(f, class', k)
                BY <2>1, <2>2, <2>3 DEF MethodsSoFar
            <3> QED
                BY <1>0, <1>7, <2>1, <3>1, <3>2 DEF MethodsRead
        <2>5. c_attr_to_set' = k /\ second_double_or_long_part' = second_double_or_long_part
            BY <1>2, <2>1 DEF RestStays
        <2> QED
            BY <1>1, <1>8, <2>4, <2>5 DEF InMethod
    <1>9. CASE CodeRead(f, x + 1) /\ x + 1 \in t.first .. t.last /\ InAttributes(f, t)'
        <2>q. PICK q : q = class'.methods
            OBVIOUS
        <2>1. /\ RestStays /\ q = WithShortcut(class.methods, k, x + 1)
              /\ class'.attributes = Append(class.attributes, Written[f].attributes[x + 1])
              /\ IsCode(f, x + 1)
            BY <1>2, <1>9, <2>q DEF CodeRead
        <2>2. Len(class'.attributes) = x + 1
            BY <1>5, <2>1, AppendSequence DEF Reading, FileInv, ClassOK, PartsOK, AttributesOK
        <2>3. /\ Len(q) = k
              /\ \A j \in 1 .. k : q[j] = IF j = k THEN [class.methods[k] EXCEPT !.c_attr = x + 1]
                                          ELSE class.methods[j]
            BY <1>7, <1>s, <2>1 DEF WithShortcut
        <2>4. d.code = x + 1
            BY <1>3, <1>4, <1>9, <2>1, TableBounds
        <2>5. ASSUME NEW j \in 1 .. k PROVE q[j] = MethodSoFar(Written[f].methods[j], x + 1)
            <3>1. j \in 1 .. Len(Written[f].methods) /\ x + 1 \in Nat
                BY <1>0
            <3>2. CASE j = k
                <4>1. q[k] = [MethodSoFar(d, x) EXCEPT !.c_attr = x + 1]
                    BY <1>d, <1>7, <2>3, <3>2
                <4> QED
                    BY <1>d, <2>4, <3>2, <4>1, CodeSoFar
            <3>3. CASE j # k
                <4>1. t.owner # <<"method", j>>
                    <5>1. j \in Nat /\ k \in Nat
                        BY <1>0
                    <5> QED
                        BY <1>4, <3>3, <5>1, OwnersDiffer
                <4>2. Written[f].methods[j].code # x + 1
                    BY <1>3, <1>9, <3>1, <4>1, OthersStay DEF Reading
                <4> QED
                    BY <1>7, <2>3, <3>3, <4>2, MoreSoFar
            <3> QED
                BY <3>2, <3>3
        <2>6. MethodsRead(f, class', k)
            <3>1. FieldsRead(f, class', Len(Written[f].fields))
                BY <1>2, <2>1, RestReads
            <3>2. MethodsSoFar(f, class', k)
                BY <2>q, <2>2, <2>5 DEF MethodsSoFar
            <3> QED
                BY <1>0, <2>q, <2>3, <3>1, <3>2 DEF MethodsRead
        <2>7. c_attr_to_set' = k /\ second_double_or_long_part' = second_double_or_long_part
            BY <1>2, <2>1 DEF RestStays
        <2> QED
            BY <1>1, <1>9, <2>6, <2>7 DEF InMethod
    <1>10. CASE UNCHANGED <<class, second_double_or_long_part, c_attr_to_set>> /\ InAttributes(f, t)'
        BY <1>1, <1>2, <1>10 DEF InMethod
    <1>11. CASE Left(f, t, x)
        <2>1. AttributesDone
            BY <1>3, <1>11 DEF Left, CallOf, Finish
        <2>2. /\ todo' = MethodsLeft(f, k) /\ pos' = Places[f].methods[k + 1]
              /\ at' = "reading" /\ UNCHANGED <<class, second_double_or_long_part>>
            BY <1>2, <1>4, <1>11, <2>1 DEF AttributesDone, Left, CallOf, InAttributes
        <2>3. AttributesRead(f, class, Places[f].ofMethod[k + 1] - 1)
            BY <1>2, <1>4, <1>5, <1>11 DEF Left, InAttributes
        <2> QED
            BY <1>2, <2>2, <2>3 DEF MethodsAhead
    <1> QED
        BY <1>6, <1>8, <1>9, <1>10, <1>11 DEF Moved

\* The class that this refers to, and its name.
LEMMA NameFound ==
    ASSUME NEW f, Reading(f), HeadRead(f, class)
    PROVE  Named(class.this) /\ Str(class.pool[class.this].words[1]) = Written[f].name
    <1>1. PICK L \in Nat : L = Len(Written[f].pool) /\ DOMAIN Written[f].pool = 1 .. L
        BY FileFormat DEF Reading
    <1>2. PICK x : x = Written[f].this
        OBVIOUS
    <1>3. PICK y : y = Written[f].pool[x].value[1]
        OBVIOUS
    <1>4. IsHead(f)
        BY FileFormat DEF Reading
    <1>5. /\ x \in 1 .. L /\ y \in 1 .. L /\ Written[f].pool[x].tag = CONSTANT_Class
          /\ Written[f].pool[y] = [tag |-> CONSTANT_Utf8, value |-> << Written[f].name >>]
        BY <1>1, <1>2, <1>3, <1>4 DEF IsHead
    <1>6. /\ class.this = x /\ Len(class.pool) = L
          /\ SameEntry(class.pool[x], Written[f].pool[x])
          /\ SameEntry(class.pool[y], Written[f].pool[y])
        BY <1>1, <1>2, <1>5 DEF HeadRead, PoolRead
    <1>7. x \in DOMAIN class.pool /\ y \in DOMAIN class.pool
        BY <1>5, <1>6, ReadingFacts
    <1>8. PICK c : c = class.pool[x]
        OBVIOUS
    <1>9. PICK e : e = class.pool[y]
        OBVIOUS
    <1>10. c.tag = CONSTANT_Class /\ c.words[1] = y
        <2>1. c.tag = CONSTANT_Class /\ Value(c) = Written[f].pool[x].value
            BY <1>5, <1>6, <1>8 DEF SameEntry, CONSTANT_Class, Unset
        <2>2. Value(c) = c.words
            BY <2>1 DEF Value, CONSTANT_Class, Eights
        <2> QED
            BY <1>3, <2>1, <2>2
    <1>11. e.tag = CONSTANT_Utf8 /\ e.words[1] = Written[f].name
        <2>1. e.tag = CONSTANT_Utf8 /\ Value(e) = << Written[f].name >>
            BY <1>5, <1>6, <1>9 DEF SameEntry, CONSTANT_Utf8, Unset
        <2>2. Value(e) = e.words
            BY <2>1 DEF Value, CONSTANT_Utf8, Eights
        <2> QED
            BY <2>1, <2>2
    <1> QED
        BY <1>6, <1>7, <1>8, <1>9, <1>10, <1>11 DEF Named, IsUtf8, Str

\* A step among the attributes of the class.
LEMMA InClassStep ==
    ASSUME NEW f, Reading(f), InClass(f), Parse
    PROVE  /\ InClass(f)' \/ Done(f)'
           /\ second_double_or_long_part' = second_double_or_long_part
    <1>0. PICK M \in Nat : M = Len(Written[f].methods)
        BY PlacesTyped, Zenon DEF Reading
    <1>1. PICK t : t = ClassTable(f)
        OBVIOUS
    <1>2. /\ MethodsRead(f, class, M) /\ InAttributes(f, t)
          /\ FieldsRead(f, class, Len(Written[f].fields)) /\ HeadRead(f, class)
        BY <1>0, <1>1 DEF InClass, MethodsRead, FieldsRead
    <1>3. GoodTable(f, t) /\ IsSequence(t.around)
        BY <1>1, TablesGood, AroundTables DEF Reading
    <1>4. /\ t.code = Unset /\ t.around = << >> /\ t.end = Len(Content[f]) + 1
          /\ t.owner = <<"class", 0>> /\ t.last = Len(Written[f].attributes)
        BY <1>1 DEF ClassTable
    <1>5. PICK x \in Nat : x = Len(class.attributes)
        BY SequenceTyped DEF Reading, FileInv, ClassOK, PartsOK, AttributesOK
    <1>6. Moved(f, t, x) \/ Left(f, t, x)
        BY <1>2, <1>3, <1>4, <1>5, TableStep
    <1>7. /\ Len(class.methods) = M
          /\ \A j \in 1 .. M : class.methods[j] = MethodSoFar(Written[f].methods[j], x)
        BY <1>2, <1>5 DEF MethodsRead, MethodsSoFar
    <1>8. ASSUME x + 1 \in t.first .. t.last PROVE ~ IsCode(f, x + 1)
        <2>1. IsCode(f, x + 1) => x + 1 = t.code
            BY <1>3, <1>8, TableBounds
        <2>2. x + 1 # Unset
            BY DEF Unset
        <2> QED
            BY <1>4, <2>1, <2>2
    <1>9. CASE PlainRead(f, x + 1) /\ x + 1 \in t.first .. t.last /\ InAttributes(f, t)'
        <2>1. RestStays /\ class'.methods = class.methods
              /\ class'.attributes = Append(class.attributes, Written[f].attributes[x + 1])
            BY <1>9 DEF PlainRead
        <2>2. Len(class'.attributes) = x + 1
            BY <1>5, <2>1, AppendSequence DEF Reading, FileInv, ClassOK, PartsOK, AttributesOK
        <2>3. ASSUME NEW j \in 1 .. M PROVE class.methods[j] = MethodSoFar(Written[f].methods[j], x + 1)
            <3>1. j \in 1 .. Len(Written[f].methods) /\ x + 1 \in Nat
                BY <1>0
            <3>2. t.owner # <<"method", j>>
                <4>1. j \in Nat /\ 0 \in Nat
                    BY <1>0
                <4> QED
                    BY <1>4, <4>1, OwnersDiffer
            <3>3. Written[f].methods[j].code # x + 1
                BY <1>3, <1>9, <3>1, <3>2, OthersStay DEF Reading
            <3> QED
                BY <1>7, <3>3, MoreSoFar
        <2>4. MethodsRead(f, class', M)
            <3>1. FieldsRead(f, class', Len(Written[f].fields))
                BY <1>2, <2>1, RestReads
            <3>2. MethodsSoFar(f, class', M)
                BY <2>1, <2>2, <2>3 DEF MethodsSoFar
            <3> QED
                BY <1>0, <1>7, <2>1, <3>1, <3>2 DEF MethodsRead
        <2>5. second_double_or_long_part' = second_double_or_long_part
            BY <2>1 DEF RestStays
        <2> QED
            BY <1>0, <1>1, <1>9, <2>4, <2>5 DEF InClass
    <1>10. CASE UNCHANGED <<class, second_double_or_long_part, c_attr_to_set>> /\ InAttributes(f, t)'
        BY <1>0, <1>1, <1>2, <1>10 DEF InClass
    <1>11. CASE Left(f, t, x)
        <2>1. Finish
            BY <1>4, <1>11 DEF Left, CallOf, AttributesDone
        <2>2. /\ class' = [class EXCEPT !.name = Written[f].name] /\ at' = "parsed"
              /\ pos' = pos /\ UNCHANGED second_double_or_long_part
            BY <1>2, <2>1, NameFound DEF Finish
        <2>3. /\ class'.pool = class.pool /\ class'.access = class.access /\ class'.this = class.this
              /\ class'.super = class.super /\ class'.interfaces = class.interfaces
              /\ class'.fields = class.fields /\ class'.methods = class.methods
              /\ class'.attributes = class.attributes /\ class'.name = Written[f].name
            BY <2>2 DEF Reading, FileInv, ClassOK, HasParts, ClassParts
        <2>4. MethodsRead(f, class', M)
            BY <1>2, <2>3 DEF MethodsRead, MethodsSoFar, FieldsRead, HeadRead, PoolRead
        <2>5. AttributesRead(f, class', Len(Written[f].attributes))
            BY <1>2, <1>4, <1>5, <1>11, <2>3 DEF Left, InAttributes, AttributesRead
        <2>6. pos' = Len(Content[f]) + 1
            BY <1>4, <1>11, <2>2 DEF Left
        <2> QED
            BY <1>0, <2>2, <2>3, <2>4, <2>5, <2>6 DEF Done
    <1> QED
        BY <1>6, <1>8, <1>9, <1>10, <1>11 DEF Moved, CodeRead

\* The parser goes from one place of the file to the next.
LEMMA MembersStep ==
    ASSUME NEW f, Reading(f), Members(f), Parse
    PROVE  /\ Members(f)' \/ InClass(f)'
           /\ second_double_or_long_part' = second_double_or_long_part
    <1>1. PICK F \in Nat : F = Len(Written[f].fields)
        BY PlacesTyped, Zenon DEF Reading
    <1>2. PICK M \in Nat : M = Len(Written[f].methods)
        BY PlacesTyped, Zenon DEF Reading
    <1>3. CASE \E k \in 0 .. F : FieldsAhead(f, k)
        <2>1. PICK k \in 0 .. F : FieldsAhead(f, k)
            BY <1>3
        <2>2. CASE k < F
            <3>1. k \in Nat /\ k + 1 \in 1 .. F
                BY <2>2
            <3>2. InField(f, k + 1)' /\ second_double_or_long_part' = second_double_or_long_part
                BY <1>1, <2>1, <2>2, <3>1, FieldStep
            <3> QED
                BY <1>1, <3>1, <3>2 DEF Members
        <2>3. CASE k = F
            <3>1. MethodsAhead(f, 0)' /\ second_double_or_long_part' = second_double_or_long_part
                BY <1>1, <2>1, <2>3, FieldsDoneStep
            <3>2. 0 \in 0 .. M
                OBVIOUS
            <3> QED
                BY <1>2, <3>1, <3>2 DEF Members
        <2> QED
            BY <2>2, <2>3
    <1>4. CASE \E k \in 1 .. F : InField(f, k)
        <2>1. PICK k \in 1 .. F : InField(f, k)
            BY <1>4
        <2>2. k \in 0 .. F
            OBVIOUS
        <2>3. /\ InField(f, k)' \/ FieldsAhead(f, k)'
              /\ second_double_or_long_part' = second_double_or_long_part
            BY <1>1, <2>1, InFieldStep
        <2> QED
            BY <1>1, <2>2, <2>3 DEF Members
    <1>5. CASE \E k \in 0 .. M : MethodsAhead(f, k)
        <2>1. PICK k \in 0 .. M : MethodsAhead(f, k)
            BY <1>5
        <2>2. CASE k < M
            <3>1. k \in Nat /\ k + 1 \in 1 .. M
                BY <2>2
            <3>2. InSignature(f, k + 1)' /\ second_double_or_long_part' = second_double_or_long_part
                BY <1>2, <2>1, <2>2, <3>1, MethodStep
            <3> QED
                BY <1>2, <3>1, <3>2 DEF Members
        <2>3. CASE k = M
            BY <1>2, <2>1, <2>3, MethodsDoneStep
        <2> QED
            BY <2>2, <2>3
    <1>6. CASE \E k \in 1 .. M : InSignature(f, k) \/ InMethod(f, k)
        <2>1. PICK k \in 1 .. M : InSignature(f, k) \/ InMethod(f, k)
            BY <1>6
        <2>2. k \in 0 .. M
            OBVIOUS
        <2>3. /\ InSignature(f, k)' \/ InMethod(f, k)' \/ MethodsAhead(f, k)'
              /\ second_double_or_long_part' = second_double_or_long_part
            BY <1>2, <2>1, SignatureStep, InMethodStep
        <2> QED
            BY <1>2, <2>2, <2>3 DEF Members
    <1> QED
        BY <1>1, <1>2, <1>3, <1>4, <1>5, <1>6 DEF Members

\* The parser goes from each place to the next one.
LEMMA ProgressStep ==
    ASSUME NEW f, Reading(f), Progress(f), Begun => ~ second_double_or_long_part, Parse
    PROVE  Progress(f)'
    <1>1. PICK L \in Nat : L = Len(Written[f].pool)
        BY PlacesTyped, Zenon DEF Reading
    <1>2. CASE Begun
        <2>1. ConstantsAhead(f, 0)' /\ 0 \in 0 .. L
            BY <1>2, BeginStep
        <2> QED
            BY <1>1, <2>1 DEF Progress
    <1>3. CASE \E n \in 0 .. L : ConstantsAhead(f, n)
        <2>1. PICK n \in 0 .. L : ConstantsAhead(f, n)
            BY <1>3
        <2>2. CASE n < L
            <3>1. n \in Nat /\ n + 1 \in 0 .. L
                BY <2>2
            <3>2. ConstantsAhead(f, n + 1)'
                BY <1>1, <2>1, <2>2, <3>1, ConstantsStep
            <3> QED
                BY <1>1, <3>1, <3>2 DEF Progress
        <2>3. CASE n = L
            <3>1. InterfacesAhead(f)' /\ ~ second_double_or_long_part'
                BY <1>1, <2>1, <2>3, HeadStep
            <3> QED
                BY <3>1 DEF Progress
        <2> QED
            BY <2>2, <2>3
    <1>4. CASE ~ second_double_or_long_part /\ InterfacesAhead(f)
        <2>1. FieldsAhead(f, 0)' /\ ~ second_double_or_long_part'
            BY <1>4, InterfacesStep
        <2>2. 0 \in 0 .. Len(Written[f].fields)
            BY PlacesTyped DEF Reading
        <2> QED
            BY <2>1, <2>2 DEF Progress, Members
    <1>5. CASE ~ second_double_or_long_part /\ Members(f)
        <2>1. (Members(f)' \/ InClass(f)') /\ ~ second_double_or_long_part'
            BY <1>5, MembersStep
        <2> QED
            BY <2>1 DEF Progress
    <1>6. CASE ~ second_double_or_long_part /\ InClass(f)
        <2>1. (InClass(f)' \/ Done(f)') /\ ~ second_double_or_long_part'
            BY <1>6, InClassStep
        <2> QED
            BY <2>1 DEF Progress
    <1>7. CASE Done(f)
        <2>1. at = "parsed"
            BY <1>7 DEF Done
        <2> QED
            BY <2>1, ParseMoves
    <1> QED
        BY <1>1, <1>2, <1>3, <1>4, <1>5, <1>6, <1>7 DEF Progress

\* Before any constant was read, the flag is still the one of the file before.
PoolStays == class'.pool = class.pool /\ UNCHANGED second_double_or_long_part

\* A step leaves the pool alone or adds one entry.
LEMMA PoolMoves ==
    ASSUME FileInv, Parse
    PROVE  \/ PoolStays
           \/ class'.pool = Append(class.pool, [tag |-> Unset])
           \/ ~ second_double_or_long_part /\ \E e : class'.pool = Append(class.pool, e)
    <1>1. HasParts(class, class.pool, class.fields, class.methods, class.attributes)
        BY DEF FileInv, ClassOK
    <1>2. \A e : NewConstant(e) => class'.pool = Append(class.pool, e)
        BY <1>1 DEF NewConstant, HasParts, ClassParts
    <1>3. \A why : Fail(why) => PoolStays
        BY DEF Fail, PoolStays
    <1>4. CASE BadMagic \/ WrongTag \/ ScanFails \/ WrongName
        BY <1>3, <1>4 DEF BadMagic, WrongTag, ScanFails, WrongName
    <1>5. CASE parse_file \/ ThenMethods \/ ThenAttributes \/ AttributesDone
        BY <1>5 DEF parse_file, ThenMethods, ThenAttributes, AttributesDone, PoolStays
    <1>6. CASE ScanSignature
        BY <1>6 DEF ScanSignature, fileVars, PoolStays
    <1>7. CASE SecondPart
        BY <1>2, <1>7 DEF SecondPart
    <1>8. CASE parse_constant
        BY <1>2, <1>8 DEF parse_constant
    <1>9. CASE parse_Utf8
        BY <1>2, <1>3, <1>9 DEF parse_Utf8
    <1>10. CASE ClassHead
        BY <1>1, <1>10 DEF ClassHead, PoolStays, HasParts, ClassParts
    <1>11. CASE parse_interfaces
        BY <1>1, <1>11 DEF parse_interfaces, PoolStays, HasParts, ClassParts
    <1>12. CASE parse_field
        BY <1>1, <1>3, <1>12 DEF parse_field, PoolStays, HasParts, ClassParts
    <1>13. CASE parse_method
        BY <1>1, <1>3, <1>13 DEF parse_method, PoolStays, HasParts, ClassParts
    <1>14. CASE MethodAttributes
        BY <1>1, <1>14 DEF MethodAttributes, PoolStays, HasParts, ClassParts
    <1>15. CASE parse_ConstantValue_attribute \/ SkipAttribute
        BY <1>1, <1>15 DEF parse_ConstantValue_attribute, SkipAttribute, WithAttribute, PoolStays,
            HasParts, ClassParts
    <1>16. CASE parse_Code_attribute
        <2>1. UNCHANGED second_double_or_long_part
            BY <1>16 DEF parse_Code_attribute
        <2>2. PICK b : \/ class' = WithAttribute(b)
                       \/ class' = [WithAttribute(b) EXCEPT !.methods[c_attr_to_set].c_attr = New]
            BY <1>16 DEF parse_Code_attribute
        <2>3. PICK c : c = WithAttribute(b)
            OBVIOUS
        <2>4. c.pool = class.pool /\ DOMAIN c = ClassParts
            BY <1>1, <2>3 DEF WithAttribute, HasParts, ClassParts
        <2>5. class'.pool = class.pool
            BY <2>2, <2>3, <2>4 DEF ClassParts
        <2> QED
            BY <2>1, <2>5 DEF PoolStays
    <1>17. CASE Finish
        BY <1>1, <1>3, <1>17 DEF Finish, PoolStays, HasParts, ClassParts
    <1> QED
        BY <1>4, <1>5, <1>6, <1>7, <1>8, <1>9, <1>10, <1>11, <1>12, <1>13, <1>14, <1>15, <1>16,
           <1>17 DEF Parse

\* A file whose first constant an earlier file spoiled stays spoiled.
LEMMA CarriedOn ==
    ASSUME FileInv, Parse, Carried
    PROVE  Carried'
    <1>1. IsSequence(class.pool) /\ class.pool # << >> => class.pool[1] = class.pool[1]
        OBVIOUS
    <1>2. PICK q : q = class'.pool
        OBVIOUS
    <1>3. PICK n \in Nat : IsSequence(class.pool) /\ Len(class.pool) = n
                           /\ DOMAIN class.pool = 1 .. n
        BY SequenceTyped DEF FileInv, ClassOK, PartsOK, EntriesOK
    <1>4. n = 0 <=> class.pool = << >>
        BY <1>3, EmptySequence, SameSequence
    <1>5. CASE PoolStays
        BY <1>5 DEF PoolStays, Carried
    <1>6. ASSUME NEW e, q = Append(class.pool, e),
                 second_double_or_long_part => e = [tag |-> Unset]
          PROVE  Carried'
        <2>1. /\ Len(q) = n + 1 /\ q[n + 1] = e /\ \A k \in 1 .. n : q[k] = class.pool[k]
            BY <1>3, <1>6, AppendSequence
        <2>2. q # << >>
            BY <1>3, <2>1, EmptySequence
        <2>3. CASE n = 0
            <3>1. second_double_or_long_part
                BY <1>4, <2>3 DEF Carried
            <3>2. q[1] = [tag |-> Unset]
                BY <1>6, <2>1, <2>3, <3>1
            <3> QED
                BY <1>2, <2>2, <3>2 DEF Carried
        <2>4. CASE n # 0
            <3>1. 1 \in 1 .. n
                BY <2>4
            <3>2. q[1].tag = Unset
                BY <1>4, <2>1, <2>4, <3>1 DEF Carried
            <3> QED
                BY <1>2, <2>2, <3>2 DEF Carried
        <2> QED
            BY <2>3, <2>4
    <1> QED
        BY <1>2, <1>5, <1>6, PoolMoves

\* The file stays open while it is parsed.
LEMMA ParseSameFile ==
    ASSUME Parse, little_endian
    PROVE  file' = file /\ stream' = stream /\ little_endian'
    BY DEF Parse, BadMagic, parse_file, SecondPart, parse_constant, parse_Utf8, WrongTag,
           ClassHead, parse_interfaces, parse_field, ThenMethods, parse_method,
           ScanSignature, ScanFails, MethodAttributes, ThenAttributes, WrongName,
           parse_ConstantValue_attribute, parse_Code_attribute, SkipAttribute,
           AttributesDone, Finish, NewConstant, Same, fileVars

----------------------------------------------------------------------------
(* The invariant. *)

\* A step that leaves the parser alone leaves its place alone.
LEMMA ProgressStays ==
    ASSUME NEW f, Progress(f), UNCHANGED fileVars
    PROVE  Progress(f)'
    <1>1. UNCHANGED <<at, file, stream, pos, todo, class, little_endian,
                      second_double_or_long_part, c_attr_to_set>>
        BY DEF fileVars
    <1>2. Begun => Begun'
        BY <1>1 DEF Begun
    <1>3. \A n : ConstantsAhead(f, n) => ConstantsAhead(f, n)'
        BY <1>1 DEF ConstantsAhead
    <1>4. InterfacesAhead(f) => InterfacesAhead(f)'
        BY <1>1 DEF InterfacesAhead
    <1>5. \A k : FieldsAhead(f, k) => FieldsAhead(f, k)'
        BY <1>1 DEF FieldsAhead
    <1>6. \A t : InAttributes(f, t) => InAttributes(f, t)'
        BY <1>1 DEF InAttributes
    <1>7. \A k : InField(f, k) => InField(f, k)'
        BY <1>1, <1>6 DEF InField
    <1>8. \A k : MethodsAhead(f, k) => MethodsAhead(f, k)'
        BY <1>1 DEF MethodsAhead
    <1>9. \A k : InSignature(f, k) => InSignature(f, k)'
        BY <1>1 DEF InSignature
    <1>10. \A k : InMethod(f, k) => InMethod(f, k)'
        BY <1>1, <1>6 DEF InMethod
    <1>11. InClass(f) => InClass(f)'
        BY <1>1, <1>6 DEF InClass
    <1>12. Done(f) => Done(f)'
        BY <1>1 DEF Done
    <1>13. Members(f) => Members(f)'
        BY <1>5, <1>7, <1>8, <1>9, <1>10 DEF Members
    <1> QED
        BY <1>1, <1>2, <1>3, <1>4, <1>11, <1>12, <1>13 DEF Progress

\* So does the invariant.
LEMMA InvStays ==
    ASSUME ParseInv, UNCHANGED fileVars
    PROVE  ParseInv'
    <1>1. UNCHANGED <<at, file, stream, class, little_endian, second_double_or_long_part>>
        BY DEF fileVars
    <1>2. Carried => Carried'
        BY <1>1 DEF Carried
    <1>3. ASSUME NEW f \in DOMAIN Written, file' = f
          PROVE  stream' = Content[f] /\ (Carried' \/ Progress(f)')
        <2>1. file = f /\ stream = Content[f] /\ (Carried \/ Progress(f))
            BY <1>1, <1>3 DEF ParseInv
        <2> QED
            BY <1>1, <1>2, <2>1, ProgressStays
    <1> QED
        BY <1>1, <1>3 DEF ParseInv

\* The steps of the invariant: the parser, ...
LEMMA ParseInvParse ==
    ASSUME FileInv, ParseInv, Parse
    PROVE  ParseInv'
    <1>1. little_endian /\ file' = file /\ stream' = stream /\ little_endian'
        BY ParseSameFile DEF ParseInv
    <1>2. at' # "idle"
        BY ParseMoves
    <1>3. ASSUME NEW f \in DOMAIN Written, file' = f
          PROVE  stream' = Content[f] /\ (Carried' \/ Progress(f)')
        <2>1. stream = Content[f] /\ (Carried \/ Progress(f))
            BY <1>1, <1>3 DEF ParseInv
        <2>2. Reading(f)
            BY <1>1, <2>1, FileFormat DEF Reading, Open
        <2>3. CASE Carried
            BY <1>1, <2>1, <2>3, CarriedOn
        <2>4. CASE ~ Carried
            <3>1. Begun => ~ second_double_or_long_part
                BY <2>4 DEF Begun, Carried, NoClass
            <3> QED
                BY <1>1, <2>1, <2>2, <2>4, <3>1, ProgressStep
        <2> QED
            BY <2>3, <2>4
    <1> QED
        BY <1>1, <1>2, <1>3 DEF ParseInv

\* ... the opening of a file, ...
LEMMA ParseInvLoad ==
    ASSUME ParseInv, NEW name, load_class(name)
    PROVE  ParseInv'
    <1>1. at = "idle" /\ file = << >> /\ little_endian /\ little_endian'
        BY DEF ParseInv, load_class
    <1>2. at' # "idle"
        BY DEF load_class
    <1>3. ASSUME NEW f \in DOMAIN Written, file' = f
          PROVE  stream' = Content[f] /\ (Carried' \/ Progress(f)')
        <2>1. f # << >>
            BY FileFormat
        <2>2. Found(name) # {}
            BY <1>1, <1>3, <2>1 DEF load_class
        <2>3. at' = "start" /\ stream' = Content[f] /\ pos' = 1 /\ class' = NoClass
            BY <1>3, <2>2 DEF load_class
        <2> QED
            BY <2>3 DEF Progress, Begun
    <1> QED
        BY <1>1, <1>2, <1>3 DEF ParseInv

\* ... and the delivery of the class.
LEMMA ParseInvDeliver ==
    ASSUME ParseInv, Deliver
    PROVE  ParseInv'
    <1>1. little_endian' /\ file' = << >>
        BY DEF ParseInv, Deliver
    <1>2. \A f \in DOMAIN Written : file' # f
        BY <1>1, FileFormat
    <1> QED
        BY <1>1, <1>2 DEF ParseInv

\* While classes are freed no file is open.
LEMMA ParseInvRelease ==
    ASSUME ParseInv, LifeInv, impdep1 \/ TearDown \/ free_class
    PROVE  ParseInv'
    <1>1. at = "idle" /\ UNCHANGED <<file, little_endian>>
        BY DEF LifeInv, PhasesOK, impdep1, TearDown, free_class, Dispatch, Release
    <1>2. little_endian' /\ file' = << >>
        BY <1>1 DEF ParseInv
    <1>3. \A f \in DOMAIN Written : file' # f
        BY <1>2, FileFormat
    <1> QED
        BY <1>2, <1>3 DEF ParseInv

LEMMA InitParseInv == Init => ParseInv
    <1> SUFFICES ASSUME Init PROVE ParseInv
        OBVIOUS
    <1>1. little_endian /\ file = << >>
        BY DEF Init, InitFile
    <1>2. \A f \in DOMAIN Written : file # f
        BY <1>1, FileFormat
    <1> QED
        BY <1>1, <1>2 DEF ParseInv

LEMMA ParseInvStep == FileInv /\ LifeInv /\ ParseInv /\ [Next]_vars => ParseInv'
    <1> SUFFICES ASSUME FileInv, LifeInv, ParseInv, [Next]_vars PROVE ParseInv'
        OBVIOUS
    <1>1. ASSUME NEW name, NEW who, parse(name, who) PROVE ParseInv'
        BY <1>1, ParseInvLoad DEF parse
    <1>2. ASSUME NEW name, LoadsClass(name) PROVE ParseInv'
        BY <1>2, ParseInvLoad DEF LoadsClass
    <1>3. CASE ParseStep
        BY <1>3, ParseInvParse DEF ParseStep
    <1>4. CASE Loaded \/ Linked
        BY <1>4, ParseInvDeliver DEF Loaded, Linked
    <1>5. CASE Exits \/ NoMain \/ run \/ Stop
        BY <1>5, InvStays DEF Exits, NoMain, run, Stop
    <1>10. CASE impdep1 \/ TearDown \/ free_class
        BY <1>10, ParseInvRelease
    <1>6. ASSUME NEW n, Ask(n) PROVE ParseInv'
        BY <1>6, InvStays DEF Ask
    <1>7. CASE Ordinary
        BY <1>7, InvStays DEF Ordinary, Resume
    <1>8. ASSUME NEW k, InitializeClass(k) PROVE ParseInv'
        BY <1>8, InvStays DEF InitializeClass, Resume
    <1>9. CASE Ended \/ UNCHANGED vars
        BY <1>9, InvStays DEF Ended, vars
    <1> QED
        BY <1>1, <1>2, <1>3, <1>4, <1>5, <1>6, <1>7, <1>8, <1>9, <1>10 DEF Next

\* The places of the parser are all there are.
LEMMA ParseInvAlways == Spec => []ParseInv
    BY InitParseInv, ParseInvStep, FileAlways, LifeAlways, PTL DEF Spec

\* What was read of a whole class is what the file describes.
LEMMA DoneDescribes ==
    ASSUME FileInv, NEW f \in DOMAIN Written, Done(f)
    PROVE  Describes(Written[f])
    <1>1. /\ FieldsRead(f, class, Len(Written[f].fields))
          /\ Len(class.methods) = Len(Written[f].methods)
          /\ MethodsSoFar(f, class, Len(Written[f].methods))
          /\ AttributesRead(f, class, Len(Written[f].attributes))
          /\ class.name = Written[f].name
        BY DEF Done, MethodsRead
    <1>2. /\ HeadRead(f, class) /\ class.interfaces = Written[f].interfaces
          /\ Len(class.fields) = Len(Written[f].fields)
          /\ \A j \in 1 .. Len(Written[f].fields) : class.fields[j] = FieldOf(Written[f].fields[j])
        BY <1>1 DEF FieldsRead
    <1>3. /\ IsSequence(class.fields) /\ IsSequence(class.methods) /\ IsSequence(class.attributes)
          /\ ~ class.static_initialized
        BY DEF FileInv, ClassOK, HasParts, PartsOK, AttributesOK, IsSequence
    <1>4. /\ DOMAIN class.fields = 1 .. Len(class.fields)
          /\ DOMAIN class.methods = 1 .. Len(class.methods)
        BY <1>3, SequenceTyped
    <1>5. PICK F \in Nat, M \in Nat, A \in Nat, P \in Nat :
              /\ F = Len(Written[f].fields) /\ DOMAIN Written[f].fields = 1 .. F
              /\ M = Len(Written[f].methods) /\ DOMAIN Written[f].methods = 1 .. M
              /\ A = Len(Written[f].attributes) /\ P = Len(Written[f].pool)
              /\ DOMAIN Written[f].pool = 1 .. P
        BY FileFormat
    <1>6. SamePool(class.pool, Written[f].pool)
        BY <1>2, <1>5 DEF HeadRead, PoolRead, SamePool
    <1>7. class.fields = [k \in 1 .. F |-> FieldOf(Written[f].fields[k])]
        <2>1. class.fields = [k \in 1 .. F |-> class.fields[k]]
            <3>1. PICK S : class.fields \in Seq(S)
                BY <1>3 DEF IsSequence
            <3> QED
                BY <1>2, <1>5, <3>1
        <2>2. \A k \in 1 .. F : class.fields[k] = FieldOf(Written[f].fields[k])
            BY <1>2, <1>5
        <2> QED
            BY <2>1, <2>2
    <1>8. class.methods = [k \in 1 .. M |-> MethodOf(Written[f].methods[k])]
        <2>1. class.methods = [k \in 1 .. M |-> class.methods[k]]
            <3>1. PICK S : class.methods \in Seq(S)
                BY <1>3 DEF IsSequence
            <3> QED
                BY <1>1, <1>5, <3>1
        <2>2. ASSUME NEW k \in 1 .. M PROVE class.methods[k] = MethodOf(Written[f].methods[k])
            <3>1. PICK d : d = Written[f].methods[k]
                OBVIOUS
            <3>2. class.methods[k] = MethodSoFar(d, A)
                BY <1>1, <1>5, <3>1 DEF MethodsSoFar, AttributesRead
            <3>3. PICK t : t = MethodTable(f, k)
                OBVIOUS
            <3>4. GoodTable(f, t) /\ t.code = d.code
                BY <1>5, <3>1, <3>3, TablesGood DEF MethodTable
            <3>5. d.code = Unset \/ d.code \in 1 .. A
                <4>1. CASE d.code # Unset
                    BY <1>5, <3>4, <4>1, TableBounds
                <4> QED
                    BY <4>1
            <3>6. (IF d.code \in 1 .. A THEN d.code ELSE Unset) = d.code
                BY <3>5
            <3> QED
                BY <3>1, <3>2, <3>6 DEF MethodSoFar, MethodOf
        <2> QED
            BY <2>1, <2>2
    <1>9. class.attributes = Written[f].attributes
        <2>1. IsSequence(Written[f].attributes)
            BY FileFormat
        <2> QED
            BY <1>1, <1>3, <2>1, SameSequence DEF AttributesRead
    <1> QED
        BY <1>1, <1>2, <1>3, <1>5, <1>6, <1>7, <1>8, <1>9 DEF Describes, HeadRead

\* At its last place the class is the one that the file describes.
LEMMA InvRight == FileInv /\ ParseInv => ParsedAsWritten
    <1> SUFFICES ASSUME FileInv, ParseInv, file \in DOMAIN Written, ~ Carried
                 PROVE  /\ at \notin {"exit", "unknown"}
                        /\ at = "parsed" => /\ Describes(Written[file]) /\ pos = Len(stream) + 1
                                            /\ ~ second_double_or_long_part
        BY DEF ParsedAsWritten, Valid
    <1>1. PICK f \in DOMAIN Written : f = file
        OBVIOUS
    <1>2. stream = Content[f] /\ Progress(f)
        BY <1>1 DEF ParseInv
    <1>3. \/ at \in {"start", "reading", "signature"}
          \/ Done(f) /\ ~ second_double_or_long_part
        BY <1>2 DEF Progress, Begun, ConstantsAhead, InterfacesAhead, Members, FieldsAhead, InField,
            InAttributes, MethodsAhead, InSignature, InMethod, InClass
    <1>4. Done(f) => at = "parsed" /\ pos = Len(Content[f]) + 1
        BY DEF Done
    <1>5. Done(f) => Describes(Written[f])
        BY DoneDescribes
    <1> QED
        BY <1>1, <1>2, <1>3, <1>4, <1>5

\* Every valid file is parsed to its end, and what the parser makes of it is the
\* class that was written: whatever the texts, the numbers, the constants, the
\* members and the attributes are.  Only a file that meets the flag of a long cut
\* in two at the end of an earlier pool (Carried) is not parsed right.
THEOREM ParsedRight == Spec => []ParsedAsWritten
    <1>1. FileInv /\ ParseInv => ParsedAsWritten
        BY InvRight
    <1> QED
        BY <1>1, FileAlways, ParseInvAlways, PTL

==============================================================================
