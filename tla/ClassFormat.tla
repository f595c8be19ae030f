---------------------------- MODULE ClassFormat ----------------------------
(***************************************************************************)
(* The file of a class, as the compiler writes it: for each valid file the *)
(* class it describes and the place of every part of it.  The parser of    *)
(* parser.c relies on nothing else, so this is what its result is compared *)
(* with.                                                                   *)
(*                                                                         *)
(* A file is a sequence of items without gaps: constants, a head, fields   *)
(* and methods with the attributes of each, and the attributes of the      *)
(* class.  The attributes of all are numbered in the order of the file;    *)
(* those in a Code attribute follow it.                                    *)
(***************************************************************************)
EXTENDS Signature

CONSTANTS
    ByteValues,   \* number of values of a byte
    MAGIC,
    Utf8,         \* text -> its bytes
    Code, ConstantValue,   \* the texts "Code" and "ConstantValue"
    Content,      \* <<directory, class name>> -> the bytes of the file
    Written,      \* <<directory, class name>> -> the class of a valid file
    Places        \* <<directory, class name>> -> where the parts of it are

Texts == Signatures
Files == DOMAIN Content
Unset == -1    \* memory from malloc that was not written

u1 == 1
u2 == 2
u4 == 4

\* The tags of constants, with the numbers of parser.h.
CONSTANT_Utf8 == 1
CONSTANT_Class == 7
CONSTANT_String == 8
CONSTANT_NameAndType == 12
References == 9 .. 11
Fours == {3, 4}      \* Integer, Float
Eights == {5, 6}     \* Long, Double

ASSUME FileAssumption ==
    /\ ByteValues \in Nat \ {0, 1}
    /\ Files \subseteq STRING \X STRING
    /\ Content \in [Files -> Seq(0 .. ByteValues - 1)]
    /\ Utf8 \in [Texts -> Seq(0 .. ByteValues - 1)]
    /\ \A t, s \in Texts : Utf8[t] = Utf8[s] => t = s
    /\ {Code, ConstantValue} \subseteq Texts /\ Code # ConstantValue
    /\ DOMAIN Written \subseteq Files

----------------------------------------------------------------------------
(* A description of a class has                                            *)
(*   pool: for each index the tag and the value, Unset behind the wide ones,*)
(*   access, this, super, interfaces, name,                                *)
(*   fields: access, name, signature,                                      *)
(*   methods: also the words of the arguments and the number of the own    *)
(*     Code attribute, Unset if there is none,                             *)
(*   attributes: in the order of the file, with owner, name, length, body. *)
(* The places of its parts are                                             *)
(*   constants, fields, methods: the position of each, and the one behind  *)
(*     the last,                                                           *)
(*   ofField, ofMethod: the number of the first attribute of each, and the *)
(*     one behind those of the last,                                       *)
(*   attributes: the position of each,                                     *)
(*   more: for each attribute how many follow it in its table.             *)

IsList(s) == s \in Seq({s[x] : x \in DOMAIN s})

\* Behind the end a file has no bytes.
Byte(f, p) == IF p \in DOMAIN Content[f] THEN Content[f][p] ELSE 0

\* The number of n bytes at position p: the first one is the highest.
Number(f, p, n) ==
    LET upTo[k \in 0 .. n] ==
            IF k = 0 THEN 0 ELSE upTo[k - 1] * ByteValues + Byte(f, p + k - 1)
    IN  upTo[n]

Bytes(f, p, n) == SubSeq(Content[f], p, p + n - 1)

\* There is something from position p up to the one before end.
Within(f, p, end) == p >= 1 /\ p <= end /\ end <= Len(Content[f]) + 1

\* At position p is the index of a text in the pool.
IsText(f, p, t) ==
    LET x == Number(f, p, u2)
    IN  /\ x \in DOMAIN Written[f].pool
        /\ Written[f].pool[x] = [tag |-> CONSTANT_Utf8, value |-> <<t>>]

\* The value of a constant with a number or indices, and what it takes.
NumericValue(f, t, p) ==
    CASE t \in {CONSTANT_Class, CONSTANT_String} -> << Number(f, p, 2) >>
      [] t \in References \cup {CONSTANT_NameAndType} -> << Number(f, p, 2), Number(f, p + 2, 2) >>
      [] t \in Fours -> << Number(f, p, 4) >>
      [] t \in Eights -> << Number(f, p, 8) >>

NumericSize(t) == CASE t \in {CONSTANT_Class, CONSTANT_String} -> 2
                    [] t \in Eights -> 8
                    [] OTHER -> 4

IsConstant(f, x) ==
    LET c == Written[f].pool[x]
        p == Places[f].constants[x]
        end == Places[f].constants[x + 1]
    IN  /\ Within(f, p, end)
        /\ c.tag = Unset <=> (x > 1 /\ Written[f].pool[x - 1].tag \in Eights)
        /\ c.tag = Unset => end = p
        /\ c.tag # Unset => Content[f][p] = c.tag /\ c.tag \in 1 .. 12 \ {2}
        /\ c.tag = CONSTANT_Utf8 =>
              /\ c.value = << c.value[1] >> /\ c.value[1] \in Texts
              /\ end = p + 3 + Number(f, p + 1, u2)
              /\ Bytes(f, p + 3, Number(f, p + 1, u2)) = Utf8[c.value[1]]
        /\ c.tag \notin {Unset, CONSTANT_Utf8} =>
              /\ c.value = NumericValue(f, c.tag, p + 1)
              /\ end = p + 1 + NumericSize(c.tag)

\* Magic number, versions, and the pool; a long or a double takes two entries.
IsPool(f) ==
    LET c == Written[f].pool
    IN  /\ IsList(c)
        /\ Places[f].constants \in [1 .. Len(c) + 1 -> Nat]
        /\ Places[f].constants[1] = 11 /\ Len(Content[f]) >= 10
        /\ Number(f, 1, u4) = MAGIC
        /\ Number(f, 9, u2) = Len(c) + 1
        /\ \A x \in 1 .. Len(c) : IsConstant(f, x)
        /\ c # << >> /\ c[Len(c)].tag \notin Eights

IsHead(f) ==
    LET c == Written[f]
        p == Places[f].constants[Len(c.pool) + 1]
    IN  /\ IsList(c.interfaces)
        /\ c.access = Number(f, p, u2)
        /\ c.this = Number(f, p + 2, u2) /\ c.super = Number(f, p + 4, u2)
        /\ Number(f, p + 6, u2) = Len(c.interfaces)
        /\ \A k \in 1 .. Len(c.interfaces) : c.interfaces[k] = Number(f, p + 6 + 2 * k, u2)
        /\ Number(f, p + 8 + 2 * Len(c.interfaces), u2) = Len(c.fields)
        /\ Places[f].fields[1] = p + 10 + 2 * Len(c.interfaces)
        /\ Within(f, p, Places[f].fields[1])
        /\ c.this \in DOMAIN c.pool /\ c.pool[c.this].tag = CONSTANT_Class
        /\ c.pool[c.this].value[1] \in DOMAIN c.pool
        /\ c.pool[c.pool[c.this].value[1]] = [tag |-> CONSTANT_Utf8, value |-> << c.name >>]

----------------------------------------------------------------------------
(* Attributes: the index of the name, a length, and as many bytes.         *)

\* Code at position p: the words of the stack and of the locals, the code, an
\* exception table, and attributes.
CodeLength(f, p) == Number(f, p + 10, u4)
ExceptionsAt(f, p) == p + 14 + CodeLength(f, p)
InnerAt(f, p) == ExceptionsAt(f, p) + 2 + 8 * Number(f, ExceptionsAt(f, p), u2)

IsCode(f, x) == Written[f].attributes[x].name = Code

\* How many attributes are in attribute x, and the position behind what is its own.
Inner(f, x) == IF IsCode(f, x) THEN Number(f, InnerAt(f, Places[f].attributes[x]), u2) ELSE 0
Behind(f, x) == IF IsCode(f, x) THEN InnerAt(f, Places[f].attributes[x]) + 2
                ELSE Places[f].attributes[x] + 6 + Written[f].attributes[x].length

IsAttribute(f, x) ==
    LET a == Written[f].attributes[x]
        p == Places[f].attributes[x]
    IN  /\ IsText(f, p, a.name)
        /\ a = [owner |-> a.owner, name |-> a.name, length |-> Number(f, p + 2, u4),
                body |-> IF a.name = Code
                         THEN << Number(f, p + 6, u2), Number(f, p + 8, u2),
                                 Bytes(f, p + 14, CodeLength(f, p)) >>
                         ELSE IF a.name = ConstantValue THEN << Number(f, p + 6, u2) >>
                         ELSE << >>]
        /\ a.name = ConstantValue => a.length = 2
        /\ Within(f, p, Behind(f, x))
        /\ Behind(f, x + Inner(f, x)) = p + 6 + a.length

\* The table of an owner at position p is made of the attributes first .. last,
\* together with those in its code; it ends before the position end.
InTable(f, owner, x, last) ==
    LET next == x + 1 + Inner(f, x)
    IN  /\ IF Places[f].more[x] = 0 THEN next = last + 1
           ELSE /\ next <= last
                /\ Written[f].attributes[next].owner = owner
                /\ Places[f].more[next] = Places[f].more[x] - 1
        /\ \A y \in x + 1 .. next - 1 :
              Written[f].attributes[y].owner = <<"code", x>>

IsTable(f, owner, p, first, last, end) ==
    /\ first >= 1 /\ last <= Len(Written[f].attributes)
    /\ Within(f, p, p + 2)
    /\ IF first > last THEN last = first - 1 /\ Number(f, p, u2) = 0 /\ end = p + 2
       ELSE /\ Written[f].attributes[first].owner = owner
            /\ Places[f].attributes[first] = p + 2
            /\ Places[f].more[first] = Number(f, p, u2) - 1
            /\ end = Behind(f, last)
    /\ \A x \in first .. last :
          /\ x < last => Places[f].attributes[x + 1] = Behind(f, x)
          /\ Written[f].attributes[x].owner = owner => InTable(f, owner, x, last)

\* Code belongs to a method: attribute code, or none if code is Unset.
HasCodeAt(f, owner, code, first, last) ==
    /\ \A x \in first .. last : IsCode(f, x) <=> x = code
    /\ code # Unset => code \in first .. last /\ Written[f].attributes[code].owner = owner

----------------------------------------------------------------------------
(* Fields, methods, and the file.                                          *)

IsMember(f, d, p, owner, code, first, next, end) ==
    /\ Within(f, p, p + 6)
    /\ d.access = Number(f, p, u2)
    /\ IsText(f, p + 2, d.name) /\ IsText(f, p + 4, d.signature)
    /\ IsTable(f, owner, p + 6, first, next - 1, end)
    /\ HasCodeAt(f, owner, code, first, next - 1)

IsField(f, k) ==
    LET m == Places[f]
    IN  IsMember(f, Written[f].fields[k], m.fields[k], <<"field", k>>, Unset,
                 m.ofField[k], m.ofField[k + 1], m.fields[k + 1])

\* The words of the arguments are those of the descriptor.
IsMethodAt(f, k) ==
    LET m == Places[f]
        d == Written[f].methods[k]
    IN  /\ IsMember(f, d, m.methods[k], <<"method", k>>, d.code,
                    m.ofMethod[k], m.ofMethod[k + 1], m.methods[k + 1])
        /\ d.signature \in Descriptors
        /\ d.words = WordsBefore[d.signature][Count(d.signature) + 1]

IsClassFile(f) ==
    LET c == Written[f]
        m == Places[f]
        fields == Len(c.fields)
        methods == Len(c.methods)
    IN  /\ IsPool(f) /\ IsHead(f)
        /\ IsList(c.fields) /\ IsList(c.methods) /\ IsList(c.attributes)
        /\ m.attributes \in [1 .. Len(c.attributes) -> Nat]
        /\ m.more \in [1 .. Len(c.attributes) -> Nat]
        /\ m.fields \in [1 .. fields + 1 -> Nat] /\ m.ofField \in [1 .. fields + 1 -> Nat]
        /\ m.methods \in [1 .. methods + 1 -> Nat] /\ m.ofMethod \in [1 .. methods + 1 -> Nat]
        /\ \A x \in 1 .. Len(c.attributes) : IsAttribute(f, x)
        /\ \A k \in 1 .. fields : IsField(f, k)
        /\ Number(f, m.fields[fields + 1], u2) = methods
        /\ m.methods[1] = m.fields[fields + 1] + 2
        /\ Within(f, m.fields[fields + 1], m.methods[1])
        /\ \A k \in 1 .. methods : IsMethodAt(f, k)
        /\ m.ofField[1] = 1 /\ m.ofMethod[1] = m.ofField[fields + 1]
        /\ IsTable(f, <<"class", 0>>, m.methods[methods + 1], m.ofMethod[methods + 1],
                   Len(c.attributes), Len(Content[f]) + 1)
        /\ HasCodeAt(f, <<"class", 0>>, Unset, m.ofMethod[methods + 1], Len(c.attributes))

\* The compiler writes class files.
ASSUME WrittenAssumption == \A f \in DOMAIN Written : IsClassFile(f)

============================================================================
