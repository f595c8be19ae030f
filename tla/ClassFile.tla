----------------------------- MODULE ClassFile -----------------------------
(***************************************************************************)
(* load_class and parse_file of parser.c: the file of a class, byte by     *)
(* byte, becomes a class structure.  The calls that nest in the code       *)
(* (tables, their items, the attributes of an item, the attributes of a    *)
(* Code attribute) are frames of a stack; an action reads one item.        *)
(*                                                                         *)
(* Numbers are big-endian in the file.  The machine is little-endian, the  *)
(* only kind the README supports; an address is not modelled, a pointer to *)
(* a pooled string is its text (StringPool shows that this is the same).   *)
(***************************************************************************)
EXTENDS ClassFormat, SequencesExt

CONSTANTS
    ClassNames,
    Classpaths    \* "." and then the directories of classpaths

\* What c_attr_to_set points to, when not to a method of the class that is
\* parsed: nothing, a method of a class parsed before, or one that was freed.
NULL == 0
Stale == -2
Dangling == -3
Elsewhere == {NULL, Stale, Dangling}

ASSUME ClasspathAssumption == Classpaths \in Seq(STRING)

VARIABLES
    at,             \* "idle", "start", "reading", "signature", "parsed",
                    \* "exit", or "unknown": memory that nobody wrote was used
    file, stream,   \* the open file and its bytes
    pos,            \* the position of the next byte
    todo,           \* the calls under way: what is read next and how often
    class,          \* the structure under construction
    little_endian,
    second_double_or_long_part,
    c_attr_to_set   \* the method whose c_attr it points to, or Elsewhere

fileVars == <<at, file, stream, pos, todo, class, little_endian,
              second_double_or_long_part, c_attr_to_set>>

Top == Last(todo)
Below == Front(todo)
Frame(kind, n, owner) == [kind |-> kind, n |-> n, owner |-> owner]
At(kind) == at = "reading" /\ Top.kind = kind
CountDown == Append(Below, [Top EXCEPT !.n = @ - 1])

NoClass ==
    [pool |-> << >>, access |-> 0, this |-> 0, super |-> 0, interfaces |-> << >>,
     fields |-> << >>, methods |-> << >>, attributes |-> << >>,
     name |-> "none", static_initialized |-> FALSE]

InitFile ==
    /\ at = "idle"
    /\ file = << >> /\ stream = << >> /\ pos = 1
    /\ todo = << >>
    /\ class = NoClass
    /\ little_endian = TRUE
    /\ second_double_or_long_part = FALSE
    /\ c_attr_to_set = NULL

----------------------------------------------------------------------------
(* Reading. *)

\* Beyond the end of the file fread leaves the memory as it is.
ByteAt(p) == IF p \in DOMAIN stream THEN stream[p] ELSE 0
Block(p, n) == [k \in 1 .. n |-> ByteAt(p + k - 1)]
Past(n) == pos + n - 1 > Len(stream)

\* What a byte counts behind k lower ones.
Weight[k \in 0 .. u4] == IF k = 0 THEN 1 ELSE Weight[k - 1] * ByteValues

\* What the machine takes n bytes for: the first one is the lowest.
fread(p, n) ==
    LET upTo[k \in 0 .. n] ==
            IF k = 0 THEN 0 ELSE upTo[k - 1] * ByteValues + ByteAt(p + n - k)
    IN  upTo[n]

\* The number with the same bytes in the opposite order.
bswap(n, v) ==
    LET upTo[k \in 0 .. n] ==
            IF k = 0 THEN 0
            ELSE upTo[k - 1] * ByteValues + ((v \div Weight[k - 1]) % ByteValues)
    IN  upTo[n]

read_e(p, n) ==
    LET raw == fread(p, n) IN IF little_endian THEN bswap(n, raw) ELSE raw

Total(widths) ==
    LET upTo[k \in 0 .. Len(widths)] == IF k = 0 THEN 0 ELSE upTo[k - 1] + widths[k]
    IN  upTo[Len(widths)]

\* The numbers of these widths from position p on.
ReadFrom(p, widths) ==
    [k \in DOMAIN widths |-> read_e(p + Total(SubSeq(widths, 1, k - 1)), widths[k])]

Read(widths) == ReadFrom(pos, widths)

\* n bytes are read and then skip bytes are left out; the code goes on there.
GoOn(n, skip, there) ==
    /\ pos' = pos + n + skip
    /\ at' = IF Past(n) THEN "unknown" ELSE there

Fail(why) ==
    /\ at' = why
    /\ UNCHANGED <<pos, todo, class, second_double_or_long_part, c_attr_to_set>>

Same == UNCHANGED <<file, stream, little_endian>>
SameScan == UNCHANGED scanVars

----------------------------------------------------------------------------
(* load_class and the head of parse_file. *)

Found(name) == {d \in DOMAIN Classpaths : <<Classpaths[d], name>> \in Files}
First(dirs) == CHOOSE d \in dirs : \A e \in dirs : d <= e

load_class(name) ==
    /\ at = "idle"
    /\ IF Found(name) = {} THEN at' = "exit" /\ UNCHANGED <<file, stream>>
       ELSE /\ at' = "start"
            /\ file' = <<Classpaths[First(Found(name))], name>>
            /\ stream' = Content[file']
    /\ pos' = 1
    /\ todo' = << >>
    /\ class' = NoClass
    /\ UNCHANGED <<little_endian, second_double_or_long_part, c_attr_to_set>> /\ SameScan

magic == fread(pos, u4)
NotAClassFile == magic # MAGIC /\ bswap(u4, magic) # MAGIC

BadMagic ==
    /\ at = "start"
    /\ NotAClassFile
    /\ little_endian' = TRUE
    /\ Fail("exit")
    /\ UNCHANGED <<file, stream>> /\ SameScan

\* Magic number, versions and the length of the constant pool.
parse_file ==
    /\ at = "start"
    /\ ~ NotAClassFile
    /\ little_endian' = (little_endian \/ magic # MAGIC)
    /\ LET n == ReadFrom(pos + u4, <<u2, u2, u2>>)[3]
       IN  todo' = << Frame("constant", n - 1, << >>) >>
    /\ GoOn(u4 + 3 * u2, 0, "reading")
    /\ UNCHANGED <<file, stream, class, second_double_or_long_part, c_attr_to_set>> /\ SameScan

----------------------------------------------------------------------------
(* The constant pool. *)

tag == read_e(pos, u1)

\* The widths of the numbers behind a tag.
Layout(t) ==
    CASE t \in {CONSTANT_Class, CONSTANT_String} -> <<u2>>
      [] t \in References \cup {CONSTANT_NameAndType} -> <<u2, u2>>
      [] t \in Fours -> <<u4>>
      [] t \in Eights -> <<u4, u4>>

Numeric == References \cup Fours \cup Eights
           \cup {CONSTANT_Class, CONSTANT_String, CONSTANT_NameAndType}

NewConstant(entry) ==
    /\ class' = [class EXCEPT !.pool = Append(@, entry)]
    /\ todo' = CountDown
    /\ UNCHANGED c_attr_to_set /\ Same /\ SameScan

Constant == At("constant") /\ Top.n > 0

\* The entry behind a long or a double is not in the file.
SecondPart ==
    /\ Constant /\ second_double_or_long_part
    /\ second_double_or_long_part' = FALSE
    /\ NewConstant([tag |-> Unset])
    /\ UNCHANGED <<at, pos>>

\* The low word of a long or a double comes first in memory, last in the file.
HighFirst(t, numbers) == numbers
InMemory(t, numbers) == IF t \in Eights THEN Reverse(numbers) ELSE numbers

parse_constant ==
    /\ Constant /\ ~ second_double_or_long_part
    /\ tag \in Numeric
    /\ NewConstant([tag |-> tag, resolved |-> tag \in Fours \cup Eights,
                    words |-> InMemory(tag, ReadFrom(pos + u1, Layout(tag)))])
    /\ second_double_or_long_part' = (tag \in Eights)
    /\ GoOn(u1 + Total(Layout(tag)), 0, "reading")

parse_Utf8 ==
    /\ Constant /\ ~ second_double_or_long_part
    /\ tag = CONSTANT_Utf8
    /\ LET length == read_e(pos + u1, u2)
           bytes == Block(pos + u1 + u2, length)
           text == {t \in Texts : Utf8[t] = bytes}
       IN  IF text = {} THEN Fail("unknown") /\ Same /\ SameScan
           ELSE /\ NewConstant([tag |-> tag, resolved |-> TRUE,
                                words |-> <<CHOOSE t \in text : TRUE>>])
                /\ GoOn(u1 + u2 + length, 0, "reading")
                /\ UNCHANGED second_double_or_long_part

\* CONSTANT_Unicode, and tags that do not exist.
WrongTag ==
    /\ Constant /\ ~ second_double_or_long_part
    /\ tag \notin Numeric \cup {CONSTANT_Utf8}
    /\ Fail("exit") /\ Same /\ SameScan

----------------------------------------------------------------------------
(* Head, interfaces, fields and methods. *)

\* The text that an index of the pool leads to; the code does not look at the
\* tag first.
IsUtf8(x) == x \in DOMAIN class.pool /\ class.pool[x].tag = CONSTANT_Utf8
Str(x) == class.pool[x].words[1]

ClassHead ==
    /\ At("constant") /\ Top.n <= 0
    /\ LET v == Read(<<u2, u2, u2, u2>>)
       IN  /\ class' = [class EXCEPT !.access = v[1], !.this = v[2], !.super = v[3]]
           /\ todo' = << Frame("interfaces", v[4], << >>) >>
    /\ GoOn(4 * u2, 0, "reading")
    /\ UNCHANGED <<second_double_or_long_part, c_attr_to_set>> /\ Same /\ SameScan

parse_interfaces ==
    /\ At("interfaces")
    /\ LET v == Read([k \in 1 .. Top.n + 1 |-> u2])
       IN  /\ class' = [class EXCEPT !.interfaces = SubSeq(v, 1, Top.n)]
           /\ todo' = << Frame("field", v[Top.n + 1], << >>) >>
    /\ GoOn((Top.n + 1) * u2, 0, "reading")
    /\ UNCHANGED <<second_double_or_long_part, c_attr_to_set>> /\ Same /\ SameScan

parse_field ==
    /\ At("field") /\ Top.n > 0
    /\ LET v == Read(<<u2, u2, u2, u2>>)
           k == Len(class.fields) + 1
       IN  IF ~ IsUtf8(v[2]) \/ ~ IsUtf8(v[3]) THEN Fail("unknown")
           ELSE /\ class' = [class EXCEPT !.fields = Append(@,
                        [access |-> v[1], name |-> Str(v[2]), signature |-> Str(v[3]),
                         byte1 |-> 0, byte2 |-> 0])]
                /\ todo' = Append(CountDown, Frame("attribute", v[4], <<"field", k>>))
                /\ GoOn(4 * u2, 0, "reading")
                /\ UNCHANGED <<second_double_or_long_part, c_attr_to_set>>
    /\ Same /\ SameScan

\* The table is done: the length of the next one.
ThenMethods ==
    /\ At("field") /\ Top.n <= 0
    /\ todo' = << Frame("method", read_e(pos, u2), << >>) >>
    /\ GoOn(u2, 0, "reading")
    /\ UNCHANGED <<class, second_double_or_long_part, c_attr_to_set>> /\ Same /\ SameScan

\* calculate_nargs is called for the signature.
parse_method ==
    /\ At("method") /\ Top.n > 0
    /\ LET v == Read(<<u2, u2, u2>>)
       IN  IF ~ IsUtf8(v[2]) \/ ~ IsUtf8(v[3]) THEN Fail("unknown") /\ SameScan
           ELSE /\ class' = [class EXCEPT !.methods = Append(@,
                        [access |-> v[1], name |-> Str(v[2]), signature |-> Str(v[3]),
                         nargs |-> Unset, c_attr |-> Unset])]
                /\ calculate_nargs(Str(v[3]))
                /\ GoOn(3 * u2, 0, "signature")
                /\ UNCHANGED <<todo, second_double_or_long_part, c_attr_to_set>>
    /\ Same

ScanSignature == at = "signature" /\ Scan /\ UNCHANGED fileVars

ScanFails ==
    /\ at = "signature"
    /\ scan \in {"invalid", "overrun"}
    /\ Fail(IF scan = "invalid" THEN "exit" ELSE "unknown")
    /\ Same /\ SameScan

\* The Code attribute that is parsed next will be the one of method m.
FirstMethodOnly(m) == IF m = 1 THEN m ELSE c_attr_to_set
FirstClassOnly(m) == IF c_attr_to_set = Stale THEN Stale ELSE m
TargetOf(m) == m

MethodAttributes ==
    /\ at = "signature"
    /\ Return
    /\ LET m == Len(class.methods)
       IN  /\ class' = [class EXCEPT !.methods[m].nargs = nargs]
           /\ c_attr_to_set' = TargetOf(m)
           /\ todo' = Append(CountDown, Frame("attribute", read_e(pos, u2), <<"method", m>>))
    /\ GoOn(u2, 0, "reading")
    /\ UNCHANGED second_double_or_long_part /\ Same

ThenAttributes ==
    /\ At("method") /\ Top.n <= 0
    /\ todo' = << Frame("attribute", read_e(pos, u2), <<"class", 0>>) >>
    /\ GoOn(u2, 0, "reading")
    /\ UNCHANGED <<class, second_double_or_long_part, c_attr_to_set>> /\ Same /\ SameScan

----------------------------------------------------------------------------
(* Attributes. *)

Attribute == At("attribute") /\ Top.n > 0
NameIndex == read_e(pos, u2)
AttributeLength == read_e(pos + u2, u4)
NameIs(text) == IsUtf8(NameIndex) /\ Str(NameIndex) = text

\* The number the new attribute gets in the order of parsing.
New == Len(class.attributes) + 1

WithAttribute(body) ==
    [class EXCEPT !.attributes = Append(@,
        [owner |-> Top.owner, name |-> Str(NameIndex),
         length |-> AttributeLength, body |-> body])]

WrongName ==
    /\ Attribute
    /\ ~ IsUtf8(NameIndex)
    /\ Fail(IF NameIndex \in DOMAIN class.pool THEN "exit" ELSE "unknown")
    /\ Same /\ SameScan

parse_ConstantValue_attribute ==
    /\ Attribute /\ NameIs(ConstantValue)
    /\ class' = WithAttribute(<<read_e(pos + u2 + u4, u2)>>)
    /\ todo' = CountDown
    /\ GoOn(u2 + u4 + u2, 0, "reading")
    /\ UNCHANGED <<second_double_or_long_part, c_attr_to_set>> /\ Same /\ SameScan

\* Code in front of the methods, or of a class without any: c_attr of a class
\* parsed before is set.
SetsOld == Attribute /\ NameIs(Code) /\ c_attr_to_set = Stale

\* max_stack, max_locals, the code, the exception table, which is skipped, and
\* the length of the table of attributes.
EntryTooShort == 3 * u2
ExceptionEntry == 4 * u2

parse_Code_attribute ==
    /\ Attribute /\ NameIs(Code)
    /\ LET start == pos + u2 + u4
           v == ReadFrom(start, <<u2, u2, u4>>)
           code == start + 2 * u2 + u4
           exceptions == read_e(code + v[3], u2)
           behind == code + v[3] + u2 + exceptions * ExceptionEntry
           parsed == WithAttribute(<<v[1], v[2], Block(code, v[3])>>)
       IN  /\ class' = IF c_attr_to_set \in Elsewhere THEN parsed
                       ELSE [parsed EXCEPT !.methods[c_attr_to_set].c_attr = New]
           /\ todo' = Append(CountDown, Frame("attribute", read_e(behind, u2), <<"code", New>>))
           /\ GoOn(behind + u2 - pos, 0, IF c_attr_to_set = Dangling THEN "unknown" ELSE "reading")
    /\ UNCHANGED <<second_double_or_long_part, c_attr_to_set>> /\ Same /\ SameScan

SkipAttribute ==
    /\ Attribute /\ IsUtf8(NameIndex)
    /\ Str(NameIndex) \notin {Code, ConstantValue}
    /\ class' = WithAttribute(<< >>)
    /\ todo' = CountDown
    /\ GoOn(u2 + u4, AttributeLength, "reading")
    /\ UNCHANGED <<second_double_or_long_part, c_attr_to_set>> /\ Same /\ SameScan

\* Back in the caller: the next field or method, the code around, or the end.
AttributesDone ==
    /\ At("attribute") /\ Top.n <= 0
    /\ Below # << >>
    /\ todo' = Below
    /\ UNCHANGED <<at, pos, class, second_double_or_long_part, c_attr_to_set>>
    /\ Same /\ SameScan

\* The name of the class; next and static_initialized.
Named(x) == x \in DOMAIN class.pool /\ class.pool[x].tag = CONSTANT_Class
            /\ IsUtf8(class.pool[x].words[1])

Finish ==
    /\ At("attribute") /\ Top.n <= 0
    /\ Below = << >>
    /\ IF Named(class.this)
       THEN /\ class' = [class EXCEPT !.name = Str(class.pool[class.this].words[1])]
            /\ at' = "parsed"
            /\ UNCHANGED <<pos, todo, second_double_or_long_part, c_attr_to_set>>
       ELSE Fail("unknown")
    /\ Same /\ SameScan

Parse ==
    \/ BadMagic \/ parse_file
    \/ SecondPart \/ parse_constant \/ parse_Utf8 \/ WrongTag
    \/ ClassHead \/ parse_interfaces
    \/ parse_field \/ ThenMethods
    \/ parse_method \/ ScanSignature \/ ScanFails \/ MethodAttributes \/ ThenAttributes
    \/ WrongName \/ parse_ConstantValue_attribute \/ parse_Code_attribute \/ SkipAttribute
    \/ AttributesDone \/ Finish

\* The caller of load_class has the class.  The variable that says where c_attr
\* is to be stored is static and still points into it.
Deliver ==
    /\ at = "parsed"
    /\ at' = "idle"
    /\ file' = << >> /\ stream' = << >> /\ pos' = 1 /\ todo' = << >>
    /\ class' = NoClass
    /\ c_attr_to_set' = IF c_attr_to_set \in Elsewhere THEN c_attr_to_set ELSE Stale
    /\ UNCHANGED <<little_endian, second_double_or_long_part>>
    /\ SameScan

\* The classes are freed, and the variable is left as it is.
Release ==
    /\ c_attr_to_set' = IF c_attr_to_set = Stale THEN Dangling ELSE c_attr_to_set
    /\ UNCHANGED <<at, file, stream, pos, todo, class, little_endian,
                   second_double_or_long_part>>
    /\ SameScan

----------------------------------------------------------------------------
(* Correctness.                                                            *)

Valid == file \in DOMAIN Written

\* The 64 bits of a long or a double are one number.
Value(e) ==
    IF e.tag \in Eights THEN << e.words[1] + e.words[2] * Weight[u4] >> ELSE e.words

SameEntry(e, d) ==
    IF d.tag = Unset THEN e.tag = Unset
    ELSE /\ e.tag = d.tag
         /\ e.resolved = (d.tag \in {CONSTANT_Utf8} \cup Fours \cup Eights)
         /\ Value(e) = d.value

SamePool(entries, described) ==
    /\ Len(entries) = Len(described)
    /\ \A x \in DOMAIN described : SameEntry(entries[x], described[x])

FieldOf(d) ==
    [access |-> d.access, name |-> d.name, signature |-> d.signature, byte1 |-> 0, byte2 |-> 0]

MethodOf(d) ==
    [access |-> d.access, name |-> d.name, signature |-> d.signature,
     nargs |-> d.words, c_attr |-> d.code]

Describes(d) ==
    /\ SamePool(class.pool, d.pool)
    /\ class.access = d.access /\ class.this = d.this /\ class.super = d.super
    /\ class.interfaces = d.interfaces
    /\ class.fields = [k \in DOMAIN d.fields |-> FieldOf(d.fields[k])]
    /\ class.methods = [k \in DOMAIN d.methods |-> MethodOf(d.methods[k])]
    /\ class.attributes = d.attributes
    /\ class.name = d.name
    /\ ~ class.static_initialized

\* The flag for the second entry of a long is static: a file that was parsed
\* before, whose pool ends with the first, left it set, and the first constant of
\* this file is taken for the second.
Carried ==
    IF class.pool = << >> THEN second_double_or_long_part ELSE class.pool[1].tag = Unset

\* A valid file is parsed to its last byte, and every part of the structure is
\* what was written: numbers in the order of the machine, both words of a long
\* in their places, every item of every table behind attributes that are
\* skipped, and methods with the words of their arguments and their code.  The
\* flag is down then, so that no valid file spoils the next one.
ParsedAsWritten ==
    Valid /\ ~ Carried =>
        /\ at \notin {"exit", "unknown"}
        /\ at = "parsed" => /\ Describes(Written[file]) /\ pos = Len(stream) + 1
                           /\ ~ second_double_or_long_part

\* The Code attributes of a method.
OwnCode(c, m) ==
    {x \in DOMAIN c.attributes :
        c.attributes[x].owner = <<"method", m>> /\ c.attributes[x].name = Code}

\* What a class file owes: code belongs to a method, and is all it has.
CodePlaced(c) ==
    \A x \in DOMAIN c.attributes :
        c.attributes[x].name = Code => \E m \in DOMAIN c.methods : OwnCode(c, m) = {x}

HasOwnCode(c, m) ==
    IF OwnCode(c, m) = {} THEN c.methods[m].c_attr = Unset
    ELSE OwnCode(c, m) = {c.methods[m].c_attr}

CodeOwned(c) == CodePlaced(c) => \A m \in DOMAIN c.methods : HasOwnCode(c, m)

\* While a class is parsed the shortcut c_attr of each of its methods leads to
\* the Code attribute of that method, wherever among its attributes that is, and
\* is set for no other: the variable through which it is set never points to
\* another method of the class.  This needs no more of a file than that its code
\* is placed.
CodeOfItsOwn == CodeOwned(class)

============================================================================
