---------------------------- MODULE MCLifecycle ----------------------------
(***************************************************************************)
(* Two valid classes, A in the first directory and B in the second, two    *)
(* with code outside of their methods, and one file for each way in which  *)
(* a file can be wrong.  Bytes have 32 values.  A class is described once; *)
(* Encode writes its file, Describe what the parser should make of it.     *)
(***************************************************************************)
EXTENDS Lifecycle

\* The texts and their characters.
MCText ==
    [t \in {"A", "B", "x", "Code", "ConstantValue", "Lines", "main", "([LS;)V", "println",
            "(I)V", "(J[[J[LB;D)I", "()V", "(V", "(LS", "([", "I", "F", "K"} |->
        CASE t = "([LS;)V" -> <<"(", "[", "L", "S", ";", ")", "V">>
          [] t = "(I)V" -> <<"(", "I", ")", "V">>
          [] t = "(J[[J[LB;D)I" ->
                <<"(", "J", "[", "[", "J", "[", "L", "B", ";", "D", ")", "I">>
          [] t = "()V" -> <<"(", ")", "V">>
          [] t = "(V" -> <<"(", "V">>
          [] t = "(LS" -> <<"(", "L", "S">>
          [] t = "([" -> <<"(", "[">>
          [] OTHER -> <<t>>]

MCSignatures == DOMAIN MCText
MCDescriptors == {"([LS;)V", "(I)V", "(J[[J[LB;D)I", "()V"}

ByDescriptor(main, int, many, none) ==
    [d \in MCDescriptors |-> CASE d = "([LS;)V" -> main [] d = "(I)V" -> int
                               [] d = "(J[[J[LB;D)I" -> many [] d = "()V" -> none]

MCDims == ByDescriptor(<<1>>, <<0>>, <<0, 2, 1, 0>>, << >>)
MCBase == ByDescriptor(<<"L">>, <<"I">>, <<"J", "J", "L", "D">>, << >>)
MCStartOf == ByDescriptor(<<2, 6>>, <<2, 3>>, <<2, 3, 6, 10, 11>>, <<2>>)
MCWordsBefore == ByDescriptor(<<0, 1>>, <<0, 1>>, <<0, 2, 3, 4, 6>>, <<0>>)

\* The number of a text in this list stands for its first byte.
TextList == <<"A", "B", "x", "Code", "ConstantValue", "Lines", "main", "([LS;)V", "println",
              "(I)V", "(J[[J[LB;D)I", "()V", "(V", "(LS", "([", "I", "F", "K">>

MCUtf8 ==
    [t \in MCSignatures |-> << CHOOSE k \in DOMAIN TextList : TextList[k] = t >>
                            \o [k \in 1 .. Len(MCText[t]) \div 3 |-> k]]

----------------------------------------------------------------------------
(* Descriptions.  An attribute has the index of its name and a body: bytes *)
(* to skip, an index, or code with exceptions and attributes.              *)

Skipped(name, bytes) == [name |-> name, kind |-> "skip", bytes |-> bytes]
Const(name, index) == [name |-> name, kind |-> "value", index |-> index]
CodeAttr(name, stack, locals, bytes, exceptions, attributes) ==
    [name |-> name, kind |-> "code", stack |-> stack, locals |-> locals,
     bytes |-> bytes, exceptions |-> exceptions, attributes |-> attributes]

Utf(t) == [tag |-> 1, value |-> <<t>>]
Num(t, v) == [tag |-> t, value |-> v]
Second == [tag |-> -1]

\* Every kind of constant; a native method first; code behind another
\* attribute, with an exception table and an attribute of its own.
A ==
    [pool |-> <<Utf("A"), Num(7, <<1>>), Utf("main"), Utf("([LS;)V"), Utf("Code"),
                Utf("println"), Utf("(I)V"), Utf("Lines"), Utf("ConstantValue"),
                Num(5, <<3 * 1048576 + 70>>), Second, Num(3, <<700>>), Num(8, <<6>>),
                Num(12, <<6, 7>>), Num(10, <<2, 14>>), Utf("I"),
                Num(6, <<2 * 1048576 + 5>>), Second, Num(9, <<2, 14>>), Num(4, <<33>>)>>,
     access |-> 33, this |-> 2, super |-> 2, interfaces |-> <<2, 2>>,
     fields |-> << [access |-> 8, name |-> 6, signature |-> 16,
                    attributes |-> <<Skipped(8, <<9>>), Const(9, 12)>>] >>,
     methods |-> << [access |-> 9, name |-> 6, signature |-> 7,
                     attributes |-> <<Skipped(8, << >>)>>],
                    [access |-> 1, name |-> 3, signature |-> 4,
                     attributes |-> <<Skipped(8, <<7, 7>>),
                                      CodeAttr(5, 2, 1, <<4, 17>>, 1, <<Skipped(8, <<1>>)>>),
                                      Skipped(8, <<3>>)>>] >>,
     attributes |-> <<Skipped(8, <<5, 5, 5>>)>>]

\* A long at the end of the pool, no field, the last method native.
B ==
    [pool |-> <<Utf("B"), Num(7, <<1>>), Utf("x"), Utf("(J[[J[LB;D)I"), Utf("()V"),
                Utf("Code"), Utf("println"), Num(11, <<2, 2>>), Num(5, <<9>>), Second>>,
     access |-> 1, this |-> 2, super |-> 2, interfaces |-> << >>, fields |-> << >>,
     methods |-> << [access |-> 9, name |-> 3, signature |-> 4,
                     attributes |-> <<CodeAttr(6, 1, 6, <<8>>, 0, << >>)>>],
                    [access |-> 9, name |-> 7, signature |-> 5, attributes |-> << >>] >>,
     attributes |-> << >>]

\* Code of a field, and code of a class without methods.
F ==
    [B EXCEPT !.pool[1] = Utf("F"),
              !.fields = << [access |-> 8, name |-> 3, signature |-> 5,
                             attributes |-> <<CodeAttr(6, 1, 1, <<9>>, 0, << >>)>>] >>]
K ==
    [B EXCEPT !.pool[1] = Utf("K"), !.methods = << >>,
              !.attributes = <<CodeAttr(6, 1, 1, <<9>>, 0, << >>)>>]

\* A number of w bytes, the high one first.
E(w, v) == [k \in 1 .. w |-> (v \div ByteValues ^ (w - k)) % ByteValues]
All(seqs) == FoldLeft(LAMBDA s, t : s \o t, << >>, seqs)
Each(op(_), items) == All([k \in DOMAIN items |-> op(items[k])])

EncodeConstant(c) ==
    IF c.tag = Unset THEN << >> ELSE
    <<c.tag>> \o (CASE c.tag = 1 -> E(2, Len(MCUtf8[c.value[1]])) \o MCUtf8[c.value[1]]
                    [] c.tag \in {3, 4} -> E(4, c.value[1])
                    [] c.tag \in {5, 6} -> E(4, c.value[1] \div ByteValues ^ 4)
                                           \o E(4, c.value[1] % (ByteValues ^ 4))
                    [] OTHER -> Each(LAMBDA v : E(2, v), c.value))

EncodeSimple(a) ==
    E(2, a.name) \o (IF a.kind = "value" THEN E(4, 2) \o E(2, a.index)
                     ELSE E(4, Len(a.bytes)) \o a.bytes)

CodeBody(a) ==
    E(2, a.stack) \o E(2, a.locals) \o E(4, Len(a.bytes)) \o a.bytes
    \o E(2, a.exceptions) \o [k \in 1 .. 8 * a.exceptions |-> 6]
    \o E(2, Len(a.attributes)) \o Each(EncodeSimple, a.attributes)

EncodeAttribute(a) ==
    IF a.kind = "code" THEN E(2, a.name) \o E(4, Len(CodeBody(a))) \o CodeBody(a)
    ELSE EncodeSimple(a)

Attributes(as) == E(2, Len(as)) \o Each(EncodeAttribute, as)

EncodeMember(m) ==
    E(2, m.access) \o E(2, m.name) \o E(2, m.signature) \o Attributes(m.attributes)

Encode(c) ==
    E(4, MAGIC) \o E(2, 0) \o E(2, 52)
    \o E(2, Len(c.pool) + 1) \o Each(EncodeConstant, c.pool)
    \o E(2, c.access) \o E(2, c.this) \o E(2, c.super)
    \o E(2, Len(c.interfaces)) \o Each(LAMBDA v : E(2, v), c.interfaces)
    \o E(2, Len(c.fields)) \o Each(EncodeMember, c.fields)
    \o E(2, Len(c.methods)) \o Each(EncodeMember, c.methods)
    \o Attributes(c.attributes)

----------------------------------------------------------------------------
(* What the parser should make of a description. *)

TextAt(c, k) == c.pool[k].value[1]

Listed(c, a, owner) ==
    [owner |-> owner, name |-> TextAt(c, a.name),
     length |-> IF a.kind = "code" THEN Len(CodeBody(a))
                ELSE IF a.kind = "value" THEN 2 ELSE Len(a.bytes),
     body |-> IF a.kind = "code" THEN <<a.stack, a.locals, a.bytes>>
              ELSE IF a.kind = "value" THEN <<a.index>> ELSE << >>]

\* list with attribute a of an owner and the attributes in its code.
WithAttr(c, list, a, owner) ==
    LET with == Append(list, Listed(c, a, owner))
    IN  IF a.kind # "code" THEN with
        ELSE with \o [k \in DOMAIN a.attributes |->
                        Listed(c, a.attributes[k], <<"code", Len(with)>>)]

WithAttrs(c, list, as, owner) ==
    FoldLeft(LAMBDA l, a : WithAttr(c, l, a, owner), list, as)

AttributesOf(c) ==
    LET members(kind, ms, before) ==
            FoldLeft(LAMBDA l, k : WithAttrs(c, l, ms[k].attributes, <<kind, k>>),
                     before, [k \in DOMAIN ms |-> k])
    IN  WithAttrs(c, members("method", c.methods, members("field", c.fields, << >>)),
                  c.attributes, <<"class", 0>>)

CodeIn(c, m) ==
    LET all == AttributesOf(c)
        own == {k \in DOMAIN all : all[k].owner = <<"method", m>> /\ all[k].name = "Code"}
    IN  IF own = {} THEN Unset ELSE CHOOSE k \in own : TRUE

Describe(c) ==
    [pool |-> c.pool, access |-> c.access, this |-> c.this, super |-> c.super,
     interfaces |-> c.interfaces, name |-> TextAt(c, TextAt(c, c.this)),
     fields |-> [k \in DOMAIN c.fields |->
        [access |-> c.fields[k].access, name |-> TextAt(c, c.fields[k].name),
         signature |-> TextAt(c, c.fields[k].signature)]],
     methods |-> [k \in DOMAIN c.methods |->
        LET sig == TextAt(c, c.methods[k].signature)
        IN  [access |-> c.methods[k].access, name |-> TextAt(c, c.methods[k].name),
             signature |-> sig, code |-> CodeIn(c, k),
             words |-> CASE sig = "([LS;)V" -> 1 [] sig = "(I)V" -> 1
                         [] sig = "(J[[J[LB;D)I" -> 6 [] sig = "()V" -> 0]],
     attributes |-> AttributesOf(c)]

----------------------------------------------------------------------------
(* Where its parts are in the file. *)

\* The positions of items of these lengths from position p on, and the one behind.
Starts(p, lengths) ==
    FoldLeft(LAMBDA s, n : Append(s, Last(s) + n), <<p>>, lengths)

\* An attribute at position p, and what is in it.
AttributePlaces(a, p, left) ==
    LET own == << [at |-> p, more |-> left] >>
    IN  IF a.kind # "code" THEN own
        ELSE LET n == Len(a.attributes)
                 inner == p + 14 + Len(a.bytes) + 2 + 8 * a.exceptions + 2
                 starts == Starts(inner, [k \in 1 .. n |-> Len(EncodeSimple(a.attributes[k]))])
             IN  own \o [k \in 1 .. n |-> [at |-> starts[k], more |-> n - k]]

TablePlaces(as, p) ==
    LET starts == Starts(p + 2, [k \in DOMAIN as |-> Len(EncodeAttribute(as[k]))])
    IN  All([k \in DOMAIN as |-> AttributePlaces(as[k], starts[k], Len(as) - k)])

MembersPlaces(ms, starts) ==
    [k \in DOMAIN ms |-> TablePlaces(ms[k].attributes, starts[k] + 6)]

Place(c) ==
    LET constants == Starts(11, [k \in DOMAIN c.pool |-> Len(EncodeConstant(c.pool[k]))])
        members(ms, p) == Starts(p, [k \in DOMAIN ms |-> Len(EncodeMember(ms[k]))])
        fields == members(c.fields, Last(constants) + 10 + 2 * Len(c.interfaces))
        methods == members(c.methods, Last(fields) + 2)
        inFields == MembersPlaces(c.fields, fields)
        inMethods == MembersPlaces(c.methods, methods)
        all == All(inFields) \o All(inMethods) \o TablePlaces(c.attributes, Last(methods))
        ofField == Starts(1, [k \in DOMAIN inFields |-> Len(inFields[k])])
    IN  [constants |-> constants, fields |-> fields, methods |-> methods,
         attributes |-> [x \in DOMAIN all |-> all[x].at],
         more |-> [x \in DOMAIN all |-> all[x].more],
         ofField |-> ofField,
         ofMethod |-> Starts(Last(ofField), [k \in DOMAIN inMethods |-> Len(inMethods[k])])]

----------------------------------------------------------------------------
(* The files. *)

Signed(text) == [B EXCEPT !.pool[4] = Utf(text)]

Bad ==
    [ magic |-> <<1>> \o Tail(Encode(B)),
      tag |-> Encode([B EXCEPT !.pool[1] = Num(2, << >>)]),
      attribute |-> Encode([B EXCEPT !.attributes = <<Skipped(2, << >>)>>]),
      nowhere |-> Encode([B EXCEPT !.attributes = <<Skipped(30, << >>)>>]),
      member |-> Encode([B EXCEPT !.methods[1].name = 2]),
      this |-> Encode([B EXCEPT !.this = 1]),
      half |-> Encode([B EXCEPT !.pool = Front(@)]),
      invalid |-> Encode(Signed("(V")),
      class |-> Encode(Signed("(LS")),
      array |-> Encode(Signed("([")),
      short |-> SubSeq(Encode(B), 1, Len(Encode(B)) - 1) ]

MCClasspaths == <<".", "classes">>
InMain == <<".", "A">>
InSecond == <<"classes", "B">>
Other(bad) == <<"classes", bad>>

MCWritten == [f \in {InMain, InSecond} |-> IF f = InMain THEN Describe(A) ELSE Describe(B)]
MCPlaces == [f \in {InMain, InSecond} |-> IF f = InMain THEN Place(A) ELSE Place(B)]

MCContent ==
    (InMain :> Encode(A)) @@ (InSecond :> Encode(B))
    @@ (Other("F") :> Encode(F)) @@ (Other("K") :> Encode(K)) @@ (Other("A") :> Bad.magic)
    @@ [f \in {Other(bad) : bad \in DOMAIN Bad} |-> Bad[f[2]]]

MCClassNames == {"A", "B", "F", "K", "missing"} \cup DOMAIN Bad

============================================================================
