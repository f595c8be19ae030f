----------------------------- MODULE Operations -----------------------------
(***************************************************************************)
(* The instructions of run() in core.c that compute: the dup family,       *)
(* integer arithmetic, comparisons, conversions and arrays.  Interpreter   *)
(* has only their effect on the height of the operand stack; here it is    *)
(* their effect on the words.                                              *)
(*                                                                         *)
(* An operand is a word, or two words with the low one first.  The words   *)
(* above optop keep what was there.  An array is a struct array with a     *)
(* block of bytes from calloc; its address is a word like any other.  No   *)
(* word says what it is: tags is a history of what the type checker of     *)
(* Java knows, and restricts which instruction comes next.                 *)
(***************************************************************************)
EXTENDS Words, Sequences, SequencesExt

CONSTANTS
    IntLiterals,    \* the constants of the program
    LongLiterals,
    ArrayLiterals,  \* bound: and of a program that has used a local or array
    Increments,     \* the second operands of iinc
    StackWords,     \* max_stack: javac's promise for the whole method
    ConstantWords,  \* bound: constants are only pushed up to this height
    HeapBytes,      \* calloc succeeds for at most so many bytes
    MaxArrays,      \* and malloc for so many arrays
    Budget          \* bound: the instructions of a behaviour, see Spend

\* The process has less than half of the address space for one block.
ASSUME OperationsAssumption ==
    /\ StackWords \in Nat /\ ConstantWords \in 0 .. StackWords
    /\ Budget \in Nat \ {0}
    /\ HeapBytes \in Nat /\ 2 * HeapBytes < Values(Four)
    /\ MaxArrays \in Nat /\ MaxArrays < Values(Four)
    /\ IntLiterals \subseteq Int /\ ArrayLiterals \subseteq Int
    /\ LongLiterals \subseteq Int /\ Increments \subseteq Int

VARIABLES
    vm,      \* "running", "aborted" or "undefined"
    mem,     \* the words of the operand stack
    optop,   \* the number of the word on top
    local,   \* a local variable of type int
    heap,    \* address -> struct array with its block
    branch,  \* whether the last comparison added an offset to pc
    op,      \* the instruction executed last
    tags,    \* history: the type of each word up to optop
    types,   \* history: address -> the element type it was created with
    kept,    \* history: address -> the elements as Java would keep them
    left     \* what is left of the budget

history == <<tags, types, kept>>
vars == <<vm, mem, optop, local, heap, branch, op, history, left>>

Types == {"T_BOOLEAN", "T_CHAR", "T_BYTE", "T_SHORT", "T_INT", "T_LONG"}
NullAddress == 0

\* The operand of k bytes whose first word is p.
Read(k, p) == IF k = Four THEN mem[p] ELSE mem[p] + Values(Four) * mem[p + 1]
WriteUncast(k, p, v) ==
    IF k = Four THEN [mem EXCEPT ![p] = v]
    ELSE [mem EXCEPT ![p] = U(Four, v), ![p + 1] = U(Eight, v) \div Values(Four)]
Write(k, p, v) ==
    IF k = Four THEN [mem EXCEPT ![p] = U(Four, v)]
    ELSE [mem EXCEPT ![p] = U(Four, v), ![p + 1] = U(Eight, v) \div Values(Four)]

WordsOf(k) == k \div Four
TagsOf(k) == IF k = Four THEN <<"int">> ELSE <<"low", "high">>

\* What the type checker knows about the words on top.
Checked(ts) == vm = "running" /\ IsSuffix(ts, tags)
Retag(n, ts) == tags' = SubSeq(tags, 1, Len(tags) - n) \o ts

Spend(cost) == left >= cost /\ left' = left - cost
CheapCost == 1         \* of arrays and local variables
CopyCost == Budget - 1 \* of the dup family
OtherCost == Budget    \* of everything else

Abort == vm' = "aborted" /\ UNCHANGED <<mem, optop, local, heap, branch, history>>

\* Bound: references and the local variable are set while the stack is low.
Low == optop <= 1

\* n words, of which the instruction wrote some, are replaced by words ts.
Replace(n, m, ts) ==
    /\ mem' = m
    /\ optop' = optop - n + Len(ts)
    /\ Retag(n, ts)
    /\ UNCHANGED <<vm, local, heap, branch, types, kept>>

Init ==
    /\ vm = "running"
    /\ mem = [p \in 1 .. StackWords |-> 0]
    /\ optop = 0
    /\ local = 0
    /\ heap = << >>
    /\ branch = FALSE
    /\ op = << >>
    /\ tags = << >>
    /\ types = << >>
    /\ kept = << >>
    /\ left = Budget

----------------------------------------------------------------------------
(* Constants, locals and the dup family. *)

Push(w, ts) ==
    /\ left > 0 /\ optop + Len(ts) <= ConstantWords
    /\ Replace(0, Write(Four * Len(ts), optop + 1, w), ts)

Constant ==
    /\ vm = "running"
    /\ \/ \E v \in IF left = Budget THEN IntLiterals ELSE ArrayLiterals : op' = <<"const", Four>> /\ Spend(0) /\ Push(v, <<"int">>)
       \/ \E v \in LongLiterals : op' = <<"const", Eight>> /\ Spend(0) /\ Push(v, <<"low", "high">>)
       \/ \E t \in Types : op' = <<"null", t>> /\ Low /\ Spend(CheapCost) /\ Push(NullAddress, <<t>>)
       \/ op' = <<"iload">> /\ Spend(0) /\ Push(local, <<"int">>)
       \/ \E a \in DOMAIN heap : op' = <<"aload">> /\ Spend(0) /\ Push(a, <<types[a]>>)

\* A copy or an exchange of words must not take a long apart: there is a value
\* boundary n words below the top.
Boundary(n) == n <= Len(tags) /\ (n > 0 => tags[Len(tags) - n + 1] # "high")

pop(w) ==
    /\ vm = "running" /\ w <= Len(tags) /\ Boundary(w)
    /\ op' = <<"pop", w>>
    /\ Spend(OtherCost)
    /\ Replace(w, mem, << >>)

istore ==
    /\ Checked(<<"int">>)
    /\ op' = <<"istore">>
    /\ Low
    /\ Spend(CheapCost)
    /\ local' = mem[optop]
    /\ optop' = optop - 1
    /\ Retag(1, << >>)
    /\ UNCHANGED <<vm, mem, heap, branch, types, kept>>

\* *(optop + to) = *(optop + from), one after the other.
Move(m, to, from) == [m EXCEPT ![optop + to] = m[optop + from]]

\* The form of dup that copies n words below the m words under them.
DupForgetful(n, m) ==
    CASE n = 1 /\ m = 0 -> Move(mem, 1, 0)
      [] n = 1 /\ m = 1 -> Move(Move(Move(mem, 1, 0), 0, -1), -1, 1)
      [] n = 1 /\ m = 2 -> Move(Move(Move(Move(mem, 1, 0), 0, -1), -1, -2), -2, 1)
      [] n = 2 /\ m = 0 -> Move(Move(mem, 1, 0), 2, 1)
      [] n = 2 /\ m = 1 ->
           Move(Move(Move(Move(Move(mem, 2, 0), 1, -1), 0, -2), -1, 2), -2, 1)
      [] n = 2 /\ m = 2 ->
           Move(Move(Move(Move(Move(Move(mem, 2, 0), 1, -1), 0, -2), -1, -3), -2, 2), -3, 1)

Dup(n, m) ==
    CASE n = 1 /\ m = 0 -> Move(mem, 1, 0)
      [] n = 1 /\ m = 1 -> Move(Move(Move(mem, 1, 0), 0, -1), -1, 1)
      [] n = 1 /\ m = 2 -> Move(Move(Move(Move(mem, 1, 0), 0, -1), -1, -2), -2, 1)
      [] n = 2 /\ m = 0 -> Move(Move(mem, 1, -1), 2, 0)
      [] n = 2 /\ m = 1 ->
           Move(Move(Move(Move(Move(mem, 2, 0), 1, -1), 0, -2), -1, 2), -2, 1)
      [] n = 2 /\ m = 2 ->
           Move(Move(Move(Move(Move(Move(mem, 2, 0), 1, -1), 0, -2), -1, -3), -2, 2), -3, 1)

dup(n, m) ==
    /\ vm = "running"
    /\ n + m <= Len(tags) /\ Boundary(n) /\ Boundary(n + m)
    /\ optop + n <= StackWords
    /\ op' = <<"dup", n, m>>
    /\ Spend(CopyCost)
    /\ LET top == SubSeq(tags, Len(tags) - n + 1, Len(tags))
           middle == SubSeq(tags, Len(tags) - n - m + 1, Len(tags) - n)
       IN  Replace(n + m, Dup(n, m), top \o middle \o top)

swap ==
    /\ vm = "running"
    /\ 2 <= Len(tags) /\ Boundary(1) /\ Boundary(2)
    /\ op' = <<"swap">>
    /\ Spend(CopyCost)
    /\ Replace(2, [mem EXCEPT ![optop] = mem[optop - 1], ![optop - 1] = mem[optop]],
               <<tags[optop], tags[optop - 1]>>)

----------------------------------------------------------------------------
(* Arithmetic on operands of k bytes: iadd is <<"add", Four>>. *)

\* The first words of the two operands of a binary instruction.
First(k) == optop - 2 * WordsOf(k) + 1
Second(k) == optop - WordsOf(k) + 1

Binary(k, result) ==
    Replace(2 * WordsOf(k), Write(k, First(k), result), TagsOf(k))

\* The overflow of signed arithmetic wraps around in the build.
Result(name, k, a, b) ==
    CASE name = "add" -> S(k, a) + S(k, b)
      [] name = "sub" -> S(k, a) - S(k, b)
      [] name = "mul" -> S(k, a) * S(k, b)
      [] name = "and" -> And(k, a, b)
      [] name = "or" -> Or(k, a, b)
      [] name = "xor" -> Xor(k, a, b)

calculate(name, k) ==
    /\ Checked(TagsOf(k) \o TagsOf(k))
    /\ op' = <<name, k>>
    /\ Spend(OtherCost)
    /\ Binary(k, Result(name, k, Read(k, First(k)), Read(k, Second(k))))

DivisionResult(name, k, a, b) ==
    LET q == Quotient(S(k, a), S(k, b))
    IN  CASE name = "div" -> q
          [] name = "rem" -> S(k, a) - q * S(k, b)

\* The one quotient that has no representation: the processor traps, or the
\* compiler's code wraps around.
Overflows(k, a, b) == S(k, a) = SmallestInt(k) /\ S(k, b) = -1

divide(name, k) ==
    /\ Checked(TagsOf(k) \o TagsOf(k))
    /\ op' = <<name, k>>
    /\ Spend(OtherCost)
    /\ LET a == Read(k, First(k))
           b == Read(k, Second(k))
       IN  IF b = 0 THEN Abort
           ELSE \/ Binary(k, DivisionResult(name, k, a, b))
                \/ /\ Overflows(k, a, b)
                   /\ vm' = "undefined"
                   /\ UNCHANGED <<mem, optop, local, heap, branch, history>>

ShiftResultSigned(name, k, a, n) ==
    CASE name = "shl" -> ShiftLeft(k, a, n)
      [] name = "shr" -> ShiftRight(S(k, a), n)
      [] name = "ushr" -> ShiftRight(S(k, a), n)

ShiftResult(name, k, a, n) ==
    CASE name = "shl" -> ShiftLeft(k, a, n)
      [] name = "shr" -> ShiftRight(S(k, a), n)
      [] name = "ushr" -> ShiftRight(a, n)

\* The distance is the word on top, the operand lies below it.
shift(name, k) ==
    /\ Checked(TagsOf(k) \o <<"int">>)
    /\ op' = <<name, k>>
    /\ Spend(OtherCost)
    /\ LET p == optop - WordsOf(k)
           result == ShiftResult(name, k, Read(k, p), Distance(k, mem[optop]))
       IN  Replace(WordsOf(k) + 1, Write(k, p, result), TagsOf(k))

negate(k) ==
    /\ Checked(TagsOf(k))
    /\ op' = <<"neg", k>>
    /\ Spend(OtherCost)
    /\ Replace(WordsOf(k), Write(k, Second(k), - S(k, Read(k, Second(k)))), TagsOf(k))

iinc ==
    /\ vm = "running"
    /\ op' = <<"iinc">>
    /\ Low
    /\ Spend(CheapCost)
    /\ \E d \in Increments : local' = U(Four, S(Four, local) + d)
    /\ UNCHANGED <<vm, mem, optop, heap, branch, history>>

----------------------------------------------------------------------------
(* Conversions and comparisons. *)

i2lZeroExtended ==
    /\ Checked(<<"int">>)
    /\ optop + 1 <= StackWords
    /\ op' = <<"i2l">>
    /\ Spend(OtherCost)
    /\ Replace(1, Write(Eight, optop, mem[optop]), <<"low", "high">>)

\* Writes eight bytes over the four of the operand.
i2l ==
    /\ Checked(<<"int">>)
    /\ optop + 1 <= StackWords
    /\ op' = <<"i2l">>
    /\ Spend(OtherCost)
    /\ Replace(1, Write(Eight, optop, S(Four, mem[optop])), <<"low", "high">>)

\* The word with the low bytes is already where the result belongs.
l2i ==
    /\ Checked(<<"low", "high">>)
    /\ op' = <<"l2i">>
    /\ Spend(OtherCost)
    /\ Replace(2, mem, <<"int">>)

Narrowed(name, v) ==
    CASE name = "int2byte" -> S(One, v)
      [] name = "int2char" -> U(Two, v)
      [] name = "int2short" -> S(Two, v)

narrow(name) ==
    /\ Checked(<<"int">>)
    /\ op' = <<name>>
    /\ Spend(OtherCost)
    /\ Replace(1, Write(Four, optop, Narrowed(name, mem[optop])), <<"int">>)

lcmp ==
    /\ Checked(<<"low", "high", "low", "high">>)
    /\ op' = <<"lcmp">>
    /\ Spend(OtherCost)
    /\ LET a == S(Eight, Read(Eight, First(Eight)))
           b == S(Eight, Read(Eight, Second(Eight)))
           result == IF a > b THEN 1 ELSE IF a < b THEN -1 ELSE 0
       IN  Replace(4, Write(Four, optop - 3, result), <<"int">>)

\* Equality is decided on unsigned words, order on signed ones.
Holds(condition, a, b) ==
    CASE condition = "eq" -> a = b
      [] condition = "ne" -> a # b
      [] condition = "lt" -> S(Four, a) < S(Four, b)
      [] condition = "ge" -> S(Four, a) >= S(Four, b)
      [] condition = "gt" -> S(Four, a) > S(Four, b)
      [] condition = "le" -> S(Four, a) <= S(Four, b)

\* if<cond> compares the top with 0, if_icmp<cond> two operands.
if(name, condition) ==
    /\ Checked(IF name = "if" THEN <<"int">> ELSE <<"int", "int">>)
    /\ op' = <<name, condition>>
    /\ Spend(OtherCost)
    /\ branch' = IF name = "if" THEN Holds(condition, mem[optop], 0)
                 ELSE Holds(condition, mem[optop - 1], mem[optop])
    /\ LET n == IF name = "if" THEN 1 ELSE 2
       IN  optop' = optop - n /\ Retag(n, << >>)
    /\ UNCHANGED <<vm, mem, local, heap, types, kept>>

----------------------------------------------------------------------------
(* Arrays. *)

\* type_size in newarray, and the width of the C type an element is read and
\* written with.
TypeSize(t) ==
    CASE t \in {"T_BOOLEAN", "T_BYTE", "T_CHAR"} -> One
      [] t = "T_SHORT" -> Two [] t = "T_INT" -> Four [] t = "T_LONG" -> Eight
WidthOfJava(t) ==
    CASE t \in {"T_BOOLEAN", "T_BYTE"} -> One
      [] t \in {"T_CHAR", "T_SHORT"} -> Two [] t = "T_INT" -> Four [] t = "T_LONG" -> Eight
Width(t) ==
    CASE t \in {"T_BOOLEAN", "T_BYTE", "T_CHAR"} -> One
      [] t = "T_SHORT" -> Two [] t = "T_INT" -> Four [] t = "T_LONG" -> Eight

\* The k bytes of element i in a block, lowest first, as one number.
ElementAt(block, k, i) ==
    LET number[n \in 0 .. k] ==
            IF n = 0 THEN 0
            ELSE number[n - 1] + block[k * i + n] * Values(n - 1)
    IN  number[k]
WithElement(block, k, i, v) ==
    [b \in DOMAIN block |->
        IF b \in k * i + 1 .. k * i + k
        THEN (v \div Values(b - k * i - 1)) % Values(One) ELSE block[b]]

Outside(block, k, i) == k * i + k > Len(block)

\* The size is compared with 0 as an unsigned word: a negative one is a large
\* one, and left to calloc.
newarray(t) ==
    /\ Checked(<<"int">>)
    /\ op' = <<"newarray">>
    /\ Low
    /\ Spend(CheapCost)
    /\ LET n == mem[optop]
           a == Len(heap) + 1
       IN  IF Len(heap) = MaxArrays \/ n * TypeSize(t) > HeapBytes THEN Abort
           ELSE /\ heap' = Append(heap, [length |-> n,
                                         arr |-> [b \in 1 .. n * TypeSize(t) |-> 0]])
                /\ mem' = [mem EXCEPT ![optop] = a]
                /\ Retag(1, <<t>>)
                /\ types' = Append(types, t)
                /\ kept' = Append(kept, [i \in 1 .. n |-> 0])
                /\ UNCHANGED <<vm, optop, local, branch>>

arraylength(t) ==
    /\ Checked(<<t>>)
    /\ op' = <<"arraylength">>
    /\ Spend(CheapCost)
    /\ IF mem[optop] = NullAddress THEN Abort
       ELSE Replace(1, [mem EXCEPT ![optop] = heap[@].length], <<"int">>)

\* NullPointerException and ArrayIndexOutOfBoundsException; the index is an
\* unsigned word, so that a negative one is beyond every length.
NoElementSigned(a, i) == a = NullAddress \/ S(Four, i) >= heap[a].length
NoElement(a, i) == a = NullAddress \/ i >= heap[a].length

Wild == vm' = "undefined" /\ UNCHANGED <<mem, optop, local, heap, branch, history>>

ElementTags(t) == IF t = "T_LONG" THEN <<"low", "high">> ELSE <<"int">>

load(t) ==
    /\ Checked(<<t, "int">>)
    /\ op' = <<"load", t>>
    /\ Spend(CheapCost)
    /\ LET a == mem[optop - 1]
           i == mem[optop]
       IN  IF NoElement(a, i) THEN Abort
           ELSE IF Outside(heap[a].arr, Width(t), i) THEN Wild
           ELSE Replace(2, Write(Four * Len(ElementTags(t)), optop - 1,
                                 ElementAt(heap[a].arr, Width(t), i)),
                        ElementTags(t))

\* What Java keeps of a value it stores in an array of type t.
JavaKeeps(t, v) ==
    CASE t = "T_BOOLEAN" -> U(One, v)
      [] t = "T_BYTE" -> S(One, v)
      [] t = "T_CHAR" -> U(Two, v)
      [] t = "T_SHORT" -> S(Two, v)
      [] OTHER -> v

store(t) ==
    /\ Checked(<<t, "int">> \o ElementTags(t))
    /\ op' = <<"store", t>>
    /\ Spend(CheapCost)
    /\ LET k == Four * Len(ElementTags(t))
           a == mem[optop - 1 - WordsOf(k)]
           i == mem[optop - WordsOf(k)]
           v == Read(k, Second(k))
       IN  IF NoElement(a, i) THEN Abort
           ELSE IF Outside(heap[a].arr, Width(t), i) THEN Wild
           ELSE /\ heap' = [heap EXCEPT ![a].arr = WithElement(@, Width(t), i, v)]
                /\ kept' = [kept EXCEPT ![a][i + 1] = JavaKeeps(t, S(k, v))]
                /\ optop' = optop - 2 - WordsOf(k)
                /\ Retag(2 + WordsOf(k), << >>)
                /\ UNCHANGED <<vm, mem, local, branch, types>>

----------------------------------------------------------------------------

Execute ==
    \/ Constant \/ istore \/ swap \/ iinc \/ i2l \/ l2i \/ lcmp
    \/ \E w \in 1 .. 2 : pop(w)
    \/ \E n \in 1 .. 2, m \in 0 .. 2 : dup(n, m)
    \/ \E k \in {Four, Eight} :
          \/ \E name \in {"add", "sub", "mul", "and", "or", "xor"} : calculate(name, k)
          \/ \E name \in {"div", "rem"} : divide(name, k)
          \/ \E name \in {"shl", "shr", "ushr"} : shift(name, k)
          \/ negate(k)
    \/ \E name \in {"int2byte", "int2char", "int2short"} : narrow(name)
    \/ \E name \in {"if", "if_icmp"}, condition \in {"eq", "ne", "lt", "ge", "gt", "le"} :
          if(name, condition)
    \/ \E t \in Types : newarray(t) \/ arraylength(t) \/ load(t) \/ store(t)

\* A bound is reached, or the process has ended.
Rest ==
    /\ left = 0 \/ optop >= ConstantWords \/ vm # "running"
    /\ UNCHANGED vars

Next == Execute \/ Rest

Spec == Init /\ [][Next]_vars

----------------------------------------------------------------------------
(* Correctness. *)

WordValues == 0 .. Values(Four) - 1
Block == [length : WordValues, arr : Seq(0 .. Values(One) - 1)]
Tags == {"int", "low", "high"} \cup Types

\* Every variable has its type; optop is where the type checker expects the
\* top, and the two words of a long stand together.
TypeOK ==
    /\ vm \in {"running", "aborted", "undefined"}
    /\ mem \in [1 .. StackWords -> WordValues]
    /\ optop \in 0 .. StackWords
    /\ local \in WordValues
    /\ branch \in BOOLEAN
    /\ left \in 0 .. Budget
    /\ heap \in Seq(Block) /\ Len(heap) <= MaxArrays
    /\ types \in Seq(Types) /\ Len(types) = Len(heap)
    /\ kept \in Seq(Seq(Int)) /\ Len(kept) = Len(heap)
    /\ \A a \in DOMAIN heap : Len(kept[a]) = heap[a].length
    /\ tags \in Seq(Tags) /\ Len(tags) = optop
    /\ \A p \in 1 .. optop :
          /\ tags[p] = "low" => p < optop /\ tags[p + 1] = "high"
          /\ tags[p] = "high" => p > 1 /\ tags[p - 1] = "low"

RefersTo(t, a) == a = NullAddress \/ (a \in DOMAIN heap /\ types[a] = t)

\* A word that the type checker takes for a reference is the null address or
\* that of an array of this type, whatever copies and exchanges came before.
\* The code dereferences it without a look.
ReferencesRight == \A p \in 1 .. optop : tags[p] \in Types => RefersTo(tags[p], mem[p])

\* Creation and access decide about the width of an element separately, from
\* the operand of newarray and from the opcode: each block is as long as its
\* elements are together, so that no access leaves it.
BlocksFit ==
    \A a \in DOMAIN heap :
        /\ Len(heap[a].arr) = heap[a].length * Width(types[a])
        /\ 2 * heap[a].length < Values(Four)

\* The process loses control only in the one division C leaves undefined: no
\* array access reaches beyond a block, not even with a negative index.
UndefinedOnlyInDivision ==
    vm = "undefined" =>
        \E name \in {"div", "rem"}, k \in {Four, Eight} :
            op = <<name, k>> /\ Overflows(k, Read(k, First(k)), Read(k, Second(k)))

\* What the words and blocks stand for.  First the value whose first word is p,
\* and the values of a stack; a high word begins none.
ValueAt(ts, words, p) ==
    CASE ts[p] = "int" -> [kind |-> "int", v |-> S(Four, words[p])]
      [] ts[p] = "low" ->
           [kind |-> "long", v |-> S(Eight, words[p] + Values(Four) * words[p + 1])]
      [] OTHER -> [kind |-> ts[p], v |-> words[p]]
ValuesIn(ts, words) ==
    LET read[n \in 0 .. Len(ts)] ==
            IF n = 0 THEN << >>
            ELSE IF ts[n] = "high" THEN read[n - 1]
            ELSE Append(read[n - 1], ValueAt(ts, words, n))
    IN  read[Len(ts)]

\* An element of an array as Java sees it.
Element(a, i) ==
    LET k == Width(types[a])
        number == ElementAt(heap[a].arr, k, i)
    IN  IF k \in {Four, Eight} THEN S(k, number) ELSE number

JavaStack == ValuesIn(tags, mem)
JavaLocal == S(Four, local)
JavaArrays ==
    [a \in 1 .. Len(heap) |->
        [type |-> types[a],
         elements |-> [i \in 1 .. heap[a].length |-> Element(a, i - 1)]]]

Java == INSTANCE JavaValues
           WITH stack <- JavaStack, local <- JavaLocal, arrays <- JavaArrays

\* The words, read by what the type checker knows, are Java's values, and the
\* blocks of bytes are arrays of integers; every instruction does to them
\* what it promises, for both widths and through every copy of a word.
ImplementsJavaValues == Java!Spec

OnTop(k) == S(k, Read(k, Second(k)))

\* "All primitive type, single-dimension array operations" are supported: the
\* number a load of a byte or a short leaves is the one Java would have kept.
ElementsReadBack ==
    [][\A t \in {"T_BYTE", "T_SHORT"} :
          load(t) /\ vm' = "running" =>
              OnTop(Four * Len(ElementTags(t)))' = kept[mem[optop - 1]][mem[optop] + 1]]_vars

============================================================================
