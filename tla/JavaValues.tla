----------------------------- MODULE JavaValues -----------------------------
(***************************************************************************)
(* What the arithmetic, stack and array instructions of core.c promise: a  *)
(* stack of whole Java values, integers of two ranges and references, and  *)
(* arrays of integers.  There are no words, bytes and addresses here.      *)
(*                                                                         *)
(* Two promises are weaker than Java's.  Dividing the smallest integer by  *)
(* -1 is undefined in C.  Arrays of boolean, byte, char and short keep the *)
(* low bits of a value and give them back without a sign (Kept).           *)
(***************************************************************************)
EXTENDS Words, Sequences

CONSTANTS
    IntLiterals,    \* the constants of the program
    LongLiterals,
    ArrayLiterals,
    Increments      \* the second operands of iinc

VARIABLES
    vm,        \* "running", "aborted" or "undefined"
    stack,     \* the operands, bottom first
    local,     \* a local variable of type int
    arrays,    \* every array that was created: its type and elements
    branch,    \* whether the last comparison branched
    op         \* the instruction executed last: <<"add", Four>> is iadd

vars == <<vm, stack, local, arrays, branch, op>>

Kinds == [k \in {Four, Eight} |-> IF k = Four THEN "int" ELSE "long"]
Types == {"T_BOOLEAN", "T_CHAR", "T_BYTE", "T_SHORT", "T_INT", "T_LONG"}

Value(kind, v) == [kind |-> kind, v |-> v]
Integer(k, v) == Value(Kinds[k], S(k, v))
Null == 0

\* Words a value takes: the instructions dup to swap are defined by them.
Size(value) == IF value.kind = "long" THEN 2 ELSE 1
Sizes(s) ==
    LET total[i \in 0 .. Len(s)] == IF i = 0 THEN 0 ELSE total[i - 1] + Size(s[i])
    IN  total[Len(s)]

Below(n) == SubSeq(stack, 1, Len(stack) - n)
Top(i) == stack[Len(stack) + 1 - i].v       \* the i-th from the top

\* The kinds on top of the stack; the program was type checked.
Operands(kinds) ==
    /\ vm = "running"
    /\ Len(kinds) <= Len(stack)
    /\ \A i \in DOMAIN kinds : stack[Len(stack) - Len(kinds) + i].kind = kinds[i]

\* n operands are replaced by the values new.
Replace(n, new) ==
    /\ stack' = Below(n) \o new
    /\ UNCHANGED <<vm, local, arrays, branch>>

Abort == vm' = "aborted" /\ UNCHANGED <<stack, local, arrays, branch>>
Undefined == vm' = "undefined" /\ UNCHANGED <<stack, local, arrays, branch>>

----------------------------------------------------------------------------

Init ==
    /\ vm = "running"
    /\ stack = << >>
    /\ local = 0
    /\ arrays = << >>
    /\ branch = FALSE
    /\ op = << >>

Constant ==
    /\ Operands(<< >>)
    /\ \/ \E v \in IntLiterals \cup ArrayLiterals : op' = <<"const", Four>> /\ Replace(0, <<Integer(Four, v)>>)
       \/ \E v \in LongLiterals : op' = <<"const", Eight>> /\ Replace(0, <<Integer(Eight, v)>>)
       \/ \E t \in Types : op' = <<"null", t>> /\ Replace(0, <<Value(t, Null)>>)
       \/ op' = <<"iload">> /\ Replace(0, <<Value("int", local)>>)
       \/ \E a \in DOMAIN arrays :
             op' = <<"aload">> /\ Replace(0, <<Value(arrays[a].type, a)>>)

\* pop and pop2 drop values of one and of two words.
Drop(w) ==
    /\ Operands(<< >>)
    /\ op' = <<"pop", w>>
    /\ \E n \in 1 .. Len(stack) :
          Sizes(SubSeq(stack, Len(stack) - n + 1, Len(stack))) = w /\ Replace(n, << >>)

Keep ==
    /\ Operands(<<"int">>)
    /\ op' = <<"istore">>
    /\ local' = Top(1)
    /\ stack' = Below(1)
    /\ UNCHANGED <<vm, arrays, branch>>

\* dup to dup2_x2: values of n words are copied below values of m words.
Copy(n, m) ==
    /\ Operands(<< >>)
    /\ op' = <<"dup", n, m>>
    /\ \E i, j \in 0 .. Len(stack) :
          LET top == SubSeq(stack, Len(stack) - i + 1, Len(stack))
              middle == SubSeq(stack, Len(stack) - i - j + 1, Len(stack) - i)
          IN  /\ i + j <= Len(stack)
              /\ Sizes(top) = n
              /\ Sizes(middle) = m
              /\ Replace(i + j, top \o middle \o top)

Swap ==
    /\ Operands(<< >>)
    /\ op' = <<"swap">>
    /\ Len(stack) >= 2
    /\ LET a == stack[Len(stack) - 1]
           b == stack[Len(stack)]
       IN  /\ Size(a) = 1 /\ Size(b) = 1
           /\ Replace(2, <<b, a>>)

----------------------------------------------------------------------------
(* Arithmetic on integers of k bytes, which wraps around. *)

Calculated(name, k, a, b) ==
    CASE name = "add" -> a + b
      [] name = "sub" -> a - b
      [] name = "mul" -> a * b
      [] name = "and" -> And(k, U(k, a), U(k, b))
      [] name = "or" -> Or(k, U(k, a), U(k, b))
      [] name = "xor" -> Xor(k, U(k, a), U(k, b))

Calculate(name, k) ==
    /\ Operands(<<Kinds[k], Kinds[k]>>)
    /\ op' = <<name, k>>
    /\ Replace(2, <<Integer(k, Calculated(name, k, Top(2), Top(1)))>>)

\* The quotient of the magnitudes with the sign of a / b, and the remainder
\* with the sign of a.
Divided(name, a, b) ==
    CASE name = "div" ->
           (Magnitude(a) \div Magnitude(b)) * (IF (a < 0) = (b < 0) THEN 1 ELSE -1)
      [] name = "rem" -> (Magnitude(a) % Magnitude(b)) * (IF a < 0 THEN -1 ELSE 1)

Divide(name, k) ==
    /\ Operands(<<Kinds[k], Kinds[k]>>)
    /\ op' = <<name, k>>
    /\ LET a == Top(2)
           b == Top(1)
       IN  \/ b = 0 /\ Abort
           \/ b # 0 /\ Replace(2, <<Integer(k, Divided(name, a, b))>>)
           \/ a = SmallestInt(k) /\ b = -1 /\ Undefined

Shifted(name, k, a, n) ==
    CASE name = "shl" -> a * 2 ^ n
      [] name = "shr" -> a \div 2 ^ n
      [] name = "ushr" -> U(k, a) \div 2 ^ n

Shift(name, k) ==
    /\ Operands(<<Kinds[k], "int">>)
    /\ op' = <<name, k>>
    /\ Replace(2, <<Integer(k, Shifted(name, k, Top(2), Top(1) % Bits(k)))>>)

Negate(k) ==
    /\ Operands(<<Kinds[k]>>)
    /\ op' = <<"neg", k>>
    /\ Replace(1, <<Integer(k, - Top(1))>>)

Increment ==
    /\ Operands(<< >>)
    /\ op' = <<"iinc">>
    /\ \E d \in Increments : local' = S(Four, local + d)
    /\ UNCHANGED <<vm, stack, arrays, branch>>

Converted(name, v) ==
    CASE name = "i2l" -> Value("long", v)
      [] name = "l2i" -> Integer(Four, v)
      [] name = "int2byte" -> Value("int", S(One, v))
      [] name = "int2char" -> Value("int", U(Two, v))
      [] name = "int2short" -> Value("int", S(Two, v))

Convert(name) ==
    /\ Operands(<<IF name = "l2i" THEN "long" ELSE "int">>)
    /\ op' = <<name>>
    /\ Replace(1, <<Converted(name, Top(1))>>)

Compare ==
    /\ Operands(<<"long", "long">>)
    /\ op' = <<"lcmp">>
    /\ Replace(2, <<Value("int", IF Top(2) > Top(1) THEN 1
                                 ELSE IF Top(2) < Top(1) THEN -1 ELSE 0)>>)

Holds(condition, a, b) ==
    CASE condition = "eq" -> a = b [] condition = "ne" -> a # b
      [] condition = "lt" -> a < b [] condition = "ge" -> a >= b
      [] condition = "gt" -> a > b [] condition = "le" -> a <= b

Branch(condition) ==
    \/ /\ Operands(<<"int">>)
       /\ op' = <<"if", condition>>
       /\ branch' = Holds(condition, Top(1), 0)
       /\ stack' = Below(1)
       /\ UNCHANGED <<vm, local, arrays>>
    \/ /\ Operands(<<"int", "int">>)
       /\ op' = <<"if_icmp", condition>>
       /\ branch' = Holds(condition, Top(2), Top(1))
       /\ stack' = Below(2)
       /\ UNCHANGED <<vm, local, arrays>>

----------------------------------------------------------------------------
(* Arrays. *)

\* The kind of the elements of an array when they are on the stack, and what
\* remains of a value that was stored in it.
ElementBytes(t) ==
    CASE t = "T_LONG" -> Eight [] t = "T_INT" -> Four
      [] t = "T_SHORT" -> Two [] OTHER -> One
ElementKind(t) == IF t = "T_LONG" THEN "long" ELSE "int"
Kept(t, v) ==
    IF t \in {"T_INT", "T_LONG"} THEN v ELSE U(ElementBytes(t), v)

newarray ==
    /\ Operands(<<"int">>)
    /\ op' = <<"newarray">>
    /\ \/ Abort       \* a negative size, or no memory
       \/ /\ Top(1) >= 0
          /\ \E t \in Types :
                /\ arrays' = Append(arrays, [type |-> t, elements |-> [i \in 1 .. Top(1) |-> 0]])
                /\ stack' = Append(Below(1), Value(t, Len(arrays) + 1))
          /\ UNCHANGED <<vm, local, branch>>

arraylength(t) ==
    /\ Operands(<<t>>)
    /\ op' = <<"arraylength">>
    /\ IF Top(1) = Null THEN Abort
       ELSE Replace(1, <<Value("int", Len(arrays[Top(1)].elements))>>)

\* The null reference and every index outside the array are reported.
NoElement(a, i) == a = Null \/ i < 0 \/ i >= Len(arrays[a].elements)

load(t) ==
    /\ Operands(<<t, "int">>)
    /\ op' = <<"load", t>>
    /\ IF NoElement(Top(2), Top(1)) THEN Abort
       ELSE Replace(2, <<Value(ElementKind(t), arrays[Top(2)].elements[Top(1) + 1])>>)

store(t) ==
    /\ Operands(<<t, "int", ElementKind(t)>>)
    /\ op' = <<"store", t>>
    /\ IF NoElement(Top(3), Top(2)) THEN Abort
       ELSE /\ arrays' = [arrays EXCEPT ![Top(3)].elements[Top(2) + 1] = Kept(t, Top(1))]
            /\ stack' = Below(3)
            /\ UNCHANGED <<vm, local, branch>>

Next ==
    \/ Constant \/ Keep \/ Swap \/ Increment \/ Compare \/ newarray
    \/ \E w \in 1 .. 2 : Drop(w)
    \/ \E n \in 1 .. 2, m \in 0 .. 2 : Copy(n, m)
    \/ \E k \in {Four, Eight} :
          \/ \E name \in {"add", "sub", "mul", "and", "or", "xor"} : Calculate(name, k)
          \/ \E name \in {"div", "rem"} : Divide(name, k)
          \/ \E name \in {"shl", "shr", "ushr"} : Shift(name, k)
          \/ Negate(k)
    \/ \E name \in {"i2l", "l2i", "int2byte", "int2char", "int2short"} : Convert(name)
    \/ \E condition \in {"eq", "ne", "lt", "ge", "gt", "le"} : Branch(condition)
    \/ \E t \in Types : arraylength(t) \/ load(t) \/ store(t)

Spec == Init /\ [][Next]_vars

============================================================================
