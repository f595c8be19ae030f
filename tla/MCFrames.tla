------------------------------ MODULE MCFrames ------------------------------
(***************************************************************************)
(* A program of three classes for Interpreter.  Main switches to one of    *)
(* several endings.  A and B need each other's constructor; A.f is called  *)
(* with a long on top of another operand, both before and while A is       *)
(* being initialized; Main.rec calls itself while it is told to.           *)
(***************************************************************************)
EXTENDS Interpreter, TLC

Main == 101
A == 102
B == 103
Missing == 104
MCClasses == {Main, A, B}

Ax == 1    \* a long
By == 2    \* an int
Ao == 3    \* a reference to an object
MCFields == {Ax, By, Ao}
MCFieldWords == (Ax :> 2) @@ (By :> 1) @@ (Ao :> 0)

Method(name, nargs, ret, locals, code, native) ==
    [name |-> name, nargs |-> nargs, ret |-> ret, locals |-> locals,
     code |-> code, native |-> native]

MCMethodsOf ==
    (Main :> << Method("main", 1, 0, 2, 1000, "no"),
                Method("other", 1, 1, 1, 1100, "no"),
                Method("<clinit>", 0, 0, 0, 1300, "no") >>) @@
    (A :> << Method("other", 2, 1, 3, 1200, "no"),
             Method("<clinit>", 0, 0, 0, 1250, "no") >>) @@
    (B :> << Method("<clinit>", 0, 0, 0, 1280, "no"),
             Method("other", 0, 0, 0, 0, "unsupported") >>)

To(k, m) == [class |-> k, member |-> m]

\* Every class has the same pool.
MCPoolOf ==
    [k \in MCClasses |->
        << To(A, 1), To(A, Ax), To(B, By), To(Main, 2),   \* A.f A.x B.y Main.rec
           To(A, 0), To(Missing, 1), To(A, Ao), To(B, 2) >>]

Instr(op, len, pops, pushes, arg) ==
    [op |-> op, len |-> len, pops |-> pops, pushes |-> pushes, arg |-> arg,
     targets |-> {}, traps |-> FALSE]
Const(n) == Instr("const", 1, 0, n, 0)
Drop(n) == Instr("pop", 1, n, 0, 0)
LoadWords(n, v) == Instr("load", 2, 0, n, v)
StoreWords(n, v) == Instr("store", 2, n, 0, v)
Jump(n, ts) == [Instr("branch", 3, n, 0, 0) EXCEPT !.targets = ts]
Get(n, r) == Instr("getstatic", 3, 0, n, r)
Put(n, r) == Instr("putstatic", 3, n, 0, r)
Invoke(n, m, r) == Instr("invokestatic", 3, n, m, r)
Ret(n) == Instr("return", 1, n, 0, 0)

\* address, owner, depth and instruction
Listing == {
    <<1000, <<Main, 1>>, 0, Const(1)>>,
    <<1001, <<Main, 1>>, 1, Jump(1, {1010, 1030, 1040, 1044, 1050, 1060, 1070, 1080})>>,
    <<1010, <<Main, 1>>, 0, Const(1)>>,               \* y = x + A.f(long)
    <<1011, <<Main, 1>>, 1, Const(2)>>,
    <<1012, <<Main, 1>>, 3, Invoke(2, 1, 1)>>,
    <<1015, <<Main, 1>>, 2, Instr("operate", 1, 2, 1, 0)>>,
    <<1016, <<Main, 1>>, 1, [StoreWords(1, 1) EXCEPT !.len = 1]>>,
    <<1017, <<Main, 1>>, 0, Instr("iinc", 1, 0, 0, 1)>>,
    <<1018, <<Main, 1>>, 0, LoadWords(1, 1)>>,
    <<1020, <<Main, 1>>, 1, Put(1, 3)>>,
    <<1023, <<Main, 1>>, 0, Ret(0)>>,
    <<1030, <<Main, 1>>, 0, Const(1)>>,               \* rec
    <<1031, <<Main, 1>>, 1, Invoke(1, 1, 4)>>,
    <<1034, <<Main, 1>>, 1, Drop(1)>>,
    <<1035, <<Main, 1>>, 0, Ret(0)>>,
    <<1040, <<Main, 1>>, 0, Invoke(0, 0, 5)>>,        \* no such method
    <<1043, <<Main, 1>>, 0, Ret(0)>>,
    <<1044, <<Main, 1>>, 0, Invoke(0, 0, 6)>>,        \* no such class
    <<1047, <<Main, 1>>, 0, Ret(0)>>,
    <<1050, <<Main, 1>>, 0, Get(0, 7)>>,              \* an object
    <<1053, <<Main, 1>>, 0, Ret(0)>>,
    <<1060, <<Main, 1>>, 0, Instr("not_sup", 1, 0, 0, 0)>>,
    <<1070, <<Main, 1>>, 0, Invoke(0, 0, 8)>>,        \* a native method
    <<1073, <<Main, 1>>, 0, Ret(0)>>,
    <<1080, <<Main, 1>>, 0, Const(2)>>,               \* a division
    <<1081, <<Main, 1>>, 2, [Instr("operate", 1, 2, 1, 0) EXCEPT !.traps = TRUE]>>,
    <<1082, <<Main, 1>>, 1, Drop(1)>>,
    <<1083, <<Main, 1>>, 0, Ret(0)>>,
    <<1100, <<Main, 2>>, 0, LoadWords(1, 0)>>,
    <<1102, <<Main, 2>>, 1, Jump(1, {1105, 1111})>>,
    <<1105, <<Main, 2>>, 0, LoadWords(1, 0)>>,
    <<1107, <<Main, 2>>, 1, Invoke(1, 1, 4)>>,
    <<1110, <<Main, 2>>, 1, Ret(1)>>,
    <<1111, <<Main, 2>>, 0, Const(1)>>,
    <<1112, <<Main, 2>>, 1, Ret(1)>>,
    <<1200, <<A, 1>>, 0, LoadWords(2, 0)>>,
    <<1202, <<A, 1>>, 2, StoreWords(2, 1)>>,
    <<1204, <<A, 1>>, 0, Get(2, 2)>>,
    <<1207, <<A, 1>>, 2, Drop(2)>>,
    <<1208, <<A, 1>>, 0, LoadWords(1, 2)>>,
    <<1210, <<A, 1>>, 1, Ret(1)>>,
    <<1250, <<A, 2>>, 0, Get(1, 3)>>,
    <<1253, <<A, 2>>, 1, Drop(1)>>,
    <<1254, <<A, 2>>, 0, Const(2)>>,
    <<1255, <<A, 2>>, 2, Put(2, 2)>>,
    <<1258, <<A, 2>>, 0, Ret(0)>>,
    <<1280, <<B, 1>>, 0, Const(2)>>,
    <<1281, <<B, 1>>, 2, Invoke(2, 1, 1)>>,
    <<1284, <<B, 1>>, 1, Put(1, 3)>>,
    <<1287, <<B, 1>>, 0, Ret(0)>>,
    <<1300, <<Main, 3>>, 0, Const(1)>>,
    <<1301, <<Main, 3>>, 1, Drop(1)>>,
    <<1302, <<Main, 3>>, 0, Ret(0)>> }

MCAddresses == {l[1] : l \in Listing}
At(a) == CHOOSE l \in Listing : l[1] = a
MCCode == [a \in MCAddresses |-> At(a)[4]]
MCOwner == [a \in MCAddresses |-> At(a)[2]]
MCDepth == [a \in MCAddresses |-> At(a)[3]]
MCData == {0, 1}

============================================================================
