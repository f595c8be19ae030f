----------------------------- MODULE MCNatives -----------------------------
(***************************************************************************)
(* A program for Interpreter without any static constructor, whose main    *)
(* prints an int with a native method of another class or not and then, if *)
(* it goes on, the long that a method of its own printed and returned.     *)
(***************************************************************************)
EXTENDS Interpreter, TLC

Main == 101
Printer == 102
MCClasses == {Main, Printer}
MCFields == {}
MCFieldWords == [f \in MCFields |-> 0]

Method(name, nargs, ret, locals, code, native) ==
    [name |-> name, nargs |-> nargs, ret |-> ret, locals |-> locals,
     code |-> code, native |-> native]

MCMethodsOf ==
    (Main :> << Method("main", 1, 0, 1, 1000, "no"),
                Method("other", 1, 2, 2, 1100, "no") >>) @@
    (Printer :> << Method("other", 1, 0, 0, 0, "println"),
                   Method("other", 2, 0, 0, 0, "println") >>)

\* println(I)V, println(J)V and Main.twice(I)J
MCPoolOf ==
    [k \in MCClasses |-> << [class |-> Printer, member |-> 1],
                            [class |-> Printer, member |-> 2],
                            [class |-> Main, member |-> 2] >>]

Instr(op, len, pops, pushes, arg) ==
    [op |-> op, len |-> len, pops |-> pops, pushes |-> pushes, arg |-> arg,
     targets |-> {}, traps |-> FALSE]

Jump(n, ts) == [Instr("branch", 3, n, 0, 0) EXCEPT !.targets = ts]

\* address, owner, depth and instruction
Listing == {
    <<1000, <<Main, 1>>, 0, Instr("const", 1, 0, 1, 0)>>,
    <<1001, <<Main, 1>>, 1, Jump(1, {1004, 1020})>>,
    <<1004, <<Main, 1>>, 0, Instr("const", 1, 0, 1, 0)>>,
    <<1005, <<Main, 1>>, 1, Instr("invokestatic", 3, 1, 0, 1)>>,
    <<1008, <<Main, 1>>, 0, Jump(0, {1020, 1027})>>,
    <<1020, <<Main, 1>>, 0, Instr("const", 1, 0, 1, 0)>>,
    <<1021, <<Main, 1>>, 1, Instr("invokestatic", 3, 1, 2, 3)>>,
    <<1024, <<Main, 1>>, 2, Instr("invokestatic", 3, 2, 0, 2)>>,
    <<1027, <<Main, 1>>, 0, Instr("return", 1, 0, 0, 0)>>,
    <<1100, <<Main, 2>>, 0, Instr("load", 1, 0, 1, 0)>>,
    <<1101, <<Main, 2>>, 1, Instr("store", 1, 1, 0, 1)>>,
    <<1102, <<Main, 2>>, 0, Instr("load", 1, 0, 2, 0)>>,
    <<1103, <<Main, 2>>, 2, Instr("invokestatic", 3, 2, 0, 2)>>,
    <<1106, <<Main, 2>>, 0, Instr("load", 1, 0, 2, 0)>>,
    <<1107, <<Main, 2>>, 2, Instr("return", 1, 2, 0, 0)>> }

MCAddresses == {l[1] : l \in Listing}
At(a) == CHOOSE l \in Listing : l[1] = a
MCCode == [a \in MCAddresses |-> At(a)[4]]
MCOwner == [a \in MCAddresses |-> At(a)[2]]
MCDepth == [a \in MCAddresses |-> At(a)[3]]
MCData == {0, 1, 2}

============================================================================
