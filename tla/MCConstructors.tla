--------------------------- MODULE MCConstructors ---------------------------
(***************************************************************************)
(* A program for Interpreter in which only the main class has a static     *)
(* constructor: main calls the one static method of another class, which   *)
(* declares none.                                                          *)
(***************************************************************************)
EXTENDS Interpreter, TLC

Main == 101
Helper == 102
MCClasses == {Main, Helper}
MCFields == {}
MCFieldWords == [f \in MCFields |-> 0]

Method(name, nargs, ret, locals, code) ==
    [name |-> name, nargs |-> nargs, ret |-> ret, locals |-> locals,
     code |-> code, native |-> "no"]

MCMethodsOf ==
    (Main :> << Method("main", 1, 0, 1, 1000), Method("<clinit>", 0, 0, 0, 1300) >>) @@
    (Helper :> << Method("other", 1, 1, 1, 1200) >>)

MCPoolOf == [k \in MCClasses |-> << [class |-> Helper, member |-> 1] >>]

Instr(op, len, pops, pushes, arg) ==
    [op |-> op, len |-> len, pops |-> pops, pushes |-> pushes, arg |-> arg,
     targets |-> {}, traps |-> FALSE]

\* address, owner, depth and instruction
Listing == {
    <<1000, <<Main, 1>>, 0, Instr("const", 1, 0, 1, 0)>>,
    <<1001, <<Main, 1>>, 1, Instr("invokestatic", 3, 1, 1, 1)>>,
    <<1004, <<Main, 1>>, 1, Instr("pop", 1, 1, 0, 0)>>,
    <<1005, <<Main, 1>>, 0, Instr("return", 1, 0, 0, 0)>>,
    <<1200, <<Helper, 1>>, 0, Instr("load", 1, 0, 1, 0)>>,
    <<1201, <<Helper, 1>>, 1, Instr("return", 1, 1, 0, 0)>>,
    <<1300, <<Main, 2>>, 0, Instr("return", 1, 0, 0, 0)>> }

MCAddresses == {l[1] : l \in Listing}
At(a) == CHOOSE l \in Listing : l[1] = a
MCCode == [a \in MCAddresses |-> At(a)[4]]
MCOwner == [a \in MCAddresses |-> At(a)[2]]
MCDepth == [a \in MCAddresses |-> At(a)[3]]
MCData == {0, 1}

============================================================================
