--------------------------- MODULE MCClassLinker ---------------------------
(***************************************************************************)
(* Four classes that use each other: every class refers to another one, by *)
(* a class constant, a field and a method; B refers to itself, and Main    *)
(* also to a class without a file and to a method that is not declared.    *)
(***************************************************************************)
EXTENDS ClassLinker

M == 101
A == 102
B == 103
C == 104
Gone == 105
MCNames == {M, A, B, C}

x == 1   \* a member that every class declares
y == 2   \* one that none does

ClassOf(n) == [tag |-> "Class", resolved |-> FALSE, name |-> n]
Signed(m) == [tag |-> "NameAndType", resolved |-> FALSE, member |-> m]
Field(i, j) == [tag |-> "Fieldref", resolved |-> FALSE, class |-> i, sig |-> j]
Method(i, j) == [tag |-> "Methodref", resolved |-> FALSE, class |-> i, sig |-> j]

MCFileOf ==
    [n \in MCNames |->
        CASE n = M -> << ClassOf(A), ClassOf(B), ClassOf(Gone), Signed(x), Field(1, 4),
                         Method(2, 4), Signed(y), Method(1, 7),
                         [tag |-> "String", resolved |-> FALSE] >>
          [] n = A -> << ClassOf(C), ClassOf(M), Signed(x), Field(1, 3), Field(2, 3) >>
          [] n = B -> << ClassOf(B), ClassOf(C), Signed(x), Method(1, 3), Method(2, 3) >>
          [] n = C -> << ClassOf(A), ClassOf(B), Signed(x), Method(2, 3) >>]

MCMembersOf == [n \in MCNames |-> [t \in Refs |-> {x}]]

MCCells == 1 .. 4

============================================================================
