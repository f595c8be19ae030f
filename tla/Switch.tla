------------------------------- MODULE Switch -------------------------------
(***************************************************************************)
(* The handlers of tableswitch and lookupswitch in core.c.  Both have      *)
(* their operands in 4-byte words that start at the next address that is a *)
(* multiple of four:                                                       *)
(*                                                                         *)
(*    tableswitch    default, low, high, offset of low .. offset of high   *)
(*    lookupswitch   default, npairs, match, offset, match, offset, ...    *)
(*                                                                         *)
(* Interpreter knows of a switch only that it goes on at one of its        *)
(* targets; this module says which.  A handler is one step there and takes *)
(* one step for each turn of its loop here.                                *)
(***************************************************************************)
EXTENDS Integers, Sequences

CONSTANTS
    Switches,   \* the instructions: [op, at, words], at being the place of the
                \*   opcode in its method
    Values,     \* the ints on top of the operand stack
    CodeBase    \* where malloc has put the bytecode of the method

Table == "tableswitch"
Lookup == "lookupswitch"

\* What javac emits: a table that is as long as its bounds say, or pairs that
\* are sorted by match.
WellFormed(s) ==
    LET w == s.words
    IN  /\ s.at \in Nat
        /\ w \in Seq(Int)
        /\ \/ /\ s.op = Table
              /\ Len(w) >= 3 /\ w[2] <= w[3] /\ Len(w) = 4 + w[3] - w[2]
           \/ /\ s.op = Lookup
              /\ Len(w) >= 2 /\ w[2] >= 0 /\ Len(w) = 2 + 2 * w[2]
              /\ \A i, j \in 1 .. w[2] : i < j => w[1 + 2 * i] < w[1 + 2 * j]

\* malloc returns addresses that are aligned for any type.
ASSUME SwitchAssumption ==
    /\ \A s \in Switches : WellFormed(s)
    /\ Values \subseteq Int
    /\ CodeBase \in Nat /\ CodeBase % 4 = 0

VARIABLES
    insn,    \* the instruction that is executed
    phase,   \* "dispatch", "search" or "done"
    pc,      \* the address behind the opcode, then that of the next opcode
    value,   \* the int on top of the operand stack
    popped,  \* how many operands the handler has popped
    low, high

vars == <<insn, phase, pc, value, popped, low, high>>

Aligned(a) == a + ((4 - (a % 4)) % 4)

\* FOUR_BYTE_INDEX(def_offset_addr + i), where def_offset_addr is worked out
\* from the address in pc, and the class file counts from the method's start.
OperandIndex(i) == (Aligned(pc) - CodeBase - Aligned(insn.at + 1)) \div 4 + i + 1
Operand(i) == insn.words[OperandIndex(i)]

BranchTo(offset) ==
    /\ pc' = pc + offset - 1
    /\ popped' = popped + 1
    /\ phase' = "done"

Default == BranchTo(Operand(0))

\* Entry i of the table of offsets.
EntryBefore(i) == Operand(2 + i)
Entry(i) == Operand(3 + i)

\* The bounds themselves are left out of the comparison.
tableswitch ==
    /\ phase = "dispatch" /\ insn.op = Table
    /\ IF Operand(1) < value /\ value < Operand(2)
       THEN BranchTo(Entry(value - Operand(1)))
       ELSE Default
    /\ UNCHANGED <<insn, value, low, high>>

npairs == Operand(1)
Match(i) == Operand(2 + 2 * i)
Offset(i) == Operand(2 + 2 * i + 1)

lookupswitch ==
    /\ phase = "dispatch" /\ insn.op = Lookup
    /\ phase' = "search"
    /\ low' = 0
    /\ high' = npairs
    /\ UNCHANGED <<insn, pc, value, popped>>

MiddleAbove == low + (high - low + 1) \div 2
Middle == low + (high - low) \div 2

FoundWithoutPop ==
    /\ phase = "search" /\ low < high
    /\ Match(Middle) = value
    /\ pc' = pc + Offset(Middle) - 1
    /\ phase' = "done"
    /\ UNCHANGED <<insn, value, popped, low, high>>

Found ==
    /\ phase = "search" /\ low < high
    /\ Match(Middle) = value
    /\ BranchTo(Offset(Middle))
    /\ UNCHANGED <<insn, value, low, high>>

RightStuck == Middle
Right == Middle + 1
Left == Middle - 1

\* high is the first index that is no longer looked at, but the search goes on
\* to the left as if it were the last one that is.
Narrow ==
    /\ phase = "search" /\ low < high
    /\ Match(Middle) # value
    /\ IF Match(Middle) < value
       THEN low' = Right /\ UNCHANGED high
       ELSE high' = Left /\ UNCHANGED low
    /\ UNCHANGED <<insn, phase, pc, value, popped>>

NoMatch ==
    /\ phase = "search" /\ low >= high
    /\ Default
    /\ UNCHANGED <<insn, value, low, high>>

----------------------------------------------------------------------------

Init ==
    /\ insn \in Switches
    /\ phase = "dispatch"
    /\ pc = CodeBase + insn.at + 1
    /\ value \in Values
    /\ popped = 0
    /\ low = 0 /\ high = 0

Step == tableswitch \/ lookupswitch \/ Found \/ Narrow \/ NoMatch

Next == Step \/ (phase = "done" /\ UNCHANGED vars)

\* The one thread of the interpreter runs the handler to its end.
Spec == Init /\ [][Next]_vars /\ WF_vars(Step)

----------------------------------------------------------------------------
(* Correctness. *)

TypeOK ==
    /\ insn \in Switches
    /\ phase \in {"dispatch", "search", "done"}
    /\ pc \in Int
    /\ value \in Values
    /\ popped \in 0 .. 1 /\ (popped = 1 <=> phase = "done")
    /\ low \in Int /\ high \in Int

Opcode == CodeBase + insn.at
word == insn.words

\* The cases of the instruction: what they match and where they go.
Cases ==
    IF insn.op = Table
    THEN {<<v, Opcode + word[4 + v - word[2]]>> : v \in word[2] .. word[3]}
    ELSE {<<word[1 + 2 * i], Opcode + word[2 + 2 * i]>> : i \in 1 .. word[2]}

\* The search never reads a pair in front of the table or behind it.
ProbesInside ==
    phase = "search" /\ low < high => Middle \in 0 .. word[2] - 1

\* A switch goes to a case only for the int of that case: no value ends up in
\* the code of another one.
NeverAnotherCase ==
    phase = "done" => \/ pc = Opcode + word[1]
                      \/ <<value, pc>> \in Cases

\* Every switch is decided.
Decided == <>(phase = "done")

\* "no match, use default offset": the default is for values without a case.
DefaultOnlyWithoutMatch ==
    phase = "done" /\ insn.op = Lookup /\ value \in {p[1] : p \in Cases} =>
        <<value, pc>> \in Cases

\* "All comparisons and control flow instructions" are supported: an int within
\* the bounds of the table goes to its case.
TableCovered ==
    phase = "done" /\ insn.op = Table /\ value \in {p[1] : p \in Cases} =>
        <<value, pc>> \in Cases

============================================================================
