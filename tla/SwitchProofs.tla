---------------------------- MODULE SwitchProofs ----------------------------
(***************************************************************************)
(* Theorems about Switch, for every well-formed instruction, at every      *)
(* address, and every value.                                               *)
(***************************************************************************)
EXTENDS Switch, TLAPS

\* What holds between the steps of a handler.
Inductive ==
    /\ TypeOK
    /\ phase # "done" => pc = Opcode + 1
    /\ phase = "search" => insn.op = Lookup /\ 0 <= low /\ high <= word[2]
    /\ NeverAnotherCase

\* Padding does not depend on where malloc has put the code.
LEMMA AlignedCode ==
    ASSUME NEW n \in Nat
    PROVE  Aligned(CodeBase + n) - CodeBase = Aligned(n) /\ Aligned(n) \in Nat
<1>1. CodeBase \in Nat /\ CodeBase % 4 = 0
  BY SwitchAssumption
<1>2. (CodeBase + n) % 4 = n % 4
  BY <1>1
<1>3. PICK r \in 0 .. 3 : r = n % 4
  OBVIOUS
<1>4. (4 - r) % 4 \in 0 .. 3
  OBVIOUS
<1> QED
  BY <1>1, <1>2, <1>3, <1>4 DEF Aligned

\* Operand i of the handler is word i + 1 of the instruction.
LEMMA OperandWord ==
    ASSUME Inductive, phase # "done", NEW i \in Int
    PROVE  Operand(i) = word[i + 1]
<1>1. WellFormed(insn) /\ insn.at \in Nat /\ pc = CodeBase + insn.at + 1
  BY SwitchAssumption DEF Inductive, TypeOK, WellFormed, Opcode
<1>2. PICK n \in Nat : n = insn.at + 1 /\ pc = CodeBase + n
  BY <1>1, SwitchAssumption
<1>3. Aligned(pc) - CodeBase = Aligned(n) /\ Aligned(n) \in Nat
  BY <1>2, AlignedCode
<1>4. Aligned(pc) - CodeBase - Aligned(insn.at + 1) = 0
  BY <1>2, <1>3
<1>5. OperandIndex(i) = i + 1
  BY <1>4 DEF OperandIndex
<1> QED
  BY <1>5 DEF Operand, word

\* Where a branch goes, and that it ends the handler.
LEMMA BranchStep ==
    ASSUME Inductive, phase # "done", NEW o \in Int, BranchTo(o),
           UNCHANGED <<insn, value, low, high>>,
           o = word[1] \/ <<value, Opcode + o>> \in Cases
    PROVE  Inductive'
<1>1. Opcode \in Int /\ pc = Opcode + 1 /\ popped = 0
  <2>1. insn \in Switches /\ popped = 0 /\ pc = Opcode + 1
    BY DEF Inductive, TypeOK
  <2>2. insn.at \in Nat /\ CodeBase \in Nat
    BY <2>1, SwitchAssumption DEF WellFormed
  <2> QED
    BY <2>1, <2>2 DEF Opcode
<1>2. pc' = Opcode + o /\ popped' = 1 /\ phase' = "done"
  BY <1>1 DEF BranchTo
<1>3. TypeOK'
  BY <1>1, <1>2 DEF Inductive, TypeOK
<1>4. Opcode' = Opcode /\ word' = word /\ Cases' = Cases
  BY DEF Opcode, word, Cases
<1>5. NeverAnotherCase'
  BY <1>1, <1>2, <1>4 DEF NeverAnotherCase
<1> QED
  BY <1>2, <1>3, <1>5 DEF Inductive

LEMMA StepKeeps ==
    ASSUME Inductive, Step
    PROVE  Inductive'
<1>1. WellFormed(insn) /\ insn.at \in Nat /\ word \in Seq(Int) /\ value \in Int
  BY SwitchAssumption DEF Inductive, TypeOK, WellFormed, word
<1>2. /\ phase # "done"
  BY DEF Step, tableswitch, lookupswitch, Found, Narrow, NoMatch
<1>3. Operand(0) = word[1] /\ Operand(1) = word[2] /\ Operand(2) = word[3]
  <2>1. Operand(0) = word[0 + 1] /\ Operand(1) = word[1 + 1] /\ Operand(2) = word[2 + 1]
    BY <1>2, OperandWord
  <2> QED
    BY <2>1
<1>4. word[1] \in Int /\ word[2] \in Int
  BY <1>1 DEF WellFormed, word, Table, Lookup
<1>5. ASSUME Default, UNCHANGED <<insn, value, low, high>>
      PROVE  Inductive'
  BY <1>2, <1>3, <1>4, <1>5, BranchStep DEF Default
<1>6. CASE tableswitch
  <2>1. /\ insn.op = Table /\ UNCHANGED <<insn, value, low, high>>
        /\ Len(word) >= 3 /\ word[2] <= word[3] /\ Len(word) = 4 + word[3] - word[2]
    BY <1>1, <1>6 DEF tableswitch, WellFormed, word, Table, Lookup
  <2>2. word[3] \in Int
    BY <1>1, <2>1
  <2>3. CASE word[2] < value /\ value < word[3]
    <3>1. BranchTo(Entry(value - word[2]))
      BY <1>3, <1>6, <2>3 DEF tableswitch
    <3>a. PICK v \in Int : v = value
      BY <1>1
    <3>b. PICK l \in Int : l = word[2]
      BY <1>4
    <3>c. PICK h \in Int : h = word[3]
      BY <2>2
    <3>2. Entry(value - word[2]) = word[3 + (value - word[2]) + 1]
      <4>1. 3 + (v - l) \in Int
        OBVIOUS
      <4>2. Operand(3 + (v - l)) = word[3 + (v - l) + 1]
        BY <1>2, <4>1, OperandWord
      <4> QED
        BY <3>a, <3>b, <4>2 DEF Entry
    <3>3. 3 + (value - word[2]) + 1 = 4 + value - word[2]
      BY <1>1, <1>4
    <3>4. /\ 4 + value - word[2] \in 1 .. Len(word) /\ value \in word[2] .. word[3]
      <4>1. l < v /\ v < h /\ Len(word) = 4 + h - l
        BY <2>1, <2>3, <3>a, <3>b, <3>c
      <4>2. 4 + v - l \in 1 .. 4 + h - l /\ v \in l .. h
        BY <4>1
      <4> QED
        BY <3>a, <3>b, <3>c, <4>1, <4>2
    <3>5. word[4 + value - word[2]] \in Int
      BY <1>1, <3>4
    <3>6. <<value, Opcode + word[4 + value - word[2]]>> \in Cases
      BY <2>1, <3>4 DEF Cases
    <3> QED
      BY <1>2, <2>1, <3>1, <3>2, <3>3, <3>5, <3>6, BranchStep
  <2>4. CASE ~ (word[2] < value /\ value < word[3])
    BY <1>3, <1>5, <1>6, <2>1, <2>4 DEF tableswitch
  <2> QED
    BY <2>3, <2>4
<1>7. CASE lookupswitch
  <2>1. /\ phase' = "search" /\ low' = 0 /\ high' = word[2] /\ insn.op = Lookup
        /\ phase = "dispatch"
        /\ UNCHANGED <<insn, pc, value, popped>>
    BY <1>3, <1>7 DEF lookupswitch, npairs
  <2> QED
    BY <1>4, <2>1 DEF Inductive, TypeOK, NeverAnotherCase, Opcode, word
<1>8. ASSUME phase = "search", low < high
      PROVE  /\ Middle \in Int /\ low <= Middle /\ Middle < high
             /\ insn.op = Lookup /\ Middle \in 0 .. word[2] - 1
             /\ Len(word) = 2 + 2 * word[2]
  <2>1. /\ low \in Int /\ high \in Int /\ 0 <= low /\ high <= word[2] /\ insn.op = Lookup
    BY <1>8 DEF Inductive, TypeOK
  <2>2. PICK d \in Nat : d = high - low /\ d >= 1
    BY <1>8, <2>1
  <2>3. d \div 2 \in Nat /\ d \div 2 < d
    BY <2>2
  <2>4. Middle = low + d \div 2
    BY <2>2 DEF Middle
  <2>5. Len(word) = 2 + 2 * word[2]
    BY <1>1, <2>1 DEF WellFormed, word, Table, Lookup
  <2>6. Middle \in Int /\ low <= Middle /\ Middle < high
    BY <2>1, <2>2, <2>3, <2>4
  <2> QED
    BY <1>4, <2>1, <2>5, <2>6
<1>9. CASE Found
  <2>1. /\ phase = "search" /\ low < high /\ Match(Middle) = value
        /\ BranchTo(Offset(Middle)) /\ UNCHANGED <<insn, value, low, high>>
    BY <1>9 DEF Found
  <2>2. PICK i \in Nat : i = Middle + 1 /\ i \in 1 .. word[2]
    <3>1. Middle \in 0 .. word[2] - 1
      BY <1>8, <2>1
    <3>2. PICK w \in Int : w = word[2]
      BY <1>4
    <3>3. \A j \in 0 .. w - 1 : j + 1 \in Nat /\ j + 1 \in 1 .. w
      OBVIOUS
    <3> QED
      BY <3>1, <3>2, <3>3
  <2>3. insn.op = Lookup /\ Len(word) = 2 + 2 * word[2] /\ Middle \in Int
    BY <1>8, <2>1
  <2>4. Match(Middle) = word[1 + 2 * i] /\ Offset(Middle) = word[2 + 2 * i]
    <3>1. /\ Match(Middle) = word[2 + 2 * Middle + 1]
          /\ Offset(Middle) = word[2 + 2 * Middle + 1 + 1]
      <4>1. 2 + 2 * Middle \in Int /\ 2 + 2 * Middle + 1 \in Int
        BY <2>3
      <4>2. /\ Operand(2 + 2 * Middle) = word[2 + 2 * Middle + 1]
            /\ Operand(2 + 2 * Middle + 1) = word[2 + 2 * Middle + 1 + 1]
        BY <1>2, <4>1, OperandWord
      <4> QED
        BY <4>2 DEF Match, Offset
    <3>2. 2 + 2 * Middle + 1 = 1 + 2 * i /\ 2 + 2 * Middle + 1 + 1 = 2 + 2 * i
      BY <2>2, <2>3
    <3> QED
      BY <3>1, <3>2
  <2>5. word[2 + 2 * i] \in Int
    <3>1. 2 + 2 * i \in 1 .. Len(word)
      BY <1>4, <2>2, <2>3
    <3> QED
      BY <1>1, <3>1
  <2>6. <<value, Opcode + word[2 + 2 * i]>> \in Cases
    BY <2>1, <2>2, <2>3, <2>4 DEF Cases, Table, Lookup
  <2> QED
    BY <1>2, <2>1, <2>4, <2>5, <2>6, BranchStep
<1>10. CASE Narrow
  <2>1. /\ phase = "search" /\ low < high /\ UNCHANGED <<insn, phase, pc, value, popped>>
        /\ \/ low' = Middle + 1 /\ high' = high
           \/ high' = Middle - 1 /\ low' = low
    BY <1>10 DEF Narrow, Left, Right
  <2>2. /\ Middle \in Int /\ low <= Middle /\ Middle < high
        /\ low \in Int /\ high \in Int /\ 0 <= low /\ high <= word[2]
    BY <1>8, <2>1 DEF Inductive, TypeOK
  <2>3. low' \in Int /\ high' \in Int /\ 0 <= low' /\ high' <= word[2]
    BY <1>4, <2>1, <2>2
  <2> QED
    BY <2>1, <2>3 DEF Inductive, TypeOK, NeverAnotherCase, Opcode, word
<1>11. CASE NoMatch
  BY <1>5, <1>11 DEF NoMatch
<1> QED
  BY <1>6, <1>7, <1>9, <1>10, <1>11 DEF Step

\* The strengthened invariant holds between all steps of the two handlers
\* (core.c, tableswitch and lookupswitch).
THEOREM InductiveAlways == Spec => []Inductive
<1>1. Init => Inductive
  BY SwitchAssumption
     DEF Init, Inductive, TypeOK, NeverAnotherCase, Opcode, word, WellFormed
<1>2. Inductive /\ [Next]_vars => Inductive'
  <2> SUFFICES ASSUME Inductive, [Next]_vars PROVE Inductive'
    OBVIOUS
  <2>1. CASE Step
    BY <2>1, StepKeeps
  <2>2. CASE UNCHANGED vars
    BY <2>2 DEF vars, Inductive, TypeOK, NeverAnotherCase, Opcode, word, Cases
  <2> QED
    BY <2>1, <2>2 DEF Next
<1> QED
  BY <1>1, <1>2, PTL DEF Spec

\* The registers of a switch keep their types, and its operand is popped by
\* the step that leaves the handler, and by no other: once for each value.
THEOREM PoppedOnce == Spec => []TypeOK
<1>1. Inductive => TypeOK
  BY DEF Inductive
<1> QED
  BY <1>1, InductiveAlways, PTL

\* The binary search of lookupswitch reads no pair that is not in the
\* instruction, for any number of pairs, although high can become -1.
THEOREM SearchStaysInside == Spec => []ProbesInside
<1>1. ASSUME Inductive, phase = "search", low < high
      PROVE  Middle \in 0 .. word[2] - 1
  <2>1. /\ low \in Int /\ high \in Int /\ 0 <= low /\ high <= word[2] /\ insn.op = Lookup
    BY <1>1 DEF Inductive, TypeOK
  <2>2. word[2] \in Int
    <3>1. WellFormed(insn)
      BY <1>1, SwitchAssumption DEF Inductive, TypeOK
    <3> QED
      BY <2>1, <3>1 DEF WellFormed, word, Table, Lookup
  <2>3. PICK d \in Nat : d = high - low /\ d >= 1
    BY <1>1, <2>1
  <2>4. d \div 2 \in Nat /\ d \div 2 < d
    BY <2>3
  <2>5. Middle = low + d \div 2
    BY <2>3 DEF Middle
  <2> QED
    BY <2>1, <2>2, <2>3, <2>4, <2>5
<1>2. Inductive => ProbesInside
  BY <1>1 DEF ProbesInside
<1> QED
  BY <1>2, InductiveAlways, PTL

\* Whatever the value, a switch ends in the code of its own case or of the
\* default and never in that of another case.
THEOREM NoWrongCase == Spec => []NeverAnotherCase
<1>1. Inductive => NeverAnotherCase
  BY DEF Inductive
<1> QED
  BY <1>1, InductiveAlways, PTL

============================================================================
