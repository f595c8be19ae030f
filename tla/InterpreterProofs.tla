------------------------- MODULE InterpreterProofs -------------------------
(***************************************************************************)
(* Theorems about Interpreter, for every program, stack size and data.     *)
(* First its invariants; then that it implements FrameMachine, for every   *)
(* program whose classes get the constructors they declare and that calls  *)
(* no println, and for every stack size.  The frame of an active method is *)
(* read out of the memory; an instruction changes the innermost frame, a   *)
(* call cuts it in two, a return joins the result to the frame below, and  *)
(* every other frame keeps its words because nothing is written below the  *)
(* innermost one.                                                          *)
(***************************************************************************)
EXTENDS Interpreter, SequenceTheorems, WellFoundedInduction, TLAPS

----------------------------------------------------------------------------
(* Memory. *)

\* A function on 1 .. n is a sequence of n elements.
LEMMA FunctionIsSeq ==
    ASSUME NEW n \in Nat, NEW S, NEW f \in [1 .. n -> S]
    PROVE  f \in Seq(S) /\ Len(f) = n
OBVIOUS

\* Reading n words that lie in the memory gives a sequence of n words.
LEMMA ReadWords ==
    ASSUME NEW m \in [1 .. StackWords -> Int], NEW first \in Int, NEW n \in Nat,
           \A i \in 1 .. n : first + i - 1 \in 1 .. StackWords
    PROVE  Read(m, first, n) \in Seq(Int) /\ Len(Read(m, first, n)) = n
<1>1. Read(m, first, n) \in [1 .. n -> Int]
  BY DEF Read
<1> QED
  BY <1>1, FunctionIsSeq

\* Writing keeps the memory a memory, stores the words and leaves every
\* address outside their range alone.
LEMMA WriteWords ==
    ASSUME NEW m \in [1 .. StackWords -> Int], NEW first \in Int, NEW ws \in Seq(Int)
    PROVE  /\ Write(m, first, ws) \in [1 .. StackWords -> Int]
           /\ \A a \in 1 .. StackWords :
                 a \notin first .. first + Len(ws) - 1 => Write(m, first, ws)[a] = m[a]
           /\ \A i \in 1 .. Len(ws) :
                 first + i - 1 \in 1 .. StackWords =>
                    Write(m, first, ws)[first + i - 1] = ws[i]
<1>1. \A a \in first .. first + Len(ws) - 1 : a - first + 1 \in DOMAIN ws
  OBVIOUS
<1>2. Write(m, first, ws) \in [1 .. StackWords -> Int]
  BY <1>1 DEF Write
<1>3. \A i \in 1 .. Len(ws) :
         /\ first + i - 1 \in first .. first + Len(ws) - 1
         /\ (first + i - 1) - first + 1 = i
  OBVIOUS
<1> QED
  BY <1>2, <1>3 DEF Write

----------------------------------------------------------------------------
(* Constructors. *)

\* What get_static_constructor finds in class k can be started as a static
\* constructor is: it has code and takes no argument.  A <clinit> does; the last
\* method of a class that declares none need not.
Fits(k) ==
    LET m == MethodsOf[k][FirstOrLast(k, "<clinit>")]
    IN  m.native = "no" /\ m.nargs = 0

\* Every method that has been started as a constructor so far was fit for it.
StartedFit == \A k \in Classes : inits[k] > 0 => Fits(k)

\* A step starts no other method as a constructor.
StartsFit == \A k \in Classes : inits'[k] # inits[k] => Fits(k)

\* A program of which that can be said before it runs.
InitializersFit ==
    \/ \A k \in Classes : ~ Declares(k, "<clinit>")
    \/ \A k \in Classes : Fits(k)

LEMMA LeastElement ==
    ASSUME NEW S, S \subseteq Nat, S # {}
    PROVE  \E i \in S : \A j \in S : i <= j
<1> DEFINE R == {p \in Nat \X Nat : p[1] < p[2]}
<1>1. IsWellFoundedOn(R, Nat)
  BY NatLessThanWellFounded DEF OpToRel
<1>2. \E i \in S : \A j \in S : ~ (<<j, i>> \in R)
  <2> HIDE DEF R
  <2> QED
    BY <1>1, WFMin
<1>3. ASSUME NEW i \in S, NEW j \in S, ~ (<<j, i>> \in R)
      PROVE  i <= j
  BY <1>3
<1> QED
  <2> HIDE DEF R
  <2> QED
    BY <1>2, <1>3

\* A lookup that finds a method finds one of that name.
LEMMA LookupFinds ==
    ASSUME NEW k \in Classes, NEW name, Declares(k, name)
    PROVE  /\ FirstOrLast(k, name) \in DOMAIN MethodsOf[k]
           /\ MethodsOf[k][FirstOrLast(k, name)].name = name
<1> DEFINE named == {i \in DOMAIN MethodsOf[k] : MethodsOf[k][i].name = name}
<1>1. named \subseteq Nat /\ named # {}
  BY ProgramShape DEF Declares
<1>2. \E i \in named : \A j \in named : i <= j
  BY <1>1, LeastElement
<1>3. FirstOrLast(k, name) \in named
  BY <1>1, <1>2 DEF FirstOrLast
<1> QED
  BY <1>3

\* Every lookup finds a method, if only the last one.
LEMMA LookupReturns ==
    ASSUME NEW k \in Classes, NEW name
    PROVE  FirstOrLast(k, name) \in DOMAIN MethodsOf[k]
<1>1. CASE Declares(k, name)
  BY <1>1, LookupFinds
<1>2. CASE ~ Declares(k, name)
  <2>1. FirstOrLast(k, name) = Len(MethodsOf[k])
    BY <1>2 DEF FirstOrLast, Declares
  <2>2. MethodsOf[k] \in Seq(MethodInfo) /\ MethodsOf[k] # << >>
    BY ProgramShape
  <2> QED
    BY <2>1, <2>2
<1> QED
  BY <1>1, <1>2

\* A lookup of a constructor that finds any finds the one that counts.
LEMMA ConstructorLookup ==
    ASSUME NEW S, NEW k \in Classes, get_static_constructor(k, S) # 0
    PROVE  /\ ~ \A j \in S : ~ Declares(j, "<clinit>")
           /\ get_static_constructor(k, S) = FirstOrLast(k, "<clinit>")
           /\ get_static_constructor(k, S) \in DOMAIN MethodsOf[k]
<1>1. ~ \A j \in S : ~ Declares(j, "<clinit>")
  BY DEF get_static_constructor
<1>2. get_static_constructor(k, S) = FirstOrLast(k, "<clinit>")
  BY <1>1 DEF get_static_constructor
<1> QED
  BY <1>1, <1>2, LookupReturns

\* What initialization runs is code that takes no argument, or nothing.
LEMMA ConstructorFound ==
    ASSUME StartsFit, ClassTypeOK, NEW k \in Classes, NEW resume,
           initialize_static(k, resume)
    PROVE  LET i == get_static_constructor(k, loaded')
           IN  \/ i = 0
               \/ /\ i \in DOMAIN MethodsOf[k]
                  /\ MethodsOf[k][i].native = "no" /\ MethodsOf[k][i].nargs = 0
<1> SUFFICES ASSUME get_static_constructor(k, loaded') # 0
             PROVE  LET i == get_static_constructor(k, loaded')
                    IN  /\ i \in DOMAIN MethodsOf[k]
                        /\ MethodsOf[k][i].native = "no" /\ MethodsOf[k][i].nargs = 0
  OBVIOUS
<1>1. inits' = [inits EXCEPT ![k] = @ + 1]
  BY DEF initialize_static
<1>2. inits \in [Classes -> Nat]
  BY DEF ClassTypeOK
<1>3. inits'[k] # inits[k]
  BY <1>1, <1>2
<1>4. Fits(k)
  BY <1>3 DEF StartsFit
<1> QED
  BY <1>4, ConstructorLookup DEF Fits

\* A program whose constructors fit starts nothing else.
LEMMA InitializeFits ==
    ASSUME InitializersFit, NEW k \in Classes, NEW resume, loaded' \subseteq Classes,
           ClassTypeOK, initialize_static(k, resume)
    PROVE  StartsFit
<1>1. CASE get_static_constructor(k, loaded') = 0
  <2>1. inits' = inits
    BY <1>1 DEF initialize_static
  <2> QED
    BY <2>1 DEF StartsFit
<1>2. CASE get_static_constructor(k, loaded') # 0
  <2>1. ~ \A j \in loaded' : ~ Declares(j, "<clinit>")
    BY <1>2, ConstructorLookup
  <2>2. Fits(k)
    BY <2>1 DEF InitializersFit
  <2>3. \A j \in Classes : j # k => inits'[j] = inits[j]
    <3>1. inits' = [inits EXCEPT ![k] = @ + 1] /\ inits \in [Classes -> Nat]
      BY <1>2 DEF initialize_static, ClassTypeOK
    <3> QED
      BY <3>1
  <2> QED
    BY <2>2, <2>3 DEF StartsFit
<1> QED
  BY <1>1, <1>2

\* Constructors are counted when they are started and at no other time.
LEMMA NotCounted ==
    ASSUME [Next]_vars, ~ Start, ~ InitializeClass
    PROVE  inits' = inits
<1>1. CASE Constant \/ Pop \/ Operate \/ Load \/ Store \/ iinc \/ Branch \/ Abort \/ Return
  BY <1>1 DEF Constant, Pop, Operate, Load, Store, iinc, Branch, Abort, Return,
              UNCHANGED_classes
<1>2. CASE \/ ResolveFails \/ getstatic \/ putstatic \/ UnsupportedField
           \/ invokestatic \/ call_native \/ impdep1
  BY <1>2 DEF ResolveFails, getstatic, putstatic, UnsupportedField, invokestatic,
              call_native, impdep1
<1>3. CASE UNCHANGED vars
  BY <1>3 DEF vars
<1> QED
  BY <1>1, <1>2, <1>3 DEF Next, Step, Stopped

LEMMA Counted ==
    ASSUME [Next]_vars
    PROVE  inits' = inits \/ \E k : inits' = [inits EXCEPT ![k] = @ + 1]
<1>1. ASSUME NEW k, NEW resume, initialize_static(k, resume)
      PROVE  inits' = inits \/ inits' = [inits EXCEPT ![k] = @ + 1]
  BY <1>1 DEF initialize_static
<1>2. CASE Start \/ InitializeClass
  BY <1>1, <1>2 DEF Start, InitializeClass
<1> QED
  BY <1>2, NotCounted

LEMMA CountsGrow ==
    ASSUME inits \in [Classes -> Nat], [Next]_vars
    PROVE  /\ inits' \in [Classes -> Nat]
           /\ \A j \in Classes : inits[j] <= inits'[j]
<1>1. CASE inits' = inits
  BY <1>1
<1>2. ASSUME NEW k, inits' = [inits EXCEPT ![k] = @ + 1]
      PROVE  /\ inits' \in [Classes -> Nat]
             /\ \A j \in Classes : inits[j] <= inits'[j]
  <2>1. \A j \in Classes : /\ inits[j] \in Nat
                           /\ inits'[j] = IF j = k THEN inits[j] + 1 ELSE inits[j]
    BY <1>2
  <2>2. \A j \in Classes : inits'[j] \in Nat /\ inits[j] <= inits'[j]
    BY <2>1
  <2>3. inits' = [j \in Classes |-> inits'[j]]
    BY <1>2
  <2> QED
    BY <2>2, <2>3
<1> QED
  BY <1>1, <1>2, Counted

\* What is fit after a step was fit before, and the step started nothing else.
LEMMA StartedBefore ==
    ASSUME inits \in [Classes -> Nat], StartedFit', [Next]_vars
    PROVE  StartedFit /\ StartsFit
<1>1. \A j \in Classes : /\ inits[j] \in Nat /\ inits'[j] \in Nat
                         /\ inits[j] <= inits'[j]
  BY CountsGrow
<1>2. \A j \in Classes : inits[j] > 0 \/ inits'[j] # inits[j] => inits'[j] > 0
  BY <1>1
<1> QED
  BY <1>2 DEF StartedFit, StartsFit

----------------------------------------------------------------------------
(* Instructions that stay in their method. *)

\* What the invariant says of the method whose instruction is fetched.
LEMMA Fetched ==
    ASSUME IInv, NEW ops, Fetch(ops)
    PROVE  /\ acts # << >> /\ Len(acts) \in DOMAIN acts
           /\ pc \in Addresses /\ Code[pc] \in Instruction /\ Code[pc].op \in ops
           /\ InstructionVerified(pc)
           /\ Owner[pc] = <<acts[Len(acts)].class, acts[Len(acts)].method>>
           /\ IsMethod(acts[Len(acts)].class, acts[Len(acts)].method)
           /\ MethodAt(Owner[pc]).locals = localc
           /\ c = acts[Len(acts)].class /\ cp = c
           /\ frame = acts[Len(acts)].frame /\ localc = acts[Len(acts)].localc
           /\ frame >= 1 /\ localc \in Nat /\ optop \in Int
           /\ OperandBase(Len(acts)) = frame + localc + 4
           /\ frame + localc + 4 + Depth[pc] <= optop + 1
           /\ optop <= StackWords
           /\ Depth[pc] \in Nat
<1>1. /\ vm = "running" /\ pc \in Addresses /\ Code[pc].op \in ops /\ InControl
  BY DEF Fetch, InControl
<1>2. /\ acts # << >> /\ acts \in Seq(Activation) /\ MachineTypeOK
  BY <1>1, ProgramShape DEF IInv, LayoutInv, TypeOK, MachineTypeOK
<1>3. Len(acts) \in DOMAIN acts /\ acts[Len(acts)] \in Activation
  BY <1>2
<1>4. /\ MethodsKnown /\ TopFits /\ RegistersMatch
  BY <1>1 DEF IInv, LayoutInv
<1>5. /\ OperandCount(Len(acts)) + 0 >= Depth[pc]
      /\ Owner[pc] = <<acts[Len(acts)].class, acts[Len(acts)].method>>
  BY <1>1, <1>3 DEF IInv, StackMapCovered, WordsToCome, PcOf, PcInMethod
<1>6. Code[pc] \in Instruction /\ InstructionVerified(pc) /\ Depth[pc] \in Nat
  BY <1>1, ProgramShape, ProgramVerified
<1>7. OperandBase(Len(acts)) = frame + localc + 4
  BY <1>2, <1>4 DEF OperandBase, LinkOf, Links, RegistersMatch
<1>8. frame + localc + 4 + Depth[pc] <= optop + 1
  <2>1. OperandCount(Len(acts)) = optop - (frame + localc + 4) + 1
    BY <1>7 DEF OperandCount, OperandTop
  <2>2. frame \in Int /\ localc \in Int /\ optop \in Int
    BY <1>2 DEF MachineTypeOK
  <2> QED
    BY <1>5, <1>6, <2>1, <2>2
<1> QED
  BY <1>1, <1>2, <1>3, <1>4, <1>5, <1>6, <1>7, <1>8
     DEF MethodsKnown, RegistersMatch, TopFits, MachineTypeOK, Activation

\* Once the machine is out of control only the types are left to say.
LEMMA OutOfControl ==
    ASSUME TypeOK', vm' \in {"exited", "aborted", "undefined"}
    PROVE  IInv'
BY DEF IInv, LayoutInv, StackMapCovered, InControl

\* A step of the innermost method that leaves the saved registers alone and
\* goes on in the same method with the operands javac counts on.
LEMMA StepInFrame ==
    ASSUME IInv, InControl, vm' = "running", acts # << >>,
           UNCHANGED <<c, cp, frame, localc, acts>>,
           ClassTypeOK',
           mem' \in [1 .. StackWords -> Int],
           \A i \in DOMAIN acts : \A a \in LinkOf(i) .. LinkOf(i) + 3 : mem'[a] = mem[a],
           pc' \in Addresses, Owner[pc'] = Owner[pc],
           optop' \in Int, optop' <= StackWords,
           OperandBase(Len(acts)) + Depth[pc'] <= optop' + 1
    PROVE  IInv'
<1>1. InControl /\ InControl' /\ MachineTypeOK /\ ClassTypeOK
  BY DEF IInv, TypeOK, InControl
<1>2. /\ MethodsKnown /\ FramesOrdered /\ TopFits /\ RegistersMatch /\ LinksIntact
      /\ StackMapCovered
  BY <1>1 DEF IInv, LayoutInv
<1>3. /\ acts \in Seq(Activation) /\ acts' = acts
      /\ \A i \in DOMAIN acts : acts[i] \in Activation
  BY <1>1 DEF MachineTypeOK
<1>4. pc' \in Int /\ Depth[pc'] \in Nat
  BY ProgramShape
<1>5. TypeOK'
  BY <1>1, <1>4 DEF TypeOK, MachineTypeOK
<1>6. \A i \in DOMAIN acts : LinkOf(i)' = LinkOf(i) /\ OperandBase(i)' = OperandBase(i)
  BY <1>3 DEF LinkOf, OperandBase
<1>7. MethodsKnown' /\ FramesOrdered' /\ RegistersMatch'
  BY <1>2, <1>3, <1>6 DEF MethodsKnown, FramesOrdered, RegistersMatch
<1>8. Len(acts) \in DOMAIN acts
  BY <1>3
<1>9. TopFits'
  <2>1. OperandBase(Len(acts))' = OperandBase(Len(acts))
    BY <1>3, <1>6, <1>8
  <2>2. acts[Len(acts)].frame \in Int /\ acts[Len(acts)].localc \in Int
    BY <1>3, <1>8 DEF Activation
  <2>3. PICK base \in Int : base = OperandBase(Len(acts))
    BY <2>2 DEF OperandBase, LinkOf, Links
  <2>4. PICK d \in Nat : d = Depth[pc']
    BY <1>4
  <2>5. PICK top \in Int : top = optop'
    OBVIOUS
  <2>6. base + d <= top + 1
    BY <2>3, <2>4, <2>5
  <2>7. base <= top + 1
    BY <2>6
  <2> QED
    BY <2>1, <2>3, <2>5, <2>7 DEF TopFits
<1>10. LinksIntact'
  <2>1. \A i \in DOMAIN acts : LinkOf(i) \in Int
    BY <1>3 DEF LinkOf, Activation
  <2>2. \A i \in DOMAIN acts : Saved(i)' = Saved(i)
    <3> SUFFICES ASSUME NEW i \in DOMAIN acts PROVE Saved(i)' = Saved(i)
      OBVIOUS
    <3>1. \A j \in 1 .. 4 : mem'[LinkOf(i) + j - 1] = mem[LinkOf(i) + j - 1]
      BY <2>1
    <3>2. Saved(i)' = [j \in 1 .. 4 |-> mem'[LinkOf(i) + j - 1]]
      BY <1>6 DEF Saved, Read, Links
    <3>3. Saved(i) = [j \in 1 .. 4 |-> mem[LinkOf(i) + j - 1]]
      BY DEF Saved, Read, Links
    <3> QED
      BY <3>1, <3>2, <3>3
  <2>3. \A i \in DOMAIN acts : /\ mem'[LinkOf(i) + 2] = mem[LinkOf(i) + 2]
                               /\ mem'[LinkOf(i) + 3] = mem[LinkOf(i) + 3]
    BY <2>1
  <2> QED
    BY <1>2, <1>3, <1>6, <2>2, <2>3 DEF LinksIntact
<1>11. StackMapCovered'
  <2> SUFFICES ASSUME NEW i \in DOMAIN acts
               PROVE  /\ PcInMethod(i)'
                      /\ (OperandCount(i) + WordsToCome(i))' >= Depth[PcOf(i)']
    BY <1>3 DEF StackMapCovered
  <2>1. /\ PcInMethod(i)
        /\ OperandCount(i) + WordsToCome(i) >= Depth[PcOf(i)]
    BY <1>1, <1>2 DEF StackMapCovered
  <2>2. CASE i = Len(acts)
    <3>1. PcOf(i)' = pc' /\ PcOf(i) = pc /\ WordsToCome(i)' = 0
      BY <1>3, <2>2 DEF PcOf, WordsToCome
    <3>2. OperandCount(i)' = optop' - OperandBase(i) + 1
      BY <1>3, <1>6, <2>2 DEF OperandCount, OperandTop
    <3>3. OperandBase(i) \in Int
      BY <1>3 DEF OperandBase, LinkOf, Activation, Links
    <3> QED
      BY <1>3, <1>4, <2>1, <2>2, <3>1, <3>2, <3>3 DEF PcInMethod
  <2>3. CASE i # Len(acts)
    <3>1. /\ PcOf(i)' = PcOf(i) /\ WordsToCome(i)' = WordsToCome(i)
          /\ OperandTop(i)' = OperandTop(i)
      BY <1>3, <2>3 DEF PcOf, WordsToCome, OperandTop
    <3> QED
      BY <1>3, <1>6, <2>1, <3>1 DEF PcInMethod, OperandCount
  <2> QED
    BY <2>2, <2>3
<1> QED
  BY <1>1, <1>3, <1>5, <1>7, <1>9, <1>10, <1>11 DEF IInv, LayoutInv

\* All saved registers lie below the frame of the innermost method, but for
\* its own, which are between its locals and its operands.
LEMMA LinksBelow ==
    ASSUME IInv, InControl, acts # << >>
    PROVE  /\ \A i \in DOMAIN acts :
                 /\ LinkOf(i) \in Int /\ LinkOf(i) >= 1 /\ acts[i] \in Activation
                 /\ i # Len(acts) => LinkOf(i) + 4 <= frame
           /\ LinkOf(Len(acts)) = frame + localc
           /\ Len(acts) \in DOMAIN acts
           /\ frame >= 1 /\ localc \in Nat
<1>1. MachineTypeOK /\ MethodsKnown /\ FramesOrdered /\ RegistersMatch
  BY DEF IInv, TypeOK, LayoutInv
<1>2. /\ Len(acts) \in DOMAIN acts
      /\ \A i \in DOMAIN acts : acts[i] \in Activation /\ acts[i].frame >= 1
      /\ \A i \in DOMAIN acts : i # Len(acts) => i < Len(acts)
  <2>1. acts \in Seq(Activation) /\ acts # << >>
    BY <1>1 DEF MachineTypeOK
  <2>2. \A i \in DOMAIN acts : acts[i].frame >= 1
    BY <1>1 DEF MethodsKnown
  <2> QED
    BY <2>1, <2>2
<1>3. frame = acts[Len(acts)].frame /\ localc = acts[Len(acts)].localc
  BY <1>1 DEF RegistersMatch
<1>4. \A i \in DOMAIN acts : LinkOf(i) \in Int /\ LinkOf(i) >= 1
  BY <1>2 DEF LinkOf, Activation
<1>5. \A i \in DOMAIN acts : i # Len(acts) => LinkOf(i) + 4 <= frame
  BY <1>1, <1>2, <1>3 DEF FramesOrdered, OperandBase, Links
<1> QED
  BY <1>2, <1>3, <1>4, <1>5 DEF LinkOf, Activation

\* Replacing operands keeps the invariant, or the stack overflows.
LEMMA OperandsStep ==
    ASSUME IInv, NEW ops, Fetch(ops),
           NEW n \in Nat, n <= Depth[pc], NEW ws \in Seq(Int),
           NEW next \in Addresses, Owner[next] = Owner[pc],
           Depth[next] = Depth[pc] - n + Len(ws),
           Operands(n, ws, next), ClassTypeOK'
    PROVE  IInv'
<1>1. vm = "running" /\ InControl
  BY DEF Fetch, InControl
<1>2. MachineTypeOK
  BY DEF IInv, TypeOK
<1>3. CASE optop - n + Len(ws) > StackWords
  <2>1. StackOverflow
    BY <1>3 DEF Operands
  <2>2. TypeOK'
    BY <1>2, <2>1 DEF StackOverflow, TypeOK, MachineTypeOK, registers
  <2> QED
    BY <2>1, <2>2, OutOfControl DEF StackOverflow
<1>4. CASE ~ (optop - n + Len(ws) > StackWords)
  <2>1. /\ mem' = Write(mem, optop - n + 1, ws)
        /\ optop' = optop - n + Len(ws)
        /\ pc' = next
        /\ UNCHANGED <<vm, c, cp, frame, localc, acts>>
    BY <1>4 DEF Operands
  <2>2. /\ acts # << >> /\ Len(acts) \in DOMAIN acts
        /\ OperandBase(Len(acts)) = frame + localc + 4
        /\ frame + localc + 4 + Depth[pc] <= optop + 1
        /\ optop \in Int /\ Depth[pc] \in Nat /\ localc \in Nat /\ frame >= 1
        /\ frame \in Int /\ optop <= StackWords
    BY <1>2, Fetched DEF MachineTypeOK
  <2>3. Len(ws) \in Nat /\ StackWords \in Nat /\ optop - n + 1 \in Int
    BY <2>2, ProgramShape
  <2>4. /\ mem' \in [1 .. StackWords -> Int]
        /\ \A a \in 1 .. StackWords :
              a \notin optop - n + 1 .. optop - n + 1 + Len(ws) - 1 => mem'[a] = mem[a]
    <3> DEFINE first == optop - n + 1
    <3>1. mem \in [1 .. StackWords -> Int] /\ first \in Int
      BY <1>2, <2>3 DEF MachineTypeOK
    <3>2. mem' = Write(mem, first, ws)
      BY <2>1
    <3> HIDE DEF first
    <3>3. /\ Write(mem, first, ws) \in [1 .. StackWords -> Int]
          /\ \A a \in 1 .. StackWords :
                a \notin first .. first + Len(ws) - 1 => Write(mem, first, ws)[a] = mem[a]
      BY <3>1, WriteWords
    <3> QED
      BY <3>2, <3>3 DEF first
  <2>5. ASSUME NEW i \in DOMAIN acts, NEW a \in LinkOf(i) .. LinkOf(i) + 3
        PROVE  mem'[a] = mem[a]
    <3>1. /\ LinkOf(i) \in Int /\ LinkOf(i) >= 1
          /\ i # Len(acts) => LinkOf(i) + 4 <= frame
          /\ LinkOf(Len(acts)) = frame + localc
      BY <1>1, <2>2, LinksBelow
    <3>2. LinkOf(i) + 4 <= frame + localc + 4
      BY <2>2, <3>1
    <3>3. a \in Int /\ a >= 1 /\ a < optop - n + 1
      <4>1. a \in Int /\ a >= 1 /\ a <= LinkOf(i) + 3
        BY <3>1
      <4>2. optop - n + 1 >= frame + localc + 4
        BY <2>2
      <4>3. optop - n + 1 \in Int /\ frame + localc + 4 \in Int
        BY <2>2
      <4> QED
        BY <3>1, <3>2, <4>1, <4>2, <4>3
    <3>4. a \in 1 .. StackWords
      BY <2>2, <2>3, <3>3
    <3> QED
      BY <2>2, <2>3, <2>4, <3>3, <3>4
  <2>6. OperandBase(Len(acts)) + Depth[pc'] <= optop' + 1
    <3>1. Depth[pc'] = Depth[pc] - n + Len(ws) /\ optop' = optop - n + Len(ws)
      BY <2>1
    <3> QED
      BY <2>2, <2>3, <3>1
  <2>7. optop' \in Int /\ optop' <= StackWords
    BY <1>4, <2>1, <2>2, <2>3
  <2> QED
    BY <1>1, <2>1, <2>2, <2>4, <2>5, <2>6, <2>7, StepInFrame
<1> QED
  BY <1>3, <1>4

----------------------------------------------------------------------------
(* Calls. *)

\* Everything the compiler guarantees about a method with code.
LEMMA MethodFacts ==
    ASSUME NEW k \in Classes, NEW i \in DOMAIN MethodsOf[k],
           MethodsOf[k][i].native = "no"
    PROVE  /\ i \in Nat /\ IsMethod(k, i)
           /\ MethodsOf[k][i].nargs \in Nat /\ MethodsOf[k][i].locals \in Nat
           /\ MethodsOf[k][i].ret \in 0 .. 2
           /\ MethodsOf[k][i].nargs <= MethodsOf[k][i].locals
           /\ MethodsOf[k][i].code \in Addresses
           /\ Owner[MethodsOf[k][i].code] = <<k, i>>
           /\ Depth[MethodsOf[k][i].code] = 0
           /\ MethodsOf[k][i].name = "<clinit>" =>
                 MethodsOf[k][i].nargs = 0 /\ MethodsOf[k][i].ret = 0
<1>1. MethodsOf[k] \in Seq(MethodInfo)
  BY ProgramShape
<1>2. MethodsOf[k][i] \in MethodInfo /\ i \in Nat
  BY <1>1
<1>3. MethodVerified(k, i)
  BY ProgramVerified
<1> QED
  BY <1>2, <1>3 DEF MethodInfo, MethodVerified, IsMethod

\* t is the history s after a call of e from the address r.
Pushed(t, s, r, e) ==
    /\ t \in Seq(Activation)
    /\ Len(t) = Len(s) + 1 /\ Len(s) \in 1 .. Len(s)
    /\ DOMAIN s = 1 .. Len(s) /\ DOMAIN t = 1 .. Len(s) + 1
    /\ t[Len(s) + 1] = e
    /\ \A j \in 1 .. Len(s) :
          /\ t[j].class = s[j].class /\ t[j].method = s[j].method
          /\ t[j].frame = s[j].frame /\ t[j].localc = s[j].localc
          /\ t[j].resume = IF j = Len(s) THEN r ELSE s[j].resume

\* The history after a call: the caller has got a resume address, the callee
\* is on top, all the others are as they were.
LEMMA ActsPushed ==
    ASSUME NEW s \in Seq(Activation), s # << >>, NEW r \in Int, NEW e \in Activation,
           NEW t, t = Append([s EXCEPT ![Len(s)].resume = r], e)
    PROVE  Pushed(t, s, r, e)
<1> DEFINE u == [s EXCEPT ![Len(s)].resume = r]
<1>1. Len(s) \in 1 .. Len(s) /\ DOMAIN s = 1 .. Len(s) /\ s[Len(s)] \in Activation
  OBVIOUS
<1>2. [s[Len(s)] EXCEPT !.resume = r] \in Activation
  BY <1>1 DEF Activation
<1>3. u \in Seq(Activation) /\ Len(u) = Len(s)
  BY <1>1, <1>2
<1>4. \A j \in 1 .. Len(s) :
         u[j] = IF j = Len(s) THEN [s[Len(s)] EXCEPT !.resume = r] ELSE s[j]
  BY <1>1
<1>5. \A j \in 1 .. Len(s) :
         /\ u[j].class = s[j].class /\ u[j].method = s[j].method
         /\ u[j].frame = s[j].frame /\ u[j].localc = s[j].localc
         /\ u[j].resume = IF j = Len(s) THEN r ELSE s[j].resume
  BY <1>1, <1>4 DEF Activation
<1> HIDE DEF u
<1>6. t = Append(u, e)
  BY DEF u
<1>7. t \in Seq(Activation) /\ Len(t) = Len(u) + 1
  <2>1. Append(u, e) \in Seq(Activation) /\ Len(Append(u, e)) = Len(u) + 1
    BY <1>3, AppendProperties
  <2> QED
    BY <1>6, <2>1
<1>8. DOMAIN t = 1 .. Len(s) + 1
  BY <1>3, <1>7
<1>9. t[Len(u) + 1] = e /\ \A j \in 1 .. Len(u) : t[j] = u[j]
  <2>1. Append(u, e)[Len(u) + 1] = e /\ \A j \in 1 .. Len(u) : Append(u, e)[j] = u[j]
    BY <1>3, AppendProperties
  <2> QED
    BY <1>6, <2>1
<1>10. t \in Seq(Activation) /\ Len(t) = Len(s) + 1 /\ t[Len(s) + 1] = e
  BY <1>3, <1>7, <1>9
<1>11. \A j \in 1 .. Len(s) : t[j] = u[j]
  BY <1>3, <1>9
<1> QED
  BY <1>1, <1>5, <1>8, <1>10, <1>11, ZenonT(40) DEF Pushed

\* A call keeps the invariant, or the stack overflows.
LEMMA EnterStep ==
    ASSUME IInv, InControl, acts # << >>, ClassTypeOK',
           NEW k \in Classes, NEW i \in DOMAIN MethodsOf[k],
           MethodsOf[k][i].native = "no",
           NEW resume \in Addresses,
           Owner[resume] = <<acts[Len(acts)].class, acts[Len(acts)].method>>,
           frame + localc + 4 + MethodsOf[k][i].nargs <= optop + 1,
           optop + 1 - MethodsOf[k][i].nargs - (frame + localc + 4)
              + MethodsOf[k][i].ret >= Depth[resume],
           Enter(k, i, resume)
    PROVE  IInv'
<1> DEFINE m == MethodsOf[k][i]
<1>1. /\ i \in Nat /\ IsMethod(k, i) /\ m.nargs \in Nat /\ m.locals \in Nat
      /\ m.ret \in 0 .. 2 /\ m.nargs <= m.locals /\ m.code \in Addresses
      /\ Owner[m.code] = <<k, i>> /\ Depth[m.code] = 0
  BY MethodFacts
<1>2. /\ MachineTypeOK /\ MethodsKnown /\ FramesOrdered /\ TopFits /\ RegistersMatch
      /\ LinksIntact /\ StackMapCovered
  BY DEF IInv, LayoutInv, TypeOK
<1>3. /\ optop \in Int /\ frame \in Int /\ localc \in Int /\ c \in Int
      /\ mem \in [1 .. StackWords -> Int] /\ acts \in Seq(Activation)
      /\ resume \in Int /\ StackWords \in Nat /\ m.code \in Int /\ k \in Int
      /\ Depth[resume] \in Nat
  BY <1>1, <1>2, ProgramShape DEF MachineTypeOK
<1>n. PICK n \in Nat : n = Len(acts) /\ n >= 1
  BY <1>3
<1>4. /\ \A j \in DOMAIN acts :
            /\ LinkOf(j) \in Int /\ LinkOf(j) >= 1 /\ acts[j] \in Activation
            /\ j # n => LinkOf(j) + 4 <= frame
      /\ LinkOf(n) = frame + localc
      /\ n \in DOMAIN acts /\ frame >= 1 /\ localc \in Nat
  BY <1>n, LinksBelow
<1> HIDE DEF m
<1>r. /\ frame + localc + 4 + m.nargs <= optop + 1
      /\ optop + 1 - m.nargs - (frame + localc + 4) + m.ret >= Depth[resume]
      /\ m.native = "no"
  BY DEF m
<1>t. /\ frame \in Int /\ localc \in Nat /\ frame >= 1 /\ optop \in Int
      /\ m.nargs \in Nat /\ m.locals \in Nat /\ m.ret \in Int
  <2>1. frame \in Int /\ optop \in Int
    BY <1>3
  <2>2. localc \in Nat /\ frame >= 1
    BY <1>4
  <2>3. m.nargs \in Nat /\ m.locals \in Nat /\ m.ret \in 0 .. 2
    BY <1>1
  <2>4. m.ret \in Int
    BY <2>3
  <2> QED
    BY <2>1, <2>2, <2>3, <2>4
<1>b. PICK base \in Int : base = optop + 1 - m.nargs
  BY <1>t
<1>l. PICK link \in Int : link = base + m.locals
  BY <1>t
<1> DEFINE new == [class |-> k, method |-> i, frame |-> base,
                   localc |-> m.locals, resume |-> Null]
<1>5. base >= frame + localc + 4 /\ link >= base /\ base >= 1
  <2>1. base >= frame + localc + 4
    BY <1>t, <1>r, <1>b
  <2>2. link >= base
    BY <1>t, <1>l
  <2> QED
    BY <1>t, <2>1, <2>2
<1>6. CASE link + Links - 1 > StackWords
  <2>1. StackOverflow
    BY <1>6, <1>b, <1>l DEF Enter, FrameBase, LinkWords, m
  <2>2. TypeOK'
    BY <1>2, <2>1 DEF StackOverflow, TypeOK, MachineTypeOK, registers
  <2> QED
    BY <2>1, <2>2, OutOfControl DEF StackOverflow
<1>7. CASE ~ (link + Links - 1 > StackWords)
  <2>1. /\ vm' = "running"
        /\ mem' = Write(mem, link, <<localc, frame, resume, c>>)
        /\ optop' = link + 3
        /\ pc' = m.code /\ c' = k /\ cp' = k /\ frame' = base /\ localc' = m.locals
        /\ acts' = Append([acts EXCEPT ![n].resume = resume], new)
    <3>1. link + Links - 1 = link + 3
      BY DEF Links
    <3> QED
      BY <1>7, <1>n, <1>b, <1>l, <3>1 DEF Enter, FrameBase, LinkWords, m
  <2>2. new \in Activation
    BY <1>1, <1>5 DEF Activation, Null
  <2> HIDE DEF new
  <2>3. /\ acts' \in Seq(Activation)
        /\ Len(acts') = n + 1 /\ n \in 1 .. n
        /\ DOMAIN acts = 1 .. n /\ DOMAIN acts' = 1 .. n + 1
        /\ acts'[n + 1] = new
        /\ \A j \in 1 .. n :
              /\ acts'[j].class = acts[j].class /\ acts'[j].method = acts[j].method
              /\ acts'[j].frame = acts[j].frame /\ acts'[j].localc = acts[j].localc
              /\ acts'[j].resume = IF j = n THEN resume ELSE acts[j].resume
    <3>1. acts' = Append([acts EXCEPT ![Len(acts)].resume = resume], new)
      BY <1>n, <2>1
    <3>2. acts \in Seq(Activation) /\ acts # << >> /\ resume \in Int
      BY <1>3
    <3>3. Pushed(acts', acts, resume, new)
      BY <2>2, <3>1, <3>2, ActsPushed
    <3>4. Len(acts) = n
      BY <1>n
    <3> QED
      BY <3>3, <3>4 DEF Pushed
  <2>4. /\ acts'[n + 1].class = k /\ acts'[n + 1].method = i
        /\ acts'[n + 1].frame = base /\ acts'[n + 1].localc = m.locals
    BY <2>3 DEF new
  <2>5. /\ \A j \in 1 .. n : LinkOf(j)' = LinkOf(j) /\ OperandBase(j)' = LinkOf(j) + 4
        /\ LinkOf(n + 1)' = link /\ OperandBase(n + 1)' = link + 4
    BY <1>l, <2>3, <2>4 DEF LinkOf, OperandBase, Links
  <2>6. link + 3 <= StackWords /\ link >= 1
    <3>1. link + Links - 1 = link + 3
      BY DEF Links
    <3>2. PICK words \in Int : words = StackWords
      BY <1>3
    <3>3. link + 3 <= words
      BY <1>7, <3>1, <3>2
    <3> QED
      BY <1>5, <3>2, <3>3
  <2>7. /\ mem' \in [1 .. StackWords -> Int]
        /\ \A a \in 1 .. StackWords : a < link => mem'[a] = mem[a]
        /\ mem'[link] = localc /\ mem'[link + 1] = frame
        /\ mem'[link + 2] = resume /\ mem'[link + 3] = c
    <3> DEFINE ws == <<localc, frame, resume, c>>
    <3>1. ws \in Seq(Int) /\ Len(ws) = 4
      BY <1>3
    <3>2. ws[1] = localc /\ ws[2] = frame /\ ws[3] = resume /\ ws[4] = c
      OBVIOUS
    <3>3. mem' = Write(mem, link, ws)
      BY <2>1
    <3> HIDE DEF ws
    <3>4. /\ Write(mem, link, ws) \in [1 .. StackWords -> Int]
          /\ \A a \in 1 .. StackWords :
                a \notin link .. link + Len(ws) - 1 => Write(mem, link, ws)[a] = mem[a]
          /\ \A j \in 1 .. Len(ws) :
                link + j - 1 \in 1 .. StackWords => Write(mem, link, ws)[link + j - 1] = ws[j]
      <4>1. mem \in [1 .. StackWords -> Int] /\ link \in Int
        BY <1>3, <1>5
      <4> QED
        BY <3>1, <4>1, WriteWords
    <3>5. \A j \in 1 .. 4 : link + j - 1 \in 1 .. StackWords
      <4>1. StackWords \in Int
        BY <1>3
      <4> QED
        BY <2>6, <4>1
    <3>6. \A j \in 1 .. 4 : mem'[link + j - 1] = ws[j]
      BY <3>1, <3>3, <3>4, <3>5
    <3>7. /\ mem'[link + 1 - 1] = ws[1] /\ mem'[link + 2 - 1] = ws[2]
          /\ mem'[link + 3 - 1] = ws[3] /\ mem'[link + 4 - 1] = ws[4]
      BY <3>6
    <3>8. /\ link + 1 - 1 = link /\ link + 2 - 1 = link + 1
          /\ link + 3 - 1 = link + 2 /\ link + 4 - 1 = link + 3
      BY <1>5
    <3>9. \A a \in 1 .. StackWords : a < link => a \notin link .. link + Len(ws) - 1
      BY <1>5, <3>1
    <3> QED
      BY <3>2, <3>3, <3>4, <3>7, <3>8, <3>9
  <2>8. TypeOK'
    <3>1. optop' \in Int /\ pc' \in Int /\ c' \in Int /\ cp' \in Int
      BY <1>3, <2>1
    <3>2. frame' \in Int /\ localc' \in Int /\ vm' = "running"
      BY <1>t, <2>1
    <3> QED
      BY <2>3, <2>7, <3>1, <3>2 DEF TypeOK, MachineTypeOK
  <2>9. MethodsKnown'
    <3>1. \A j \in 1 .. n : /\ IsMethod(acts'[j].class, acts'[j].method)
                            /\ MethodAt(<<acts'[j].class, acts'[j].method>>).native = "no"
                            /\ MethodAt(<<acts'[j].class, acts'[j].method>>).locals
                                  = acts'[j].localc
                            /\ acts'[j].frame >= 1
      BY <1>2, <2>3 DEF MethodsKnown
    <3>2. MethodAt(<<k, i>>) = m
      BY DEF MethodAt, m
    <3>3. base >= 1
      BY <1>3, <1>4, <1>5
    <3>4. m.native = "no"
      BY DEF m
    <3>5. \A j \in 1 .. n + 1 : j \in 1 .. n \/ j = n + 1
      BY <2>3
    <3> QED
      BY <1>1, <2>3, <2>4, <3>1, <3>2, <3>3, <3>4, <3>5 DEF MethodsKnown
  <2>10. FramesOrdered'
    <3> SUFFICES ASSUME NEW p \in 1 .. n + 1, NEW q \in 1 .. n + 1, p < q
                 PROVE  OperandBase(p)' <= acts'[q].frame
      BY <2>3 DEF FramesOrdered
    <3>1. p \in 1 .. n
      BY <2>3
    <3>2. CASE q \in 1 .. n
      <4>1. OperandBase(p) = LinkOf(p) + 4
        BY DEF OperandBase, Links
      <4>2. OperandBase(p) <= acts[q].frame
        BY <1>2, <2>3, <3>1, <3>2 DEF FramesOrdered
      <4>3. OperandBase(p)' = OperandBase(p) /\ acts'[q].frame = acts[q].frame
        BY <2>3, <2>5, <3>1, <3>2, <4>1
      <4> QED
        BY <4>2, <4>3
    <3>3. CASE q = n + 1
      <4>1. LinkOf(p) \in Int /\ (p # n => LinkOf(p) + 4 <= frame)
        BY <1>4, <2>3, <3>1
      <4>2. p = n => LinkOf(p) = frame + localc
        BY <1>4
      <4>3. OperandBase(p)' = LinkOf(p) + 4 /\ acts'[q].frame = base
        BY <2>4, <2>5, <3>1, <3>3
      <4> QED
        BY <1>t, <1>5, <4>1, <4>2, <4>3, SMTT(30)
    <3> QED
      BY <2>3, <3>2, <3>3
  <2>11. TopFits' /\ RegistersMatch'
    <3>1. OperandBase(Len(acts))' = link + 4 /\ optop' = link + 3
      BY <2>1, <2>3, <2>5
    <3>2. TopFits'
      BY <2>6, <3>1 DEF TopFits
    <3>3. RegistersMatch'
      BY <2>1, <2>3, <2>4 DEF RegistersMatch
    <3> QED
      BY <3>2, <3>3
  <2>12. LinksIntact'
    <3> SUFFICES ASSUME NEW j \in 1 .. n + 1
                 PROVE  IF j = 1
                        THEN mem'[LinkOf(1)' + 2] = ImpdepPc /\ mem'[LinkOf(1)' + 3] = MainClass
                        ELSE Saved(j)' = <<acts'[j - 1].localc, acts'[j - 1].frame,
                                           acts'[j - 1].resume, acts'[j - 1].class>>
      BY <2>3 DEF LinksIntact
    <3>1. CASE j \in 1 .. n
      <4>1. LinkOf(j) \in Int /\ LinkOf(j) >= 1 /\ LinkOf(j) + 4 <= link
        <5>1. LinkOf(j) \in Int /\ LinkOf(j) >= 1 /\ (j # n => LinkOf(j) + 4 <= frame)
          BY <1>4, <2>3, <3>1
        <5>2. j = n => LinkOf(j) = frame + localc
          BY <1>4
        <5> QED
          BY <1>t, <1>5, <5>1, <5>2
      <4>2. \A a \in LinkOf(j) .. LinkOf(j) + 3 : mem'[a] = mem[a]
        <5> SUFFICES ASSUME NEW a \in LinkOf(j) .. LinkOf(j) + 3
                     PROVE  mem'[a] = mem[a]
          OBVIOUS
        <5>1. a \in Int /\ a >= 1 /\ a < link /\ StackWords \in Int
          BY <1>3, <4>1
        <5>2. a \in 1 .. StackWords
          BY <2>6, <5>1
        <5> QED
          BY <2>7, <5>1, <5>2
      <4>3. CASE j = 1
        <5>1. mem'[LinkOf(1) + 2] = mem[LinkOf(1) + 2] /\ mem'[LinkOf(1) + 3] = mem[LinkOf(1) + 3]
          <6>1. LinkOf(j) + 2 \in LinkOf(j) .. LinkOf(j) + 3
            BY <4>1
          <6>2. LinkOf(j) + 3 \in LinkOf(j) .. LinkOf(j) + 3
            BY <4>1
          <6> QED
            BY <4>2, <4>3, <6>1, <6>2
        <5> QED
          BY <1>2, <2>3, <2>5, <3>1, <4>3, <5>1 DEF LinksIntact
      <4>4. CASE j # 1
        <5>1. \A b \in 1 .. 4 : mem'[LinkOf(j) + b - 1] = mem[LinkOf(j) + b - 1]
          <6>1. \A b \in 1 .. 4 : LinkOf(j) + b - 1 \in LinkOf(j) .. LinkOf(j) + 3
            BY <4>1
          <6> QED
            BY <4>2, <6>1
        <5>2. Saved(j)' = [b \in 1 .. 4 |-> mem'[LinkOf(j) + b - 1]]
          BY <2>5, <3>1 DEF Saved, Read, Links
        <5>3. Saved(j) = [b \in 1 .. 4 |-> mem[LinkOf(j) + b - 1]]
          BY DEF Saved, Read, Links
        <5>4. Saved(j)' = Saved(j)
          BY <5>1, <5>2, <5>3
        <5>5. /\ j - 1 \in 1 .. n /\ j - 1 # n
          BY <2>3, <3>1, <4>4
        <5>6. Saved(j) = <<acts[j - 1].localc, acts[j - 1].frame,
                           acts[j - 1].resume, acts[j - 1].class>>
          BY <1>2, <2>3, <3>1, <4>4 DEF LinksIntact
        <5>7. /\ acts'[j - 1].localc = acts[j - 1].localc
              /\ acts'[j - 1].frame = acts[j - 1].frame
              /\ acts'[j - 1].resume = acts[j - 1].resume
              /\ acts'[j - 1].class = acts[j - 1].class
          BY <2>3, <5>5
        <5> QED
          BY <4>4, <5>4, <5>6, <5>7
      <4> QED
        BY <4>3, <4>4
    <3>2. CASE j = n + 1
      <4>1. Saved(n + 1)' = [b \in 1 .. 4 |-> mem'[link + b - 1]]
        BY <2>5 DEF Saved, Read, Links
      <4>2. /\ link + 1 - 1 = link /\ link + 2 - 1 = link + 1
            /\ link + 3 - 1 = link + 2 /\ link + 4 - 1 = link + 3
        BY <1>5
      <4>3. Saved(n + 1)' = <<localc, frame, resume, c>>
        BY <2>7, <4>1, <4>2
      <4>4. /\ acts'[n].localc = localc /\ acts'[n].frame = frame
            /\ acts'[n].resume = resume /\ acts'[n].class = c
        BY <1>2, <2>3 DEF RegistersMatch
      <4>5. j # 1 /\ j - 1 = n
        BY <2>3, <3>2
      <4> QED
        BY <3>2, <4>3, <4>4, <4>5
    <3> QED
      BY <2>3, <3>1, <3>2
  <2>13. StackMapCovered'
    <3> SUFFICES ASSUME NEW j \in 1 .. n + 1
                 PROVE  /\ PcInMethod(j)'
                        /\ (OperandCount(j) + WordsToCome(j))' >= Depth[PcOf(j)']
      BY <2>3 DEF StackMapCovered
    <3>1. CASE j = n + 1
      <4>1. PcOf(j)' = m.code /\ WordsToCome(j)' = 0 /\ OperandTop(j)' = link + 3
        BY <2>1, <2>3, <3>1 DEF PcOf, WordsToCome, OperandTop
      <4>2. OperandCount(j)' = 0
        BY <1>5, <2>5, <3>1, <4>1 DEF OperandCount
      <4> QED
        BY <1>1, <2>4, <3>1, <4>1, <4>2 DEF PcInMethod, m
    <3>2. CASE j = n
      <4>1. /\ PcOf(j)' = resume /\ WordsToCome(j)' = m.ret
            /\ OperandTop(j)' = base - 1
        BY <2>3, <2>4, <3>2 DEF PcOf, WordsToCome, OperandTop, m
      <4>2. OperandCount(j)' = base - 1 - (frame + localc + 4) + 1
        BY <1>4, <2>3, <2>5, <3>2, <4>1 DEF OperandCount
      <4>3. base - 1 - (frame + localc + 4) + 1 + m.ret >= Depth[resume]
        <5>1. Depth[resume] \in Int
          BY <1>3
        <5>2. PICK w \in Int : w = m.ret
          BY <1>t
        <5>3. PICK d \in Int : d = Depth[resume]
          BY <5>1
        <5>4. PICK f \in Int : f = frame + localc + 4
          BY <1>t
        <5>5. base - f + w >= d
          <6>1. PICK a \in Int : a = m.nargs
            BY <1>t
          <6>2. PICK o \in Int : o = optop
            BY <1>t
          <6>3. base = o + 1 - a
            BY <1>b, <6>1, <6>2
          <6>4. o + 1 - a - f + w >= d
            BY <1>r, <5>2, <5>3, <5>4, <6>1, <6>2
          <6> QED
            BY <6>3, <6>4
        <5>6. base - 1 - f + 1 + w >= d
          BY <5>5
        <5> QED
          BY <5>2, <5>3, <5>4, <5>6
      <4>4. PcInMethod(j)'
        BY <2>3, <3>2, <4>1 DEF PcInMethod
      <4> QED
        BY <4>1, <4>2, <4>3, <4>4
    <3>3. CASE j \in 1 .. n /\ j # n
      <4>1. /\ j + 1 \in 1 .. n /\ j # n + 1 /\ j # n
        BY <2>3, <3>3
      <4>2. /\ PcOf(j)' = PcOf(j) /\ WordsToCome(j)' = WordsToCome(j)
            /\ OperandTop(j)' = OperandTop(j)
        <5>1. /\ acts'[j].resume = acts[j].resume
              /\ acts'[j + 1].class = acts[j + 1].class
              /\ acts'[j + 1].method = acts[j + 1].method
              /\ acts'[j + 1].frame = acts[j + 1].frame
          BY <2>3, <3>3, <4>1
        <5>2. Len(acts) = n /\ Len(acts') = n + 1
          BY <1>n, <2>3
        <5>3. PcOf(j)' = acts'[j].resume /\ PcOf(j) = acts[j].resume
          BY <4>1, <5>2 DEF PcOf
        <5>4. /\ WordsToCome(j)' = MethodsOf[acts'[j + 1].class][acts'[j + 1].method].ret
              /\ WordsToCome(j) = MethodsOf[acts[j + 1].class][acts[j + 1].method].ret
          BY <4>1, <5>2 DEF WordsToCome
        <5>5. /\ OperandTop(j)' = acts'[j + 1].frame - 1
              /\ OperandTop(j) = acts[j + 1].frame - 1
          BY <4>1, <5>2 DEF OperandTop
        <5> QED
          BY <5>1, <5>3, <5>4, <5>5
      <4>3. OperandBase(j)' = OperandBase(j)
        BY <2>5, <3>3 DEF OperandBase, Links
      <4>4. PcInMethod(j) /\ OperandCount(j) + WordsToCome(j) >= Depth[PcOf(j)]
        BY <1>2, <2>3, <3>3 DEF StackMapCovered
      <4> QED
        BY <2>3, <3>3, <4>2, <4>3, <4>4 DEF PcInMethod, OperandCount
    <3> QED
      BY <2>3, <3>1, <3>2, <3>3
  <2>14. acts' # << >>
    BY <2>3
  <2> QED
    BY <2>8, <2>9, <2>10, <2>11, <2>12, <2>13, <2>14 DEF IInv, LayoutInv
<1> QED
  BY <1>6, <1>7

----------------------------------------------------------------------------
(* Initialization of classes. *)

\* initialize_static keeps the invariant: it goes on at once or calls the
\* constructor, which takes no operand and leaves none.
LEMMA InitializeStep ==
    ASSUME StartsFit, IInv, InControl, acts # << >>,
           NEW k \in Classes, k \in loaded', loaded' \subseteq Classes, statics' = statics,
           NEW resume \in Addresses,
           Owner[resume] = <<acts[Len(acts)].class, acts[Len(acts)].method>>,
           Owner[resume] = Owner[pc],
           OperandBase(Len(acts)) + Depth[resume] <= optop + 1,
           initialize_static(k, resume)
    PROVE  IInv'
<1>1. PICK i : i = get_static_constructor(k, loaded')
  OBVIOUS
<1>2. MachineTypeOK /\ ClassTypeOK /\ TopFits /\ RegistersMatch
  BY DEF IInv, TypeOK, LayoutInv
<1>3. ClassTypeOK'
  <2>1. inits' \in [Classes -> Nat]
    <3>1. inits' = inits \/ inits' = [inits EXCEPT ![k] = @ + 1]
      BY DEF initialize_static
    <3>2. inits \in [Classes -> Nat]
      BY <1>2 DEF ClassTypeOK
    <3> QED
      BY <3>1, <3>2
  <2> QED
    BY <1>2, <2>1 DEF ClassTypeOK, initialize_static, MarkInitialized
<1>4. /\ frame + localc + 4 = OperandBase(Len(acts))
      /\ frame \in Int /\ localc \in Nat /\ optop \in Int /\ Depth[resume] \in Nat
      /\ mem \in [1 .. StackWords -> Int] /\ optop <= StackWords
  <2>1. localc \in Nat
    BY LinksBelow
  <2> QED
    BY <1>2, <2>1, ProgramShape
       DEF MachineTypeOK, TopFits, RegistersMatch, OperandBase, LinkOf, Links
<1>5. CASE i = 0
  <2>1. /\ vm' = "running" /\ pc' = resume
        /\ UNCHANGED <<c, cp, frame, localc, optop, mem, acts>>
    BY <1>1, <1>5 DEF initialize_static
  <2> QED
    BY <1>3, <1>4, <2>1, StepInFrame
<1>6. CASE i # 0
  <2>1. /\ i \in DOMAIN MethodsOf[k]
        /\ MethodsOf[k][i].native = "no" /\ MethodsOf[k][i].nargs = 0
    BY <1>1, <1>2, <1>6, ConstructorFound
  <2>2. MethodsOf[k][i].ret \in 0 .. 2
    BY <2>1, MethodFacts
  <2>3. Enter(k, i, resume)
    BY <1>1, <1>6, <2>1 DEF initialize_static
  <2>4. frame + localc + 4 + MethodsOf[k][i].nargs <= optop + 1
    BY <1>4, <2>1
  <2>5. optop + 1 - MethodsOf[k][i].nargs - (frame + localc + 4)
           + MethodsOf[k][i].ret >= Depth[resume]
    <3>1. PICK r \in 0 .. 2 : r = MethodsOf[k][i].ret
      BY <2>2
    <3>2. optop + 1 - 0 - (frame + localc + 4) + r >= Depth[resume]
      BY <1>4
    <3> QED
      BY <2>1, <3>1, <3>2
  <2> QED
    BY <1>3, <2>1, <2>3, <2>4, <2>5, EnterStep
<1> QED
  BY <1>5, <1>6

----------------------------------------------------------------------------
(* Returns. *)

\* The history after a return.
LEMMA ActsPopped ==
    ASSUME NEW s \in Seq(Activation), s # << >>, NEW t, t = SubSeq(s, 1, Len(s) - 1)
    PROVE  /\ t \in Seq(Activation) /\ Len(t) = Len(s) - 1 /\ DOMAIN t = 1 .. Len(s) - 1
           /\ \A j \in 1 .. Len(s) - 1 : t[j] = s[j]
<1>1. Len(s) \in Nat /\ Len(s) >= 1 /\ DOMAIN s = 1 .. Len(s)
  OBVIOUS
<1>2. \A j \in 1 .. Len(s) - 1 : s[j] \in Activation
  BY <1>1
<1>3. t = [j \in 1 .. Len(s) - 1 |-> s[j]]
  BY <1>1
<1>4. t \in [1 .. Len(s) - 1 -> Activation]
  BY <1>2, <1>3
<1>5. Len(s) - 1 \in Nat
  BY <1>1
<1> QED
  BY <1>3, <1>4, <1>5, FunctionIsSeq

\* What a return finds in the memory and writes to it.
LEMMA ReturnWords ==
    ASSUME IInv, Return
    PROVE  /\ Code[pc].pops \in 0 .. 2
           /\ Code[pc].pops = MethodAt(Owner[pc]).ret
           /\ frame + Code[pc].pops - 1 <= StackWords
           /\ mem' \in [1 .. StackWords -> Int]
           /\ \A a \in 1 .. StackWords : a < frame => mem'[a] = mem[a]
           /\ optop' = frame + Code[pc].pops - 1
<1> DEFINE w == Code[pc].pops
<1>1. Fetch({"return"})
  BY DEF Return
<1>2. /\ Code[pc].op = "return" /\ InstructionVerified(pc) /\ pc \in Addresses
      /\ Owner[pc] = <<acts[Len(acts)].class, acts[Len(acts)].method>>
      /\ IsMethod(acts[Len(acts)].class, acts[Len(acts)].method)
      /\ frame >= 1 /\ localc \in Nat /\ optop \in Int /\ Depth[pc] \in Nat
      /\ frame + localc + 4 + Depth[pc] <= optop + 1 /\ optop <= StackWords
  BY <1>1, Fetched
<1>3. w = MethodAt(Owner[pc]).ret /\ w <= Depth[pc]
  BY <1>2 DEF InstructionVerified
<1>4. w \in 0 .. 2
  <2>1. MethodAt(Owner[pc]) \in MethodInfo
    <3>1. PICK k \in Classes : \E i \in DOMAIN MethodsOf[k] : Owner[pc] = <<k, i>>
      BY <1>2 DEF IsMethod
    <3> PICK i \in DOMAIN MethodsOf[k] : Owner[pc] = <<k, i>>
      BY <3>1
    <3>2. MethodAt(Owner[pc]) = MethodsOf[k][i]
      BY DEF MethodAt
    <3>3. MethodsOf[k] \in Seq(MethodInfo)
      BY ProgramShape
    <3> QED
      BY <3>2, <3>3
  <2> QED
    BY <1>3, <2>1 DEF MethodInfo
<1>5. /\ frame \in Int /\ mem \in [1 .. StackWords -> Int] /\ StackWords \in Nat
  BY ProgramShape DEF IInv, TypeOK, MachineTypeOK
<1>6. /\ mem' = Write(mem, frame, Read(mem, optop - w + 1, w))
      /\ optop' = frame + w - 1
  BY DEF Return, ResultTop
<1> HIDE DEF w
<1>7. frame + w - 1 <= StackWords /\ optop - w + 1 >= 1
  <2>1. PICK d \in Nat : d = Depth[pc]
    BY <1>2
  <2>2. frame + localc + 4 + d <= optop + 1 /\ w <= d
    BY <1>2, <1>3, <2>1
  <2> QED
    BY <1>2, <1>4, <1>5, <2>2, SMTT(30)
<1>8. Read(mem, optop - w + 1, w) \in Seq(Int) /\ Len(Read(mem, optop - w + 1, w)) = w
  <2>1. \A j \in 1 .. w : optop - w + 1 + j - 1 \in 1 .. StackWords
    BY <1>2, <1>4, <1>5, <1>7
  <2>2. optop - w + 1 \in Int /\ w \in Nat
    BY <1>2, <1>4
  <2> QED
    BY <1>5, <2>1, <2>2, ReadWords
<1>9. /\ mem' \in [1 .. StackWords -> Int]
      /\ \A a \in 1 .. StackWords : a < frame => mem'[a] = mem[a]
  <2> DEFINE ws == Read(mem, optop - w + 1, w)
  <2>1. ws \in Seq(Int) /\ Len(ws) = w
    BY <1>8
  <2>2. mem' = Write(mem, frame, ws)
    BY <1>6
  <2> HIDE DEF ws
  <2>3. /\ Write(mem, frame, ws) \in [1 .. StackWords -> Int]
        /\ \A a \in 1 .. StackWords :
              a \notin frame .. frame + Len(ws) - 1 => Write(mem, frame, ws)[a] = mem[a]
    BY <1>5, <2>1, WriteWords
  <2>4. \A a \in 1 .. StackWords : a < frame => a \notin frame .. frame + Len(ws) - 1
    BY <1>5, <2>1
  <2> QED
    BY <2>2, <2>3, <2>4
<1> QED
  BY <1>3, <1>4, <1>6, <1>7, <1>9 DEF w

\* A return from main leaves nothing but the opcode that ends run().
LEMMA ReturnFromMain ==
    ASSUME IInv, Return, Len(acts) = 1
    PROVE  IInv'
<1>1. /\ MachineTypeOK /\ ClassTypeOK /\ LinksIntact /\ InControl /\ vm' = "running"
      /\ acts # << >>
  BY Fetched DEF IInv, LayoutInv, TypeOK, Return, Fetch, InControl
<1>2. /\ LinkOf(1) = frame + localc /\ 1 \in DOMAIN acts /\ frame + localc >= 1
      /\ frame \in Int /\ localc \in Int /\ localc >= 0
  BY <1>1, LinksBelow DEF MachineTypeOK
<1>3. mem[frame + localc + 2] = ImpdepPc /\ mem[frame + localc + 3] = MainClass
  BY <1>1, <1>2 DEF LinksIntact
<1>4. /\ Fetch({"return"}) /\ StackWords \in Nat
      /\ frame + localc + 4 + Depth[pc] <= optop + 1 /\ optop <= StackWords
      /\ Depth[pc] \in Nat /\ optop \in Int /\ mem \in [1 .. StackWords -> Int]
  BY <1>1, Fetched, ProgramShape DEF Return, MachineTypeOK
<1>5. \A a \in frame + localc .. frame + localc + 3 : mem[a] \in Int
  <2>1. \A a \in frame + localc .. frame + localc + 3 : a \in 1 .. StackWords
    BY <1>2, <1>4
  <2> QED
    BY <1>4, <2>1
<1>6. /\ mem[frame + localc] \in Int /\ mem[frame + localc + 1] \in Int
      /\ mem[frame + localc + 2] \in Int /\ mem[frame + localc + 3] \in Int
  BY <1>2, <1>5
<1>7. acts' = << >> /\ acts' \in Seq(Activation)
  <2>1. acts' = SubSeq(acts, 1, Len(acts) - 1) /\ acts \in Seq(Activation)
    BY <1>1 DEF Return, MachineTypeOK
  <2>2. /\ acts' \in Seq(Activation) /\ Len(acts') = 0
    BY <1>1, <2>1, ActsPopped
  <2> QED
    BY <2>2
<1>8. /\ localc' = mem[frame + localc] /\ frame' = mem[frame + localc + 1]
      /\ pc' = mem[frame + localc + 2] /\ c' = mem[frame + localc + 3] /\ cp' = c'
      /\ optop' = frame + Code[pc].pops - 1
  BY DEF Return, ResultTop
<1>9. /\ optop' \in Int /\ optop' <= StackWords /\ mem' \in [1 .. StackWords -> Int]
  BY <1>2, ReturnWords
<1>10. TypeOK'
  <2>1. ClassTypeOK'
    BY <1>1 DEF ClassTypeOK, Return, UNCHANGED_classes
  <2> QED
    BY <1>1, <1>6, <1>7, <1>8, <1>9, <2>1 DEF TypeOK, MachineTypeOK
<1>11. LayoutInv'
  <2>1. MethodsKnown' /\ FramesOrdered' /\ TopFits' /\ RegistersMatch' /\ LinksIntact'
    BY <1>7, <1>9 DEF MethodsKnown, FramesOrdered, TopFits, RegistersMatch, LinksIntact
  <2> QED
    BY <1>3, <1>8, <2>1 DEF LayoutInv
<1>12. StackMapCovered'
  BY <1>7 DEF StackMapCovered
<1> QED
  BY <1>10, <1>11, <1>12 DEF IInv

\* A return to a caller puts the registers back and the result where the
\* arguments were.
LEMMA ReturnToCaller ==
    ASSUME IInv, Return, Len(acts) # 1
    PROVE  IInv'
<1>1. /\ MachineTypeOK /\ ClassTypeOK /\ LinksIntact /\ InControl /\ vm' = "running"
      /\ acts # << >> /\ MethodsKnown /\ FramesOrdered /\ RegistersMatch /\ StackMapCovered
  BY Fetched DEF IInv, LayoutInv, TypeOK, Return, Fetch, InControl
<1>2. PICK n \in Nat : Len(acts) = n + 1 /\ n >= 1
  <2>1. Len(acts) \in Nat /\ Len(acts) >= 1
    BY <1>1 DEF MachineTypeOK
  <2>2. PICK l \in Nat : l = Len(acts) /\ l >= 1 /\ l # 1
    BY <2>1
  <2>3. l - 1 \in Nat /\ l = (l - 1) + 1 /\ l - 1 >= 1
    BY <2>2
  <2> QED
    BY <2>2, <2>3
<1>3. /\ acts \in Seq(Activation) /\ DOMAIN acts = 1 .. n + 1
      /\ \A j \in 1 .. n + 1 :
            /\ acts[j] \in Activation /\ LinkOf(j) \in Int /\ LinkOf(j) >= 1
            /\ j # n + 1 => LinkOf(j) + 4 <= frame
      /\ LinkOf(n + 1) = frame + localc
      /\ frame \in Int /\ frame >= 1 /\ StackWords \in Nat
  <2>1. acts \in Seq(Activation) /\ DOMAIN acts = 1 .. n + 1
    BY <1>1, <1>2 DEF MachineTypeOK
  <2>2. frame \in Int /\ StackWords \in Nat
    BY <1>1, ProgramShape DEF MachineTypeOK
  <2> QED
    BY <1>1, <1>2, <2>1, <2>2, LinksBelow
<1>4. /\ acts' \in Seq(Activation) /\ Len(acts') = n /\ DOMAIN acts' = 1 .. n
      /\ \A j \in 1 .. n : acts'[j] = acts[j]
  <2>1. SubSeq(acts, 1, Len(acts) - 1) = acts'
    BY DEF Return
  <2>2. Len(acts) - 1 = n
    BY <1>2
  <2> QED
    BY <1>1, <1>3, <2>1, <2>2, ActsPopped
<1>5. n \in 1 .. n /\ n \in 1 .. n + 1 /\ n + 1 \in 1 .. n + 1 /\ n + 1 # 1
  BY <1>2
<1>6. /\ localc' = acts[n].localc /\ frame' = acts[n].frame
      /\ pc' = acts[n].resume /\ c' = acts[n].class /\ cp' = c'
  <2>1. Saved(n + 1) = <<acts[n].localc, acts[n].frame, acts[n].resume, acts[n].class>>
    <3>1. \A j \in 1 .. n + 1 :
             j # 1 => Saved(j) = <<acts[j - 1].localc, acts[j - 1].frame,
                                   acts[j - 1].resume, acts[j - 1].class>>
      BY <1>1, <1>3 DEF LinksIntact
    <3>2. PICK j \in 1 .. n + 1 : j = n + 1 /\ j # 1 /\ j - 1 = n
      BY <1>5
    <3> QED
      BY <3>1, <3>2
  <2>2. Saved(n + 1) = [b \in 1 .. 4 |-> mem[LinkOf(n + 1) + b - 1]]
    BY DEF Saved, Read, Links
  <2>3. \A b \in 1 .. 4 : Saved(n + 1)[b] = mem[LinkOf(n + 1) + b - 1]
    BY <2>2
  <2>4. /\ Saved(n + 1)[1] = mem[LinkOf(n + 1) + 1 - 1]
        /\ Saved(n + 1)[2] = mem[LinkOf(n + 1) + 2 - 1]
        /\ Saved(n + 1)[3] = mem[LinkOf(n + 1) + 3 - 1]
        /\ Saved(n + 1)[4] = mem[LinkOf(n + 1) + 4 - 1]
    BY <2>3
  <2>5. PICK link \in Int : link = LinkOf(n + 1) /\ link = frame + localc
    BY <1>3, <1>5
  <2>6. /\ link + 1 - 1 = link /\ link + 2 - 1 = link + 1
        /\ link + 3 - 1 = link + 2 /\ link + 4 - 1 = link + 3
    OBVIOUS
  <2>7. /\ Saved(n + 1)[1] = mem[link] /\ Saved(n + 1)[2] = mem[link + 1]
        /\ Saved(n + 1)[3] = mem[link + 2] /\ Saved(n + 1)[4] = mem[link + 3]
    BY <2>4, <2>5, <2>6
  <2>8. /\ localc' = mem[link] /\ frame' = mem[link + 1]
        /\ pc' = mem[link + 2] /\ c' = mem[link + 3] /\ cp' = c'
    BY <2>5 DEF Return
  <2> QED
    BY <2>1, <2>7, <2>8
<1>7. /\ mem' \in [1 .. StackWords -> Int]
      /\ \A a \in 1 .. StackWords : a < frame => mem'[a] = mem[a]
  BY ReturnWords
<1>8. PICK w \in 0 .. 2 :
         /\ optop' = frame + w - 1 /\ optop' <= StackWords
         /\ w = MethodAt(<<acts[n + 1].class, acts[n + 1].method>>).ret
  <2>1. Owner[pc] = <<acts[n + 1].class, acts[n + 1].method>>
    BY <1>2, Fetched DEF Return
  <2>2. frame + Code[pc].pops - 1 <= StackWords /\ Code[pc].pops \in 0 .. 2
    BY ReturnWords
  <2> QED
    BY <2>1, <2>2, ReturnWords
<1>9. TypeOK'
  <2>1. ClassTypeOK'
    BY <1>1 DEF ClassTypeOK, Return, UNCHANGED_classes
  <2>2. /\ localc' \in Int /\ frame' \in Int /\ pc' \in Int /\ c' \in Int
    <3>1. acts[n] \in Activation
      BY <1>3, <1>5
    <3>2. acts[n].class \in Classes /\ Classes \subseteq Int
      BY <3>1, ProgramShape DEF Activation
    <3>3. acts[n].localc \in Int /\ acts[n].frame \in Int /\ acts[n].resume \in Int
      BY <3>1 DEF Activation
    <3>4. acts[n].class \in Int
      BY <3>2
    <3> QED
      BY <1>6, <3>3, <3>4
  <2>3. optop' \in Int
    BY <1>3, <1>8
  <2> QED
    BY <1>1, <1>4, <1>6, <1>7, <2>1, <2>2, <2>3 DEF TypeOK, MachineTypeOK
<1>10. \A j \in 1 .. n : /\ LinkOf(j)' = LinkOf(j)
                         /\ OperandBase(j)' = OperandBase(j)
                         /\ OperandBase(j) = LinkOf(j) + 4
                         /\ LinkOf(j) \in Int /\ LinkOf(j) >= 1 /\ LinkOf(j) + 4 <= frame
  <2>1. \A j \in 1 .. n : j \in 1 .. n + 1 /\ j # n + 1
    OBVIOUS
  <2> QED
    BY <1>3, <1>4, <2>1 DEF LinkOf, OperandBase, Links
<1>11. MethodsKnown' /\ FramesOrdered' /\ RegistersMatch'
  <2>1. \A j \in 1 .. n : j \in 1 .. n + 1
    OBVIOUS
  <2>2. MethodsKnown'
    BY <1>1, <1>3, <1>4, <2>1 DEF MethodsKnown
  <2>3. FramesOrdered'
    BY <1>1, <1>3, <1>4, <1>10, <2>1 DEF FramesOrdered
  <2>4. RegistersMatch'
    BY <1>4, <1>5, <1>6 DEF RegistersMatch
  <2> QED
    BY <2>2, <2>3, <2>4
<1>12. TopFits'
  <2>1. OperandBase(n) <= optop' + 1
    <3>1. OperandBase(n) \in Int /\ OperandBase(n) <= frame
      BY <1>5, <1>10
    <3> QED
      BY <1>3, <1>8, <3>1, SMTT(30)
  <2> QED
    BY <1>4, <1>5, <1>8, <1>10, <2>1 DEF TopFits
<1>13. LinksIntact'
  <2> SUFFICES ASSUME NEW j \in 1 .. n
               PROVE  IF j = 1
                      THEN mem'[LinkOf(1)' + 2] = ImpdepPc /\ mem'[LinkOf(1)' + 3] = MainClass
                      ELSE Saved(j)' = <<acts'[j - 1].localc, acts'[j - 1].frame,
                                         acts'[j - 1].resume, acts'[j - 1].class>>
    BY <1>4 DEF LinksIntact
  <2>1. \A b \in 0 .. 3 : mem'[LinkOf(j) + b] = mem[LinkOf(j) + b]
    <3> SUFFICES ASSUME NEW b \in 0 .. 3 PROVE mem'[LinkOf(j) + b] = mem[LinkOf(j) + b]
      OBVIOUS
    <3>1. LinkOf(j) \in Int /\ LinkOf(j) >= 1 /\ LinkOf(j) + 4 <= frame
      BY <1>10
    <3>2. LinkOf(j) + b \in Int /\ LinkOf(j) + b >= 1 /\ LinkOf(j) + b < frame
      BY <1>3, <3>1
    <3>3. frame <= StackWords + 1
      BY <1>3, <1>8
    <3>4. LinkOf(j) + b \in 1 .. StackWords
      BY <1>3, <3>2, <3>3
    <3> QED
      BY <1>7, <3>2, <3>4
  <2>2. j \in 1 .. n + 1
    OBVIOUS
  <2>3. CASE j = 1
    <3>1. mem'[LinkOf(1) + 2] = mem[LinkOf(1) + 2] /\ mem'[LinkOf(1) + 3] = mem[LinkOf(1) + 3]
      BY <2>1, <2>3
    <3> QED
      BY <1>1, <1>3, <1>10, <2>2, <2>3, <3>1 DEF LinksIntact
  <2>4. CASE j # 1
    <3>1. \A b \in 1 .. 4 : mem'[LinkOf(j) + b - 1] = mem[LinkOf(j) + b - 1]
      <4> SUFFICES ASSUME NEW b \in 1 .. 4
                   PROVE  mem'[LinkOf(j) + b - 1] = mem[LinkOf(j) + b - 1]
        OBVIOUS
      <4>1. b - 1 \in 0 .. 3 /\ LinkOf(j) + b - 1 = LinkOf(j) + (b - 1)
        BY <1>10
      <4> QED
        BY <2>1, <4>1
    <3>2. Saved(j)' = [b \in 1 .. 4 |-> mem'[LinkOf(j) + b - 1]]
      BY <1>10 DEF Saved, Read, Links
    <3>3. Saved(j) = [b \in 1 .. 4 |-> mem[LinkOf(j) + b - 1]]
      BY DEF Saved, Read, Links
    <3>4. Saved(j)' = Saved(j)
      BY <3>1, <3>2, <3>3
    <3>5. Saved(j) = <<acts[j - 1].localc, acts[j - 1].frame,
                       acts[j - 1].resume, acts[j - 1].class>>
      BY <1>1, <1>3, <2>2, <2>4 DEF LinksIntact
    <3>6. acts'[j - 1] = acts[j - 1]
      <4>1. j - 1 \in 1 .. n
        BY <2>4
      <4> QED
        BY <1>4, <4>1
    <3> QED
      BY <2>4, <3>4, <3>5, <3>6
  <2> QED
    BY <2>3, <2>4
<1>14. StackMapCovered'
  <2> SUFFICES ASSUME NEW j \in 1 .. n
               PROVE  /\ PcInMethod(j)'
                      /\ (OperandCount(j) + WordsToCome(j))' >= Depth[PcOf(j)']
    BY <1>4 DEF StackMapCovered
  <2>1. j \in 1 .. n + 1 /\ j # n + 1 /\ j + 1 \in 1 .. n + 1 /\ acts'[j] = acts[j]
    BY <1>4
  <2>2. /\ PcInMethod(j) /\ OperandCount(j) + WordsToCome(j) >= Depth[PcOf(j)]
        /\ PcOf(j) = acts[j].resume
        /\ OperandCount(j) = acts[j + 1].frame - 1 - OperandBase(j) + 1
        /\ WordsToCome(j) = MethodsOf[acts[j + 1].class][acts[j + 1].method].ret
    BY <1>1, <1>2, <1>3, <2>1
       DEF StackMapCovered, PcOf, OperandCount, OperandTop, WordsToCome
  <2>3. PcOf(j)' = PcOf(j)
    BY <1>4, <1>6, <2>1, <2>2 DEF PcOf
  <2>4. PcInMethod(j)'
    BY <2>1, <2>2, <2>3 DEF PcInMethod
  <2>5. CASE j = n
    <3>1. WordsToCome(j)' = 0 /\ OperandTop(j)' = optop'
      BY <1>4, <2>5 DEF WordsToCome, OperandTop
    <3>2. WordsToCome(j) = w
      BY <1>8, <2>2, <2>5 DEF MethodAt
    <3>3. acts[n + 1].frame = frame
      BY <1>1, <1>2 DEF RegistersMatch
    <3>4. OperandCount(j)' = optop' - OperandBase(j) + 1
      BY <1>10, <3>1 DEF OperandCount
    <3>5. OperandCount(j) = frame - 1 - OperandBase(j) + 1
      BY <2>2, <2>5, <3>3
    <3>6. OperandCount(j)' + 0 = OperandCount(j) + w
      <4>1. OperandBase(j) \in Int /\ frame \in Int /\ w \in Int
        <5>1. OperandBase(j) \in Int
          BY <1>10
        <5>2. frame \in Int
          BY <1>3
        <5>3. w \in Int
          BY <1>8
        <5> QED
          BY <5>1, <5>2, <5>3
      <4> QED
        BY <1>8, <3>4, <3>5, <4>1
    <3> QED
      BY <2>2, <2>3, <2>4, <3>1, <3>2, <3>6
  <2>6. CASE j # n
    <3>1. j + 1 \in 1 .. n
      BY <2>6
    <3>2. OperandTop(j)' = acts[j + 1].frame - 1
      BY <1>4, <2>6, <3>1 DEF OperandTop
    <3>3. OperandCount(j)' = OperandCount(j)
      BY <1>10, <2>2, <3>2 DEF OperandCount
    <3>4. WordsToCome(j)' = WordsToCome(j)
      BY <1>4, <2>2, <2>6, <3>1 DEF WordsToCome
    <3> QED
      BY <2>2, <2>3, <2>4, <3>3, <3>4
  <2> QED
    BY <2>5, <2>6
<1>15. acts' # << >>
  BY <1>4, <1>5
<1> QED
  BY <1>9, <1>11, <1>12, <1>13, <1>14, <1>15 DEF IInv, LayoutInv

----------------------------------------------------------------------------
(* The steps of the interpreter. *)

\* What the compiler guarantees about going on behind the instruction.
LEMMA FlowsOn ==
    ASSUME IInv, NEW ops, Fetch(ops), Code[pc].op \notin {"return", "branch", "not_sup"}
    PROVE  /\ Next_pc \in Addresses /\ Owner[Next_pc] = Owner[pc]
           /\ Depth[Next_pc] = Depth[pc] - Code[pc].pops + Code[pc].pushes
           /\ Code[pc].pops \in Nat /\ Code[pc].pushes \in Nat
           /\ Code[pc].pops <= Depth[pc] /\ Depth[pc] \in Nat
BY Fetched DEF InstructionVerified, FlowsTo, Next_pc, Instruction

\* Words that a computation produces.
LEMMA WordsSeq ==
    ASSUME NEW n \in Nat, NEW ws \in Words(n)
    PROVE  ws \in Seq(Int) /\ Len(ws) = n
<1>1. ws \in [1 .. n -> Int]
  BY ProgramShape DEF Words
<1> QED
  BY <1>1, FunctionIsSeq

\* The variables about classes do not change in most steps.
LEMMA ClassesUnchanged ==
    ASSUME IInv, UNCHANGED_classes
    PROVE  ClassTypeOK'
BY DEF IInv, TypeOK, ClassTypeOK, UNCHANGED_classes

LEMMA ComputeStep ==
    ASSUME IInv, Constant \/ Pop \/ Operate
    PROVE  IInv'
<1>1. ClassTypeOK'
  BY ClassesUnchanged DEF Constant, Pop, Operate
<1>2. CASE Constant
  <2>1. PICK ws \in Words(Code[pc].pushes) : Operands(0, ws, Next_pc)
    BY <1>2 DEF Constant
  <2>2. Fetch({"const"}) /\ Code[pc].op = "const" /\ InstructionVerified(pc)
    BY <1>2, Fetched DEF Constant
  <2>3. Code[pc].pops = 0
    BY <2>2 DEF InstructionVerified
  <2>4. /\ Next_pc \in Addresses /\ Owner[Next_pc] = Owner[pc]
        /\ Depth[Next_pc] = Depth[pc] - Code[pc].pops + Code[pc].pushes
        /\ Code[pc].pushes \in Nat /\ Depth[pc] \in Nat
    BY <2>2, FlowsOn
  <2>5. ws \in Seq(Int) /\ Len(ws) = Code[pc].pushes
    BY <2>4, WordsSeq
  <2>6. Depth[Next_pc] = Depth[pc] - 0 + Len(ws)
    BY <2>3, <2>4, <2>5
  <2> QED
    BY <1>1, <2>1, <2>2, <2>4, <2>5, <2>6, OperandsStep
<1>3. CASE Pop
  <2>1. Fetch({"pop"}) /\ Operands(Code[pc].pops, << >>, Next_pc)
    BY <1>3 DEF Pop
  <2>2. Code[pc].op = "pop" /\ InstructionVerified(pc)
    BY <2>1, Fetched
  <2>3. Code[pc].pushes = 0
    BY <2>2 DEF InstructionVerified
  <2>4. /\ Next_pc \in Addresses /\ Owner[Next_pc] = Owner[pc]
        /\ Depth[Next_pc] = Depth[pc] - Code[pc].pops + Code[pc].pushes
        /\ Code[pc].pops \in Nat /\ Code[pc].pops <= Depth[pc]
    BY <2>1, <2>2, FlowsOn
  <2>5. << >> \in Seq(Int) /\ Len(<< >>) = 0
    OBVIOUS
  <2> QED
    BY <1>1, <2>1, <2>3, <2>4, <2>5, OperandsStep
<1>4. CASE Operate
  <2>1. PICK ws \in Words(Code[pc].pushes) : Operands(Code[pc].pops, ws, Next_pc)
    BY <1>4 DEF Operate
  <2>2. Fetch({"operate"}) /\ Code[pc].op = "operate"
    BY <1>4, Fetched DEF Operate
  <2>3. /\ Next_pc \in Addresses /\ Owner[Next_pc] = Owner[pc]
        /\ Depth[Next_pc] = Depth[pc] - Code[pc].pops + Code[pc].pushes
        /\ Code[pc].pops \in Nat /\ Code[pc].pops <= Depth[pc] /\ Code[pc].pushes \in Nat
    BY <2>2, FlowsOn
  <2>4. ws \in Seq(Int) /\ Len(ws) = Code[pc].pushes
    BY <2>3, WordsSeq
  <2> QED
    BY <1>1, <2>1, <2>2, <2>3, <2>4, OperandsStep
<1> QED
  BY <1>2, <1>3, <1>4

\* The words of a range between the bottom and the top of the memory.
LEMMA WordsInside ==
    ASSUME NEW f \in Int, NEW w \in Nat, NEW top \in Int, f >= 1, f + w - 1 <= top
    PROVE  \A j \in 1 .. w : f + j - 1 \in 1 .. top
OBVIOUS

LEMMA LoadStep ==
    ASSUME IInv, Load
    PROVE  IInv'
<1> DEFINE w == Code[pc].pushes
           ws == Read(mem, frame + Code[pc].arg, w)
<1>1. Fetch({"load"}) /\ Operands(0, ws, Next_pc) /\ ClassTypeOK'
  BY ClassesUnchanged DEF Load
<1>2. /\ Code[pc].op = "load" /\ InstructionVerified(pc)
      /\ MethodAt(Owner[pc]).locals = localc
      /\ frame >= 1 /\ localc \in Nat /\ optop \in Int /\ Depth[pc] \in Nat
      /\ frame + localc + 4 + Depth[pc] <= optop + 1 /\ optop <= StackWords
      /\ Code[pc] \in Instruction
  BY <1>1, Fetched
<1>3. /\ Code[pc].pops = 0 /\ Code[pc].arg \in 0 .. localc - w /\ w \in Nat
  BY <1>2 DEF InstructionVerified, Instruction
<1>4. /\ Next_pc \in Addresses /\ Owner[Next_pc] = Owner[pc]
      /\ Depth[Next_pc] = Depth[pc] - 0 + w
  <2>1. /\ Next_pc \in Addresses /\ Owner[Next_pc] = Owner[pc]
        /\ Depth[Next_pc] = Depth[pc] - Code[pc].pops + Code[pc].pushes
    BY <1>1, <1>2, FlowsOn
  <2> QED
    BY <1>3, <2>1
<1>5. frame \in Int /\ mem \in [1 .. StackWords -> Int] /\ StackWords \in Nat
  BY ProgramShape DEF IInv, TypeOK, MachineTypeOK
<1>6. ws \in Seq(Int) /\ Len(ws) = w
  <2> PICK a \in Nat : a = Code[pc].arg /\ a + w <= localc
    BY <1>2, <1>3
  <2> HIDE DEF w
  <2>0. frame + localc <= StackWords /\ w \in Nat /\ localc \in Nat /\ a + w <= localc
    BY <1>2, <1>3, <1>5
  <2>1. \A j \in 1 .. w : frame + a + j - 1 \in 1 .. StackWords
    <3>1. frame \in Int /\ frame >= 1
      BY <1>2, <1>5
    <3>f. PICK f \in Int : f = frame + a
      BY <3>1
    <3>2. f >= 1 /\ f + w - 1 <= StackWords
      <4>1. PICK g \in Int : g = frame
        BY <3>1
      <4>2. PICK l \in Nat : l = localc
        BY <2>0
      <4>3. PICK v \in Nat : v = w
        BY <2>0
      <4>4. PICK words \in Int : words = StackWords
        BY <1>5
      <4>5. f = g + a /\ g >= 1 /\ a + v <= l /\ g + l <= words
        BY <2>0, <3>1, <3>f, <4>1, <4>2, <4>3, <4>4
      <4>6. f >= 1 /\ f + v - 1 <= words
        BY <4>5
      <4> QED
        BY <4>3, <4>4, <4>6
    <3>3. \A j \in 1 .. w : f + j - 1 \in 1 .. StackWords
      <4>1. f \in Int /\ w \in Nat /\ StackWords \in Int
        BY <1>5, <2>0
      <4>2. f >= 1 /\ f + w - 1 <= StackWords
        BY <3>2
      <4> HIDE <3>2
      <4> QED
        BY <4>1, <4>2, WordsInside
    <3>4. \A j \in 1 .. w : f + j - 1 = frame + a + j - 1
      BY <3>f
    <3> QED
      BY <3>3, <3>4
  <2>2. frame + a \in Int
    BY <1>5
  <2> QED
    BY <1>3, <1>5, <2>1, <2>2, ReadWords
<1> HIDE DEF ws, w
<1> QED
  BY <1>1, <1>2, <1>4, <1>6, OperandsStep

\* An instruction that writes local variables of its own method: all saved
\* registers are in front of them or behind them.
LEMMA LocalsStep ==
    ASSUME IInv, NEW ops, Fetch(ops), ClassTypeOK', UNCHANGED <<vm, c, cp, frame, localc, acts>>,
           NEW a \in Nat, NEW ws \in Seq(Int), a + Len(ws) <= localc,
           mem' = Write(mem, frame + a, ws),
           NEW n \in Nat, n <= Depth[pc], optop' = optop - n,
           pc' \in Addresses, Owner[pc'] = Owner[pc], Depth[pc'] = Depth[pc] - n
    PROVE  IInv'
<1> PICK w \in Nat : w = Len(ws) /\ a + w <= localc
  OBVIOUS
<1>2. /\ acts # << >>
      /\ frame >= 1 /\ localc \in Nat /\ optop \in Int /\ Depth[pc] \in Nat
      /\ frame + localc + 4 + Depth[pc] <= optop + 1 /\ optop <= StackWords
      /\ OperandBase(Len(acts)) = frame + localc + 4
  BY Fetched
<1>5. frame \in Int /\ mem \in [1 .. StackWords -> Int] /\ StackWords \in Nat /\ InControl
  BY ProgramShape DEF IInv, TypeOK, MachineTypeOK, Fetch, InControl
<1>6. ws \in Seq(Int) /\ Len(ws) = w
  OBVIOUS
<1>7. /\ Write(mem, frame + a, ws) \in [1 .. StackWords -> Int]
      /\ \A x \in 1 .. StackWords :
            x \notin frame + a .. frame + a + Len(ws) - 1 => Write(mem, frame + a, ws)[x] = mem[x]
  <2>1. PICK first \in Int : first = frame + a
    BY <1>5
  <2>2. /\ Write(mem, first, ws) \in [1 .. StackWords -> Int]
        /\ \A x \in 1 .. StackWords :
              x \notin first .. first + Len(ws) - 1 => Write(mem, first, ws)[x] = mem[x]
    BY <1>5, <1>6, WriteWords, ZenonT(30)
  <2> QED
    BY <2>1, <2>2
<1>8. ASSUME NEW i \in DOMAIN acts, NEW x \in LinkOf(i) .. LinkOf(i) + 3
      PROVE  mem'[x] = mem[x]
  <2>1. /\ LinkOf(i) \in Int /\ LinkOf(i) >= 1
        /\ i # Len(acts) => LinkOf(i) + 4 <= frame
        /\ LinkOf(Len(acts)) = frame + localc
    BY <1>2, <1>5, LinksBelow
  <2>2. x \in Int /\ x >= 1 /\ x <= frame + localc + 3
    BY <1>2, <1>5, <2>1
  <2>3. x < frame \/ x >= frame + localc
    <3>1. CASE i = Len(acts)
      BY <1>2, <1>5, <2>1, <3>1
    <3>2. CASE i # Len(acts)
      <4>1. x <= LinkOf(i) + 3 /\ LinkOf(i) + 4 <= frame
        BY <2>1, <3>2
      <4> QED
        BY <1>5, <2>1, <2>2, <4>1
    <3> QED
      BY <3>1, <3>2
  <2>4. x \in 1 .. StackWords
    BY <1>2, <1>5, <2>2
  <2>5. x \notin frame + a .. frame + a + Len(ws) - 1
    <3>1. frame \in Int /\ localc \in Int /\ w \in Nat /\ x \in Int
      BY <1>2, <1>5, <2>2
    <3>2. frame + a \in Int /\ frame + a >= frame /\ frame + a + w - 1 < frame + localc
      BY <3>1, SMTT(30)
    <3>3. \A f, l \in Int : x < f \/ x > l => x \notin f .. l
      BY <3>1
    <3>4. frame + a + w - 1 \in Int /\ frame + localc \in Int
      BY <3>1
    <3>5. x < frame + a \/ x > frame + a + w - 1
      BY <2>3, <3>1, <3>2, <3>4
    <3>6. x \notin frame + a .. frame + a + w - 1
      BY <3>2, <3>3, <3>4, <3>5
    <3> QED
      BY <1>6, <3>6
  <2> QED
    BY <1>7, <2>4, <2>5
<1>9. OperandBase(Len(acts)) + Depth[pc'] <= optop' + 1
  <2>1. PICK d \in Nat : d = Depth[pc]
    BY <1>2
  <2>2. PICK base \in Int : base = OperandBase(Len(acts)) /\ base = frame + localc + 4
    BY <1>2, <1>5
  <2>3. PICK top \in Int : top = optop
    BY <1>2
  <2>4. base + d <= top + 1
    BY <1>2, <1>5, <2>1, <2>2, <2>3
  <2>5. Depth[pc'] = d - n /\ optop' = top - n
    BY <2>1, <2>3
  <2>6. base + (d - n) <= (top - n) + 1
    BY <2>4
  <2> QED
    BY <2>2, <2>5, <2>6
<1>10. optop' \in Int /\ optop' <= StackWords /\ vm' = "running"
  BY <1>2, <1>5 DEF Fetch
<1> QED
  BY <1>2, <1>5, <1>7, <1>8, <1>9, <1>10, StepInFrame

LEMMA StoreStep ==
    ASSUME IInv, Store
    PROVE  IInv'
<1> DEFINE w == Code[pc].pops
           ws == Read(mem, optop - w + 1, w)
<1>1. /\ Fetch({"store"}) /\ ClassTypeOK' /\ mem' = Write(mem, frame + Code[pc].arg, ws)
      /\ optop' = optop - w /\ pc' = Next_pc
      /\ UNCHANGED <<vm, c, cp, frame, localc, acts>>
  BY ClassesUnchanged DEF Store
<1>2. /\ Code[pc].op = "store" /\ InstructionVerified(pc)
      /\ MethodAt(Owner[pc]).locals = localc
      /\ frame >= 1 /\ localc \in Nat /\ optop \in Int /\ Depth[pc] \in Nat
      /\ frame + localc + 4 + Depth[pc] <= optop + 1 /\ optop <= StackWords
  BY <1>1, Fetched
<1>3. Code[pc].pushes = 0 /\ Code[pc].arg \in 0 .. localc - w
  BY <1>2 DEF InstructionVerified
<1>4. /\ Next_pc \in Addresses /\ Owner[Next_pc] = Owner[pc] /\ Depth[Next_pc] = Depth[pc] - w
      /\ w \in Nat /\ w <= Depth[pc]
  <2>1. /\ Next_pc \in Addresses /\ Owner[Next_pc] = Owner[pc]
        /\ Depth[Next_pc] = Depth[pc] - Code[pc].pops + Code[pc].pushes
        /\ Code[pc].pops \in Nat /\ Code[pc].pops <= Depth[pc] /\ Depth[pc] \in Nat
    BY <1>1, <1>2, FlowsOn
  <2> QED
    BY <1>3, <2>1
<1>5. frame \in Int /\ mem \in [1 .. StackWords -> Int] /\ StackWords \in Nat /\ InControl
  BY <1>1, ProgramShape DEF IInv, TypeOK, MachineTypeOK, Fetch, InControl
<1> PICK a \in Nat : a = Code[pc].arg /\ a + w <= localc
  BY <1>2, <1>3, <1>4
<1> HIDE DEF w
<1>6. ws \in Seq(Int) /\ Len(ws) = w
  <2>0. w <= optop
    BY <1>2, <1>4, <1>5
  <2>1. \A j \in 1 .. w : optop - w + 1 + j - 1 \in 1 .. StackWords
    BY <1>2, <1>4, <1>5, <2>0
  <2>2. optop - w + 1 \in Int
    BY <1>2, <1>4
  <2> QED
    BY <1>4, <1>5, <2>1, <2>2, ReadWords
<1> HIDE DEF ws
<1> QED
  BY <1>1, <1>2, <1>4, <1>6, LocalsStep

LEMMA IincStep ==
    ASSUME IInv, iinc
    PROVE  IInv'
<1>1. /\ Fetch({"iinc"}) /\ ClassTypeOK' /\ optop' = optop - 0 /\ pc' = Next_pc
      /\ UNCHANGED <<vm, c, cp, frame, localc, acts>>
  <2>1. Fetch({"iinc"})
    BY DEF iinc
  <2>2. optop \in Int
    BY <2>1, Fetched
  <2> QED
    BY <2>1, <2>2, ClassesUnchanged DEF iinc
<1>2. PICK ws \in Words(1) : mem' = Write(mem, frame + Code[pc].arg, ws)
  BY DEF iinc
<1>3. Code[pc].op = "iinc" /\ InstructionVerified(pc) /\ MethodAt(Owner[pc]).locals = localc
  BY <1>1, Fetched
<1>4. Code[pc].pops = 0 /\ Code[pc].pushes = 0 /\ Code[pc].arg \in 0 .. localc - 1
  BY <1>3 DEF InstructionVerified
<1>5. ws \in Seq(Int) /\ Len(ws) = 1
  BY <1>2, WordsSeq
<1>6. /\ Next_pc \in Addresses /\ Owner[Next_pc] = Owner[pc]
      /\ Depth[Next_pc] = Depth[pc] - 0 /\ 0 <= Depth[pc] /\ localc \in Nat
  <2>1. /\ Next_pc \in Addresses /\ Owner[Next_pc] = Owner[pc]
        /\ Depth[Next_pc] = Depth[pc] - Code[pc].pops + Code[pc].pushes
        /\ Depth[pc] \in Nat /\ localc \in Nat
    BY <1>1, <1>3, Fetched, FlowsOn
  <2> QED
    BY <1>4, <2>1
<1>7. Code[pc].arg \in Nat /\ Code[pc].arg + Len(ws) <= localc
  BY <1>4, <1>5, <1>6
<1> QED
  BY <1>1, <1>2, <1>5, <1>6, <1>7, LocalsStep

LEMMA BranchStep ==
    ASSUME IInv, Branch
    PROVE  IInv'
<1>1. Fetch({"branch"}) /\ ClassTypeOK'
  BY ClassesUnchanged DEF Branch
<1>2. PICK t \in Code[pc].targets : Operands(Code[pc].pops, << >>, t)
  BY DEF Branch
<1>3. /\ InstructionVerified(pc) /\ Code[pc].op = "branch" /\ Code[pc] \in Instruction
      /\ Depth[pc] \in Nat
  BY <1>1, Fetched
<1>4. /\ t \in Addresses /\ Owner[t] = Owner[pc] /\ Code[pc].pushes = 0
      /\ Depth[t] = Depth[pc] - Code[pc].pops + Code[pc].pushes
      /\ Code[pc].pops <= Depth[pc] /\ Code[pc].pops \in Nat
  BY <1>3 DEF InstructionVerified, FlowsTo, Instruction
<1>5. << >> \in Seq(Int) /\ Len(<< >>) = 0
  OBVIOUS
<1> QED
  BY <1>1, <1>2, <1>4, <1>5, OperandsStep

\* Every way to stop leaves values of the right type behind.
LEMMA StopStep ==
    ASSUME IInv, Abort \/ ResolveFails \/ UnsupportedField \/ impdep1
    PROVE  IInv'
<1>1. MachineTypeOK /\ ClassTypeOK
  BY DEF IInv, TypeOK
<1>2. vm' \in {"aborted", "exited"} /\ UNCHANGED <<registers, mem, acts>>
  BY DEF Abort, ResolveFails, UnsupportedField, impdep1
<1>3. loaded' \subseteq Classes /\ UNCHANGED <<static_initialized, statics, inits>>
  BY <1>1 DEF Abort, ResolveFails, UnsupportedField, impdep1, UNCHANGED_classes,
              ClassTypeOK, Initialized, Resolves
<1>4. TypeOK'
  BY <1>1, <1>2, <1>3 DEF TypeOK, MachineTypeOK, ClassTypeOK, registers
<1> QED
  BY <1>2, <1>4, OutOfControl

\* What the compiler guarantees about a reference that is resolved.
LEMMA ResolvedRef ==
    ASSUME IInv, NEW op \in RefOps, Resolves(op)
    PROVE  /\ Fetch({op}) /\ Code[pc].op = op /\ InstructionVerified(pc)
           /\ Owner[pc] = <<acts[Len(acts)].class, acts[Len(acts)].method>>
           /\ PoolOf[Owner[pc][1]][Code[pc].arg] = Ref
           /\ Ref.class \in Classes /\ Ref.member # 0
<1>1. Fetch({op}) /\ Ref.class \in Classes /\ Ref.member # 0
  BY DEF Resolves
<1>2. /\ Code[pc].op = op /\ InstructionVerified(pc)
      /\ Owner[pc] = <<acts[Len(acts)].class, acts[Len(acts)].method>>
      /\ c = acts[Len(acts)].class /\ cp = c
  BY <1>1, Fetched
<1> QED
  BY <1>1, <1>2 DEF Ref

LEMMA FieldStep ==
    ASSUME IInv, getstatic \/ putstatic
    PROVE  IInv'
<1>1. MachineTypeOK /\ ClassTypeOK /\ StackWords \in Nat /\ FieldWords \in [Fields -> 0 .. 2]
  BY ProgramShape DEF IInv, TypeOK
<1>2. CASE getstatic
  <2>1. /\ Resolves("getstatic") /\ loaded' = loaded \cup {Ref.class}
        /\ Operands(0, statics[Ref.member], Next_pc)
        /\ UNCHANGED <<static_initialized, statics, inits>>
    BY <1>2 DEF getstatic, Initialized
  <2>2. /\ Fetch({"getstatic"}) /\ Code[pc].op = "getstatic" /\ InstructionVerified(pc)
        /\ PoolOf[Owner[pc][1]][Code[pc].arg] = Ref
        /\ Ref.class \in Classes /\ Ref.member # 0
    BY <2>1, ResolvedRef DEF RefOps
  <2>3. /\ Ref.member \in Fields /\ Code[pc].pops = 0
        /\ Code[pc].pushes = FieldWords[Ref.member]
    BY <2>2 DEF InstructionVerified
  <2>4. /\ Next_pc \in Addresses /\ Owner[Next_pc] = Owner[pc]
        /\ Depth[Next_pc] = Depth[pc] - Code[pc].pops + Code[pc].pushes
        /\ Depth[pc] \in Nat
    BY <2>2, FlowsOn
  <2>5. /\ statics[Ref.member] \in Seq(Int)
        /\ Len(statics[Ref.member]) = FieldWords[Ref.member]
    BY <1>1, <2>3 DEF ClassTypeOK
  <2>6. ClassTypeOK'
    BY <1>1, <2>1, <2>2 DEF ClassTypeOK
  <2>7. Depth[Next_pc] = Depth[pc] - 0 + Len(statics[Ref.member])
    BY <2>3, <2>4, <2>5
  <2>8. 0 \in Nat /\ 0 <= Depth[pc]
    BY <2>4
  <2> QED
    BY <2>1, <2>2, <2>4, <2>5, <2>6, <2>7, <2>8, OperandsStep
<1>3. CASE putstatic
  <2> DEFINE w == FieldWords[Ref.member]
             ws == Read(mem, optop - w + 1, w)
  <2>1. /\ Resolves("putstatic") /\ loaded' = loaded \cup {Ref.class}
        /\ Operands(w, << >>, Next_pc) /\ statics' = [statics EXCEPT ![Ref.member] = ws]
        /\ UNCHANGED <<static_initialized, inits>>
    BY <1>3 DEF putstatic, Initialized
  <2>2. /\ Fetch({"putstatic"}) /\ Code[pc].op = "putstatic" /\ InstructionVerified(pc)
        /\ PoolOf[Owner[pc][1]][Code[pc].arg] = Ref
        /\ Ref.class \in Classes /\ Ref.member # 0
    BY <2>1, ResolvedRef DEF RefOps
  <2>3. /\ Ref.member \in Fields /\ Code[pc].pushes = 0 /\ Code[pc].pops = w
    BY <2>2 DEF InstructionVerified
  <2>4. /\ Next_pc \in Addresses /\ Owner[Next_pc] = Owner[pc]
        /\ Depth[Next_pc] = Depth[pc] - Code[pc].pops + Code[pc].pushes
        /\ Depth[pc] \in Nat /\ w \in Nat /\ w <= Depth[pc]
    BY <2>2, <2>3, FlowsOn
  <2>5. /\ frame + localc + 4 + Depth[pc] <= optop + 1 /\ optop <= StackWords
        /\ frame >= 1 /\ localc \in Nat /\ optop \in Int
    BY <2>2, Fetched
  <2>6. frame \in Int /\ mem \in [1 .. StackWords -> Int]
    BY <1>1 DEF MachineTypeOK
  <2> HIDE DEF w
  <2>7. ws \in Seq(Int) /\ Len(ws) = w
    <3>1. w <= optop
      BY <2>4, <2>5, <2>6
    <3>2. \A j \in 1 .. w : optop - w + 1 + j - 1 \in 1 .. StackWords
      BY <1>1, <2>4, <2>5, <3>1
    <3>3. optop - w + 1 \in Int
      BY <2>4, <2>5
    <3> QED
      BY <2>4, <2>6, <3>2, <3>3, ReadWords
  <2> HIDE DEF ws
  <2>8. ClassTypeOK'
    <3>1. statics' \in [Fields -> Seq(Int)]
      BY <1>1, <2>1, <2>7 DEF ClassTypeOK
    <3>2. \A f \in Fields : Len(statics'[f]) = FieldWords[f]
      BY <1>1, <2>1, <2>7 DEF ClassTypeOK, w
    <3> QED
      BY <1>1, <2>1, <2>2, <3>1, <3>2 DEF ClassTypeOK
  <2>9. << >> \in Seq(Int) /\ Len(<< >>) = 0
    OBVIOUS
  <2> QED
    BY <2>1, <2>2, <2>3, <2>4, <2>8, <2>9, OperandsStep
<1> QED
  BY <1>2, <1>3

\* A class is initialized before the instruction is executed again.
LEMMA InitializeClassStep ==
    ASSUME StartsFit, IInv, InitializeClass
    PROVE  IInv'
<1>1. PICK op \in RefOps : Resolves(op)
  BY DEF InitializeClass, Again
<1>2. /\ Fetch({op}) /\ Ref.class \in Classes
      /\ Owner[pc] = <<acts[Len(acts)].class, acts[Len(acts)].method>>
  BY <1>1, ResolvedRef
<1>3. /\ acts # << >> /\ pc \in Addresses /\ optop \in Int /\ Depth[pc] \in Nat
      /\ OperandBase(Len(acts)) = frame + localc + 4
      /\ frame + localc + 4 + Depth[pc] <= optop + 1
  BY <1>2, Fetched
<1>4. InControl /\ pc \in Int /\ loaded \subseteq Classes
  BY <1>2 DEF Fetch, InControl, IInv, TypeOK, MachineTypeOK, ClassTypeOK
<1>5. /\ loaded' = loaded \cup {Ref.class} /\ statics' = statics
      /\ initialize_static(Ref.class, pc)
  <2>1. (pc + 1) + 2 - 3 = pc
    BY <1>4
  <2> QED
    BY <2>1 DEF InitializeClass, Again
<1> QED
  BY <1>2, <1>3, <1>4, <1>5, InitializeStep

LEMMA CallStep ==
    ASSUME IInv, invokestatic
    PROVE  IInv'
<1> DEFINE i == Ref.member
           k == Ref.class
<1>1. /\ Resolves("invokestatic") /\ loaded' = loaded \cup {k}
      /\ MethodsOf[k][i].native = "no" /\ Enter(k, i, Next_pc)
      /\ UNCHANGED <<static_initialized, statics, inits>>
  BY DEF invokestatic, Initialized
<1>2. /\ Fetch({"invokestatic"}) /\ Code[pc].op = "invokestatic" /\ InstructionVerified(pc)
      /\ PoolOf[Owner[pc][1]][Code[pc].arg] = Ref /\ k \in Classes /\ i # 0
      /\ Owner[pc] = <<acts[Len(acts)].class, acts[Len(acts)].method>>
  BY <1>1, ResolvedRef DEF RefOps
<1>3. /\ i \in DOMAIN MethodsOf[k] /\ Code[pc].pops = MethodsOf[k][i].nargs
      /\ Code[pc].pushes = MethodsOf[k][i].ret
  BY <1>2 DEF InstructionVerified
<1>4. /\ Next_pc \in Addresses /\ Owner[Next_pc] = Owner[pc]
      /\ Depth[Next_pc] = Depth[pc] - Code[pc].pops + Code[pc].pushes
      /\ Depth[pc] \in Nat /\ Code[pc].pops \in Nat /\ Code[pc].pushes \in Nat
      /\ Code[pc].pops <= Depth[pc]
  BY <1>2, FlowsOn
<1>5. /\ frame + localc + 4 + Depth[pc] <= optop + 1 /\ acts # << >>
      /\ localc \in Nat /\ optop \in Int /\ frame \in Int /\ InControl
  BY <1>2, Fetched DEF IInv, TypeOK, MachineTypeOK, Fetch, InControl
<1>6. ClassTypeOK'
  BY <1>1, <1>2 DEF IInv, TypeOK, ClassTypeOK
<1> HIDE DEF i, k
<1>7. /\ frame + localc + 4 + MethodsOf[k][i].nargs <= optop + 1
      /\ optop + 1 - MethodsOf[k][i].nargs - (frame + localc + 4)
            + MethodsOf[k][i].ret >= Depth[Next_pc]
  <2>1. PICK d \in Nat : d = Depth[pc]
    BY <1>4
  <2>2. PICK a \in Nat : a = MethodsOf[k][i].nargs
    BY <1>3, <1>4
  <2>3. PICK r \in Nat : r = MethodsOf[k][i].ret
    BY <1>3, <1>4
  <2>4. PICK f \in Int : f = frame + localc + 4
    BY <1>5
  <2>5. /\ f + d <= optop + 1 /\ a <= d /\ Depth[Next_pc] = d - a + r /\ optop \in Int
    BY <1>3, <1>4, <1>5, <2>1, <2>2, <2>3, <2>4
  <2>6. f + a <= optop + 1 /\ optop + 1 - a - f + r >= d - a + r
    BY <2>5
  <2> QED
    BY <2>2, <2>3, <2>4, <2>5, <2>6
<1> QED
  BY <1>1, <1>2, <1>3, <1>4, <1>5, <1>6, <1>7, EnterStep

\* A native method leaves its arguments where they are, which is more than the
\* compiler counts on.
LEMMA NativeStep ==
    ASSUME IInv, call_native
    PROVE  IInv'
<1>1. /\ Resolves("invokestatic") /\ loaded' = loaded \cup {Ref.class}
      /\ UNCHANGED <<c, cp, frame, localc, optop, mem, acts>>
      /\ UNCHANGED <<static_initialized, statics, inits>>
  BY DEF call_native, Initialized
<1>2. /\ Fetch({"invokestatic"}) /\ Code[pc].op = "invokestatic" /\ InstructionVerified(pc)
      /\ PoolOf[Owner[pc][1]][Code[pc].arg] = Ref
      /\ Ref.class \in Classes /\ Ref.member # 0
  BY <1>1, ResolvedRef DEF RefOps
<1>3. MachineTypeOK /\ ClassTypeOK'
  BY <1>1, <1>2 DEF IInv, TypeOK, ClassTypeOK
<1>4. CASE MethodsOf[Ref.class][Ref.member].native = "println"
  <2>1. pc' = Next_pc /\ vm' = vm /\ vm = "running" /\ InControl
    BY <1>2, <1>4 DEF call_native, Fetch, InControl
  <2>2. /\ Ref.member \in DOMAIN MethodsOf[Ref.class]
        /\ Code[pc].pushes = MethodsOf[Ref.class][Ref.member].ret
    BY <1>2 DEF InstructionVerified
  <2>3. Code[pc].pushes = 0
    BY <1>2, <1>4, <2>2, ProgramVerified DEF MethodVerified
  <2>4. /\ Next_pc \in Addresses /\ Owner[Next_pc] = Owner[pc]
        /\ Depth[Next_pc] = Depth[pc] - Code[pc].pops + Code[pc].pushes
        /\ Depth[pc] \in Nat /\ Code[pc].pops \in Nat
    BY <1>2, FlowsOn
  <2>5. /\ frame + localc + 4 + Depth[pc] <= optop + 1 /\ acts # << >>
        /\ OperandBase(Len(acts)) = frame + localc + 4 /\ optop <= StackWords
        /\ localc \in Nat /\ optop \in Int /\ frame \in Int
    BY <1>2, <1>3, Fetched DEF MachineTypeOK
  <2>6. OperandBase(Len(acts)) + Depth[Next_pc] <= optop + 1
    BY <2>3, <2>4, <2>5
  <2> QED
    BY <1>1, <1>3, <2>1, <2>4, <2>5, <2>6, StepInFrame DEF MachineTypeOK
<1>5. CASE MethodsOf[Ref.class][Ref.member].native # "println"
  <2>1. vm' = "aborted" /\ pc' = pc
    BY <1>5 DEF call_native
  <2>2. TypeOK'
    BY <1>1, <1>3, <2>1 DEF TypeOK, MachineTypeOK
  <2> QED
    BY <2>1, <2>2, OutOfControl
<1> QED
  BY <1>4, <1>5

----------------------------------------------------------------------------
(* Constructors run once. *)

\* What ConstructorOnce rests on.
ClassInv ==
    /\ \A k \in Classes :
          /\ inits[k] <= 1
          /\ k \notin static_initialized => inits[k] = 0
          /\ k \in static_initialized /\ Declares(k, "<clinit>") => inits[k] = 1
    /\ vm = "running" => \A i \in DOMAIN acts : acts[i].class \in static_initialized
    /\ vm = "starting" =>
          /\ MainClass \in loaded /\ MainClass \notin static_initialized
          /\ acts # << >>
          /\ \A i \in DOMAIN acts : acts[i].class = MainClass

Inductive == IInv /\ ClassInv

\* A call adds the class of the method to those that are active.
LEMMA EnterClasses ==
    ASSUME IInv, acts # << >>, NEW k \in Classes, NEW i \in DOMAIN MethodsOf[k],
           MethodsOf[k][i].native = "no", NEW resume \in Int, Enter(k, i, resume),
           NEW S, k \in S, \A j \in DOMAIN acts : acts[j].class \in S
    PROVE  vm' = "undefined" \/ (vm' = "running" /\ \A j \in DOMAIN acts' : acts'[j].class \in S)
<1> DEFINE m == MethodsOf[k][i]
           new == [class |-> k, method |-> i, frame |-> optop + 1 - m.nargs,
                   localc |-> m.locals, resume |-> Null]
<1>1. CASE vm' = "undefined"
  BY <1>1
<1>2. CASE vm' # "undefined"
  <2>1. /\ vm' = "running"
        /\ acts' = Append([acts EXCEPT ![Len(acts)].resume = resume], new)
    BY <1>2 DEF Enter, FrameBase, StackOverflow
  <2>2. acts \in Seq(Activation) /\ optop \in Int
    BY DEF IInv, TypeOK, MachineTypeOK
  <2>3. m.nargs \in Nat /\ m.locals \in Nat /\ i \in Nat
    BY MethodFacts
  <2>4. optop + 1 - m.nargs \in Int
    BY <2>2, <2>3
  <2>5. new \in Activation /\ new.class = k
    BY <2>3, <2>4 DEF Activation, Null
  <2> HIDE DEF new
  <2>a. Pushed(acts', acts, resume, new)
    BY <2>1, <2>2, <2>5, ActsPushed
  <2>6. /\ DOMAIN acts = 1 .. Len(acts) /\ DOMAIN acts' = 1 .. Len(acts) + 1
        /\ acts'[Len(acts) + 1] = new
        /\ \A j \in 1 .. Len(acts) : acts'[j].class = acts[j].class
    BY <2>a DEF Pushed
  <2>7. \A j \in 1 .. Len(acts) + 1 : j \in 1 .. Len(acts) \/ j = Len(acts) + 1
    BY <2>2
  <2> QED
    BY <2>1, <2>5, <2>6, <2>7
<1> QED
  BY <1>1, <1>2

\* A class that was not initialized is, and its constructor is started.
LEMMA InitializeOnce ==
    ASSUME StartsFit, Inductive, acts # << >>,
           NEW k \in Classes, k \in loaded', loaded' \subseteq Classes,
           k \notin static_initialized, NEW resume \in Int, initialize_static(k, resume),
           \A j \in DOMAIN acts : acts[j].class \in static_initialized \cup {k}
    PROVE  ClassInv'
<1>1. PICK i : i = get_static_constructor(k, loaded')
  OBVIOUS
<1>2. /\ inits \in [Classes -> Nat] /\ inits[k] = 0
      /\ static_initialized' = static_initialized \cup {k} /\ ClassTypeOK
  BY DEF Inductive, IInv, TypeOK, ClassTypeOK, ClassInv, initialize_static, MarkInitialized
<1>3. CASE i = 0
  <2>1. vm' = "running" /\ UNCHANGED <<acts, inits>>
    BY <1>1, <1>3 DEF initialize_static
  <2>2. ~ Declares(k, "<clinit>")
    <3>1. FirstOrLast(k, "<clinit>") # 0
      <4>1. FirstOrLast(k, "<clinit>") \in DOMAIN MethodsOf[k]
        BY LookupReturns
      <4>2. MethodsOf[k] \in Seq(MethodInfo)
        BY ProgramShape
      <4> QED
        BY <4>1, <4>2
    <3> QED
      BY <1>1, <1>3, <3>1 DEF get_static_constructor
  <2> QED
    BY <1>2, <2>1, <2>2 DEF Inductive, ClassInv
<1>4. CASE i # 0
  <2>1. /\ i \in DOMAIN MethodsOf[k]
        /\ MethodsOf[k][i].native = "no" /\ MethodsOf[k][i].nargs = 0
    BY <1>1, <1>2, <1>4, ConstructorFound
  <2>2. inits' = [inits EXCEPT ![k] = @ + 1] /\ Enter(k, i, resume)
    BY <1>1, <1>4, <2>1 DEF initialize_static
  <2>3. \/ vm' = "undefined"
        \/ vm' = "running" /\ \A j \in DOMAIN acts' : acts'[j].class \in static_initialized'
    BY <1>2, <2>1, <2>2, EnterClasses DEF Inductive
  <2>4. \A j \in Classes : inits'[j] = IF j = k THEN 1 ELSE inits[j]
    BY <1>2, <2>2
  <2>5. \A j \in Classes :
           /\ inits'[j] <= 1
           /\ j \notin static_initialized' => inits'[j] = 0
           /\ j \in static_initialized' /\ Declares(j, "<clinit>") => inits'[j] = 1
    BY <1>2, <2>4 DEF Inductive, ClassInv
  <2> QED
    BY <2>3, <2>5 DEF ClassInv
<1> QED
  BY <1>3, <1>4

\* The steps that neither initialize a class nor call a method.
LEMMA OtherOnce ==
    ASSUME ClassInv, vm = "running", vm' # "starting",
           UNCHANGED <<static_initialized, inits>>,
           \A i \in DOMAIN acts' : acts'[i].class \in static_initialized
    PROVE  ClassInv'
BY DEF ClassInv

\* No step before the last breaks the rule.
LEMMA OnceStep ==
    ASSUME StartsFit, Inductive, Step
    PROVE  ClassInv'
<1>1. /\ IInv /\ ClassInv /\ loaded \subseteq Classes /\ pc \in Int
      /\ acts \in Seq(Activation)
  BY DEF Inductive, IInv, TypeOK, MachineTypeOK, ClassTypeOK
<1>2. CASE Start
  <2>1. /\ vm = "starting" /\ loaded' = loaded /\ initialize_static(MainClass, pc)
    BY <1>2 DEF Start
  <2>2. /\ MainClass \in loaded /\ MainClass \notin static_initialized /\ acts # << >>
        /\ \A i \in DOMAIN acts : acts[i].class = MainClass
    BY <1>1, <2>1 DEF ClassInv
  <2> QED
    BY <1>1, <2>1, <2>2, InitializeOnce, ProgramShape
<1>3. CASE InitializeClass
  <2>1. PICK op \in RefOps : Resolves(op)
    BY <1>3 DEF InitializeClass, Again
  <2>2. vm = "running" /\ Fetch({op}) /\ Ref.class \in Classes
    BY <2>1 DEF Resolves, Fetch
  <2>3. acts # << >>
    BY <1>1, <2>2, Fetched
  <2>4. \A j \in DOMAIN acts : acts[j].class \in static_initialized
    BY <1>1, <2>2 DEF ClassInv
  <2>5. /\ Ref.class \notin static_initialized /\ loaded' = loaded \cup {Ref.class}
        /\ initialize_static(Ref.class, (pc + 1) + 2 - 3) /\ (pc + 1) + 2 - 3 \in Int
    BY <1>1, <1>3 DEF InitializeClass, Again
  <2> QED
    BY <1>1, <2>2, <2>3, <2>4, <2>5, InitializeOnce
<1>4. CASE invokestatic
  <2>1. /\ Resolves("invokestatic") /\ Ref.class \in static_initialized
        /\ MethodsOf[Ref.class][Ref.member].native = "no"
        /\ Enter(Ref.class, Ref.member, Next_pc)
        /\ UNCHANGED <<static_initialized, statics, inits>>
    BY <1>4 DEF invokestatic, Initialized
  <2>2. /\ Fetch({"invokestatic"}) /\ Code[pc].op = "invokestatic" /\ InstructionVerified(pc)
        /\ PoolOf[Owner[pc][1]][Code[pc].arg] = Ref /\ Ref.class \in Classes /\ Ref.member # 0
    BY <1>1, <2>1, ResolvedRef DEF RefOps
  <2>3. Ref.member \in DOMAIN MethodsOf[Ref.class]
    BY <2>2 DEF InstructionVerified
  <2>4. acts # << >> /\ Next_pc \in Int
    BY <1>1, <2>2, Fetched, FlowsOn, ProgramShape
  <2>5. vm = "running" /\ \A j \in DOMAIN acts : acts[j].class \in static_initialized
    BY <1>1, <2>2 DEF ClassInv, Fetch
  <2>6. \/ vm' = "undefined"
        \/ vm' = "running" /\ \A j \in DOMAIN acts' : acts'[j].class \in static_initialized
    BY <1>1, <2>1, <2>2, <2>3, <2>4, <2>5, EnterClasses
  <2> QED
    BY <1>1, <2>1, <2>6 DEF ClassInv
<1>5. CASE Return
  <2>1. /\ Fetch({"return"}) /\ acts' = SubSeq(acts, 1, Len(acts) - 1)
        /\ UNCHANGED <<vm, static_initialized, inits>>
    BY <1>5 DEF Return, UNCHANGED_classes
  <2>2. vm = "running" /\ acts # << >>
    BY <1>1, <2>1, Fetched DEF Fetch
  <2>3. /\ DOMAIN acts' = 1 .. Len(acts) - 1
        /\ \A j \in 1 .. Len(acts) - 1 : acts'[j] = acts[j] /\ j \in DOMAIN acts
    BY <1>1, <2>1, <2>2, ActsPopped
  <2>4. \A j \in DOMAIN acts' : acts'[j].class \in static_initialized
    BY <1>1, <2>2, <2>3 DEF ClassInv
  <2> QED
    BY <1>1, <2>1, <2>2, <2>4, OtherOnce
<1>6. CASE \/ Constant \/ Pop \/ Operate \/ Load \/ Store \/ iinc \/ Branch \/ Abort \/ ResolveFails
           \/ getstatic \/ putstatic \/ UnsupportedField \/ call_native \/ impdep1
  <2>1. vm = "running"
    BY <1>6 DEF Constant, Pop, Operate, Load, Store, iinc, Branch, Abort, ResolveFails,
                getstatic, putstatic, UnsupportedField, call_native, impdep1,
                Initialized, Resolves, Fetch
  <2>2. UNCHANGED <<static_initialized, inits, acts>>
    BY <1>6 DEF Constant, Pop, Operate, Load, Store, iinc, Branch, Abort, ResolveFails,
                getstatic, putstatic, UnsupportedField, call_native, impdep1,
                UNCHANGED_classes, Operands, StackOverflow
  <2>3. vm' # "starting"
    BY <1>6, <2>1 DEF Constant, Pop, Operate, Load, Store, iinc, Branch, Abort, ResolveFails,
                getstatic, putstatic, UnsupportedField, call_native, impdep1,
                Operands, StackOverflow
  <2> QED
    BY <1>1, <2>1, <2>2, <2>3, OtherOnce DEF ClassInv
<1> QED
  BY <1>2, <1>3, <1>4, <1>5, <1>6 DEF Step

----------------------------------------------------------------------------
(* The inductive invariant. *)

LEMMA InitInductive ==
    ASSUME Init
    PROVE  Inductive
<1> DEFINE i == get_main_method
           m == MethodsOf[MainClass][i]
           zero == [a \in 1 .. StackWords |-> Null]
           ws == <<Null, Null, ImpdepPc, MainClass>>
           act == [class |-> MainClass, method |-> i, frame |-> 1,
                   localc |-> m.locals, resume |-> Null]
<1>1. /\ MainClass \in Classes /\ MainClass \in Int /\ ImpdepPc \in Int /\ StackWords \in Nat
  BY ProgramShape
<1>2. i \in DOMAIN MethodsOf[MainClass] /\ m.name = "main"
  BY <1>1, LookupFinds, ProgramVerified DEF get_main_method
<1>3. m.native = "no" /\ m.locals + 4 <= StackWords
  BY <1>2, ProgramVerified
<1>4. /\ i \in Nat /\ IsMethod(MainClass, i) /\ m.locals \in Nat
      /\ m.code \in Addresses /\ Owner[m.code] = <<MainClass, i>> /\ Depth[m.code] = 0
  BY <1>1, <1>2, <1>3, MethodFacts
<1>5. /\ vm = "starting" /\ pc = m.code /\ c = MainClass /\ cp = MainClass
      /\ frame = 1 /\ localc = m.locals /\ optop = m.locals + 4
      /\ mem = Write(zero, 1 + m.locals, ws)
      /\ static_initialized = {} /\ loaded = {MainClass}
      /\ statics = [f \in Fields |-> [j \in 1 .. FieldWords[f] |-> 0]]
      /\ acts = <<act>> /\ inits = [k \in Classes |-> 0]
  <2>1. /\ vm = "starting" /\ pc = m.code /\ c = MainClass /\ cp = MainClass
        /\ frame = 1 /\ localc = m.locals /\ optop = frame + localc + 4 - 1
        /\ mem = Write(zero, frame + localc, ws)
        /\ static_initialized = {} /\ loaded = {MainClass}
        /\ statics = [f \in Fields |-> [j \in 1 .. FieldWords[f] |-> 0]]
        /\ acts = <<act>> /\ inits = [k \in Classes |-> 0]
    BY DEF Init, MainInfo, Links
  <2>2. 1 + m.locals + 4 - 1 = m.locals + 4
    BY <1>4
  <2> QED
    BY <2>1, <2>2
<1>6. act \in Activation
  BY <1>1, <1>4 DEF Activation, Null
<1>7. /\ acts \in Seq(Activation) /\ Len(acts) = 1 /\ acts[1] = act /\ acts # << >>
      /\ DOMAIN acts = {1}
  BY <1>5, <1>6
<1>8. /\ act.class = MainClass /\ act.method = i /\ act.frame = 1 /\ act.localc = m.locals
  OBVIOUS
<1> HIDE DEF act
<1>9. /\ mem \in [1 .. StackWords -> Int]
      /\ mem[1 + m.locals + 2] = ImpdepPc /\ mem[1 + m.locals + 3] = MainClass
  <2>1. zero \in [1 .. StackWords -> Int] /\ ws \in Seq(Int) /\ Len(ws) = 4
    BY <1>1 DEF Null
  <2>2. ws[3] = ImpdepPc /\ ws[4] = MainClass
    OBVIOUS
  <2>3. PICK first \in Int : first = 1 + m.locals
    BY <1>4
  <2> HIDE DEF zero, ws
  <2>4. /\ Write(zero, first, ws) \in [1 .. StackWords -> Int]
        /\ \A j \in 1 .. Len(ws) :
              first + j - 1 \in 1 .. StackWords => Write(zero, first, ws)[first + j - 1] = ws[j]
    BY <2>1, WriteWords
  <2>5. first >= 1 /\ first + 3 <= StackWords
    BY <1>3, <1>4, <2>3
  <2>6. /\ first + 3 - 1 \in 1 .. StackWords /\ first + 3 - 1 = first + 2
        /\ first + 4 - 1 \in 1 .. StackWords /\ first + 4 - 1 = first + 3
    BY <1>1, <2>5
  <2>7. 3 \in 1 .. Len(ws) /\ 4 \in 1 .. Len(ws)
    BY <2>1
  <2>8. mem = Write(zero, first, ws)
    BY <1>5, <2>3
  <2>9. mem[first + 2] = ws[3] /\ mem[first + 3] = ws[4]
    BY <2>4, <2>6, <2>7, <2>8
  <2> QED
    BY <2>2, <2>3, <2>4, <2>8, <2>9
<1> HIDE DEF i, m
<1>10. /\ LinkOf(1) = 1 + m.locals /\ OperandBase(1) = m.locals + 5
       /\ OperandTop(1) = m.locals + 4 /\ OperandCount(1) = 0
       /\ PcOf(1) = m.code /\ WordsToCome(1) = 0
  <2>1. LinkOf(1) = 1 + m.locals /\ OperandBase(1) = m.locals + 5
    BY <1>4, <1>7, <1>8 DEF LinkOf, OperandBase, Links
  <2>2. OperandTop(1) = m.locals + 4 /\ PcOf(1) = m.code /\ WordsToCome(1) = 0
    BY <1>5, <1>7 DEF OperandTop, PcOf, WordsToCome
  <2>3. OperandCount(1) = 0
    BY <1>4, <2>1, <2>2 DEF OperandCount
  <2> QED
    BY <2>1, <2>2, <2>3
<1>11. TypeOK
  <2>1. MachineTypeOK
    <3>1. pc \in Int
      BY <1>4, <1>5, ProgramShape
    <3>2. optop \in Int /\ localc \in Int /\ frame \in Int
      BY <1>4, <1>5
    <3> QED
      BY <1>1, <1>5, <1>7, <1>9, <3>1, <3>2 DEF MachineTypeOK
  <2>2. \A f \in Fields : /\ statics[f] \in Seq(Int) /\ Len(statics[f]) = FieldWords[f]
    <3> SUFFICES ASSUME NEW f \in Fields
                 PROVE  statics[f] \in Seq(Int) /\ Len(statics[f]) = FieldWords[f]
      OBVIOUS
    <3>1. FieldWords[f] \in Nat
      BY ProgramShape
    <3>2. statics[f] \in [1 .. FieldWords[f] -> Int]
      BY <1>5
    <3> QED
      BY <3>1, <3>2, FunctionIsSeq
  <2>3. statics \in [Fields -> Seq(Int)]
    BY <1>5, <2>2
  <2>4. ClassTypeOK
    BY <1>1, <1>5, <2>2, <2>3 DEF ClassTypeOK
  <2> QED
    BY <2>1, <2>4 DEF TypeOK
<1>12. LayoutInv
  <2>1. MethodsKnown
    <3>1. MethodAt(<<MainClass, i>>) = m
      BY DEF MethodAt, m
    <3>2. m.native = "no"
      BY <1>3 DEF m, i
    <3>3. IsMethod(MainClass, i)
      BY <1>4
    <3> QED
      BY <1>7, <1>8, <3>1, <3>2, <3>3 DEF MethodsKnown
  <2>2. FramesOrdered
    BY <1>7 DEF FramesOrdered
  <2>3. TopFits
    BY <1>3, <1>4, <1>5, <1>7, <1>10, SMTT(30) DEF TopFits, m
  <2>4. RegistersMatch
    BY <1>5, <1>7, <1>8 DEF RegistersMatch
  <2>5. LinksIntact
    BY <1>7, <1>9, <1>10 DEF LinksIntact
  <2> QED
    BY <1>7, <2>1, <2>2, <2>3, <2>4, <2>5 DEF LayoutInv
<1>13. StackMapCovered
  BY <1>4, <1>7, <1>8, <1>10 DEF StackMapCovered, PcInMethod
<1>14. ClassInv
  BY <1>5, <1>7, <1>8 DEF ClassInv
<1> QED
  BY <1>11, <1>12, <1>13, <1>14 DEF Inductive, IInv

\* The constructor of the main class is started from a complete frame of main.
LEMMA StartStep ==
    ASSUME StartsFit, Inductive, Start
    PROVE  IInv'
<1>1. /\ IInv /\ vm = "starting" /\ InControl /\ loaded' = loaded /\ statics' = statics
      /\ initialize_static(MainClass, pc)
  BY DEF Start, Inductive, InControl
<1>2. MainClass \in loaded /\ acts # << >>
  BY <1>1 DEF Inductive, ClassInv
<1>3. /\ loaded \subseteq Classes /\ optop \in Int /\ acts \in Seq(Activation)
      /\ MainClass \in Classes
  BY <1>1, ProgramShape DEF IInv, TypeOK, MachineTypeOK, ClassTypeOK
<1>4. Len(acts) \in DOMAIN acts
  BY <1>2, <1>3
<1>5. /\ PcInMethod(Len(acts)) /\ PcOf(Len(acts)) = pc
      /\ OperandCount(Len(acts)) + 0 >= Depth[pc]
  BY <1>1, <1>4 DEF IInv, StackMapCovered, PcOf, WordsToCome
<1>6. /\ pc \in Addresses /\ Owner[pc] = <<acts[Len(acts)].class, acts[Len(acts)].method>>
  BY <1>5 DEF PcInMethod
<1>7. OperandBase(Len(acts)) + Depth[pc] <= optop + 1
  <2>1. OperandCount(Len(acts)) = optop - OperandBase(Len(acts)) + 1
    BY DEF OperandCount, OperandTop
  <2>2. OperandBase(Len(acts)) \in Int
    <3>1. acts[Len(acts)] \in Activation
      BY <1>3, <1>4
    <3> QED
      BY <3>1 DEF OperandBase, LinkOf, Links, Activation
  <2>3. Depth[pc] \in Nat
    BY <1>6, ProgramShape
  <2> QED
    BY <1>3, <1>5, <2>1, <2>2, <2>3
<1> QED
  BY <1>1, <1>2, <1>3, <1>6, <1>7, InitializeStep

\* In a program whose constructors fit, no step starts another method as one.
LEMMA NextFits ==
    ASSUME InitializersFit, Inductive, [Next]_vars
    PROVE  StartsFit
<1>1. IInv /\ ClassTypeOK /\ loaded \subseteq Classes
  BY DEF Inductive, IInv, TypeOK, ClassTypeOK
<1>2. CASE Start
  <2>1. loaded' = loaded /\ initialize_static(MainClass, pc) /\ MainClass \in Classes
    BY <1>2, ProgramShape DEF Start
  <2> QED
    BY <1>1, <2>1, InitializeFits
<1>3. CASE InitializeClass
  <2>1. PICK op \in RefOps : Resolves(op)
    BY <1>3 DEF InitializeClass
  <2>2. Ref.class \in Classes
    BY <2>1 DEF Resolves
  <2>3. loaded' = loaded \cup {Ref.class} /\ initialize_static(Ref.class, Again)
    BY <1>3 DEF InitializeClass
  <2> QED
    BY <1>1, <2>2, <2>3, InitializeFits
<1>4. CASE ~ Start /\ ~ InitializeClass
  <2>1. inits' = inits
    BY <1>4, NotCounted
  <2> QED
    BY <2>1 DEF StartsFit
<1> QED
  BY <1>2, <1>3, <1>4

\* Every step of the interpreter keeps the inductive invariant.
LEMMA StepInductive ==
    ASSUME StartsFit, Inductive, [Next]_vars
    PROVE  Inductive'
<1>1. IInv
  BY DEF Inductive
<1>2. CASE Step
  <2>1. IInv'
    <3>1. CASE Start
      BY <3>1, StartStep
    <3>2. CASE Constant \/ Pop \/ Operate
      BY <1>1, <3>2, ComputeStep
    <3>3. CASE Load
      BY <1>1, <3>3, LoadStep
    <3>4. CASE Store \/ iinc
      BY <1>1, <3>4, StoreStep, IincStep
    <3>5. CASE Branch
      BY <1>1, <3>5, BranchStep
    <3>6. CASE Abort \/ ResolveFails \/ UnsupportedField \/ impdep1
      BY <1>1, <3>6, StopStep
    <3>7. CASE InitializeClass
      BY <1>1, <3>7, InitializeClassStep
    <3>8. CASE getstatic \/ putstatic
      BY <1>1, <3>8, FieldStep
    <3>9. CASE invokestatic
      BY <1>1, <3>9, CallStep
    <3>10. CASE call_native
      BY <1>1, <3>10, NativeStep
    <3>11. CASE Return
      BY <1>1, <3>11, ReturnFromMain, ReturnToCaller
    <3> QED
      BY <1>2, <3>1, <3>2, <3>3, <3>4, <3>5, <3>6, <3>7, <3>8, <3>9, <3>10, <3>11 DEF Step
  <2>2. ClassInv'
    BY <1>2, OnceStep
  <2> QED
    BY <2>1, <2>2 DEF Inductive
<1>3. CASE Stopped \/ UNCHANGED vars
  <2>1. vars' = vars
    BY <1>3 DEF Stopped
  <2> QED
    BY <2>1, ZenonT(30)
       DEF vars, registers, Inductive, ClassInv, IInv, TypeOK, MachineTypeOK, ClassTypeOK,
           LayoutInv, InControl, MethodsKnown, FramesOrdered, TopFits, RegistersMatch,
           LinksIntact, Saved, StackMapCovered, PcInMethod, PcOf, OperandCount, OperandTop,
           OperandBase, LinkOf, WordsToCome
<1> QED
  BY <1>2, <1>3 DEF Next

\* The strengthened invariant holds as long as no method was started as a
\* constructor that cannot be one (core.c, run).
THEOREM InductiveAlways ==
    Spec => [](StartedFit => Inductive)
<1> DEFINE Counts == inits \in [Classes -> Nat]
<1>1. Init => Counts /\ (StartedFit => Inductive)
  BY InitInductive DEF Init
<1>2. Counts /\ (StartedFit => Inductive) /\ [Next]_vars
         => (Counts /\ (StartedFit => Inductive))'
  <2> SUFFICES ASSUME Counts, StartedFit => Inductive, [Next]_vars
               PROVE  Counts' /\ (StartedFit' => Inductive')
    OBVIOUS
  <2>1. Counts'
    BY CountsGrow
  <2>2. ASSUME StartedFit'
        PROVE  Inductive'
    BY <2>2, StartedBefore, StepInductive
  <2> QED
    BY <2>1, <2>2
<1> QED
  BY <1>1, <1>2, PTL DEF Spec

----------------------------------------------------------------------------
(* The results. *)

\* As long as every method started as a static constructor has code and takes
\* no argument, every register, word of memory and flag has a value of its type,
\* and a static field has the width of its declared type (core.c, run).
THEOREM Typing ==
    Spec => [](StartedFit => TypeOK)
<1>1. Inductive => TypeOK
  BY DEF Inductive, IInv
<1> QED
  BY <1>1, InductiveAlways, PTL

\* As long as every method started as a static constructor has code and takes
\* no argument, the frames that run() keeps in one block of memory do not
\* overlap, and the saved registers of each are those of the method that called
\* it: a return goes back to the right place, however deep the calls.  Every
\* <clinit> is such a method; in a class without one, initialize_static may
\* start the last method instead (core.c:146-152, get_static_constructor), and a
\* last method with arguments takes its frame from its caller's words.
THEOREM Linkage ==
    Spec => [](StartedFit => FramesLinked)
<1>1. ASSUME Inductive
      PROVE  FramesLinked
  <2> SUFFICES ASSUME InControl PROVE FramesLinked
    BY DEF FramesLinked
  <2>1. /\ acts \in Seq(Activation) /\ optop \in Int
        /\ RegistersMatch /\ LinksIntact /\ TopFits /\ FramesOrdered
        /\ acts = << >> => pc = ImpdepPc
    BY <1>1 DEF Inductive, IInv, LayoutInv, TypeOK, MachineTypeOK
  <2>2. FramesDisjoint
    <3> SUFFICES ASSUME NEW i \in DOMAIN acts
                 PROVE  OperandBase(i) <= OperandTop(i) + 1
      BY DEF FramesDisjoint
    <3>1. CASE i = Len(acts)
      BY <2>1, <3>1 DEF TopFits, OperandTop
    <3>2. CASE i # Len(acts)
      <4>1. i + 1 \in DOMAIN acts /\ i < i + 1 /\ acts[i + 1] \in Activation
        BY <2>1, <3>2
      <4>2. OperandBase(i) <= acts[i + 1].frame /\ acts[i + 1].frame \in Int
        BY <2>1, <4>1 DEF FramesOrdered, Activation
      <4>3. OperandTop(i) = acts[i + 1].frame - 1
        BY <3>2 DEF OperandTop
      <4>4. acts[i + 1].frame - 1 + 1 = acts[i + 1].frame
        BY <4>2
      <4> QED
        BY <4>2, <4>3, <4>4
    <3> QED
      BY <3>1, <3>2
  <2> QED
    BY <2>1, <2>2 DEF FramesLinked
<1> QED
  BY <1>1, InductiveAlways, PTL

\* Under the same condition, an active method is at an address of its own code
\* and has at least the operands javac counted on: no instruction pops a saved
\* register or a word of the caller, although run() checks no bound.
THEOREM OperandsSuffice ==
    Spec => [](StartedFit => StackMapCovered)
<1>1. Inductive => StackMapCovered
  BY DEF Inductive, IInv
<1> QED
  BY <1>1, InductiveAlways, PTL

\* Under the same condition, initialize_static starts the constructor of a class
\* at most once, although the instruction that caused it is executed again, and
\* no method of a class runs before the constructor the class declares is
\* started.
THEOREM ConstructorsOnce ==
    Spec => [](StartedFit => ConstructorOnce)
<1>1. ASSUME Inductive
      PROVE  ConstructorOnce
  <2>1. acts \in Seq(Activation)
    BY <1>1 DEF Inductive, IInv, TypeOK, MachineTypeOK
  <2>2. \A i \in DOMAIN acts : acts[i] \in Activation
    BY <2>1
  <2>3. \A i \in DOMAIN acts : acts[i].class \in Classes
    BY <2>2 DEF Activation
  <2> QED
    BY <1>1, <2>3 DEF Inductive, ClassInv, ConstructorOnce
<1> QED
  BY <1>1, InductiveAlways, PTL

----------------------------------------------------------------------------
(* Frames in the memory. *)

\* The stack of the abstract machine, as the refinement mapping defines it.
Stack == [i \in DOMAIN acts |-> FrameAt(i)]

\* The frames of the abstract machine are one for each active method.
LEMMA StackFrames ==
    ASSUME TypeOK
    PROVE  /\ Len(acts) \in Nat /\ DOMAIN acts = 1 .. Len(acts)
           /\ Stack \in Seq({FrameAt(i) : i \in DOMAIN acts})
           /\ Len(Stack) = Len(acts)
           /\ \A i \in 1 .. Len(acts) : Stack[i] = FrameAt(i)
<1>1. Len(acts) \in Nat /\ DOMAIN acts = 1 .. Len(acts)
  BY DEF TypeOK, MachineTypeOK
<1>2. Stack \in [1 .. Len(acts) -> {FrameAt(i) : i \in DOMAIN acts}]
  BY <1>1 DEF Stack
<1>3. Stack \in Seq({FrameAt(i) : i \in DOMAIN acts}) /\ Len(Stack) = Len(acts)
  BY <1>1, <1>2, FunctionIsSeq
<1>4. QED
  BY <1>1, <1>3 DEF Stack

\* The innermost frame and the ones below it.
LEMMA TopIs ==
    ASSUME TypeOK, acts # << >>
    PROVE  /\ Frames!top = FrameAt(Len(acts))
           /\ Frames!callers = SubSeq(Stack, 1, Len(acts) - 1)
<1>1. Len(Stack) = Len(acts) /\ Len(acts) \in 1 .. Len(acts) /\ Stack[Len(acts)] = FrameAt(Len(acts))
  BY StackFrames DEF TypeOK, MachineTypeOK
<1>2. Frames!top = Stack[Len(Stack)]
  BY DEF Frames!top, Stack
<1>3. Frames!callers = SubSeq(Stack, 1, Len(Stack) - 1)
  BY DEF Frames!callers, Stack
<1>4. QED
  BY <1>1, <1>2, <1>3

\* The frame of an active method that is read out of the memory.
LEMMA FrameForms ==
    ASSUME IInv, InControl, NEW i \in DOMAIN acts
    PROVE  /\ acts[i] \in Activation /\ acts[i].frame \in Int /\ acts[i].localc \in Nat
           /\ OperandTop(i) \in Int
           /\ OperandBase(i) = acts[i].frame + acts[i].localc + 4
           /\ OperandBase(i) <= OperandTop(i) + 1
           /\ FrameAt(i) = [class |-> acts[i].class, method |-> acts[i].method,
                            pc |-> PcOf(i),
                            locals |-> Read(mem, acts[i].frame, acts[i].localc),
                            operands |-> Read(mem, OperandBase(i),
                                              OperandTop(i) - OperandBase(i) + 1)]
<1>1. /\ acts \in Seq(Activation) /\ optop \in Int
      /\ RegistersMatch /\ TopFits /\ FramesOrdered
  BY DEF IInv, LayoutInv, TypeOK, MachineTypeOK
<1>a. \A j \in DOMAIN acts : acts[j] \in Activation
  BY <1>1
<1>2. acts[i] \in Activation /\ acts[i].frame \in Int /\ acts[i].localc \in Nat
  BY <1>a DEF Activation
<1>3. OperandBase(i) = acts[i].frame + acts[i].localc + 4
  BY DEF OperandBase, LinkOf, Links
<1>4. OperandTop(i) \in Int /\ OperandBase(i) <= OperandTop(i) + 1
  <2>1. CASE i = Len(acts)
    BY <1>1, <1>2, <2>1 DEF OperandTop, TopFits
  <2>2. CASE i # Len(acts)
    <3>1. i + 1 \in DOMAIN acts /\ i < i + 1
      BY <1>1, <2>2
    <3>2. acts[i + 1] \in Activation /\ acts[i + 1].frame \in Int
      BY <1>a, <3>1 DEF Activation
    <3>3. OperandTop(i) = acts[i + 1].frame - 1
      BY <2>2 DEF OperandTop
    <3>4. OperandBase(i) <= acts[i + 1].frame
      BY <1>1, <3>1 DEF FramesOrdered
    <3>5. OperandBase(i) \in Int
      BY <1>2, <1>3
    <3>6. QED
      BY <3>2, <3>3, <3>4, <3>5
  <2>3. QED
    BY <2>1, <2>2
<1>5. i = Len(acts) => c = acts[i].class /\ frame = acts[i].frame /\ localc = acts[i].localc
  BY <1>1 DEF RegistersMatch
<1>6. FrameAt(i) = [class |-> acts[i].class, method |-> acts[i].method,
                    pc |-> PcOf(i),
                    locals |-> Read(mem, acts[i].frame, acts[i].localc),
                    operands |-> Read(mem, OperandBase(i),
                                      OperandTop(i) - OperandBase(i) + 1)]
  BY <1>3, <1>5 DEF FrameAt, Links
<1>7. QED
  BY <1>2, <1>3, <1>4, <1>6

\* The first frame begins with the memory.
Grounded == acts # << >> => acts[1].frame = 1

\* A frame takes the words between its first and its last one.
LEMMA FrameSize ==
    ASSUME IInv, InControl, NEW i \in DOMAIN acts
    PROVE  Frames!FrameWords(FrameAt(i)) = OperandTop(i) - acts[i].frame + 1
<1>1. /\ acts[i].frame \in Int /\ acts[i].localc \in Nat
      /\ OperandTop(i) \in Int
      /\ OperandBase(i) = acts[i].frame + acts[i].localc + 4
      /\ OperandBase(i) <= OperandTop(i) + 1
      /\ FrameAt(i).locals = Read(mem, acts[i].frame, acts[i].localc)
      /\ FrameAt(i).operands = Read(mem, OperandBase(i), OperandTop(i) - OperandBase(i) + 1)
  BY FrameForms
<1>2. Len(FrameAt(i).locals) = acts[i].localc
  BY <1>1 DEF Read
<1>n. PICK n \in Nat : n = OperandTop(i) - OperandBase(i) + 1
  BY <1>1
<1>3. Len(FrameAt(i).operands) = n
  BY <1>1, <1>n DEF Read
<1>4. Frames!FrameWords(FrameAt(i)) = acts[i].localc + 4 + n
  BY <1>2, <1>3 DEF Frames!FrameWords
<1>5. PICK f \in Int, l \in Nat, t \in Int :
         f = acts[i].frame /\ l = acts[i].localc /\ t = OperandTop(i)
  BY <1>1
<1>6. n = t - (f + l + 4) + 1
  BY <1>1, <1>n, <1>5
<1>7. QED
  BY <1>4, <1>5, <1>6

\* Together they take the memory up to the top of the operand stack.
LEMMA WordsUsedIs ==
    ASSUME IInv, InControl, Grounded, acts # << >>
    PROVE  Frames!WordsUsed = optop
<1>n. PICK n \in Nat : n = Len(acts) /\ n >= 1 /\ DOMAIN acts = 1 .. n
  BY StackFrames DEF IInv, TypeOK, MachineTypeOK
<1> DEFINE Sum(g) == [i \in 0 .. Len(Stack) |->
                         IF i = 0 THEN 0 ELSE g[i - 1] + Frames!FrameWords(Stack[i])]
           tops == [i \in 0 .. n |-> IF i = 0 THEN 0 ELSE OperandTop(i)]
<1>1. Len(Stack) = n /\ \A i \in 1 .. n : Stack[i] = FrameAt(i)
  BY <1>n, StackFrames DEF IInv
<1>2. \A i \in 1 .. n : tops[i] = tops[i - 1] + Frames!FrameWords(Stack[i])
  <2>1. SUFFICES ASSUME NEW i \in 1 .. n
                 PROVE  OperandTop(i) = tops[i - 1] + Frames!FrameWords(Stack[i])
    OBVIOUS
  <2>2. /\ Frames!FrameWords(Stack[i]) = OperandTop(i) - acts[i].frame + 1
        /\ OperandTop(i) \in Int /\ acts[i].frame \in Int
    BY <1>n, <1>1, FrameSize, FrameForms
  <2>3. tops[i - 1] = acts[i].frame - 1
    <3>1. CASE i = 1
      BY <3>1 DEF Grounded
    <3>2. CASE i # 1
      <4>1. i - 1 \in 0 .. n /\ i - 1 # 0 /\ i - 1 # n /\ (i - 1) + 1 = i
        BY <3>2
      <4>2. OperandTop(i - 1) = acts[i].frame - 1
        BY <1>n, <4>1 DEF OperandTop
      <4>3. QED
        BY <4>1, <4>2
    <3>3. QED
      BY <3>1, <3>2
  <2>4. QED
    BY <2>2, <2>3
<1>3. tops = Sum(tops)
  <2>1. \A i \in 0 .. n : i # 0 => i \in 1 .. n
    BY <1>n
  <2>2. DOMAIN tops = 0 .. n /\ tops[0] = 0
    BY <1>n
  <2> HIDE DEF tops
  <2>3. \A i \in 0 .. n : tops[i] = IF i = 0 THEN 0
                                   ELSE tops[i - 1] + Frames!FrameWords(Stack[i])
    BY <1>2, <2>1, <2>2
  <2>4. tops = [i \in 0 .. n |-> tops[i]]
    BY DEF tops
  <2>5. tops = [i \in 0 .. n |-> IF i = 0 THEN 0
                                ELSE tops[i - 1] + Frames!FrameWords(Stack[i])]
    BY <2>3, <2>4
  <2>6. QED
    BY <1>1, <2>5
<1>4. ASSUME NEW g, g = Sum(g)
      PROVE  g = tops
  <2> DEFINE T == {i \in 0 .. n : g[i] # tops[i]}
  <2>1. ASSUME T # {}
        PROVE  FALSE
    <3>1. T \subseteq Nat
      OBVIOUS
    <3>2. PICK i \in T : \A j \in T : i <= j
      BY <2>1, <3>1, LeastElement
    <3>3. i # 0
      BY <1>1, <1>4
    <3>4. i - 1 \in 0 .. n /\ i \in 1 .. n /\ i - 1 \notin T
      BY <3>2, <3>3
    <3>5. g[i] = g[i - 1] + Frames!FrameWords(Stack[i])
      BY <1>1, <1>4, <3>3, <3>4
    <3>6. g[i] = tops[i]
      BY <1>2, <3>4, <3>5
    <3>7. QED
      BY <3>2, <3>6
  <2>2. QED
    BY <1>1, <1>3, <1>4, <2>1
<1> DEFINE used == CHOOSE g : g = Sum(g)
<1>5. Frames!WordsUsed = used[n]
  BY <1>1 DEF Frames!WordsUsed, Stack
<1>6. used = Sum(used)
  <2>1. \E g : g = Sum(g)
    BY <1>3
  <2> HIDE DEF Sum
  <2>2. QED
    BY <2>1, Zenon
<1>7. used = tops
  <2> HIDE DEF used, Sum, tops
  <2>1. QED
    BY <1>4, <1>6
<1>8. OperandTop(n) = optop
  BY <1>n DEF OperandTop
<1>9. tops[n] = OperandTop(n)
  BY <1>n
<1> HIDE DEF used, tops
<1>10. QED
  BY <1>5, <1>7, <1>8, <1>9

----------------------------------------------------------------------------
(* What a step does to the frames. *)

\* The frame of an active method, as it lies in the memory.
FrameIn(i) ==
    [class |-> acts[i].class, method |-> acts[i].method, pc |-> PcOf(i),
     locals |-> Read(mem, acts[i].frame, acts[i].localc),
     operands |-> Read(mem, OperandBase(i), OperandTop(i) - OperandBase(i) + 1)]

FramesInMemory == InControl => \A i \in DOMAIN acts : FrameAt(i) = FrameIn(i)

\* The invariant lets every frame be read out of the memory alone ...
LEMMA FramesRead == IInv => FramesInMemory
BY FrameForms DEF FramesInMemory, FrameIn

\* ... and after a step that keeps the invariant as well.
LEMMA FramesReadNext == IInv' => FramesInMemory'
BY FramesRead, PTL

FrameOf(k, i, a, ls, os) ==
    [class |-> k, method |-> i, pc |-> a, locals |-> ls, operands |-> os]

\* All but the last m words, and the last m.
Below(os, m) == SubSeq(os, 1, Len(os) - m)
Above(os, m) == SubSeq(os, Len(os) - m + 1, Len(os))

\* A frame after an instruction that takes m words and leaves ws.
LEMMA SteppedIs ==
    ASSUME NEW k, NEW i, NEW a, NEW ls, NEW os, NEW m, NEW ws, NEW next
    PROVE  /\ Frames!Stepped(FrameOf(k, i, a, ls, os), m, ws, next)
                = FrameOf(k, i, next, ls, Below(os, m) \o ws)
           /\ Frames!Top(FrameOf(k, i, a, ls, os), m) = Above(os, m)
<1> DEFINE f == FrameOf(k, i, a, ls, os)
           rest == Below(os, m) \o ws
           g == [f EXCEPT !.operands = rest]
           h == [g EXCEPT !.pc = next]
<1>1. f.operands = os
  BY DEF FrameOf
<1>2. /\ Frames!Top(f, m) = Above(os, m)
      /\ Frames!Bottom(f, m) \o ws = rest
  BY <1>1 DEF Frames!Top, Frames!Bottom, Below, Above
<1> HIDE DEF rest
<1>3. g = FrameOf(k, i, a, ls, rest)
  BY DEF FrameOf
<1> HIDE DEF f
<1>4. Frames!Stepped(f, m, ws, next) = h
  BY <1>2 DEF Frames!Stepped
<1> HIDE DEF g
<1>5. h = FrameOf(k, i, next, ls, rest)
  BY <1>3 DEF FrameOf
<1>6. QED
  BY <1>2, <1>4, <1>5 DEF f, rest

\* The words of the innermost frame.
LEMMA TopFrame ==
    ASSUME IInv, InControl, acts # << >>
    PROVE  /\ Frames!top = FrameOf(c, acts[Len(acts)].method, pc, Read(mem, frame, localc),
                                   Read(mem, frame + localc + 4,
                                        optop - (frame + localc + 4) + 1))
           /\ optop - (frame + localc + 4) + 1 \in Nat
           /\ frame \in Int /\ frame >= 1 /\ localc \in Nat
           /\ optop \in Int /\ optop <= StackWords /\ StackWords \in Nat
<1>1. Len(acts) \in DOMAIN acts /\ acts \in Seq(Activation)
  BY DEF IInv, TypeOK, MachineTypeOK
<1>2. /\ RegistersMatch /\ TopFits /\ optop \in Int /\ StackWords \in Nat
      /\ frame \in Int /\ localc \in Int /\ MethodsKnown
  BY ProgramShape DEF IInv, LayoutInv, TypeOK, MachineTypeOK
<1>3. c = acts[Len(acts)].class /\ frame = acts[Len(acts)].frame /\ localc = acts[Len(acts)].localc
  BY <1>2 DEF RegistersMatch
<1>4. frame >= 1
  BY <1>1, <1>2, <1>3 DEF MethodsKnown
<1>5. OperandBase(Len(acts)) = frame + localc + 4
  BY <1>3 DEF OperandBase, LinkOf, Links
<1>6. OperandTop(Len(acts)) = optop /\ PcOf(Len(acts)) = pc
  BY DEF OperandTop, PcOf
<1>7. Frames!top = FrameIn(Len(acts))
  BY <1>1, TopIs, FramesRead DEF FramesInMemory, IInv
<1>8. optop - (frame + localc + 4) + 1 \in Nat
  BY <1>2, <1>5 DEF TopFits
<1>9. localc \in Nat
  BY <1>1, <1>3, FrameForms
<1>10. Frames!top = FrameOf(c, acts[Len(acts)].method, pc, Read(mem, frame, localc),
                            Read(mem, frame + localc + 4,
                                 optop - (frame + localc + 4) + 1))
  <2>1. FrameIn(Len(acts)) =
           FrameOf(acts[Len(acts)].class, acts[Len(acts)].method, PcOf(Len(acts)),
                   Read(mem, acts[Len(acts)].frame, acts[Len(acts)].localc),
                   Read(mem, OperandBase(Len(acts)),
                        OperandTop(Len(acts)) - OperandBase(Len(acts)) + 1))
    BY DEF FrameIn, FrameOf
  <2>2. QED
    BY <1>3, <1>5, <1>6, <1>7, <2>1, Zenon
<1>11. QED
  BY <1>2, <1>4, <1>8, <1>9, <1>10 DEF TopFits

\* A frame stays as it is when nothing below the next one changes.
LEMMA FrameKept ==
    ASSUME IInv, IInv', InControl, InControl',
           NEW i \in DOMAIN acts, i # Len(acts), i \in DOMAIN acts', i # Len(acts'),
           acts'[i].class = acts[i].class, acts'[i].method = acts[i].method,
           acts'[i].frame = acts[i].frame, acts'[i].localc = acts[i].localc,
           acts'[i].resume = acts[i].resume, acts'[i + 1].frame = acts[i + 1].frame,
           \A a \in 1 .. StackWords : a < acts[i + 1].frame => mem'[a] = mem[a]
    PROVE  FrameAt(i)' = FrameAt(i)
<1>1. /\ FrameAt(i) = FrameIn(i)
      /\ FrameAt(i)' = FrameIn(i)'
  BY FramesRead, FramesReadNext DEF FramesInMemory
<1>2. /\ acts \in Seq(Activation) /\ acts' \in Seq(Activation)
      /\ FramesOrdered /\ MethodsKnown /\ TopFits
      /\ optop \in Int
  BY DEF IInv, LayoutInv, TypeOK, MachineTypeOK
<1>3. i + 1 \in DOMAIN acts /\ i < i + 1
  BY <1>2
<1>a. \A j \in DOMAIN acts : acts[j] \in Activation
  BY <1>2
<1>4. PICK f \in Int, l \in Nat, g \in Int :
         f = acts[i].frame /\ l = acts[i].localc /\ g = acts[i + 1].frame
  BY <1>a, <1>3 DEF Activation
<1>5. OperandBase(i) = f + l + 4 /\ f >= 1
  BY <1>2, <1>4 DEF OperandBase, LinkOf, Links, MethodsKnown
<1>6. f + l + 4 <= g
  BY <1>2, <1>3, <1>4, <1>5 DEF FramesOrdered
<1>7. g - 1 <= StackWords
  <2>a. acts # << >>
    BY <1>2, <1>3
  <2>1. acts # << >> /\ frame \in Int /\ localc \in Nat /\ StackWords \in Nat
    BY <2>a, TopFrame
  <2>2. /\ i + 1 # Len(acts) => LinkOf(i + 1) + 4 <= frame
        /\ i + 1 = Len(acts) => LinkOf(i + 1) = frame + localc
    BY <1>3, <2>1, LinksBelow
  <2>3. frame + localc + 4 <= optop + 1 /\ optop <= StackWords
    BY <1>2, <2>1, LinksBelow DEF TopFits, OperandBase, Links
  <2>4. PICK k \in Nat : LinkOf(i + 1) = g + k
    BY <1>3, <1>a, <1>4 DEF LinkOf, Activation
  <2>5. PICK x \in Int, y \in Nat, o \in Int, w \in Nat :
           x = frame /\ y = localc /\ o = optop /\ w = StackWords
    BY <1>2, <2>1
  <2>6. x + y + 4 <= o + 1 /\ o <= w /\ (g + k + 4 <= x \/ g + k = x + y)
    BY <2>2, <2>3, <2>4, <2>5
  <2>7. g - 1 <= w
    BY ONLY <1>4, <2>4, <2>5, <2>6
  <2>8. QED
    BY <2>5, <2>7
<1>8. /\ Read(mem, f, l)' = Read(mem, f, l)
      /\ \A n \in Nat : n = g - (f + l + 4) =>
            Read(mem, f + l + 4, n)' = Read(mem, f + l + 4, n)
  <2>1. \A j \in 1 .. l : f + j - 1 \in 1 .. StackWords /\ f + j - 1 < g
    BY <1>5, <1>6, <1>7, ProgramShape
  <2>2. Read(mem, f, l)' = Read(mem, f, l)
    BY <1>4, <2>1 DEF Read
  <2>3. SUFFICES ASSUME NEW n \in Nat, n = g - (f + l + 4)
                 PROVE  Read(mem, f + l + 4, n)' = Read(mem, f + l + 4, n)
    BY <2>2
  <2>4. \A j \in 1 .. n : /\ (f + l + 4) + j - 1 \in 1 .. StackWords
                          /\ (f + l + 4) + j - 1 < g
    BY <1>5, <1>6, <1>7, <2>3, ProgramShape
  <2>5. QED
    BY <1>4, <2>4 DEF Read
<1>9. PICK n \in Nat : n = g - (f + l + 4)
  BY <1>6
<1>10. /\ OperandTop(i) = g - 1 /\ OperandTop(i)' = g - 1
       /\ PcOf(i)' = PcOf(i)
  BY <1>4 DEF OperandTop, PcOf
<1>11. OperandBase(i)' = f + l + 4
  BY <1>4 DEF OperandBase, LinkOf, Links
<1>12. g - 1 - (f + l + 4) + 1 = n
  <2>1. f \in Int /\ l \in Int /\ g \in Int /\ n \in Int
    BY <1>4, <1>9
  <2>2. n = g - (f + l + 4)
    BY <1>9
  <2>3. QED
    BY ONLY <2>1, <2>2
<1>e. FrameIn(i) = [class |-> acts[i].class, method |-> acts[i].method, pc |-> PcOf(i),
                    locals |-> Read(mem, f, l), operands |-> Read(mem, f + l + 4, n)]
  BY <1>4, <1>5, <1>10, <1>12 DEF FrameIn
<1>f. FrameIn(i)' = [class |-> acts[i].class, method |-> acts[i].method, pc |-> PcOf(i)',
                     locals |-> Read(mem, f, l)',
                     operands |-> Read(mem, f + l + 4, n)']
  BY <1>4, <1>10, <1>11, <1>12 DEF FrameIn
<1>g. FrameIn(i)' = FrameIn(i)
  BY <1>8, <1>9, <1>10, <1>e, <1>f
<1>13. QED
  BY <1>1, <1>g

\* A sequence that differs from s in its last element only.
LEMMA LastReplaced ==
    ASSUME NEW S, NEW s \in Seq(S), s # << >>, NEW t, DOMAIN t = 1 .. Len(s),
           t = [i \in 1 .. Len(s) |-> t[i]],
           \A i \in 1 .. Len(s) : i # Len(s) => t[i] = s[i]
    PROVE  t = SubSeq(s, 1, Len(s) - 1) \o <<t[Len(s)]>>
<1>1. PICK n \in Nat : n = Len(s) /\ n >= 1
  OBVIOUS
<1> DEFINE u == SubSeq(s, 1, n - 1)
<1>2. /\ u \in Seq(S) /\ Len(u) = n - 1
      /\ \A i \in 1 .. n - 1 : u[i] = s[i]
  BY <1>1
<1> HIDE DEF u
<1>3. PICK x : x = t[n]
  OBVIOUS
<1> DEFINE v == u \o <<x>>
<1>4. /\ Len(v) = n /\ DOMAIN v = 1 .. n /\ v[n] = x
      /\ \A i \in 1 .. n - 1 : v[i] = u[i]
      /\ v = [i \in 1 .. n |-> v[i]]
  <2>1. u \in Seq(S \cup {x}) /\ <<x>> \in Seq(S \cup {x})
    BY <1>2
  <2>2. v \in Seq(S \cup {x}) /\ Len(v) = n
    BY <1>1, <1>2, <2>1
  <2>3. v[n] = x /\ \A i \in 1 .. n - 1 : v[i] = u[i]
    BY <1>1, <1>2, <2>1
  <2>4. QED
    BY <2>2, <2>3
<1> HIDE DEF v
<1>5. \A i \in 1 .. n : t[i] = v[i]
  <2>1. SUFFICES ASSUME NEW i \in 1 .. n
                 PROVE  t[i] = v[i]
    OBVIOUS
  <2>2. CASE i = n
    BY <1>3, <1>4, <2>2
  <2>3. CASE i # n
    <3>1. i \in 1 .. n - 1 /\ i \in 1 .. Len(s) /\ i # Len(s)
      BY <1>1, <2>3
    <3>2. t[i] = s[i] /\ v[i] = u[i] /\ u[i] = s[i]
      BY <1>2, <1>4, <3>1
    <3>3. QED
      BY <3>2
  <2>4. QED
    BY <2>2, <2>3
<1>6. t = v
  BY <1>1, <1>4, <1>5
<1>7. QED
  BY <1>1, <1>3, <1>6 DEF u, v

\* A step of the innermost method that writes nothing below its frame leaves
\* all other frames as they are.
LEMMA TopKept ==
    ASSUME IInv, IInv', InControl, InControl', acts # << >>,
           UNCHANGED <<c, frame, localc, acts>>,
           \A a \in 1 .. StackWords : a < frame => mem'[a] = mem[a]
    PROVE  Stack' = Frames!callers \o
              <<FrameOf(c, acts[Len(acts)].method, pc', Read(mem', frame, localc),
                        Read(mem', frame + localc + 4, optop' - (frame + localc + 4) + 1))>>
<1>1. /\ Len(Stack) = Len(acts) /\ DOMAIN acts = 1 .. Len(acts) /\ Len(acts) \in Nat
      /\ Stack \in Seq({FrameAt(i) : i \in DOMAIN acts})
      /\ \A i \in 1 .. Len(acts) : Stack[i] = FrameAt(i)
  BY StackFrames DEF IInv
<1>2. Stack # << >> /\ Len(acts) \in 1 .. Len(acts)
  BY <1>1
<1>3. Stack' = [i \in DOMAIN acts |-> FrameAt(i)']
  BY DEF Stack
<1>4. ASSUME NEW i \in 1 .. Len(acts), i # Len(acts)
      PROVE  FrameAt(i)' = Stack[i]
  <2>1. i \in DOMAIN acts /\ i + 1 \in DOMAIN acts /\ acts[i + 1] \in Activation
    BY <1>1, <1>4 DEF IInv, TypeOK, MachineTypeOK
  <2>2. PICK f \in Int, l \in Nat : f = acts[i + 1].frame /\ l = acts[i + 1].localc
    BY <2>1 DEF Activation
  <2>3. frame \in Int /\ localc \in Nat
    BY TopFrame
  <2>4. /\ i + 1 # Len(acts) => LinkOf(i + 1) + 4 <= frame
        /\ i + 1 = Len(acts) => LinkOf(i + 1) = frame + localc /\ RegistersMatch
    BY <2>1, LinksBelow DEF IInv, LayoutInv
  <2>a. LinkOf(i + 1) = f + l
    BY <2>2 DEF LinkOf
  <2>5. f <= frame
    <3>1. CASE i + 1 = Len(acts)
      BY <2>2, <2>3, <2>4, <3>1 DEF RegistersMatch
    <3>2. CASE i + 1 # Len(acts)
      <4>1. PICK x \in Int : x = frame /\ f + l + 4 <= x
        BY <2>3, <2>4, <2>a, <3>2
      <4>2. f <= x
        BY ONLY <2>2, <4>1
      <4>3. QED
        BY <4>1, <4>2
    <3>3. QED
      BY <3>1, <3>2
  <2>6. \A a \in 1 .. StackWords : a < f => mem'[a] = mem[a]
    BY <2>2, <2>3, <2>5, ProgramShape
  <2>9. QED
    BY <1>1, <1>4, <2>1, <2>2, <2>6, FrameKept
<1>n. PICK n \in Nat : n = Len(acts) /\ n \in DOMAIN acts
  BY <1>1, <1>2
<1>5. FrameAt(n)' = FrameOf(c, acts[n].method, pc', Read(mem', frame, localc),
                            Read(mem', frame + localc + 4,
                                 optop' - (frame + localc + 4) + 1))
  <2>1. FrameAt(n)' = FrameIn(n)'
    BY <1>n, FramesReadNext DEF FramesInMemory
  <2>2. c = acts[n].class /\ frame = acts[n].frame /\ localc = acts[n].localc
    BY <1>n DEF IInv, LayoutInv, RegistersMatch
  <2>3. OperandBase(n)' = frame + localc + 4 /\ OperandTop(n)' = optop' /\ PcOf(n)' = pc'
    BY <1>n, <2>2 DEF OperandBase, LinkOf, Links, OperandTop, PcOf
  <2>4. FrameIn(n)' = FrameOf(acts[n].class, acts[n].method, PcOf(n)',
                              Read(mem', acts[n].frame, acts[n].localc),
                              Read(mem', OperandBase(n)',
                                   OperandTop(n)' - OperandBase(n)' + 1))
    BY DEF FrameIn, FrameOf
  <2>5. QED
    BY <2>1, <2>2, <2>3, <2>4, Zenon
<1>6. /\ DOMAIN Stack' = 1 .. Len(Stack)
      /\ Stack' = [i \in 1 .. Len(Stack) |-> Stack'[i]]
      /\ \A i \in 1 .. Len(Stack) : i # Len(Stack) => Stack'[i] = Stack[i]
      /\ Stack'[Len(Stack)] = FrameAt(n)'
  BY <1>1, <1>3, <1>4, <1>n
<1>7. Stack' = SubSeq(Stack, 1, Len(Stack) - 1) \o <<Stack'[Len(Stack)]>>
  BY <1>1, <1>2, <1>6, LastReplaced
<1>8. Frames!callers = SubSeq(Stack, 1, Len(Stack) - 1)
  BY <1>1, TopIs DEF IInv
<1>9. QED
  BY <1>n, <1>5, <1>6, <1>7, <1>8

----------------------------------------------------------------------------
(* Words in a row. *)

\* m2 is m with the words ws from the address at on.
Written(m2, m, at, ws) ==
    /\ \A a \in 1 .. StackWords : a \notin at .. at + Len(ws) - 1 => m2[a] = m[a]
    /\ \A i \in 1 .. Len(ws) : at + i - 1 \in 1 .. StackWords => m2[at + i - 1] = ws[i]

\* What Write promises.
LEMMA WriteIs ==
    ASSUME NEW m \in [1 .. StackWords -> Int], NEW at \in Int, NEW ws \in Seq(Int)
    PROVE  Written(Write(m, at, ws), m, at, ws)
BY WriteWords DEF Written

\* v is u with ws behind it.
IsJoin(v, u, k, ws, w) ==
    /\ v \in Seq(Int) /\ Len(v) = k + w
    /\ DOMAIN v = 1 .. k + w
    /\ \A i \in 1 .. k : v[i] = u[i]
    /\ \A i \in k + 1 .. k + w : v[i] = ws[i - k]

\* What concatenation promises.
LEMMA Joined ==
    ASSUME NEW u \in Seq(Int), NEW ws \in Seq(Int)
    PROVE  IsJoin(u \o ws, u, Len(u), ws, Len(ws))
<1>1. PICK v : v = u \o ws
  OBVIOUS
<1>2. PICK k \in Nat, w \in Nat : k = Len(u) /\ w = Len(ws)
  OBVIOUS
<1>3. /\ v \in Seq(Int) /\ Len(v) = k + w
      /\ \A i \in 1 .. k + w : v[i] = IF i <= k THEN u[i] ELSE ws[i - k]
  BY <1>1, <1>2, ConcatProperties
<1>4. DOMAIN v = 1 .. k + w
  BY <1>3
<1>5. \A i \in 1 .. k : v[i] = u[i]
  BY <1>3
<1>6. \A i \in k + 1 .. k + w : v[i] = ws[i - k]
  BY <1>3
<1>7. QED
  BY <1>1, <1>2, <1>3, <1>4, <1>5, <1>6 DEF IsJoin

\* The first k words.
LEMMA Begins ==
    ASSUME NEW s \in Seq(Int), NEW k \in Nat, k <= Len(s)
    PROVE  /\ SubSeq(s, 1, k) \in Seq(Int) /\ Len(SubSeq(s, 1, k)) = k
           /\ \A i \in 1 .. k : SubSeq(s, 1, k)[i] = s[i]
OBVIOUS

\* The words behind the first k ones replaced by others.
Replaces(m2, m, b, d, k, ws, w) ==
    /\ m \in [1 .. StackWords -> Int] /\ b \in Int /\ b >= 1
    /\ d \in Nat /\ k \in Nat /\ k <= d /\ b + d - 1 <= StackWords
    /\ ws \in Seq(Int) /\ w \in Nat /\ w = Len(ws) /\ b + k + w - 1 <= StackWords
    /\ m2 = Write(m, b + k, ws)

Replaced(m2, m, b, d, k, ws, w) ==
    /\ Len(Read(m, b, d)) = d
    /\ Read(m2, b, k + w) = SubSeq(Read(m, b, d), 1, k) \o ws

\* Writing behind the first k words cuts a sequence and continues it.
LEMMA WordsReplaced ==
    ASSUME NEW m2, NEW m, NEW b, NEW d, NEW k, NEW ws, NEW w,
           Replaces(m2, m, b, d, k, ws, w)
    PROVE  Replaced(m2, m, b, d, k, ws, w)
<1>h. /\ m \in [1 .. StackWords -> Int] /\ b \in Int /\ b >= 1
      /\ d \in Nat /\ k \in Nat /\ k <= d /\ b + d - 1 <= StackWords
      /\ ws \in Seq(Int) /\ w \in Nat /\ w = Len(ws) /\ b + k + w - 1 <= StackWords
      /\ m2 = Write(m, b + k, ws)
  BY DEF Replaces
<1> USE <1>h
<1>s. StackWords \in Nat
  BY ProgramShape
<1>1. PICK at \in Int : at = b + k
  BY <1>h
<1>2. Read(m, b, d) \in Seq(Int) /\ Len(Read(m, b, d)) = d
  <2>1. \A i \in 1 .. d : b + i - 1 \in 1 .. StackWords
    BY <1>s
  <2>2. QED
    BY <2>1, ReadWords
<1>r. PICK r \in Seq(Int) : r = Read(m, b, d) /\ Len(r) = d
  BY <1>2
<1>3. \A i \in 1 .. d : r[i] = m[b + i - 1]
  BY <1>r DEF Read
<1>u. PICK u \in Seq(Int) : u = SubSeq(r, 1, k)
  BY <1>r, Begins
<1>4. Len(u) = k /\ \A i \in 1 .. k : u[i] = r[i]
  BY <1>r, <1>u, Begins
<1>5. /\ \A a \in 1 .. StackWords : a \notin at .. at + w - 1 => m2[a] = m[a]
      /\ \A i \in 1 .. w : at + i - 1 \in 1 .. StackWords => m2[at + i - 1] = ws[i]
  <2>1. m2 = Write(m, at, ws)
    BY <1>1
  <2>2. Written(Write(m, at, ws), m, at, ws)
    BY WriteIs
  <2>3. QED
    BY <2>1, <2>2 DEF Written
<1>6. \A i \in 1 .. k : m2[b + i - 1] = u[i]
  <2>1. SUFFICES ASSUME NEW i \in 1 .. k
                 PROVE  m2[b + i - 1] = u[i]
    OBVIOUS
  <2>2. b + i - 1 \in 1 .. StackWords /\ b + i - 1 \notin at .. at + w - 1 /\ i \in 1 .. d
    BY <1>s, <1>1
  <2>3. QED
    BY <1>3, <1>4, <1>5, <2>2
<1>7. \A i \in k + 1 .. k + w : m2[b + i - 1] = ws[i - k]
  <2>1. SUFFICES ASSUME NEW i \in k + 1 .. k + w
                 PROVE  m2[b + i - 1] = ws[i - k]
    OBVIOUS
  <2>2. i - k \in 1 .. w /\ at + (i - k) - 1 = b + i - 1 /\ b + i - 1 \in 1 .. StackWords
    BY <1>s, <1>1
  <2>3. QED
    BY <1>5, <2>2
<1>v. PICK v \in Seq(Int) : v = u \o ws /\ IsJoin(v, u, k, ws, w)
  <2>1. IsJoin(u \o ws, u, Len(u), ws, Len(ws))
    BY Joined
  <2>2. IsJoin(u \o ws, u, k, ws, w)
    BY <1>4, <2>1
  <2>3. QED
    BY <2>2 DEF IsJoin
<1>8. /\ DOMAIN v = 1 .. k + w
      /\ \A i \in 1 .. k : v[i] = u[i]
      /\ \A i \in k + 1 .. k + w : v[i] = ws[i - k]
  BY <1>v DEF IsJoin
<1>9. \A i \in 1 .. k + w : v[i] = m2[b + i - 1]
  <2>1. \A i \in 1 .. k + w : i \in 1 .. k \/ i \in k + 1 .. k + w
    OBVIOUS
  <2>2. \A i \in 1 .. k : v[i] = m2[b + i - 1]
    BY ONLY <1>6, <1>8
  <2>3. \A i \in k + 1 .. k + w : v[i] = m2[b + i - 1]
    BY ONLY <1>7, <1>8
  <2>4. QED
    BY ONLY <2>1, <2>2, <2>3
<1>10. v = [i \in 1 .. k + w |-> m2[b + i - 1]]
  BY <1>8, <1>9
<1>11. Read(m2, b, k + w) = v
  BY <1>10 DEF Read
<1>12. QED
  BY <1>2, <1>r, <1>u, <1>v, <1>11 DEF Replaced

\* Operands moves the operands of the innermost frame and nothing else, or has
\* no room for them.
LEMMA OperandsRefined ==
    ASSUME IInv, IInv', Grounded, NEW ops, Fetch(ops),
           NEW n \in Nat, n <= Depth[pc], NEW ws \in Seq(Int), NEW next,
           Operands(n, ws, next)
    PROVE  \/ Frames!NoRoom(Len(ws) - n)
           \/ /\ Frames!Room(Len(ws) - n)
              /\ vm' = vm
              /\ Stack' = Frames!callers \o <<Frames!Stepped(Frames!top, n, ws, next)>>
<1>1. /\ acts # << >> /\ InControl /\ optop \in Int /\ frame + localc + 4 + Depth[pc] <= optop + 1
      /\ Depth[pc] \in Nat /\ StackWords \in Nat
  BY Fetched, ProgramShape DEF InControl, Fetch
<1>2. Frames!WordsUsed = optop
  BY <1>1, WordsUsedIs
<1>3. CASE optop - n + Len(ws) > StackWords
  <2>1. vm' = "undefined"
    BY <1>3 DEF Operands, StackOverflow
  <2>2. optop + (Len(ws) - n) > StackWords
    BY <1>1, <1>3
  <2>3. QED
    BY <1>2, <2>1, <2>2 DEF Frames!NoRoom
<1>4. CASE ~ (optop - n + Len(ws) > StackWords)
  <2>1. /\ mem' = Write(mem, optop - n + 1, ws)
        /\ optop' = optop - n + Len(ws)
        /\ pc' = next
        /\ UNCHANGED <<vm, c, cp, frame, localc, acts>>
    BY <1>4 DEF Operands
  <2>2. Frames!Room(Len(ws) - n)
    BY <1>1, <1>2, <1>4 DEF Frames!Room
  <2>3. InControl'
    BY <1>1, <2>1 DEF InControl
  <2>c. PICK f \in Int, l \in Nat, d \in Nat :
           /\ f = frame /\ l = localc /\ d = optop - (f + l + 4) + 1
           /\ f >= 1 /\ optop <= StackWords
    BY <1>1, TopFrame
  <2>d. PICK b \in Int : b = f + l + 4
    OBVIOUS
  <2>e. n <= d
    BY <1>1, <2>c
  <2>w. PICK w \in Nat : w = Len(ws)
    OBVIOUS
  <2>f. PICK k \in Nat : k = d - n
    BY <2>e
  <2>4. /\ f = frame /\ l = localc /\ b = f + l + 4
        /\ d = optop - b + 1 /\ k = d - n /\ w = Len(ws)
        /\ f >= 1 /\ optop <= StackWords
    BY <2>c, <2>d, <2>f, <2>w
  <2>a. /\ b >= 1 /\ k <= d /\ b + d - 1 = optop /\ b + k = optop - n + 1
        /\ b + k + w - 1 <= StackWords /\ Len(ws) - n + d = k + w /\ f + l <= b
        /\ optop' - b + 1 = k + w /\ d - n = k
    BY <1>1, <1>4, <2>1, <2>4
  <2>5. Frames!top = FrameOf(c, acts[Len(acts)].method, pc, Read(mem, frame, localc),
                             Read(mem, b, d))
    BY <1>1, <2>4, TopFrame
  <2>6. mem \in [1 .. StackWords -> Int]
    BY DEF IInv, TypeOK, MachineTypeOK
  <2>b. mem' = Write(mem, b + k, ws)
    BY <2>1, <2>a
  <2>g. b + k \in Int
    OBVIOUS
  <2>7. /\ Len(Read(mem, b, d)) = d
        /\ Read(mem', b, k + w) = SubSeq(Read(mem, b, d), 1, k) \o ws
    <3>1. b + d - 1 <= StackWords
      BY <2>4, <2>a
    <3>2. k <= d /\ b >= 1 /\ b + k + w - 1 <= StackWords /\ w = Len(ws)
      BY <2>4, <2>a
    <3>3. Replaces(mem', mem, b, d, k, ws, w)
      BY <2>6, <2>b, <3>1, <3>2 DEF Replaces
    <3>4. Replaced(mem', mem, b, d, k, ws, w)
      BY <3>3, WordsReplaced
    <3>5. QED
      BY <3>4 DEF Replaced
  <2>8. \A a \in 1 .. StackWords : a < b + k => mem'[a] = mem[a]
    <3>1. Written(mem', mem, b + k, ws)
      BY <2>6, <2>b, <2>g, WriteIs
    <3>2. ASSUME NEW a \in 1 .. StackWords, a < b + k
          PROVE  a \notin b + k .. b + k + Len(ws) - 1
      BY <1>1, <2>g, <2>w, <3>2
    <3>3. QED
      BY <3>1, <3>2 DEF Written
  <2>9. Read(mem', frame, localc) = Read(mem, frame, localc)
    <3>1. \A j \in 1 .. l : f + j - 1 \in 1 .. StackWords /\ f + j - 1 < b + k
      BY <1>1, <2>4, <2>a
    <3>2. QED
      BY <2>4, <2>8, <3>1 DEF Read
  <2>11. Stack' = Frames!callers \o
            <<FrameOf(c, acts[Len(acts)].method, pc', Read(mem', frame, localc),
                      Read(mem', frame + localc + 4, optop' - (frame + localc + 4) + 1))>>
    <3>1. \A a \in 1 .. StackWords : a < frame => mem'[a] = mem[a]
      BY <1>1, <2>4, <2>8
    <3>2. QED
      BY <1>1, <2>1, <2>3, <3>1, TopKept
  <2>12. Frames!Stepped(Frames!top, n, ws, next)
           = FrameOf(c, acts[Len(acts)].method, next, Read(mem, frame, localc),
                     Below(Read(mem, b, d), n) \o ws)
    BY <2>5, SteppedIs
  <2>x. Below(Read(mem, b, d), n) = SubSeq(Read(mem, b, d), 1, k)
    BY <2>7, <2>4 DEF Below
  <2>13. QED
    BY <2>1, <2>2, <2>4, <2>7, <2>9, <2>a, <2>x, <2>11, <2>12
<1>5. QED
  BY <1>3, <1>4

\* Reading some of the words that are read.
IsPart(m, b, d, p, q) == Read(m, b + p, q) = SubSeq(Read(m, b, d), p + 1, p + q)

\* Some of the words in a row are a subsequence of them.
LEMMA ReadPart ==
    ASSUME NEW m, NEW b \in Int, NEW d \in Nat, NEW p \in Nat, NEW q \in Nat, p + q <= d
    PROVE  IsPart(m, b, d, p, q)
<1>0. \A i \in 1 .. d : Read(m, b, d)[i] = m[b + i - 1]
  BY DEF Read
<1>1. PICK r : r = Read(m, b, d) /\ \A i \in 1 .. d : r[i] = m[b + i - 1]
  BY <1>0
<1>2. PICK S : \A i \in p + 1 .. p + q : r[i] \in S
  <2>1. \A i \in p + 1 .. p + q : r[i] \in {r[j] : j \in p + 1 .. p + q}
    OBVIOUS
  <2>2. QED
    BY <2>1
<1>3. PICK x \in Int, y \in Int : x = p + 1 /\ y = p + q
  OBVIOUS
<1>4. PICK u : u = SubSeq(r, x, y)
  OBVIOUS
<1>5. /\ u \in Seq(S) /\ Len(u) = IF x <= y THEN y - x + 1 ELSE 0
      /\ \A i \in 1 .. y - x + 1 : u[i] = r[x + i - 1]
  BY <1>2, <1>3, <1>4, SubSeqProperties
<1>6. Len(u) = q /\ y - x + 1 = q
  BY <1>3, <1>5
<1>7. \A i \in 1 .. q : u[i] = m[(b + p) + i - 1]
  <2>1. SUFFICES ASSUME NEW i \in 1 .. q
                 PROVE  u[i] = m[(b + p) + i - 1]
    OBVIOUS
  <2>2. u[i] = r[x + i - 1] /\ x + i - 1 \in 1 .. d
    BY <1>3, <1>5, <1>6
  <2>3. b + (x + i - 1) - 1 = (b + p) + i - 1
    BY <1>3
  <2>4. QED
    BY <1>1, <2>2, <2>3
<1>8. u = [i \in 1 .. q |-> m[(b + p) + i - 1]]
  BY <1>5, <1>6, <1>7
<1>9. QED
  BY <1>1, <1>3, <1>4, <1>8 DEF IsPart, Read

----------------------------------------------------------------------------
(* Instructions that stay in their method. *)

\* The abstract machine sees the instruction that is fetched.
LEMMA FetchedFrame ==
    ASSUME IInv, NEW ops, Fetch(ops)
    PROVE  /\ Frames!Executing(ops)
           /\ Frames!Instr = Code[pc]
           /\ Frames!Following = Next_pc
           /\ Frames!top.pc = pc
           /\ Frames!Ref = Ref
           /\ acts # << >> /\ InControl
<1>1. acts # << >> /\ InControl /\ cp = c
  BY Fetched DEF InControl, Fetch
<1>2. Frames!top.pc = pc /\ Frames!top.class = c
  BY <1>1, TopFrame DEF FrameOf
<1>3. Stack # << >>
  BY <1>1, StackFrames DEF IInv, TypeOK, MachineTypeOK
<1>4. Frames!Executing(ops)
  BY <1>2, <1>3 DEF Frames!Executing, Frames!Addresses, Fetch, Addresses, Stack
<1>5. Frames!Instr = Code[pc]
  BY <1>2 DEF Frames!Instr
<1>6. Frames!Following = Next_pc
  BY <1>2, <1>5 DEF Frames!Following, Next_pc
<1>7. Frames!Ref = Ref
  BY <1>1, <1>2, <1>5 DEF Frames!Ref, Ref
<1>8. QED
  BY <1>1, <1>2, <1>4, <1>5, <1>6, <1>7

\* Instructions that replace n operands by k words.
LEMMA ComputeRefined ==
    ASSUME IInv, IInv', Grounded, NEW ops, Fetch(ops), UNCHANGED_classes,
           NEW n \in Nat, n <= Depth[pc], NEW k \in Nat, NEW next,
           \E ws \in Words(k) : Operands(n, ws, next)
    PROVE  Frames!Compute(n, k, next)
<1>1. PICK ws \in Words(k) : Operands(n, ws, next)
  OBVIOUS
<1>2. ws \in Seq(Int) /\ Len(ws) = k
  BY WordsSeq
<1>3. \/ Frames!NoRoom(k - n)
      \/ /\ Frames!Room(k - n)
         /\ vm' = vm
         /\ Stack' = Frames!callers \o <<Frames!Stepped(Frames!top, n, ws, next)>>
  BY <1>1, <1>2, OperandsRefined
<1>4. QED
  BY <1>3 DEF Frames!Compute, UNCHANGED_classes, Words, Stack

\* Constants, pops and every computation.
LEMMA CalculateRefined ==
    ASSUME IInv, IInv', Grounded, Constant \/ Pop \/ Operate
    PROVE  Frames!Calculate
<1>1. /\ Fetch({"const", "pop", "operate"}) /\ UNCHANGED_classes
      /\ Code[pc].op = "const" => \E ws \in Words(Code[pc].pushes) : Operands(0, ws, Next_pc)
      /\ Code[pc].op = "pop" => Operands(Code[pc].pops, << >>, Next_pc)
      /\ Code[pc].op = "operate" =>
            \E ws \in Words(Code[pc].pushes) : Operands(Code[pc].pops, ws, Next_pc)
  BY DEF Constant, Pop, Operate, Fetch
<1>2. /\ Code[pc].op \in {"const", "pop", "operate"} /\ InstructionVerified(pc)
      /\ Code[pc].pops \in Nat /\ Code[pc].pushes \in Nat /\ Code[pc].pops <= Depth[pc]
  BY <1>1, Fetched, FlowsOn
<1>3. /\ Code[pc].op = "const" => Code[pc].pops = 0
      /\ Code[pc].op = "pop" => Code[pc].pushes = 0
  BY <1>2 DEF InstructionVerified
<1>4. << >> \in Words(0)
  BY DEF Words
<1>5. \E ws \in Words(Code[pc].pushes) : Operands(Code[pc].pops, ws, Next_pc)
  BY <1>1, <1>2, <1>3, <1>4
<1>6. Frames!Compute(Code[pc].pops, Code[pc].pushes, Next_pc)
  BY <1>1, <1>2, <1>5, ComputeRefined
<1>7. QED
  BY <1>1, <1>6, FetchedFrame DEF Frames!Calculate

\* goto, the conditional branches and the switches.
LEMMA BranchRefined ==
    ASSUME IInv, IInv', Grounded, Branch
    PROVE  Frames!Branch
<1>1. Fetch({"branch"}) /\ UNCHANGED_classes
  BY DEF Branch
<1>2. PICK t \in Code[pc].targets : Operands(Code[pc].pops, << >>, t)
  BY DEF Branch
<1>3. Code[pc].pops \in Nat /\ Code[pc].pops <= Depth[pc]
  BY <1>1, Fetched DEF InstructionVerified, Instruction
<1>4. << >> \in Words(0)
  BY DEF Words
<1>5. Frames!Compute(Code[pc].pops, 0, t)
  BY <1>1, <1>2, <1>3, <1>4, ComputeRefined
<1>6. QED
  BY <1>1, <1>2, <1>5, FetchedFrame DEF Frames!Branch

\* The word that is loaded is the local variable: it lies inside the frame.
LEMMA LoadRefined ==
    ASSUME IInv, IInv', Grounded, Load
    PROVE  Frames!Load
<1>1. /\ Fetch({"load"}) /\ UNCHANGED_classes
      /\ Operands(0, Read(mem, frame + Code[pc].arg, Code[pc].pushes), Next_pc)
  BY DEF Load
<1>2. /\ InstructionVerified(pc) /\ Code[pc].op = "load" /\ Code[pc] \in Instruction
      /\ MethodAt(Owner[pc]).locals = localc /\ localc \in Nat
      /\ frame \in Int /\ frame >= 1 /\ Depth[pc] \in Nat
  <2>1. /\ InstructionVerified(pc) /\ Code[pc].op \in {"load"} /\ Code[pc] \in Instruction
        /\ MethodAt(Owner[pc]).locals = localc /\ localc \in Nat
        /\ frame >= 1 /\ Depth[pc] \in Nat
    BY <1>1, Fetched
  <2>2. frame \in Int
    BY DEF IInv, TypeOK, MachineTypeOK
  <2>3. QED
    BY <2>1, <2>2
<1>3. PICK f \in Int, w \in Nat, p \in Nat, l \in Nat :
         /\ f = frame /\ w = Code[pc].pushes /\ p = Code[pc].arg /\ l = localc
         /\ p + w <= l /\ f >= 1
  <2>1. Code[pc].arg \in 0 .. localc - Code[pc].pushes
    BY <1>2 DEF InstructionVerified
  <2>2. PICK w \in Nat, l \in Nat : w = Code[pc].pushes /\ l = localc
    BY <1>2 DEF Instruction
  <2>3. PICK p \in Nat : p = Code[pc].arg /\ p + w <= l
    BY <2>1, <2>2
  <2>4. QED
    BY <1>2, <2>2, <2>3
<1>4. Frames!top.locals = Read(mem, f, l)
  BY <1>1, <1>3, FetchedFrame, TopFrame DEF FrameOf
<1>5. Read(mem, f + p, w) = SubSeq(Read(mem, f, l), p + 1, p + w)
  <2>1. IsPart(mem, f, l, p, w)
    BY <1>3, ReadPart
  <2>2. QED
    BY <2>1 DEF IsPart
<1>6. Read(mem, f + p, w) \in Seq(Int) /\ Len(Read(mem, f + p, w)) = w
  <2>1. frame + localc + 4 <= optop + 1 /\ optop <= StackWords /\ optop \in Int /\ StackWords \in Nat
    BY <1>1, <1>2, Fetched, FetchedFrame, TopFrame
  <2>2. \A i \in 1 .. w : (f + p) + i - 1 \in 1 .. StackWords
    BY <1>3, <2>1
  <2>3. mem \in [1 .. StackWords -> Int] /\ f + p \in Int
    BY DEF IInv, TypeOK, MachineTypeOK
  <2>4. QED
    BY <2>2, <2>3, ReadWords
<1>v. PICK ws \in Seq(Int) : ws = Read(mem, f + p, w) /\ Len(ws) = w
  BY <1>6
<1>7. \/ Frames!NoRoom(w - 0)
      \/ /\ Frames!Room(w - 0)
         /\ vm' = vm
         /\ Stack' = Frames!callers \o <<Frames!Stepped(Frames!top, 0, ws, Next_pc)>>
  <2>1. Operands(0, ws, Next_pc)
    BY <1>1, <1>3, <1>v
  <2>2. \/ Frames!NoRoom(Len(ws) - 0)
        \/ /\ Frames!Room(Len(ws) - 0)
           /\ vm' = vm
           /\ Stack' = Frames!callers \o <<Frames!Stepped(Frames!top, 0, ws, Next_pc)>>
    BY <1>1, <1>2, <2>1, OperandsRefined
  <2>3. QED
    BY <1>v, <2>2
<1>8. w - 0 = w
  OBVIOUS
<1>9. Frames!Executing({"load"}) /\ Frames!Instr = Code[pc] /\ Frames!Following = Next_pc
  BY <1>1, FetchedFrame
<1>10. QED
  BY <1>1, <1>3, <1>4, <1>5, <1>v, <1>7, <1>8, <1>9 DEF Frames!Load, UNCHANGED_classes, Stack

\* Where the words of the innermost frame lie.
TopWords(f, l, b, d) ==
    /\ f \in Int /\ l \in Nat /\ b \in Int /\ d \in Nat
    /\ f = frame /\ l = localc /\ b = f + l + 4 /\ optop = b + d - 1
    /\ f >= 1 /\ b + d - 1 <= StackWords /\ Depth[pc] \in Nat /\ Depth[pc] <= d
    /\ Frames!top = FrameOf(c, acts[Len(acts)].method, pc, Read(mem, f, l), Read(mem, b, d))
    /\ Read(mem, b, d) \in Seq(Int) /\ Len(Read(mem, b, d)) = d
    /\ mem \in [1 .. StackWords -> Int] /\ StackWords \in Nat

\* The invariant says where the words of the innermost frame lie.
LEMMA WordsOfTop ==
    ASSUME IInv, InControl, acts # << >>
    PROVE  \E f, l, b, d : TopWords(f, l, b, d)
<1>0. /\ acts \in Seq(Activation) /\ RegistersMatch /\ optop \in Int
      /\ \A i \in DOMAIN acts : PcInMethod(i) /\ OperandCount(i) + WordsToCome(i) >= Depth[PcOf(i)]
  BY DEF IInv, TypeOK, MachineTypeOK, LayoutInv, StackMapCovered
<1>1. frame + localc + 4 + Depth[pc] <= optop + 1 /\ Depth[pc] \in Nat
  <2>1. Len(acts) \in DOMAIN acts
    BY <1>0
  <2>2. /\ PcOf(Len(acts)) = pc /\ WordsToCome(Len(acts)) = 0
        /\ OperandCount(Len(acts)) = optop - (frame + localc + 4) + 1
    BY <1>0 DEF PcOf, WordsToCome, OperandCount, OperandTop, OperandBase, LinkOf, Links,
                RegistersMatch
  <2>3. pc \in Addresses
    BY <1>0, <2>1, <2>2 DEF PcInMethod
  <2>4. PICK q \in Nat : q = Depth[pc]
    BY <2>3, ProgramShape
  <2>5. PICK f \in Int, l \in Int : f = frame /\ l = localc
    BY DEF IInv, TypeOK, MachineTypeOK
  <2>6. optop - (f + l + 4) + 1 + 0 >= q
    BY <1>0, <2>1, <2>2, <2>4, <2>5
  <2>7. QED
    BY <1>0, <2>4, <2>5, <2>6
<1>2. PICK f \in Int, l \in Nat, d \in Nat :
         /\ f = frame /\ l = localc /\ d = optop - (f + l + 4) + 1 /\ f >= 1
         /\ optop \in Int /\ optop <= StackWords /\ StackWords \in Nat
  BY TopFrame
<1>3. PICK b \in Int : b = f + l + 4
  OBVIOUS
<1>4. optop = b + d - 1 /\ b + d - 1 <= StackWords /\ Depth[pc] <= d
  BY <1>1, <1>2, <1>3
<1>5. Frames!top = FrameOf(c, acts[Len(acts)].method, pc, Read(mem, f, l), Read(mem, b, d))
  BY <1>2, <1>3, TopFrame
<1>6. mem \in [1 .. StackWords -> Int]
  BY DEF IInv, TypeOK, MachineTypeOK
<1>7. Read(mem, b, d) \in Seq(Int) /\ Len(Read(mem, b, d)) = d
  <2>1. \A i \in 1 .. d : b + i - 1 \in 1 .. StackWords
    BY <1>2, <1>3, <1>4
  <2>2. QED
    BY <1>6, <2>1, ReadWords
<1>8. TopWords(f, l, b, d)
  BY <1>1, <1>2, <1>3, <1>4, <1>5, <1>6, <1>7 DEF TopWords
<1>9. QED
  BY <1>8

\* A frame with other local variables.
LEMMA LocalsChanged ==
    ASSUME NEW k, NEW i, NEW a, NEW ls, NEW os, NEW x
    PROVE  [FrameOf(k, i, a, ls, os) EXCEPT !.locals = x] = FrameOf(k, i, a, x, os)
BY DEF FrameOf

\* A frame after an instruction that takes m words and leaves none.
LEMMA SteppedDown ==
    ASSUME NEW k, NEW i, NEW a, NEW ls, NEW os \in Seq(Int), NEW m \in Nat, NEW next,
           m <= Len(os)
    PROVE  Frames!Stepped(FrameOf(k, i, a, ls, os), m, << >>, next)
             = FrameOf(k, i, next, ls, Below(os, m))
<1>1. Below(os, m) \in Seq(Int)
  <2>1. PICK x \in Nat : x = Len(os) /\ m <= x
    OBVIOUS
  <2>a. x - m \in Nat /\ x - m <= x
    BY <2>1
  <2>2. PICK n \in Nat : n = x - m /\ n <= x
    BY <2>a
  <2>3. QED
    BY <2>1, <2>2, Begins DEF Below
<1>2. Below(os, m) \o << >> = Below(os, m)
  BY <1>1, ConcatEmptySeq
<1>3. PICK e : e = << >>
  OBVIOUS
<1>4. Frames!Stepped(FrameOf(k, i, a, ls, os), m, e, next)
        = FrameOf(k, i, next, ls, Below(os, m) \o e)
  BY SteppedIs
<1>5. QED
  BY <1>2, <1>3, <1>4

\* Store and iinc change words of the local variables.
LocalsAfter(f, l, p, ws) ==
    [v \in 1 .. l |-> IF v \in p + 1 .. p + Len(ws) THEN ws[v - p] ELSE Read(mem, f, l)[v]]

LocalsWritten(f, l, p, ws, n) ==
    /\ UNCHANGED <<vm, c, frame, localc, acts>>
    /\ p \in Nat /\ ws \in Seq(Int) /\ p + Len(ws) <= l
    /\ mem' = Write(mem, f + p, ws)
    /\ n \in Nat /\ n <= Depth[pc] /\ optop' = optop - n

\* Words written among the local variables change these and no operand.
LEMMA LocalsRefined ==
    ASSUME IInv, IInv', NEW ops, Fetch(ops),
           NEW f, NEW l, NEW b, NEW d, TopWords(f, l, b, d),
           NEW p, NEW ws, NEW n, LocalsWritten(f, l, p, ws, n)
    PROVE  Stack' = Frames!callers \o
              <<FrameOf(c, acts[Len(acts)].method, pc', LocalsAfter(f, l, p, ws),
                        Below(Read(mem, b, d), n))>>
<1>h. /\ f \in Int /\ l \in Nat /\ b \in Int /\ d \in Nat
      /\ f = frame /\ l = localc /\ b = f + l + 4 /\ optop = b + d - 1
      /\ f >= 1 /\ b + d - 1 <= StackWords /\ Depth[pc] \in Nat /\ Depth[pc] <= d
      /\ mem \in [1 .. StackWords -> Int] /\ StackWords \in Nat
      /\ UNCHANGED <<vm, c, frame, localc, acts>>
      /\ p \in Nat /\ ws \in Seq(Int) /\ p + Len(ws) <= l
      /\ mem' = Write(mem, f + p, ws)
      /\ n \in Nat /\ n <= Depth[pc] /\ optop' = optop - n
      /\ Len(Read(mem, b, d)) = d
  BY DEF TopWords, LocalsWritten
<1> USE <1>h
<1>w. PICK w \in Nat : w = Len(ws) /\ p + w <= l
  OBVIOUS
<1>1. PICK at \in Int : at = f + p
  BY <1>h
<1>2. /\ \A a \in 1 .. StackWords : a \notin at .. at + w - 1 => mem'[a] = mem[a]
      /\ \A i \in 1 .. w : at + i - 1 \in 1 .. StackWords => mem'[at + i - 1] = ws[i]
  <2>1. mem' = Write(mem, at, ws)
    BY <1>1
  <2>2. Written(Write(mem, at, ws), mem, at, ws)
    BY WriteIs
  <2>3. QED
    BY <1>w, <2>1, <2>2 DEF Written
<1>3. Read(mem', f, l) = LocalsAfter(f, l, p, ws)
  <2>1. ASSUME NEW v \in 1 .. l
        PROVE  mem'[f + v - 1] = IF v \in p + 1 .. p + w THEN ws[v - p] ELSE mem[f + v - 1]
    <3>1. f + v - 1 \in 1 .. StackWords
      BY <1>h
    <3>2. CASE v \in p + 1 .. p + w
      <4>1. v - p \in 1 .. w /\ at + (v - p) - 1 = f + v - 1
        BY <1>h, <1>1, <3>2
      <4>2. QED
        BY <1>2, <3>1, <3>2, <4>1
    <3>3. CASE v \notin p + 1 .. p + w
      <4>1. f + v - 1 \notin at .. at + w - 1
        BY <1>h, <1>1, <3>3
      <4>2. QED
        BY <1>2, <3>1, <3>3, <4>1
    <3>4. QED
      BY <3>2, <3>3
  <2>2. \A v \in 1 .. l : Read(mem, f, l)[v] = mem[f + v - 1]
    BY DEF Read
  <2>3. QED
    BY <1>w, <2>1, <2>2 DEF Read, LocalsAfter
<1>4. PICK k \in Nat : k = d - n /\ k <= d
  BY <1>h
<1>5. Read(mem', b, k) = Read(mem, b, k)
  <2>1. \A j \in 1 .. k : b + j - 1 \in 1 .. StackWords /\ b + j - 1 \notin at .. at + w - 1
    BY <1>h, <1>w, <1>1, <1>4
  <2>2. QED
    BY <1>2, <2>1 DEF Read
<1>6. Read(mem, b, k) = SubSeq(Read(mem, b, d), 1, k)
  <2>1. IsPart(mem, b, d, 0, k)
    BY <1>h, <1>4, ReadPart
  <2>2. b + 0 = b /\ 0 + 1 = 1 /\ 0 + k = k
    BY <1>h
  <2>3. QED
    BY <2>1, <2>2 DEF IsPart
<1>7. frame + localc + 4 = b /\ optop' - b + 1 = k
  BY <1>h, <1>4
<1>8. Stack' = Frames!callers \o
            <<FrameOf(c, acts[Len(acts)].method, pc', Read(mem', frame, localc),
                      Read(mem', frame + localc + 4, optop' - (frame + localc + 4) + 1))>>
  <2>1. acts # << >> /\ InControl
    BY FetchedFrame
  <2>2. InControl'
    BY <2>1 DEF InControl
  <2>3. \A a \in 1 .. StackWords : a < frame => mem'[a] = mem[a]
    BY <1>h, <1>1, <1>2
  <2>4. QED
    BY <2>1, <2>2, <2>3, TopKept
<1>9. QED
  BY <1>3, <1>4, <1>5, <1>6, <1>7, <1>8 DEF Below

\* The operands on top of the stack.
LEMMA TopOperands ==
    ASSUME NEW f, NEW l, NEW b, NEW d, TopWords(f, l, b, d), NEW w \in Nat, w <= d
    PROVE  /\ Frames!Top(Frames!top, w) = Read(mem, optop - w + 1, w)
           /\ Read(mem, optop - w + 1, w) \in Seq(Int)
           /\ Len(Read(mem, optop - w + 1, w)) = w
<1>h. /\ b \in Int /\ d \in Nat /\ f \in Int /\ l \in Nat /\ b = f + l + 4 /\ f >= 1
      /\ optop = b + d - 1 /\ b + d - 1 <= StackWords
      /\ Frames!top = FrameOf(c, acts[Len(acts)].method, pc, Read(mem, f, l), Read(mem, b, d))
      /\ Len(Read(mem, b, d)) = d
      /\ mem \in [1 .. StackWords -> Int] /\ StackWords \in Nat
  BY DEF TopWords
<1>1. PICK k \in Nat : k = d - w /\ k + w = d /\ k + w <= d
  BY <1>h
<1>2. Frames!Top(Frames!top, w) = SubSeq(Read(mem, b, d), d - w + 1, d)
  <2>1. Frames!Top(Frames!top, w) = Above(Read(mem, b, d), w)
    BY <1>h, SteppedIs
  <2>2. QED
    BY <1>h, <2>1 DEF Above
<1>3. IsPart(mem, b, d, k, w)
  BY <1>h, <1>1, ReadPart
<1>4. optop - w + 1 = b + k /\ d - w + 1 = k + 1
  BY <1>h, <1>1
<1>5. Read(mem, b + k, w) \in Seq(Int) /\ Len(Read(mem, b + k, w)) = w
  <2>1. mem \in [1 .. StackWords -> Int] /\ b + k \in Int
    BY <1>h
  <2>2. \A i \in 1 .. w : (b + k) + i - 1 \in 1 .. StackWords
    BY <1>h, <1>1
  <2>3. QED
    BY <2>1, <2>2, ReadWords
<1>6. QED
  BY <1>1, <1>2, <1>3, <1>4, <1>5 DEF IsPart

\* The operands that are stored become local variables.
LEMMA StoreRefined ==
    ASSUME IInv, IInv', Store
    PROVE  Frames!Store
<1>1. /\ Fetch({"store"}) /\ UNCHANGED_classes /\ UNCHANGED <<vm, c, frame, localc, acts>>
      /\ pc' = Next_pc /\ optop' = optop - Code[pc].pops
      /\ mem' = Write(mem, frame + Code[pc].arg,
                      Read(mem, optop - Code[pc].pops + 1, Code[pc].pops))
  BY DEF Store
<1>2. PICK f, l, b, d : TopWords(f, l, b, d)
  BY <1>1, FetchedFrame, WordsOfTop
<1>3. /\ f = frame /\ l = localc /\ l \in Nat /\ d \in Nat /\ Depth[pc] \in Nat /\ Depth[pc] <= d
      /\ Frames!top = FrameOf(c, acts[Len(acts)].method, pc, Read(mem, f, l), Read(mem, b, d))
      /\ Read(mem, b, d) \in Seq(Int) /\ Len(Read(mem, b, d)) = d
  BY <1>2 DEF TopWords
<1>4. PICK w \in Nat, p \in Nat :
         w = Code[pc].pops /\ p = Code[pc].arg /\ p + w <= l /\ w <= Depth[pc] /\ w <= d
  <2>1. /\ InstructionVerified(pc) /\ Code[pc].op = "store" /\ Code[pc] \in Instruction
        /\ MethodAt(Owner[pc]).locals = localc
    BY <1>1, Fetched
  <2>2. Code[pc].arg \in 0 .. localc - Code[pc].pops /\ Code[pc].pops <= Depth[pc]
    BY <2>1 DEF InstructionVerified
  <2>3. PICK w \in Nat : w = Code[pc].pops
    BY <2>1 DEF Instruction
  <2>4. PICK p \in Nat : p = Code[pc].arg /\ p + w <= l
    BY <1>3, <2>2, <2>3
  <2>5. w <= Depth[pc] /\ w <= d
    BY <1>3, <2>2, <2>3
  <2>6. QED
    BY <2>3, <2>4, <2>5
<1>5. PICK ws \in Seq(Int) : /\ ws = Read(mem, optop - w + 1, w) /\ Len(ws) = w
                             /\ Frames!Top(Frames!top, w) = ws
  BY <1>2, <1>4, TopOperands
<1>6. Stack' = Frames!callers \o
            <<FrameOf(c, acts[Len(acts)].method, Next_pc, LocalsAfter(f, l, p, ws),
                      Below(Read(mem, b, d), w))>>
  <2>1. LocalsWritten(f, l, p, ws, w)
    BY <1>1, <1>3, <1>4, <1>5 DEF LocalsWritten
  <2>2. QED
    BY <1>1, <1>2, <2>1, LocalsRefined
<1>7. Frames!Stepped(Frames!top, w, << >>, Next_pc)
        = FrameOf(c, acts[Len(acts)].method, Next_pc, Read(mem, f, l),
                  Below(Read(mem, b, d), w))
  <2>1. w <= Len(Read(mem, b, d))
    BY <1>3, <1>4
  <2>2. QED
    BY <1>3, <2>1, SteppedDown
<1> DEFINE g == Frames!Stepped(Frames!top, w, << >>, Next_pc)
           locals == [v \in DOMAIN g.locals |->
                         IF v \in p + 1 .. p + w THEN Frames!Top(Frames!top, w)[v - p]
                         ELSE g.locals[v]]
<1>8. locals = LocalsAfter(f, l, p, ws)
  <2>1. g.locals = Read(mem, f, l)
    BY <1>7 DEF FrameOf
  <2>2. DOMAIN Read(mem, f, l) = 1 .. l
    BY DEF Read
  <2> HIDE DEF g
  <2>3. QED
    BY <1>5, <2>1, <2>2 DEF LocalsAfter
<1> HIDE DEF locals
<1>9. [g EXCEPT !.locals = locals]
        = FrameOf(c, acts[Len(acts)].method, Next_pc, locals, Below(Read(mem, b, d), w))
  BY <1>7, LocalsChanged
<1>10. Stack' = Frames!callers \o <<[g EXCEPT !.locals = locals]>>
  BY <1>6, <1>8, <1>9
<1>11. Frames!Executing({"store"}) /\ Frames!Instr = Code[pc] /\ Frames!Following = Next_pc
  BY <1>1, FetchedFrame
<1>12. QED
  BY <1>1, <1>4, <1>10, <1>11 DEF Frames!Store, UNCHANGED_classes, Stack, locals, g

\* iinc changes one local variable in place.
LEMMA IncrementRefined ==
    ASSUME IInv, IInv', iinc
    PROVE  Frames!Increment
<1>1. /\ Fetch({"iinc"}) /\ UNCHANGED_classes /\ UNCHANGED <<vm, c, frame, localc, acts>>
      /\ pc' = Next_pc /\ optop' = optop
  BY DEF iinc
<1>0. PICK ws \in Words(1) : mem' = Write(mem, frame + Code[pc].arg, ws)
  BY DEF iinc
<1>2. PICK f, l, b, d : TopWords(f, l, b, d)
  BY <1>1, FetchedFrame, WordsOfTop
<1>3. /\ f = frame /\ l = localc /\ l \in Nat /\ d \in Nat /\ Depth[pc] \in Nat /\ optop \in Int
      /\ Frames!top = FrameOf(c, acts[Len(acts)].method, pc, Read(mem, f, l), Read(mem, b, d))
      /\ Read(mem, b, d) \in Seq(Int) /\ Len(Read(mem, b, d)) = d
  BY <1>2 DEF TopWords
<1>4. PICK p \in Nat : p = Code[pc].arg /\ p + 1 <= l
  <2>1. /\ InstructionVerified(pc) /\ Code[pc].op = "iinc"
        /\ MethodAt(Owner[pc]).locals = localc
    BY <1>1, Fetched
  <2>2. Code[pc].arg \in 0 .. localc - 1
    BY <2>1 DEF InstructionVerified
  <2>3. QED
    BY <1>3, <2>2
<1>5. ws \in Seq(Int) /\ Len(ws) = 1 /\ ws[1] \in Data
  <2>1. ws \in Seq(Int) /\ Len(ws) = 1
    BY WordsSeq
  <2>2. ws[1] \in Data
    BY DEF Words
  <2>3. QED
    BY <2>1, <2>2
<1>6. Stack' = Frames!callers \o
            <<FrameOf(c, acts[Len(acts)].method, Next_pc, LocalsAfter(f, l, p, ws),
                      Below(Read(mem, b, d), 0))>>
  <2>1. LocalsWritten(f, l, p, ws, 0)
    BY <1>0, <1>1, <1>3, <1>4, <1>5 DEF LocalsWritten
  <2>2. QED
    BY <1>1, <1>2, <2>1, LocalsRefined
<1>7. Frames!Stepped(Frames!top, 0, << >>, Next_pc)
        = FrameOf(c, acts[Len(acts)].method, Next_pc, Read(mem, f, l),
                  Below(Read(mem, b, d), 0))
  BY <1>3, SteppedDown
<1> DEFINE g == Frames!Stepped(Frames!top, 0, << >>, Next_pc)
<1>8. [Read(mem, f, l) EXCEPT ![p + 1] = ws[1]] = LocalsAfter(f, l, p, ws)
  <2>1. /\ DOMAIN Read(mem, f, l) = 1 .. l
        /\ Read(mem, f, l) = [v \in 1 .. l |-> Read(mem, f, l)[v]]
    BY DEF Read
  <2>2. PICK r : r = Read(mem, f, l) /\ DOMAIN r = 1 .. l /\ r = [v \in 1 .. l |-> r[v]]
    BY <2>1
  <2>3. p + 1 .. p + Len(ws) = {p + 1}
    BY <1>5
  <2>4. LocalsAfter(f, l, p, ws) = [v \in 1 .. l |-> IF v = p + 1 THEN ws[v - p] ELSE r[v]]
    BY <2>2, <2>3 DEF LocalsAfter
  <2>5. (p + 1) - p = 1 /\ p + 1 \in 1 .. l
    BY <1>3, <1>4
  <2>6. [r EXCEPT ![p + 1] = ws[1]] = [v \in 1 .. l |-> IF v = p + 1 THEN ws[v - p] ELSE r[v]]
    BY <2>2, <2>5
  <2>7. QED
    BY <2>2, <2>4, <2>6
<1>9. [g EXCEPT !.locals[p + 1] = ws[1]]
        = FrameOf(c, acts[Len(acts)].method, Next_pc, LocalsAfter(f, l, p, ws),
                  Below(Read(mem, b, d), 0))
  <2>1. g.locals = Read(mem, f, l)
    BY <1>7 DEF FrameOf
  <2> HIDE DEF g
  <2>2. [g EXCEPT !.locals[p + 1] = ws[1]]
          = [g EXCEPT !.locals = [Read(mem, f, l) EXCEPT ![p + 1] = ws[1]]]
    BY <2>1
  <2>3. QED
    BY <1>7, <1>8, <2>2, LocalsChanged DEF g
<1>10. Stack' = Frames!callers \o <<[g EXCEPT !.locals[p + 1] = ws[1]]>>
  BY <1>6, <1>9
<1>11. Frames!Executing({"iinc"}) /\ Frames!Instr = Code[pc] /\ Frames!Following = Next_pc
  BY <1>1, FetchedFrame
<1>12. QED
  BY <1>1, <1>4, <1>5, <1>10, <1>11 DEF Frames!Increment, UNCHANGED_classes, Stack, g

----------------------------------------------------------------------------
(* Fields, and the ways run() stops. *)

\* The abstract machine sees the same field or method as the code.
LEMMA UsesRef ==
    ASSUME IInv, NEW op \in RefOps, Resolves(op)
    PROVE  /\ Frames!Uses(op) /\ Frames!Ref = Ref /\ Frames!Instr = Code[pc]
           /\ Frames!Following = Next_pc
           /\ Fetch({op}) /\ acts # << >> /\ InControl
<1>1. Fetch({op}) /\ Ref.class \in Classes /\ Ref.member # 0
  BY ResolvedRef
<1>2. /\ Frames!Executing({op}) /\ Frames!Ref = Ref /\ Frames!Instr = Code[pc]
      /\ Frames!Following = Next_pc /\ acts # << >> /\ InControl
  BY <1>1, FetchedFrame
<1>3. QED
  BY <1>1, <1>2 DEF Frames!Uses

\* The words of a static field become operands.
LEMMA GetstaticRefined ==
    ASSUME IInv, IInv', Grounded, getstatic
    PROVE  Frames!getstatic
<1>1. /\ Resolves("getstatic") /\ Ref.class \in static_initialized /\ FieldWords[Ref.member] # 0
      /\ Operands(0, statics[Ref.member], Next_pc)
      /\ UNCHANGED <<static_initialized, statics, inits>>
  BY DEF getstatic, Initialized
<1>2. /\ Frames!Uses("getstatic") /\ Frames!Ref = Ref /\ Frames!Following = Next_pc
      /\ Fetch({"getstatic"})
  BY <1>1, UsesRef DEF RefOps
<1>3. /\ InstructionVerified(pc) /\ Code[pc].op = "getstatic"
      /\ PoolOf[Owner[pc][1]][Code[pc].arg] = Ref
      /\ Ref.class \in Classes /\ Ref.member # 0
  BY <1>1, ResolvedRef DEF RefOps
<1>4. Ref.member \in Fields
  BY <1>3 DEF InstructionVerified
<1>5. PICK ws \in Seq(Int) : ws = statics[Ref.member] /\ Len(ws) = FieldWords[Ref.member]
  BY <1>4 DEF IInv, TypeOK, ClassTypeOK
<1>6. Operands(0, ws, Next_pc) /\ 0 \in Nat /\ 0 <= Depth[pc]
  BY <1>1, <1>2, <1>5, Fetched
<1>7. \/ Frames!NoRoom(Len(ws) - 0)
      \/ /\ Frames!Room(Len(ws) - 0)
         /\ vm' = vm
         /\ Stack' = Frames!callers \o <<Frames!Stepped(Frames!top, 0, ws, Next_pc)>>
  BY <1>2, <1>6, OperandsRefined
<1>8. Len(ws) - 0 = Len(ws)
  OBVIOUS
<1>9. QED
  BY <1>1, <1>2, <1>5, <1>7, <1>8 DEF Frames!getstatic, Stack

\* The operands become the words of a static field.
LEMMA PutstaticRefined ==
    ASSUME IInv, IInv', Grounded, putstatic
    PROVE  Frames!putstatic
<1>1. /\ Resolves("putstatic") /\ Ref.class \in static_initialized /\ FieldWords[Ref.member] # 0
      /\ statics' = [statics EXCEPT ![Ref.member] =
                        Read(mem, optop - FieldWords[Ref.member] + 1, FieldWords[Ref.member])]
      /\ Operands(FieldWords[Ref.member], << >>, Next_pc)
      /\ UNCHANGED static_initialized
  BY DEF putstatic, Initialized
<1>2. /\ Frames!Uses("putstatic") /\ Frames!Ref = Ref /\ Frames!Following = Next_pc
      /\ Fetch({"putstatic"}) /\ acts # << >> /\ InControl
  BY <1>1, UsesRef DEF RefOps
<1>3. /\ InstructionVerified(pc) /\ Code[pc].op = "putstatic"
      /\ PoolOf[Owner[pc][1]][Code[pc].arg] = Ref
      /\ Ref.class \in Classes /\ Ref.member # 0
  BY <1>1, ResolvedRef DEF RefOps
<1>4. Ref.member \in Fields /\ Code[pc].pops = FieldWords[Ref.member]
  BY <1>3 DEF InstructionVerified
<1>5. PICK f, l, b, d : TopWords(f, l, b, d)
  BY <1>2, WordsOfTop
<1>6. PICK w \in Nat : w = FieldWords[Ref.member] /\ w <= Depth[pc] /\ w <= d
  <2>1. FieldWords[Ref.member] \in 0 .. 2 /\ FieldWords[Ref.member] <= Depth[pc]
    BY <1>3, <1>4, ProgramShape DEF InstructionVerified
  <2>2. Depth[pc] \in Nat /\ d \in Nat /\ Depth[pc] <= d
    BY <1>5 DEF TopWords
  <2>3. QED
    BY <2>1, <2>2
<1>7. Frames!Top(Frames!top, w) = Read(mem, optop - w + 1, w)
  BY <1>5, <1>6, TopOperands
<1>z. << >> \in Seq(Int) /\ Len(<< >>) = 0
  OBVIOUS
<1>8. PICK e \in Seq(Int) : e = << >> /\ Len(e) = 0
  BY <1>z
<1>9. \/ Frames!NoRoom(Len(e) - w)
      \/ /\ Frames!Room(Len(e) - w)
         /\ vm' = vm
         /\ Stack' = Frames!callers \o <<Frames!Stepped(Frames!top, w, e, Next_pc)>>
  BY <1>1, <1>2, <1>6, <1>8, OperandsRefined
<1>10. ~ Frames!NoRoom(Len(e) - w)
  <2>1. Frames!WordsUsed = optop
    BY <1>2, WordsUsedIs
  <2>2. optop \in Int /\ optop <= StackWords /\ StackWords \in Nat
    BY <1>2, TopFrame
  <2>3. ~ (optop + (Len(e) - w) > StackWords)
    BY <1>8, <2>2
  <2>4. QED
    BY <2>1, <2>3 DEF Frames!NoRoom
<1>11. QED
  BY <1>1, <1>2, <1>6, <1>7, <1>8, <1>9, <1>10 DEF Frames!putstatic, Stack

\* The frames depend on the registers, the memory and the history only.
LEMMA SameFrames ==
    ASSUME UNCHANGED <<registers, mem, acts>>
    PROVE  Stack' = Stack
BY DEF Stack, FrameAt, Read, registers, PcOf, OperandTop, Links

\* Every stop that is not the end is one the abstract machine can make.
LEMMA StopRefined ==
    ASSUME IInv, Abort \/ ResolveFails \/ UnsupportedField
    PROVE  Frames!Abort
<1>1. /\ vm' = "aborted" /\ UNCHANGED <<registers, mem, acts>>
      /\ UNCHANGED <<static_initialized, statics>>
  BY DEF Abort, ResolveFails, UnsupportedField, UNCHANGED_classes
<1>2. Stack' = Stack
  BY <1>1, SameFrames
<1>3. CASE Abort
  <2>1. Fetch({"not_sup", "operate"}) /\ (Code[pc].op = "operate" => Code[pc].traps)
    BY <1>3 DEF Abort
  <2>2. Frames!Executing({"not_sup", "operate"}) /\ Frames!Instr = Code[pc]
    BY <2>1, FetchedFrame
  <2>3. Code[pc].op \in {"not_sup", "operate"}
    BY <2>1 DEF Fetch
  <2>4. QED
    BY <1>1, <1>2, <2>1, <2>2, <2>3 DEF Frames!Abort, Frames!Executing, Stack
<1>4. CASE ResolveFails
  <2>1. Fetch(RefOps) /\ (Ref.class \notin Classes \/ Ref.member = 0)
    BY <1>4 DEF ResolveFails
  <2>2. Frames!Executing(RefOps) /\ Frames!Instr = Code[pc] /\ Frames!Ref = Ref
    BY <2>1, FetchedFrame
  <2>3. Code[pc].op \in RefOps /\ ~ Frames!Uses(Code[pc].op)
    BY <2>1, <2>2 DEF Fetch, Frames!Uses
  <2>4. QED
    BY <1>1, <1>2, <2>2, <2>3 DEF Frames!Abort, Frames!Executing, Stack, RefOps
<1>5. CASE UnsupportedField
  <2>1. PICK op \in {"getstatic", "putstatic"} :
           Resolves(op) /\ Ref.class \in static_initialized /\ FieldWords[Ref.member] = 0
    BY <1>5 DEF UnsupportedField, Initialized
  <2>2. Frames!Uses(op) /\ Frames!Instr = Code[pc] /\ Frames!Ref = Ref /\ Fetch({op})
    BY <2>1, UsesRef DEF RefOps
  <2>3. Code[pc].op = op /\ Frames!Executing({op})
    BY <2>2 DEF Fetch, Frames!Uses
  <2>4. QED
    BY <1>1, <1>2, <2>1, <2>2, <2>3 DEF Frames!Abort, Frames!Executing, Stack
<1>6. QED
  BY <1>3, <1>4, <1>5

\* The end of main is reached without a frame.
LEMMA ExitRefined ==
    ASSUME IInv, impdep1
    PROVE  Frames!Exit
<1>1. /\ vm = "running" /\ pc = ImpdepPc /\ vm' = "exited"
      /\ UNCHANGED <<registers, mem, acts, static_initialized, statics>>
  BY DEF impdep1
<1>2. acts = << >>
  <2>1. acts # << >> => pc \in Addresses
    <3>1. acts \in Seq(Activation)
      BY DEF IInv, TypeOK, MachineTypeOK
    <3>2. acts # << >> => Len(acts) \in DOMAIN acts
      BY <3>1
    <3>3. \A i \in DOMAIN acts : PcInMethod(i)
      BY <1>1 DEF IInv, StackMapCovered, InControl
    <3>4. QED
      BY <3>2, <3>3 DEF PcInMethod, PcOf
  <2>2. QED
    BY <1>1, <2>1, ProgramShape
<1>3. Stack = << >>
  BY <1>2, StackFrames DEF IInv
<1>4. Stack' = Stack
  BY <1>1, SameFrames
<1>5. QED
  BY <1>1, <1>3, <1>4 DEF Frames!Exit, Stack

----------------------------------------------------------------------------
(* Calls. *)

\* What Enter does when the frame fits into the memory.
Entered(k, i, resume, n, base, link) ==
    LET m == MethodsOf[k][i]
    IN  /\ n \in Nat /\ n >= 1 /\ n = Len(acts) /\ base \in Int /\ link \in Int
        /\ base = optop + 1 - m.nargs /\ link = base + m.locals /\ link + 3 <= StackWords
        /\ m.nargs \in Nat /\ m.locals \in Nat /\ m.nargs <= m.locals
        /\ vm' = "running"
        /\ mem' = Write(mem, link, <<localc, frame, resume, c>>)
        /\ optop' = link + 3
        /\ pc' = m.code /\ c' = k /\ frame' = base /\ localc' = m.locals
        /\ acts \in Seq(Activation) /\ acts' \in Seq(Activation)
        /\ Len(acts') = n + 1
        /\ DOMAIN acts = 1 .. n /\ DOMAIN acts' = 1 .. n + 1
        /\ acts'[n + 1] = [class |-> k, method |-> i, frame |-> base,
                           localc |-> m.locals, resume |-> Null]
        /\ \A j \in 1 .. n :
              /\ acts'[j].class = acts[j].class /\ acts'[j].method = acts[j].method
              /\ acts'[j].frame = acts[j].frame /\ acts'[j].localc = acts[j].localc
              /\ acts'[j].resume = IF j = n THEN resume ELSE acts[j].resume

\* A method that fits where it is called.
Callable(k, i, resume) ==
    /\ k \in Classes /\ i \in DOMAIN MethodsOf[k]
    /\ MethodsOf[k][i].native = "no"
    /\ resume \in Int
    /\ frame + localc + 4 + MethodsOf[k][i].nargs <= optop + 1
    /\ Enter(k, i, resume)

\* A call either finds no room or gives the method a frame.
LEMMA EnteredOrNot ==
    ASSUME IInv, InControl, acts # << >>, NEW k, NEW i, NEW resume, Callable(k, i, resume)
    PROVE  \/ /\ vm' = "undefined"
              /\ optop + 1 - MethodsOf[k][i].nargs + MethodsOf[k][i].locals + 3 > StackWords
           \/ \E n, base, link : Entered(k, i, resume, n, base, link)
<1> DEFINE m == MethodsOf[k][i]
<1>1. /\ k \in Classes /\ i \in DOMAIN MethodsOf[k] /\ m.native = "no" /\ resume \in Int
      /\ Enter(k, i, resume)
  BY DEF Callable
<1>2. /\ i \in Nat /\ m.nargs \in Nat /\ m.locals \in Nat /\ m.nargs <= m.locals
  BY <1>1, MethodFacts
<1>3. /\ optop \in Int /\ acts \in Seq(Activation) /\ StackWords \in Nat
      /\ mem \in [1 .. StackWords -> Int]
  BY ProgramShape DEF IInv, TypeOK, MachineTypeOK
<1>4. PICK n \in Nat : n = Len(acts) /\ n >= 1
  BY <1>3
<1> HIDE DEF m
<1>b. PICK base \in Int : base = optop + 1 - m.nargs
  BY <1>2, <1>3
<1>l. PICK link \in Int : link = base + m.locals
  BY <1>2
<1> DEFINE new == [class |-> k, method |-> i, frame |-> base,
                   localc |-> m.locals, resume |-> Null]
<1>5. CASE link + Links - 1 > StackWords
  <2>1. vm' = "undefined"
    BY <1>1, <1>5, <1>b, <1>l DEF Enter, FrameBase, LinkWords, StackOverflow, m
  <2>2. optop + 1 - m.nargs + m.locals + 3 > StackWords
    BY <1>2, <1>3, <1>5, <1>b, <1>l DEF Links
  <2>3. QED
    BY <2>1, <2>2 DEF m
<1>6. CASE ~ (link + Links - 1 > StackWords)
  <2>1. /\ vm' = "running"
        /\ mem' = Write(mem, link, <<localc, frame, resume, c>>)
        /\ optop' = link + 3
        /\ pc' = m.code /\ c' = k /\ frame' = base /\ localc' = m.locals
        /\ acts' = Append([acts EXCEPT ![Len(acts)].resume = resume], new)
    <3>1. link + Links - 1 = link + 3
      BY DEF Links
    <3>2. QED
      BY <1>1, <1>6, <1>b, <1>l, <3>1 DEF Enter, FrameBase, LinkWords, m
  <2>2. new \in Activation
    BY <1>1, <1>2 DEF Activation, Null
  <2> HIDE DEF new
  <2>3. /\ acts' \in Seq(Activation)
        /\ Len(acts') = Len(acts) + 1 /\ Len(acts) \in 1 .. Len(acts)
        /\ DOMAIN acts = 1 .. Len(acts) /\ DOMAIN acts' = 1 .. Len(acts) + 1
        /\ acts'[Len(acts) + 1] = new
        /\ \A j \in 1 .. Len(acts) :
              /\ acts'[j].class = acts[j].class /\ acts'[j].method = acts[j].method
              /\ acts'[j].frame = acts[j].frame /\ acts'[j].localc = acts[j].localc
              /\ acts'[j].resume = IF j = Len(acts) THEN resume ELSE acts[j].resume
    <3>1. acts' = Append([acts EXCEPT ![Len(acts)].resume = resume], new)
      BY <2>1
    <3>2. acts \in Seq(Activation) /\ acts # << >> /\ resume \in Int
      BY <1>1, <1>3
    <3>3. Pushed(acts', acts, resume, new)
      BY <2>2, <3>1, <3>2, ActsPushed
    <3>4. QED
      BY <3>3 DEF Pushed
  <2>4. link + 3 <= StackWords
    BY <1>3, <1>6 DEF Links
  <2>5. Entered(k, i, resume, n, base, link)
    BY <1>2, <1>3, <1>4, <1>b, <1>l, <2>1, <2>3, <2>4 DEF Entered, new, m
  <2>6. QED
    BY <2>5
<1>7. QED
  BY <1>5, <1>6

\* A new frame holds its arguments and no operand.
LEMMA FreshIs ==
    ASSUME NEW k, NEW i, NEW ls, NEW args, Len(ls) = MethodsOf[k][i].locals,
           SubSeq(ls, 1, Len(args)) = args
    PROVE  Frames!Fresh(FrameOf(k, i, MethodsOf[k][i].code, ls, << >>), k, i, args)
BY DEF Frames!Fresh, FrameOf

\* A call of a method with na words of arguments and lo words of locals, where
\* the words of the caller lie as TopWords says.
CallWords(k, i, resume, n, base, link, f, l, b, d, na, lo) ==
    /\ Entered(k, i, resume, n, base, link)
    /\ TopWords(f, l, b, d)
    /\ na \in Nat /\ lo \in Nat /\ na <= lo /\ na <= d
    /\ na = MethodsOf[k][i].nargs /\ lo = MethodsOf[k][i].locals

\* The frames after a call: the last one is new, the one below it has given the
\* arguments away.
CallFrames(k, i, resume, n, base, f, l, b, d, na, lo) ==
    /\ Len(Stack) = n /\ Len(Stack') = n + 1
    /\ SubSeq(Stack', 1, n) = Frames!callers \o
          <<FrameOf(c, acts[Len(acts)].method, resume, Read(mem, f, l),
                    Below(Read(mem, b, d), na))>>
    /\ Stack'[n + 1] = FrameOf(k, i, MethodsOf[k][i].code, Read(mem', base, lo), << >>)
    /\ SubSeq(Read(mem', base, lo), 1, na) = Read(mem, optop - na + 1, na)

\* The frame below the new one keeps what is below the arguments, all others
\* are as they were, and the arguments are the first locals of the new one.
LEMMA CalledFrames ==
    ASSUME IInv, IInv', InControl, acts # << >>,
           NEW k, NEW i, NEW resume, NEW n, NEW base, NEW link,
           NEW f, NEW l, NEW b, NEW d, NEW na, NEW lo,
           CallWords(k, i, resume, n, base, link, f, l, b, d, na, lo)
    PROVE  CallFrames(k, i, resume, n, base, f, l, b, d, na, lo)
<1>0. /\ na \in Nat /\ lo \in Nat /\ na <= lo /\ na <= d
      /\ na = MethodsOf[k][i].nargs /\ lo = MethodsOf[k][i].locals
      /\ Entered(k, i, resume, n, base, link) /\ TopWords(f, l, b, d)
  BY DEF CallWords
<1>1. /\ n \in Nat /\ n >= 1 /\ n = Len(acts) /\ base \in Int /\ link \in Int
      /\ base = optop + 1 - na /\ link = base + lo /\ link + 3 <= StackWords
      /\ mem' = Write(mem, link, <<localc, frame, resume, c>>)
      /\ optop' = link + 3
      /\ pc' = MethodsOf[k][i].code /\ frame' = base /\ localc' = lo
      /\ acts \in Seq(Activation)
      /\ Len(acts') = n + 1 /\ DOMAIN acts = 1 .. n /\ DOMAIN acts' = 1 .. n + 1
  BY <1>0 DEF Entered
<1>2. /\ acts'[n + 1] = [class |-> k, method |-> i, frame |-> base,
                         localc |-> lo, resume |-> Null]
      /\ \A j \in 1 .. n :
            /\ acts'[j].class = acts[j].class /\ acts'[j].method = acts[j].method
            /\ acts'[j].frame = acts[j].frame /\ acts'[j].localc = acts[j].localc
            /\ acts'[j].resume = IF j = n THEN resume ELSE acts[j].resume
  BY <1>0 DEF Entered
<1>3. /\ f = frame /\ l = localc /\ b = f + l + 4 /\ optop = b + d - 1
      /\ f \in Int /\ l \in Nat /\ b \in Int /\ d \in Nat /\ f >= 1
      /\ b + d - 1 <= StackWords /\ StackWords \in Nat
      /\ Len(Read(mem, b, d)) = d /\ mem \in [1 .. StackWords -> Int]
  BY <1>0 DEF TopWords
<1>4. \A a \in 1 .. StackWords : a < link => mem'[a] = mem[a]
  <2>1. PICK ws : ws = <<localc, frame, resume, c>>
    OBVIOUS
  <2>2. \A a \in 1 .. StackWords : a < link => Write(mem, link, ws)[a] = mem[a]
    BY <1>1, <1>3 DEF Write
  <2>3. QED
    BY <1>1, <2>1, <2>2
<1>s. PICK o \in Int, s \in Nat : o = optop /\ s = StackWords /\ o = b + d - 1
  BY <1>3
<1>n. /\ na \in Nat /\ lo \in Nat /\ na <= lo /\ na <= d
      /\ b \in Int /\ d \in Nat /\ f \in Int /\ l \in Nat /\ f >= 1 /\ b = f + l + 4
      /\ base \in Int /\ link \in Int /\ o \in Int /\ s \in Nat /\ n \in Nat /\ n >= 1
      /\ o = b + d - 1 /\ base = o + 1 - na /\ link = base + lo /\ link + 3 <= s
  BY <1>0, <1>1, <1>3, <1>s
<1>q. PICK q \in Nat : q = d - na
  BY ONLY <1>n
<1>5. /\ base = b + q /\ link = b + q + lo /\ link <= s /\ f < link /\ b <= link
      /\ base - 1 - b + 1 = q /\ o - na + 1 = base
      /\ q <= d /\ f + l <= link /\ base <= link /\ b + q <= link /\ base + na <= link
      /\ base >= 1 /\ b >= 1
      /\ link + 3 - (base + lo + 4) + 1 = 0
      /\ n + 1 - 1 = n /\ n \in 1 .. n /\ n + 1 \in 1 .. n + 1 /\ n # n + 1
  BY ONLY <1>n, <1>q
<1>b. \A x \in Int, y \in Nat : x >= 1 /\ x + y <= link =>
          \A j \in 1 .. y : x + j - 1 \in 1 .. StackWords /\ x + j - 1 < link
  <2>1. \A x \in Int, y \in Nat : x >= 1 /\ x + y <= link =>
           \A j \in 1 .. y : x + j - 1 \in 1 .. s /\ x + j - 1 < link
    BY ONLY <1>n, <1>5
  <2>2. QED
    BY <1>s, <2>1
<1>r. \A x \in Int, y \in Nat : x >= 1 /\ x + y <= link => Read(mem', x, y) = Read(mem, x, y)
  BY <1>4, <1>b DEF Read
<1>6. InControl'
  BY <1>0 DEF Entered, InControl
<1>7. /\ Len(Stack) = n /\ \A j \in 1 .. n : Stack[j] = FrameAt(j)
      /\ Stack \in Seq({FrameAt(j) : j \in DOMAIN acts}) /\ Stack # << >>
      /\ Frames!callers = SubSeq(Stack, 1, n - 1)
  BY <1>1, StackFrames, TopIs DEF IInv
<1>t. PICK t : t = Stack'
  OBVIOUS
<1>8. /\ Len(t) = n + 1 /\ \A j \in 1 .. n + 1 : t[j] = FrameAt(j)'
      /\ t \in Seq({t[j] : j \in 1 .. n + 1})
  <2>1. t = [j \in 1 .. n + 1 |-> FrameAt(j)']
    BY <1>1, <1>t DEF Stack
  <2>2. t \in [1 .. n + 1 -> {t[j] : j \in 1 .. n + 1}]
    BY <2>1
  <2>3. n + 1 \in Nat
    BY <1>1
  <2>4. QED
    BY <2>1, <2>2, <2>3, FunctionIsSeq
<1>9. \A j \in 1 .. n : j # n => FrameAt(j)' = FrameAt(j)
  <2>1. SUFFICES ASSUME NEW j \in 1 .. n, j # n
                 PROVE  FrameAt(j)' = FrameAt(j)
    OBVIOUS
  <2>2. j \in DOMAIN acts /\ j \in DOMAIN acts' /\ j + 1 \in 1 .. n /\ j # Len(acts) /\ j # Len(acts')
    BY <1>1, <2>1
  <2>3. acts[j + 1] \in Activation
    BY <1>1, <2>2
  <2>p. PICK g \in Int, h \in Nat : g = acts[j + 1].frame /\ h = acts[j + 1].localc
    BY <2>3 DEF Activation
  <2>4. g <= f
    <3>1. /\ j + 1 # Len(acts) => LinkOf(j + 1) + 4 <= frame
          /\ j + 1 = Len(acts) => RegistersMatch
      BY <1>1, <2>2, LinksBelow DEF IInv, LayoutInv
    <3>2. LinkOf(j + 1) = g + h
      BY <2>p DEF LinkOf
    <3>3. CASE j + 1 = Len(acts)
      BY <1>3, <2>p, <3>1, <3>3 DEF RegistersMatch
    <3>4. CASE j + 1 # Len(acts)
      <4>1. g + h + 4 <= f
        BY <1>3, <3>1, <3>2, <3>4
      <4>2. QED
        BY ONLY <4>1, <2>p, <1>n
    <3>5. QED
      BY <3>3, <3>4
  <2>5. \A a \in 1 .. StackWords : a < acts[j + 1].frame => mem'[a] = mem[a]
    <3>1. \A a \in 1 .. s : a < g => a < link
      BY ONLY <1>n, <1>5, <2>p, <2>4
    <3>2. QED
      BY <1>4, <1>s, <2>p, <3>1
  <2>6. /\ acts'[j].class = acts[j].class /\ acts'[j].method = acts[j].method
        /\ acts'[j].frame = acts[j].frame /\ acts'[j].localc = acts[j].localc
        /\ acts'[j].resume = acts[j].resume /\ acts'[j + 1].frame = acts[j + 1].frame
    BY <1>2, <2>1, <2>2
  <2>7. QED
    BY <1>6, <2>2, <2>5, <2>6, FrameKept
<1>10. FrameAt(n)' = FrameOf(c, acts[n].method, resume, Read(mem, f, l),
                             Below(Read(mem, b, d), na))
  <2>1. FrameAt(n)' = FrameIn(n)'
    BY <1>1, <1>6, FramesReadNext DEF FramesInMemory
  <2>2. /\ acts'[n].class = c /\ acts'[n].method = acts[n].method
        /\ acts'[n].frame = f /\ acts'[n].localc = l /\ acts'[n].resume = resume
        /\ acts'[n + 1].frame = base /\ n # Len(acts')
    <3>1. acts[n].class = c /\ acts[n].frame = f /\ acts[n].localc = l
      BY <1>1, <1>3 DEF IInv, LayoutInv, RegistersMatch
    <3>2. n \in 1 .. n /\ n # n + 1
      BY <1>1
    <3>3. QED
      BY <1>1, <1>2, <3>1, <3>2
  <2>3. /\ OperandBase(n)' = b /\ OperandTop(n)' = base - 1 /\ PcOf(n)' = resume
    BY <1>3, <2>2 DEF OperandBase, LinkOf, Links, OperandTop, PcOf
  <2>5. FrameIn(n)' = FrameOf(acts'[n].class, acts'[n].method, PcOf(n)',
                              Read(mem', acts'[n].frame, acts'[n].localc),
                              Read(mem', OperandBase(n)', OperandTop(n)' - OperandBase(n)' + 1))
    BY DEF FrameIn, FrameOf
  <2>6. FrameIn(n)' = FrameOf(c, acts[n].method, resume, Read(mem', f, l), Read(mem', b, q))
    BY <1>5, <2>2, <2>3, <2>5
  <2>7. Read(mem', f, l) = Read(mem, f, l) /\ Read(mem', b, q) = Read(mem, b, q)
    BY <1>n, <1>q, <1>5, <1>r
  <2>9. Read(mem, b, q) = SubSeq(Read(mem, b, d), 1, q)
    <3>1. 0 \in Nat /\ 0 + q <= d
      BY ONLY <1>n, <1>q, <1>5
    <3>2. IsPart(mem, b, d, 0, q)
      BY <1>3, <3>1, ReadPart
    <3>3. b + 0 = b /\ 0 + 1 = 1 /\ 0 + q = q
      BY <1>3
    <3>4. QED
      BY <3>2, <3>3 DEF IsPart
  <2>10. Below(Read(mem, b, d), na) = SubSeq(Read(mem, b, d), 1, q)
    BY <1>3, <1>q DEF Below
  <2>11. QED
    BY <2>1, <2>6, <2>7, <2>9, <2>10
<1>11. FrameAt(n + 1)' = FrameOf(k, i, MethodsOf[k][i].code, Read(mem', base, lo), << >>)
  <2>1. n + 1 \in DOMAIN acts' /\ n + 1 = Len(acts')
    BY <1>1
  <2>2. FrameAt(n + 1)' = FrameIn(n + 1)'
    BY <1>6, <2>1, FramesReadNext DEF FramesInMemory
  <2>3. /\ acts'[n + 1].class = k /\ acts'[n + 1].method = i
        /\ acts'[n + 1].frame = base /\ acts'[n + 1].localc = lo
    BY <1>2
  <2>4. /\ OperandBase(n + 1)' = base + lo + 4 /\ OperandTop(n + 1)' = link + 3
        /\ PcOf(n + 1)' = MethodsOf[k][i].code
    BY <1>1, <2>1, <2>3 DEF OperandBase, LinkOf, Links, OperandTop, PcOf
  <2>6. FrameIn(n + 1)' =
           FrameOf(acts'[n + 1].class, acts'[n + 1].method, PcOf(n + 1)',
                   Read(mem', acts'[n + 1].frame, acts'[n + 1].localc),
                   Read(mem', OperandBase(n + 1)',
                        OperandTop(n + 1)' - OperandBase(n + 1)' + 1))
    BY DEF FrameIn, FrameOf
  <2>7. Read(mem', base + lo + 4, 0) = << >>
    BY DEF Read
  <2>8. QED
    BY <1>5, <2>2, <2>3, <2>4, <2>6, <2>7
<1>12. SubSeq(t, 1, n) = Frames!callers \o <<FrameAt(n)'>>
  <2>1. PICK u : u = SubSeq(t, 1, n)
    OBVIOUS
  <2>2. DOMAIN u = 1 .. n /\ u = [j \in 1 .. n |-> u[j]] /\ \A j \in 1 .. n : u[j] = t[j]
    <3>1. u = [j \in 1 .. n |-> t[j]]
      BY <1>n, <1>8, <2>1
    <3>2. QED
      BY <3>1
  <2>a. \A j \in 1 .. n : j # n => u[j] = Stack[j]
    <3>1. \A j \in 1 .. n : j \in 1 .. n + 1
      BY ONLY <1>n
    <3>2. QED
      BY <1>7, <1>8, <1>9, <2>2, <3>1
  <2>3. /\ DOMAIN u = 1 .. Len(Stack) /\ u = [j \in 1 .. Len(Stack) |-> u[j]]
        /\ \A j \in 1 .. Len(Stack) : j # Len(Stack) => u[j] = Stack[j]
    BY <1>7, <2>2, <2>a, Zenon
  <2>4. u = SubSeq(Stack, 1, Len(Stack) - 1) \o <<u[Len(Stack)]>>
    BY <1>7, <2>3, LastReplaced
  <2>5. u[n] = FrameAt(n)'
    <3>1. n \in 1 .. n /\ n \in 1 .. n + 1
      BY ONLY <1>n
    <3>2. QED
      BY <1>8, <2>2, <3>1
  <2>6. QED
    BY <1>7, <2>1, <2>4, <2>5
<1>13. SubSeq(Read(mem', base, lo), 1, na) = Read(mem, optop - na + 1, na)
  <2>1. 0 \in Nat /\ 0 + na <= lo
    BY <1>0
  <2>2. IsPart(mem', base, lo, 0, na)
    BY <1>0, <1>1, <2>1, ReadPart
  <2>3. base + 0 = base /\ 0 + 1 = 1 /\ 0 + na = na
    BY ONLY <1>n
  <2>4. Read(mem', base, na) = SubSeq(Read(mem', base, lo), 1, na)
    BY <2>2, <2>3 DEF IsPart
  <2>5. Read(mem', base, na) = Read(mem, base, na)
    BY <1>n, <1>5, <1>r
  <2>6. QED
    BY <1>5, <1>s, <2>4, <2>5
<1>14. SubSeq(Stack', 1, n) = Frames!callers \o
            <<FrameOf(c, acts[Len(acts)].method, resume, Read(mem, f, l),
                      Below(Read(mem, b, d), na))>>
  BY <1>1, <1>10, <1>12, <1>t
<1>15. Stack'[n + 1] = FrameOf(k, i, MethodsOf[k][i].code, Read(mem', base, lo), << >>)
  <2>1. n + 1 \in 1 .. n + 1
    BY <1>1
  <2>2. QED
    BY <1>8, <1>11, <1>t, <2>1
<1>16. Len(Stack') = n + 1
  BY <1>8, <1>t
<1>17. QED
  BY <1>7, <1>13, <1>14, <1>15, <1>16 DEF CallFrames

\* The new frame, and the one below it.
LEMMA EnterRefined ==
    ASSUME IInv, IInv', InControl, Grounded, acts # << >>,
           NEW k, NEW i, NEW resume, Callable(k, i, resume)
    PROVE  Frames!Call(Frames!Stepped(Frames!top, MethodsOf[k][i].nargs, << >>, resume), k, i,
                       Frames!Top(Frames!top, MethodsOf[k][i].nargs))
<1>1. PICK f, l, b, d : TopWords(f, l, b, d)
  BY WordsOfTop
<1>2. /\ f = frame /\ l = localc /\ b = f + l + 4 /\ optop = b + d - 1
      /\ f \in Int /\ l \in Nat /\ b \in Int /\ d \in Nat
      /\ f >= 1 /\ b + d - 1 <= StackWords /\ StackWords \in Nat
      /\ Frames!top = FrameOf(c, acts[Len(acts)].method, pc, Read(mem, f, l), Read(mem, b, d))
      /\ Read(mem, b, d) \in Seq(Int) /\ Len(Read(mem, b, d)) = d
      /\ mem \in [1 .. StackWords -> Int]
  BY <1>1 DEF TopWords
<1>3. /\ k \in Classes /\ i \in DOMAIN MethodsOf[k] /\ MethodsOf[k][i].native = "no"
      /\ resume \in Int
      /\ frame + localc + 4 + MethodsOf[k][i].nargs <= optop + 1
  BY DEF Callable
<1>4. PICK na \in Nat, lo \in Nat :
         na = MethodsOf[k][i].nargs /\ lo = MethodsOf[k][i].locals /\ na <= lo
  BY <1>3, MethodFacts
<1>5. na <= d
  BY <1>2, <1>3, <1>4
<1>6. PICK args \in Seq(Int) : /\ args = Read(mem, optop - na + 1, na) /\ Len(args) = na
                               /\ Frames!Top(Frames!top, na) = args
  BY <1>1, <1>5, TopOperands
<1>7. PICK caller : /\ caller = Frames!Stepped(Frames!top, na, << >>, resume)
                    /\ caller = FrameOf(c, acts[Len(acts)].method, resume, Read(mem, f, l),
                                        Below(Read(mem, b, d), na))
  BY <1>2, <1>5, SteppedDown
<1>8. Frames!WordsUsed = optop
  BY WordsUsedIs
<1>9. CASE vm' = "undefined" /\ optop + 1 - na + lo + 3 > StackWords
  <2>1. optop + (lo + 4 - Len(args)) > StackWords
    BY <1>2, <1>6, <1>9
  <2>2. QED
    BY <1>4, <1>6, <1>8, <1>9, <2>1 DEF Frames!Call, Frames!NoRoom
<1>10. ASSUME NEW n, NEW base, NEW link, Entered(k, i, resume, n, base, link)
       PROVE  Frames!Call(caller, k, i, args)
  <2>0. CallWords(k, i, resume, n, base, link, f, l, b, d, na, lo)
    BY <1>1, <1>4, <1>5, <1>10 DEF CallWords
  <2>a. CallFrames(k, i, resume, n, base, f, l, b, d, na, lo)
    BY <2>0, CalledFrames
  <2>1. /\ Len(Stack) = n /\ Len(Stack') = n + 1
        /\ SubSeq(Stack', 1, n) = Frames!callers \o <<caller>>
        /\ Stack'[n + 1] = FrameOf(k, i, MethodsOf[k][i].code, Read(mem', base, lo), << >>)
        /\ SubSeq(Read(mem', base, lo), 1, na) = args
    BY <1>6, <1>7, <2>a DEF CallFrames
  <2>2. Len(Read(mem', base, lo)) = lo
    BY DEF Read
  <2>3. Frames!Fresh(Stack'[n + 1], k, i, args)
    <3>1. SubSeq(Read(mem', base, lo), 1, Len(args)) = args
      BY <1>6, <2>1
    <3>2. Frames!Fresh(FrameOf(k, i, MethodsOf[k][i].code, Read(mem', base, lo), << >>),
                       k, i, args)
      BY <1>4, <2>2, <3>1, FreshIs
    <3>3. QED
      BY <2>1, <3>2
  <2>4. Frames!Room(lo + 4 - Len(args)) /\ vm' = "running"
    <3>1. /\ base = optop + 1 - na /\ link = base + lo /\ link + 3 <= StackWords
          /\ vm' = "running" /\ base \in Int /\ link \in Int
      BY <1>4, <1>10 DEF Entered
    <3>2. optop + (lo + 4 - na) <= StackWords
      BY <1>2, <3>1
    <3>3. QED
      BY <1>6, <1>8, <3>1, <3>2 DEF Frames!Room
  <2>5. QED
    BY <1>4, <2>1, <2>3, <2>4 DEF Frames!Call, Stack
<1>11. QED
  BY <1>4, <1>6, <1>7, <1>9, <1>10, EnteredOrNot

----------------------------------------------------------------------------
(* Constructors and calls. *)

\* Every class of the program declares a static constructor, or none does: then
\* get_static_constructor finds the one of the class.
ConstructorsEverywhere ==
    \/ \A k \in Classes : ~ Declares(k, "<clinit>")
    \/ \A k \in Classes : Declares(k, "<clinit>")

\* No class declares the native method whose argument stays on the stack.
NoPrintln ==
    \A k \in Classes : \A i \in DOMAIN MethodsOf[k] : MethodsOf[k][i].native # "println"

\* The constructor of a class that declares one.
LEMMA ConstructorIs ==
    ASSUME NEW k \in Classes, Declares(k, "<clinit>")
    PROVE  /\ FirstOrLast(k, "<clinit>") \in DOMAIN MethodsOf[k]
           /\ FirstOrLast(k, "<clinit>") # 0
           /\ MethodsOf[k][FirstOrLast(k, "<clinit>")].native = "no"
           /\ MethodsOf[k][FirstOrLast(k, "<clinit>")].nargs = 0
<1>1. PICK i : i = FirstOrLast(k, "<clinit>")
  OBVIOUS
<1>2. i \in DOMAIN MethodsOf[k] /\ MethodsOf[k][i].name = "<clinit>"
  BY <1>1, LookupFinds
<1>3. MethodsOf[k] \in Seq(MethodInfo)
  BY ProgramShape
<1>4. i # 0
  BY <1>2, <1>3
<1>5. MethodVerified(k, i)
  BY <1>2, ProgramVerified
<1>6. MethodsOf[k][i].native = "no" /\ MethodsOf[k][i].nargs = 0
  BY <1>2, <1>5 DEF MethodVerified
<1>7. QED
  BY <1>1, <1>2, <1>4, <1>6

\* What the invariant needs follows from it.
LEMMA ConstructorsFit ==
    ASSUME ConstructorsEverywhere
    PROVE  InitializersFit
BY ConstructorIs DEF ConstructorsEverywhere, InitializersFit, Fits

\* A frame that takes nothing and goes on where it is stays as it is.
LEMMA NothingTaken ==
    ASSUME NEW k, NEW i, NEW a, NEW ls, NEW os \in Seq(Int)
    PROVE  /\ Frames!Stepped(FrameOf(k, i, a, ls, os), 0, << >>, a) = FrameOf(k, i, a, ls, os)
           /\ Frames!Top(FrameOf(k, i, a, ls, os), 0) = << >>
<1>1. PICK n \in Nat : n = Len(os)
  OBVIOUS
<1>2. Below(os, 0) = os
  <2>1. n - 0 = n
    BY <1>1
  <2>2. SubSeq(os, 1, n) = os
    BY <1>1
  <2>3. QED
    BY <1>1, <2>1, <2>2 DEF Below
<1>3. Above(os, 0) = << >>
  <2>1. n - 0 + 1 = n + 1
    BY <1>1
  <2>2. SubSeq(os, n + 1, n) = << >>
    BY <1>1
  <2>3. QED
    BY <1>1, <2>1, <2>2 DEF Above
<1>4. 0 \in Nat /\ 0 <= Len(os)
  BY <1>1
<1>5. Frames!Stepped(FrameOf(k, i, a, ls, os), 0, << >>, a) = FrameOf(k, i, a, ls, Below(os, 0))
  BY <1>4, SteppedDown
<1>6. Frames!Top(FrameOf(k, i, a, ls, os), 0) = Above(os, 0)
  BY SteppedIs
<1>7. QED
  BY <1>2, <1>3, <1>5, <1>6

\* Both machines look methods up in the same way.
LEMMA SameLookup ==
    /\ \A k, name : Frames!FirstOrLast(k, name) = FirstOrLast(k, name)
    /\ \A k, name : Frames!Declares(k, name) <=> Declares(k, name)
BY DEF Frames!FirstOrLast, FirstOrLast, Frames!Declares, Declares

\* initialize_static starts the constructor the class declares.
LEMMA InitializeRefined ==
    ASSUME ConstructorsEverywhere, IInv, IInv', InControl, Grounded, acts # << >>,
           NEW k \in Classes, k \in loaded', loaded' \subseteq Classes,
           statics' = statics, initialize_static(k, pc)
    PROVE  Frames!Construct(k)
<1>1. static_initialized' = static_initialized \cup {k}
  BY DEF initialize_static, MarkInitialized
<1>2. CASE \A j \in Classes : ~ Declares(j, "<clinit>")
  <2>1. get_static_constructor(k, loaded') = 0
    BY <1>2 DEF get_static_constructor
  <2>2. /\ vm' = "running" /\ pc' = pc
        /\ UNCHANGED <<c, cp, frame, localc, optop, mem, acts>>
    BY <2>1 DEF initialize_static
  <2>3. Stack' = Stack
    BY <2>2, SameFrames DEF registers
  <2>4. ~ Frames!Declares(k, "<clinit>")
    BY <1>2, SameLookup
  <2>5. QED
    BY <1>1, <2>2, <2>3, <2>4 DEF Frames!Construct, Stack
<1>3. CASE \A j \in Classes : Declares(j, "<clinit>")
  <2>1. PICK i : i = FirstOrLast(k, "<clinit>")
    OBVIOUS
  <2>2. /\ i \in DOMAIN MethodsOf[k] /\ i # 0
        /\ MethodsOf[k][i].native = "no" /\ MethodsOf[k][i].nargs = 0
    BY <1>3, <2>1, ConstructorIs
  <2>3. get_static_constructor(k, loaded') = i
    BY <1>3, <2>1 DEF get_static_constructor
  <2>4. Enter(k, i, pc)
    BY <2>2, <2>3 DEF initialize_static
  <2>5. PICK f, l, b, d : TopWords(f, l, b, d)
    BY WordsOfTop
  <2>6. Callable(k, i, pc)
    <3>1. pc \in Int
      BY DEF IInv, TypeOK, MachineTypeOK
    <3>2. frame + localc + 4 + 0 <= optop + 1
      BY <2>5 DEF TopWords
    <3>3. QED
      BY <2>2, <2>4, <3>1, <3>2 DEF Callable
  <2>7. /\ Frames!Stepped(Frames!top, 0, << >>, pc) = Frames!top
        /\ Frames!Top(Frames!top, 0) = << >>
    <3>1. /\ Frames!top = FrameOf(c, acts[Len(acts)].method, pc, Read(mem, f, l), Read(mem, b, d))
          /\ Read(mem, b, d) \in Seq(Int)
      BY <2>5 DEF TopWords
    <3>2. QED
      BY <3>1, NothingTaken
  <2>8. Frames!Call(Frames!Stepped(Frames!top, 0, << >>, pc), k, i, Frames!Top(Frames!top, 0))
    BY <2>2, <2>6, EnterRefined
  <2>9. Frames!Call(Frames!top, k, i, << >>)
    BY <2>7, <2>8
  <2>10. Frames!Declares(k, "<clinit>") /\ Frames!FirstOrLast(k, "<clinit>") = i
    BY <1>3, <2>1, SameLookup
  <2>11. QED
    BY <1>1, <2>9, <2>10 DEF Frames!Construct
<1>4. QED
  BY <1>2, <1>3 DEF ConstructorsEverywhere

\* The constructor of the main class.
LEMMA StartRefined ==
    ASSUME ConstructorsEverywhere, Inductive, IInv', Grounded, Start
    PROVE  Frames!Start
<1>1. /\ IInv /\ vm = "starting" /\ InControl /\ loaded' = loaded /\ statics' = statics
      /\ initialize_static(MainClass, pc)
  BY DEF Start, Inductive, InControl
<1>2. MainClass \in loaded' /\ acts # << >>
  BY <1>1 DEF Inductive, ClassInv
<1>3. loaded' \subseteq Classes /\ MainClass \in Classes
  BY <1>1, ProgramShape DEF IInv, TypeOK, ClassTypeOK
<1>4. Frames!Construct(MainClass)
  BY <1>1, <1>2, <1>3, InitializeRefined
<1>5. QED
  BY <1>1, <1>4 DEF Frames!Start

\* The constructor of a class at its first use: the instruction is repeated.
LEMMA FirstUseRefined ==
    ASSUME ConstructorsEverywhere, IInv, IInv', Grounded, InitializeClass
    PROVE  Frames!FirstUse
<1>1. PICK op \in RefOps : Resolves(op)
  BY DEF InitializeClass, Again
<1>2. /\ Frames!Uses(op) /\ Frames!Ref = Ref /\ acts # << >> /\ InControl
  BY <1>1, UsesRef
<1>3. Ref.class \in Classes
  BY <1>1, ResolvedRef
<1>4. pc \in Int /\ loaded \subseteq Classes
  BY DEF IInv, TypeOK, MachineTypeOK, ClassTypeOK
<1>5. /\ loaded' = loaded \cup {Ref.class} /\ statics' = statics
      /\ Ref.class \notin static_initialized
      /\ initialize_static(Ref.class, pc)
  <2>1. (pc + 1) + 2 - 3 = pc
    BY <1>4
  <2> QED
    BY <2>1 DEF InitializeClass, Again
<1>6. Frames!Construct(Ref.class)
  BY <1>2, <1>3, <1>4, <1>5, InitializeRefined
<1>7. QED
  BY <1>2, <1>5, <1>6 DEF Frames!FirstUse, RefOps

\* A call of a static method.
LEMMA InvokeRefined ==
    ASSUME IInv, IInv', Grounded, invokestatic
    PROVE  Frames!invokestatic
<1> DEFINE i == Ref.member
           k == Ref.class
<1>1. /\ Resolves("invokestatic") /\ k \in static_initialized
      /\ MethodsOf[k][i].native = "no" /\ Enter(k, i, Next_pc)
      /\ UNCHANGED <<static_initialized, statics>>
  BY DEF invokestatic, Initialized
<1>2. /\ Fetch({"invokestatic"}) /\ Code[pc].op = "invokestatic" /\ InstructionVerified(pc)
      /\ PoolOf[Owner[pc][1]][Code[pc].arg] = Ref /\ k \in Classes /\ i # 0
  BY <1>1, ResolvedRef DEF RefOps
<1>3. i \in DOMAIN MethodsOf[k] /\ Code[pc].pops = MethodsOf[k][i].nargs
  BY <1>2 DEF InstructionVerified
<1>4. /\ Next_pc \in Addresses /\ Depth[pc] \in Nat /\ Code[pc].pops \in Nat
      /\ Code[pc].pops <= Depth[pc]
  BY <1>2, FlowsOn
<1>5. /\ frame + localc + 4 + Depth[pc] <= optop + 1 /\ acts # << >>
      /\ localc \in Nat /\ optop \in Int /\ frame \in Int /\ InControl
  BY <1>2, Fetched DEF IInv, TypeOK, MachineTypeOK, Fetch, InControl
<1>6. /\ Frames!Uses("invokestatic") /\ Frames!Ref = Ref /\ Frames!Following = Next_pc
  BY <1>1, UsesRef DEF RefOps
<1> HIDE DEF i, k
<1>7. Callable(k, i, Next_pc)
  <2>1. Next_pc \in Int
    BY <1>4, ProgramShape
  <2>2. PICK x \in Nat, y \in Nat, f \in Int, l \in Nat, o \in Int :
           x = Depth[pc] /\ y = Code[pc].pops /\ f = frame /\ l = localc /\ o = optop
    BY <1>4, <1>5
  <2>3. f + l + 4 + y <= o + 1
    BY <1>4, <1>5, <2>2
  <2>4. QED
    BY <1>1, <1>2, <1>3, <2>1, <2>2, <2>3 DEF Callable
<1>8. Frames!Call(Frames!Stepped(Frames!top, MethodsOf[k][i].nargs, << >>, Next_pc), k, i,
                  Frames!Top(Frames!top, MethodsOf[k][i].nargs))
  BY <1>5, <1>7, EnterRefined
<1>9. QED
  BY <1>1, <1>6, <1>8 DEF Frames!invokestatic, Frames!Callee, i, k

\* A native method that is not println is one run() does not support.
LEMMA NativeRefined ==
    ASSUME NoPrintln, IInv, call_native
    PROVE  Frames!Abort
<1>1. /\ Resolves("invokestatic") /\ Ref.class \in static_initialized
      /\ MethodsOf[Ref.class][Ref.member].native # "no"
      /\ UNCHANGED <<c, cp, frame, localc, optop, mem, acts, static_initialized, statics>>
  BY DEF call_native, Initialized
<1>2. /\ Code[pc].op = "invokestatic" /\ InstructionVerified(pc)
      /\ PoolOf[Owner[pc][1]][Code[pc].arg] = Ref /\ Ref.class \in Classes /\ Ref.member # 0
  BY <1>1, ResolvedRef DEF RefOps
<1>3. Ref.member \in DOMAIN MethodsOf[Ref.class]
  BY <1>2 DEF InstructionVerified
<1>4. MethodsOf[Ref.class][Ref.member].native = "unsupported"
  <2>1. MethodsOf[Ref.class] \in Seq(MethodInfo)
    BY <1>2, ProgramShape
  <2>2. MethodsOf[Ref.class][Ref.member] \in MethodInfo
    BY <1>3, <2>1
  <2>3. MethodsOf[Ref.class][Ref.member].native \in Natives
    BY <2>2 DEF MethodInfo
  <2>4. MethodsOf[Ref.class][Ref.member].native # "println"
    BY <1>2, <1>3 DEF NoPrintln
  <2>5. QED
    BY <1>1, <2>3, <2>4 DEF Natives
<1>5. vm' = "aborted" /\ pc' = pc
  BY <1>4 DEF call_native
<1>6. Stack' = Stack
  BY <1>1, <1>5, SameFrames DEF registers
<1>7. /\ Frames!Uses("invokestatic") /\ Frames!Ref = Ref /\ Frames!Instr = Code[pc]
  BY <1>1, UsesRef DEF RefOps
<1>8. Frames!Executing({"invokestatic"})
  BY <1>7 DEF Frames!Uses
<1>9. QED
  BY <1>1, <1>2, <1>4, <1>5, <1>6, <1>7, <1>8
     DEF Frames!Abort, Frames!Executing, Frames!Callee, Stack

----------------------------------------------------------------------------
(* Returns. *)

\* The return from main leaves no frame.
LEMMA LastReturnRefined ==
    ASSUME IInv, IInv', Return, Len(acts) = 1
    PROVE  Frames!Return
<1>1. Fetch({"return"}) /\ vm' = vm /\ UNCHANGED <<static_initialized, statics>>
  BY DEF Return, UNCHANGED_classes
<1>2. Frames!Executing({"return"}) /\ acts # << >> /\ TypeOK
  BY <1>1, FetchedFrame DEF IInv
<1>3. Frames!callers = << >>
  <2>1. Frames!callers = SubSeq(Stack, 1, 0)
    BY <1>2, TopIs
  <2>2. Stack \in Seq({FrameAt(i) : i \in DOMAIN acts})
    BY <1>2, StackFrames
  <2>3. QED
    BY <2>1, <2>2
<1>4. Stack' = << >>
  <2>1. acts \in Seq(Activation) /\ acts' = SubSeq(acts, 1, Len(acts) - 1)
    BY <1>2 DEF Return, TypeOK, MachineTypeOK
  <2>2. DOMAIN acts' = 1 .. Len(acts) - 1
    BY <1>2, <2>1, ActsPopped
  <2>3. DOMAIN acts' = {}
    BY <2>2
  <2>4. Stack' = [i \in {} |-> FrameAt(i)']
    BY <2>3 DEF Stack
  <2>5. QED
    BY <2>4
<1>5. QED
  BY <1>1, <1>2, <1>3, <1>4 DEF Frames!Return, Stack

\* n methods are active after the return.  The words of the caller lie from b
\* on up to the frame that is left, whose result has w words.
Returned(n, b, q, w) ==
    /\ n \in Nat /\ n >= 1 /\ Len(acts) = n + 1 /\ DOMAIN acts = 1 .. n + 1
    /\ Len(acts') = n /\ DOMAIN acts' = 1 .. n /\ acts \in Seq(Activation)
    /\ \A j \in 1 .. n : acts'[j] = acts[j]
    /\ acts[n + 1].frame = frame /\ pc' = acts[n].resume
    /\ b \in Int /\ b = OperandBase(n) /\ q \in Nat /\ frame = b + q
    /\ w \in Nat /\ w = Code[pc].pops /\ optop' = frame + w - 1 /\ frame + w - 1 <= StackWords
    /\ \A a \in 1 .. StackWords : a < frame => mem'[a] = mem[a]

\* The saved registers lead back to the caller.
LEMMA CallerReached ==
    ASSUME IInv, Return, Len(acts) # 1
    PROVE  \E n, b, q, w : Returned(n, b, q, w)
<1>1. /\ Fetch({"return"}) /\ acts # << >> /\ InControl
      /\ acts \in Seq(Activation) /\ frame \in Int /\ localc \in Int
      /\ LinksIntact /\ RegistersMatch /\ FramesOrdered
      /\ acts' = SubSeq(acts, 1, Len(acts) - 1)
  BY Fetched DEF IInv, LayoutInv, TypeOK, MachineTypeOK, Return, Fetch, InControl
<1>2. PICK n \in Nat : Len(acts) = n + 1 /\ n >= 1 /\ DOMAIN acts = 1 .. n + 1
  <2>a. Len(acts) \in Nat /\ DOMAIN acts = 1 .. Len(acts) /\ Len(acts) # 0
    BY <1>1
  <2>1. PICK l \in Nat : l = Len(acts) /\ l # 0 /\ l # 1 /\ DOMAIN acts = 1 .. l
    BY <2>a
  <2>2. PICK n \in Nat : l = n + 1 /\ n >= 1
    BY ONLY <2>1
  <2>3. QED
    BY <2>1, <2>2
<1>3. n \in 1 .. n + 1 /\ n + 1 \in 1 .. n + 1 /\ n + 1 # 1 /\ n < n + 1 /\ n + 1 - 1 = n
  BY ONLY <1>2
<1>4. Len(acts') = n /\ DOMAIN acts' = 1 .. n /\ \A j \in 1 .. n : acts'[j] = acts[j]
  BY <1>1, <1>2, <1>3, ActsPopped
<1>5. /\ acts[n + 1].frame = frame /\ LinkOf(n + 1) = frame + localc
  BY <1>1, <1>2 DEF RegistersMatch, LinkOf
<1>6. pc' = acts[n].resume
  <2>1. Saved(n + 1) = <<acts[n + 1 - 1].localc, acts[n + 1 - 1].frame,
                         acts[n + 1 - 1].resume, acts[n + 1 - 1].class>>
    BY <1>1, <1>2, <1>3 DEF LinksIntact
  <2>2. Saved(n + 1)[3] = acts[n + 1 - 1].resume
    BY <2>1
  <2>3. \A j \in 1 .. 4 : Saved(n + 1)[j] = mem[LinkOf(n + 1) + j - 1]
    BY DEF Saved, Read, Links
  <2>4. Saved(n + 1)[3] = mem[frame + localc + 3 - 1]
    BY <1>5, <2>3
  <2>5. frame + localc + 3 - 1 = frame + localc + 2
    BY <1>1
  <2>6. pc' = mem[frame + localc + 2]
    BY DEF Return
  <2>7. QED
    BY <1>3, <2>2, <2>4, <2>5, <2>6
<1>7. PICK b \in Int : b = OperandBase(n) /\ b <= frame
  <2>1. acts[n] \in Activation
    BY <1>1, <1>2, <1>3
  <2>2. OperandBase(n) \in Int
    BY <2>1 DEF OperandBase, LinkOf, Links, Activation
  <2>3. OperandBase(n) <= frame
    BY <1>1, <1>2, <1>3, <1>5 DEF FramesOrdered
  <2>4. QED
    BY <2>2, <2>3
<1>8. PICK q \in Nat : frame = b + q
  <2>1. frame - b \in Nat /\ frame = b + (frame - b)
    BY <1>1, <1>7
  <2>2. QED
    BY <2>1
<1>9. PICK w \in Nat : /\ w = Code[pc].pops /\ optop' = frame + w - 1
                       /\ frame + w - 1 <= StackWords
                       /\ \A a \in 1 .. StackWords : a < frame => mem'[a] = mem[a]
  BY ReturnWords
<1>10. Returned(n, b, q, w)
  BY <1>1, <1>2, <1>4, <1>5, <1>6, <1>7, <1>8, <1>9 DEF Returned
<1>11. QED
  BY <1>10

\* The frame of the caller has the result on top of what was left below the
\* arguments.
LEMMA CallerRefined ==
    ASSUME IInv, IInv', Return, NEW n, NEW b, NEW q, NEW w, Returned(n, b, q, w)
    PROVE  /\ \A j \in 1 .. n : j # n => FrameAt(j)' = FrameAt(j)
           /\ FrameAt(n)' = Frames!Stepped(FrameAt(n), 0, Frames!Top(Frames!top, w),
                                           FrameAt(n).pc)
<1>1. /\ n \in Nat /\ n >= 1 /\ Len(acts) = n + 1 /\ DOMAIN acts = 1 .. n + 1
      /\ Len(acts') = n /\ DOMAIN acts' = 1 .. n /\ acts \in Seq(Activation)
      /\ \A j \in 1 .. n : acts'[j] = acts[j]
      /\ acts[n + 1].frame = frame /\ pc' = acts[n].resume
      /\ b \in Int /\ b = OperandBase(n) /\ q \in Nat /\ frame = b + q
      /\ w \in Nat /\ w = Code[pc].pops /\ optop' = frame + w - 1 /\ frame + w - 1 <= StackWords
      /\ \A a \in 1 .. StackWords : a < frame => mem'[a] = mem[a]
  BY DEF Returned
<1>2. /\ Fetch({"return"}) /\ vm' = vm
      /\ mem' = Write(mem, frame, Read(mem, optop - w + 1, w))
  BY <1>1 DEF Return, UNCHANGED_classes
<1>3. /\ InControl /\ InControl' /\ acts # << >> /\ MethodsKnown
      /\ mem \in [1 .. StackWords -> Int] /\ StackWords \in Nat
  <2>1. InControl /\ acts # << >>
    BY <1>2, FetchedFrame
  <2>2. InControl'
    BY <1>2, <2>1 DEF InControl
  <2>3. QED
    BY <2>1, <2>2, ProgramShape DEF IInv, LayoutInv, TypeOK, MachineTypeOK
<1>4. n \in 1 .. n /\ n \in 1 .. n + 1 /\ n + 1 \in 1 .. n + 1 /\ n # n + 1
  BY ONLY <1>1
<1>5. ASSUME NEW j \in 1 .. n, j # n
      PROVE  FrameAt(j)' = FrameAt(j)
  <2>1. j \in 1 .. n + 1 /\ j + 1 \in 1 .. n + 1 /\ j + 1 \in 1 .. n /\ j # n + 1
        /\ j + 1 # n + 1
    <3>1. n \in Nat /\ j \in 1 .. n /\ j # n
      BY <1>1, <1>5
    <3>2. QED
      BY ONLY <3>1
  <2>2. acts[j + 1] \in Activation
    BY <1>1, <2>1
  <2>3. PICK g \in Int, h \in Nat : g = acts[j + 1].frame /\ h = acts[j + 1].localc
    BY <2>2 DEF Activation
  <2>4. LinkOf(j + 1) + 4 <= frame /\ LinkOf(j + 1) = g + h
    BY <1>1, <1>3, <2>1, <2>3, LinksBelow DEF LinkOf
  <2>a. PICK x \in Int : x = frame /\ g + h + 4 <= x
    BY <1>1, <2>4
  <2>b. g <= x
    BY ONLY <2>3, <2>a
  <2>5. g <= frame
    BY <2>a, <2>b
  <2>6. \A a \in 1 .. StackWords : a < acts[j + 1].frame => mem'[a] = mem[a]
    BY <1>1, <1>3, <2>3, <2>5
  <2>7. acts'[j] = acts[j] /\ acts'[j + 1] = acts[j + 1]
    BY <1>1, <2>1
  <2>8. QED
    BY <1>1, <1>3, <1>5, <2>1, <2>6, <2>7, FrameKept
<1>6. PICK f \in Int, l \in Nat :
         f = acts[n].frame /\ l = acts[n].localc /\ f >= 1 /\ b = f + l + 4
  <2>1. acts[n] \in Activation
    BY <1>1, <1>4
  <2>2. acts[n].frame >= 1
    BY <1>1, <1>3, <1>4 DEF MethodsKnown
  <2>3. PICK f \in Int, l \in Nat : f = acts[n].frame /\ l = acts[n].localc
    BY <2>1 DEF Activation
  <2>4. b = f + l + 4
    BY <1>1, <2>3 DEF OperandBase, LinkOf, Links
  <2>5. QED
    BY <2>2, <2>3, <2>4
<1>s. PICK fr \in Int, s \in Nat : fr = frame /\ s = StackWords /\ fr = b + q /\ fr + w - 1 <= s
  BY <1>1, <1>3
<1>n. /\ b >= 1 /\ q <= q /\ b + q - 1 <= s /\ b + q + w - 1 <= s
      /\ q - 0 = q /\ f + l <= fr /\ fr - 1 - b + 1 = q /\ (fr + w - 1) - b + 1 = q + w
      /\ \A j \in 1 .. l : f + j - 1 \in 1 .. s /\ f + j - 1 < fr
      /\ \A j \in 1 .. q : b + j - 1 \in 1 .. s
  <2>1. /\ fr \in Int /\ s \in Nat /\ fr = b + q /\ fr + w - 1 <= s /\ b \in Int /\ q \in Nat
        /\ w \in Nat /\ f \in Int /\ l \in Nat /\ f >= 1 /\ b = f + l + 4
    BY <1>1, <1>6, <1>s
  <2>2. QED
    BY ONLY <2>1
<1>7. FrameAt(n) = FrameOf(acts[n].class, acts[n].method, acts[n].resume,
                           Read(mem, f, l), Read(mem, b, q))
  <2>1. FrameAt(n) = FrameIn(n)
    BY <1>1, <1>3, <1>4, FramesRead DEF FramesInMemory
  <2>2. PcOf(n) = acts[n].resume /\ OperandTop(n) = frame - 1
    BY <1>1, <1>4 DEF PcOf, OperandTop
  <2>3. frame - 1 - b + 1 = q
    BY <1>n, <1>s
  <2>4. QED
    BY <1>1, <1>6, <2>1, <2>2, <2>3 DEF FrameIn, FrameOf
<1>8. FrameAt(n)' = FrameOf(acts[n].class, acts[n].method, acts[n].resume,
                            Read(mem', f, l), Read(mem', b, q + w))
  <2>1. FrameAt(n)' = FrameIn(n)'
    BY <1>1, <1>3, <1>4, FramesReadNext DEF FramesInMemory
  <2>2. acts'[n] = acts[n]
    BY <1>1, <1>4
  <2>3. PcOf(n)' = acts[n].resume /\ OperandTop(n)' = frame + w - 1 /\ OperandBase(n)' = b
    BY <1>1, <2>2 DEF PcOf, OperandTop, OperandBase, LinkOf
  <2>4. (frame + w - 1) - b + 1 = q + w
    BY <1>n, <1>s
  <2>5. FrameIn(n)' = FrameOf(acts'[n].class, acts'[n].method, PcOf(n)',
                              Read(mem', acts'[n].frame, acts'[n].localc),
                              Read(mem', OperandBase(n)',
                                   OperandTop(n)' - OperandBase(n)' + 1))
    BY DEF FrameIn, FrameOf
  <2>6. FrameIn(n)' = FrameOf(acts[n].class, acts[n].method, acts[n].resume,
                              Read(mem', f, l), Read(mem', b, (frame + w - 1) - b + 1))
    <3>1. /\ acts'[n].class = acts[n].class /\ acts'[n].method = acts[n].method
          /\ acts'[n].frame = f /\ acts'[n].localc = l
      BY <1>6, <2>2
    <3>2. QED
      BY <2>3, <2>5, <3>1, Zenon
  <2>7. QED
    BY <2>1, <2>4, <2>6
<1>9. Read(mem', f, l) = Read(mem, f, l)
  <2>1. \A j \in 1 .. l : f + j - 1 \in 1 .. StackWords /\ f + j - 1 < frame
    BY <1>n, <1>s
  <2>2. QED
    BY <1>1, <2>1 DEF Read
<1>10. PICK ws \in Seq(Int) : /\ ws = Read(mem, optop - w + 1, w) /\ Len(ws) = w
                              /\ Frames!Top(Frames!top, w) = ws
  <2>1. PICK f1, l1, b1, d1 : TopWords(f1, l1, b1, d1)
    BY <1>3, WordsOfTop
  <2>2. w <= Depth[pc]
    BY <1>1, <1>2, Fetched DEF InstructionVerified
  <2>a. Depth[pc] \in Nat /\ Depth[pc] <= d1 /\ d1 \in Nat
    BY <2>1 DEF TopWords
  <2>3. w <= d1
    BY <1>1, <2>2, <2>a
  <2>b. w \in Nat
    BY <1>1
  <2>4. QED
    BY <2>1, <2>3, <2>b, TopOperands
<1>11. PICK os \in Seq(Int) : /\ os = Read(mem, b, q) /\ Len(os) = q
                              /\ Read(mem', b, q + w) = os \o ws
  <2>1. Replaces(mem', mem, b, q, q, ws, w)
    <3>1. b >= 1 /\ q <= q /\ b + q - 1 <= StackWords /\ b + q + w - 1 <= StackWords
      BY <1>n, <1>s
    <3>2. mem' = Write(mem, b + q, ws)
      BY <1>1, <1>2, <1>10
    <3>3. QED
      BY <1>1, <1>3, <1>10, <3>1, <3>2 DEF Replaces
  <2>2. /\ Len(Read(mem, b, q)) = q
        /\ Read(mem', b, q + w) = SubSeq(Read(mem, b, q), 1, q) \o ws
    BY <2>1, WordsReplaced DEF Replaced
  <2>3. Read(mem, b, q) \in Seq(Int)
    <3>1. \A j \in 1 .. q : b + j - 1 \in 1 .. StackWords
      BY <1>n, <1>s
    <3>2. QED
      BY <1>1, <1>3, <3>1, ReadWords
  <2>a. PICK os \in Seq(Int) : os = Read(mem, b, q) /\ Len(os) = q
    BY <2>2, <2>3
  <2>4. SubSeq(Read(mem, b, q), 1, q) = Read(mem, b, q)
    BY <2>a
  <2>5. QED
    BY <2>2, <2>3, <2>4
<1>12. Below(os, 0) = os
  <2>1. Len(os) = q /\ os \in Seq(Int)
    BY <1>11
  <2>2. SubSeq(os, 1, Len(os)) = os
    BY <2>1
  <2>3. QED
    BY <1>n, <2>1, <2>2 DEF Below
<1>13. FrameAt(n).pc = acts[n].resume
  BY <1>7 DEF FrameOf
<1>14. Frames!Stepped(FrameAt(n), 0, ws, acts[n].resume)
         = FrameOf(acts[n].class, acts[n].method, acts[n].resume, Read(mem, f, l), os \o ws)
  BY <1>7, <1>11, <1>12, SteppedIs
<1>15. FrameAt(n)' = Frames!Stepped(FrameAt(n), 0, Frames!Top(Frames!top, w), FrameAt(n).pc)
  BY <1>8, <1>9, <1>10, <1>11, <1>13, <1>14
<1>16. QED
  BY <1>5, <1>15

\* A return takes the innermost frame away and hands the result over.
LEMMA ReturnRefined ==
    ASSUME IInv, IInv', Return
    PROVE  Frames!Return
<1>1. CASE Len(acts) = 1
  BY <1>1, LastReturnRefined
<1>2. CASE Len(acts) # 1
  <2>1. PICK n, b, q, w : Returned(n, b, q, w)
    BY <1>2, CallerReached
  <2>2. /\ n \in Nat /\ n >= 1 /\ Len(acts) = n + 1 /\ DOMAIN acts' = 1 .. n
        /\ w = Code[pc].pops
    BY <2>1 DEF Returned
  <2>3. Fetch({"return"}) /\ vm' = vm /\ UNCHANGED <<static_initialized, statics>>
    BY DEF Return, UNCHANGED_classes
  <2>4. /\ Frames!Executing({"return"}) /\ Frames!Instr = Code[pc] /\ acts # << >> /\ TypeOK
    BY <2>3, FetchedFrame DEF IInv
  <2>5. /\ Stack \in Seq({FrameAt(i) : i \in DOMAIN acts}) /\ Len(Stack) = n + 1
        /\ \A i \in 1 .. n + 1 : Stack[i] = FrameAt(i)
    BY <2>2, <2>4, StackFrames
  <2>6. PICK s : s = Frames!callers
    OBVIOUS
  <2>7. /\ s \in Seq({FrameAt(i) : i \in DOMAIN acts}) /\ Len(s) = n /\ s # << >>
        /\ \A i \in 1 .. n : s[i] = FrameAt(i)
    <3>1. s = SubSeq(Stack, 1, n)
      BY <2>2, <2>4, <2>6, TopIs
    <3>2. QED
      BY <2>2, <2>5, <3>1
  <2>8. PICK t : t = Stack'
    OBVIOUS
  <2>9. t = [i \in 1 .. n |-> FrameAt(i)']
    BY <2>2, <2>8 DEF Stack
  <2>10. n \in 1 .. n
    BY <2>2
  <2>11. /\ \A j \in 1 .. n : j # n => FrameAt(j)' = FrameAt(j)
         /\ FrameAt(n)' = Frames!Stepped(FrameAt(n), 0, Frames!Top(Frames!top, w), FrameAt(n).pc)
    BY <2>1, CallerRefined
  <2>12. t = SubSeq(s, 1, Len(s) - 1) \o <<t[Len(s)]>>
    <3>1. DOMAIN t = 1 .. Len(s) /\ t = [i \in 1 .. Len(s) |-> t[i]]
      BY <2>7, <2>9
    <3>2. \A j \in 1 .. Len(s) : j # Len(s) => t[j] = s[j]
      BY <2>7, <2>9, <2>11
    <3>3. QED
      BY <2>7, <3>1, <3>2, LastReplaced
  <2>13. t[Len(s)] = Frames!Stepped(s[Len(s)], 0, Frames!Top(Frames!top, Code[pc].pops),
                                    s[Len(s)].pc)
    BY <2>2, <2>7, <2>9, <2>10, <2>11
  <2>14. QED
    BY <2>3, <2>4, <2>6, <2>7, <2>8, <2>12, <2>13 DEF Frames!Return, Stack
<1>3. QED
  BY <1>1, <1>2

----------------------------------------------------------------------------
(* The refinement. *)

\* A step leaves the first active method where it is.
ActsKept == \/ UNCHANGED acts
            \/ acts' = SubSeq(acts, 1, Len(acts) - 1)
            \/ \E resume \in Int, e \in Activation :
                  acts' = Append([acts EXCEPT ![Len(acts)].resume = resume], e)

\* However methods are called and left, the first one stays where it is.
LEMMA GroundedKept ==
    ASSUME TypeOK, Grounded, acts # << >>, ActsKept
    PROVE  Grounded'
<1>1. acts \in Seq(Activation) /\ acts[1].frame = 1 /\ Len(acts) \in Nat /\ Len(acts) >= 1
  BY DEF TypeOK, MachineTypeOK, Grounded
<1>2. CASE UNCHANGED acts
  BY <1>2 DEF Grounded
<1>3. CASE acts' = SubSeq(acts, 1, Len(acts) - 1)
  <2>1. /\ acts' \in Seq(Activation) /\ Len(acts') = Len(acts) - 1
        /\ \A j \in 1 .. Len(acts) - 1 : acts'[j] = acts[j]
    BY <1>1, <1>3, ActsPopped
  <2>2. acts' # << >> => 1 \in 1 .. Len(acts) - 1
    BY <1>1, <2>1
  <2>3. QED
    BY <1>1, <2>1, <2>2 DEF Grounded
<1>4. ASSUME NEW resume \in Int, NEW e \in Activation,
             acts' = Append([acts EXCEPT ![Len(acts)].resume = resume], e)
      PROVE  Grounded'
  <2>1. Pushed(acts', acts, resume, e)
    BY <1>1, <1>4, ActsPushed
  <2>2. 1 \in 1 .. Len(acts)
    BY <1>1
  <2>3. QED
    BY <1>1, <2>1, <2>2 DEF Pushed, Grounded
<1>5. QED
  BY <1>2, <1>3, <1>4 DEF ActsKept

\* A call adds a method to the history.
LEMMA EnterKeepsActs ==
    ASSUME TypeOK, NEW k \in Classes, NEW i \in DOMAIN MethodsOf[k],
           MethodsOf[k][i].native = "no", NEW resume \in Int, Enter(k, i, resume)
    PROVE  ActsKept
<1>1. PICK base : base = FrameBase(MethodsOf[k][i].nargs)
  OBVIOUS
<1>2. base \in Int
  <2>1. MethodsOf[k][i].nargs \in Nat /\ optop \in Int
    BY MethodFacts DEF TypeOK, MachineTypeOK
  <2>2. QED
    BY <1>1, <2>1 DEF FrameBase
<1> DEFINE new == [class |-> k, method |-> i, frame |-> base,
                   localc |-> MethodsOf[k][i].locals, resume |-> Null]
<1>3. new \in Activation
  <2>1. MethodsOf[k][i].locals \in Nat /\ i \in Nat
    BY MethodFacts
  <2>2. QED
    BY <1>2, <2>1 DEF Activation, Null
<1>4. \/ UNCHANGED acts
      \/ acts' = Append([acts EXCEPT ![Len(acts)].resume = resume], new)
  BY <1>1 DEF Enter, StackOverflow
<1> HIDE DEF new
<1>5. QED
  BY <1>3, <1>4 DEF ActsKept

\* So does a constructor that is started.
LEMMA InitializeKeepsActs ==
    ASSUME StartsFit, TypeOK, NEW k \in Classes, k \in loaded', loaded' \subseteq Classes,
           NEW resume \in Int, initialize_static(k, resume)
    PROVE  ActsKept
<1>1. PICK i : i = get_static_constructor(k, loaded')
  OBVIOUS
<1>2. CASE i = 0
  BY <1>1, <1>2 DEF initialize_static, ActsKept
<1>3. CASE i # 0
  <2>1. i \in DOMAIN MethodsOf[k] /\ MethodsOf[k][i].native = "no"
    BY <1>1, <1>3, ConstructorFound DEF TypeOK
  <2>2. Enter(k, i, resume)
    BY <1>1, <1>3, <2>1 DEF initialize_static
  <2>3. QED
    BY <2>1, <2>2, EnterKeepsActs
<1>4. QED
  BY <1>2, <1>3

\* No other step but a return changes the history.
LEMMA StepKeepsActs ==
    ASSUME StartsFit, Inductive, Step
    PROVE  ActsKept
<1>1. IInv /\ TypeOK /\ pc \in Int /\ loaded \subseteq Classes
  BY DEF Inductive, IInv, TypeOK, MachineTypeOK, ClassTypeOK
<1>2. CASE Constant \/ Pop \/ Operate \/ Load \/ Branch \/ getstatic \/ putstatic
  BY <1>2 DEF Constant, Pop, Operate, Load, Branch, getstatic, putstatic, Operands,
              StackOverflow, ActsKept
<1>3. CASE Store \/ iinc \/ Abort \/ ResolveFails \/ UnsupportedField \/ call_native \/ impdep1
  BY <1>3 DEF Store, iinc, Abort, ResolveFails, UnsupportedField, call_native, impdep1, ActsKept
<1>4. CASE Return
  BY <1>4 DEF Return, ActsKept
<1>5. CASE Start
  <2>1. loaded' = loaded /\ initialize_static(MainClass, pc) /\ MainClass \in loaded
    BY <1>5 DEF Start, Inductive, ClassInv
  <2>2. QED
    BY <1>1, <2>1, InitializeKeepsActs
<1>6. CASE InitializeClass
  <2>1. PICK op \in RefOps : Resolves(op)
    BY <1>6 DEF InitializeClass, Again
  <2>2. Ref.class \in Classes
    BY <1>1, <2>1, ResolvedRef
  <2>3. loaded' = loaded \cup {Ref.class} /\ initialize_static(Ref.class, Again)
    BY <1>6 DEF InitializeClass
  <2>4. Again \in Int
    BY <1>1 DEF Again
  <2>5. QED
    BY <1>1, <2>2, <2>3, <2>4, InitializeKeepsActs
<1>7. CASE invokestatic
  <2>1. /\ Resolves("invokestatic") /\ MethodsOf[Ref.class][Ref.member].native = "no"
        /\ Enter(Ref.class, Ref.member, Next_pc)
    BY <1>7 DEF invokestatic, Initialized
  <2>2. /\ Code[pc].op = "invokestatic" /\ InstructionVerified(pc) /\ Fetch({"invokestatic"})
        /\ PoolOf[Owner[pc][1]][Code[pc].arg] = Ref /\ Ref.class \in Classes /\ Ref.member # 0
    BY <1>1, <2>1, ResolvedRef DEF RefOps
  <2>3. Ref.member \in DOMAIN MethodsOf[Ref.class]
    BY <2>2 DEF InstructionVerified
  <2>4. Next_pc \in Int
    BY <1>1, <2>2, FlowsOn, ProgramShape
  <2>5. QED
    BY <1>1, <2>1, <2>2, <2>3, <2>4, EnterKeepsActs
<1>8. QED
  BY <1>2, <1>3, <1>4, <1>5, <1>6, <1>7 DEF Step

\* Only a step of an active method changes which methods are active.
LEMMA ActiveMethod ==
    ASSUME Inductive, Step, acts' # acts
    PROVE  acts # << >>
<1>1. IInv
  BY DEF Inductive
<1>2. CASE Start
  BY <1>2 DEF Start, Inductive, ClassInv
<1>3. ~ impdep1
  BY DEF impdep1
<1>4. ASSUME ~ Start
      PROVE  \E ops : Fetch(ops)
  <2>1. CASE Constant \/ Pop \/ Operate \/ Load \/ Store \/ iinc \/ Branch \/ Abort \/ Return
    BY <2>1 DEF Constant, Pop, Operate, Load, Store, iinc, Branch, Abort, Return
  <2>2. CASE ResolveFails \/ InitializeClass \/ getstatic \/ putstatic \/ UnsupportedField
             \/ invokestatic \/ call_native
    BY <2>2 DEF ResolveFails, InitializeClass, getstatic, putstatic, UnsupportedField,
                invokestatic, call_native, Initialized, Resolves
  <2>3. QED
    BY <1>3, <1>4, <2>1, <2>2 DEF Step
<1>5. QED
  BY <1>1, <1>2, <1>4, Fetched

\* What the steps need: the invariant, and the first frame where memory begins.
RefInv == Inductive /\ Grounded

\* It holds when run() starts ...
LEMMA RefInvInit ==
    ASSUME Init
    PROVE  RefInv
<1>1. Grounded
  BY DEF Init, Grounded
<1>2. QED
  BY <1>1, InitInductive DEF RefInv

\* ... and every step keeps it.
LEMMA RefInvStep ==
    ASSUME InitializersFit, RefInv, [Next]_vars
    PROVE  RefInv'
<1> StartsFit
  BY NextFits DEF RefInv
<1>1. Inductive'
  BY StepInductive DEF RefInv
<1>2. Grounded'
  <2>1. CASE UNCHANGED acts
    BY <2>1 DEF RefInv, Grounded
  <2>2. CASE acts' # acts
    <3>1. Step
      BY <2>2 DEF Next, Stopped, vars
    <3>2. ActsKept
      BY <3>1, StepKeepsActs DEF RefInv
    <3>3. acts # << >>
      BY <2>2, <3>1, ActiveMethod DEF RefInv
    <3>4. QED
      BY <3>2, <3>3, GroundedKept DEF RefInv, Inductive, IInv
  <2>3. QED
    BY <2>1, <2>2
<1>3. QED
  BY <1>1, <1>2 DEF RefInv

\* The machine starts with the frame of main.
LEMMA InitRefined ==
    ASSUME Init
    PROVE  Frames!Init
<1> DEFINE m == MethodsOf[MainClass][get_main_method]
<1>1. IInv /\ InControl
  BY InitInductive DEF Inductive, Init, InControl
<1>2. /\ vm = "starting" /\ pc = m.code /\ c = MainClass
      /\ frame = 1 /\ localc = m.locals /\ optop = frame + localc + 4 - 1
      /\ static_initialized = {}
      /\ statics = [f \in Fields |-> [j \in 1 .. FieldWords[f] |-> 0]]
  BY DEF Init, MainInfo, Links
<1>3. Len(acts) = 1 /\ acts[1].method = get_main_method /\ acts # << >>
  BY DEF Init
<1>4. PICK f \in Int, l \in Nat : f = frame /\ l = localc
  BY <1>1, <1>3, TopFrame
<1>6. FrameAt(1) = FrameOf(MainClass, get_main_method, m.code, Read(mem, f, l), << >>)
  <2>1. Frames!top = FrameOf(c, acts[1].method, pc, Read(mem, frame, localc),
                             Read(mem, frame + localc + 4,
                                  optop - (frame + localc + 4) + 1))
    BY <1>1, <1>3, TopFrame
  <2>2. Frames!top = FrameAt(1)
    BY <1>1, <1>3, TopIs DEF IInv
  <2>3. optop - (frame + localc + 4) + 1 = 0
    <3>1. optop = f + l + 4 - 1
      BY <1>2, <1>4
    <3>2. (f + l + 4 - 1) - (f + l + 4) + 1 = 0
      BY ONLY <1>4
    <3>3. QED
      BY <1>4, <3>1, <3>2
  <2>4. Read(mem, frame + localc + 4, 0) = << >>
    BY DEF Read
  <2>5. QED
    BY <1>2, <1>3, <1>4, <2>1, <2>2, <2>3, <2>4
<1>7. Len(Read(mem, f, l)) = l
  BY DEF Read
<1>8. SubSeq(Read(mem, f, l), 1, Len(<< >>)) = << >>
  OBVIOUS
<1>9. Len(Stack) = 1 /\ Stack[1] = FrameAt(1)
  BY <1>1, <1>3, StackFrames DEF IInv
<1>10. Frames!get_main_method = get_main_method
  BY SameLookup DEF Frames!get_main_method, get_main_method
<1>11. Frames!Fresh(FrameAt(1), MainClass, get_main_method, << >>)
  BY <1>2, <1>4, <1>6, <1>7, <1>8, FreshIs
<1>12. QED
  BY <1>2, <1>9, <1>10, <1>11 DEF Frames!Init, Stack

\* Every step of run() is a step of the abstract machine, or none.
LEMMA StepRefined ==
    ASSUME NoPrintln, ConstructorsEverywhere, RefInv, RefInv', [Next]_vars
    PROVE  [Frames!Next]_(Frames!vars)
<1>1. Inductive /\ IInv /\ IInv' /\ Grounded
  BY DEF RefInv, Inductive
<1>2. CASE Start
  BY <1>1, <1>2, StartRefined DEF Frames!Next
<1>3. CASE Constant \/ Pop \/ Operate
  BY <1>1, <1>3, CalculateRefined DEF Frames!Next
<1>4. CASE Load
  BY <1>1, <1>4, LoadRefined DEF Frames!Next
<1>5. CASE Store
  BY <1>1, <1>5, StoreRefined DEF Frames!Next
<1>6. CASE iinc
  BY <1>1, <1>6, IncrementRefined DEF Frames!Next
<1>7. CASE Branch
  BY <1>1, <1>7, BranchRefined DEF Frames!Next
<1>8. CASE Abort \/ ResolveFails \/ UnsupportedField
  BY <1>1, <1>8, StopRefined DEF Frames!Next
<1>9. CASE InitializeClass
  BY <1>1, <1>9, FirstUseRefined DEF Frames!Next
<1>10. CASE getstatic
  BY <1>1, <1>10, GetstaticRefined DEF Frames!Next
<1>11. CASE putstatic
  BY <1>1, <1>11, PutstaticRefined DEF Frames!Next
<1>12. CASE invokestatic
  BY <1>1, <1>12, InvokeRefined DEF Frames!Next
<1>13. CASE call_native
  BY <1>1, <1>13, NativeRefined DEF Frames!Next
<1>14. CASE Return
  BY <1>1, <1>14, ReturnRefined DEF Frames!Next
<1>15. CASE impdep1
  BY <1>1, <1>15, ExitRefined DEF Frames!Next
<1>16. CASE UNCHANGED vars
  <2>1. /\ vm' = vm /\ UNCHANGED <<registers, mem, acts, static_initialized, statics>>
    BY <1>16 DEF vars
  <2>2. Stack' = Stack
    BY <2>1, SameFrames
  <2>3. QED
    BY <2>1, <2>2 DEF Frames!vars, Stack
<1>17. QED
  BY <1>2, <1>3, <1>4, <1>5, <1>6, <1>7, <1>8, <1>9, <1>10, <1>11, <1>12, <1>13, <1>14,
     <1>15, <1>16 DEF Next, Step, Stopped

\* run() keeps its promise for every program that calls no println and whose
\* classes all declare static constructors, or none does: what the registers
\* and the flat memory do is what separate frames do (core.c, run).
THEOREM SeparateFrames ==
    ASSUME NoPrintln, ConstructorsEverywhere
    PROVE  Spec => ImplementsFrameMachine
<1>1. InitializersFit
  BY ConstructorsFit
<1>2. Init => RefInv /\ Frames!Init
  BY RefInvInit, InitRefined
<1>3. RefInv /\ [Next]_vars => RefInv'
  BY <1>1, RefInvStep
<1>4. RefInv /\ RefInv' /\ [Next]_vars => [Frames!Next]_(Frames!vars)
  BY StepRefined
<1>5. QED
  BY <1>2, <1>3, <1>4, PTL DEF Spec, ImplementsFrameMachine, Frames!Spec

----------------------------------------------------------------------------
(* The operand stack of every active method holds the words that the class *)
(* file puts there, and no other, for every program that calls no println  *)
(* and whose classes get the constructors they declare.                    *)

\* What StackMapExact says beyond StackMapCovered.
Exact ==
    InControl => \A i \in DOMAIN acts : OperandCount(i) + WordsToCome(i) = Depth[PcOf(i)]

\* The place and the operands of each active method, as integers.
LEMMA Places ==
    ASSUME IInv, InControl, NEW i \in DOMAIN acts
    PROVE  /\ Len(acts) \in Nat /\ DOMAIN acts = 1 .. Len(acts) /\ i \in 1 .. Len(acts)
           /\ OperandBase(i) \in Int /\ OperandBase(i) = acts[i].frame + acts[i].localc + 4
           /\ OperandTop(i) \in Int /\ acts[i].frame \in Int /\ acts[i].localc \in Nat
           /\ Depth[PcOf(i)] \in Nat
<1>1. Len(acts) \in Nat /\ DOMAIN acts = 1 .. Len(acts)
  BY DEF IInv, TypeOK, MachineTypeOK
<1>2. PcOf(i) \in Addresses
  BY DEF IInv, StackMapCovered, PcInMethod
<1>3. Depth[PcOf(i)] \in Nat
  BY <1>2, ProgramShape
<1>4. /\ acts[i].frame \in Int /\ acts[i].localc \in Nat /\ OperandTop(i) \in Int
      /\ OperandBase(i) = acts[i].frame + acts[i].localc + 4
  BY FrameForms
<1> QED
  BY <1>1, <1>3, <1>4

\* The same after a step.
LEMMA PlacesNext ==
    ASSUME IInv', InControl'
    PROVE  \A i \in DOMAIN acts' : Depth[PcOf(i)'] \in Nat
<1>1. IInv' /\ InControl' => \A i \in DOMAIN acts' : PcOf(i)' \in Addresses
  BY DEF IInv, StackMapCovered, PcInMethod
<1> QED
  BY <1>1, ProgramShape

\* The top of the operand stack is where the class file says.
LEMMA TopExact ==
    ASSUME IInv, Exact, InControl, acts # << >>
    PROVE  /\ optop \in Int /\ frame \in Int /\ localc \in Nat /\ Depth[pc] \in Nat
           /\ optop + 1 = frame + localc + 4 + Depth[pc]
           /\ Len(acts) \in DOMAIN acts
<1>1. Len(acts) \in DOMAIN acts
  BY DEF IInv, TypeOK, MachineTypeOK
<1>2. RegistersMatch
  BY DEF IInv, LayoutInv
<1>3. frame = acts[Len(acts)].frame /\ localc = acts[Len(acts)].localc
  BY <1>2 DEF RegistersMatch
<1>4. /\ OperandTop(Len(acts)) = optop /\ PcOf(Len(acts)) = pc /\ WordsToCome(Len(acts)) = 0
  BY DEF OperandTop, PcOf, WordsToCome
<1>5. /\ optop \in Int /\ frame \in Int /\ localc \in Nat /\ Depth[pc] \in Nat
      /\ OperandBase(Len(acts)) = frame + localc + 4
  BY <1>1, <1>3, <1>4, Places
<1>6. optop - (frame + localc + 4) + 1 + 0 = Depth[pc]
  BY <1>1, <1>4, <1>5 DEF Exact, OperandCount
<1>7. PICK o \in Int, f \in Int, l \in Nat, d \in Nat :
         o = optop /\ f = frame /\ l = localc /\ d = Depth[pc]
  BY <1>5
<1>8. o - (f + l + 4) + 1 + 0 = d
  BY <1>6, <1>7
<1>9. o + 1 = f + l + 4 + d
  BY ONLY <1>7, <1>8
<1> QED
  BY <1>1, <1>5, <1>7, <1>9

\* Nothing is claimed of a machine that has stopped.
LEMMA StopExact ==
    ASSUME vm' \in {"exited", "aborted", "undefined"}
    PROVE  Exact'
BY DEF Exact, InControl

\* A step that stays in its method and takes and leaves what the class file
\* says.
LEMMA StepExact ==
    ASSUME IInv, IInv', Exact, InControl, acts # << >>, UNCHANGED acts,
           NEW d \in Int, optop' = optop + d, Depth[pc'] = Depth[pc] + d
    PROVE  Exact'
<1> SUFFICES ASSUME InControl', NEW i \in DOMAIN acts
             PROVE  (OperandCount(i) + WordsToCome(i))' = Depth[PcOf(i)']
  BY DEF Exact
<1>1. OperandCount(i) + WordsToCome(i) = Depth[PcOf(i)]
  BY DEF Exact
<1>2. OperandBase(i)' = OperandBase(i)
  BY DEF OperandBase, LinkOf
<1>3. CASE i # Len(acts)
  <2>1. /\ OperandTop(i)' = OperandTop(i) /\ PcOf(i)' = PcOf(i)
        /\ WordsToCome(i)' = WordsToCome(i)
    BY <1>3 DEF OperandTop, PcOf, WordsToCome
  <2> QED
    BY <1>1, <1>2, <2>1 DEF OperandCount
<1>4. CASE i = Len(acts)
  <2>1. /\ OperandTop(i)' = optop' /\ PcOf(i)' = pc' /\ WordsToCome(i)' = 0
        /\ OperandTop(i) = optop /\ PcOf(i) = pc /\ WordsToCome(i) = 0
    BY <1>4 DEF OperandTop, PcOf, WordsToCome
  <2>2. PICK o \in Int, b \in Int, e \in Nat :
           o = optop /\ b = OperandBase(i) /\ e = Depth[pc]
    BY <2>1, Places
  <2>3. o - b + 1 + 0 = e
    BY <1>1, <2>1, <2>2 DEF OperandCount
  <2>4. (o + d) - b + 1 + 0 = e + d
    BY ONLY <2>2, <2>3, d \in Int
  <2>5. OperandCount(i)' = (o + d) - b + 1
    BY <1>2, <2>1, <2>2 DEF OperandCount
  <2> QED
    BY <2>1, <2>2, <2>4, <2>5
<1> QED
  BY <1>3, <1>4

\* Replacing operands, or the end of the memory.
LEMMA OperandsExact ==
    ASSUME IInv, IInv', Exact, NEW ops, Fetch(ops),
           NEW n \in Nat, NEW ws, Len(ws) \in Nat, NEW next,
           Depth[next] = Depth[pc] - n + Len(ws), Operands(n, ws, next)
    PROVE  Exact'
<1>1. CASE optop - n + Len(ws) > StackWords
  BY <1>1, StopExact DEF Operands, StackOverflow
<1>2. CASE ~ (optop - n + Len(ws) > StackWords)
  <2>1. optop' = optop - n + Len(ws) /\ pc' = next /\ UNCHANGED acts
    BY <1>2 DEF Operands
  <2>2. InControl /\ acts # << >>
    BY FetchedFrame
  <2>3. optop \in Int /\ Depth[pc] \in Nat
    BY <2>2, TopExact
  <2>4. PICK k \in Nat : k = Len(ws)
    OBVIOUS
  <2>5. PICK d \in Int : d = k - n
    OBVIOUS
  <2>6. optop' = optop + d /\ Depth[pc'] = Depth[pc] + d
    BY <2>1, <2>3, <2>4, <2>5
  <2> QED
    BY <2>1, <2>2, <2>6, StepExact
<1> QED
  BY <1>1, <1>2

\* Constants, pops, computations and loads.
LEMMA CalculateExact ==
    ASSUME IInv, IInv', Exact, Constant \/ Pop \/ Operate \/ Load
    PROVE  Exact'
<1>1. /\ Fetch({"const", "pop", "operate", "load"})
      /\ Code[pc].op = "const" => \E ws \in Words(Code[pc].pushes) : Operands(0, ws, Next_pc)
      /\ Code[pc].op = "pop" => Operands(Code[pc].pops, << >>, Next_pc)
      /\ Code[pc].op = "operate" =>
            \E ws \in Words(Code[pc].pushes) : Operands(Code[pc].pops, ws, Next_pc)
      /\ Code[pc].op = "load" =>
            Operands(0, Read(mem, frame + Code[pc].arg, Code[pc].pushes), Next_pc)
  BY DEF Constant, Pop, Operate, Load, Fetch
<1>2. /\ Code[pc].op \in {"const", "pop", "operate", "load"} /\ InstructionVerified(pc)
      /\ Code[pc].pops \in Nat /\ Code[pc].pushes \in Nat
      /\ Depth[Next_pc] = Depth[pc] - Code[pc].pops + Code[pc].pushes
  BY <1>1, Fetched, FlowsOn
<1>3. /\ Code[pc].op \in {"const", "load"} => Code[pc].pops = 0
      /\ Code[pc].op = "pop" => Code[pc].pushes = 0
  BY <1>2 DEF InstructionVerified
<1>4. << >> \in Words(0) /\ Len(<< >>) = 0
  BY DEF Words
<1>5. \A ws \in Words(Code[pc].pushes) : Len(ws) = Code[pc].pushes
  BY <1>2, WordsSeq
<1>6. Len(Read(mem, frame + Code[pc].arg, Code[pc].pushes)) = Code[pc].pushes
  BY <1>2 DEF Read
<1>7. \E ws : Len(ws) = Code[pc].pushes /\ Operands(Code[pc].pops, ws, Next_pc)
  BY <1>1, <1>2, <1>3, <1>4, <1>5, <1>6
<1>8. PICK ws : Len(ws) = Code[pc].pushes /\ Operands(Code[pc].pops, ws, Next_pc)
  BY <1>7
<1> QED
  BY <1>1, <1>2, <1>8, OperandsExact

\* Branches leave nothing.
LEMMA BranchExact ==
    ASSUME IInv, IInv', Exact, Branch
    PROVE  Exact'
<1>1. Fetch({"branch"})
  BY DEF Branch
<1>2. PICK t \in Code[pc].targets : Operands(Code[pc].pops, << >>, t)
  BY DEF Branch
<1>3. /\ Code[pc].op = "branch" /\ InstructionVerified(pc)
      /\ Code[pc].pops \in Nat /\ Depth[pc] \in Nat
  BY <1>1, Fetched DEF Instruction
<1>4. Code[pc].pushes = 0 /\ FlowsTo(pc, t)
  BY <1>3 DEF InstructionVerified
<1>5. Len(<< >>) = 0
  OBVIOUS
<1>6. Depth[t] = Depth[pc] - Code[pc].pops + Len(<< >>)
  BY <1>4, <1>5 DEF FlowsTo
<1> QED
  BY <1>1, <1>2, <1>3, <1>5, <1>6, OperandsExact

\* Stores take what they store; iinc takes nothing.
LEMMA LocalsExact ==
    ASSUME IInv, IInv', Exact, Store \/ iinc
    PROVE  Exact'
<1>1. /\ Fetch({"store", "iinc"}) /\ pc' = Next_pc /\ UNCHANGED acts
      /\ Code[pc].op = "store" => optop' = optop - Code[pc].pops
      /\ Code[pc].op = "iinc" => optop' = optop
  BY DEF Store, iinc, Fetch
<1>2. /\ Code[pc].op \in {"store", "iinc"} /\ InstructionVerified(pc)
      /\ Code[pc].pops \in Nat /\ Code[pc].pushes \in Nat
      /\ Depth[Next_pc] = Depth[pc] - Code[pc].pops + Code[pc].pushes
  BY <1>1, Fetched, FlowsOn
<1>3. /\ Code[pc].pushes = 0
      /\ Code[pc].op = "iinc" => Code[pc].pops = 0
  BY <1>2 DEF InstructionVerified
<1>4. InControl /\ acts # << >>
  BY <1>1, FetchedFrame
<1>5. optop \in Int /\ Depth[pc] \in Nat
  BY <1>4, TopExact
<1>6. PICK w \in Nat : w = Code[pc].pops
  BY <1>2
<1>7. PICK d \in Int : d = -w
  BY <1>6
<1>8. optop' = optop - w
  BY <1>1, <1>2, <1>3, <1>5, <1>6
<1>9. optop' = optop + d /\ Depth[pc'] = Depth[pc] + d
  BY <1>1, <1>2, <1>3, <1>5, <1>6, <1>7, <1>8
<1> QED
  BY <1>1, <1>4, <1>9, StepExact

\* A field has the width its instruction counts on.
LEMMA FieldExact ==
    ASSUME IInv, IInv', Exact, getstatic \/ putstatic
    PROVE  Exact'
<1>1. PICK op \in {"getstatic", "putstatic"} :
         /\ Resolves(op)
         /\ op = "getstatic" => Operands(0, statics[Ref.member], Next_pc)
         /\ op = "putstatic" => Operands(FieldWords[Ref.member], << >>, Next_pc)
  BY DEF getstatic, putstatic, Initialized
<1>2. /\ Fetch({op}) /\ Code[pc].op = op /\ InstructionVerified(pc)
      /\ PoolOf[Owner[pc][1]][Code[pc].arg] = Ref /\ Ref.class \in Classes /\ Ref.member # 0
  BY <1>1, ResolvedRef DEF RefOps
<1>3. /\ Ref.member \in Fields
      /\ op = "getstatic" => Code[pc].pops = 0 /\ Code[pc].pushes = FieldWords[Ref.member]
      /\ op = "putstatic" => Code[pc].pushes = 0 /\ Code[pc].pops = FieldWords[Ref.member]
  BY <1>2 DEF InstructionVerified
<1>4. /\ Code[pc].pops \in Nat /\ Code[pc].pushes \in Nat
      /\ Depth[Next_pc] = Depth[pc] - Code[pc].pops + Code[pc].pushes
  BY <1>2, FlowsOn
<1>5. Len(statics[Ref.member]) = FieldWords[Ref.member] /\ Len(<< >>) = 0
  BY <1>3 DEF IInv, TypeOK, ClassTypeOK
<1>6. CASE op = "getstatic"
  BY <1>1, <1>2, <1>3, <1>4, <1>5, <1>6, OperandsExact
<1>7. CASE op = "putstatic"
  BY <1>1, <1>2, <1>3, <1>4, <1>5, <1>7, OperandsExact
<1> QED
  BY <1>6, <1>7

----------------------------------------------------------------------------
(* Calls and returns. *)

\* A call takes the arguments at once and owes the result.
LEMMA EnterExact ==
    ASSUME IInv, IInv', Exact, InControl, acts # << >>,
           NEW k, NEW i, NEW resume, Callable(k, i, resume),
           Depth[resume] = Depth[pc] - MethodsOf[k][i].nargs + MethodsOf[k][i].ret
    PROVE  Exact'
<1>1. CASE vm' = "undefined"
  BY <1>1, StopExact
<1>2. ASSUME NEW n, NEW base, NEW link, Entered(k, i, resume, n, base, link)
      PROVE  Exact'
  <2>1. /\ k \in Classes /\ i \in DOMAIN MethodsOf[k] /\ MethodsOf[k][i].native = "no"
    BY DEF Callable
  <2>2. /\ MethodsOf[k][i].ret \in 0 .. 2 /\ Depth[MethodsOf[k][i].code] = 0
    BY <2>1, MethodFacts
  <2>3. /\ n \in Nat /\ n >= 1 /\ n = Len(acts) /\ base \in Int /\ link \in Int
        /\ base = optop + 1 - MethodsOf[k][i].nargs /\ link = base + MethodsOf[k][i].locals
        /\ MethodsOf[k][i].nargs \in Nat /\ MethodsOf[k][i].locals \in Nat
        /\ optop' = link + 3 /\ pc' = MethodsOf[k][i].code
        /\ Len(acts') = n + 1 /\ DOMAIN acts = 1 .. n /\ DOMAIN acts' = 1 .. n + 1
        /\ acts'[n + 1] = [class |-> k, method |-> i, frame |-> base,
                           localc |-> MethodsOf[k][i].locals, resume |-> Null]
        /\ \A j \in 1 .. n :
              /\ acts'[j].class = acts[j].class /\ acts'[j].method = acts[j].method
              /\ acts'[j].frame = acts[j].frame /\ acts'[j].localc = acts[j].localc
              /\ acts'[j].resume = IF j = n THEN resume ELSE acts[j].resume
    BY <1>2 DEF Entered
  <2>4. \A j \in 1 .. n : OperandBase(j)' = OperandBase(j)
    BY <2>3 DEF OperandBase, LinkOf
  <2>a. /\ optop \in Int /\ Depth[pc] \in Nat /\ n \in DOMAIN acts
        /\ base \in Int /\ n \in Nat /\ n >= 1
    BY <2>3, TopExact
  <2>b. PICK b \in Int : b = OperandBase(n)
    BY <2>a, Places
  <2>o. PICK o \in Int, d \in Nat : o = optop /\ d = Depth[pc]
    BY <2>a
  <2>r. PICK r \in Nat : r = MethodsOf[k][i].ret
    BY <2>2
  <2>l. PICK a \in Nat, l \in Nat : a = MethodsOf[k][i].nargs /\ l = MethodsOf[k][i].locals
    BY <2>3
  <2>t. /\ acts'[n + 1].frame = base /\ acts'[n + 1].localc = l
        /\ acts'[n + 1].class = k /\ acts'[n + 1].method = i
        /\ acts'[n].resume = resume
    <3>1. PICK e : /\ e = acts'[n + 1]
                   /\ e = [class |-> k, method |-> i, frame |-> base,
                           localc |-> MethodsOf[k][i].locals, resume |-> Null]
      BY <2>3
    <3>2. /\ e.frame = base /\ e.localc = MethodsOf[k][i].locals
          /\ e.class = k /\ e.method = i
      BY <3>1
    <3>3. n \in 1 .. n
      BY ONLY <2>a
    <3>4. acts'[n].resume = resume
      BY <2>3, <3>3
    <3> QED
      BY <2>l, <3>1, <3>2, <3>4
  <2> SUFFICES ASSUME InControl', NEW j \in DOMAIN acts'
               PROVE  (OperandCount(j) + WordsToCome(j))' = Depth[PcOf(j)']
    BY DEF Exact
  <2>6. j \in 1 .. n + 1
    BY <2>3
  <2>7. CASE j = n + 1
    <3>1. acts'[j].frame = base /\ acts'[j].localc = l
      BY <2>t, <2>7
    <3>2. /\ OperandTop(j)' = base + l + 3 /\ PcOf(j)' = MethodsOf[k][i].code
          /\ WordsToCome(j)' = 0
      BY <2>3, <2>l, <2>7 DEF OperandTop, PcOf, WordsToCome
    <3>3. OperandBase(j)' = base + l + 4
      BY <3>1 DEF OperandBase, LinkOf, Links
    <3>4. (base + l + 3) - (base + l + 4) + 1 + 0 = 0
      BY ONLY <2>a, l \in Nat
    <3> QED
      BY <2>2, <3>2, <3>3, <3>4 DEF OperandCount
  <2>8. CASE j = n
    <3>1. j # n + 1 /\ j \in 1 .. n
      BY ONLY <2>a, <2>8
    <3>2. /\ acts'[j + 1].frame = base /\ acts'[j + 1].class = k /\ acts'[j + 1].method = i
          /\ acts'[j].resume = resume
      BY <2>t, <2>8
    <3>3. Len(acts') # j
      BY <2>3, <3>1
    <3>4. OperandTop(j)' = base - 1 /\ PcOf(j)' = resume /\ WordsToCome(j)' = r
      BY <2>r, <3>2, <3>3 DEF OperandTop, PcOf, WordsToCome
    <3>5. OperandBase(j)' = b
      BY <2>4, <2>b, <2>8, <3>1
    <3>6. OperandCount(j)' = (base - 1) - b + 1
      BY <3>4, <3>5 DEF OperandCount
    <3>7. o - b + 1 + 0 = d
      <4>1. OperandTop(n) = o /\ PcOf(n) = pc /\ WordsToCome(n) = 0
        BY <2>3, <2>o DEF OperandTop, PcOf, WordsToCome
      <4> QED
        BY <2>a, <2>b, <2>o, <4>1 DEF Exact, OperandCount
    <3>8. base = o + 1 - a /\ Depth[resume] = d - a + r
      BY <2>3, <2>o, <2>l, <2>r
    <3>9. ((o + 1 - a) - 1) - b + 1 + r = d - a + r
      BY ONLY <3>7, o \in Int, a \in Nat, b \in Int, r \in Nat, d \in Nat
    <3> QED
      BY <3>4, <3>6, <3>8, <3>9
  <2>9. CASE j # n /\ j # n + 1
    <3>0. j \in 1 .. n /\ j + 1 \in 1 .. n
      BY ONLY <2>a, <2>6, <2>9
    <3>1. j \in 1 .. n /\ j + 1 \in 1 .. n /\ j \in DOMAIN acts
      BY <2>3, <3>0
    <3>2. /\ OperandTop(j)' = OperandTop(j) /\ PcOf(j)' = PcOf(j)
          /\ WordsToCome(j)' = WordsToCome(j)
      BY <2>3, <2>9, <3>1 DEF OperandTop, PcOf, WordsToCome
    <3>3. OperandCount(j)' = OperandCount(j)
      BY <2>4, <3>1, <3>2 DEF OperandCount
    <3>4. OperandCount(j) + WordsToCome(j) = Depth[PcOf(j)]
      BY <3>1 DEF Exact
    <3> QED
      BY <3>2, <3>3, <3>4
  <2> QED
    BY <2>6, <2>7, <2>8, <2>9
<1> QED
  BY <1>1, <1>2, EnteredOrNot

\* A constructor takes nothing and leaves nothing.
LEMMA InitializeExact ==
    ASSUME ConstructorsEverywhere, IInv, IInv', Exact, InControl, acts # << >>,
           NEW k \in Classes, k \in loaded', loaded' \subseteq Classes,
           initialize_static(k, pc)
    PROVE  Exact'
<1>0. optop \in Int /\ Depth[pc] \in Nat /\ frame \in Int /\ localc \in Nat
      /\ optop + 1 = frame + localc + 4 + Depth[pc]
  BY TopExact
<1>1. CASE \A j \in Classes : ~ Declares(j, "<clinit>")
  <2>1. get_static_constructor(k, loaded') = 0
    BY <1>1 DEF get_static_constructor
  <2>2. pc' = pc /\ UNCHANGED <<optop, acts>>
    BY <2>1 DEF initialize_static
  <2>3. optop' = optop + 0 /\ Depth[pc'] = Depth[pc] + 0
    BY <1>0, <2>2
  <2> QED
    BY <2>2, <2>3, StepExact
<1>2. CASE \A j \in Classes : Declares(j, "<clinit>")
  <2>1. PICK i : i = FirstOrLast(k, "<clinit>")
    OBVIOUS
  <2>2. /\ i \in DOMAIN MethodsOf[k] /\ i # 0
        /\ MethodsOf[k][i].native = "no" /\ MethodsOf[k][i].nargs = 0
    BY <1>2, <2>1, ConstructorIs
  <2>3. MethodsOf[k][i].name = "<clinit>"
    BY <1>2, <2>1, LookupFinds
  <2>4. MethodsOf[k][i].ret = 0
    BY <2>2, <2>3, MethodFacts
  <2>5. get_static_constructor(k, loaded') = i
    BY <1>2, <2>1 DEF get_static_constructor
  <2>6. Enter(k, i, pc)
    BY <2>2, <2>5 DEF initialize_static
  <2>7. frame + localc + 4 + 0 <= optop + 1
    BY <1>0
  <2>8. pc \in Int
    BY DEF IInv, TypeOK, MachineTypeOK
  <2>9. Callable(k, i, pc)
    BY <2>2, <2>6, <2>7, <2>8 DEF Callable
  <2>10. Depth[pc] = Depth[pc] - MethodsOf[k][i].nargs + MethodsOf[k][i].ret
    BY <1>0, <2>2, <2>4
  <2> QED
    BY <2>9, <2>10, EnterExact
<1> QED
  BY <1>1, <1>2 DEF ConstructorsEverywhere

\* The constructor of the main class, and of any other at its first use.
LEMMA ConstructExact ==
    ASSUME ConstructorsEverywhere, Inductive, IInv', Exact, Start \/ InitializeClass
    PROVE  Exact'
<1>1. IInv /\ pc \in Int /\ loaded \subseteq Classes
  BY DEF Inductive, IInv, TypeOK, MachineTypeOK, ClassTypeOK
<1>2. CASE Start
  <2>1. /\ InControl /\ loaded' = loaded /\ initialize_static(MainClass, pc)
        /\ MainClass \in loaded' /\ acts # << >>
    BY <1>2 DEF Start, InControl, Inductive, ClassInv
  <2> QED
    BY <1>1, <2>1, InitializeExact
<1>3. CASE InitializeClass
  <2>1. PICK op \in RefOps : Resolves(op)
    BY <1>3 DEF InitializeClass, Again
  <2>2. Fetch({op}) /\ Ref.class \in Classes
    BY <1>1, <2>1, ResolvedRef
  <2>3. InControl /\ acts # << >>
    BY <1>1, <2>2, FetchedFrame
  <2>4. loaded' = loaded \cup {Ref.class} /\ initialize_static(Ref.class, pc)
    <3>1. (pc + 1) + 2 - 3 = pc
      BY <1>1
    <3> QED
      BY <1>3, <3>1 DEF InitializeClass, Again
  <2> QED
    BY <1>1, <2>2, <2>3, <2>4, InitializeExact
<1> QED
  BY <1>2, <1>3

\* A call of a method with code.
LEMMA InvokeExact ==
    ASSUME IInv, IInv', Exact, invokestatic
    PROVE  Exact'
<1> DEFINE i == Ref.member
           k == Ref.class
<1>1. /\ Resolves("invokestatic") /\ MethodsOf[k][i].native = "no" /\ Enter(k, i, Next_pc)
  BY DEF invokestatic, Initialized
<1>2. /\ Fetch({"invokestatic"}) /\ Code[pc].op = "invokestatic" /\ InstructionVerified(pc)
      /\ PoolOf[Owner[pc][1]][Code[pc].arg] = Ref /\ k \in Classes /\ i # 0
  BY <1>1, ResolvedRef DEF RefOps
<1>3. /\ i \in DOMAIN MethodsOf[k] /\ Code[pc].pops = MethodsOf[k][i].nargs
      /\ Code[pc].pushes = MethodsOf[k][i].ret
  BY <1>2 DEF InstructionVerified
<1>4. /\ Next_pc \in Addresses /\ Depth[pc] \in Nat /\ Code[pc].pops \in Nat
      /\ Depth[Next_pc] = Depth[pc] - Code[pc].pops + Code[pc].pushes
      /\ Code[pc].pops <= Depth[pc]
  BY <1>2, FlowsOn
<1>5. InControl /\ acts # << >>
  BY <1>2, FetchedFrame
<1>6. /\ optop \in Int /\ frame \in Int /\ localc \in Nat
      /\ optop + 1 = frame + localc + 4 + Depth[pc]
  BY <1>5, TopExact
<1> HIDE DEF i, k
<1>7. Callable(k, i, Next_pc)
  <2>1. Next_pc \in Int
    BY <1>4, ProgramShape
  <2>2. frame + localc + 4 + Code[pc].pops <= optop + 1
    BY <1>4, <1>6
  <2> QED
    BY <1>1, <1>2, <1>3, <2>1, <2>2 DEF Callable
<1> QED
  BY <1>3, <1>4, <1>5, <1>7, EnterExact

\* Without println no native method goes on.
LEMMA NativeExact ==
    ASSUME NoPrintln, IInv, call_native
    PROVE  Exact'
<1>1. Resolves("invokestatic")
  BY DEF call_native, Initialized
<1>2. /\ Code[pc].op = "invokestatic" /\ InstructionVerified(pc)
      /\ PoolOf[Owner[pc][1]][Code[pc].arg] = Ref /\ Ref.class \in Classes /\ Ref.member # 0
  BY <1>1, ResolvedRef DEF RefOps
<1>3. Ref.member \in DOMAIN MethodsOf[Ref.class]
  BY <1>2 DEF InstructionVerified
<1>4. MethodsOf[Ref.class][Ref.member].native # "println"
  BY <1>2, <1>3 DEF NoPrintln
<1>5. vm' = "aborted"
  BY <1>4 DEF call_native
<1> QED
  BY <1>5, StopExact

\* A return hands over the words the caller waits for.
LEMMA ReturnExact ==
    ASSUME IInv, IInv', Exact, Return
    PROVE  Exact'
<1>1. /\ Fetch({"return"}) /\ acts \in Seq(Activation) /\ acts # << >> /\ InControl
      /\ acts' = SubSeq(acts, 1, Len(acts) - 1)
  BY FetchedFrame DEF Return, IInv, TypeOK, MachineTypeOK
<1>2. CASE Len(acts) = 1
  <2>1. DOMAIN acts' = 1 .. Len(acts) - 1
    BY <1>1, ActsPopped
  <2>2. DOMAIN acts' = {}
    BY <1>2, <2>1
  <2> QED
    BY <2>2 DEF Exact
<1>3. CASE Len(acts) # 1
  <2>1. PICK n, b, q, w : Returned(n, b, q, w)
    BY <1>3, CallerReached
  <2>2. /\ n \in Nat /\ n >= 1 /\ Len(acts) = n + 1 /\ DOMAIN acts = 1 .. n + 1
        /\ Len(acts') = n /\ DOMAIN acts' = 1 .. n
        /\ \A j \in 1 .. n : acts'[j] = acts[j]
        /\ acts[n + 1].frame = frame /\ pc' = acts[n].resume
        /\ b \in Int /\ b = OperandBase(n) /\ q \in Nat /\ frame = b + q
        /\ w \in Nat /\ w = Code[pc].pops /\ optop' = frame + w - 1
    BY <2>1 DEF Returned
  <2>3. w = MethodsOf[acts[n + 1].class][acts[n + 1].method].ret
    <3>1. Code[pc].pops = MethodAt(Owner[pc]).ret
      BY ReturnWords
    <3>2. Owner[pc] = <<acts[Len(acts)].class, acts[Len(acts)].method>>
      BY <1>1, Fetched
    <3>3. Owner[pc] = <<acts[n + 1].class, acts[n + 1].method>> /\ w = Code[pc].pops
      BY <2>2, <3>2
    <3>4. w = MethodAt(<<acts[n + 1].class, acts[n + 1].method>>).ret
      BY <3>1, <3>3
    <3> QED
      BY <3>4 DEF MethodAt
  <2>4. \A j \in 1 .. n : OperandBase(j)' = OperandBase(j)
    BY <2>2 DEF OperandBase, LinkOf
  <2> SUFFICES ASSUME InControl', NEW j \in DOMAIN acts'
               PROVE  (OperandCount(j) + WordsToCome(j))' = Depth[PcOf(j)']
    BY DEF Exact
  <2>5. j \in 1 .. n /\ j \in DOMAIN acts /\ j # n + 1
    <3>1. n \in Nat /\ DOMAIN acts' = 1 .. n /\ DOMAIN acts = 1 .. n + 1
      BY <2>2
    <3>2. j \in 1 .. n
      BY <3>1
    <3>3. j \in 1 .. n + 1 /\ j # n + 1
      BY ONLY <3>1, <3>2
    <3> QED
      BY <3>1, <3>2, <3>3
  <2>6. OperandCount(j) + WordsToCome(j) = Depth[PcOf(j)]
    BY <1>1, <2>5 DEF Exact
  <2>7. CASE j = n
    <3>1. /\ OperandTop(j)' = frame + w - 1 /\ PcOf(j)' = acts[n].resume
          /\ WordsToCome(j)' = 0
      BY <2>2, <2>7 DEF OperandTop, PcOf, WordsToCome
    <3>2. /\ OperandTop(j) = frame - 1 /\ PcOf(j) = acts[n].resume
          /\ WordsToCome(j) = w
      BY <2>2, <2>3, <2>5, <2>7 DEF OperandTop, PcOf, WordsToCome
    <3>3. OperandCount(j)' = (frame + w - 1) - b + 1 /\ OperandCount(j) = (frame - 1) - b + 1
      BY <2>2, <2>4, <2>5, <2>7, <3>1, <3>2 DEF OperandCount
    <3>4. PICK f \in Int, v \in Nat : f = frame /\ v = w
      BY <2>2
    <3>5. PICK e \in Int : e = b
      BY <2>2
    <3>6. (f + v - 1) - e + 1 + 0 = (f - 1) - e + 1 + v
      BY ONLY f \in Int, v \in Nat, e \in Int
    <3> QED
      BY <2>6, <3>1, <3>2, <3>3, <3>4, <3>5, <3>6
  <2>8. CASE j # n
    <3>0. n \in Nat
      BY <2>2
    <3>1. j + 1 \in 1 .. n
      BY ONLY <2>5, <2>8, <3>0
    <3>2. /\ OperandTop(j)' = OperandTop(j) /\ PcOf(j)' = PcOf(j)
          /\ WordsToCome(j)' = WordsToCome(j)
      BY <2>2, <2>5, <2>8, <3>1 DEF OperandTop, PcOf, WordsToCome
    <3>3. OperandCount(j)' = OperandCount(j)
      BY <2>4, <2>5, <3>2 DEF OperandCount
    <3> QED
      BY <2>6, <3>2, <3>3
  <2> QED
    BY <2>7, <2>8
<1> QED
  BY <1>2, <1>3

----------------------------------------------------------------------------
(* Together. *)

\* main starts without an operand.
LEMMA InitExact ==
    ASSUME Init
    PROVE  Exact
<1> DEFINE m == MethodsOf[MainClass][get_main_method]
<1>1. /\ frame = 1 /\ localc = m.locals /\ optop = frame + localc + 4 - 1 /\ pc = m.code
      /\ Len(acts) = 1 /\ DOMAIN acts = {1}
      /\ acts[1].frame = 1 /\ acts[1].localc = m.locals
  BY DEF Init, MainInfo, Links
<1>2. IInv /\ InControl /\ acts # << >>
  BY <1>1, InitInductive DEF Init, InControl, Inductive
<1>3. optop \in Int /\ localc \in Nat
  BY <1>2, TopFrame
<1>4. OperandCount(1) = 0
  <2>1. OperandTop(1) = optop /\ OperandBase(1) = 1 + localc + 4
    BY <1>1 DEF OperandTop, OperandBase, LinkOf, Links
  <2>2. PICK l \in Nat : l = localc
    BY <1>3
  <2>3. (1 + l + 4 - 1) - (1 + l + 4) + 1 = 0
    BY ONLY <2>2
  <2> QED
    BY <1>1, <2>1, <2>2, <2>3 DEF OperandCount
<1>5. PcOf(1) = m.code /\ WordsToCome(1) = 0
  BY <1>1 DEF PcOf, WordsToCome
<1>6. Depth[m.code] = 0
  <2>1. Declares(MainClass, "main") /\ MainClass \in Classes
    BY ProgramShape, ProgramVerified
  <2>2. get_main_method \in DOMAIN MethodsOf[MainClass] /\ m.name = "main"
    BY <2>1, LookupFinds DEF get_main_method
  <2>3. m.native = "no"
    BY <2>2, ProgramVerified
  <2> QED
    BY <2>1, <2>2, <2>3, MethodFacts
<1> QED
  BY <1>1, <1>4, <1>5, <1>6 DEF Exact

\* Every step takes and leaves the operands the class file says.
LEMMA NextExact ==
    ASSUME NoPrintln, ConstructorsEverywhere, Inductive, IInv', Exact, [Next]_vars
    PROVE  Exact'
<1>1. IInv
  BY DEF Inductive
<1>2. CASE Constant \/ Pop \/ Operate \/ Load
  BY <1>1, <1>2, CalculateExact
<1>3. CASE Store \/ iinc
  BY <1>1, <1>3, LocalsExact
<1>4. CASE Branch
  BY <1>1, <1>4, BranchExact
<1>5. CASE Abort \/ ResolveFails \/ UnsupportedField \/ impdep1
  <2>1. vm' \in {"exited", "aborted", "undefined"}
    BY <1>5 DEF Abort, ResolveFails, UnsupportedField, impdep1
  <2> QED
    BY <2>1, StopExact
<1>6. CASE Start \/ InitializeClass
  BY <1>6, ConstructExact
<1>7. CASE getstatic \/ putstatic
  BY <1>1, <1>7, FieldExact
<1>8. CASE invokestatic
  BY <1>1, <1>8, InvokeExact
<1>9. CASE call_native
  BY <1>1, <1>9, NativeExact
<1>10. CASE Return
  BY <1>1, <1>10, ReturnExact
<1>11. CASE UNCHANGED vars
  BY <1>11 DEF vars, registers, Exact, InControl, OperandCount, OperandTop, OperandBase, LinkOf,
               WordsToCome, PcOf
<1> QED
  BY <1>2, <1>3, <1>4, <1>5, <1>6, <1>7, <1>8, <1>9, <1>10, <1>11 DEF Next, Step, Stopped

\* When a program calls no println and its classes all declare static
\* constructors, or none does, an active method has exactly the operands that
\* its class file puts there, whatever was called and has returned in between
\* (core.c, run, and the layout of a frame in its comment at line 198).
THEOREM OperandsExactly ==
    ASSUME NoPrintln, ConstructorsEverywhere
    PROVE  Spec => []StackMapExact
<1>1. InitializersFit
  BY ConstructorsFit
<1>2. Init => Inductive /\ Exact
  BY InitInductive, InitExact
<1>3. Inductive /\ Exact /\ [Next]_vars => (Inductive /\ Exact)'
  <2>1. Inductive /\ [Next]_vars => Inductive'
    BY <1>1, NextFits, StepInductive
  <2>2. Inductive' => IInv'
    BY DEF Inductive
  <2> QED
    BY <2>1, <2>2, NextExact
<1>4. Inductive /\ Exact => StackMapExact
  BY DEF Inductive, IInv, StackMapCovered, Exact, StackMapExact
<1> QED
  BY <1>2, <1>3, <1>4, PTL DEF Spec

============================================================================
