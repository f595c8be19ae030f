---------------------------- MODULE Interpreter ----------------------------
(***************************************************************************)
(* run() of core.c: the interpreter loop, its registers and the one block  *)
(* of memory that holds the frames of all active methods.                  *)
(*                                                                         *)
(* A frame starts with the arguments of the method, which are the last     *)
(* operands of its caller; behind its local variables lie four words that  *)
(* save the caller's registers, and behind these its operands:             *)
(*                                                                         *)
(*    frame                frame + localc                   optop          *)
(*      | arguments, locals | localc frame pc c | operands ... |           *)
(*                                                                         *)
(* One action is one instruction, from its dispatch to the next one.  pc   *)
(* is therefore the address of the opcode; the code itself has stepped     *)
(* past it when a handler starts.  Memory words are numbered from 1 and    *)
(* hold integers: data, word numbers, code addresses and classes.          *)
(***************************************************************************)
EXTENDS Program

VARIABLES
    vm,                  \* "starting", "running" or how the process ended
    pc, c, cp, frame, localc, optop,     \* the registers of run()
    mem,                 \* the words of the stack
    static_initialized,  \* classes whose flag of that name is set
    loaded,              \* classes load_class has parsed
    statics,             \* field -> byte1 and byte2 of its r_field_info
    acts,                \* history: the active methods, outermost first, with
                         \*   their part of mem and where they resume
    inits                \* history: class -> constructors started for it

registers == <<pc, c, cp, frame, localc, optop>>
vars == <<vm, registers, mem, static_initialized, loaded, statics, acts, inits>>

Null == 0
Links == 4   \* words that save the registers of the caller

Read(m, first, n) == [i \in 1 .. n |-> m[first + i - 1]]

Write(m, first, ws) ==
    [a \in DOMAIN m |->
        IF a \in first .. first + Len(ws) - 1 THEN ws[a - first + 1] ELSE m[a]]

Words(n) == [1 .. n -> Data]

----------------------------------------------------------------------------
(* Moving the registers. *)

\* A push past the mapped block is not detected by the code.
StackOverflow == /\ vm' = "undefined"
                 /\ UNCHANGED <<registers, mem, acts>>

\* Take n words off the operand stack, put the words ws on it and go on at
\* the address next.
Operands(n, ws, next) ==
    IF optop - n + Len(ws) > StackWords THEN StackOverflow
    ELSE /\ mem' = Write(mem, optop - n + 1, ws)
         /\ optop' = optop - n + Len(ws)
         /\ pc' = next
         /\ UNCHANGED <<vm, c, cp, frame, localc, acts>>

\* The arguments on top of the operand stack are the bottom of the frame.
FrameBaseTooLow(nargs) == optop - nargs
FrameBase(nargs) == optop + 1 - nargs

LinkWordsSwapped(resume) == <<frame, localc, resume, c>>
LinkWords(resume) == <<localc, frame, resume, c>>

\* Call method i of class k; the caller goes on at the address resume.
Enter(k, i, resume) ==
    LET m == MethodsOf[k][i]
        base == FrameBase(m.nargs)
        link == base + m.locals
    IN  IF link + Links - 1 > StackWords THEN StackOverflow
        ELSE /\ vm' = "running"
             /\ mem' = Write(mem, link, LinkWords(resume))
             /\ optop' = link + Links - 1
             /\ pc' = m.code
             /\ c' = k
             /\ cp' = k
             /\ frame' = base
             /\ localc' = m.locals
             /\ acts' = Append([acts EXCEPT ![Len(acts)].resume = resume],
                               [class |-> k, method |-> i, frame |-> base,
                                localc |-> m.locals, resume |-> Null])

\* The flag is set before the constructor runs.
MarkAfterwards(k) == static_initialized' = static_initialized
MarkCaller(k) == static_initialized' = static_initialized \cup {c}
MarkInitialized(k) == static_initialized' = static_initialized \cup {k}

\* The label initialize_static, for the class k, from an instruction or the
\* start of run() that goes on at resume.  A native method has no code.
initialize_static(k, resume) ==
    LET i == get_static_constructor(k, loaded')
    IN  /\ MarkInitialized(k)
        /\ IF i = 0
           THEN /\ vm' = "running"
                /\ pc' = resume
                /\ UNCHANGED <<c, cp, frame, localc, optop, mem, acts, inits>>
           ELSE /\ inits' = [inits EXCEPT ![k] = @ + 1]
                /\ IF MethodsOf[k][i].native = "no" THEN Enter(k, i, resume)
                   ELSE vm' = "undefined" /\ UNCHANGED <<registers, mem, acts>>

----------------------------------------------------------------------------
(* Instructions. *)

Fetch(ops) == vm = "running" /\ pc \in Addresses /\ Code[pc].op \in ops

Next_pc == pc + Code[pc].len

UNCHANGED_classes == UNCHANGED <<static_initialized, loaded, statics, inits>>

Constant ==
    /\ Fetch({"const"})
    /\ \E ws \in Words(Code[pc].pushes) : Operands(0, ws, Next_pc)
    /\ UNCHANGED_classes

Pop ==
    /\ Fetch({"pop"})
    /\ Operands(Code[pc].pops, << >>, Next_pc)
    /\ UNCHANGED_classes

\* Arithmetic, comparisons, conversions and arrays: the values are abstracted.
Operate ==
    /\ Fetch({"operate"})
    /\ \E ws \in Words(Code[pc].pushes) : Operands(Code[pc].pops, ws, Next_pc)
    /\ UNCHANGED_classes

Load ==
    /\ Fetch({"load"})
    /\ Operands(0, Read(mem, frame + Code[pc].arg, Code[pc].pushes), Next_pc)
    /\ UNCHANGED_classes

Store ==
    /\ Fetch({"store"})
    /\ LET w == Code[pc].pops
       IN  /\ mem' = Write(mem, frame + Code[pc].arg, Read(mem, optop - w + 1, w))
           /\ optop' = optop - w
    /\ pc' = Next_pc
    /\ UNCHANGED <<vm, c, cp, frame, localc, acts>>
    /\ UNCHANGED_classes

\* The local variable changes where it is; the operand stack is not used.
iinc ==
    /\ Fetch({"iinc"})
    /\ \E ws \in Words(1) : mem' = Write(mem, frame + Code[pc].arg, ws)
    /\ pc' = Next_pc
    /\ UNCHANGED <<vm, c, cp, frame, localc, optop, acts>>
    /\ UNCHANGED_classes

\* goto, the conditional branches and the switches.
Branch ==
    /\ Fetch({"branch"})
    /\ \E t \in Code[pc].targets : Operands(Code[pc].pops, << >>, t)
    /\ UNCHANGED_classes

\* exit(1): an unsupported instruction, or an exception of Java.
Abort ==
    /\ Fetch({"not_sup", "operate"})
    /\ Code[pc].op = "operate" => Code[pc].traps
    /\ vm' = "aborted"
    /\ UNCHANGED <<registers, mem, acts>>
    /\ UNCHANGED_classes

----------------------------------------------------------------------------
(* Instructions that refer to a field or a method of some class. *)

RefOps == {"getstatic", "putstatic", "invokestatic"}
Ref == PoolOf[cp][Code[pc].arg]

\* Defects that the runs have to find are named for what they do and stand
\* before the definition they would replace, here and above.
ResolveFailsLoaded ==
    /\ Fetch(RefOps)
    /\ Ref.class \notin Classes \/ Ref.member = 0
    /\ loaded' = loaded \cup {Ref.class}
    /\ vm' = "aborted"
    /\ UNCHANGED <<registers, mem, acts, static_initialized, statics, inits>>

ResolveFails ==
    /\ Fetch(RefOps)
    /\ Ref.class \notin Classes \/ Ref.member = 0
    /\ loaded' = loaded \cup ({Ref.class} \cap Classes)
    /\ vm' = "aborted"
    /\ UNCHANGED <<registers, mem, acts, static_initialized, statics, inits>>

Resolves(op) ==
    /\ Fetch({op})
    /\ Ref.class \in Classes
    /\ Ref.member # 0

\* The instruction is executed again after the constructor: pc has passed the
\* opcode and the index, and goes back over both.
Behind == (pc + 1) + 2
TooFarBack == (pc + 1) - 3
Again == (pc + 1) + 2 - 3

InitializeClass ==
    /\ \E op \in RefOps : Resolves(op)
    /\ Ref.class \notin static_initialized
    /\ loaded' = loaded \cup {Ref.class}
    /\ initialize_static(Ref.class, Again)
    /\ UNCHANGED statics

Initialized(op) ==
    /\ Resolves(op)
    /\ Ref.class \in static_initialized
    /\ loaded' = loaded \cup {Ref.class}

getstatic ==
    /\ Initialized("getstatic")
    /\ FieldWords[Ref.member] # 0
    /\ Operands(0, statics[Ref.member], Next_pc)
    /\ UNCHANGED <<static_initialized, statics, inits>>

putstatic ==
    /\ Initialized("putstatic")
    /\ LET w == FieldWords[Ref.member]
       IN  /\ w # 0
           /\ statics' = [statics EXCEPT ![Ref.member] = Read(mem, optop - w + 1, w)]
           /\ Operands(w, << >>, Next_pc)
    /\ UNCHANGED <<static_initialized, inits>>

UnsupportedField ==
    /\ \E op \in {"getstatic", "putstatic"} :
          Initialized(op) /\ FieldWords[Ref.member] = 0
    /\ vm' = "aborted"
    /\ UNCHANGED <<registers, mem, static_initialized, statics, acts, inits>>

invokestatic ==
    /\ Initialized("invokestatic")
    /\ MethodsOf[Ref.class][Ref.member].native = "no"
    /\ Enter(Ref.class, Ref.member, Next_pc)
    /\ UNCHANGED <<static_initialized, statics, inits>>

\* println reads its argument on top of the operand stack and leaves it there;
\* any other native method ends the process.
call_native ==
    /\ Initialized("invokestatic")
    /\ MethodsOf[Ref.class][Ref.member].native # "no"
    /\ IF MethodsOf[Ref.class][Ref.member].native = "println"
       THEN pc' = Next_pc /\ UNCHANGED vm
       ELSE vm' = "aborted" /\ UNCHANGED pc
    /\ UNCHANGED <<c, cp, frame, localc, optop, mem, acts>>
    /\ UNCHANGED <<static_initialized, statics, inits>>

\* The operand stack after a result of w words.
ResultTopHigh(w) == frame + w
ResultTopHalf(w) == IF w = 2 THEN frame ELSE frame + w - 1
ResultTop(w) == frame + w - 1

\* ireturn, lreturn, freturn, dreturn, areturn and return: the caller's
\* registers come from behind the locals, the result replaces the arguments.
Return ==
    /\ Fetch({"return"})
    /\ LET w == Code[pc].pops
           link == frame + localc
       IN  /\ localc' = mem[link]
           /\ frame' = mem[link + 1]
           /\ pc' = mem[link + 2]
           /\ c' = mem[link + 3]
           /\ cp' = c'
           /\ mem' = Write(mem, frame, Read(mem, optop - w + 1, w))
           /\ optop' = ResultTop(w)
    /\ acts' = SubSeq(acts, 1, Len(acts) - 1)
    /\ UNCHANGED vm
    /\ UNCHANGED_classes

\* The opcode main returns to: free_vm, then run() returns.
impdep1 ==
    /\ vm = "running" /\ pc = ImpdepPc
    /\ vm' = "exited"
    /\ loaded' = {}
    /\ UNCHANGED <<registers, mem, acts, static_initialized, statics, inits>>

----------------------------------------------------------------------------

MainInfo == MethodsOf[MainClass][get_main_method]

\* The registers and the frame of main before its class is initialized.
Init ==
    /\ vm = "starting"
    /\ pc = MainInfo.code
    /\ c = MainClass
    /\ cp = MainClass
    /\ frame = 1
    /\ localc = MainInfo.locals
    /\ optop = frame + localc + Links - 1
    /\ mem = Write([a \in 1 .. StackWords |-> Null], frame + localc,
                   <<Null, Null, ImpdepPc, MainClass>>)
    /\ static_initialized = {}
    /\ loaded = {MainClass}
    /\ statics = [f \in Fields |-> [i \in 1 .. FieldWords[f] |-> 0]]
    /\ acts = << [class |-> MainClass, method |-> get_main_method, frame |-> 1,
                  localc |-> MainInfo.locals, resume |-> Null] >>
    /\ inits = [k \in Classes |-> 0]

\* The constructor of the main class runs before main.
Start ==
    /\ vm = "starting"
    /\ loaded' = loaded
    /\ initialize_static(MainClass, pc)
    /\ UNCHANGED statics

Stopped ==
    /\ vm \in {"exited", "aborted", "undefined"}
    /\ UNCHANGED vars

Step ==
    \/ Start
    \/ Constant \/ Pop \/ Operate \/ Load \/ Store \/ iinc \/ Branch \/ Abort
    \/ ResolveFails \/ InitializeClass
    \/ getstatic \/ putstatic \/ UnsupportedField
    \/ invokestatic \/ call_native \/ Return
    \/ impdep1

Next == Step \/ Stopped

Spec == Init /\ [][Next]_vars

\* One thread executes the loop; nothing can stop it between instructions.
FairSpec == Spec /\ WF_vars(Step)

----------------------------------------------------------------------------
(* Correctness. *)

InControl == vm \in {"starting", "running"}

Activation == [class : Classes, method : Nat, frame : Int, localc : Nat, resume : Int]

MachineTypeOK ==
    /\ vm \in {"starting", "running", "exited", "aborted", "undefined"}
    /\ pc \in Int /\ c \in Int /\ cp \in Int
    /\ frame \in Int /\ localc \in Int /\ optop \in Int
    /\ mem \in [1 .. StackWords -> Int]
    /\ acts \in Seq(Activation)

ClassTypeOK ==
    /\ static_initialized \subseteq Classes
    /\ loaded \subseteq Classes
    /\ statics \in [Fields -> Seq(Int)]
    /\ \A f \in Fields : Len(statics[f]) = FieldWords[f]
    /\ inits \in [Classes -> Nat]

\* Every variable holds values of its type; the registers of run() are plain
\* machine words, so that says nothing about where they point.
TypeOK == MachineTypeOK /\ ClassTypeOK

\* The part of mem that belongs to the i-th active method.
LinkOf(i) == acts[i].frame + acts[i].localc
OperandBase(i) == LinkOf(i) + Links
OperandTop(i) == IF i = Len(acts) THEN optop ELSE acts[i + 1].frame - 1
OperandCount(i) == OperandTop(i) - OperandBase(i) + 1
PcOf(i) == IF i = Len(acts) THEN pc ELSE acts[i].resume

Saved(i) == Read(mem, LinkOf(i), Links)

\* The registers describe the innermost method.
RegistersMatch ==
    acts # << >> =>
        LET a == acts[Len(acts)]
        IN  frame = a.frame /\ localc = a.localc /\ c = a.class /\ cp = a.class

\* No frame, its saved registers included, reaches into the one above.
FramesDisjoint ==
    \A i \in DOMAIN acts : OperandBase(i) <= OperandTop(i) + 1

\* The saved registers of every frame are those its caller had: nothing that
\* ran since, in whatever order, has overwritten them.
LinksIntact ==
    \A i \in DOMAIN acts :
        IF i = 1 THEN mem[LinkOf(1) + 2] = ImpdepPc /\ mem[LinkOf(1) + 3] = MainClass
        ELSE Saved(i) = <<acts[i - 1].localc, acts[i - 1].frame,
                          acts[i - 1].resume, acts[i - 1].class>>

\* The chain of frames that run() keeps in its memory is the chain of calls
\* that were made: every return goes back to the caller it belongs to.
FramesLinked ==
    InControl => /\ RegistersMatch
                 /\ FramesDisjoint
                 /\ LinksIntact
                 /\ acts = << >> => pc = ImpdepPc

\* The operands a method has when control comes back to it: the result of the
\* method above is still to come.
WordsToCome(i) ==
    IF i = Len(acts) THEN 0
    ELSE MethodsOf[acts[i + 1].class][acts[i + 1].method].ret

PcInMethod(i) == /\ PcOf(i) \in Addresses
                 /\ Owner[PcOf(i)] = <<acts[i].class, acts[i].method>>

\* Every active method is at an address of its own code and finds there at
\* least the operands that javac counted on: no instruction of any active
\* method ever takes a word that belongs to a saved register or to its caller.
StackMapCovered ==
    InControl =>
        \A i \in DOMAIN acts :
            /\ PcInMethod(i)
            /\ OperandCount(i) + WordsToCome(i) >= Depth[PcOf(i)]

\* "oldc <- optop (if no operand is on the operand stack)": the operand stack
\* holds the operands that the class file puts there and no other word.
StackMapExact ==
    InControl =>
        \A i \in DOMAIN acts :
            /\ PcInMethod(i)
            /\ OperandCount(i) + WordsToCome(i) = Depth[PcOf(i)]

\* What the proofs need beyond the properties above.
MethodsKnown ==
    \A i \in DOMAIN acts :
        /\ IsMethod(acts[i].class, acts[i].method)
        /\ MethodAt(<<acts[i].class, acts[i].method>>).native = "no"
        /\ MethodAt(<<acts[i].class, acts[i].method>>).locals = acts[i].localc
        /\ acts[i].frame >= 1

FramesOrdered == \A i, j \in DOMAIN acts : i < j => OperandBase(i) <= acts[j].frame

TopFits ==
    /\ optop <= StackWords
    /\ acts # << >> => OperandBase(Len(acts)) <= optop + 1

LayoutInv ==
    InControl => /\ MethodsKnown /\ FramesOrdered /\ TopFits
                 /\ RegistersMatch /\ LinksIntact
                 /\ acts = << >> => pc = ImpdepPc

IInv == TypeOK /\ LayoutInv /\ StackMapCovered

\* A constructor is started once, although the instruction that needs it is
\* executed twice and classes may need each other in a circle; and no method of
\* a class that has one is active before it is started.
ConstructorOnce ==
    /\ \A k \in Classes : inits[k] <= 1
    /\ vm = "running" =>
          \A i \in DOMAIN acts :
              Declares(acts[i].class, "<clinit>") => inits[acts[i].class] = 1

\* "class does not need to be initialized": the method that initialize_static
\* starts is a static constructor and nothing else.
OnlyConstructorsStarted ==
    [][Len(acts') > Len(acts) /\ inits' # inits =>
          LET a == acts'[Len(acts')]
          IN  MethodsOf[a.class][a.method].name = "<clinit>"]_vars

\* A program without an endless loop stops, one way or another ...
Termination == <>(vm \in {"exited", "aborted", "undefined"})

\* ... and one that neither fails nor fills the stack leaves run() regularly.
RunsToTheEnd == <>(vm = "exited")

\* The frames of the abstract machine, read out of the memory and, for the
\* innermost one, the registers.
FrameAt(i) ==
    LET top == i = Len(acts)
        f == IF top THEN frame ELSE acts[i].frame
        n == IF top THEN localc ELSE acts[i].localc
    IN  [class |-> IF top THEN c ELSE acts[i].class,
         method |-> acts[i].method,
         pc |-> PcOf(i),
         locals |-> Read(mem, f, n),
         operands |-> Read(mem, f + n + Links, OperandTop(i) - (f + n + Links) + 1)]

Frames == INSTANCE FrameMachine
             WITH stack <- [i \in DOMAIN acts |-> FrameAt(i)],
                  initialized <- static_initialized

\* run() keeps its promise: what the flat memory and the registers do is what
\* the machine with separate frames does.
ImplementsFrameMachine == Frames!Spec

============================================================================
