---------------------------- MODULE FrameMachine ----------------------------
(***************************************************************************)
(* What run() of core.c promises: a stack of separate frames, each with    *)
(* its own local variables and operands, as the class files assume it.     *)
(* There is no shared memory, no saved register and no address here.  A    *)
(* call moves arguments from the operands of the caller to the locals of   *)
(* the callee, a return hands a result back, and the constructor a class   *)
(* declares runs before the first use of the class from outside.           *)
(*                                                                         *)
(* The machine may lose control ("undefined": core.c checks no bound) only *)
(* in a step for which the mapped block really has no room.                *)
(***************************************************************************)
EXTENDS Program

VARIABLES
    vm,           \* as in Interpreter
    stack,        \* the frames, outermost first
    initialized,  \* classes whose constructor has been started
    statics       \* field -> its words

vars == <<vm, stack, initialized, statics>>

top == stack[Len(stack)]
callers == SubSeq(stack, 1, Len(stack) - 1)

\* Words that the frames take in the memory of core.c.
FrameWords(f) == Len(f.locals) + 4 + Len(f.operands)
WordsUsed ==
    LET used[n \in 0 .. Len(stack)] ==
            IF n = 0 THEN 0 ELSE used[n - 1] + FrameWords(stack[n])
    IN  used[Len(stack)]

\* A step that needs n more words: it has no room, or it does A.
NoRoom(n) == WordsUsed + n > StackWords /\ vm' = "undefined"
Room(n) == WordsUsed + n <= StackWords

Bottom(f, n) == SubSeq(f.operands, 1, Len(f.operands) - n)
Top(f, n) == SubSeq(f.operands, Len(f.operands) - n + 1, Len(f.operands))

\* f after an instruction that takes n operands, leaves ws and goes on at a.
Stepped(f, n, ws, a) == [f EXCEPT !.operands = Bottom(f, n) \o ws, !.pc = a]

Executing(ops) ==
    vm = "running" /\ stack # << >> /\ top.pc \in Addresses /\ Code[top.pc].op \in ops

Instr == Code[top.pc]
Following == top.pc + Instr.len

\* The local variables that are not arguments have no value yet.
Fresh(f, k, i, args) ==
    LET m == MethodsOf[k][i]
    IN  /\ f.class = k
        /\ f.method = i
        /\ f.pc = m.code
        /\ f.operands = << >>
        /\ Len(f.locals) = m.locals
        /\ SubSeq(f.locals, 1, Len(args)) = args

\* Method i of class k gets a frame; the frame below becomes caller.
Call(caller, k, i, args) ==
    LET needed == MethodsOf[k][i].locals + 4 - Len(args)
    IN  \/ NoRoom(needed)
        \/ /\ Room(needed)
           /\ Len(stack') = Len(stack) + 1
           /\ SubSeq(stack', 1, Len(stack)) = callers \o <<caller>>
           /\ Fresh(stack'[Len(stack) + 1], k, i, args)
           /\ vm' = "running"

\* The class k is initialized: its constructor runs if it declares one.
Construct(k) ==
    /\ initialized' = initialized \cup {k}
    /\ UNCHANGED statics
    /\ \/ /\ ~ Declares(k, "<clinit>")
          /\ vm' = "running" /\ UNCHANGED stack
       \/ /\ Declares(k, "<clinit>")
          /\ Call(top, k, FirstOrLast(k, "<clinit>"), << >>)

----------------------------------------------------------------------------

Init ==
    /\ vm = "starting"
    /\ Len(stack) = 1
    /\ Fresh(stack[1], MainClass, get_main_method, << >>)
    /\ initialized = {}
    /\ statics = [f \in Fields |-> [i \in 1 .. FieldWords[f] |-> 0]]

Start == vm = "starting" /\ Construct(MainClass)

\* n operands are replaced by m words; the code goes on at a.
Compute(n, m, a) ==
    /\ UNCHANGED <<initialized, statics>>
    /\ \/ NoRoom(m - n)
       \/ /\ Room(m - n)
          /\ \E ws \in [1 .. m -> Data] :
                stack' = callers \o <<Stepped(top, n, ws, a)>>
          /\ UNCHANGED vm

Calculate ==
    /\ Executing({"const", "pop", "operate"})
    /\ Compute(Instr.pops, Instr.pushes, Following)

Load ==
    /\ Executing({"load"})
    /\ LET w == Instr.pushes
           ws == SubSeq(top.locals, Instr.arg + 1, Instr.arg + w)
       IN  \/ NoRoom(w)
           \/ /\ Room(w)
              /\ stack' = callers \o <<Stepped(top, 0, ws, Following)>>
              /\ UNCHANGED vm
    /\ UNCHANGED <<initialized, statics>>

Store ==
    /\ Executing({"store"})
    /\ LET w == Instr.pops
           f == Stepped(top, w, << >>, Following)
           locals == [v \in DOMAIN f.locals |->
                         IF v \in Instr.arg + 1 .. Instr.arg + w
                         THEN Top(top, w)[v - Instr.arg] ELSE f.locals[v]]
       IN  stack' = callers \o <<[f EXCEPT !.locals = locals]>>
    /\ UNCHANGED <<vm, initialized, statics>>

Increment ==
    /\ Executing({"iinc"})
    /\ \E v \in Data :
          stack' = callers \o <<[Stepped(top, 0, << >>, Following) EXCEPT
                                    !.locals[Instr.arg + 1] = v]>>
    /\ UNCHANGED <<vm, initialized, statics>>

Branch ==
    /\ Executing({"branch"})
    /\ \E t \in Instr.targets : Compute(Instr.pops, 0, t)

Ref == PoolOf[top.class][Instr.arg]

Uses(op) ==
    /\ Executing({op})
    /\ Ref.class \in Classes
    /\ Ref.member # 0

FirstUse ==
    /\ \E op \in {"getstatic", "putstatic", "invokestatic"} : Uses(op)
    /\ Ref.class \notin initialized
    /\ Construct(Ref.class)

getstatic ==
    /\ Uses("getstatic")
    /\ Ref.class \in initialized
    /\ FieldWords[Ref.member] # 0
    /\ \/ NoRoom(FieldWords[Ref.member])
       \/ /\ Room(FieldWords[Ref.member])
          /\ stack' = callers \o <<Stepped(top, 0, statics[Ref.member], Following)>>
          /\ UNCHANGED vm
    /\ UNCHANGED <<initialized, statics>>

putstatic ==
    /\ Uses("putstatic")
    /\ Ref.class \in initialized
    /\ LET w == FieldWords[Ref.member]
       IN  /\ w # 0
           /\ statics' = [statics EXCEPT ![Ref.member] = Top(top, w)]
           /\ stack' = callers \o <<Stepped(top, w, << >>, Following)>>
    /\ UNCHANGED <<vm, initialized>>

Callee == MethodsOf[Ref.class][Ref.member]

invokestatic ==
    /\ Uses("invokestatic")
    /\ Ref.class \in initialized
    /\ Callee.native = "no"
    /\ Call(Stepped(top, Callee.nargs, << >>, Following), Ref.class, Ref.member,
            Top(top, Callee.nargs))
    /\ UNCHANGED <<initialized, statics>>

\* A native method takes its arguments like any other.
callNative ==
    /\ Uses("invokestatic")
    /\ Ref.class \in initialized
    /\ Callee.native = "println"
    /\ stack' = callers \o <<Stepped(top, Callee.nargs, << >>, Following)>>
    /\ UNCHANGED <<vm, initialized, statics>>

Return ==
    /\ Executing({"return"})
    /\ stack' = IF callers = << >> THEN << >>
                ELSE LET caller == callers[Len(callers)]
                         rest == SubSeq(callers, 1, Len(callers) - 1)
                     IN  rest \o <<Stepped(caller, 0, Top(top, Instr.pops), caller.pc)>>
    /\ UNCHANGED <<vm, initialized, statics>>

\* Every stop before the end of main is an error the code reports.
Abort ==
    /\ Executing({"operate", "not_sup", "getstatic", "putstatic", "invokestatic"})
    /\ CASE Instr.op = "operate" -> Instr.traps
         [] Instr.op = "not_sup" -> TRUE
         [] Instr.op \in {"getstatic", "putstatic"} ->
               Uses(Instr.op) => /\ Ref.class \in initialized
                                 /\ FieldWords[Ref.member] = 0
         [] Instr.op = "invokestatic" ->
               Uses(Instr.op) => /\ Ref.class \in initialized
                                 /\ Callee.native = "unsupported"
    /\ vm' = "aborted"
    /\ UNCHANGED <<stack, initialized, statics>>

Exit ==
    /\ vm = "running"
    /\ stack = << >>
    /\ vm' = "exited"
    /\ UNCHANGED <<stack, initialized, statics>>

Next ==
    \/ Start
    \/ Calculate \/ Load \/ Store \/ Increment \/ Branch
    \/ FirstUse \/ getstatic \/ putstatic
    \/ invokestatic \/ callNative \/ Return
    \/ Abort \/ Exit

Spec == Init /\ [][Next]_vars

============================================================================
