----------------------------- MODULE Lifecycle -----------------------------
(***************************************************************************)
(* One process that runs program after program, as the test build does:    *)
(* java() of java.c, and the fixtures of the tests, which parse a class,   *)
(* ask run() to stop after a number of instructions (testmode.h) and       *)
(* release everything.  All programs share the static variables of the     *)
(* string pool, the parser, the natives, the stack and the test mode.      *)
(*                                                                         *)
(* The parser is ClassFile.  What an instruction does is Interpreter; here *)
(* it may load a class, start a static constructor or end the program.     *)
(***************************************************************************)
EXTENDS ClassFile

CONSTANTS
    Main, MainSignature,   \* the texts "main" and "([Ljava/lang/String;)V"
    MaxPrograms,           \* bound: the programs of a process
    MaxInstrs,             \* bound: the instructions of a program
    MaxClasses             \* bound: the classes of a program

ASSUME LifecycleAssumption ==
    /\ {Main, MainSignature} \subseteq Texts
    /\ MaxPrograms \in Nat /\ MaxInstrs \in Nat /\ MaxClasses \in Nat

VARIABLES
    vm,        \* "none", "loading", "loaded", "running", "resolving",
               \* "stopped", or "exited"
    harness,   \* "java", "fixture", or "parse only"
    ring,      \* the classes linked to the main class: structure, pool of names
    last_method,  \* the method c_attr_to_set points to when it is Stale: a class
               \* of the ring and the number of the method
    pool,      \* the string pool: which incarnation (0: NULL) and its texts
    natives,   \* the incarnation from which native.c has its names
    stack_start,  \* the mapped block, 0: NULL
    mapped,    \* the blocks that are mapped
    instrs_counter, instrs_until_terminate,
    goto,      \* how the next instruction is reached: "NEXT" or "AFTER"
    asked,     \* history: the number of instructions a test asked for
    executed,  \* history: instructions completed by the program
    programs   \* history: the programs so far

lifeVars == <<vm, harness, ring, last_method, pool, natives, stack_start, mapped,
              instrs_counter, instrs_until_terminate, goto, asked, executed, programs>>

vars == <<scanVars, fileVars, lifeVars>>

NoPool == [id |-> 0, texts |-> {}]

Init ==
    /\ InitScan /\ signature = Code
    /\ InitFile
    /\ vm = "none" /\ harness = "java"
    /\ ring = << >> /\ last_method = [class |-> 0, method |-> 0]
    /\ pool = NoPool
    /\ natives = 0
    /\ stack_start = 0 /\ mapped = {}
    /\ instrs_counter = 0 /\ instrs_until_terminate = 0
    /\ goto = "NEXT"
    /\ asked = 0 /\ executed = 0 /\ programs = 0

----------------------------------------------------------------------------
(* Loading. *)

\* A new table gets a number of its own.
init_string_pool_always == [id |-> pool.id + 1, texts |-> {}]
init_string_pool == IF pool.id # 0 THEN pool ELSE [id |-> programs, texts |-> {}]

parse(name, who) ==
    /\ vm = "none" /\ programs < MaxPrograms
    /\ programs' = programs + 1
    /\ load_class(name)
    /\ vm' = "loading" /\ harness' = who
    /\ UNCHANGED <<ring, last_method, pool, natives, stack_start, mapped, instrs_counter,
                   instrs_until_terminate, goto, asked, executed>>

\* The code of a method is that of another class.
Foreign == -4
Overwritten(classes, k, m) == [classes EXCEPT ![k].class.methods[m].c_attr = Foreign]

\* The strings of a constant pool go to the string pool, and c_attr_to_set may be
\* followed into a class of the ring.
ParseStep ==
    /\ vm \in {"loading", "resolving"}
    /\ Parse
    /\ ring' = IF SetsOld THEN Overwritten(ring, last_method.class, last_method.method)
               ELSE ring
    /\ pool' = IF at = "start" /\ at' # "exit" THEN init_string_pool
               ELSE IF class'.pool # class.pool /\ Last(class'.pool).tag = CONSTANT_Utf8
                    THEN [pool EXCEPT !.texts = @ \cup {Last(class'.pool).words[1]}]
                    ELSE pool
    /\ UNCHANGED <<vm, harness, last_method, natives, stack_start, mapped, instrs_counter,
                   instrs_until_terminate, goto, asked, executed, programs>>

New_c == [class |-> class, names |-> pool.id]

\* The class becomes class k of the ring.
LeavesTarget(k) ==
    last_method' = IF c_attr_to_set \in Elsewhere THEN last_method
                   ELSE [class |-> k, method |-> c_attr_to_set]

Loaded ==
    /\ vm = "loading"
    /\ Deliver
    /\ vm' = "loaded"
    /\ ring' = << New_c >> /\ LeavesTarget(1)
    /\ UNCHANGED <<harness, pool, natives, stack_start, mapped, instrs_counter,
                   instrs_until_terminate, goto, asked, executed, programs>>

\* exit(1), or memory was used that nobody wrote.
Exits ==
    /\ vm # "exited"
    /\ at \in {"exit", "unknown"}
    /\ vm' = "exited"
    /\ UNCHANGED <<scanVars, fileVars, harness, ring, last_method, pool, natives, stack_start, mapped,
                   instrs_counter, instrs_until_terminate, goto, asked, executed, programs>>

----------------------------------------------------------------------------
(* The beginning of a program. *)

\* A test asks for a number of instructions before it calls run().
Ask(n) ==
    /\ vm = "loaded" /\ harness = "fixture"
    /\ instrs_until_terminate = 0
    /\ instrs_until_terminate' = n /\ asked' = n
    /\ UNCHANGED <<scanVars, fileVars, vm, harness, ring, last_method, pool, natives, stack_start, mapped,
                   instrs_counter, goto, executed, programs>>

\* get_main_method: the last method when none has the name and the signature.
main_c == ring[1].class
IsMain(m) == m.name = Main /\ m.signature = MainSignature
Mains == {x \in DOMAIN main_c.methods : IsMain(main_c.methods[x])}
MainMethod == main_c.methods[IF Mains = {} THEN Len(main_c.methods)
                             ELSE CHOOSE x \in Mains : \A y \in Mains : x <= y]

StringsKnown == {Main, MainSignature} \subseteq pool.texts
HasCode == main_c.methods # << >> /\ MainMethod.c_attr # Unset

Asked == harness = "fixture" => instrs_until_terminate # 0

NoMain ==
    /\ vm = "loaded" /\ harness # "parse only" /\ Asked
    /\ ~ (StringsKnown /\ HasCode)
    /\ vm' = "exited"
    /\ UNCHANGED <<scanVars, fileVars, harness, ring, last_method, pool, natives, stack_start, mapped,
                   instrs_counter, instrs_until_terminate, goto, asked, executed, programs>>

\* native.c asks for its names in every run.
init_natives_once == IF natives = 0 THEN pool.id ELSE natives
init_natives == pool.id

\* run: the stack, the natives, the test mode, the constructor of the class.
run ==
    /\ vm = "loaded" /\ harness # "parse only" /\ Asked
    /\ StringsKnown /\ HasCode
    /\ vm' = "running"
    /\ stack_start' = programs
    /\ mapped' = mapped \cup {programs}
    /\ natives' = init_natives
    /\ pool' = [pool EXCEPT !.texts = @ \cup {"println"}]
    /\ instrs_counter' = 0
    /\ ring' = [ring EXCEPT ![1].class.static_initialized = TRUE]
    /\ goto' = "AFTER"
    /\ executed' = 0
    /\ UNCHANGED <<scanVars, fileVars, harness, last_method, instrs_until_terminate, asked,
                   programs>>

----------------------------------------------------------------------------
(* Instructions. *)

\* NEXT counts an instruction; NEXT_AFTER_INITIALIZE_STATIC only the first.
CountsAlways == TRUE
Counts == goto = "NEXT" \/ instrs_counter = 0

TimeToStop == Counts /\ instrs_counter # 0 /\ instrs_counter = instrs_until_terminate

Dispatch ==
    /\ vm = "running" /\ at = "idle"
    /\ ~ TimeToStop
    /\ instrs_counter' = IF Counts THEN instrs_counter + 1 ELSE instrs_counter

Resume ==
    /\ vm' = "running"
    /\ UNCHANGED <<scanVars, harness, pool, natives, stack_start, mapped,
                   instrs_until_terminate, asked, programs>>

Completes == executed' = executed + 1 /\ goto' = "NEXT"

\* The instruction is left for the constructor of class k, and executed again.
Initializes(classes, k) ==
    /\ ~ classes[k].class.static_initialized
    /\ ring' = [classes EXCEPT ![k].class.static_initialized = TRUE]
    /\ goto' = "AFTER"
    /\ UNCHANGED executed

Ordinary ==
    /\ executed < MaxInstrs
    /\ Dispatch /\ Resume /\ Completes
    /\ UNCHANGED <<ring, last_method, fileVars>>

InitializeClass(k) ==
    /\ executed < MaxInstrs
    /\ Dispatch /\ Resume
    /\ Initializes(ring, k)
    /\ UNCHANGED <<last_method, fileVars>>

\* A class that the ring does not have is loaded in the middle of an instruction.
LoadsClass(name) ==
    /\ executed < MaxInstrs /\ Len(ring) < MaxClasses
    /\ \A k \in DOMAIN ring : ring[k].class.name # name
    /\ Dispatch
    /\ load_class(name)
    /\ vm' = "resolving"
    /\ UNCHANGED <<harness, ring, last_method, pool, natives, stack_start, mapped,
                   instrs_until_terminate, goto, asked, executed, programs>>

\* ldc completes then; an instruction that uses a member initializes the class.
Linked ==
    /\ vm = "resolving"
    /\ Deliver
    /\ Resume /\ LeavesTarget(Len(ring) + 1)
    /\ \/ ring' = Append(ring, New_c) /\ Completes
       \/ Initializes(Append(ring, New_c), Len(ring) + 1)
    /\ UNCHANGED instrs_counter

\* The registers are kept for the test, and the limit is forgotten.
StopKeepingLimit == instrs_until_terminate' = instrs_until_terminate
ForgetLimit == instrs_until_terminate' = 0

Stop ==
    /\ vm = "running" /\ at = "idle"
    /\ TimeToStop
    /\ vm' = "stopped"
    /\ ForgetLimit
    /\ instrs_counter' = 0
    /\ UNCHANGED <<scanVars, fileVars, harness, ring, last_method, pool, natives, stack_start, mapped,
                   goto, asked, executed, programs>>

----------------------------------------------------------------------------
(* The end of a program. *)

\* The stack is left to the next program.
ReleaseClasses ==
    /\ ring' = << >>
    /\ pool' = NoPool
    /\ UNCHANGED <<stack_start, mapped>>

\* Stack, classes, string pool.
free_vm ==
    /\ mapped' = mapped \ {stack_start} /\ stack_start' = 0
    /\ ring' = << >>
    /\ pool' = NoPool

\* Programs that are run by java() reach impdep1; tests ask for fewer
\* instructions than their program has.
impdep1 ==
    /\ harness = "java"
    /\ Dispatch
    /\ free_vm /\ Release
    /\ vm' = "none" /\ executed' = executed + 1
    /\ UNCHANGED <<harness, last_method, natives, instrs_until_terminate, goto, asked, programs>>

TearDown ==
    /\ vm = "stopped"
    /\ free_vm /\ Release
    /\ vm' = "none"
    /\ UNCHANGED <<harness, last_method, natives, instrs_counter,
                   instrs_until_terminate, goto, asked, executed, programs>>

\* Tests of the parser and of resolution free the class and keep the strings.
free_class ==
    /\ vm = "loaded" /\ harness = "parse only"
    /\ ring' = << >> /\ Release
    /\ vm' = "none"
    /\ UNCHANGED <<harness, last_method, pool, natives, stack_start, mapped,
                   instrs_counter, instrs_until_terminate, goto, asked, executed, programs>>

Ended ==
    /\ vm = "exited" \/ (vm = "none" /\ programs = MaxPrograms)
    /\ UNCHANGED vars

Next ==
    \/ \E name \in ClassNames :
          \/ \E who \in {"java", "fixture", "parse only"} : parse(name, who)
          \/ LoadsClass(name)
    \/ ParseStep \/ Loaded \/ Exits
    \/ \E n \in 1 .. MaxInstrs : Ask(n)
    \/ NoMain \/ run
    \/ Ordinary \/ Linked \/ Stop
    \/ \E k \in DOMAIN ring : InitializeClass(k)
    \/ impdep1 \/ TearDown \/ free_class
    \/ Ended

Spec == Init /\ [][Next]_vars

----------------------------------------------------------------------------
(* Correctness. *)

Phases == {"none", "loading", "loaded", "running", "resolving", "stopped", "exited"}

\* Every variable has its type; a class is under construction only while a
\* program loads one, and a program has one string pool.
TypeOK ==
    /\ scan \in {"idle", "scanning", "counted", "invalid", "overrun"}
    /\ signature \in Signatures /\ i \in Nat /\ nargs \in Nat
    /\ at \in {"idle", "start", "reading", "signature", "parsed", "exit", "unknown"}
    /\ pos \in Nat
    /\ \A k \in DOMAIN todo :
          todo[k].kind \in {"constant", "interfaces", "field", "method", "attribute"}
    /\ c_attr_to_set \in Elsewhere \cup Nat
    /\ last_method \in [class : Nat, method : Nat]
    /\ vm \in Phases
    /\ at # "idle" => vm \in {"loading", "resolving", "exited"}
    /\ at = "reading" => todo # << >>
    /\ \A k \in DOMAIN ring : ring[k].class.static_initialized \in BOOLEAN
    /\ pool.id \in 0 .. programs /\ natives \in 0 .. programs
    /\ goto \in {"NEXT", "AFTER"}
    /\ instrs_counter \in Nat /\ instrs_until_terminate \in Nat

Active == vm \in {"loaded", "running", "resolving", "stopped"}

\* All names that a running program compares by address come from the same
\* string pool: those of each of its classes, whichever program filled the pool
\* before, and those by which println is recognised.
NamesComparable ==
    /\ Active => \A k \in DOMAIN ring : ring[k].names = pool.id /\ pool.id # 0
    /\ vm \in {"running", "resolving"} => natives = pool.id

\* Between two programs no class and no block of the stack is left over, and
\* while one runs it is the only one with a stack.
NothingLeftOver ==
    /\ vm = "none" => ring = << >> /\ mapped = {} /\ stack_start = 0
    /\ vm \in {"running", "resolving", "stopped"} => mapped = {stack_start}

\* A test finds the machine after exactly the instructions it asked for, however
\* many of them were executed a second time behind a static constructor; and
\* what it asked for is not taken over by the next program.
StopsAfterAsked ==
    /\ vm = "stopped" => harness = "fixture" /\ executed = asked
    /\ vm = "running" /\ harness = "fixture" => executed <= asked

\* The words of the arguments of a method, counted.
CountedRight(d) ==
    d.signature \in Descriptors =>
        d.nargs = WordsBefore[d.signature][Count(d.signature) + 1]

\* Every Code attribute is one of a method.
CodeInMethods(c) ==
    \A x \in DOMAIN c.attributes :
        c.attributes[x].name = Code =>
            \E m \in DOMAIN c.methods : c.attributes[x].owner = <<"method", m>>

\* The classes parsed behind class k of the ring, with the one that is parsed.
Later(k) == {ring[j].class : j \in k + 1 .. Len(ring)} \cup {class}

\* A call of a linked class finds as many words as the descriptor says and the
\* code of its own, whatever is parsed behind it while it runs: the pointer that
\* the parser keeps into it is followed only by a class with code outside of its
\* methods, and then no method but the last one loses its code.
CallsFit ==
    \A k \in DOMAIN ring : LET c == ring[k].class IN
        \A m \in DOMAIN c.methods :
            /\ CountedRight(c.methods[m])
            /\ /\ CodePlaced(c)
               /\ m < Len(c.methods) \/ \A d \in Later(k) : CodeInMethods(d)
               => HasOwnCode(c, m)

============================================================================
