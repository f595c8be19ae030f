------------------------------ MODULE Program ------------------------------
(***************************************************************************)
(* The class files a run of limited_jvm is given, as the interpreter loop  *)
(* of core.c sees them once they are parsed: for each class its methods    *)
(* and its constant pool references, and the bytecode of all methods laid  *)
(* out in one address space.                                               *)
(*                                                                         *)
(* The virtual machine has no bytecode verifier: it relies on the compiler *)
(* (javac) for every fact in ProgramVerified, and so do the specifications *)
(* that extend this module.                                                *)
(***************************************************************************)
EXTENDS Integers, Sequences

CONSTANTS
    Classes,      \* the classes whose file load_class finds on the class path
    MainClass,    \* the class named on the command line
    MethodsOf,    \* class -> its methods, in the order of the class file
    PoolOf,       \* class -> the fieldref and methodref entries of its pool
    Fields,       \* the static fields of all classes
    FieldWords,   \* field -> words of its type; 0: a type core.c does not support
    Code,         \* address of an opcode -> the instruction there
    Owner,        \* address of an opcode -> <<class, index>> of its method
    Depth,        \* address of an opcode -> operand words there (javac's stack map)
    ImpdepPc,     \* address of impdep1_store, the opcode that ends run()
    StackWords,   \* words in the memory that allocate_stack maps
    Data          \* the words a computation can produce

Natives == {"no", "println", "unsupported"}

\* struct r_method_info with the part of Code_attribute that run() uses.
MethodInfo ==
    [name : {"main", "<clinit>", "other"}, nargs : Nat, ret : 0 .. 2,
     locals : Nat, code : Int, native : Natives]

\* A reference of the constant pool.  class \notin Classes: there is no such
\* class file.  member = 0: the class has no method or field of that name and
\* signature; otherwise the index of the method or the field itself.
RefInfo == [class : Int, member : Int]

Ops == {"const", "pop", "operate", "load", "store", "iinc", "branch",
        "getstatic", "putstatic", "invokestatic", "return", "not_sup"}

\* pops and pushes are the words the instruction takes and leaves; arg is a
\* local variable or a pool index; targets are where a branch can go.
Instruction ==
    [op : Ops, len : Nat, pops : Nat, pushes : Nat, arg : Int,
     targets : SUBSET Int, traps : BOOLEAN]

Addresses == DOMAIN Code

Methods == {<<k, i>> : k \in Classes, i \in Nat}
MethodAt(m) == MethodsOf[m[1]][m[2]]
IsMethod(k, i) == k \in Classes /\ i \in DOMAIN MethodsOf[k]

\* Both lookups walk the methods with a pointer that is left on the last
\* method when none matches.
FirstOrLast(k, name) ==
    LET named == {i \in DOMAIN MethodsOf[k] : MethodsOf[k][i].name = name}
    IN  IF named = {} THEN Len(MethodsOf[k])
        ELSE CHOOSE i \in named : \A j \in named : i <= j

Declares(k, name) == \E i \in DOMAIN MethodsOf[k] : MethodsOf[k][i].name = name

get_main_method == FirstOrLast(MainClass, "main")

\* 0 stands for NULL.  The string "<clinit>" is in the pool as soon as one of
\* the loaded classes declares a static constructor.
get_static_constructor(k, loaded) ==
    IF \A j \in loaded : ~ Declares(j, "<clinit>") THEN 0
    ELSE FirstOrLast(k, "<clinit>")

----------------------------------------------------------------------------
(* What the compiler guarantees. *)

ASSUME ProgramShape ==
    /\ Classes \subseteq Int
    /\ MainClass \in Classes
    /\ MethodsOf \in [Classes -> Seq(MethodInfo)]
    /\ \A k \in Classes : MethodsOf[k] # << >>
    /\ Code \in [Addresses -> Instruction]
    /\ Addresses \subseteq Int
    /\ ImpdepPc \in Int \ Addresses
    /\ StackWords \in Nat
    /\ Data \subseteq Int
    /\ FieldWords \in [Fields -> 0 .. 2]
    /\ Depth \in [Addresses -> Nat]

MethodVerified(k, i) ==
    LET m == MethodsOf[k][i]
    IN  /\ m.native = "no" => /\ m.nargs <= m.locals
                              /\ m.code \in Addresses
                              /\ Owner[m.code] = <<k, i>>
                              /\ Depth[m.code] = 0
        /\ m.native = "println" => m.ret = 0
        /\ m.name = "<clinit>" => m.native = "no" /\ m.nargs = 0 /\ m.ret = 0

\* Control can go from a to b, which is in the same method at the depth that
\* the instruction at a leaves.
FlowsTo(a, b) ==
    /\ b \in Addresses
    /\ Owner[b] = Owner[a]
    /\ Depth[b] = Depth[a] - Code[a].pops + Code[a].pushes

InstructionVerified(a) ==
    LET i == Code[a]
        m == MethodAt(Owner[a])
        ref == PoolOf[Owner[a][1]][i.arg]
    IN  /\ IsMethod(Owner[a][1], Owner[a][2])
        /\ m.native = "no"
        /\ i.pops <= Depth[a]
        /\ i.op \notin {"return", "branch", "not_sup"} => FlowsTo(a, a + i.len)
        /\ i.op = "const" => i.pops = 0
        /\ i.op = "pop" => i.pushes = 0
        /\ i.op = "load" => i.pops = 0 /\ i.arg \in 0 .. m.locals - i.pushes
        /\ i.op = "store" => i.pushes = 0 /\ i.arg \in 0 .. m.locals - i.pops
        /\ i.op = "iinc" => /\ i.pops = 0 /\ i.pushes = 0
                            /\ i.arg \in 0 .. m.locals - 1
        /\ i.op = "branch" => /\ i.pushes = 0
                              /\ \A t \in i.targets : FlowsTo(a, t)
        /\ i.op = "return" => i.pops = m.ret
        /\ i.op \in {"getstatic", "putstatic"} =>
              /\ i.len = 3
              /\ ref \in RefInfo
              /\ ref.class \in Classes /\ ref.member # 0 => ref.member \in Fields
              /\ ref.member \in Fields =>
                    IF i.op = "getstatic"
                    THEN i.pops = 0 /\ i.pushes = FieldWords[ref.member]
                    ELSE i.pushes = 0 /\ i.pops = FieldWords[ref.member]
        /\ i.op = "invokestatic" =>
              /\ i.len = 3
              /\ ref \in RefInfo
              /\ ref.class \in Classes /\ ref.member # 0 =>
                    /\ ref.member \in DOMAIN MethodsOf[ref.class]
                    /\ i.pops = MethodsOf[ref.class][ref.member].nargs
                    /\ i.pushes = MethodsOf[ref.class][ref.member].ret

ASSUME ProgramVerified ==
    /\ \A k \in Classes : \A i \in DOMAIN MethodsOf[k] : MethodVerified(k, i)
    /\ \A a \in Addresses : InstructionVerified(a)
    /\ Declares(MainClass, "main")
    /\ \A i \in DOMAIN MethodsOf[MainClass] :
          MethodsOf[MainClass][i].name = "main" =>
             MethodsOf[MainClass][i].native = "no" /\ MethodsOf[MainClass][i].ret = 0
    /\ MethodsOf[MainClass][get_main_method].locals + 4 <= StackWords

============================================================================
