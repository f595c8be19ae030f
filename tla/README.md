# Limited JVM in TLA+

Specifications of [limited_jvm](../src/README.md), a Java virtual machine in C
that interprets the static part of Java: classes with static methods and
fields, arithmetic, control flow, one-dimensional arrays and a native println.
Line numbers below refer to `src/src/`.

## 1. The system

One process runs one program. `java.c` parses the options and the main class
and calls `run_main`; `run()` of `core.c` then interprets until `main` has
returned. Everything happens in one thread, so nothing here is hard because of
concurrency. What is hard is that all components work on shared flat memory
without a check: nothing verifies the bytecode, no push is compared with the
end of the stack, and names are compared by address.

| component | state | operations | used by |
|---|---|---|---|
| interpreter loop (`core.c`) | `pc c cp frame optop localc`, the mapped stack, `static_initialized`, static fields | one label per opcode, `initialize_static`, `get_main_method`, `get_static_constructor`, `free_vm` | `java.c` |
| string pool (`string_pool.c`) | `hashtable` of buckets | `init_string_pool`, `add_string`, `find_string`, `free_string_pool` | parser, natives, interpreter |
| class file parser (`parser.c`) | the `ClassFile` being built | `parse`, `load_class`, `link_class`, `free_class`, `free_all_linked_classes` | `java.c`, resolution |
| resolution (`resolve.c`) | the tag bit `0x10` and the overlaid content of pool entries, the ring of classes | `resolve_class`, `resolve_methodref`, `resolve_fieldref`, `resolve_const` | interpreter |
| natives (`native.c`) | addresses of the names of println | `init_natives`, `call_native` | interpreter |
| signatures (`signature.c`) | none | `calculate_nargs` | parser |
| start and test mode (`java.c`, `testmode.c`) | instruction counters, saved registers | `java`, `run_main`, an early return from `run()` | the shell, tests |
| options, logging, opcode names | settings | none worth a model | all |

How they interact: the interpreter executes `getstatic`, `putstatic` or
`invokestatic`, asks resolution for the entry, resolution may ask the parser to
load a class, the parser puts every name into the string pool. The result is a
pointer to a class with a flag `static_initialized`; if it is not set, the
interpreter sets it, moves `pc` back to the opcode and enters the static
constructor, and the instruction is executed a second time.

What makes each correct:

- *Interpreter*: a method sees its own locals and operands only, returns find
  their caller, every constructor starts once and before any method of its
  class, a program without an endless loop stops.
- *Switches*: a value goes to its case, otherwise to the default; nothing
  outside the instruction's words is read; the search ends.
- *String pool*: for all strings in use, equal texts are equal addresses.
- *Resolution*: each class is loaded once, the ring holds all of them, an entry
  is replaced once and refers to what the class file says.
- *Parser*: a valid file becomes the class that was written, to the last byte;
  a method has the words of its own signature and its own code.
- *Computing instructions*: words are Java's ints and longs, whatever copies
  and exchanges they went through; no access leaves the block of an array.
- *Process*: a program does not meet strings, classes, stack or limits of the
  one that ran before it.

The hazards, each with its line and the properties aimed at it, are listed in
`PROJECT.json`.

## 2. Modules

| module | models |
|---|---|
| `Program` | the parsed class files as constants, `get_main_method`, `get_static_constructor`, and what javac guarantees (`ProgramVerified`) |
| `FrameMachine` | abstract: the interpreter as a stack of separate frames |
| `Interpreter` | `run()`: registers, the flat stack, one action per kind of instruction; refines `FrameMachine` |
| `InterpreterProofs` | its invariants, that it implements `FrameMachine`, and that operand stacks hold what the class file says, proved |
| `Switch`, `SwitchProofs` | the handlers of `tableswitch` and `lookupswitch`, a step per turn of the loop |
| `Interning` | abstract: a map from texts to addresses |
| `StringPool`, `StringPoolProofs` | `string_pool.c` with its callers, a step per node of a chain; refines `Interning` |
| `ClassLinker`, `ClassLinkerProofs` | `resolve.c`, `load_class`, the ring of classes and its release |
| `Words` | u1 .. u8, i1 .. i8, casts, division, shifts and bits |
| `JavaValues` | abstract: a stack of ints, longs and references, and arrays of integers |
| `Operations`, `OperationsProofs` | the computing instructions on words and blocks of bytes; refines `JavaValues` |
| `OperationsRefinement` | that refinement, proved |
| `Signature` | `calculate_nargs`, a step per character |
| `ClassFormat` | the class files: their bytes, and for valid ones the class described and the place of every part; extends `Signature` |
| `ClassFile` | `load_class` and `parse_file` byte by byte; extends `ClassFormat` |
| `Lifecycle` | programs one after the other in a process: `java`, `run`, test mode, `free_vm`; extends `ClassFile` |
| `LifecycleProofs` | the invariants of a scan, the parser, the process and the classes it makes, proved |
| `ParserProofs` | that a valid file becomes the class it describes, proved |
| `MC...` | the instances that TLC checks |

A definition named like `LinkWordsSwapped` or `ReleaseEqual`, directly in front
of `LinkWords` or `Release`, is a plausible defect of the code. The
specifications do not use these; each is paired in `PROJECT.json` with the
property that TLC finds violated when it takes the place of the definition
behind it.

### Interpreter

The memory `mem` is the block of `allocate_stack`, one integer per 4-byte word,
numbered from 1; `frame` and `optop` are word numbers, `pc` is the address of
the opcode that is executed next (the code has stepped behind it when a label
is reached, so `pc -= 3` is `Again`). The four words behind the locals of a
frame hold the caller's `localc`, `frame`, `pc` and `c` (`LinkWords`), and
`Return` reads them back from there. `pc` and the words of saved code addresses
are integers like data, so a wrong base or order is a wrong value, not a type
error. Opcodes with the same effect on registers are one action: `Constant`
(consts, ldc), `Load`, `Store`, `Pop`, `iinc`, `Branch` (if, goto, switches),
`Return`, and `Operate` (dup to xor, comparisons, conversions, arrays), which
leaves arbitrary words from `Data` and may trap. Numbers of words popped and pushed
come with the instruction. `acts` and `inits` are history: the calls that were
made and the constructors that were started. No action reads them for what it
does to the program's own variables.

Resolution is one step here (`ResolveFails` or part of the instruction); its
inner steps are `ClassLinker`. The switch target is any of the targets here;
which one is `Switch`.

A push or a call beyond the end of the stack is undefined in C. The model ends
such a run in `"undefined"`, after which nothing is claimed, and
`FrameMachine` allows that only in a step for which there is really no room.

### Switch

Operands are words of the class file, read at addresses the handler aligns by
the address in `pc`. The class file aligns by the offset in the method: the two
agree because `malloc` returns aligned addresses (`CodeBase % 4 = 0`).

### StringPool

A chain of buckets is the sequence of its `str` pointers. `text` says what
`strcmp` reads at an address; memory that is not allocated reads as `Freed`.
`held` is a history of the addresses handed out to constant pools, classes and
native.c. Callers are modelled with what they do with the answer, since
`parse_constant` may release its buffer. Hashing is a constant map to buckets.

### ClassLinker

A cell is an address of a `struct ClassFile`. A pool entry is a record with the
fields of its layout, unresolved or resolved; reading `name_index` of a resolved
entry gives no name. A resolution is split before, in and after each turn of
the walk around the ring. Which entry is resolved next is up to the program:
any entry of any class that can run. `LinkerAssumption` says that a file holds
the class of its name and that the indices of an entry lead to entries of the
right kind, as javac's do; the code compares names in the ring with the name in
the file, and a file that holds another class would be loaded at every use.

### Operations

What `Operate` of `Interpreter` leaves open: `mem` holds the words of the operand
stack from its bottom, `optop` is the number of the word on top. A C expression
is written with the casts it has: `S(Four, w)` is `(i4) w`, `Read(Eight, p)` is
`*(u8 *) p`, and storing is `Write`, which cuts to the width. The words above
`optop` keep what was there, and `Dup` copies word by word in the order of the
code. An array is a length and a sequence of bytes; its address is a word.

Nothing in the code says what a word is. `tags` is a history of what Java's type
checker knows, and an instruction is taken only where that checker allows it.
The refinement reads the words under `tags`: `JavaValues` has no words, no bytes
and no widths of operands, and every instruction there is Java's. One thing
`JavaValues` takes from the code: an element of an array is as wide as `Width`
says and not negative below the width of an int. That is what the code promises
itself; where it differs from Java is the run `array_elements`.

A byte has two bits in the run, so a word has eight and a long sixteen. The
masks 0x1f and 0x3f of the shifts become the numbers of bits (`Distance`), which
is why the bits of a byte are a power of two (`ByteAssumption`), as 8 is: a number
of positions is a mask only then, and only then do a word and the signed number
it stands for give the same distance.
Overflow of signed arithmetic wraps around, as in the build, except for the one
division for which the processor traps; it may do either.

### Signature, ClassFormat, ClassFile and Lifecycle

`Signature` is one call of `calculate_nargs`; an action is a turn of its loop.
`Text` gives the characters of a signature, and `Descriptors`, `Dims`, `Base`,
`StartOf` and `WordsBefore` say, for those that follow the grammar of class
files, what they consist of (`SignatureAssumption`), which the code never sees.

`ClassFile` reads `stream` from `pos`. Calls that nest are frames of `todo`: the
tables of the class, an item, its attributes, the attributes of a Code
attribute. An action reads one item; what `fread` leaves in memory is swapped
by `read_e` as on the little-endian machine the README of the program asks for.
The three static variables of the parser are variables here:
`second_double_or_long_part`, `c_attr_to_set` and `little_endian`. When the
class is delivered, a pointer to one of its methods becomes `Stale`, and
`Dangling` when the classes are freed. `at` becomes `"exit"` where the code ends
the process, and `"unknown"` where it goes on with memory that nobody wrote or
that was freed: behind the end of the file, after an index that leads to no
string, or when code is stored through the pointer after its class was freed.
Nothing is claimed after that. A part that is not supported is skipped by its
length as it stands in the file (`SkipAttribute`): `fseek` takes a `long`, which
is wide enough on the 64-bit machines the program is built for; with 32 bits a
length of 2^31 or more would go backwards. A pointer to a pooled string is
the text itself, which `StringPool` justifies.

`ClassFormat` is what the parser relies on and never sees: the format in which the
compiler writes. `Content` has the bytes of every file. For a valid one `Written`
is the class it describes and `Places` the position of each constant, field,
method and attribute; `WrittenAssumption` relates the three, part by part: an
item lies where the one before it ends, its numbers are `Number(f, p, n)`, highest
byte first, a table has as many attributes as its count says, the length of an
attribute is that of its contents, and a Code attribute is followed by those in
it. It says nothing of what the parser does, and it allows any number of
constants, members and attributes, and any bytes in parts that are skipped.
TLC evaluates it on the files of the run, whose bytes `MCLifecycle` produces with
an encoder of its own.

`ParsedAsWritten` has an exception, `Carried`. `second_double_or_long_part` is
static and never reset. A file whose pool ends with the first entry of a long or a
double (the file `half` of the run) leaves it set; the first constant of the next
class, however valid, is then taken for a second entry, without a byte being read,
and everything behind it is misread. The property excludes exactly the classes
that met the flag, and it includes that a valid file never leaves it set, so that only
a damaged file spoils the next one. No compiler writes such a file, but the parser
accepts it without a message.

`Lifecycle` is the process. `parse` starts a program as `java()`, as a fixture
that stops `run` after a number of instructions (`Ask`), or as the tests of the
parser and of resolution, which release the class and not the strings.
`ParseStep` is a step of `ClassFile` with the strings it adds. An instruction
is `Ordinary`, starts a static constructor (`InitializeClass`), or loads a class in
its middle (`LoadsClass`, `Linked`); which of them comes next is `Interpreter`'s
business and arbitrary here. While a class is loaded, `c_attr_to_set` points to
the last method of a class of the ring (`last_method`): a Code attribute of a
field of the new class, or of the class itself when it has no methods, replaces
the code of that method (`SetsOld`, `Overwritten`, parser.c:178), and the program
goes on. `impdep1` is taken by programs that `java()` runs. The code asks for
nothing there; that a fixture asks for fewer instructions than its program has, as
all fixtures of the tests do, is an assumption: otherwise `run()` would free what
the fixture frees again. `goto` says which of the macros `NEXT` and
`NEXT_AFTER_INITIALIZE_STATIC` leads to the next instruction. A pool has a
number, so that `names`, `natives` and `pool.id` say whether two names come
from the same one. `asked`, `executed` and `programs` are history.

## 3. What the runs show

| run | states | shows |
|---|---|---|
| `interp_frames` | 3287 | the flat stack implements separate frames; constructors start once; saved registers stay intact; the run ends |
| `interp_natives` | 167 | with println's leftovers no saved register is ever used as an operand and main still ends |
| `native_operands` | violation | the operand stack is not empty where core.c:198 says so |
| `constructors` | violation | the last method of a class without constructor is run as one |
| `switches` | 8980 | the search stays in the table and ends; no value reaches another's case |
| `lookup_misses` | violation | a value in the table of `lookupswitch` goes to the default |
| `table_bounds` | violation | the first and the last case of `tableswitch` go to the default |
| `string_pool` | 51938 | equal texts are equal addresses; the table is a map |
| `class_linker` | 247438 | one ring, one structure per class, right bindings, release of each class once |
| `operations` | 122267 | the words of computing instructions are Java's values; references stay references; no access leaves a block |
| `array_elements` | violation | a negative byte or short is read back as a positive number |
| `programs` | 201020 | valid files are parsed as written, signatures counted, a linked method keeps its own code whatever is loaded while it runs, with the one exception of `CallsFit`, and a program meets nothing of the one before |

Bounds, and why they are enough:

- *Interpreter*: the program is fixed per run and the stack is 28 (or 22) words.
  `MCFrames` has three classes whose constructors use each other's fields and
  methods, one- and two-word arguments and results, a recursion that fills the
  stack, a trap, an unsupported instruction, a field of unsupported type, a
  missing class and a missing member, so every action and every disjunct
  fires. Two data words tell positions apart. The stack depth needed to show
  an overlap is a callee with a caller with a caller, which fits.
- *Switch*: keys 0 to 5 in every subset of at most five, values from below to
  above, and all four alignments: both parities and both outcomes of every
  comparison at three levels of the search.
- *StringPool*: three heap strings, two literals, a chain of up to three texts
  and another bucket: hits and misses at the first, a middle and the last node.
  The pool is also dropped and set up again within a behaviour, as the tests do
  when they run several programs in one process.
- *ClassLinker*: four classes, so links behind the first, a middle and the last
  class of the ring, in every order of resolution.
- *Operations*: words of eight bits with both signs, zero, both ends of the range
  and patterns that tell bytes apart, for ints and for longs; a full set of
  operands for every instruction, and for arrays every sequence of up to three
  of creating, storing, loading, measuring and setting the index, with two
  elements at most. An instruction depends on no more than its operands, so
  longer sequences (`Budget`) only repeat; arrays are where state builds up.
- *Lifecycle*: two programs, so everything that can be left over from one to
  the next is, and three classes in each (`MaxClasses`): one that runs, one that
  is loaded behind it, and one whose parser follows the pointer into the second
  or, when the second has no methods, still into the first. Class F has code on a
  field, K has code of the class and no methods. Class A has every kind of constant,
  wide ones in the middle of the pool, a field with ConstantValue behind
  another attribute, a native method, and one whose code lies between other
  attributes and has an exception table and an attribute of its own; B ends its
  pool with a long, has no field, every kind of parameter, a last method without
  code, and is found in the second directory. The damaged files have a wrong magic
  number, a wrong tag, half of a long, a name that is no string, a
  signature that is none, and so on, so that every error path is taken. A byte
  has 32 values in the run (`ByteValues`), as many as the numbers of the files
  need.

Deadlock is checked in every run. States in which the process has ended
stutter; `StringPool` never ends.

Fairness. There is one thread and no blocking call, so the only assumption is
that it goes on: `WF_vars(Step)` for the interpreter and for a switch,
`WF_vars(Working)` and `WF_vars(Busy)` for a call that has begun in the string
pool and in resolution. That a program makes another call is not assumed.
`Termination` and `RunsToTheEnd` therefore are about programs whose branches
go forward.

## 4. What is proved

The modules named `...Proofs` and `OperationsRefinement` hold machine-checked
proofs for all values of the constants that satisfy the named assumptions.

- `Typing`, `Linkage`, `OperandsSuffice`, `ConstructorsOnce`: `TypeOK`,
  `FramesLinked`, `StackMapCovered` and `ConstructorOnce` hold as long as
  `StartedFit` does, in every program that javac's guarantees (`ProgramShape`,
  `ProgramVerified`) describe, whatever its size and however deep it calls.
  - `StartedFit`: every method that was started as a static constructor so far has
    code and takes no argument. Every `<clinit>` is such a method. But in a class
    without one, once a class with one was loaded, `initialize_static` starts the
    last method, whatever that is (run `constructors`); if it takes arguments,
    its frame begins that many words below the top, which are operands of the
    caller if it has as many and its saved registers if not. Neither the code nor
    javac rules that out. So the condition is one on the behaviour, not on the
    program: the theorems say what holds up to the first such start, and nothing
    from then on.
  - That a method started by mistake returns a value does no harm to these four:
    it leaves a word too many, which `StackMapCovered` permits and
    `StackMapExact` does not.
  - `FramesLinked` is not inductive: a return needs to know that the operands
    of the frame below are where the callee's frame began. The invariant `IInv`
    adds `MethodsKnown`, `FramesOrdered` (frames in the order of calls),
    `TopFits` and `StackMapCovered`: what a method finds on the operand stack
    is at least what its class file counts on. With "exactly" the induction
    fails, at println; "at least" is what the code keeps and is enough,
    because a frame begins at the top of the caller's operands.
  - Each action is reduced to one of a few shapes: an instruction that stays in
    its frame (`StepInFrame`), words on the operand stack (`OperandsStep`), words
    in the locals (`LocalsStep`), a call (`EnterStep`), a return. The lemmas on
    `Read` and `Write` carry the memory.
  - The invariant is `StartedFit => Inductive`. Constructors are only ever counted
    up (`Counted`), so what is fit after a step was fit before (`StartedBefore`),
    and the step started nothing else (`StartsFit`), which is what each lemma
    about a step needs. Programs of which that is known before they run, because
    no class declares a constructor or all methods the lookup returns fit
    (`InitializersFit`), are those of the next two theorems.
- `SeparateFrames`: `ImplementsFrameMachine` for every stack size and every program
  that calls no println (`NoPrintln`) and whose classes all declare a static
  constructor, or none does (`ConstructorsEverywhere`). Neither assumption can be
  dropped: println leaves its operand (run `native_operands`), and a missed
  lookup starts another method and keeps its result (run `constructors`).
  - The mapping `FrameAt` reads the frame of each active method out of the memory:
    the locals at the frame, the operands behind the four saved words, up to the
    top of the stack or to the frame above.
  - The invariant `RefInv` is `Inductive` and that the first frame begins with the
    memory (`Grounded`). Then the words of all frames add up to `optop`
    (`WordsUsedIs`), and the step in which the code runs beyond the memory is one
    in which the abstract machine has no room.
  - An instruction changes the innermost frame (`OperandsRefined`,
    `LocalsRefined`). A call cuts it in two: the words of the arguments stop being
    operands of the caller and become locals of the callee without being moved
    (`CalledFrames`). A return joins the result to the frame below
    (`CallerRefined`). Every other frame keeps its words, because nothing is
    written below the innermost one (`FrameKept`).
- `OperandsExactly`: `StackMapExact` under the same two assumptions. `Exact`, the
  equation between the words on an operand stack, the result that is still to
  come and the depth in the class file, is inductive together with `Inductive`:
  a call takes the arguments at once and owes the result, and the return pays it.
  Without the assumptions only "at least" is true (`OperandsSuffice`).
- `SearchStaysInside`, `NoWrongCase`, `PoppedOnce`: for switches of any length, values of any
  size and code at any aligned address. The invariant says that `low` and
  `high` stay within the pairs while `middle - 1` may leave them apart.
- `AddressesDecide`, `StoredUnderOneNode`, `BuffersLast`, `MapOfTexts`: for every hash function,
  number of buckets and strings. The invariant `PoolInv` adds that everything
  held is in the table, that the walk has compared each node behind it, and
  that the literals keep their text. `MapOfTexts` is the safety part of the
  refinement of `Interning`.
- `OneRing`, `LoadedOnce`, `BoundRight`, `IndicesRead`, `ClassesFreedOnce`,
  `LinkerTypes`: every invariant of `ClassLinker`, for any class files with sound
  indices and any number of classes. That the next pointers form one ring is said
  without counting: they lead from loaded classes to loaded classes, never from
  two to the same one, and no set of loaded classes is closed under them except
  all of them. `LinkerInv` adds what each place of the code knows. In a search,
  there is a set of classes met so far, none of which has the wanted name and of
  which only the last leads out of the set; when the last leads back to the
  first, the set is closed, hence the whole ring, and the class that is then
  loaded is new. In the release, the same argument runs on the chain that is
  left between the class to be freed and the main class.
- `WordsCounted`: `NargsRight` for every set of signatures, of any length and with
  any names. The invariant `ScanInv` (which TLC also evaluates on request) says
  that the scan stands in front of a parameter with the words before it, or
  inside one with its words too and the two flags as its position says. That a
  count fits a u1 is `SignatureAssumption`'s limit on descriptors, Java's own.

- `WordsAlwaysTyped`, `ReferencesAlwaysRight`, `BlocksAlwaysFit`,
  `OnlyDivisionUndefined`: every invariant of `Operations`, for bytes of any power
  of two bits, any depth of the stack and any number and length of arrays.
  - The shape of an operand stack (`low` and `high` side by side, so that no copy
    takes a long apart) is part of `TypeOK`; it is what makes the dup forms safe.
  - A block fits when the length times `Width` is its number of bytes and the type
    of a reference is the type the array was made with. `Apart` says that the bytes
    of two elements do not meet, and `StoredIsLoaded` that what a store leaves
    is what a load reads, with every other element untouched.
  - `UndefinedOnlyInDivision` needs that a negative index, taken for an unsigned
    number, is behind the end of every array: `HeapBytes` is less than half of the
    values of a word (`OperationsAssumption`).
- `OperationsAreJava`: `ImplementsJavaValues`, instruction by instruction, from the
  same invariant and no other assumption. The mapping reads the words from the
  bottom (`ValuesIn`, a recursive function), and every instruction works at the top.
  - `ValuesSplit` says that the values of a stack that is cut at a boundary are those
    of its parts, each read on its own. With it a step is a matter of the words it
    asked for and the words it leaves (`StackExchange`): what lies below has the
    same values before and after.
  - `S(k, v)` is the one number of its range that differs from v by a multiple of
    `Values(k)` (`CastCongruent`). Casts of sums, differences and products to k
    bytes, and a cast to fewer bytes after one to more (`CastBelow`), follow from
    that. The bitwise instructions need no more: both sides combine the same bits.
  - Division towards zero is that of the magnitudes (`DivisionSame`), with the one
    quotient that may go either way; a shift to the left drops the bits that the
    code never keeps (`ShiftSame`), and its distance is the word cut to the bits
    that count, for a word with a sign as for one without (`DistanceSame`).
  - Each form of dup, with its moves of words in the order of the code, leaves the
    words of top, middle, top; where no boundary cuts a long these are whole
    values, whose sizes add up (`DupValues`, `SizesSum`).
  - An array is compared element by element: `StoredIsLoaded` for the one that is
    stored, and for all others that their bytes were not touched
    (`ArraysStored`); calloc's zeros are the elements of a new array. The check of
    an unsigned index against the length is Java's of the signed one, because no
    length reaches the negative half (`NoElementSame`).
- `NamesFromOnePool`, `ReleasedBetween`, `StoppedInTime`: what one program leaves to
  the next, for any number of programs, classes and instructions and for any class
  files, sound or damaged. `LifeInv` ties the phase of the process to the parser,
  the string pool, the ring, the stack and the two counters. The step that matters
  for `StopsAfterAsked` is the one in front of a static constructor: the
  instruction is counted when it is left and not when it is executed again, so
  with `goto = "AFTER"` the counter is one ahead of the instructions executed.
- `EverythingTyped`, `AllWordsCounted`, `OwnCodeFound`, `EveryCallFits`: about the
  parser, for any bytes. `FileInv` says what each call under way knows: only calls
  for attributes are nested (`Shaped`), and an attribute of method m is read only
  while m is the last method and `c_attr_to_set` points to it (`OwnersOK`).
  `CodePlaced` is all that `OwnCodeFound` asks of a file: code belongs to a method
  and a method has one. `ScanInv` is a part of `FileInv`: a scan is part of the
  parse, and its result is stored in the method it was made for.
  - `EveryCallFits` is about classes that are linked, while others are parsed. Until
    the new class has a method, the variable points into an older one, and is
    followed there if the new class has code on a field, or of its own and no
    methods. So the theorem has that exception and bounds it: the words of a
    descriptor are never lost, nor is the code of any method but the last of its
    class, and that only when a class parsed behind it has such code.
  - `TargetOK` says of the variable that it is `Elsewhere` exactly while the class
    that is parsed has no methods, and `PointerOK` that what it then points to is
    the last method of a class of the ring. With `CodeKept`, which says of each
    class of the ring whether its last method may have lost its code, these carry
    what the parser promises through every later parse (`RingInv`). Nothing is
    promised of freed classes: the pointer is `Dangling` then, and a store through
    it ends the model.
- `ParsedRight`: `ParsedAsWritten` for any valid files among any others. A valid file is
  parsed to its last byte, no error path is taken, nothing undefined is read, and
  pool, head, interfaces, fields, methods with their words and their code, and all
  attributes are those the file describes. The assumptions are those of
  `ClassFormat`.
  - `ReadIsNumber`: `fread` into memory, read as a little-endian number and swapped, is
    the number in the file. A number is a sequence of digits (`Digits`), and taking
    the digits off one end and adding them at the other (`NextDigit`,
    `SwappedBytes`) reverses them. Several numbers read in a row are each the
    number at their place (`Rows`), and two halves of a long, stored in
    exchanged order, are the one of eight bytes (`Halves`).
  - The invariant `ParseInv` says where the parser stands: at the beginning
    (`Begun`), before constant n (`ConstantsAhead`), the interfaces, field k or
    method k (`FieldsAhead`, `MethodsAhead`), in the scan of a signature
    (`InSignature`), among the attributes of a field, of a method or of the class,
    or at the end (`Done`). For each it says what of the class was read, where in
    the file the rest is, and which calls are under way. `ParsedAsWritten` follows
    at the end only; without the places in between it is not inductive.
  - Attributes nest, so a place among them is a number x, the attributes read so far
    in the order of the file: in the table of an owner (`InOuter`), or in the
    code y of that table with n left in it (`InCode`). `GoodTable` is what the three
    kinds of tables have in common, and `TableStep` is proved once for all: an
    attribute is read (`PlainStep`, `CodeStep`), code is left, or the table is.
  - A step goes from each place to the next (`ProgressStep`), and the error paths
    are ruled out there: a tag is known, a name is a string, a signature ends
    regularly, no read passes the end of the file.

Some assumptions were found by the proofs and are in the modules now: a program
pushes no constant above the depth its class file declares (`ConstantWords` is at
most `StackWords`), the texts "Code" and "ConstantValue" are different, and the
bits of a byte are a power of two.

Induction over a number is done with sets: a set of numbers that is not empty has
a least element (`LeastNumber`, from the well-foundedness of `<`). Recursive
functions are unfolded from a proof that one exists. What stays with TLC:

- liveness (`Termination`, `RunsToTheEnd`, `Decided`, `WorkEnds`, the fairness of
  `Interning`), which the prover cannot do;
- the violations: a run shows what the code does on one program, and needs no more;
- that the constants of a run are possible ones: the assumptions are evaluated on
  the instances.

Every invariant that a passing run checks is proved, under the conditions named
with it above, and so is the safety part of each of the three refinements.

## 5. Not modelled

- Floating point: `float` and `double` are two kinds of word and of two words in
  `Interpreter`, and their arithmetic, comparisons and conversions leave any
  words. TLC cannot evaluate them, and C leaves much of them to the machine.
  Reading the code shows that `x == NAN` never holds (core.c:1037 and three
  more), so a conversion of NaN gives what the C cast gives, and that `drem` by
  zero writes a float over one word of the double (core.c:930).
- What println writes; options, logging and opcode names.
- Big-endian machines: `little_endian` is 1 from the start and never cleared.
- Memory of the parser: a buffer for a path (parser.c:485), a failed `malloc`,
  files that are never closed, and the buffers of strings that were in the
  pool already, which are never released (parser.c:135: the comparison tells
  texts apart and they are equal). None of them changes what a program does before
  memory or descriptors run out.
- What the code does with memory that nobody wrote: models end there.

## 6. Plan

The order was: the interpreter with its abstract machine, since every program
depends on it; then what it leaves open, from the most to the least used
(switches, strings, classes); then the values of instructions, the parser with
signatures, and the process around all of them. What would come next:

1. The composition of `Interpreter` with `Operations`, with values instead of
   arbitrary words.
2. The ring of `ClassLinker` in place of the set of classes of `Lifecycle`, so that
   a class parsed as written is the one that entries are bound to.
