---------------------------- MODULE StringPool ----------------------------
(***************************************************************************)
(* string_pool.c, called the way parser.c, native.c and core.c call it.    *)
(*                                                                         *)
(* The table is an array of buckets; a bucket whose str is NULL is free,   *)
(* and buckets of the same index are linked into a chain.  Strings belong  *)
(* to the callers: add_string keeps the address it is given, which is a    *)
(* literal or memory from malloc.  Everywhere else in the virtual machine  *)
(* two names are compared by comparing their addresses.                    *)
(*                                                                         *)
(* An action is a call, an iteration of the loop over a chain, or the code *)
(* between the answer and the next call.                                   *)
(***************************************************************************)
EXTENDS Integers, Sequences

CONSTANTS
    Texts,        \* the byte sequences that occur in strings
    Heap,         \* addresses malloc can return; bounds the strings parsed
    Literals,     \* addresses of string literals of the program
    LiteralText,  \* literal -> its text
    NrBuckets,    \* nr_string_buckets
    BucketOf,     \* text -> hash(text) % nr_string_buckets
    Null,
    Freed         \* stands for the content of memory that is not allocated

Addresses == Heap \cup Literals
Buckets == 0 .. NrBuckets - 1

ASSUME PoolAssumption ==
    /\ NrBuckets \in Nat \ {0}
    /\ BucketOf \in [Texts -> Buckets]
    /\ LiteralText \in [Literals -> Texts]
    /\ Heap \cap Literals = {}
    /\ Null \notin Addresses
    /\ Freed \notin Texts

VARIABLES
    allocated,  \* hashtable # NULL
    hashtable,  \* bucket -> the str of its chain, in order; empty: free
    text,       \* address -> what strcmp reads there
    call,       \* the call under way: who called, the string, the node reached
    reply,      \* the answer to the last call
    held        \* history: the addresses constant pools, classes and natives keep

vars == <<allocated, hashtable, text, call, reply, held>>

Idle == [caller |-> "none", str |-> Null, node |-> 0]

\* Utf8: parse_constant, name: the end of parse_file, natives: init_natives,
\* lookup: get_main_method and get_static_constructor.
Adders == {"Utf8", "name", "natives"}
Callers == Adders \cup {"lookup"}

EmptyTable == [b \in Buckets |-> << >>]

BucketAt(a) == BucketOf[text[a]]
Chain == hashtable[BucketAt(call.str)]
AtNode == Chain[call.node]

Init ==
    /\ allocated = FALSE
    /\ hashtable = EmptyTable
    /\ text = [a \in Addresses |-> IF a \in Literals THEN LiteralText[a] ELSE Freed]
    /\ call = Idle
    /\ reply = Null
    /\ held = {}

\* Called by parse_file for every class; only the first call does something.
init_string_pool ==
    /\ call = Idle
    /\ ~ allocated
    /\ allocated' = TRUE
    /\ hashtable' = EmptyTable
    /\ UNCHANGED <<text, call, reply, held>>

----------------------------------------------------------------------------
(* The calls. *)

Begin(caller, a) ==
    /\ call = Idle
    /\ allocated
    /\ call' = [caller |-> caller, str |-> a, node |-> 1]
    /\ reply' = Null
    /\ UNCHANGED <<allocated, hashtable, held>>

\* A CONSTANT_Utf8 is read into memory of its own.
parse_constant(a, t) ==
    /\ text[a] = Freed
    /\ text' = [text EXCEPT ![a] = t]
    /\ Begin("Utf8", a)

\* The name of a class is the str of one of its constants.
parse_file(a) == Begin("name", a) /\ UNCHANGED text

init_natives(a) == Begin("natives", a) /\ UNCHANGED text

find_string(a) == Begin("lookup", a) /\ UNCHANGED text

----------------------------------------------------------------------------
(* The loop over the chain. *)

\* parse_constant frees its buffer when the answer has another text.
ReleaseEqual(r) ==
    text' = IF call.caller = "Utf8" /\ text[call.str] = text[r]
            THEN [text EXCEPT ![call.str] = Freed] ELSE text

Release(r) ==
    text' = IF call.caller = "Utf8" /\ text[call.str] # text[r]
            THEN [text EXCEPT ![call.str] = Freed] ELSE text

Return(r) ==
    /\ call' = Idle
    /\ reply' = r
    /\ Release(r)
    /\ held' = held \cup ({r} \ {Null})
    /\ UNCHANGED allocated

Adding == call.caller \in Adders
Finding == call.caller = "lookup"

SamePointer == AtNode = call.str
SameText == text[AtNode] = text[call.str]

Reached == Chain # << >>

Found ==
    /\ call # Idle /\ Reached /\ SameText
    /\ Return(AtNode)
    /\ UNCHANGED hashtable

Advance ==
    /\ call # Idle /\ Reached /\ ~ SameText
    /\ call.node < Len(Chain)
    /\ call' = [call EXCEPT !.node = @ + 1]
    /\ UNCHANGED <<allocated, hashtable, text, reply, held>>

AtEnd == call # Idle /\ (Reached => ~ SameText /\ call.node = Len(Chain))

\* The free bucket is used, or a new one is linked behind the last.
StoreReplacing ==
    /\ AtEnd /\ Adding
    /\ hashtable' = [hashtable EXCEPT ![BucketAt(call.str)] = <<call.str>>]
    /\ Return(call.str)

Store ==
    /\ AtEnd /\ Adding
    /\ hashtable' = [hashtable EXCEPT ![BucketAt(call.str)] = Append(@, call.str)]
    /\ Return(call.str)

NotFound ==
    /\ AtEnd /\ Finding
    /\ Return(Null)
    /\ UNCHANGED hashtable

\* free_vm has freed the constant pools and the classes before; the strings
\* themselves stay allocated.
free_string_pool ==
    /\ call = Idle
    /\ allocated
    /\ allocated' = FALSE
    /\ hashtable' = EmptyTable
    /\ held' = {}
    /\ UNCHANGED <<text, call, reply>>

Working == Found \/ Advance \/ Store \/ NotFound

Next ==
    \/ init_string_pool
    \/ \E a \in Heap, t \in Texts : parse_constant(a, t)
    \/ \E a \in held : parse_file(a)
    \/ \E a \in Literals : init_natives(a) \/ find_string(a)
    \/ Working
    \/ free_string_pool

Spec == Init /\ [][Next]_vars

\* Nothing interrupts a call; there need be no next one.
FairSpec == Spec /\ WF_vars(Working)

----------------------------------------------------------------------------
(* Correctness. *)

\* Every variable has its type; between two calls nothing is under way, and
\* during one the string asked about is allocated.
TypeOK ==
    /\ allocated \in BOOLEAN
    /\ hashtable \in [Buckets -> Seq(Addresses)]
    /\ text \in [Addresses -> Texts \cup {Freed}]
    /\ call = Idle \/ /\ call \in [caller : Callers, str : Addresses, node : Nat \ {0}]
                      /\ text[call.str] # Freed
    /\ reply \in Addresses \cup {Null}
    /\ held \subseteq Addresses

Pooled == {a \in Addresses : \E b \in Buckets : \E i \in DOMAIN hashtable[b] :
                                hashtable[b][i] = a}

\* Resolving a method or a field, recognising println, main and <clinit> and
\* telling classes apart all compare addresses: among the strings the virtual
\* machine keeps, that decides whether the texts are equal, and none of them
\* was released behind its back.
PointersDecide ==
    /\ \A a \in held : text[a] # Freed
    /\ \A a, b \in held : text[a] = text[b] => a = b

\* No text is stored twice, each in the bucket where it will be looked for.
OneNodePerText ==
    \A b \in Buckets : \A i \in DOMAIN hashtable[b] :
        /\ text[hashtable[b][i]] # Freed
        /\ BucketAt(hashtable[b][i]) = b
        /\ \A j \in DOMAIN hashtable[b] :
              text[hashtable[b][i]] = text[hashtable[b][j]] => i = j

\* The loop has compared every node it has left behind.
SearchedBehind ==
    call # Idle =>
        /\ Chain = << >> \/ call.node \in DOMAIN Chain
        /\ \A i \in 1 .. call.node - 1 : text[Chain[i]] # text[call.str]

LiteralsStand == \A a \in Literals : text[a] = LiteralText[a]

PoolInv ==
    /\ TypeOK
    /\ LiteralsStand
    /\ held \subseteq Pooled
    /\ OneNodePerText
    /\ SearchedBehind
    /\ call # Idle => allocated
    /\ ~ allocated => hashtable = EmptyTable

\* The table and the walk along its chains are a map from texts to addresses
\* that answers each call at once.
Standing(t) == {a \in Pooled : text[a] = t}

Representative ==
    [t \in Texts |-> IF Standing(t) = {} THEN Null ELSE CHOOSE a \in Standing(t) : TRUE]

Asked ==
    IF call = Idle THEN [op |-> "none"]
    ELSE [op |-> IF Adding THEN "add" ELSE "find",
          str |-> call.str, text |-> text[call.str]]

Pool == INSTANCE Interning
           WITH pool <- Representative, asked <- Asked, answer <- reply

ImplementsInterning == Pool!Spec

============================================================================
