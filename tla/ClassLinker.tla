---------------------------- MODULE ClassLinker ----------------------------
(***************************************************************************)
(* resolve.c with load_class, link_class and free_all_linked_classes of    *)
(* parser.c: the classes that are loaded, linked into a ring through their *)
(* next pointers, and the entries of their constant pools, which are       *)
(* replaced by direct references when an instruction first uses them.      *)
(*                                                                         *)
(* A resolved entry overlays the indices of the unresolved one, so nothing *)
(* may be resolved twice.  An action is the part of a resolution before,   *)
(* in and after one iteration of the loop over the ring.                   *)
(***************************************************************************)
EXTENDS Integers, Sequences

CONSTANTS
    Names,      \* the classes, named by integers, for which there is a file
    Main,       \* the class on the command line
    FileOf,     \* name -> the constant pool in its file
    MembersOf,  \* name -> tag of a reference -> the fields or methods declared
    Cells,      \* addresses malloc can return for a struct ClassFile
    MainCell,   \* the address of the main class
    None

Refs == {"Fieldref", "Methodref"}

\* The entries of a constant pool as the parser leaves them.
Unresolved ==
    [tag : {"Class"}, resolved : {FALSE}, name : Int]
    \cup [tag : Refs, resolved : {FALSE}, class : Nat, sig : Nat]
    \cup [tag : {"NameAndType"}, resolved : {FALSE}, member : Int]
    \cup [tag : {"String"}, resolved : {FALSE}]

\* A class file has the name it is loaded under, and the indices in its
\* constant pool lead to entries of the right kind.
ASSUME LinkerAssumption ==
    /\ Main \in Names
    /\ MainCell \in Cells
    /\ Names \subseteq Int
    /\ None \notin Cells \cup Names
    /\ \A n \in Names :
          /\ FileOf[n] \in Seq(Unresolved)
          /\ \A i \in DOMAIN FileOf[n] :
                FileOf[n][i].tag \in Refs =>
                   /\ FileOf[n][i].class \in DOMAIN FileOf[n]
                   /\ FileOf[n][FileOf[n][i].class].tag = "Class"
                   /\ FileOf[n][i].sig \in DOMAIN FileOf[n]
                   /\ FileOf[n][FileOf[n][i].sig].tag = "NameAndType"

VARIABLES
    name,   \* cell -> the name of the class there, None: not allocated
    next,   \* cell -> the next class of the ring
    pool,   \* cell -> its constant pool
    work    \* where the code is

vars == <<name, next, pool, work>>

Loaded == {c \in Cells : name[c] # None}

Idle == [op |-> "idle"]
Exit == [op |-> "exit"]
Released == [op |-> "released"]

\* The bit 0x10 of the tag.
IS_RESOLVED(e) == e.resolved

ResolvedClass(k) == [tag |-> "Class", resolved |-> TRUE, r_class |-> k]

\* A class in the ring runs when it is the main class or a member of it has
\* been resolved.
Runs(c) ==
    \/ c = MainCell
    \/ \E d \in Loaded : \E i \in DOMAIN pool[d] :
          pool[d][i].tag \in Refs /\ IS_RESOLVED(pool[d][i]) /\ pool[d][i].r_class = c

\* parse: the only class is linked to itself.
Init ==
    /\ name = [c \in Cells |-> IF c = MainCell THEN Main ELSE None]
    /\ next = [c \in Cells |-> IF c = MainCell THEN MainCell ELSE None]
    /\ pool = [c \in Cells |-> IF c = MainCell THEN FileOf[Main] ELSE << >>]
    /\ work = Idle

----------------------------------------------------------------------------
(* resolve_class. *)

\* What the bytes of name_index lead to; a pointer leads nowhere.
ClassName(e) == IF IS_RESOLVED(e) THEN None ELSE e.name

Wanted == ClassName(pool[work.curr][work.index])

\* An entry becomes a reference to the class in cell k; resolve_methodref and
\* resolve_fieldref go on with the entry ref.
Bind(c, i, k, ref) ==
    /\ pool' = [pool EXCEPT ![c][i] = ResolvedClass(k)]
    /\ work' = IF ref = 0 THEN Idle ELSE [op |-> "member", curr |-> c, ref |-> ref]

resolve_class(c, i, ref) ==
    /\ IF ClassName(pool[c][i]) = name[c] THEN Bind(c, i, c, ref)
       ELSE /\ work' = [op |-> "walk", curr |-> c, index |-> i, clas |-> c, ref |-> ref]
            /\ UNCHANGED pool
    /\ UNCHANGED <<name, next>>

Following == next[work.clas]

MoreClassesNoWrap == Following # work.clas
MoreClasses == Following # work.curr

NameMatchesBehind == name[work.clas] = Wanted
NameMatches == name[Following] = Wanted

WalkOn ==
    /\ work.op = "walk" /\ MoreClasses /\ ~ NameMatches
    /\ work' = [work EXCEPT !.clas = Following]
    /\ UNCHANGED <<name, next, pool>>

WalkFinds ==
    /\ work.op = "walk" /\ MoreClasses /\ NameMatches
    /\ Bind(work.curr, work.index, Following, work.ref)
    /\ UNCHANGED <<name, next>>

\* The loop ends on the class it started from; the new one goes behind it.
link_class_swapped(any, new) ==
    LET first == [next EXCEPT ![any] = new]
    IN  next' = [first EXCEPT ![new] = first[any]]

link_class(any, new) ==
    LET first == [next EXCEPT ![new] = next[any]]
    IN  next' = [first EXCEPT ![any] = new]

WalkLoads ==
    /\ work.op = "walk" /\ ~ MoreClasses
    /\ Wanted \in Names
    /\ \E new \in Cells \ Loaded :
          /\ name' = [name EXCEPT ![new] = Wanted]
          /\ link_class(Following, new)
          /\ pool' = [pool EXCEPT ![new] = FileOf[Wanted],
                                  ![work.curr][work.index] = ResolvedClass(new)]
    /\ work' = IF work.ref = 0 THEN Idle
               ELSE [op |-> "member", curr |-> work.curr, ref |-> work.ref]

\* load_class finds no file and exits.
WalkFails ==
    /\ work.op = "walk" /\ ~ MoreClasses
    /\ Wanted \notin Names
    /\ work' = Exit
    /\ UNCHANGED <<name, next, pool>>

----------------------------------------------------------------------------
(* resolve_methodref, resolve_fieldref and resolve_const. *)

\* ldc1 and ldc2 resolve classes and strings.
resolve_const(c, i) ==
    /\ work = Idle
    /\ ~ IS_RESOLVED(pool[c][i])
    /\ \/ /\ pool[c][i].tag = "Class"
          /\ resolve_class(c, i, 0)
       \/ /\ pool[c][i].tag = "String"
          /\ pool' = [pool EXCEPT ![c][i].resolved = TRUE]
          /\ UNCHANGED <<name, next, work>>

ClassUnchecked(c, i) == TRUE
ClassUnresolved(c, i) == ~ IS_RESOLVED(pool[c][i])

resolve_ref(c, i) ==
    /\ work = Idle
    /\ pool[c][i].tag \in Refs
    /\ ~ IS_RESOLVED(pool[c][i])
    /\ IF ClassUnresolved(c, pool[c][i].class)
       THEN resolve_class(c, pool[c][i].class, i)
       ELSE /\ work' = [op |-> "member", curr |-> c, ref |-> i]
            /\ UNCHANGED <<name, next, pool>>

Entry == pool[work.curr][work.ref]
RefClass == pool[work.curr][Entry.class].r_class
Signature == pool[work.curr][Entry.sig]
ResolvedSignature == [Signature EXCEPT !.resolved = TRUE]

Declared == Signature.member \in MembersOf[name[RefClass]][Entry.tag]

\* The class whose member the entry becomes.
TargetCurrent == work.curr
Target == RefClass

MemberFound ==
    /\ work.op = "member" /\ Declared
    /\ pool' = [pool EXCEPT
           ![work.curr][Entry.sig] = ResolvedSignature,
           ![work.curr][work.ref] =
               [tag |-> Entry.tag, resolved |-> TRUE,
                r_class |-> Target, r_member |-> Signature.member]]
    /\ work' = Idle
    /\ UNCHANGED <<name, next>>

MemberMissing ==
    /\ work.op = "member" /\ ~ Declared
    /\ pool' = [pool EXCEPT ![work.curr][Entry.sig] = ResolvedSignature]
    /\ work' = Exit
    /\ UNCHANGED <<name, next>>

----------------------------------------------------------------------------
(* free_all_linked_classes, at the end of run() for the main class. *)

free_vm ==
    /\ work = Idle
    /\ work' = [op |-> "free", clas |-> MainCell]
    /\ UNCHANGED <<name, next, pool>>

\* next is read before the class is freed.
NextAfterFree == next'[work.clas]
NextBeforeFree == next[work.clas]

free_class ==
    /\ work.op = "free"
    /\ name' = [name EXCEPT ![work.clas] = None]
    /\ next' = [next EXCEPT ![work.clas] = None]
    /\ pool' = [pool EXCEPT ![work.clas] = << >>]
    /\ work' = IF NextBeforeFree = MainCell THEN Released
               ELSE [work EXCEPT !.clas = NextBeforeFree]

----------------------------------------------------------------------------

Stopped == work \in {Exit, Released} /\ UNCHANGED vars

Busy ==
    \/ WalkOn \/ WalkFinds \/ WalkLoads \/ WalkFails
    \/ MemberFound \/ MemberMissing
    \/ free_class

Next ==
    \/ \E c \in Loaded : Runs(c) /\ \E i \in DOMAIN pool[c] :
          resolve_const(c, i) \/ resolve_ref(c, i)
    \/ Busy
    \/ free_vm
    \/ Stopped

Spec == Init /\ [][Next]_vars

\* A resolution and the final release run to their end; which instruction
\* comes next, and whether one does, is up to the program.
FairSpec == Spec /\ WF_vars(Busy)

----------------------------------------------------------------------------
(* Correctness. *)

Releasing == work.op \in {"free", "released"}

Entries ==
    Unresolved
    \cup [tag : {"Class"}, resolved : {TRUE}, r_class : Cells]
    \cup [tag : Refs, resolved : {TRUE}, r_class : Cells, r_member : Int]
    \cup [tag : {"NameAndType"}, resolved : {TRUE}, member : Int]
    \cup [tag : {"String"}, resolved : {TRUE}]

Places ==
    {Idle, Exit, Released}
    \cup [op : {"walk"}, curr : Cells, index : Nat, clas : Cells, ref : Nat]
    \cup [op : {"member"}, curr : Cells, ref : Nat]
    \cup [op : {"free"}, clas : Cells]

\* Pointers are addresses of class structures or None, every pool entry has one
\* of the two layouts of its kind, and the code is at one of its places.
TypeOK ==
    /\ name \in [Cells -> Names \cup {None}]
    /\ next \in [Cells -> Cells \cup {None}]
    /\ DOMAIN pool = Cells
    /\ \A c \in Cells : \A i \in DOMAIN pool[c] : pool[c][i] \in Entries
    /\ work \in Places

\* From whichever class a search starts, it meets every loaded class: the next
\* pointers never leave a set of classes for another one, unless that is all of
\* them.  Classes are linked behind whichever class happens to need them.
RingWhole ==
    ~ Releasing =>
        /\ \A c \in Loaded : next[c] \in Loaded
        /\ \A S \in SUBSET Loaded :
              S # {} /\ (\A c \in S : next[c] \in S) => S = Loaded

\* A class has one structure, so one set of static fields and one flag that
\* says it is initialized, in whatever order and by whichever class it is used.
OneClassPerName ==
    \A c, d \in Loaded : name[c] = name[d] => c = d

Refers(k, n) == k \in Loaded /\ name[k] = n

\* e fits the entry i of the file of class n.
BindingRight(e, n, i) ==
    LET file == FileOf[n]
    IN  /\ e.tag = file[i].tag
        /\ ~ e.resolved => e = file[i]
        /\ e.resolved /\ e.tag = "Class" => Refers(e.r_class, file[i].name)
        /\ e.resolved /\ e.tag \in Refs =>
              /\ Refers(e.r_class, file[file[i].class].name)
              /\ e.r_member = file[file[i].sig].member
              /\ e.r_member \in MembersOf[name[e.r_class]][e.tag]
        /\ e.tag = "NameAndType" => e.member = file[i].member

\* An entry refers to what the class file says, whether it is resolved yet or
\* not: the class of that name and the member declared there.
BindingsRight ==
    ~ Releasing =>
    \A c \in Loaded :
        /\ DOMAIN pool[c] = DOMAIN FileOf[name[c]]
        /\ \A i \in DOMAIN pool[c] : BindingRight(pool[c][i], name[c], i)

\* "class may not be already resolved": the indices that a resolution reads
\* have not been replaced by a pointer.
ResolvedOnce ==
    /\ work.op = "walk" => ~ IS_RESOLVED(pool[work.curr][work.index])
    /\ work.op = "member" => /\ ~ IS_RESOLVED(Entry)
                             /\ IS_RESOLVED(pool[work.curr][Entry.class])

\* Every class is freed once and none is forgotten.
FreedOnce ==
    /\ work.op = "free" => work.clas \in Loaded
    /\ work = Released => Loaded = {}

\* A search through the ring ends, and so does the release.
WorkEnds == (work.op \in {"walk", "member", "free"}) ~> (work \in {Idle, Exit, Released})

============================================================================
