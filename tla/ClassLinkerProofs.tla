------------------------- MODULE ClassLinkerProofs -------------------------
(***************************************************************************)
(* The ring of loaded classes stays one ring, with one class of each name, *)
(* and every resolved entry leads where its class file says, for any class *)
(* files and any number of classes; the release frees every class once.    *)
(***************************************************************************)
EXTENDS ClassLinker, TLAPS

\* From a loaded class the next pointers lead to loaded classes, never from two
\* of them to the same one.
RingInv ==
    ~ Releasing =>
        /\ MainCell \in Loaded
        /\ \A c \in Loaded : next[c] \in Loaded
        /\ \A c, d \in Loaded : next[c] = next[d] => c = d
        /\ \A S \in SUBSET Loaded :
              S # {} /\ (\A c \in S : next[c] \in S) => S = Loaded

\* The classes met so far do not have the name that is searched, and only the
\* last of them leads on.
Searched(S) ==
    /\ work.curr \in S
    /\ work.clas \in S
    /\ \A c \in S : name[c] # Wanted
    /\ \A c \in S : c # work.clas => next[c] \in S

\* A reference that waits for its class constant i.
Waits(c, ref, i) ==
    /\ ref \in DOMAIN pool[c]
    /\ pool[c][ref].tag \in Refs
    /\ ~ pool[c][ref].resolved
    /\ pool[c][ref].class = i

WalkInv ==
    work.op = "walk" =>
        /\ work.curr \in Loaded
        /\ work.clas \in Loaded
        /\ work.index \in DOMAIN pool[work.curr]
        /\ pool[work.curr][work.index].tag = "Class"
        /\ ~ pool[work.curr][work.index].resolved
        /\ work.ref = 0 \/ Waits(work.curr, work.ref, work.index)
        /\ \E S \in SUBSET Loaded : Searched(S)

MemberInv ==
    work.op = "member" =>
        /\ work.curr \in Loaded
        /\ Waits(work.curr, work.ref, Entry.class)
        /\ pool[work.curr][Entry.class].resolved

\* The classes not yet freed are those met on the way to the main class.
FreeInv ==
    /\ work.op = "free" =>
        /\ work.clas \in Loaded
        /\ (MainCell \in Loaded) = (work.clas = MainCell)
        /\ \A c \in Loaded : next[c] \in (Loaded \ {work.clas}) \cup {MainCell}
        /\ \A c, d \in Loaded : next[c] = next[d] => c = d
        /\ \A S \in SUBSET Loaded :
              work.clas \in S /\ (\A c \in S : next[c] \in S \cup {MainCell}) => S = Loaded
    /\ work = Released => Loaded = {}

LinkerInv ==
    /\ TypeOK
    /\ OneClassPerName
    /\ BindingsRight
    /\ RingInv
    /\ WalkInv
    /\ MemberInv
    /\ FreeInv

----------------------------------------------------------------------------
(* Entries of a constant pool. *)

LEMMA SignatureForm ==
    ASSUME NEW e \in Entries, e.tag = "NameAndType"
    PROVE  e.member \in Int
BY DEF Entries, Unresolved, Refs

LEMMA ResolvedClassForm ==
    ASSUME NEW k \in Cells
    PROVE  /\ ResolvedClass(k) \in Entries
           /\ ResolvedClass(k).tag = "Class"
           /\ ResolvedClass(k).resolved
           /\ ResolvedClass(k).r_class = k
BY DEF Entries, ResolvedClass

LEMMA ResolvedRefForm ==
    ASSUME NEW t \in Refs, NEW k \in Cells, NEW m \in Int
    PROVE  [tag |-> t, resolved |-> TRUE, r_class |-> k, r_member |-> m] \in Entries
BY DEF Entries

LEMMA MarkedForm ==
    ASSUME NEW e \in Entries, e.tag \in {"NameAndType", "String"}
    PROVE  /\ [e EXCEPT !.resolved = TRUE] \in Entries
           /\ [e EXCEPT !.resolved = TRUE].tag = e.tag
           /\ [e EXCEPT !.resolved = TRUE].resolved
           /\ e.tag = "NameAndType" => [e EXCEPT !.resolved = TRUE].member = e.member
<1>1. CASE e.tag = "NameAndType"
  <2>1. e \in [tag : {"NameAndType"}, resolved : BOOLEAN, member : Int]
    BY <1>1 DEF Entries, Unresolved, Refs
  <2>2. [e EXCEPT !.resolved = TRUE] \in [tag : {"NameAndType"}, resolved : {TRUE}, member : Int]
    BY <2>1
  <2>3. QED
    BY <1>1, <2>1, <2>2 DEF Entries
<1>2. CASE e.tag = "String"
  <2>1. e \in [tag : {"String"}, resolved : BOOLEAN]
    BY <1>2 DEF Entries, Unresolved, Refs
  <2>2. [e EXCEPT !.resolved = TRUE] \in [tag : {"String"}, resolved : {TRUE}]
    BY <2>1
  <2>3. QED
    BY <1>2, <2>1, <2>2 DEF Entries
<1>3. QED
  BY <1>1, <1>2

\* What the parser leaves in a pool is an unresolved entry.
LEMMA FileEntries ==
    ASSUME NEW n \in Names, NEW i \in DOMAIN FileOf[n]
    PROVE  /\ FileOf[n][i] \in Entries
           /\ ~ FileOf[n][i].resolved
           /\ i \in Nat
           /\ i # 0
           /\ FileOf[n][i].tag \in Refs =>
                 /\ FileOf[n][i].class \in DOMAIN FileOf[n]
                 /\ FileOf[n][FileOf[n][i].class].tag = "Class"
                 /\ FileOf[n][i].sig \in DOMAIN FileOf[n]
                 /\ FileOf[n][FileOf[n][i].sig].tag = "NameAndType"
<1>1. FileOf[n] \in Seq(Unresolved)
  BY LinkerAssumption
<1>2. FileOf[n][i] \in Unresolved /\ i \in Nat /\ i # 0
  BY <1>1
<1>3. ~ FileOf[n][i].resolved
  BY <1>2 DEF Unresolved
<1>4. FileOf[n][i] \in Entries
  BY <1>2 DEF Entries
<1>5. QED
  BY <1>2, <1>3, <1>4, LinkerAssumption

\* One entry of one pool changes.
LEMMA Amend ==
    ASSUME NEW p, DOMAIN p = Cells, NEW c \in Cells, NEW i \in DOMAIN p[c], NEW v, NEW q,
           q = [p EXCEPT ![c][i] = v]
    PROVE  /\ DOMAIN q = Cells
           /\ \A d \in Cells : DOMAIN q[d] = DOMAIN p[d]
           /\ \A d \in Cells : \A j \in DOMAIN p[d] :
                 q[d][j] = IF d = c /\ j = i THEN v ELSE p[d][j]
OBVIOUS

----------------------------------------------------------------------------
(* Bindings stay right when classes are added. *)

Kept == \A k \in Loaded : k \in Loaded' /\ name'[k] = name[k]

LEMMA RefersKept ==
    ASSUME Kept, NEW k, NEW n, Refers(k, n)
    PROVE  Refers(k, n)'
BY DEF Kept, Refers

LEMMA BindingKept ==
    ASSUME Kept, NEW e, NEW n, NEW i, BindingRight(e, n, i)
    PROVE  BindingRight(e, n, i)'
<1>1. e.resolved /\ e.tag = "Class" => Refers(e.r_class, FileOf[n][i].name)'
  BY RefersKept DEF BindingRight
<1>2. ASSUME e.resolved, e.tag \in Refs
      PROVE  /\ Refers(e.r_class, FileOf[n][FileOf[n][i].class].name)'
             /\ e.r_member \in MembersOf[name'[e.r_class]][e.tag]
  <2>1. /\ Refers(e.r_class, FileOf[n][FileOf[n][i].class].name)
        /\ e.r_member \in MembersOf[name[e.r_class]][e.tag]
    BY <1>2 DEF BindingRight
  <2>2. name'[e.r_class] = name[e.r_class]
    BY <2>1 DEF Refers, Kept
  <2>3. QED
    BY <2>1, <2>2, RefersKept
<1>3. QED
  BY <1>1, <1>2 DEF BindingRight

\* An entry as the parser left it is right.
LEMMA BindingUnresolved ==
    ASSUME NEW n \in Names, NEW i \in DOMAIN FileOf[n]
    PROVE  BindingRight(FileOf[n][i], n, i)
BY FileEntries DEF BindingRight

----------------------------------------------------------------------------
(* What the invariant says of the place where the code is. *)

LEMMA PlaceForms ==
    ASSUME NEW w \in Places
    PROVE  /\ w.op = "walk" => /\ w \in [op : {"walk"}, curr : Cells, index : Nat,
                                         clas : Cells, ref : Nat]
                               /\ w.curr \in Cells /\ w.clas \in Cells
                               /\ w.index \in Nat /\ w.ref \in Nat
           /\ w.op = "member" => w.curr \in Cells /\ w.ref \in Nat
           /\ w.op = "free" => w \in [op : {"free"}, clas : Cells] /\ w.clas \in Cells
           /\ w.op = "idle" => w = Idle
           /\ w.op = "exit" => w = Exit
           /\ w.op = "released" => w = Released
BY DEF Places, Idle, Exit, Released

LEMMA LoadedName ==
    ASSUME TypeOK, NEW c \in Loaded
    PROVE  c \in Cells /\ name[c] \in Names
BY LinkerAssumption DEF Loaded, TypeOK

\* An entry of a loaded class.
LEMMA PoolEntry ==
    ASSUME LinkerInv, ~ Releasing, NEW c \in Loaded, NEW i \in DOMAIN pool[c]
    PROVE  /\ c \in Cells
           /\ name[c] \in Names
           /\ pool[c][i] \in Entries
           /\ BindingRight(pool[c][i], name[c], i)
           /\ i \in DOMAIN FileOf[name[c]]
           /\ i \in Nat
           /\ i # 0
           /\ pool[c][i].tag = "Class" /\ ~ pool[c][i].resolved =>
                 FileOf[name[c]][i].name = pool[c][i].name
<1>1. c \in Cells /\ name[c] \in Names
  BY LoadedName DEF LinkerInv
<1>2. pool[c][i] \in Entries
  BY <1>1 DEF LinkerInv, TypeOK
<1>3. DOMAIN pool[c] = DOMAIN FileOf[name[c]]
  BY DEF LinkerInv, BindingsRight
<1>4. BindingRight(pool[c][i], name[c], i)
  BY DEF LinkerInv, BindingsRight
<1>5. i \in Nat /\ i # 0
  BY <1>1, <1>3, FileEntries
<1>6. pool[c][i].tag = "Class" /\ ~ pool[c][i].resolved =>
          FileOf[name[c]][i].name = pool[c][i].name
  BY <1>4 DEF BindingRight
<1>7. QED
  BY <1>1, <1>2, <1>3, <1>4, <1>5, <1>6

\* Where a reference leads that is not resolved yet.
Leads(c, i, k) ==
    /\ i \in DOMAIN pool[c]
    /\ pool[c][i] = FileOf[name[c]][i]
    /\ k \in DOMAIN pool[c]
    /\ pool[c][k].tag = "Class"
    /\ pool[c][i].sig \in DOMAIN pool[c]
    /\ pool[c][pool[c][i].sig].tag = "NameAndType"

LEMMA PendingRef ==
    ASSUME LinkerInv, ~ Releasing, NEW c \in Loaded, NEW i, NEW k, Waits(c, i, k)
    PROVE  Leads(c, i, k)
<1>1. /\ i \in DOMAIN pool[c]
      /\ pool[c][i].tag \in Refs
      /\ ~ pool[c][i].resolved
      /\ pool[c][i].class = k
  BY DEF Waits
<1>2. /\ name[c] \in Names
      /\ i \in DOMAIN FileOf[name[c]]
      /\ BindingRight(pool[c][i], name[c], i)
  BY <1>1, PoolEntry
<1>3. pool[c][i] = FileOf[name[c]][i]
  BY <1>1, <1>2 DEF BindingRight
<1>4. DOMAIN pool[c] = DOMAIN FileOf[name[c]]
  BY DEF LinkerInv, BindingsRight
<1>5. /\ k \in DOMAIN FileOf[name[c]]
      /\ FileOf[name[c]][k].tag = "Class"
      /\ pool[c][i].sig \in DOMAIN FileOf[name[c]]
      /\ FileOf[name[c]][pool[c][i].sig].tag = "NameAndType"
  BY <1>1, <1>2, <1>3, FileEntries
<1>6. \A j \in DOMAIN pool[c] : pool[c][j].tag = FileOf[name[c]][j].tag
  BY PoolEntry DEF BindingRight
<1>7. QED
  BY <1>1, <1>3, <1>4, <1>5, <1>6 DEF Leads

\* Steps that leave the ring alone.
LEMMA RingAlone ==
    ASSUME LinkerInv, ~ Releasing, UNCHANGED <<name, next>>
    PROVE  /\ Loaded' = Loaded
           /\ Kept
           /\ OneClassPerName'
           /\ RingInv'
           /\ name' \in [Cells -> Names \cup {None}]
           /\ next' \in [Cells -> Cells \cup {None}]
<1>1. Loaded' = Loaded
  BY DEF Loaded
<1>2. Kept
  BY <1>1 DEF Kept
<1>3. OneClassPerName'
  BY <1>1 DEF LinkerInv, OneClassPerName
<1>4. RingInv'
  BY <1>1 DEF LinkerInv, RingInv
<1>5. QED
  BY <1>1, <1>2, <1>3, <1>4 DEF LinkerInv, TypeOK

\* Entries of a pool are replaced by ones that are right as well.
LEMMA PoolChanged ==
    ASSUME LinkerInv, ~ Releasing, UNCHANGED <<name, next>>,
           DOMAIN pool' = Cells,
           \A d \in Cells : DOMAIN pool'[d] = DOMAIN pool[d],
           NEW c \in Loaded,
           \A d \in Cells : \A j \in DOMAIN pool[d] :
              \/ pool'[d][j] = pool[d][j]
              \/ d = c /\ pool'[d][j] \in Entries /\ BindingRight(pool'[d][j], name[c], j)
    PROVE  /\ \A d \in Cells : \A j \in DOMAIN pool'[d] : pool'[d][j] \in Entries
           /\ BindingsRight'
<1>1. \A d \in Cells : \A j \in DOMAIN pool'[d] : pool'[d][j] \in Entries
  BY DEF LinkerInv, TypeOK
<1>2. Loaded' = Loaded /\ Kept /\ Loaded \subseteq Cells
  BY RingAlone DEF Loaded
<1>3. ASSUME NEW d \in Loaded
      PROVE  DOMAIN pool'[d] = DOMAIN FileOf[name'[d]]
  BY <1>2 DEF LinkerInv, BindingsRight
<1>4. ASSUME NEW d \in Loaded, NEW j \in DOMAIN pool[d]
      PROVE  BindingRight(pool[d][j], name[d], j)'
  <2>e. PICK e : e = pool'[d][j]
    OBVIOUS
  <2>n. PICK n : n = name[d]
    OBVIOUS
  <2>1. BindingRight(e, n, j)
    BY <1>2, <2>e, <2>n, PoolEntry
  <2>2. BindingRight(e, n, j)'
    BY <1>2, <2>1, BindingKept
  <2>3. QED
    BY <2>2, <2>e, <2>n DEF BindingRight
<1>5. BindingsRight'
  BY <1>2, <1>3, <1>4 DEF BindingsRight
<1>6. QED
  BY <1>1, <1>5

LEMMA PoolAmended ==
    ASSUME LinkerInv, ~ Releasing, UNCHANGED <<name, next>>,
           NEW c \in Loaded, NEW i \in DOMAIN pool[c],
           NEW v \in Entries, BindingRight(v, name[c], i),
           pool' = [pool EXCEPT ![c][i] = v]
    PROVE  /\ DOMAIN pool' = Cells
           /\ \A d \in Cells : DOMAIN pool'[d] = DOMAIN pool[d]
           /\ \A d \in Cells : \A j \in DOMAIN pool[d] :
                 pool'[d][j] = IF d = c /\ j = i THEN v ELSE pool[d][j]
           /\ \A d \in Cells : \A j \in DOMAIN pool'[d] : pool'[d][j] \in Entries
           /\ BindingsRight'
<1>1. DOMAIN pool = Cells /\ c \in Cells
  BY LoadedName DEF LinkerInv, TypeOK
<1>2. /\ DOMAIN pool' = Cells
      /\ \A d \in Cells : DOMAIN pool'[d] = DOMAIN pool[d]
      /\ \A d \in Cells : \A j \in DOMAIN pool[d] :
            pool'[d][j] = IF d = c /\ j = i THEN v ELSE pool[d][j]
  BY <1>1, Amend
<1>3. \A d \in Cells : \A j \in DOMAIN pool[d] :
          \/ pool'[d][j] = pool[d][j]
          \/ d = c /\ pool'[d][j] \in Entries /\ BindingRight(pool'[d][j], name[c], j)
  BY <1>2
<1>4. QED
  BY <1>2, <1>3, PoolChanged

LEMMA BindingsAlone ==
    ASSUME LinkerInv, ~ Releasing, UNCHANGED <<name, next, pool>>
    PROVE  BindingsRight'
<1>1. MainCell \in Loaded
  BY DEF LinkerInv, RingInv
<1>2. DOMAIN pool = Cells
  BY DEF LinkerInv, TypeOK
<1>3. QED
  BY <1>1, <1>2, PoolChanged

----------------------------------------------------------------------------
(* Resolutions that find their class. *)

\* At rest there is nothing to say of the place.
LEMMA AtRest ==
    ASSUME TypeOK', OneClassPerName', BindingsRight', RingInv', work' \in {Idle, Exit}
    PROVE  LinkerInv'
<1>1. work'.op \in {"idle", "exit"}
  BY DEF Idle, Exit
<1>2. WalkInv' /\ MemberInv'
  BY <1>1 DEF WalkInv, MemberInv
<1>3. FreeInv'
  BY <1>1 DEF FreeInv, Idle, Exit, Released
<1>4. QED
  BY <1>2, <1>3 DEF LinkerInv

\* After a class constant is bound, the code stops or goes on with the reference
\* that waits for it.
LEMMA GoesOn ==
    ASSUME LinkerInv, ~ Releasing, OneClassPerName', BindingsRight', RingInv',
           name' \in [Cells -> Names \cup {None}],
           next' \in [Cells -> Cells \cup {None}],
           DOMAIN pool' = Cells,
           \A d \in Cells : \A j \in DOMAIN pool'[d] : pool'[d][j] \in Entries,
           NEW c \in Loaded, c \in Loaded', NEW i \in DOMAIN pool[c],
           pool[c][i].tag = "Class", pool'[c][i].resolved,
           DOMAIN pool'[c] = DOMAIN pool[c],
           \A j \in DOMAIN pool[c] : j # i => pool'[c][j] = pool[c][j],
           NEW ref, ref = 0 \/ Waits(c, ref, i),
           work' = IF ref = 0 THEN Idle ELSE [op |-> "member", curr |-> c, ref |-> ref]
    PROVE  LinkerInv'
<1>1. CASE ref = 0
  <2>1. work' = Idle
    BY <1>1
  <2>2. TypeOK'
    BY <2>1 DEF TypeOK, Places
  <2>3. QED
    BY <2>1, <2>2, AtRest
<1>2. CASE ref # 0
  <2>1. work' = [op |-> "member", curr |-> c, ref |-> ref]
    BY <1>2
  <2>2. Waits(c, ref, i)
    BY <1>2
  <2>3. ref \in DOMAIN pool[c] /\ ref \in Nat /\ c \in Cells
    BY <2>2, PoolEntry DEF Waits
  <2>4. TypeOK'
    <3>1. work' \in Places
      BY <2>1, <2>3 DEF Places
    <3>2. QED
      BY <3>1 DEF TypeOK
  <2>5. /\ work'.op = "member" /\ work'.curr = c /\ work'.ref = ref
        /\ work' # Released
    BY <2>1 DEF Released
  <2>6. pool'[c][ref] = pool[c][ref]
    BY <2>2, <2>3 DEF Waits, Refs
  <2>7. Entry' = pool[c][ref] /\ Entry'.class = i
    BY <2>2, <2>5, <2>6 DEF Entry, Waits
  <2>8. Waits(c, ref, i)'
    BY <2>2, <2>6 DEF Waits
  <2>9. MemberInv'
    BY <2>5, <2>7, <2>8 DEF MemberInv, Waits
  <2>10. WalkInv' /\ FreeInv'
    BY <2>5 DEF WalkInv, FreeInv
  <2>11. QED
    BY <2>4, <2>9, <2>10 DEF LinkerInv
<1>3. QED
  BY <1>1, <1>2

LEMMA BindInv ==
    ASSUME LinkerInv, ~ Releasing, UNCHANGED <<name, next>>,
           NEW c \in Loaded, NEW i \in DOMAIN pool[c],
           pool[c][i].tag = "Class", ~ pool[c][i].resolved,
           NEW k \in Loaded, name[k] = pool[c][i].name,
           NEW ref, ref = 0 \/ Waits(c, ref, i),
           Bind(c, i, k, ref)
    PROVE  LinkerInv'
<1>1. k \in Cells /\ c \in Cells
  BY LoadedName DEF LinkerInv
<1>v. PICK v : v = ResolvedClass(k)
  OBVIOUS
<1>2. v \in Entries /\ v.tag = "Class" /\ v.resolved /\ v.r_class = k
  BY <1>1, <1>v, ResolvedClassForm
<1>3. BindingRight(v, name[c], i)
  <2>1. BindingRight(pool[c][i], name[c], i) /\ FileOf[name[c]][i].name = pool[c][i].name
    BY PoolEntry
  <2>2. FileOf[name[c]][i].tag = "Class"
    BY <2>1 DEF BindingRight
  <2>3. Refers(k, FileOf[name[c]][i].name)
    BY <2>1 DEF Refers
  <2>4. QED
    BY <1>2, <2>2, <2>3 DEF BindingRight, Refs
<1>4. pool' = [pool EXCEPT ![c][i] = v]
  BY <1>v DEF Bind
<1>5. /\ DOMAIN pool' = Cells
      /\ \A d \in Cells : DOMAIN pool'[d] = DOMAIN pool[d]
      /\ \A d \in Cells : \A j \in DOMAIN pool[d] :
            pool'[d][j] = IF d = c /\ j = i THEN v ELSE pool[d][j]
      /\ \A d \in Cells : \A j \in DOMAIN pool'[d] : pool'[d][j] \in Entries
      /\ BindingsRight'
  BY <1>2, <1>3, <1>4, PoolAmended
<1>6. /\ Loaded' = Loaded
      /\ OneClassPerName'
      /\ RingInv'
      /\ name' \in [Cells -> Names \cup {None}]
      /\ next' \in [Cells -> Cells \cup {None}]
  BY RingAlone
<1>7. QED
  BY <1>1, <1>2, <1>5, <1>6, GoesOn DEF Bind

\* A search starts at the class that needs another one, and has met that one.
LEMMA SearchStarts ==
    ASSUME LinkerInv, ~ Releasing,
           NEW c \in Loaded, NEW i \in DOMAIN pool[c],
           pool[c][i].tag = "Class", ~ pool[c][i].resolved,
           NEW ref, ref = 0 \/ Waits(c, ref, i),
           resolve_class(c, i, ref)
    PROVE  LinkerInv'
<1>1. UNCHANGED <<name, next>>
  BY DEF resolve_class
<1>2. ClassName(pool[c][i]) = pool[c][i].name
  BY DEF ClassName, IS_RESOLVED
<1>3. CASE ClassName(pool[c][i]) = name[c]
  <2>1. Bind(c, i, c, ref)
    BY <1>3 DEF resolve_class
  <2>2. QED
    BY <1>1, <1>2, <1>3, <2>1, BindInv
<1>4. CASE ClassName(pool[c][i]) # name[c]
  <2>1. /\ work' = [op |-> "walk", curr |-> c, index |-> i, clas |-> c, ref |-> ref]
        /\ pool' = pool
    BY <1>4 DEF resolve_class
  <2>2. c \in Cells /\ i \in Nat
    BY PoolEntry
  <2>3. ref \in Nat
    BY PoolEntry DEF Waits
  <2>4. TypeOK'
    <3>1. work' \in Places
      BY <2>1, <2>2, <2>3 DEF Places
    <3>2. QED
      BY <1>1, <2>1, <3>1 DEF LinkerInv, TypeOK
  <2>5. /\ work'.op = "walk" /\ work'.curr = c /\ work'.index = i
        /\ work'.clas = c /\ work'.ref = ref /\ work' # Released
    BY <2>1 DEF Released
  <2>6. Loaded' = Loaded /\ OneClassPerName' /\ RingInv'
    BY <1>1, RingAlone
  <2>7. BindingsRight'
    BY <1>1, <2>1, BindingsAlone
  <2>8. WalkInv'
    <3>1. Wanted' = pool[c][i].name
      BY <2>1, <2>5 DEF Wanted, ClassName, IS_RESOLVED
    <3>2. Searched({c})'
      BY <1>1, <1>2, <1>4, <2>5, <3>1 DEF Searched
    <3>3. {c} \in SUBSET Loaded'
      BY <2>6
    <3>4. \E S \in SUBSET Loaded' : Searched(S)'
      BY <3>2, <3>3
    <3>5. ref = 0 \/ Waits(c, ref, i)'
      BY <2>1 DEF Waits
    <3>6. QED
      BY <2>1, <2>5, <2>6, <3>4, <3>5 DEF WalkInv, Waits
  <2>9. MemberInv' /\ FreeInv'
    BY <2>5 DEF MemberInv, FreeInv
  <2>10. QED
    BY <2>4, <2>6, <2>7, <2>8, <2>9 DEF LinkerInv
<1>5. QED
  BY <1>3, <1>4

LEMMA resolve_constInv ==
    ASSUME LinkerInv, NEW c \in Loaded, NEW i \in DOMAIN pool[c], resolve_const(c, i)
    PROVE  LinkerInv'
<1>1. work = Idle /\ ~ Releasing
  BY DEF resolve_const, Releasing, Idle
<1>2. ~ pool[c][i].resolved
  BY DEF resolve_const, IS_RESOLVED
<1>3. CASE pool[c][i].tag = "Class" /\ resolve_class(c, i, 0)
  BY <1>1, <1>2, <1>3, SearchStarts
<1>4. CASE /\ pool[c][i].tag = "String"
           /\ pool' = [pool EXCEPT ![c][i].resolved = TRUE]
           /\ UNCHANGED <<name, next, work>>
  <2>1. PICK v : v = [pool[c][i] EXCEPT !.resolved = TRUE]
    OBVIOUS
  <2>2. v \in Entries /\ v.tag = "String" /\ v.resolved
    BY <1>1, <1>4, <2>1, PoolEntry, MarkedForm
  <2>3. BindingRight(v, name[c], i)
    <3>1. BindingRight(pool[c][i], name[c], i)
      BY <1>1, PoolEntry
    <3>2. QED
      BY <1>4, <2>2, <3>1 DEF BindingRight, Refs
  <2>4. pool' = [pool EXCEPT ![c][i] = v]
    BY <1>4, <2>1
  <2>5. /\ DOMAIN pool' = Cells
        /\ \A d \in Cells : \A j \in DOMAIN pool'[d] : pool'[d][j] \in Entries
        /\ BindingsRight'
    BY <1>1, <1>4, <2>2, <2>3, <2>4, PoolAmended
  <2>6. /\ OneClassPerName'
        /\ RingInv'
        /\ name' \in [Cells -> Names \cup {None}]
        /\ next' \in [Cells -> Cells \cup {None}]
    BY <1>1, <1>4, RingAlone
  <2>7. work' = Idle
    BY <1>1, <1>4
  <2>8. TypeOK'
    BY <2>5, <2>6, <2>7 DEF TypeOK, Places
  <2>9. QED
    BY <2>5, <2>6, <2>7, <2>8, AtRest
<1>5. QED
  BY <1>3, <1>4 DEF resolve_const

LEMMA resolve_refInv ==
    ASSUME LinkerInv, NEW c \in Loaded, NEW i \in DOMAIN pool[c], resolve_ref(c, i)
    PROVE  LinkerInv'
<1>1. /\ work = Idle
      /\ ~ Releasing
      /\ pool[c][i].tag \in Refs
      /\ ~ pool[c][i].resolved
  BY DEF resolve_ref, Releasing, Idle, IS_RESOLVED
<1>k. PICK k : k = pool[c][i].class
  OBVIOUS
<1>w. Waits(c, i, k)
  BY <1>1, <1>k DEF Waits
<1>2. k \in DOMAIN pool[c] /\ pool[c][k].tag = "Class" /\ Waits(c, i, k)
  BY <1>1, <1>w, PendingRef DEF Leads
<1>3. CASE ~ pool[c][k].resolved
  <2>1. resolve_class(c, k, i)
    BY <1>3, <1>k DEF resolve_ref, ClassUnresolved, IS_RESOLVED
  <2>2. QED
    BY <1>1, <1>2, <1>3, <2>1, SearchStarts
<1>4. CASE pool[c][k].resolved
  <2>1. /\ work' = [op |-> "member", curr |-> c, ref |-> i]
        /\ UNCHANGED <<name, next, pool>>
    BY <1>4, <1>k DEF resolve_ref, ClassUnresolved, IS_RESOLVED
  <2>2. c \in Cells /\ i \in Nat
    BY <1>1, PoolEntry
  <2>3. TypeOK'
    <3>1. work' \in Places
      BY <2>1, <2>2 DEF Places
    <3>2. QED
      BY <2>1, <3>1 DEF LinkerInv, TypeOK
  <2>4. /\ work'.op = "member" /\ work'.curr = c /\ work'.ref = i
        /\ work' # Released
    BY <2>1 DEF Released
  <2>5. Loaded' = Loaded /\ OneClassPerName' /\ RingInv' /\ BindingsRight'
    BY <1>1, <2>1, RingAlone, BindingsAlone
  <2>6. MemberInv'
    <3>1. Entry' = pool[c][i]
      BY <2>1, <2>4 DEF Entry
    <3>2. QED
      BY <1>2, <1>4, <1>k, <2>1, <2>4, <2>5, <3>1 DEF MemberInv, Waits
  <2>7. WalkInv' /\ FreeInv'
    BY <2>4 DEF WalkInv, FreeInv
  <2>8. QED
    BY <2>3, <2>5, <2>6, <2>7 DEF LinkerInv
<1>5. QED
  BY <1>3, <1>4

----------------------------------------------------------------------------
(* The search. *)

\* What is known in an iteration of the loop.
LEMMA Searching ==
    ASSUME LinkerInv, work.op = "walk"
    PROVE  /\ ~ Releasing
           /\ work \in [op : {"walk"}, curr : Cells, index : Nat, clas : Cells, ref : Nat]
           /\ work.curr \in Loaded
           /\ work.clas \in Loaded
           /\ Following \in Loaded
           /\ work.index \in DOMAIN pool[work.curr]
           /\ pool[work.curr][work.index].tag = "Class"
           /\ ~ pool[work.curr][work.index].resolved
           /\ Wanted = pool[work.curr][work.index].name
           /\ work.ref = 0 \/ Waits(work.curr, work.ref, work.index)
<1>1. work \in [op : {"walk"}, curr : Cells, index : Nat, clas : Cells, ref : Nat]
  BY PlaceForms DEF LinkerInv, TypeOK
<1>2. ~ Releasing
  BY DEF Releasing
<1>3. /\ work.curr \in Loaded
      /\ work.clas \in Loaded
      /\ work.index \in DOMAIN pool[work.curr]
      /\ pool[work.curr][work.index].tag = "Class"
      /\ ~ pool[work.curr][work.index].resolved
      /\ work.ref = 0 \/ Waits(work.curr, work.ref, work.index)
  BY DEF LinkerInv, WalkInv
<1>4. Following \in Loaded
  BY <1>2, <1>3 DEF LinkerInv, RingInv, Following
<1>5. Wanted = pool[work.curr][work.index].name
  BY <1>3 DEF Wanted, ClassName, IS_RESOLVED
<1>6. QED
  BY <1>1, <1>2, <1>3, <1>4, <1>5

LEMMA WalkOnInv ==
    ASSUME LinkerInv, WalkOn
    PROVE  LinkerInv'
<1>1. /\ work.op = "walk" /\ MoreClasses /\ name[Following] # Wanted
      /\ work' = [work EXCEPT !.clas = Following]
      /\ UNCHANGED <<name, next, pool>>
  BY DEF WalkOn, NameMatches
<1>n. PICK n : n = Following
  OBVIOUS
<1>2. n \in Loaded /\ n \in Cells
  BY <1>1, <1>n, Searching DEF Loaded
<1>3. /\ work' \in [op : {"walk"}, curr : Cells, index : Nat, clas : Cells, ref : Nat]
      /\ work'.op = "walk" /\ work'.curr = work.curr /\ work'.index = work.index
      /\ work'.ref = work.ref /\ work'.clas = n
  BY <1>1, <1>2, <1>n, Searching
<1>4. TypeOK'
  BY <1>1, <1>3 DEF LinkerInv, TypeOK, Places
<1>5. Loaded' = Loaded /\ OneClassPerName' /\ RingInv' /\ BindingsRight'
  BY <1>1, Searching, RingAlone, BindingsAlone
<1>6. WalkInv'
  <2>1. Wanted' = Wanted
    BY <1>1, <1>3 DEF Wanted
  <2>2. PICK S \in SUBSET Loaded : Searched(S)
    BY <1>1 DEF LinkerInv, WalkInv
  <2>3. Searched(S \cup {n})'
    BY <1>1, <1>3, <1>n, <2>1, <2>2 DEF Searched, Following
  <2>4. S \cup {n} \in SUBSET Loaded'
    BY <1>2, <1>5
  <2>5. \E T \in SUBSET Loaded' : Searched(T)'
    BY <2>3, <2>4
  <2>6. work.ref = 0 \/ Waits(work.curr, work.ref, work.index)'
    BY <1>1, <1>3, Searching DEF Waits
  <2>7. QED
    BY <1>1, <1>2, <1>3, <1>5, <2>5, <2>6, Searching DEF WalkInv, Waits
<1>7. MemberInv' /\ FreeInv'
  BY <1>3 DEF MemberInv, FreeInv, Released
<1>8. QED
  BY <1>4, <1>5, <1>6, <1>7 DEF LinkerInv

LEMMA WalkFindsInv ==
    ASSUME LinkerInv, WalkFinds
    PROVE  LinkerInv'
<1>1. /\ work.op = "walk" /\ name[Following] = Wanted
      /\ Bind(work.curr, work.index, Following, work.ref)
      /\ UNCHANGED <<name, next>>
  BY DEF WalkFinds, NameMatches
<1>2. QED
  BY <1>1, Searching, BindInv

LEMMA WalkFailsInv ==
    ASSUME LinkerInv, WalkFails
    PROVE  LinkerInv'
<1>1. work.op = "walk" /\ work' = Exit /\ UNCHANGED <<name, next, pool>>
  BY DEF WalkFails
<1>2. OneClassPerName' /\ RingInv' /\ BindingsRight'
  BY <1>1, Searching, RingAlone, BindingsAlone
<1>3. TypeOK'
  BY <1>1 DEF LinkerInv, TypeOK, Places
<1>4. QED
  BY <1>1, <1>2, <1>3, AtRest

\* A search that comes back to where it started has met every class.
LEMMA SearchedAll ==
    ASSUME LinkerInv, work.op = "walk", ~ MoreClasses
    PROVE  \A c \in Loaded : name[c] # Wanted
<1>1. PICK S \in SUBSET Loaded : Searched(S)
  BY DEF LinkerInv, WalkInv
<1>2. S # {} /\ \A c \in S : next[c] \in S
  BY <1>1 DEF Searched, MoreClasses, Following
<1>3. S = Loaded
  BY <1>2, Searching DEF LinkerInv, RingInv
<1>4. QED
  BY <1>1, <1>3 DEF Searched

\* A class that is linked behind any class of the ring joins it.
LEMMA LinkedRing ==
    ASSUME LinkerInv, ~ Releasing, NEW any \in Loaded, NEW new \in Cells \ Loaded,
           Loaded' = Loaded \cup {new}, link_class(any, new)
    PROVE  RingInv' /\ next' \in [Cells -> Cells \cup {None}]
<1>1. /\ MainCell \in Loaded
      /\ \A c \in Loaded : next[c] \in Loaded
      /\ \A c, d \in Loaded : next[c] = next[d] => c = d
      /\ \A S \in SUBSET Loaded :
            S # {} /\ (\A c \in S : next[c] \in S) => S = Loaded
  BY DEF LinkerInv, RingInv
<1>2. next \in [Cells -> Cells \cup {None}] /\ Loaded \subseteq Cells
  BY DEF LinkerInv, TypeOK, Loaded
<1>3. /\ any # new
      /\ next'[new] = next[any]
      /\ next'[any] = new
      /\ \A c \in Loaded : c # any => next'[c] = next[c]
      /\ next' \in [Cells -> Cells \cup {None}]
  BY <1>1, <1>2 DEF link_class
<1>4. \A c \in Loaded' : next'[c] \in Loaded'
  BY <1>1, <1>3
<1>5. \A c, d \in Loaded' : next'[c] = next'[d] => c = d
  BY <1>1, <1>3
<1>6. ASSUME NEW S \in SUBSET Loaded', S # {}, \A c \in S : next'[c] \in S
      PROVE  S = Loaded'
  <2>1. CASE new \in S
    <3>1. next[any] \in S \ {new}
      BY <1>1, <1>3, <1>6, <2>1
    <3>2. \A c \in S \ {new} : next[c] \in S \ {new}
      BY <1>1, <1>3, <1>6, <3>1
    <3>3. S \ {new} = Loaded
      BY <1>1, <1>6, <3>1, <3>2
    <3>4. QED
      BY <2>1, <3>3
  <2>2. CASE new \notin S
    <3>1. any \notin S /\ S \in SUBSET Loaded
      BY <1>3, <1>6, <2>2
    <3>2. \A c \in S : next[c] \in S
      BY <1>3, <1>6, <3>1
    <3>3. QED
      BY <1>1, <1>6, <3>1, <3>2
  <2>3. QED
    BY <2>1, <2>2
<1>7. QED
  BY <1>1, <1>3, <1>4, <1>5, <1>6 DEF RingInv

LEMMA WalkLoadsInv ==
    ASSUME LinkerInv, WalkLoads
    PROVE  LinkerInv'
<1>1. work.op = "walk" /\ ~ MoreClasses /\ Wanted \in Names
  BY DEF WalkLoads
<1>n. PICK n : n = Wanted
  OBVIOUS
<1>c. PICK c : c = work.curr
  OBVIOUS
<1>i. PICK i : i = work.index
  OBVIOUS
<1>r. PICK ref : ref = work.ref
  OBVIOUS
<1>2. PICK new \in Cells \ Loaded :
          /\ name' = [name EXCEPT ![new] = n]
          /\ link_class(Following, new)
          /\ pool' = [pool EXCEPT ![new] = FileOf[n], ![c][i] = ResolvedClass(new)]
  BY <1>n, <1>c, <1>i DEF WalkLoads
<1>3. work' = IF ref = 0 THEN Idle ELSE [op |-> "member", curr |-> c, ref |-> ref]
  BY <1>c, <1>r DEF WalkLoads
<1>4. /\ ~ Releasing /\ c \in Loaded /\ c \in Cells /\ c # new /\ Following \in Loaded
      /\ i \in DOMAIN pool[c] /\ pool[c][i].tag = "Class" /\ ~ pool[c][i].resolved
      /\ n = pool[c][i].name /\ n \in Names
      /\ ref = 0 \/ Waits(c, ref, i)
  BY <1>1, <1>2, <1>n, <1>c, <1>i, <1>r, Searching DEF Loaded
<1>5. /\ Loaded' = Loaded \cup {new}
      /\ name'[new] = n
      /\ \A d \in Loaded : name'[d] = name[d]
      /\ name' \in [Cells -> Names \cup {None}]
  <2>1. name \in [Cells -> Names \cup {None}] /\ n # None
    BY <1>4, LinkerAssumption DEF LinkerInv, TypeOK
  <2>2. QED
    BY <1>2, <1>4, <2>1 DEF Loaded
<1>6. Kept
  BY <1>5 DEF Kept
<1>7. OneClassPerName'
  <2>1. \A d \in Loaded : name[d] # n
    BY <1>1, <1>n, SearchedAll
  <2>2. QED
    BY <1>5, <2>1 DEF LinkerInv, OneClassPerName
<1>8. RingInv' /\ next' \in [Cells -> Cells \cup {None}]
  BY <1>2, <1>4, <1>5, LinkedRing
<1>v. PICK v : v = ResolvedClass(new)
  OBVIOUS
<1>9. v \in Entries /\ v.tag = "Class" /\ v.resolved /\ v.r_class = new
  BY <1>2, <1>v, ResolvedClassForm
<1>10. /\ DOMAIN pool' = Cells
       /\ pool'[new] = FileOf[n]
       /\ \A d \in Loaded : DOMAIN pool'[d] = DOMAIN pool[d]
       /\ \A d \in Loaded : \A j \in DOMAIN pool[d] :
             pool'[d][j] = IF d = c /\ j = i THEN v ELSE pool[d][j]
       /\ \A d \in Cells : d # new /\ d \notin Loaded => pool'[d] = pool[d]
  <2>1. DOMAIN pool = Cells
    BY DEF LinkerInv, TypeOK
  <2>2. PICK p : p = [pool EXCEPT ![new] = FileOf[n]]
    OBVIOUS
  <2>3. /\ DOMAIN p = Cells /\ p[new] = FileOf[n]
        /\ \A d \in Cells : d # new => p[d] = pool[d]
    BY <1>2, <2>1, <2>2
  <2>4. pool' = [p EXCEPT ![c][i] = v]
    BY <1>2, <1>v, <2>2
  <2>5. pool'[new] = p[new] /\ \A d \in Cells : d # c => pool'[d] = p[d]
    BY <1>2, <1>4, <2>3, <2>4
  <2>6. i \in DOMAIN p[c]
    BY <1>4, <2>3
  <2>7. /\ DOMAIN pool' = Cells
        /\ \A d \in Cells : DOMAIN pool'[d] = DOMAIN p[d]
        /\ \A d \in Cells : \A j \in DOMAIN p[d] :
              pool'[d][j] = IF d = c /\ j = i THEN v ELSE p[d][j]
    BY <1>4, <2>3, <2>4, <2>6, Amend
  <2>8. Loaded \subseteq Cells
    BY DEF Loaded
  <2>9. QED
    BY <1>2, <1>4, <2>3, <2>5, <2>7, <2>8
<1>11. \A d \in Cells : \A j \in DOMAIN pool'[d] : pool'[d][j] \in Entries
  <2>1. SUFFICES ASSUME NEW d \in Cells, NEW j \in DOMAIN pool'[d]
                 PROVE  pool'[d][j] \in Entries
    OBVIOUS
  <2>2. CASE d = new
    BY <1>4, <1>10, <2>2, FileEntries
  <2>3. CASE d \in Loaded
    BY <1>9, <1>10, <2>3, PoolEntry, <1>4
  <2>4. CASE d # new /\ d \notin Loaded
    BY <1>10, <2>4 DEF LinkerInv, TypeOK
  <2>5. QED
    BY <2>2, <2>3, <2>4
<1>12. BindingsRight'
  <2>1. ASSUME NEW d \in Loaded'
        PROVE  DOMAIN pool'[d] = DOMAIN FileOf[name'[d]]
    BY <1>4, <1>5, <1>10 DEF LinkerInv, BindingsRight
  <2>2. ASSUME NEW d \in Loaded', NEW j \in DOMAIN pool'[d]
        PROVE  BindingRight(pool[d][j], name[d], j)'
    <3>e. PICK e : e = pool'[d][j]
      OBVIOUS
    <3>m. PICK m : m = name'[d]
      OBVIOUS
    <3>1. BindingRight(e, m, j)'
      <4>1. CASE d = new
        <5>1. e = FileOf[n][j] /\ m = n /\ j \in DOMAIN FileOf[n]
          BY <1>5, <1>10, <2>2, <3>e, <3>m, <4>1
        <5>2. BindingRight(e, m, j)
          BY <1>4, <5>1, BindingUnresolved
        <5>3. QED
          BY <1>6, <5>2, BindingKept
      <4>2. CASE d = c /\ j = i
        <5>1. e = v /\ m = name[c]
          BY <1>4, <1>5, <1>10, <3>e, <3>m, <4>2
        <5>2. BindingRight(pool[c][i], m, i) /\ FileOf[m][i].name = n
          BY <1>4, <5>1, PoolEntry
        <5>3. FileOf[m][i].tag = "Class"
          BY <1>4, <5>2 DEF BindingRight
        <5>4. Refers(new, FileOf[m][i].name)'
          BY <1>5, <5>2 DEF Refers
        <5>5. QED
          BY <1>9, <4>2, <5>1, <5>3, <5>4 DEF BindingRight, Refs
      <4>3. CASE d \in Loaded /\ ~ (d = c /\ j = i)
        <5>1. j \in DOMAIN pool[d] /\ e = pool[d][j] /\ m = name[d]
          BY <1>5, <1>10, <2>2, <3>e, <3>m, <4>3
        <5>2. BindingRight(e, m, j)
          BY <1>4, <4>3, <5>1, PoolEntry
        <5>3. QED
          BY <1>6, <5>2, BindingKept
      <4>4. QED
        BY <1>4, <1>5, <4>1, <4>2, <4>3
    <3>2. QED
      BY <3>1, <3>e, <3>m DEF BindingRight
  <2>3. QED
    BY <2>1, <2>2 DEF BindingsRight
<1>13. QED
  BY <1>3, <1>4, <1>5, <1>7, <1>8, <1>9, <1>10, <1>11, <1>12, GoesOn

----------------------------------------------------------------------------
(* References to members. *)

\* The class constant of a reference is bound and its member is still an index.
LEMMA Referring ==
    ASSUME LinkerInv, work.op = "member", NEW c, c = work.curr, NEW i, i = work.ref
    PROVE  /\ ~ Releasing
           /\ c \in Loaded
           /\ c \in Cells
           /\ i \in DOMAIN pool[c]
           /\ Entry = pool[c][i]
           /\ Entry = FileOf[name[c]][i]
           /\ Entry.tag \in Refs
           /\ Entry.sig \in DOMAIN pool[c]
           /\ Signature \in Entries
           /\ Signature.tag = "NameAndType"
           /\ Signature.member \in Int
           /\ Signature.member = FileOf[name[c]][Entry.sig].member
           /\ BindingRight(Signature, name[c], Entry.sig)
           /\ RefClass \in Loaded
           /\ Refers(RefClass, FileOf[name[c]][Entry.class].name)
<1>1. /\ ~ Releasing /\ c \in Loaded /\ Entry = pool[c][i]
      /\ Waits(c, i, Entry.class) /\ pool[c][Entry.class].resolved
  BY DEF Releasing, LinkerInv, MemberInv, Entry
<1>2. /\ i \in DOMAIN pool[c] /\ Entry.tag \in Refs /\ ~ Entry.resolved
  BY <1>1 DEF Waits
<1>3. /\ c \in Cells
      /\ Entry = FileOf[name[c]][i]
      /\ Entry.class \in DOMAIN pool[c]
      /\ pool[c][Entry.class].tag = "Class"
      /\ Entry.sig \in DOMAIN pool[c]
      /\ pool[c][Entry.sig].tag = "NameAndType"
  <2>k. PICK k : k = Entry.class
    OBVIOUS
  <2>w. Waits(c, i, k)
    BY <1>1, <2>k
  <2>l. Leads(c, i, k)
    BY <1>1, <2>w, PendingRef
  <2>1. /\ pool[c][i] = FileOf[name[c]][i]
        /\ k \in DOMAIN pool[c]
        /\ pool[c][k].tag = "Class"
        /\ pool[c][i].sig \in DOMAIN pool[c]
        /\ pool[c][pool[c][i].sig].tag = "NameAndType"
    BY <2>l DEF Leads
  <2>2. c \in Cells
    BY <1>1 DEF Loaded
  <2>3. QED
    BY <1>1, <2>k, <2>1, <2>2
<1>4. Signature = pool[c][Entry.sig] /\ RefClass = pool[c][Entry.class].r_class
  BY DEF Signature, RefClass
<1>5. Signature \in Entries /\ BindingRight(Signature, name[c], Entry.sig)
  BY <1>1, <1>3, <1>4, PoolEntry
<1>6. Signature.member \in Int
  BY <1>3, <1>4, <1>5, SignatureForm
<1>7. Signature.member = FileOf[name[c]][Entry.sig].member
  BY <1>3, <1>4, <1>5 DEF BindingRight
<1>8. BindingRight(pool[c][Entry.class], name[c], Entry.class)
  BY <1>1, <1>3, PoolEntry
<1>9. Refers(RefClass, FileOf[name[c]][Entry.class].name)
  BY <1>1, <1>3, <1>4, <1>8 DEF BindingRight
<1>10. QED
  BY <1>1, <1>2, <1>3, <1>4, <1>5, <1>6, <1>7, <1>9 DEF Refers

\* The signature of a reference is marked whether the member is found or not.
LEMMA MarkedSignature ==
    ASSUME LinkerInv, work.op = "member", NEW c, c = work.curr
    PROVE  /\ ResolvedSignature \in Entries
           /\ BindingRight(ResolvedSignature, name[c], Entry.sig)
<1>1. /\ Signature \in Entries
      /\ Signature.tag = "NameAndType"
      /\ BindingRight(Signature, name[c], Entry.sig)
  BY Referring
<1>2. /\ ResolvedSignature \in Entries
      /\ ResolvedSignature.tag = "NameAndType"
      /\ ResolvedSignature.resolved
      /\ ResolvedSignature.member = Signature.member
  BY <1>1, MarkedForm DEF ResolvedSignature
<1>3. QED
  BY <1>1, <1>2 DEF BindingRight, Refs

LEMMA MemberFoundInv ==
    ASSUME LinkerInv, MemberFound
    PROVE  LinkerInv'
<1>1. work.op = "member" /\ Declared /\ work' = Idle /\ UNCHANGED <<name, next>>
  BY DEF MemberFound
<1>c. PICK c : c = work.curr
  OBVIOUS
<1>i. PICK i : i = work.ref
  OBVIOUS
<1>s. PICK s : s = Entry.sig
  OBVIOUS
<1>v. PICK v : v = [tag |-> Entry.tag, resolved |-> TRUE,
                    r_class |-> RefClass, r_member |-> Signature.member]
  OBVIOUS
<1>2. /\ ~ Releasing /\ c \in Loaded /\ c \in Cells /\ i \in DOMAIN pool[c]
      /\ s \in DOMAIN pool[c]
  BY <1>1, <1>c, <1>i, <1>s, Referring
<1>3. v \in Entries /\ BindingRight(v, name[c], i)
  <2>1. /\ Entry.tag \in Refs
        /\ Signature.member \in Int
        /\ RefClass \in Loaded
        /\ Refers(RefClass, FileOf[name[c]][Entry.class].name)
        /\ Signature.member = FileOf[name[c]][Entry.sig].member
        /\ Entry = FileOf[name[c]][i]
    BY <1>1, <1>c, <1>i, Referring
  <2>2. RefClass \in Cells
    BY <2>1 DEF Loaded
  <2>3. v \in Entries
    BY <1>v, <2>1, <2>2, ResolvedRefForm
  <2>4. /\ v.tag = Entry.tag /\ v.resolved /\ v.r_class = RefClass
        /\ v.r_member = Signature.member
    BY <1>v
  <2>5. v.r_member \in MembersOf[name[RefClass]][v.tag]
    BY <1>1, <2>4 DEF Declared
  <2>6. QED
    BY <2>1, <2>3, <2>4, <2>5 DEF BindingRight, Refs
<1>4. ResolvedSignature \in Entries /\ BindingRight(ResolvedSignature, name[c], s)
  BY <1>1, <1>c, <1>s, MarkedSignature
<1>5. pool' = [pool EXCEPT ![c][s] = ResolvedSignature, ![c][i] = v]
  BY <1>c, <1>i, <1>s, <1>v DEF MemberFound, Target
<1>6. /\ DOMAIN pool' = Cells
      /\ \A d \in Cells : DOMAIN pool'[d] = DOMAIN pool[d]
      /\ \A d \in Cells : \A j \in DOMAIN pool[d] :
            pool'[d][j] = IF d = c /\ j = i THEN v
                          ELSE IF d = c /\ j = s THEN ResolvedSignature ELSE pool[d][j]
  <2>1. DOMAIN pool = Cells
    BY DEF LinkerInv, TypeOK
  <2>2. PICK p : p = [pool EXCEPT ![c][s] = ResolvedSignature]
    OBVIOUS
  <2>3. /\ DOMAIN p = Cells
        /\ \A d \in Cells : DOMAIN p[d] = DOMAIN pool[d]
        /\ \A d \in Cells : \A j \in DOMAIN pool[d] :
              p[d][j] = IF d = c /\ j = s THEN ResolvedSignature ELSE pool[d][j]
    BY <1>2, <2>1, <2>2, Amend
  <2>4. pool' = [p EXCEPT ![c][i] = v]
    BY <1>5, <2>2
  <2>5. /\ DOMAIN pool' = Cells
        /\ \A d \in Cells : DOMAIN pool'[d] = DOMAIN p[d]
        /\ \A d \in Cells : \A j \in DOMAIN p[d] :
              pool'[d][j] = IF d = c /\ j = i THEN v ELSE p[d][j]
    BY <1>2, <2>3, <2>4, Amend
  <2>6. QED
    BY <2>3, <2>5
<1>7. /\ \A d \in Cells : \A j \in DOMAIN pool'[d] : pool'[d][j] \in Entries
      /\ BindingsRight'
  <2>1. \A d \in Cells : \A j \in DOMAIN pool[d] :
            \/ pool'[d][j] = pool[d][j]
            \/ d = c /\ pool'[d][j] \in Entries /\ BindingRight(pool'[d][j], name[c], j)
    BY <1>3, <1>4, <1>6
  <2>2. QED
    BY <1>1, <1>2, <1>6, <2>1, PoolChanged
<1>8. /\ OneClassPerName'
      /\ RingInv'
      /\ name' \in [Cells -> Names \cup {None}]
      /\ next' \in [Cells -> Cells \cup {None}]
  BY <1>1, <1>2, RingAlone
<1>9. TypeOK'
  BY <1>1, <1>6, <1>7, <1>8 DEF TypeOK, Places
<1>10. QED
  BY <1>1, <1>7, <1>8, <1>9, AtRest

LEMMA MemberMissingInv ==
    ASSUME LinkerInv, MemberMissing
    PROVE  LinkerInv'
<1>1. work.op = "member" /\ work' = Exit /\ UNCHANGED <<name, next>>
  BY DEF MemberMissing
<1>c. PICK c : c = work.curr
  OBVIOUS
<1>s. PICK s : s = Entry.sig
  OBVIOUS
<1>v. PICK v : v = ResolvedSignature
  OBVIOUS
<1>2. ~ Releasing /\ c \in Loaded /\ s \in DOMAIN pool[c]
  BY <1>1, <1>c, <1>s, Referring
<1>3. v \in Entries /\ BindingRight(v, name[c], s)
  BY <1>1, <1>c, <1>s, <1>v, MarkedSignature
<1>4. pool' = [pool EXCEPT ![c][s] = v]
  BY <1>c, <1>s, <1>v DEF MemberMissing
<1>5. /\ DOMAIN pool' = Cells
      /\ \A d \in Cells : \A j \in DOMAIN pool'[d] : pool'[d][j] \in Entries
      /\ BindingsRight'
  BY <1>1, <1>2, <1>3, <1>4, PoolAmended
<1>6. /\ OneClassPerName'
      /\ RingInv'
      /\ name' \in [Cells -> Names \cup {None}]
      /\ next' \in [Cells -> Cells \cup {None}]
  BY <1>1, <1>2, RingAlone
<1>7. TypeOK'
  BY <1>1, <1>5, <1>6 DEF TypeOK, Places
<1>8. QED
  BY <1>1, <1>5, <1>6, <1>7, AtRest

----------------------------------------------------------------------------
(* The release. *)

\* Once the release has begun, only the place and the types are left to show.
LEMMA ReleaseBegun ==
    ASSUME OneClassPerName', TypeOK', FreeInv', work'.op \in {"free", "released"}
    PROVE  LinkerInv'
<1>1. RingInv' /\ BindingsRight'
  BY DEF RingInv, BindingsRight, Releasing
<1>2. WalkInv' /\ MemberInv'
  BY DEF WalkInv, MemberInv
<1>3. QED
  BY <1>1, <1>2 DEF LinkerInv

LEMMA free_vmInv ==
    ASSUME LinkerInv, free_vm
    PROVE  LinkerInv'
<1>1. /\ work = Idle /\ ~ Releasing
      /\ work' = [op |-> "free", clas |-> MainCell]
      /\ UNCHANGED <<name, next, pool>>
  BY DEF free_vm, Releasing, Idle
<1>2. work'.op = "free" /\ work'.clas = MainCell /\ work' # Released
  BY <1>1 DEF Released
<1>3. Loaded' = Loaded /\ OneClassPerName'
  BY <1>1, RingAlone
<1>4. TypeOK'
  <2>1. work' \in Places
    BY <1>1, LinkerAssumption DEF Places
  <2>2. QED
    BY <1>1, <2>1 DEF LinkerInv, TypeOK
<1>5. FreeInv'
  <2>1. /\ MainCell \in Loaded
        /\ \A c \in Loaded : next[c] \in Loaded
        /\ \A c, d \in Loaded : next[c] = next[d] => c = d
        /\ \A S \in SUBSET Loaded :
              S # {} /\ (\A c \in S : next[c] \in S) => S = Loaded
    BY <1>1 DEF LinkerInv, RingInv
  <2>2. ASSUME NEW S \in SUBSET Loaded, MainCell \in S,
               \A c \in S : next[c] \in S \cup {MainCell}
        PROVE  S = Loaded
    BY <2>1, <2>2
  <2>3. QED
    BY <1>1, <1>2, <1>3, <2>1, <2>2 DEF FreeInv
<1>6. QED
  BY <1>2, <1>3, <1>4, <1>5, ReleaseBegun

LEMMA free_classInv ==
    ASSUME LinkerInv, free_class
    PROVE  LinkerInv'
<1>c. PICK c : c = work.clas
  OBVIOUS
<1>n. PICK n : n = next[c]
  OBVIOUS
<1>1. /\ work.op = "free"
      /\ name' = [name EXCEPT ![c] = None]
      /\ next' = [next EXCEPT ![c] = None]
      /\ pool' = [pool EXCEPT ![c] = << >>]
      /\ work' = IF n = MainCell THEN Released ELSE [work EXCEPT !.clas = n]
  BY <1>c, <1>n DEF free_class, NextBeforeFree
<1>2. /\ c \in Loaded
      /\ (MainCell \in Loaded) = (c = MainCell)
      /\ \A d \in Loaded : next[d] \in (Loaded \ {c}) \cup {MainCell}
      /\ \A d, e \in Loaded : next[d] = next[e] => d = e
      /\ \A S \in SUBSET Loaded :
            c \in S /\ (\A d \in S : next[d] \in S \cup {MainCell}) => S = Loaded
  BY <1>1, <1>c DEF LinkerInv, FreeInv
<1>3. /\ name \in [Cells -> Names \cup {None}]
      /\ next \in [Cells -> Cells \cup {None}]
      /\ DOMAIN pool = Cells
      /\ \A d \in Cells : \A i \in DOMAIN pool[d] : pool[d][i] \in Entries
      /\ work \in [op : {"free"}, clas : Cells]
      /\ c \in Cells
  BY <1>1, <1>2, PlaceForms DEF LinkerInv, TypeOK, Loaded
<1>4. Loaded' = Loaded \ {c}
  BY <1>1, <1>3 DEF Loaded
<1>5. \A d \in Loaded' : name'[d] = name[d] /\ next'[d] = next[d]
  BY <1>1, <1>3, <1>4 DEF Loaded
<1>6. OneClassPerName'
  BY <1>4, <1>5 DEF LinkerInv, OneClassPerName
<1>7. /\ name' \in [Cells -> Names \cup {None}]
      /\ next' \in [Cells -> Cells \cup {None}]
      /\ DOMAIN pool' = Cells
      /\ \A d \in Cells : \A i \in DOMAIN pool'[d] : pool'[d][i] \in Entries
  BY <1>1, <1>3
<1>8. CASE n = MainCell
  <2>1. work' = Released
    BY <1>1, <1>8
  <2>2. {c} = Loaded
    <3>1. {c} \in SUBSET Loaded /\ c \in {c}
      BY <1>2
    <3>2. \A d \in {c} : next[d] \in {c} \cup {MainCell}
      BY <1>n, <1>8
    <3>3. QED
      BY <1>2, <3>1, <3>2
  <2>3. Loaded' = {}
    BY <1>4, <2>2
  <2>4. FreeInv' /\ work'.op = "released"
    BY <2>1, <2>3 DEF FreeInv, Released
  <2>5. TypeOK'
    BY <1>7, <2>1 DEF TypeOK, Places
  <2>6. QED
    BY <1>6, <2>4, <2>5, ReleaseBegun
<1>9. CASE n # MainCell
  <2>1. n \in Loaded \ {c} /\ n \in Cells
    BY <1>2, <1>n, <1>9 DEF Loaded
  <2>2. work' \in [op : {"free"}, clas : Cells] /\ work'.op = "free" /\ work'.clas = n
    BY <1>1, <1>3, <1>9, <2>1
  <2>3. TypeOK'
    BY <1>7, <2>2 DEF TypeOK, Places
  <2>4. \A d \in Loaded' : next'[d] \in (Loaded' \ {n}) \cup {MainCell}
    BY <1>2, <1>4, <1>5, <1>n
  <2>5. \A d, e \in Loaded' : next'[d] = next'[e] => d = e
    BY <1>2, <1>4, <1>5
  <2>6. ASSUME NEW S \in SUBSET Loaded', n \in S,
               \A d \in S : next'[d] \in S \cup {MainCell}
        PROVE  S = Loaded'
    <3>1. S \cup {c} \in SUBSET Loaded
      BY <1>2, <1>4, <2>6
    <3>2. \A d \in S : next[d] \in S \cup {MainCell}
      BY <1>5, <2>6
    <3>3. \A d \in S \cup {c} : next[d] \in (S \cup {c}) \cup {MainCell}
      BY <1>n, <2>6, <3>2
    <3>4. S \cup {c} = Loaded
      BY <1>2, <3>1, <3>3
    <3>5. QED
      BY <1>4, <2>6, <3>4
  <2>7. (MainCell \in Loaded') = (n = MainCell)
    BY <1>2, <1>4, <1>9
  <2>8. FreeInv'
    BY <1>4, <2>1, <2>2, <2>4, <2>5, <2>6, <2>7 DEF FreeInv, Released
  <2>9. QED
    BY <1>6, <2>2, <2>3, <2>8, ReleaseBegun
<1>10. QED
  BY <1>8, <1>9

----------------------------------------------------------------------------
(* The theorems. *)

LEMMA InitLinkerInv ==
    ASSUME Init
    PROVE  LinkerInv
<1>1. /\ Loaded = {MainCell}
      /\ name[MainCell] = Main
      /\ next[MainCell] = MainCell
      /\ pool[MainCell] = FileOf[Main]
      /\ Main \in Names
      /\ MainCell \in Cells
  BY LinkerAssumption DEF Init, Loaded
<1>2. TypeOK
  <2>1. \A c \in Cells : \A i \in DOMAIN pool[c] : pool[c][i] \in Entries
    BY <1>1, FileEntries DEF Init
  <2>2. QED
    BY <1>1, <2>1 DEF Init, TypeOK, Places
<1>3. OneClassPerName
  BY <1>1 DEF OneClassPerName
<1>4. BindingsRight
  BY <1>1, BindingUnresolved DEF BindingsRight
<1>5. RingInv
  BY <1>1 DEF RingInv
<1>6. work.op = "idle" /\ work # Released
  BY DEF Init, Idle, Released
<1>7. WalkInv /\ MemberInv /\ FreeInv
  BY <1>6 DEF WalkInv, MemberInv, FreeInv
<1>8. QED
  BY <1>2, <1>3, <1>4, <1>5, <1>7 DEF LinkerInv

LEMMA StutterLinkerInv ==
    ASSUME LinkerInv, UNCHANGED vars
    PROVE  LinkerInv'
<1>1. /\ UNCHANGED <<name, next, pool>>
      /\ work' = work
      /\ Loaded' = Loaded
      /\ Releasing' = Releasing
  BY DEF vars, Loaded, Releasing
<1>2. TypeOK' /\ OneClassPerName' /\ RingInv'
  BY <1>1 DEF LinkerInv, TypeOK, OneClassPerName, RingInv
<1>3. BindingsRight'
  <2>1. CASE Releasing
    BY <1>1, <2>1 DEF BindingsRight
  <2>2. CASE ~ Releasing
    BY <1>1, <2>2, BindingsAlone
  <2>3. QED
    BY <2>1, <2>2
<1>4. WalkInv'
  BY <1>1 DEF LinkerInv, WalkInv, Searched, Waits, Wanted
<1>5. MemberInv' /\ FreeInv'
  BY <1>1 DEF LinkerInv, MemberInv, Waits, Entry, FreeInv
<1>6. QED
  BY <1>2, <1>3, <1>4, <1>5 DEF LinkerInv

LEMMA NextLinkerInv ==
    ASSUME LinkerInv, [Next]_vars
    PROVE  LinkerInv'
<1>1. CASE \E c \in Loaded : Runs(c) /\ \E i \in DOMAIN pool[c] :
              resolve_const(c, i) \/ resolve_ref(c, i)
  BY <1>1, resolve_constInv, resolve_refInv
<1>2. CASE WalkOn
  BY <1>2, WalkOnInv
<1>3. CASE WalkFinds
  BY <1>3, WalkFindsInv
<1>4. CASE WalkLoads
  BY <1>4, WalkLoadsInv
<1>5. CASE WalkFails
  BY <1>5, WalkFailsInv
<1>6. CASE MemberFound
  BY <1>6, MemberFoundInv
<1>7. CASE MemberMissing
  BY <1>7, MemberMissingInv
<1>8. CASE free_class
  BY <1>8, free_classInv
<1>9. CASE free_vm
  BY <1>9, free_vmInv
<1>10. CASE Stopped
  BY <1>10, StutterLinkerInv DEF Stopped
<1>11. CASE UNCHANGED vars
  BY <1>11, StutterLinkerInv
<1>12. QED
  BY <1>1, <1>2, <1>3, <1>4, <1>5, <1>6, <1>7, <1>8, <1>9, <1>10, <1>11 DEF Next, Busy

\* The inductive invariant: the ring, the bindings, and what each place of a
\* resolution or of the release knows of them.
THEOREM LinkerInvariant == Spec => []LinkerInv
<1>1. Init => LinkerInv
  BY InitLinkerInv
<1>2. LinkerInv /\ [Next]_vars => LinkerInv'
  BY NextLinkerInv
<1>3. QED
  BY <1>1, <1>2, PTL DEF Spec

\* Every pool entry, pointer and place of the code has one of its forms.
THEOREM LinkerTypes == Spec => []TypeOK
<1>1. LinkerInv => TypeOK
  BY DEF LinkerInv
<1>2. QED
  BY <1>1, LinkerInvariant, PTL

\* Wherever a search through the ring starts, it meets every loaded class:
\* link_class never splits the ring, however many classes are linked.
THEOREM OneRing == Spec => []RingWhole
<1>1. LinkerInv => RingWhole
  BY DEF LinkerInv, RingInv, RingWhole
<1>2. QED
  BY <1>1, LinkerInvariant, PTL

\* resolve_class never loads a class that is loaded already.
THEOREM LoadedOnce == Spec => []OneClassPerName
<1>1. LinkerInv => OneClassPerName
  BY DEF LinkerInv
<1>2. QED
  BY <1>1, LinkerInvariant, PTL

\* Every resolved entry leads to the class and the member its file names.
THEOREM BoundRight == Spec => []BindingsRight
<1>1. LinkerInv => BindingsRight
  BY DEF LinkerInv
<1>2. QED
  BY <1>1, LinkerInvariant, PTL

\* No resolution reads an index that a pointer has replaced, nor a pointer that
\* is still an index.
THEOREM IndicesRead == Spec => []ResolvedOnce
<1>1. LinkerInv => ResolvedOnce
  BY DEF LinkerInv, WalkInv, MemberInv, Waits, ResolvedOnce, IS_RESOLVED, Entry
<1>2. QED
  BY <1>1, LinkerInvariant, PTL

\* free_all_linked_classes frees each class once and forgets none.
THEOREM ClassesFreedOnce == Spec => []FreedOnce
<1>1. LinkerInv => FreedOnce
  BY DEF LinkerInv, FreeInv, FreedOnce
<1>2. QED
  BY <1>1, LinkerInvariant, PTL

=============================================================================
