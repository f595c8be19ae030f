-------------------------- MODULE StringPoolProofs --------------------------
(***************************************************************************)
(* The string pool keeps one address per text, for any number of buckets   *)
(* and any hash function, and is a map from texts to addresses.            *)
(***************************************************************************)
EXTENDS StringPool, TLAPS

LEMMA TablesAreEmpty ==
    ASSUME hashtable = EmptyTable
    PROVE  Pooled = {} /\ OneNodePerText
BY DEF EmptyTable, Pooled, OneNodePerText

\* What a chain holds are addresses that are allocated and hash to it.
LEMMA ChainElements ==
    ASSUME PoolInv, NEW b \in Buckets, NEW i \in DOMAIN hashtable[b]
    PROVE  /\ hashtable[b] \in Seq(Addresses)
           /\ hashtable[b][i] \in Addresses
           /\ hashtable[b][i] \in Pooled
           /\ text[hashtable[b][i]] \in Texts
           /\ BucketAt(hashtable[b][i]) = b
<1>1. hashtable[b] \in Seq(Addresses)
  BY DEF PoolInv, TypeOK
<1>2. hashtable[b][i] \in Addresses
  BY <1>1
<1>3. text[hashtable[b][i]] \in Texts
  BY <1>2 DEF PoolInv, TypeOK, OneNodePerText
<1>4. QED
  BY <1>1, <1>2, <1>3 DEF PoolInv, OneNodePerText, Pooled

\* No text is stored twice, whatever the buckets.
LEMMA StoredOnce ==
    ASSUME PoolInv, NEW a \in Pooled, NEW b \in Pooled, text[a] = text[b]
    PROVE  a = b
<1>k. PICK k \in Buckets : \E i \in DOMAIN hashtable[k] : hashtable[k][i] = a
  BY DEF Pooled
<1>1. PICK i \in DOMAIN hashtable[k] : hashtable[k][i] = a
  BY <1>k
<1>l. PICK l \in Buckets : \E j \in DOMAIN hashtable[l] : hashtable[l][j] = b
  BY DEF Pooled
<1>2. PICK j \in DOMAIN hashtable[l] : hashtable[l][j] = b
  BY <1>l
<1>3. BucketAt(a) = k /\ BucketAt(b) = l
  BY <1>1, <1>2, ChainElements
<1>4. k = l
  BY <1>3 DEF BucketAt
<1>5. i = j
  BY <1>1, <1>2, <1>4 DEF PoolInv, OneNodePerText
<1>6. QED
  BY <1>1, <1>2, <1>4, <1>5

LEMMA PooledAllocated ==
    ASSUME PoolInv, NEW a \in Pooled
    PROVE  a \in Addresses /\ text[a] \in Texts
BY ChainElements DEF Pooled

\* During a call the chain that is searched is one of the table.
LEMMA CallChain ==
    ASSUME PoolInv, call # Idle
    PROVE  /\ call.str \in Addresses
           /\ call.caller \in Callers
           /\ call.node \in Nat \ {0}
           /\ text[call.str] \in Texts
           /\ BucketAt(call.str) \in Buckets
           /\ Chain \in Seq(Addresses)
BY PoolAssumption DEF PoolInv, TypeOK, BucketAt, Chain

\* An answer releases nothing: a text found is the text asked for, and a
\* buffer that was stored is its own answer.
LEMMA NothingReleased ==
    ASSUME PoolInv, Found \/ Store \/ NotFound
    PROVE  text' = text
<1>1. CASE Found
  BY <1>1 DEF Found, Return, Release, SameText
<1>2. CASE Store
  BY <1>2 DEF Store, Return, Release
<1>3. CASE NotFound
  BY <1>3 DEF NotFound, Return, Release, Finding
<1>4. QED
  BY <1>1, <1>2, <1>3

\* The end of the chain: no node holds the text.
LEMMA NoneFound ==
    ASSUME PoolInv, AtEnd
    PROVE  \A i \in DOMAIN Chain : text[Chain[i]] # text[call.str]
<1>1. /\ call.node \in Nat \ {0} /\ Chain \in Seq(Addresses)
  BY CallChain DEF AtEnd
<1>2. CASE Chain = << >>
  BY <1>2
<1>3. CASE Chain # << >>
  <2>1. call.node = Len(Chain) /\ text[Chain[call.node]] # text[call.str]
    BY <1>3 DEF AtEnd, Reached, SameText, AtNode
  <2>2. \A i \in 1 .. call.node - 1 : text[Chain[i]] # text[call.str]
    BY DEF PoolInv, SearchedBehind, AtEnd
  <2>3. QED
    BY <1>1, <2>1, <2>2
<1>4. QED
  BY <1>2, <1>3

----------------------------------------------------------------------------
(* The inductive invariant. *)

LEMMA InitPoolInv ==
    ASSUME Init
    PROVE  PoolInv
<1>1. TypeOK
  <2>1. hashtable \in [Buckets -> Seq(Addresses)]
    BY DEF Init, EmptyTable
  <2>2. text \in [Addresses -> Texts \cup {Freed}]
    BY PoolAssumption DEF Init
  <2>3. QED
    BY <2>1, <2>2 DEF Init, TypeOK
<1>2. LiteralsStand
  BY DEF Init, LiteralsStand, Addresses
<1>3. Pooled = {} /\ OneNodePerText
  BY TablesAreEmpty DEF Init
<1>4. QED
  BY <1>1, <1>2, <1>3 DEF Init, PoolInv, SearchedBehind

\* An empty table, before the first call or after the last.
LEMMA ResetPoolInv ==
    ASSUME PoolInv, call = Idle, hashtable' = EmptyTable, allocated' \in BOOLEAN,
           held' \subseteq held, held = {} \/ held' = {}, UNCHANGED <<text, call, reply>>
    PROVE  PoolInv'
<1>1. Pooled' = {} /\ OneNodePerText'
  BY DEF Pooled, OneNodePerText, EmptyTable
<1>2. TypeOK'
  BY DEF PoolInv, TypeOK, EmptyTable
<1>3. QED
  BY <1>1, <1>2 DEF PoolInv, LiteralsStand, SearchedBehind

\* A call begins: at most memory that was not allocated has changed.
LEMMA BeginPoolInv ==
    ASSUME PoolInv, NEW caller \in Callers, NEW a \in Addresses, Begin(caller, a),
           text' \in [Addresses -> Texts \cup {Freed}],
           text'[a] # Freed,
           \A x \in Addresses : text[x] # Freed => text'[x] = text[x]
    PROVE  PoolInv'
<1>1. /\ call' = [caller |-> caller, str |-> a, node |-> 1]
      /\ UNCHANGED <<allocated, hashtable, held>>
      /\ reply' = Null /\ allocated
  BY DEF Begin
<1>2. TypeOK'
  BY <1>1 DEF PoolInv, TypeOK
<1>3. LiteralsStand'
  <2>1. \A x \in Literals : x \in Addresses /\ text[x] = LiteralText[x] /\ text[x] # Freed
    BY PoolAssumption DEF PoolInv, LiteralsStand, Addresses
  <2>2. QED
    BY <2>1 DEF LiteralsStand
<1>4. Pooled' = Pooled
  BY <1>1 DEF Pooled
<1>5. OneNodePerText'
  <2>1. ASSUME NEW b \in Buckets, NEW i \in DOMAIN hashtable[b]
        PROVE  /\ text'[hashtable[b][i]] = text[hashtable[b][i]]
               /\ text[hashtable[b][i]] # Freed
               /\ BucketOf[text[hashtable[b][i]]] = b
    BY <2>1, ChainElements, PoolAssumption DEF BucketAt
  <2>2. QED
    BY <1>1, <2>1 DEF PoolInv, OneNodePerText, BucketAt
<1>6. SearchedBehind'
  <2>1. \A i \in 1 .. call'.node - 1 : FALSE
    BY <1>1
  <2>2. Chain' \in Seq(Addresses)
    BY <1>1, PoolAssumption DEF PoolInv, TypeOK, Chain, BucketAt
  <2>3. Chain' = << >> \/ call'.node \in DOMAIN Chain'
    BY <1>1, <2>2
  <2>4. QED
    BY <2>1, <2>3 DEF SearchedBehind
<1>7. QED
  BY <1>1, <1>2, <1>3, <1>4, <1>5, <1>6 DEF PoolInv

\* A call that leaves the table alone is answered.
LEMMA AnswerPoolInv ==
    ASSUME PoolInv, Found \/ NotFound
    PROVE  PoolInv'
<1>1. text' = text /\ hashtable' = hashtable /\ allocated' = allocated /\ call' = Idle
  BY NothingReleased DEF Found, NotFound, Return
<1>2. Pooled' = Pooled /\ OneNodePerText'
  BY <1>1 DEF Pooled, OneNodePerText, BucketAt, PoolInv
<1>3. reply' \in Addresses \cup {Null} /\ held' \subseteq Pooled
  <2>1. CASE Found
    <3>1. Reached /\ reply' = AtNode /\ held' = held \cup ({AtNode} \ {Null})
      BY <2>1 DEF Found, Return
    <3>2. Chain # << >> /\ call # Idle /\ call.node \in DOMAIN Chain
      BY <2>1, <3>1 DEF Found, Reached, PoolInv, SearchedBehind
    <3>3. AtNode \in Addresses /\ AtNode \in Pooled
      BY <3>2, CallChain, ChainElements DEF AtNode, Chain
    <3>4. QED
      BY <3>1, <3>3 DEF PoolInv
  <2>2. CASE NotFound
    BY <2>2 DEF NotFound, Return, PoolInv
  <2>3. QED
    BY <2>1, <2>2
<1>4. TypeOK'
  BY <1>1, <1>2, <1>3, PooledAllocated DEF PoolInv, TypeOK
<1>5. QED
  BY <1>1, <1>2, <1>3, <1>4 DEF PoolInv, LiteralsStand, SearchedBehind

\* The loop goes on to the next node.
LEMMA AdvancePoolInv ==
    ASSUME PoolInv, Advance
    PROVE  PoolInv'
<1>1. /\ call # Idle /\ Chain # << >> /\ ~ SameText /\ call.node < Len(Chain)
      /\ call' = [call EXCEPT !.node = @ + 1]
      /\ UNCHANGED <<allocated, hashtable, text, reply, held>>
  BY DEF Advance, Reached
<1>2. call \in [caller : Callers, str : Addresses, node : Nat \ {0}]
  BY <1>1 DEF PoolInv, TypeOK
<1>3. /\ call'.node = call.node + 1 /\ call'.str = call.str
      /\ call' \in [caller : Callers, str : Addresses, node : Nat \ {0}]
  BY <1>1, <1>2
<1>4. TypeOK'
  BY <1>1, <1>3 DEF PoolInv, TypeOK
<1>5. Chain' = Chain /\ Chain \in Seq(Addresses)
  BY <1>1, <1>3, CallChain DEF Chain, BucketAt
<1>6. SearchedBehind'
  <2>1. call'.node \in DOMAIN Chain'
    BY <1>1, <1>2, <1>3, <1>5
  <2>2. \A i \in 1 .. call.node - 1 : text[Chain[i]] # text[call.str]
    BY <1>1 DEF PoolInv, SearchedBehind
  <2>3. text[Chain[call.node]] # text[call.str]
    BY <1>1 DEF SameText, AtNode
  <2>4. \A i \in 1 .. call'.node - 1 : text[Chain[i]] # text[call.str]
    BY <1>2, <1>3, <2>2, <2>3
  <2>5. QED
    BY <1>1, <1>3, <1>5, <2>1, <2>4 DEF SearchedBehind
<1>7. Pooled' = Pooled /\ OneNodePerText'
  BY <1>1 DEF Pooled, OneNodePerText, BucketAt, PoolInv
<1>8. call' # Idle
  BY <1>1, <1>2, <1>3 DEF Idle, Callers, Adders
<1>9. QED
  BY <1>1, <1>4, <1>6, <1>7 DEF PoolInv, LiteralsStand

\* A text that no node holds is stored behind the last one.
LEMMA StorePoolInv ==
    ASSUME PoolInv, Store
    PROVE  /\ PoolInv'
           /\ Pooled' = Pooled \cup {call.str}
           /\ \A a \in Pooled : text[a] # text[call.str]
<1> DEFINE k == BucketAt(call.str)
           s == call.str
           new == Append(hashtable[k], s)
<1>1. /\ call # Idle /\ AtEnd /\ s \in Addresses /\ k \in Buckets
      /\ text[s] \in Texts /\ call.caller \in Callers
      /\ hashtable[k] \in Seq(Addresses) /\ Chain = hashtable[k]
  BY CallChain DEF Store, AtEnd, Chain
<1>2. /\ text' = text /\ allocated' = allocated /\ call' = Idle
      /\ reply' = s /\ held' = held \cup ({s} \ {Null})
      /\ hashtable' = [hashtable EXCEPT ![k] = new]
  BY NothingReleased DEF Store, Return
<1>3. hashtable \in [Buckets -> Seq(Addresses)]
  BY DEF PoolInv, TypeOK
<1>4. /\ new \in Seq(Addresses) /\ DOMAIN new = DOMAIN hashtable[k] \cup {Len(hashtable[k]) + 1}
      /\ Len(hashtable[k]) + 1 \notin DOMAIN hashtable[k]
      /\ new[Len(hashtable[k]) + 1] = s
      /\ \A i \in DOMAIN hashtable[k] : new[i] = hashtable[k][i]
  BY <1>1
<1>5. hashtable'[k] = new /\ \A b \in Buckets \ {k} : hashtable'[b] = hashtable[b]
  BY <1>1, <1>2, <1>3
<1> HIDE DEF new
<1>6. \A i \in DOMAIN hashtable[k] : text[hashtable[k][i]] # text[s]
  BY <1>1, NoneFound
<1>7. \A a \in Pooled : text[a] # text[s]
  <2>1. SUFFICES ASSUME NEW a \in Pooled, text[a] = text[s] PROVE FALSE
    OBVIOUS
  <2>2. PICK b \in Buckets : \E i \in DOMAIN hashtable[b] : hashtable[b][i] = a
    BY DEF Pooled
  <2>3. PICK i \in DOMAIN hashtable[b] : hashtable[b][i] = a
    BY <2>2
  <2>4. BucketAt(a) = b
    BY <2>3, ChainElements
  <2>5. b = k
    BY <2>1, <2>4 DEF BucketAt
  <2>6. QED
    BY <1>6, <2>1, <2>3, <2>5
<1>8. Pooled' = Pooled \cup {s}
  <2>1. ASSUME NEW a \in Pooled' PROVE a \in Pooled \cup {s}
    <3>1. PICK b \in Buckets : \E i \in DOMAIN hashtable'[b] : hashtable'[b][i] = a
      BY <2>1 DEF Pooled
    <3>2. CASE b = k
      BY <1>4, <1>5, <3>1, <3>2, <2>1 DEF Pooled
    <3>3. CASE b # k
      BY <1>5, <3>1, <3>3, <2>1 DEF Pooled
    <3>4. QED
      BY <3>2, <3>3
  <2>2. ASSUME NEW a \in Pooled PROVE a \in Pooled'
    <3>1. PICK b \in Buckets : \E i \in DOMAIN hashtable[b] : hashtable[b][i] = a
      BY <2>2 DEF Pooled
    <3>2. \E i \in DOMAIN hashtable'[b] : hashtable'[b][i] = a
      BY <1>4, <1>5, <3>1
    <3>3. QED
      BY <2>2, <3>2 DEF Pooled
  <2>3. s \in Pooled'
    BY <1>1, <1>4, <1>5 DEF Pooled
  <2>4. QED
    BY <2>1, <2>2, <2>3
<1>9. TypeOK'
  <2>1. hashtable' \in [Buckets -> Seq(Addresses)]
    BY <1>2, <1>3, <1>4
  <2>2. QED
    BY <1>1, <1>2, <2>1 DEF PoolInv, TypeOK
<1>10. OneNodePerText'
  <2>1. SUFFICES ASSUME NEW b \in Buckets, NEW i \in DOMAIN hashtable'[b]
                 PROVE  /\ text[hashtable'[b][i]] # Freed
                        /\ BucketAt(hashtable'[b][i]) = b
                        /\ \A j \in DOMAIN hashtable'[b] :
                              text[hashtable'[b][i]] = text[hashtable'[b][j]] => i = j
    BY <1>2 DEF OneNodePerText, BucketAt
  <2>2. CASE b # k
    BY <1>5, <2>1, <2>2 DEF PoolInv, OneNodePerText
  <2>3. CASE b = k
    <3>1. \A j \in DOMAIN hashtable[k] : /\ text[hashtable[k][j]] # Freed
                                         /\ BucketAt(hashtable[k][j]) = k
      BY <1>1 DEF PoolInv, OneNodePerText
    <3>2. text[s] # Freed /\ BucketAt(s) = k
      BY <1>1, PoolAssumption
    <3>3. \A j, l \in DOMAIN hashtable[k] :
             text[hashtable[k][j]] = text[hashtable[k][l]] => j = l
      BY <1>1 DEF PoolInv, OneNodePerText
    <3>4. \A j \in DOMAIN new :
             j = Len(hashtable[k]) + 1 \/ (j \in DOMAIN hashtable[k] /\ new[j] = hashtable[k][j])
      BY <1>4
    <3>5. QED
      BY <1>4, <1>5, <1>6, <2>1, <2>3, <3>1, <3>2, <3>3, <3>4
  <2>4. QED
    BY <2>2, <2>3
<1>11. held' \subseteq Pooled'
  BY <1>2, <1>8 DEF PoolInv
<1>12. allocated'
  BY <1>1, <1>2 DEF PoolInv
<1>13. PoolInv'
  BY <1>2, <1>9, <1>10, <1>11, <1>12 DEF PoolInv, LiteralsStand, SearchedBehind
<1>14. QED
  BY <1>7, <1>8, <1>13

LEMMA NextPoolInv ==
    ASSUME PoolInv, [Next]_vars
    PROVE  PoolInv'
<1>1. CASE init_string_pool
  <2>1. held = {}
    BY <1>1, TablesAreEmpty DEF init_string_pool, PoolInv
  <2>2. QED
    BY <1>1, <2>1, ResetPoolInv DEF init_string_pool
<1>2. ASSUME NEW a \in Heap, NEW t \in Texts, parse_constant(a, t)
      PROVE  PoolInv'
  <2>1. a \in Addresses /\ "Utf8" \in Callers /\ Begin("Utf8", a)
    BY <1>2 DEF parse_constant, Addresses, Callers, Adders
  <2>2. text \in [Addresses -> Texts \cup {Freed}] /\ text' = [text EXCEPT ![a] = t]
    BY <1>2 DEF parse_constant, PoolInv, TypeOK
  <2>3. /\ text' \in [Addresses -> Texts \cup {Freed}] /\ text'[a] # Freed
        /\ \A x \in Addresses : text[x] # Freed => text'[x] = text[x]
    BY <1>2, <2>1, <2>2, PoolAssumption DEF parse_constant
  <2>4. QED
    BY <2>1, <2>3, BeginPoolInv
<1>3. ASSUME NEW a \in held, parse_file(a)
      PROVE  PoolInv'
  <2>1. a \in Addresses /\ text[a] # Freed
    BY PooledAllocated, PoolAssumption DEF PoolInv
  <2>2. text' = text /\ "name" \in Callers /\ Begin("name", a)
    BY <1>3 DEF parse_file, Callers, Adders
  <2>3. QED
    BY <2>1, <2>2, BeginPoolInv DEF PoolInv, TypeOK
<1>4. ASSUME NEW a \in Literals, init_natives(a) \/ find_string(a)
      PROVE  PoolInv'
  <2>1. a \in Addresses /\ text[a] # Freed
    BY PoolAssumption DEF PoolInv, LiteralsStand, Addresses
  <2>2. text' = text /\ \E caller \in Callers : Begin(caller, a)
    BY <1>4 DEF init_natives, find_string, Callers, Adders
  <2>3. QED
    BY <2>1, <2>2, BeginPoolInv DEF PoolInv, TypeOK
<1>5. CASE Working
  BY <1>5, AnswerPoolInv, AdvancePoolInv, StorePoolInv DEF Working
<1>6. CASE free_string_pool
  BY <1>6, ResetPoolInv DEF free_string_pool
<1>7. CASE UNCHANGED vars
  BY <1>7 DEF vars, PoolInv, TypeOK, LiteralsStand, Pooled, OneNodePerText, BucketAt,
              SearchedBehind, Chain, EmptyTable
<1>8. QED
  BY <1>1, <1>2, <1>3, <1>4, <1>5, <1>6, <1>7 DEF Next

\* The pool invariant holds in every state of every execution.
THEOREM PoolInvariant == Spec => []PoolInv
<1>1. Init => PoolInv
  BY InitPoolInv
<1>2. PoolInv /\ [Next]_vars => PoolInv'
  BY NextPoolInv
<1>3. QED
  BY <1>1, <1>2, PTL DEF Spec

\* The chains hold addresses of strings, and the buffer of the call under way is
\* not released before the call has answered.
THEOREM BuffersLast == Spec => []TypeOK
<1>1. PoolInv => TypeOK
  BY DEF PoolInv
<1>2. QED
  BY <1>1, PoolInvariant, PTL

\* Comparing addresses decides whether two names are equal, and no string the
\* virtual machine keeps is released.
THEOREM AddressesDecide == Spec => []PointersDecide
<1>1. PoolInv => PointersDecide
  <2>1. SUFFICES ASSUME PoolInv PROVE PointersDecide
    OBVIOUS
  <2>2. \A a \in held : a \in Pooled
    BY <2>1 DEF PoolInv
  <2>3. \A a \in Pooled : text[a] # Freed
    BY <2>1, PooledAllocated, PoolAssumption
  <2>4. \A a, b \in Pooled : text[a] = text[b] => a = b
    BY <2>1, StoredOnce
  <2>5. QED
    BY <2>2, <2>3, <2>4 DEF PointersDecide
<1>2. QED
  BY <1>1, PoolInvariant, PTL

\* No text has two nodes, so the loop over a chain cannot answer with the
\* second of two addresses.
THEOREM StoredUnderOneNode == Spec => []OneNodePerText
<1>1. PoolInv => OneNodePerText
  BY DEF PoolInv
<1>2. QED
  BY <1>1, PoolInvariant, PTL

----------------------------------------------------------------------------
(* The refinement: the table is the map that Interning keeps. *)

\* The node that holds a text, if there is one, is its representative.
LEMMA RepresentativeOf ==
    ASSUME PoolInv, NEW t \in Texts
    PROVE  /\ \A a \in Pooled : text[a] = t => Representative[t] = a
           /\ (\A a \in Pooled : text[a] # t) => Representative[t] = Null
<1>1. ASSUME NEW a \in Pooled, text[a] = t
      PROVE  Representative[t] = a
  <2>1. Standing(t) = {a}
    BY <1>1, StoredOnce DEF Standing
  <2>2. QED
    BY <2>1 DEF Representative
<1>2. ASSUME \A a \in Pooled : text[a] # t
      PROVE  Representative[t] = Null
  BY <1>2 DEF Representative, Standing
<1>3. QED
  BY <1>1, <1>2

Represented ==
    /\ Representative = [t \in Texts |-> Representative[t]]
    /\ \A t \in Texts :
          /\ \A a \in Pooled : text[a] = t => Representative[t] = a
          /\ (\A a \in Pooled : text[a] # t) => Representative[t] = Null

LEMMA RepresentedAlways == PoolInv => Represented
BY RepresentativeOf DEF Represented, Representative

LEMMA InitRefines ==
    ASSUME Init
    PROVE  Pool!Init
<1>1. Representative = Pool!EmptyPool
  BY TablesAreEmpty DEF Init, Representative, Standing, Pool!EmptyPool
<1>2. QED
  BY <1>1 DEF Init, Asked, Pool!Init, Pool!Nothing

\* The map does not change while the table and the strings in it do not.
LEMMA SameMap ==
    ASSUME PoolInv, PoolInv', hashtable' = hashtable,
           \A a \in Addresses : text[a] # Freed => text'[a] = text[a]
    PROVE  Representative' = Representative
<1>1. Pooled' = Pooled
  BY DEF Pooled
<1>2. \A a \in Pooled : text'[a] = text[a]
  BY PooledAllocated, PoolAssumption
<1>3. Represented /\ Represented'
  BY RepresentedAlways, PTL
<1>4. ASSUME NEW t \in Texts PROVE Representative'[t] = Representative[t]
  <2>1. CASE \E a \in Pooled : text[a] = t
    BY <1>1, <1>2, <1>3, <2>1 DEF Represented
  <2>2. CASE \A a \in Pooled : text[a] # t
    BY <1>1, <1>2, <1>3, <2>2 DEF Represented
  <2>3. QED
    BY <2>1, <2>2
<1>5. QED
  BY <1>3, <1>4 DEF Represented

LEMMA BeginRefines ==
    ASSUME PoolInv, NEW caller \in Callers, NEW a \in Addresses, Begin(caller, a),
           text' \in [Addresses -> Texts \cup {Freed}],
           text'[a] # Freed,
           \A x \in Addresses : text[x] # Freed => text'[x] = text[x]
    PROVE  Pool!Next
<1>1. Representative' = Representative
  BY BeginPoolInv, SameMap, PoolAssumption DEF Begin
<1>2. Asked = Pool!Nothing /\ reply' = Null
  BY DEF Begin, Asked, Pool!Nothing
<1>3. call' # Idle /\ call' = [caller |-> caller, str |-> a, node |-> 1]
  BY DEF Begin, Idle, Callers, Adders
<1>4. PICK op \in {"add", "find"} :
        Asked' = [op |-> op, str |-> a, text |-> text'[a]]
  BY <1>3 DEF Asked, Adding
<1>5. Pool!Ask(op, a, text'[a])
  BY <1>1, <1>2, <1>4 DEF Pool!Ask
<1>6. QED
  BY <1>5 DEF Pool!Next

\* During a call the abstract machine has been asked the same.
LEMMA AskedDuringCall ==
    ASSUME PoolInv, call # Idle
    PROVE  /\ Asked.op = IF Adding THEN "add" ELSE "find"
           /\ Asked.str = call.str
           /\ Asked.text = text[call.str] /\ Asked.text \in Texts
BY CallChain DEF Asked

LEMMA FoundRefines ==
    ASSUME PoolInv, Found
    PROVE  Pool!Next
<1>1. /\ text' = text /\ hashtable' = hashtable /\ call' = Idle
      /\ reply' = AtNode /\ text[AtNode] = text[call.str]
      /\ call # Idle /\ Chain # << >>
  BY NothingReleased DEF Found, Return, SameText, Reached
<1>2. AtNode \in Pooled /\ AtNode \in Addresses
  <2>1. call.node \in DOMAIN Chain
    BY <1>1 DEF PoolInv, SearchedBehind
  <2>2. QED
    BY <1>1, <2>1, CallChain, ChainElements DEF AtNode, Chain
<1>3. Representative' = Representative
  BY <1>1, AnswerPoolInv, SameMap
<1>4. Representative[Asked.text] = AtNode
  BY <1>1, <1>2, RepresentativeOf, AskedDuringCall
<1>5. Representative[Asked.text] # Null
  BY <1>2, <1>4, PoolAssumption
<1>6. Asked' = Pool!Nothing
  BY <1>1 DEF Asked, Pool!Nothing
<1>7. CASE Adding
  BY <1>1, <1>3, <1>4, <1>5, <1>6, <1>7, AskedDuringCall
     DEF Pool!AnswerAdd, Pool!Answer, Pool!Next
<1>8. CASE ~ Adding
  BY <1>1, <1>3, <1>4, <1>6, <1>8, AskedDuringCall
     DEF Pool!AnswerFind, Pool!Answer, Pool!Next
<1>9. QED
  BY <1>7, <1>8

LEMMA NotFoundRefines ==
    ASSUME PoolInv, NotFound
    PROVE  Pool!Next
<1>1. /\ text' = text /\ hashtable' = hashtable /\ call' = Idle
      /\ reply' = Null /\ call # Idle /\ ~ Adding /\ AtEnd
  BY NothingReleased DEF NotFound, Return, AtEnd, Finding, Adding, Adders
<1>2. \A a \in Pooled : text[a] # text[call.str]
  <2>1. SUFFICES ASSUME NEW a \in Pooled, text[a] = text[call.str] PROVE FALSE
    OBVIOUS
  <2>2. PICK b \in Buckets : \E i \in DOMAIN hashtable[b] : hashtable[b][i] = a
    BY DEF Pooled
  <2>3. PICK i \in DOMAIN hashtable[b] : hashtable[b][i] = a
    BY <2>2
  <2>4. b = BucketAt(call.str)
    BY <2>1, <2>3, ChainElements DEF BucketAt
  <2>5. QED
    BY <1>1, <2>1, <2>3, <2>4, NoneFound DEF Chain
<1>3. Representative' = Representative
  BY <1>1, AnswerPoolInv, SameMap
<1>4. Representative[Asked.text] = Null
  BY <1>1, <1>2, RepresentativeOf, AskedDuringCall
<1>5. Asked' = Pool!Nothing
  BY <1>1 DEF Asked, Pool!Nothing
<1>6. QED
  BY <1>1, <1>3, <1>4, <1>5, AskedDuringCall
     DEF Pool!AnswerFind, Pool!Answer, Pool!Next

LEMMA StoreRefines ==
    ASSUME PoolInv, Store
    PROVE  Pool!Next
<1>0. PICK s, t : s = call.str /\ t = text[call.str]
  OBVIOUS
<1>1. /\ text' = text /\ call' = Idle /\ reply' = s
      /\ call # Idle /\ Adding
  BY <1>0, NothingReleased DEF Store, Return, AtEnd
<1>2. /\ PoolInv' /\ Pooled' = Pooled \cup {s}
      /\ \A a \in Pooled : text[a] # t
  BY <1>0, StorePoolInv
<1>3. t \in Texts
  BY <1>0, <1>1, CallChain
<1>4. Representative[t] = Null
  BY <1>2, <1>3, RepresentativeOf
<1>5. Represented /\ Represented'
  BY <1>2, RepresentedAlways, PTL
<1>6. Representative' = [Representative EXCEPT ![t] = s]
  <2>1. Representative'[t] = s
    BY <1>0, <1>1, <1>2, <1>3, <1>5 DEF Represented
  <2>2. ASSUME NEW u \in Texts, u # t PROVE Representative'[u] = Representative[u]
    <3>1. CASE \E a \in Pooled : text[a] = u
      BY <1>1, <1>2, <1>5, <3>1 DEF Represented
    <3>2. CASE \A a \in Pooled : text[a] # u
      BY <1>0, <1>1, <1>2, <1>5, <2>2, <3>2 DEF Represented
    <3>3. QED
      BY <3>1, <3>2
  <2>3. QED
    BY <1>5, <2>1, <2>2 DEF Represented
<1>7. Asked' = Pool!Nothing
  BY <1>1 DEF Asked, Pool!Nothing
<1>8. Asked.op = "add" /\ Asked.str = s /\ Asked.text = t
  BY <1>0, <1>1, AskedDuringCall
<1>9. Pool!AnswerAdd
  BY <1>1, <1>3, <1>4, <1>5, <1>6, <1>7, <1>8 DEF Represented, Pool!AnswerAdd
<1>10. QED
  BY <1>9 DEF Pool!Answer, Pool!Next

LEMMA NextRefines ==
    ASSUME PoolInv, PoolInv', [Next]_vars
    PROVE  [Pool!Next]_(Pool!vars)
<1>1. CASE init_string_pool \/ free_string_pool
  <2>1. hashtable' = EmptyTable /\ call = Idle /\ UNCHANGED <<text, call, reply>>
    BY <1>1 DEF init_string_pool, free_string_pool
  <2>2. Representative' = Pool!EmptyPool
    BY <2>1 DEF Representative, Standing, Pooled, EmptyTable, Pool!EmptyPool
  <2>3. Pool!Drop
    BY <2>1, <2>2 DEF Pool!Drop, Asked, Pool!Nothing
  <2>4. QED
    BY <2>3 DEF Pool!Next
<1>2. ASSUME NEW a \in Heap, NEW t \in Texts, parse_constant(a, t)
      PROVE  Pool!Next
  <2>1. a \in Addresses /\ "Utf8" \in Callers /\ Begin("Utf8", a)
    BY <1>2 DEF parse_constant, Addresses, Callers, Adders
  <2>2. text \in [Addresses -> Texts \cup {Freed}] /\ text' = [text EXCEPT ![a] = t]
    BY <1>2 DEF parse_constant, PoolInv, TypeOK
  <2>3. /\ text' \in [Addresses -> Texts \cup {Freed}] /\ text'[a] # Freed
        /\ \A x \in Addresses : text[x] # Freed => text'[x] = text[x]
    BY <1>2, <2>1, <2>2, PoolAssumption DEF parse_constant
  <2>4. QED
    BY <2>1, <2>3, BeginRefines
<1>3. ASSUME NEW a \in held, parse_file(a)
      PROVE  Pool!Next
  <2>1. a \in Addresses /\ text[a] # Freed
    BY PooledAllocated, PoolAssumption DEF PoolInv
  <2>2. text' = text /\ "name" \in Callers /\ Begin("name", a)
    BY <1>3 DEF parse_file, Callers, Adders
  <2>3. QED
    BY <2>1, <2>2, BeginRefines DEF PoolInv, TypeOK
<1>4. ASSUME NEW a \in Literals, init_natives(a) \/ find_string(a)
      PROVE  Pool!Next
  <2>1. a \in Addresses /\ text[a] # Freed
    BY PoolAssumption DEF PoolInv, LiteralsStand, Addresses
  <2>2. text' = text /\ \E caller \in Callers : Begin(caller, a)
    BY <1>4 DEF init_natives, find_string, Callers, Adders
  <2>3. QED
    BY <2>1, <2>2, BeginRefines DEF PoolInv, TypeOK
<1>5. CASE Found \/ Store \/ NotFound
  BY <1>5, FoundRefines, StoreRefines, NotFoundRefines
<1>6. CASE Advance \/ UNCHANGED vars
  <2>1. UNCHANGED <<hashtable, text, reply>>
    BY <1>6 DEF Advance, vars
  <2>2. Representative' = Representative
    BY <2>1, SameMap
  <2>3. Asked' = Asked
    <3>1. CASE UNCHANGED vars
      BY <3>1 DEF vars, Asked, Adding
    <3>2. CASE Advance
      <4>1. call # Idle /\ call' = [call EXCEPT !.node = @ + 1]
        BY <3>2 DEF Advance
      <4>2. call \in [caller : Callers, str : Addresses, node : Nat \ {0}]
        BY <4>1 DEF PoolInv, TypeOK
      <4>3. call'.caller = call.caller /\ call'.str = call.str
        BY <4>1, <4>2
      <4>4. call' # Idle
        BY <4>2, <4>3 DEF Idle, Callers, Adders
      <4>5. QED
        BY <2>1, <4>1, <4>3, <4>4 DEF Asked, Adding
    <3>3. QED
      BY <1>6, <3>1, <3>2
  <2>4. QED
    BY <2>1, <2>2, <2>3 DEF Pool!vars
<1>7. QED
  BY <1>1, <1>2, <1>3, <1>4, <1>5, <1>6 DEF Next, Working

\* The chains, the walk along them and the buffers that parse_constant
\* allocates are, seen from outside, a map from texts to addresses that is
\* asked and answers in one step.
THEOREM MapOfTexts == Spec => Pool!Safe
<1>1. Init => Pool!Init
  BY InitRefines
<1>2. PoolInv /\ PoolInv' /\ [Next]_vars => [Pool!Next]_(Pool!vars)
  BY NextRefines
<1>3. QED
  BY <1>1, <1>2, PoolInvariant, PTL DEF Spec, Pool!Safe

============================================================================
