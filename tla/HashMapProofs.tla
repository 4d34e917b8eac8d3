--------------------------- MODULE HashMapProofs ----------------------------
(***************************************************************************)
(* Hash tables under any client, and under a client that looks before it   *)
(* inserts, for every hash function, every set of texts and values and every*)
(* largest capacity.  SizesInv and TableInv are the inductive invariants of*)
(* the first, OnceInv that of the second.                                  *)
(***************************************************************************)
EXTENDS HashTableProofs, HashMap

\* The sizes, and why a panic happens.
SizesInv == Sizes(map) /\ PanicsOnlyWhenFull

\* They hold of a new table.
LEMMA SizesInit == Init => SizesInv
  BY NewSizes DEF Init, SizesInv, PanicsOnlyWhenFull

\* Every call keeps them.
LEMMA SizesStep == SizesInv /\ [Next]_vars => SizesInv'
  <1> SUFFICES ASSUME SizesInv, [Next]_vars PROVE SizesInv'
    OBVIOUS
  <1>1. ASSUME NEW t \in Text, NEW v \in Val, Insert(t, v) PROVE SizesInv'
    <2>1. Sizes(map')
      BY <1>1, InsertSizes DEF Insert, SizesInv
    <2>2. ret'.op = "insert"
      BY <1>1 DEF Insert, Result
    <2>3. QED  BY <2>1, <2>2 DEF SizesInv, PanicsOnlyWhenFull
  <1>2. CASE Panic
    <2>1. map' = map /\ MustGrow(map) /\ map.cap_log >= CAPACITY_LOG_MAX
      BY <1>2 DEF Panic, InsertPanics
    <2>2. map.cap_log = CAPACITY_LOG_MAX
      BY <2>1, CapacityAssumption DEF SizesInv, Sizes, INIT_CAPACITY_LOG
    <2>3. 4 * map.len = 3 * (map.cap_mask + 1)
      BY <2>1 DEF SizesInv, Sizes, MustGrow
    <2>4. QED  BY <2>1, <2>2, <2>3 DEF SizesInv, PanicsOnlyWhenFull
  <1>3. ASSUME NEW t \in Text, Remove(t) PROVE SizesInv'
    <2>1. Sizes(map')
      BY <1>3, RemoveSizes DEF Remove, SizesInv
    <2>2. ret'.op = "remove"
      BY <1>3 DEF Remove, Result
    <2>3. QED  BY <2>1, <2>2 DEF SizesInv, PanicsOnlyWhenFull
  <1>4. CASE Read
    <2>1. map' = map /\ ret'.op # "panic"
      BY <1>4 DEF Read, Get, Contains, Result
    <2>2. QED  BY <2>1 DEF SizesInv, PanicsOnlyWhenFull
  <1>5. CASE UNCHANGED vars
    BY <1>5 DEF vars, SizesInv, PanicsOnlyWhenFull
  <1>6. QED  BY <1>1, <1>2, <1>3, <1>4, <1>5 DEF Next

(* However many keys are inserted, overwritten and removed, and however they *)
(* collide, the insertions stay within three quarters of the capacity        *)
(* (hashmap_insert, hashmap_resize).                                         *)
THEOREM LoadIsBounded == Spec => []LoadBound
  <1>1. SizesInv => LoadBound
    BY DEF SizesInv, Sizes, LoadBound
  <1>2. QED  BY <1>1, SizesInit, SizesStep, PTL DEF Spec

(* The panic of hashmap_resize is met by full tables only.                   *)
THEOREM PanicsAreJustified == Spec => []PanicsOnlyWhenFull
  <1>1. SizesInv => PanicsOnlyWhenFull
    BY DEF SizesInv
  <1>2. QED  BY <1>1, SizesInit, SizesStep, PTL DEF Spec
-----------------------------------------------------------------------------
\* The nodes of the client's calls carry the hash of their key.
LEMMA NodesCarryHashes == Hashed(NodeSet) /\ \A t \in Text : Hash(Key(t).text) \in Nat
BY HashAssumption DEF Hashed, NodeSet, Node, Key

\* The table is one of such nodes.
TableInv == Table(map, NodeSet)

\* The table starts empty.
LEMMA TableInit == Init => TableInv /\ Distinct(map.buf) /\ Held(map.buf) = {}
BY NewTable DEF Init, TableInv

\* An insertion keeps the table well formed and adds its node.
LEMMA InsertTable ==
  ASSUME TableInv, NEW t \in Text, NEW v \in Val, Insert(t, v)
  PROVE  TableInv' /\ Inserted(map, map', NodeSet, Node(Key(t), v))
<1>1. map' = hashmap_insert(map, Key(t), v) /\ Node(Key(t), v) \in NodeSet
  BY DEF Insert, NodeSet
<1>2. Inserted(map, map', NodeSet, Node(Key(t), v))
  BY <1>1, NodesCarryHashes, InsertedTable DEF TableInv
<1> QED BY <1>2 DEF TableInv, Inserted

\* A removal keeps it well formed and takes the text away, if it was there.
LEMMA RemoveTable ==
  ASSUME TableInv, NEW t \in Text, Remove(t)
  PROVE  /\ TableInv'
         /\ IF hashmap_contains(map, Key(t)) THEN Removed(map, map', NodeSet, Key(t)) ELSE map' = map
<1>1. CASE hashmap_contains(map, Key(t))
  <2>1. map' = hashmap_remove(map, Key(t))
    BY <1>1 DEF Remove
  <2>2. Removed(map, map', NodeSet, Key(t))
    BY <1>1, <2>1, NodesCarryHashes, RemovedTable DEF TableInv
  <2> QED BY <1>1, <2>2 DEF TableInv, Removed
<1>2. CASE ~hashmap_contains(map, Key(t))
  BY <1>2 DEF Remove, TableInv
<1> QED BY <1>1, <1>2

\* The other calls leave the table alone.
LEMMA OtherSteps ==
  ASSUME Panic \/ Read \/ UNCHANGED vars
  PROVE  map' = map
BY DEF Panic, Read, Get, Contains, vars

\* Every call keeps the table well formed.
LEMMA TableStep == TableInv /\ [Next]_vars => TableInv'
<1> SUFFICES ASSUME TableInv, [Next]_vars PROVE TableInv'
  OBVIOUS
<1>1. CASE \E t \in Text, v \in Val : Insert(t, v)
  BY <1>1, InsertTable
<1>2. CASE \E t \in Text : Remove(t)
  BY <1>2, RemoveTable
<1>3. CASE Panic \/ Read \/ UNCHANGED vars
  <2>1. map' = map
    BY <1>3, OtherSteps
  <2> QED BY <2>1 DEF TableInv
<1> QED BY <1>1, <1>2, <1>3 DEF Next

\* Tables are always well formed.
LEMMA Tables == Spec => [](TableInv /\ SizesInv)
<1> QED BY TableInit, TableStep, SizesInit, SizesStep, PTL DEF Spec

\* For any client, the table keeps its shape: the capacity is the power of
\* two that cap_log says and the mask one less.
THEOREM TypeCorrect == Spec => []TypeOK
<1>1. TableInv /\ SizesInv => TypeOK
  <2> SUFFICES ASSUME TableInv, SizesInv PROVE TypeOK
    OBVIOUS
  <2>1. map.cap_log \in INIT_CAPACITY_LOG..CAPACITY_LOG_MAX
    BY DEF SizesInv, Sizes
  <2>2. map.buf \in [0..map.cap_mask -> Seq(NodeSet)]
    BY DEF TableInv, Table, IsBuf
  <2> QED BY <2>1, <2>2 DEF TypeOK, TableInv, Table
<1> QED BY <1>1, Tables, PTL

\* For any client, and across any number of hashmap_resize, a node is in the
\* bucket its hash selects, so that a lookup that masks the hash with the
\* capacity of the moment finds it.
THEOREM NodesAreWellPlaced == Spec => []WellPlaced
<1>1. TableInv /\ SizesInv => WellPlaced
  BY DEF TableInv, Table, IsBuf, Placed, WellPlaced
<1> QED BY <1>1, Tables, PTL

\* hashmap_iter, which counts len down to know where to stop, meets no more
\* nodes than len says: an insertion adds at most one, a removal takes one
\* away and leaves len, so that "remaining" never passes below 0.
THEOREM IterationEnds == Spec => []IterNeverWraps
<1>1. TableInv /\ SizesInv => IterNeverWraps
  <2> SUFFICES ASSUME TableInv PROVE Len(Nodes(map)) <= map.len
    BY DEF IterNeverWraps
  <2>1. Listing(Nodes(map), map.buf)
    BY NodesListing, NodesCarryHashes DEF TableInv, Table
  <2>2. PICK n \in Nat : HasSize(Cells(map.buf), n) /\ n <= map.len
    BY DEF TableInv, Table
  <2>3. Len(Nodes(map)) = n
    BY <2>1, <2>2, SizeIsNat DEF Listing
  <2> QED BY <2>2, <2>3
<1> QED BY <1>1, Tables, PTL
-----------------------------------------------------------------------------
\* A guarded client is a client.
LEMMA GuardedIsNext == GuardedNext => Next
BY DEF GuardedNext, Next, GuardedInsert

\* A guarded client never has two nodes for one text.
OnceInv == TableInv /\ Distinct(map.buf)

\* A guarded insertion meets no node of its text.
LEMMA GuardedInsertTable ==
  ASSUME OnceInv, NEW t \in Text, NEW v \in Val, GuardedInsert(t, v)
  PROVE  /\ OnceInv' /\ ~(\E n : NodeOf(n, map, Key(t)))
         /\ Held(map'.buf) = Held(map.buf) \cup {Node(Key(t), v)}
<1>1. Inserted(map, map', NodeSet, Node(Key(t), v)) /\ TableInv'
  BY InsertTable DEF OnceInv, GuardedInsert
<1>2. Finds(map, Key(t))
  BY NodesCarryHashes, Lookup DEF OnceInv, TableInv
<1>3. ~(\E n : NodeOf(n, map, Key(t)))
  BY <1>2 DEF Finds, GuardedInsert
<1>4. Node(Key(t), v).key = Key(t)
  BY DEF Node
<1> QED BY <1>1, <1>3, <1>4 DEF Inserted, OnceInv

\* Every call of a guarded client keeps each text once.
LEMMA OnceStep == OnceInv /\ [GuardedNext]_vars => OnceInv'
<1> SUFFICES ASSUME OnceInv, [GuardedNext]_vars PROVE OnceInv'
  OBVIOUS
<1>1. CASE \E t \in Text, v \in Val : GuardedInsert(t, v)
  BY <1>1, GuardedInsertTable
<1>2. ASSUME NEW t \in Text, Remove(t) PROVE OnceInv'
  <2>1. TableInv' /\ (Removed(map, map', NodeSet, Key(t)) \/ map' = map)
    BY <1>2, RemoveTable DEF OnceInv
  <2> QED BY <2>1 DEF OnceInv, Removed
<1>3. CASE Panic \/ Read \/ UNCHANGED vars
  <2>1. map' = map
    BY <1>3, OtherSteps
  <2> QED BY <2>1 DEF OnceInv, TableInv
<1> QED BY <1>1, <1>2, <1>3 DEF GuardedNext

\* Guarded clients have each text once.
LEMMA EachTextOnce == GuardedSpec => []OnceInv
<1>1. Init => OnceInv
  BY TableInit DEF OnceInv
<1> QED BY <1>1, OnceStep, PTL DEF GuardedSpec

\* A client that looks before it inserts, as interner.c does, never
\* has two nodes for one text, although keyval_set compares the key with the
\* first node of a chain only, and although a resize moves nodes about.
THEOREM GuardedTablesHaveNoDuplicates == GuardedSpec => []NoDuplicates
<1>1. OnceInv => NoDuplicates
  <2> SUFFICES ASSUME OnceInv PROVE NoDuplicates
    OBVIOUS
  <2>1. Listing(Nodes(map), map.buf)
    BY NodesListing, NodesCarryHashes DEF OnceInv, TableInv, Table
  <2> QED BY <2>1 DEF Listing, NoDuplicates, StrComp, OnceInv
<1> QED BY <1>1, EachTextOnce, PTL

\* The dictionary of a table.
DictOf(m) == [t \in {u \in Text : hashmap_contains(m, Key(u))} |-> hashmap_get(m, Key(t))]

\* An entry of the dictionary is a node of the table.
LEMMA DictEntry ==
  ASSUME NEW m, Table(m, NodeSet), Distinct(m.buf), NEW t \in Text
  PROVE  /\ hashmap_contains(m, Key(t)) <=> t \in DOMAIN DictOf(m)
         /\ t \in DOMAIN DictOf(m) <=> \E n : NodeOf(n, m, Key(t))
         /\ \A n : NodeOf(n, m, Key(t)) => DictOf(m)[t] = n.value
         /\ t \in DOMAIN DictOf(m) => hashmap_get(m, Key(t)) = DictOf(m)[t]
<1>1. hashmap_contains(m, Key(t)) <=> t \in DOMAIN DictOf(m)
  BY DEF DictOf
<1>2. hashmap_contains(m, Key(t)) => DictOf(m)[t] = hashmap_get(m, Key(t))
  BY DEF DictOf
<1>3. Finds(m, Key(t))
  BY NodesCarryHashes, Lookup
<1>4. ASSUME NEW n, NodeOf(n, m, Key(t)) PROVE hashmap_get(m, Key(t)) = n.value
  <2>1. n \in Held(m.buf) /\ Key(t).text = n.key.text
    BY <1>4 DEF NodeOf
  <2>2. keyval_get(m, Key(t)) = n
    BY <2>1, NodesCarryHashes, LookupOnce
  <2> QED BY <2>2 DEF hashmap_get
<1> QED BY <1>1, <1>2, <1>3, <1>4 DEF Finds

\* What a call does to a dictionary.
WithEntry(old, t, v) == [u \in DOMAIN old \cup {t} |-> IF u = t THEN v ELSE old[u]]
WithoutEntry(old, t) == [u \in DOMAIN old \ {t} |-> old[u]]

\* An insertion of a new text adds its entry to the dictionary.
LEMMA DictInserted ==
  ASSUME NEW m, Table(m, NodeSet), Distinct(m.buf), NEW r, Table(r, NodeSet), Distinct(r.buf),
         NEW t \in Text, NEW v \in Val, ~(\E n : NodeOf(n, m, Key(t))),
         Held(r.buf) = Held(m.buf) \cup {Node(Key(t), v)}
  PROVE  DictOf(r) = WithEntry(DictOf(m), t, v)
<1> DEFINE kv == Node(Key(t), v)
<1>1. kv.key = Key(t) /\ kv.value = v
  BY DEF Node
<1>2. \A u : Key(u).text = u
  BY DEF Key
<1> HIDE DEF kv
<1>3. ASSUME NEW u \in Text
      PROVE  /\ u \in DOMAIN DictOf(r) <=> u \in DOMAIN DictOf(m) \cup {t}
             /\ u \in DOMAIN DictOf(r) => DictOf(r)[u] = IF u = t THEN v ELSE DictOf(m)[u]
  <2>1. CASE u = t
    <3>1. NodeOf(kv, r, Key(t))
      BY <1>1 DEF NodeOf, kv
    <3> QED BY <1>1, <2>1, <3>1, DictEntry
  <2>2. CASE u # t
    <3>1. \A n : NodeOf(n, r, Key(u)) <=> NodeOf(n, m, Key(u))
      BY <1>1, <1>2, <2>2 DEF NodeOf, kv
    <3> QED BY <2>2, <3>1, DictEntry
  <2> QED BY <2>1, <2>2
<1>4. DOMAIN DictOf(r) \subseteq Text /\ DOMAIN DictOf(m) \subseteq Text
  BY DEF DictOf
<1>5. DictOf(r) = [u \in DOMAIN DictOf(r) |-> DictOf(r)[u]]
  BY DEF DictOf
<1> HIDE DEF DictOf
<1>6. DOMAIN DictOf(r) = DOMAIN DictOf(m) \cup {t}
  BY <1>3, <1>4
<1> QED BY <1>3, <1>4, <1>5, <1>6 DEF WithEntry

\* A removal takes the entry away.
LEMMA DictRemoved ==
  ASSUME NEW m, Table(m, NodeSet), Distinct(m.buf), NEW r, Table(r, NodeSet), Distinct(r.buf),
         NEW t \in Text, Held(r.buf) = {n \in Held(m.buf) : n.key.text # t}
  PROVE  DictOf(r) = WithoutEntry(DictOf(m), t)
<1>2. \A u : Key(u).text = u
  BY DEF Key
<1>3. ASSUME NEW u \in Text
      PROVE  /\ u \in DOMAIN DictOf(r) <=> u \in DOMAIN DictOf(m) \ {t}
             /\ u \in DOMAIN DictOf(r) => DictOf(r)[u] = DictOf(m)[u]
  <2>1. CASE u = t
    <3>1. ~(\E n : NodeOf(n, r, Key(t)))
      BY <1>2 DEF NodeOf
    <3> QED BY <2>1, <3>1, DictEntry
  <2>2. CASE u # t
    <3>1. \A n : NodeOf(n, r, Key(u)) <=> NodeOf(n, m, Key(u))
      BY <1>2, <2>2 DEF NodeOf
    <3> QED BY <2>2, <3>1, DictEntry
  <2> QED BY <2>1, <2>2
<1>4. DOMAIN DictOf(r) \subseteq Text /\ DOMAIN DictOf(m) \subseteq Text
  BY DEF DictOf
<1>5. DictOf(r) = [u \in DOMAIN DictOf(r) |-> DictOf(r)[u]]
  BY DEF DictOf
<1> HIDE DEF DictOf
<1>6. DOMAIN DictOf(r) = DOMAIN DictOf(m) \ {t}
  BY <1>3, <1>4
<1> QED BY <1>3, <1>4, <1>5, <1>6 DEF WithoutEntry

\* A new table is an empty dictionary.
LEMMA DictInit == Init => Dict!Init
<1> SUFFICES ASSUME Init PROVE Contents = [t \in {} |-> NULL] /\ ret = [op |-> "new"]
  BY DEF Dict!Init
<1>1. TableInv /\ Distinct(map.buf) /\ Held(map.buf) = {}
  BY TableInit
<1>2. \A t \in Text : t \notin DOMAIN DictOf(map)
  BY <1>1, DictEntry DEF TableInv, NodeOf
<1>3. Contents = DictOf(map)
  BY DEF Contents, DictOf
<1>4. DOMAIN Contents = {} /\ Contents = [t \in DOMAIN Contents |-> Contents[t]]
  <2>1. DOMAIN DictOf(map) \subseteq Text
        /\ DictOf(map) = [t \in DOMAIN DictOf(map) |-> DictOf(map)[t]]
    BY DEF DictOf
  <2> QED BY <1>2, <1>3, <2>1
<1> QED BY <1>4 DEF Init

\* Every call of a guarded client is a call of the dictionary, with its result.
LEMMA DictStep == OnceInv /\ OnceInv' /\ [GuardedNext]_vars => [Dict!Next]_<<Contents, ret>>
<1> SUFFICES ASSUME OnceInv, OnceInv', [GuardedNext]_vars
PROVE  [Dict!Next]_<<Contents, ret>>
  OBVIOUS
<1>1. Contents = DictOf(map) /\ Contents' = DictOf(map')
  BY DEF Contents, DictOf
<1>2. /\ Table(map, NodeSet) /\ Distinct(map.buf)
      /\ Table(map', NodeSet) /\ Distinct(map'.buf)
  BY DEF OnceInv, TableInv
<1>3. ASSUME NEW t \in Text, NEW v \in Val, GuardedInsert(t, v) PROVE Dict!Insert(t, v)
  <2>1. ~(\E n : NodeOf(n, map, Key(t)))
        /\ Held(map'.buf) = Held(map.buf) \cup {Node(Key(t), v)}
    BY <1>3, GuardedInsertTable
  <2>2. Contents' = [u \in DOMAIN Contents \cup {t} |-> IF u = t THEN v ELSE Contents[u]]
    <3>1. DictOf(map') = WithEntry(DictOf(map), t, v)
      BY <1>2, <2>1, DictInserted
    <3> QED BY <1>1, <3>1 DEF WithEntry
  <2>3. InsertIsNew(map, Key(t)) = (t \notin DOMAIN Contents)
    <3>1. InsertIsNew(map, Key(t))
      BY <1>2, <2>1, NodesCarryHashes, NewKeyIsNew
    <3>2. t \notin DOMAIN Contents
      BY <1>1, <1>2, <2>1, DictEntry
    <3> QED BY <3>1, <3>2 DEF InsertIsNew
  <2>4. ret' = [op |-> "insert", text |-> t, res |-> InsertIsNew(map, Key(t))]
    BY <1>3 DEF GuardedInsert, Insert, Result
  <2> QED BY <2>2, <2>3, <2>4 DEF Dict!Insert, Dict!Result
<1>4. ASSUME NEW t \in Text, Remove(t) PROVE Dict!Remove(t)
  <2>1. hashmap_contains(map, Key(t)) <=> t \in DOMAIN Contents
    BY <1>1, <1>2, DictEntry
  <2>2. Contents' = [u \in DOMAIN Contents \ {t} |-> Contents[u]]
    <3>1. CASE hashmap_contains(map, Key(t))
      <4>1. Removed(map, map', NodeSet, Key(t)) /\ Key(t).text = t
        BY <1>4, <3>1, RemoveTable DEF OnceInv, Key
      <4>2. Held(map'.buf) = {n \in Held(map.buf) : n.key.text # t}
        BY <1>2, <4>1 DEF Removed
      <4>3. DictOf(map') = WithoutEntry(DictOf(map), t)
        BY <1>2, <4>2, DictRemoved
      <4> QED BY <1>1, <4>3 DEF WithoutEntry
    <3>2. CASE ~hashmap_contains(map, Key(t))
      <4>1. Contents' = Contents /\ t \notin DOMAIN Contents
        BY <1>1, <1>4, <2>1, <3>2, RemoveTable DEF OnceInv
      <4>2. Contents = [u \in DOMAIN Contents |-> Contents[u]]
        BY DEF Contents
      <4>3. DOMAIN Contents \ {t} = DOMAIN Contents
        BY <4>1
      <4> QED BY <4>1, <4>2, <4>3
    <3> QED BY <3>1, <3>2
  <2>3. ret' = [op |-> "remove", text |-> t, res |-> hashmap_contains(map, Key(t))]
    BY <1>4 DEF Remove, Result
  <2>4. hashmap_contains(map, Key(t)) = (t \in DOMAIN Contents)
    BY <2>1 DEF hashmap_contains
  <2> QED BY <2>2, <2>3, <2>4 DEF Dict!Remove, Dict!Result
<1>5. ASSUME NEW t \in Text, Get(t) PROVE Dict!Get(t)
  <2>1. /\ hashmap_contains(map, Key(t)) <=> t \in DOMAIN Contents
        /\ t \in DOMAIN Contents => hashmap_get(map, Key(t)) = Contents[t]
    BY <1>1, <1>2, DictEntry
  <2>2. ret' = [op |-> "get", text |-> t, res |-> IF t \in DOMAIN Contents THEN Contents[t] ELSE NULL]
    BY <1>5, <2>1 DEF Get, Result
  <2>3. Contents' = Contents
    BY <1>1, <1>5 DEF Get
  <2> QED BY <2>2, <2>3 DEF Dict!Get, Dict!Result
<1>6. ASSUME NEW t \in Text, Contains(t) PROVE Dict!Contains(t)
  <2>1. hashmap_contains(map, Key(t)) = (t \in DOMAIN Contents)
    BY <1>1, <1>2, DictEntry DEF hashmap_contains
  <2>2. ret' = [op |-> "contains", text |-> t, res |-> hashmap_contains(map, Key(t))]
    BY <1>6 DEF Contains, Result
  <2>3. Contents' = Contents
    BY <1>1, <1>6 DEF Contains
  <2> QED BY <2>1, <2>2, <2>3 DEF Dict!Contains, Dict!Result
<1>7. CASE Panic
  <2>1. Contents' = Contents /\ ret' = [op |-> "panic"]
    BY <1>1, <1>7 DEF Panic
  <2> QED BY <2>1 DEF Dict!Next, Dict!Panic
<1>8. CASE UNCHANGED vars
  <2>1. Contents' = Contents /\ ret' = ret
    BY <1>1, <1>8 DEF vars
  <2> QED BY <2>1
<1> QED BY <1>3, <1>4, <1>5, <1>6, <1>7, <1>8 DEF GuardedNext, Read, Dict!Next

\* To a guarded client the table is a dictionary: hashmap_get returns the
\* value last inserted, hashmap_contains and the results of insert and remove
\* say what is there, whatever the hashes, the collisions and the resizes.
THEOREM GuardedTablesAreDictionaries == GuardedSpec => ImplementsDictionary
<1> QED BY DictInit, DictStep, EachTextOnce, PTL DEF GuardedSpec, ImplementsDictionary,
  Dict!Spec
=============================================================================
