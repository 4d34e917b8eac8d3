------------------------------ MODULE HashMap -------------------------------
(***************************************************************************)
(* A hashmap_t and its one client: any sequence of calls of hashmap.h      *)
(* (Spec), or the calls of a client that inserts a key only after          *)
(* hashmap_contains has said it is not there, as intern() does             *)
(* (GuardedSpec).                                                          *)
(***************************************************************************)
EXTENDS HashTable, Integers, Sequences

CONSTANTS
  Text,    \* the texts of the keys
  Val,     \* the values
  NULL     \* what hashmap_get returns when there is nothing

ASSUME HashAssumption == \A t \in Text : Hash(t) \in Nat \ {0}
ASSUME NullAssumption == NULL \notin Val

VARIABLES
  map,     \* the table
  ret      \* the last call and what it returned

vars == <<map, ret>>

Key(text) == [text |-> text]
Result(op, text, res) == ret' = [op |-> op, text |-> text, res |-> res]
Running == ret.op # "panic"

Init == map = hashmap_new /\ ret = [op |-> "new"]

Insert(text, v) ==
  /\ Running /\ ~InsertPanics(map)
  /\ map' = hashmap_insert(map, Key(text), v)
  /\ Result("insert", text, InsertIsNew(map, Key(text)))

\* The resize an insertion needs is refused and the program aborts.
Panic ==
  /\ Running /\ InsertPanics(map)
  /\ ret' = [op |-> "panic"]
  /\ UNCHANGED map

Remove(text) ==
  /\ Running
  /\ \/ hashmap_contains(map, Key(text)) /\ map' = hashmap_remove(map, Key(text))
     \/ ~hashmap_contains(map, Key(text)) /\ UNCHANGED map
  /\ Result("remove", text, hashmap_contains(map, Key(text)))

Get(text) ==
  /\ Running
  /\ Result("get", text,
            IF hashmap_contains(map, Key(text)) THEN hashmap_get(map, Key(text)) ELSE NULL)
  /\ UNCHANGED map

Contains(text) ==
  /\ Running
  /\ Result("contains", text, hashmap_contains(map, Key(text)))
  /\ UNCHANGED map

Read == \E t \in Text : Get(t) \/ Contains(t)

Next ==
  \/ \E t \in Text : Remove(t) \/ \E v \in Val : Insert(t, v)
  \/ Panic
  \/ Read

\* Seeded fault: the client does not ask first.
UnguardedInsert(text, v) == Insert(text, v)

GuardedInsert(text, v) == ~hashmap_contains(map, Key(text)) /\ Insert(text, v)
GuardedNext ==
  \/ \E t \in Text : Remove(t) \/ \E v \in Val : GuardedInsert(t, v)
  \/ Panic
  \/ Read

Spec == Init /\ [][Next]_vars
GuardedSpec == Init /\ [][GuardedNext]_vars
-----------------------------------------------------------------------------
(* Properties of every sequence of calls *)

NodeSet == {Node(Key(t), v) : t \in Text, v \in Val}

\* A table's sizes are those of its capacity, and its buckets hold nodes.
TypeOK ==
  /\ map.cap_log \in INIT_CAPACITY_LOG..CAPACITY_LOG_MAX
  /\ map.cap_mask = 2^map.cap_log - 1
  /\ map.len \in Nat
  /\ DOMAIN map.buf = 0..map.cap_mask
  /\ \A i \in DOMAIN map.buf : map.buf[i] \in Seq(NodeSet)

\* A node is in the bucket its hash selects, whatever the table has grown
\* through: hashmap_keyval_get looks nowhere else.
WellPlaced ==
  \A i \in DOMAIN map.buf : \A k \in DOMAIN map.buf[i] :
    Index(map.buf[i][k].hash, map.cap_mask) = i

\* At most three quarters of the capacity have been inserted: the test at the
\* head of hashmap_insert, made before the insertion, keeps the bound after it.
LoadBound == 4 * map.len <= 3 * (map.cap_mask + 1)

\* hashmap_iter counts down from len - 1 in a usize: it must not pass 0 before
\* the last node.  len counts the insertions, so it is never too small.
IterNeverWraps == Len(Nodes(map)) <= map.len

\* The table aborts the program only when it has the largest capacity and
\* three quarters of it have been inserted (removed or not).
PanicsOnlyWhenFull ==
  ret.op = "panic" => map.cap_log = CAPACITY_LOG_MAX /\ 4 * map.len = 3 * (map.cap_mask + 1)
-----------------------------------------------------------------------------
(* Properties of the guarded client *)

\* No text has two nodes, so that hashmap_remove removes it and no old value
\* is left behind a new one.
NoDuplicates ==
  LET kv == Nodes(map) IN
  \A i, j \in DOMAIN kv : StrComp(kv[i].key, kv[j].key) => i = j

\* The dictionary the table stands for.
Contents ==
  [t \in {u \in Text : hashmap_contains(map, Key(u))} |-> hashmap_get(map, Key(t))]

Dict == INSTANCE Dictionary WITH dict <- Contents

\* Every call returns what it would return on a dictionary, and leaves the
\* table of the dictionary it would leave, growth included.
ImplementsDictionary == Dict!Spec
-----------------------------------------------------------------------------
(* What the comments of hashmap.h say of every client *)

\* "and overwrite the previous value" (hashmap.h:20): a value that has been
\* overwritten does not come back with a call that names another key.
OverwrittenIsGone ==
  [][\A t \in Text :
       ret'.op # "panic" /\ t # ret'.text /\ t \in DOMAIN Contents =>
         t \in DOMAIN Contents' /\ Contents'[t] = Contents[t]]_vars

\* "the first parameter indicating the number of keys yet to be visited"
\* (hashmap.h:24-25)
IterCountsDown ==
  LET visits == hashmap_iter(map) IN
  \A i \in DOMAIN visits : visits[i].remaining = Len(visits) - i
=============================================================================
