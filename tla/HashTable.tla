----------------------------- MODULE HashTable ------------------------------
(***************************************************************************)
(* The chained hash table of src/src/hashmap.c, as operators on a value:   *)
(* what each function returns and what it leaves in the table.             *)
(*                                                                         *)
(* A bucket is the sequence of its nodes, the slot of buf first.  A slot   *)
(* whose hash is 0 is empty and has no successor (buf_alloc and            *)
(* hashmap_remove see to both), so an empty slot is the empty sequence.    *)
(* A string is a text stored somewhere: str_comp looks at the text only.   *)
(***************************************************************************)
LOCAL INSTANCE Naturals
LOCAL INSTANCE Sequences
LOCAL INSTANCE SequencesExt

CONSTANTS
  Hash(_),               \* hasher: FNV-1a of a text, biased away from 0
  CAPACITY_LOG_MAX       \* 32 in the code

INIT_CAPACITY_LOG == 2
INIT_CAPACITY == 4       \* 1ul << INIT_CAPACITY_LOG

ASSUME CapacityAssumption == CAPACITY_LOG_MAX \in Nat /\ INIT_CAPACITY_LOG <= CAPACITY_LOG_MAX

StrComp(a, b) == a.text = b.text
Matches(kv, key) == kv.hash = Hash(key.text) /\ StrComp(key, kv.key)

\* Capacities are powers of two, so "hash & cap_mask" is a remainder.
Index(hash, cap_mask) == hash % (cap_mask + 1)
Bucket(map, key) == Index(Hash(key.text), map.cap_mask)

EmptyBuf(cap_mask) == [i \in 0..cap_mask |-> << >>]

\* Seeded fault: the mask is the capacity.
hashmap_new_mask == [
  cap_log  |-> INIT_CAPACITY_LOG,
  cap_mask |-> INIT_CAPACITY,
  len      |-> 0,
  buf      |-> EmptyBuf(INIT_CAPACITY)]

hashmap_new == [
  cap_log  |-> INIT_CAPACITY_LOG,
  cap_mask |-> INIT_CAPACITY - 1,
  len      |-> 0,
  buf      |-> EmptyBuf(INIT_CAPACITY - 1)]
-----------------------------------------------------------------------------
(* Looking up *)

Hits(map, key) ==
  LET chain == map.buf[Bucket(map, key)] IN {i \in DOMAIN chain : Matches(chain[i], key)}
FirstHit(map, key) == CHOOSE i \in Hits(map, key) : \A j \in Hits(map, key) : i <= j
keyval_get(map, key) == map.buf[Bucket(map, key)][FirstHit(map, key)]

\* Seeded fault: the nodes after the slot are not looked at.
hashmap_contains_slot(map, key) == 1 \in Hits(map, key)

hashmap_contains(map, key) == Hits(map, key) # {}
\* The value, and for a set the key as it was stored; the caller has seen to
\* it that there is one.
hashmap_get(map, key) == keyval_get(map, key).value
hashset_get(set, key) == keyval_get(set, key).key
-----------------------------------------------------------------------------
(* Inserting *)

Node(key, value) == [hash |-> Hash(key.text), key |-> key, value |-> value]

\* keyval_set: the node that is in the slot is the only one compared with the
\* key; a new node goes to the second position.
Overwrites(chain, key) == chain # << >> /\ Matches(chain[1], key)
keyval_set(chain, kv) ==
  IF chain = << >> THEN <<kv>>
  ELSE IF Overwrites(chain, kv.key) THEN <<kv>> \o Tail(chain)
  ELSE <<chain[1], kv>> \o Tail(chain)

PutIn(buf, cap_mask, kv) ==
  [buf EXCEPT ![Index(kv.hash, cap_mask)] = keyval_set(@, kv)]

\* The nodes in the order in which hashmap_resize and hashmap_iter meet them.
Nodes(map) == FlattenSeq([i \in 1..(map.cap_mask + 1) |-> map.buf[i - 1]])

\* Seeded fault: the nodes are placed with the mask of the old buffer.
PlacingOldMask(kv, cap_mask) ==
  LET buf[n \in 0..Len(kv)] ==
        IF n = 0 THEN EmptyBuf(cap_mask) ELSE PutIn(buf[n - 1], cap_mask \div 2, kv[n])
  IN  buf

\* A new buffer after each of the nodes kv has been set in it.
Placing(kv, cap_mask) ==
  LET buf[n \in 0..Len(kv)] ==
        IF n = 0 THEN EmptyBuf(cap_mask) ELSE PutIn(buf[n - 1], cap_mask, kv[n])
  IN  buf

\* The nodes of map, set one after the other in a new buffer.
Rehashed(map, cap_mask) == Placing(Nodes(map), cap_mask)[Len(Nodes(map))]

\* Seeded fault: cap_log is not updated.
hashmap_resize_same_log(map) ==
  LET cap_mask == 2 * (map.cap_mask + 1) - 1 IN
  [map EXCEPT !.cap_mask = cap_mask, !.buf = Rehashed(map, cap_mask)]

hashmap_resize(map) ==
  LET cap_mask == 2 * (map.cap_mask + 1) - 1 IN
  [map EXCEPT !.cap_log = @ + 1, !.cap_mask = cap_mask, !.buf = Rehashed(map, cap_mask)]

\* Seeded fault: the table grows when it is full.
MustGrowLate(map) == map.len > map.cap_mask

MustGrow(map) == 4 * map.len >= 3 * (map.cap_mask + 1)
\* Seeded fault: the largest capacity is never reached.
InsertPanicsEarly(map) == MustGrow(map) /\ map.cap_log + 1 >= CAPACITY_LOG_MAX

\* hashmap_resize panics instead of growing a table of the largest capacity.
InsertPanics(map) == MustGrow(map) /\ map.cap_log >= CAPACITY_LOG_MAX

WithRoom(map) == IF MustGrow(map) THEN hashmap_resize(map) ELSE map
\* Seeded fault: only the nodes in the slots are counted.
hashmap_insert_counts_slots(map, key, value) ==
  LET m == WithRoom(map) IN
  [m EXCEPT !.buf = PutIn(@, m.cap_mask, Node(key, value)),
            !.len = IF m.buf[Bucket(m, key)] = << >> THEN @ + 1 ELSE @]

hashmap_insert(map, key, value) ==
  LET m == WithRoom(map) IN
  [m EXCEPT !.buf = PutIn(@, m.cap_mask, Node(key, value)), !.len = @ + 1]
\* What hashmap_insert returns: the key was not met.
InsertIsNew(map, key) ==
  LET m == WithRoom(map) IN ~Overwrites(m.buf[Bucket(m, key)], key)
-----------------------------------------------------------------------------
(* Removing and iterating *)

\* Seeded fault: removing the node of the slot empties the slot.
hashmap_remove_chain(map, key) ==
  LET i == FirstHit(map, key) IN
  [map EXCEPT !.buf[Bucket(map, key)] = IF i = 1 THEN << >> ELSE RemoveAt(@, i)]

\* hashmap_remove of a key that is there: its first node is unlinked (the
\* node after the slot is moved into the slot).  len stays as it is.
hashmap_remove(map, key) ==
  [map EXCEPT !.buf[Bucket(map, key)] = RemoveAt(@, FirstHit(map, key))]

\* The calls hashmap_iter makes of its argument.
hashmap_iter(map) ==
  LET kv == Nodes(map) IN
  [i \in 1..Len(kv) |->
     [remaining |-> map.len - i, key |-> kv[i].key, value |-> kv[i].value]]
=============================================================================
