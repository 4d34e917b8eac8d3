-------------------------- MODULE HashTableProofs ---------------------------
(***************************************************************************)
(* What each function of src/src/hashmap.c does to a table, for any hash   *)
(* function, any set of nodes and any capacity: first what keyval_set, an  *)
(* unlinking and a walk do to the nodes of its buffer, then the functions  *)
(* themselves.  The proofs about the clients of a table rest on these.     *)
(***************************************************************************)
EXTENDS NatLemmas, HashTable, SequenceTheorems, TLAPS
LOCAL INSTANCE SequencesExt
-----------------------------------------------------------------------------
(* The buffer *)

\* A set of nodes that carry the hash of their key.
Hashed(N) == \A n \in N : n.hash = Hash(n.key.text) /\ n.hash \in Nat

\* A node is in the bucket its hash selects.
Placed(buf, mask) ==
  \A i \in DOMAIN buf : \A k \in DOMAIN buf[i] : Index(buf[i][k].hash, mask) = i

\* A buffer of mask + 1 chains of nodes of N, each where it belongs.
IsBuf(buf, mask, N) == buf \in [0..mask -> Seq(N)] /\ Placed(buf, mask)

\* The places of a buffer that hold a node, and the nodes they hold.
Cells(buf) == UNION {{<<i, k>> : k \in DOMAIN buf[i]} : i \in DOMAIN buf}
Held(buf) == {buf[c[1]][c[2]] : c \in Cells(buf)}

\* No text is held twice.
Distinct(buf) ==
  \A i \in DOMAIN buf : \A k, l \in DOMAIN buf[i] :
    buf[i][k].key.text = buf[i][l].key.text => k = l

\* A hash selects a bucket of the buffer.
LEMMA IndexInRange ==
  ASSUME NEW h \in Nat, NEW mask \in Nat
  PROVE  Index(h, mask) \in 0..mask
BY DEF Index

\* The places of a buffer are its positions in its buckets.
LEMMA CellsDef ==
  ASSUME NEW buf
  PROVE  /\ \A i, k : <<i, k>> \in Cells(buf) <=> i \in DOMAIN buf /\ k \in DOMAIN buf[i]
         /\ \A c \in Cells(buf) : \E i \in DOMAIN buf : \E k \in DOMAIN buf[i] : c = <<i, k>>
BY DEF Cells

\* The nodes of a buffer are those at its places.
LEMMA HeldDef ==
  ASSUME NEW buf
  PROVE  \A n : n \in Held(buf) <=> \E i \in DOMAIN buf : \E k \in DOMAIN buf[i] : n = buf[i][k]
<1>1. ASSUME NEW n, n \in Held(buf)
      PROVE  \E i \in DOMAIN buf : \E k \in DOMAIN buf[i] : n = buf[i][k]
  <2>1. PICK c \in Cells(buf) : n = buf[c[1]][c[2]]
    BY <1>1 DEF Held
  <2> QED BY <2>1, CellsDef
<1>2. ASSUME NEW i \in DOMAIN buf, NEW k \in DOMAIN buf[i] PROVE buf[i][k] \in Held(buf)
  <2>1. <<i, k>> \in Cells(buf) /\ <<i, k>>[1] = i /\ <<i, k>>[2] = k
    BY CellsDef
  <2> QED BY <2>1 DEF Held
<1> QED BY <1>1, <1>2

\* A new buffer holds nothing.
LEMMA EmptyBufIsBuf ==
  ASSUME NEW mask \in Nat, NEW N
  PROVE  /\ IsBuf(EmptyBuf(mask), mask, N) /\ Distinct(EmptyBuf(mask))
         /\ Cells(EmptyBuf(mask)) = {} /\ Held(EmptyBuf(mask)) = {}
<1>1. \A i \in 0..mask : EmptyBuf(mask)[i] = << >> /\ DOMAIN EmptyBuf(mask)[i] = {}
  BY DEF EmptyBuf
<1>2. EmptyBuf(mask) \in [0..mask -> Seq(N)]
  BY EmptySeq DEF EmptyBuf
<1>3. DOMAIN EmptyBuf(mask) = 0..mask
  BY <1>2
<1> QED BY <1>1, <1>2, <1>3 DEF IsBuf, Placed, Distinct, Cells, Held

\* The positions of a chain, and what is at them.
LEMMA ChainDomain ==
  ASSUME NEW N, NEW s \in Seq(N)
  PROVE  /\ Len(s) \in Nat /\ DOMAIN s = 1..Len(s)
         /\ \A k \in DOMAIN s : s[k] \in N
BY LenProperties, ElementOfSeq

\* longer is shorter with e at place p, the ones from there on moved up.
WithAt(longer, shorter, p, e) ==
  /\ Len(longer) = Len(shorter) + 1 /\ p \in 1..Len(longer) /\ longer[p] = e
  /\ \A k \in 1..Len(shorter) : longer[IF k < p THEN k ELSE k + 1] = shorter[k]

\* new is chain with kv in the place of a first node of the same text.
Overwritten(new, chain, kv) ==
  /\ 1 \in DOMAIN chain /\ chain[1].key.text = kv.key.text
  /\ DOMAIN new = DOMAIN chain
  /\ new[1] = kv /\ \A k \in DOMAIN chain \ {1} : new[k] = chain[k]

\* keyval_set puts the node in a chain that does not begin with its key and
\* moves the others up; in a chain that does it takes the first place.
LEMMA ChainSet ==
  ASSUME NEW N, NEW chain \in Seq(N), NEW kv \in N, NEW new, new = keyval_set(chain, kv)
  PROVE  /\ new \in Seq(N)
         /\ Overwrites(chain, kv.key) => Overwritten(new, chain, kv)
         /\ ~Overwrites(chain, kv.key) => \E p \in Nat : WithAt(new, chain, p, kv)
<1>1. CASE chain = << >>
  <2>1. new = <<kv>> /\ ~Overwrites(chain, kv.key) /\ Len(chain) = 0
    BY <1>1 DEF keyval_set, Overwrites
  <2>2. new \in Seq(N) /\ Len(new) = 1 /\ new[1] = kv
    BY <2>1
  <2>3. WithAt(new, chain, 1, kv)
    BY <2>1, <2>2 DEF WithAt
  <2> QED BY <2>1, <2>2, <2>3
<1>2. CASE chain # << >> /\ Overwrites(chain, kv.key)
  <2>1. new = <<kv>> \o Tail(chain)
    BY <1>2 DEF keyval_set
  <2>2. Len(chain) >= 1 /\ Len(chain) \in Nat /\ DOMAIN chain = 1..Len(chain)
    BY <1>2, ChainDomain, EmptySeq
  <2>3. Tail(chain) \in Seq(N) /\ Len(Tail(chain)) = Len(chain) - 1
        /\ \A k \in 1..Len(Tail(chain)) : Tail(chain)[k] = chain[k + 1]
    BY <1>2, HeadTailProperties
  <2>4. <<kv>> \in Seq(N) /\ Len(<<kv>>) = 1 /\ <<kv>>[1] = kv
    OBVIOUS
  <2>5. new \in Seq(N) /\ Len(new) = Len(chain) /\ DOMAIN new = 1..Len(new)
        /\ \A k \in 1..Len(chain) : new[k] = IF k <= 1 THEN <<kv>>[k] ELSE Tail(chain)[k - 1]
    <3>1. <<kv>> \o Tail(chain) \in Seq(N)
          /\ Len(<<kv>> \o Tail(chain)) = 1 + Len(Tail(chain))
          /\ \A k \in 1..(1 + Len(Tail(chain))) :
               (<<kv>> \o Tail(chain))[k] = IF k <= 1 THEN <<kv>>[k] ELSE Tail(chain)[k - 1]
      BY <2>3, <2>4, ConcatProperties
    <3>2. 1 + Len(Tail(chain)) = Len(chain)
      BY <2>2, <2>3
    <3> QED BY <2>1, <3>1, <3>2, ChainDomain
  <2>6. chain[1].key.text = kv.key.text
    BY <1>2 DEF Overwrites, Matches, StrComp
  <2>7. new[1] = kv /\ \A k \in DOMAIN chain \ {1} : new[k] = chain[k]
    BY <2>2, <2>3, <2>4, <2>5
  <2> QED BY <1>2, <2>2, <2>5, <2>6, <2>7 DEF Overwritten
<1>3. CASE chain # << >> /\ ~Overwrites(chain, kv.key)
  <2>1. new = <<chain[1], kv>> \o Tail(chain)
    BY <1>3 DEF keyval_set
  <2>2. Len(chain) >= 1 /\ Len(chain) \in Nat /\ DOMAIN chain = 1..Len(chain)
        /\ chain[1] \in N
    BY <1>3, ChainDomain, EmptySeq
  <2>3. Tail(chain) \in Seq(N) /\ Len(Tail(chain)) = Len(chain) - 1
        /\ \A k \in 1..Len(Tail(chain)) : Tail(chain)[k] = chain[k + 1]
    BY <1>3, HeadTailProperties
  <2> DEFINE two == <<chain[1], kv>>
  <2>4. two \in Seq(N) /\ Len(two) = 2 /\ two[1] = chain[1] /\ two[2] = kv
    BY <2>2
  <2> HIDE DEF two
  <2>5. new \in Seq(N) /\ Len(new) = Len(chain) + 1
        /\ \A k \in 1..(Len(chain) + 1) : new[k] = IF k <= 2 THEN two[k] ELSE Tail(chain)[k - 2]
    <3>1. two \o Tail(chain) \in Seq(N)
          /\ Len(two \o Tail(chain)) = Len(two) + Len(Tail(chain))
          /\ \A k \in 1..(Len(two) + Len(Tail(chain))) :
               (two \o Tail(chain))[k] = IF k <= Len(two) THEN two[k] ELSE Tail(chain)[k - Len(two)]
      BY <2>3, <2>4, ConcatProperties
    <3>2. new = two \o Tail(chain)
      BY <2>1 DEF two
    <3>3. 2 + Len(Tail(chain)) = Len(chain) + 1
      BY <2>2, <2>3
    <3> QED BY <2>4, <3>1, <3>2, <3>3
  <2>6. 2 \in 1..Len(new) /\ new[2] = kv
    BY <2>2, <2>4, <2>5
  <2>7. \A k \in 1..Len(chain) : new[IF k < 2 THEN k ELSE k + 1] = chain[k]
    BY <2>2, <2>3, <2>4, <2>5
  <2>8. WithAt(new, chain, 2, kv)
    BY <2>5, <2>6, <2>7 DEF WithAt
  <2> QED BY <1>3, <2>5, <2>8
<1> QED BY <1>1, <1>2, <1>3

\* new is buf with one node more, at place p of bucket i; up tells where the
\* other nodes of that bucket have gone.
MovedUp(buf, new, i, p, up) ==
  /\ DOMAIN new = DOMAIN buf /\ i \in DOMAIN buf
  /\ \A j \in DOMAIN buf \ {i} : new[j] = buf[j]
  /\ p \in DOMAIN new[i]
  /\ \A k \in DOMAIN buf[i] : up[k] \in DOMAIN new[i] /\ new[i][up[k]] = buf[i][k]
  /\ \A k \in DOMAIN new[i] : k = p \/ \E l \in DOMAIN buf[i] : k = up[l]
  /\ \A k \in DOMAIN buf[i] : up[k] # p
  /\ \A k, l \in DOMAIN buf[i] : up[k] = up[l] => k = l

\* The buffer with one node more holds that node and those it held.
LEMMA GrownHeld ==
  ASSUME NEW buf, NEW new, NEW i, NEW p, NEW up, MovedUp(buf, new, i, p, up)
  PROVE  Held(new) = Held(buf) \cup {new[i][p]}
<1> USE DEF MovedUp
<1>1. ASSUME NEW j \in DOMAIN new, NEW k \in DOMAIN new[j]
      PROVE  new[j][k] \in Held(buf) \cup {new[i][p]}
  <2>1. CASE j = i
    <3>1. CASE k = p
      BY <2>1, <3>1
    <3>2. CASE k # p
      <4>1. PICK l \in DOMAIN buf[i] : k = up[l]
        BY <2>1, <3>2
      <4>2. new[j][k] = buf[i][l]
        BY <2>1, <4>1
      <4> QED BY <4>2, HeldDef
    <3> QED BY <3>1, <3>2
  <2>2. CASE j # i
    <3>1. new[j] = buf[j]
      BY <2>2
    <3> QED BY <3>1, HeldDef
  <2> QED BY <2>1, <2>2
<1>2. ASSUME NEW j \in DOMAIN buf, NEW k \in DOMAIN buf[j] PROVE buf[j][k] \in Held(new)
  <2>1. CASE j = i
    <3>1. up[k] \in DOMAIN new[i] /\ buf[j][k] = new[i][up[k]]
      BY <2>1
    <3> QED BY <3>1, HeldDef
  <2>2. CASE j # i
    <3>1. new[j] = buf[j]
      BY <2>2
    <3> QED BY <3>1, HeldDef
  <2> QED BY <2>1, <2>2
<1>3. new[i][p] \in Held(new)
  BY HeldDef
<1>4. ASSUME NEW x \in Held(new) PROVE x \in Held(buf) \cup {new[i][p]}
  BY <1>1, HeldDef
<1>5. ASSUME NEW x \in Held(buf) PROVE x \in Held(new)
  BY <1>2, HeldDef
<1> QED BY <1>3, <1>4, <1>5

\* It holds no text twice just when the old one did not and the text is new
\* in the bucket.
LEMMA GrownDistinct ==
  ASSUME NEW buf, NEW new, NEW i, NEW p, NEW up, MovedUp(buf, new, i, p, up)
  PROVE  Distinct(new) <=>
           Distinct(buf) /\ \A k \in DOMAIN buf[i] : buf[i][k].key.text # new[i][p].key.text
<1> USE DEF MovedUp
<1>1. ASSUME Distinct(new), NEW j \in DOMAIN buf, NEW k \in DOMAIN buf[j],
             NEW l \in DOMAIN buf[j],
             buf[j][k].key.text = buf[j][l].key.text
      PROVE  k = l
  <2>1. CASE j = i
    <3>1. up[k] \in DOMAIN new[i] /\ up[l] \in DOMAIN new[i]
          /\ new[i][up[k]].key.text = new[i][up[l]].key.text
      BY <1>1, <2>1
    <3>2. up[k] = up[l]
      BY <1>1, <3>1 DEF Distinct
    <3> QED BY <2>1, <3>2
  <2>2. CASE j # i
    <3>1. new[j] = buf[j] /\ j \in DOMAIN new
      BY <2>2
    <3> QED BY <1>1, <3>1 DEF Distinct
  <2> QED BY <2>1, <2>2
<1>2. ASSUME Distinct(new), NEW k \in DOMAIN buf[i]
      PROVE  buf[i][k].key.text # new[i][p].key.text
  <2>1. up[k] \in DOMAIN new[i] /\ up[k] # p /\ new[i][up[k]] = buf[i][k]
        /\ i \in DOMAIN new
    OBVIOUS
  <2>2. new[i][up[k]].key.text # new[i][p].key.text
    BY <1>2, <2>1 DEF Distinct
  <2> QED BY <2>1, <2>2
<1>3. ASSUME Distinct(buf),
             \A k \in DOMAIN buf[i] : buf[i][k].key.text # new[i][p].key.text,
             NEW j \in DOMAIN new, NEW k \in DOMAIN new[j], NEW l \in DOMAIN new[j],
             new[j][k].key.text = new[j][l].key.text
      PROVE  k = l
  <2>1. CASE j = i
    <3>1. ASSUME NEW a \in DOMAIN buf[i], NEW b \in DOMAIN buf[i], k = up[a], l = up[b]
          PROVE  k = l
      <4>1. buf[i][a].key.text = buf[i][b].key.text
        BY <1>3, <2>1, <3>1
      <4>2. a = b
        BY <1>3, <4>1 DEF Distinct
      <4> QED BY <3>1, <4>2
    <3>2. ASSUME NEW a \in DOMAIN buf[i], k = up[a], l = p PROVE FALSE
      BY <1>3, <2>1, <3>2
    <3>3. ASSUME NEW a \in DOMAIN buf[i], l = up[a], k = p PROVE FALSE
      BY <1>3, <2>1, <3>3
    <3>4. /\ k = p \/ \E a \in DOMAIN buf[i] : k = up[a]
          /\ l = p \/ \E a \in DOMAIN buf[i] : l = up[a]
      BY <2>1
    <3> QED BY <3>1, <3>2, <3>3, <3>4
  <2>2. CASE j # i
    <3>1. new[j] = buf[j] /\ j \in DOMAIN buf
      BY <2>2
    <3> QED BY <1>3, <3>1 DEF Distinct
  <2> QED BY <2>1, <2>2
<1>4. Distinct(new) => Distinct(buf)
  BY <1>1 DEF Distinct
<1>5. Distinct(buf)
      /\ (\A k \in DOMAIN buf[i] : buf[i][k].key.text # new[i][p].key.text) => Distinct(new)
  BY <1>3 DEF Distinct
<1> QED BY <1>2, <1>4, <1>5

\* Its nodes are where they belong just when they were and the new one is.
LEMMA GrownPlaced ==
  ASSUME NEW buf, NEW new, NEW i, NEW p, NEW up, MovedUp(buf, new, i, p, up)
  PROVE  \A mask : Placed(new, mask) <=> Placed(buf, mask) /\ Index(new[i][p].hash, mask) = i
<1> USE DEF MovedUp
<1> TAKE mask
<1>1. ASSUME Placed(new, mask), NEW j \in DOMAIN buf, NEW k \in DOMAIN buf[j]
      PROVE  Index(buf[j][k].hash, mask) = j
  <2>1. CASE j = i
    <3>1. up[k] \in DOMAIN new[i] /\ new[i][up[k]] = buf[i][k]
      BY <2>1
    <3>2. Index(new[i][up[k]].hash, mask) = i
      BY <1>1, <3>1 DEF Placed
    <3> QED BY <2>1, <3>1, <3>2
  <2>2. CASE j # i
    <3>1. new[j] = buf[j] /\ j \in DOMAIN new
      BY <2>2
    <3> QED BY <1>1, <3>1 DEF Placed
  <2> QED BY <2>1, <2>2
<1>2. ASSUME Placed(buf, mask), Index(new[i][p].hash, mask) = i,
             NEW j \in DOMAIN new, NEW k \in DOMAIN new[j]
      PROVE  Index(new[j][k].hash, mask) = j
  <2>1. CASE j = i
    <3>1. ASSUME NEW l \in DOMAIN buf[i], k = up[l] PROVE Index(new[j][k].hash, mask) = j
      <4>1. new[j][k] = buf[i][l]
        BY <2>1, <3>1
      <4>2. Index(buf[i][l].hash, mask) = i
        BY <1>2 DEF Placed
      <4> QED BY <2>1, <4>1, <4>2
    <3> QED BY <1>2, <2>1, <3>1
  <2>2. CASE j # i
    <3>1. new[j] = buf[j] /\ j \in DOMAIN buf
      BY <2>2
    <3> QED BY <1>2, <3>1 DEF Placed
  <2> QED BY <2>1, <2>2
<1>3. Placed(new, mask) => Placed(buf, mask) /\ Index(new[i][p].hash, mask) = i
  BY <1>1 DEF Placed
<1>4. Placed(buf, mask) /\ Index(new[i][p].hash, mask) = i => Placed(new, mask)
  BY <1>2 DEF Placed
<1> QED BY <1>3, <1>4

\* One position more in a bucket is one place more in the buffer.
LEMMA GrownCells ==
  ASSUME NEW buf, NEW new, DOMAIN new = DOMAIN buf,
         NEW i \in DOMAIN buf, \A j \in DOMAIN buf \ {i} : new[j] = buf[j],
         NEW k, k \notin DOMAIN buf[i], DOMAIN new[i] = DOMAIN buf[i] \cup {k}
  PROVE  /\ Cells(new) = Cells(buf) \cup {<<i, k>>}
         /\ <<i, k>> \notin Cells(buf)
<1>1. ASSUME NEW j \in DOMAIN new, NEW l \in DOMAIN new[j]
      PROVE  <<j, l>> \in Cells(buf) \cup {<<i, k>>}
  BY CellsDef
<1>2. ASSUME NEW j \in DOMAIN buf, NEW l \in DOMAIN buf[j] PROVE <<j, l>> \in Cells(new)
  BY CellsDef
<1>3. <<i, k>> \in Cells(new) /\ <<i, k>> \notin Cells(buf)
  BY CellsDef
<1>4. ASSUME NEW c \in Cells(new) PROVE c \in Cells(buf) \cup {<<i, k>>}
  BY <1>1, CellsDef
<1>5. ASSUME NEW c \in Cells(buf) PROVE c \in Cells(new)
  BY <1>2, CellsDef
<1> QED BY <1>3, <1>4, <1>5

\* Buckets of the same lengths have the same places.
LEMMA SameCells ==
  ASSUME NEW buf, NEW new, DOMAIN new = DOMAIN buf,
         \A i \in DOMAIN buf : DOMAIN new[i] = DOMAIN buf[i]
  PROVE  Cells(new) = Cells(buf)
<1>1. ASSUME NEW c \in Cells(new) PROVE c \in Cells(buf)
  BY CellsDef
<1>2. ASSUME NEW c \in Cells(buf) PROVE c \in Cells(new)
  BY CellsDef
<1> QED BY <1>1, <1>2

\* new is buf with the node e added at place p of bucket i.
GrownAt(buf, new, D, N, i, p, e) ==
  /\ buf \in [D -> Seq(N)] /\ new \in [D -> Seq(N)]
  /\ i \in D /\ p \in Nat
  /\ \A j \in D \ {i} : new[j] = buf[j]
  /\ WithAt(new[i], buf[i], p, e)

\* What that does to the buffer.
GrownBuf(buf, new, i, e) ==
  /\ Cells(new) = Cells(buf) \cup {<<i, Len(buf[i]) + 1>>}
  /\ <<i, Len(buf[i]) + 1>> \notin Cells(buf)
  /\ Held(new) = Held(buf) \cup {e}
  /\ Distinct(new) <=>
       Distinct(buf) /\ \A k \in DOMAIN buf[i] : buf[i][k].key.text # e.key.text
  /\ \A mask : Placed(new, mask) <=> Placed(buf, mask) /\ Index(e.hash, mask) = i

\* What adding one node to one chain does to a buffer, and so what removing
\* it does.
LEMMA Grown ==
  ASSUME NEW N, NEW D, NEW buf, NEW new, NEW i, NEW p, NEW e,
         GrownAt(buf, new, D, N, i, p, e)
  PROVE  GrownBuf(buf, new, i, e)
<1> DEFINE n == Len(buf[i])
           up == [k \in DOMAIN buf[i] |-> IF k < p THEN k ELSE k + 1]
<1>1. /\ n \in Nat /\ DOMAIN buf[i] = 1..n /\ DOMAIN new[i] = 1..(n + 1)
      /\ p \in 1..(n + 1) /\ new[i][p] = e /\ DOMAIN buf = D /\ DOMAIN new = D
      /\ \A k \in 1..n : new[i][IF k < p THEN k ELSE k + 1] = buf[i][k]
  <2>1. buf[i] \in Seq(N) /\ new[i] \in Seq(N)
    BY DEF GrownAt
  <2> QED BY <2>1, ChainDomain DEF GrownAt, WithAt
<1> HIDE DEF n
<1>2. \A k \in DOMAIN buf[i] : up[k] \in DOMAIN new[i] /\ new[i][up[k]] = buf[i][k]
  BY <1>1
<1>3. \A k \in DOMAIN new[i] : k = p \/ \E l \in DOMAIN buf[i] : k = up[l]
  <2> TAKE k \in DOMAIN new[i]
  <2>1. CASE k < p
    <3>1. k \in DOMAIN buf[i] /\ k = up[k]
      BY <1>1, <2>1
    <3> QED BY <3>1
  <2>2. CASE k > p
    <3>1. k - 1 \in DOMAIN buf[i] /\ k = up[k - 1]
      BY <1>1, <2>2
    <3> QED BY <3>1
  <2> QED BY <1>1, <2>1, <2>2
<1>4. /\ \A k \in DOMAIN buf[i] : up[k] # p
      /\ \A k, l \in DOMAIN buf[i] : up[k] = up[l] => k = l
  BY <1>1
<1>5. n + 1 \notin DOMAIN buf[i] /\ DOMAIN new[i] = DOMAIN buf[i] \cup {n + 1}
  BY <1>1
<1> HIDE DEF up
<1>6. DOMAIN new = DOMAIN buf /\ i \in DOMAIN buf /\ p \in DOMAIN new[i] /\ new[i][p] = e
      /\ \A j \in DOMAIN buf \ {i} : new[j] = buf[j]
  BY <1>1 DEF GrownAt
<1>11. MovedUp(buf, new, i, p, up)
  BY <1>2, <1>3, <1>4, <1>6 DEF MovedUp
<1>7. Held(new) = Held(buf) \cup {e}
  BY <1>6, <1>11, GrownHeld
<1>8. Distinct(new) <=>
        Distinct(buf) /\ \A k \in DOMAIN buf[i] : buf[i][k].key.text # e.key.text
  BY <1>6, <1>11, GrownDistinct
<1>9. \A mask : Placed(new, mask) <=> Placed(buf, mask) /\ Index(e.hash, mask) = i
  BY <1>6, <1>11, GrownPlaced
<1>10. Cells(new) = Cells(buf) \cup {<<i, n + 1>>} /\ <<i, n + 1>> \notin Cells(buf)
  BY <1>5, <1>6, GrownCells
<1> QED BY <1>7, <1>8, <1>9, <1>10 DEF n, GrownBuf

\* n is in the bucket of its text.
InBucket(buf, mask, n) ==
  \E k \in DOMAIN buf[Index(Hash(n.key.text), mask)] : n = buf[Index(Hash(n.key.text), mask)][k]

\* All the nodes of a text are in one bucket.
LEMMA BucketOfText ==
  ASSUME NEW mask \in Nat, NEW N, Hashed(N), NEW buf, IsBuf(buf, mask, N), NEW n \in Held(buf)
  PROVE  /\ n \in N /\ Index(Hash(n.key.text), mask) \in 0..mask
         /\ InBucket(buf, mask, n)
<1>1. PICK i, k : i \in DOMAIN buf /\ k \in DOMAIN buf[i] /\ n = buf[i][k]
  BY HeldDef
<1>2. DOMAIN buf = 0..mask /\ buf[i] \in Seq(N)
  BY <1>1 DEF IsBuf
<1>3. n \in N
  BY <1>1, <1>2, ChainDomain
<1>4. Index(Hash(n.key.text), mask) = i
  BY <1>1, <1>3 DEF IsBuf, Placed, Hashed
<1> QED BY <1>1, <1>2, <1>3, <1>4 DEF InBucket

\* The bucket of a text is all that need be looked at.
LEMMA TextsInBucket ==
  ASSUME NEW mask \in Nat, NEW N, Hashed(N), NEW buf, IsBuf(buf, mask, N),
         NEW text, Hash(text) \in Nat
  PROVE  /\ Index(Hash(text), mask) \in DOMAIN buf
         /\ (\E n \in Held(buf) : n.key.text = text) <=>
            (\E k \in DOMAIN buf[Index(Hash(text), mask)] :
               buf[Index(Hash(text), mask)][k].key.text = text)
<1>1. Index(Hash(text), mask) \in DOMAIN buf
  BY IndexInRange DEF IsBuf
<1>2. ASSUME NEW n \in Held(buf), n.key.text = text
      PROVE  \E k \in DOMAIN buf[Index(Hash(text), mask)] :
               buf[Index(Hash(text), mask)][k].key.text = text
  BY <1>2, BucketOfText DEF InBucket
<1>3. ASSUME NEW k \in DOMAIN buf[Index(Hash(text), mask)],
             buf[Index(Hash(text), mask)][k].key.text = text
      PROVE  \E n \in Held(buf) : n.key.text = text
  BY <1>1, <1>3, HeldDef
<1> QED BY <1>1, <1>2, <1>3

\* A text held once is held at one place of the whole buffer.
LEMMA DistinctHeld ==
  ASSUME NEW mask \in Nat, NEW N, Hashed(N), NEW buf, IsBuf(buf, mask, N), Distinct(buf)
  PROVE  /\ \A m, n \in Held(buf) : m.key.text = n.key.text => m = n
         /\ \A i, j \in DOMAIN buf : \A k \in DOMAIN buf[i] : \A l \in DOMAIN buf[j] :
              buf[i][k].key.text = buf[j][l].key.text => i = j /\ k = l
<1>1. ASSUME NEW i \in DOMAIN buf, NEW k \in DOMAIN buf[i]
      PROVE  buf[i][k] \in N /\ Index(Hash(buf[i][k].key.text), mask) = i
  <2>1. buf[i] \in Seq(N)
    BY DEF IsBuf
  <2>2. buf[i][k] \in N
    BY <2>1, ChainDomain
  <2>3. Index(buf[i][k].hash, mask) = i
    BY DEF IsBuf, Placed
  <2> QED BY <2>2, <2>3 DEF Hashed
<1>2. ASSUME NEW i \in DOMAIN buf, NEW j \in DOMAIN buf, NEW k \in DOMAIN buf[i],
             NEW l \in DOMAIN buf[j],
             buf[i][k].key.text = buf[j][l].key.text
      PROVE  i = j /\ k = l
  <2>1. i = j
    BY <1>1, <1>2
  <2> QED BY <1>2, <2>1 DEF Distinct
<1>3. ASSUME NEW m \in Held(buf), NEW n \in Held(buf), m.key.text = n.key.text PROVE m = n
  <2>1. PICK i, k : i \in DOMAIN buf /\ k \in DOMAIN buf[i] /\ m = buf[i][k]
    BY HeldDef
  <2>2. PICK j, l : j \in DOMAIN buf /\ l \in DOMAIN buf[j] /\ n = buf[j][l]
    BY HeldDef
  <2> QED BY <1>2, <1>3, <2>1, <2>2
<1> QED BY <1>2, <1>3

\* new is buf after kv has been set in it: with one node more, or with another
\* node of the same text overwritten.
Extended(buf, new, mask, N, kv) ==
  /\ IsBuf(new, mask, N)
  /\ Cells(new) = Cells(buf) \/ \E c : c \notin Cells(buf) /\ Cells(new) = Cells(buf) \cup {c}
  /\ (\A n \in Held(buf) : n.key.text # kv.key.text) =>
       /\ Held(new) = Held(buf) \cup {kv}
       /\ Distinct(buf) => Distinct(new)
       /\ \E c : c \notin Cells(buf) /\ Cells(new) = Cells(buf) \cup {c}

\* What setting a node does to the whole buffer.
LEMMA PutInBuf ==
  ASSUME NEW mask \in Nat, NEW N, Hashed(N), NEW buf, IsBuf(buf, mask, N), NEW kv \in N,
         NEW new, new = PutIn(buf, mask, kv)
  PROVE  Extended(buf, new, mask, N, kv)
<1> DEFINE i == Index(kv.hash, mask)
<1>1. i \in 0..mask /\ kv.hash = Hash(kv.key.text) /\ kv.hash \in Nat
  BY IndexInRange DEF Hashed
<1>2. buf \in [0..mask -> Seq(N)] /\ Placed(buf, mask) /\ buf[i] \in Seq(N)
      /\ DOMAIN buf = 0..mask
  BY <1>1 DEF IsBuf
<1>3. new = [buf EXCEPT ![i] = keyval_set(buf[i], kv)]
  BY DEF PutIn
<1> HIDE DEF i
<1>4. new[i] = keyval_set(buf[i], kv) /\ DOMAIN new = 0..mask
      /\ \A j \in 0..mask \ {i} : new[j] = buf[j]
  BY <1>1, <1>2, <1>3
<1>5. new[i] \in Seq(N)
  BY <1>2, <1>4, ChainSet
<1>6. new \in [0..mask -> Seq(N)]
  BY <1>1, <1>2, <1>3, <1>4, <1>5
<1>7. CASE Overwrites(buf[i], kv.key)
  <2>1. /\ 1 \in DOMAIN buf[i] /\ buf[i][1].key.text = kv.key.text /\ DOMAIN new[i] = DOMAIN buf[i]
        /\ new[i][1] = kv /\ \A k \in DOMAIN buf[i] \ {1} : new[i][k] = buf[i][k]
    <3>1. Overwritten(new[i], buf[i], kv)
      BY <1>2, <1>4, <1>7, ChainSet
    <3> QED BY <3>1 DEF Overwritten
  <2>2. Placed(new, mask)
    <3>1. ASSUME NEW j \in 0..mask, NEW k \in DOMAIN new[j]
          PROVE  Index(new[j][k].hash, mask) = j
      <4>1. CASE j = i /\ k = 1
        BY <2>1, <4>1 DEF i
      <4>2. CASE j = i /\ k # 1
        <5>1. k \in DOMAIN buf[i] /\ new[j][k] = buf[i][k] /\ i \in DOMAIN buf
          BY <1>1, <1>2, <2>1, <4>2
        <5> QED BY <1>2, <4>2, <5>1 DEF Placed
      <4>3. CASE j # i
        <5>1. new[j] = buf[j] /\ j \in DOMAIN buf
          BY <1>2, <1>4, <4>3
        <5> QED BY <1>2, <5>1 DEF Placed
      <4> QED BY <4>1, <4>2, <4>3
    <3> QED BY <1>4, <3>1 DEF Placed
  <2>3. Cells(new) = Cells(buf)
    <3>1. \A j \in DOMAIN buf : DOMAIN new[j] = DOMAIN buf[j]
      BY <1>2, <1>4, <2>1
    <3> QED BY <1>2, <1>4, <3>1, SameCells
  <2>4. \E n \in Held(buf) : n.key.text = kv.key.text
    BY <1>1, <1>2, <2>1, HeldDef
  <2> QED BY <1>6, <2>2, <2>3, <2>4 DEF IsBuf, Extended
<1>8. CASE ~Overwrites(buf[i], kv.key)
  <2>1. PICK p \in Nat : WithAt(new[i], buf[i], p, kv)
    BY <1>2, <1>4, <1>8, ChainSet
  <2>2. /\ Cells(new) = Cells(buf) \cup {<<i, Len(buf[i]) + 1>>}
        /\ <<i, Len(buf[i]) + 1>> \notin Cells(buf)
        /\ Held(new) = Held(buf) \cup {kv}
        /\ Distinct(new) <=>
              Distinct(buf) /\ \A k \in DOMAIN buf[i] : buf[i][k].key.text # kv.key.text
        /\ \A m : Placed(new, m) <=> Placed(buf, m) /\ Index(kv.hash, m) = i
    <3>1. GrownAt(buf, new, 0..mask, N, i, p, kv)
      BY <1>1, <1>2, <1>4, <1>6, <2>1 DEF GrownAt
    <3>2. GrownBuf(buf, new, i, kv)
      BY <3>1, Grown
    <3> QED BY <3>2 DEF GrownBuf
  <2>3. Placed(new, mask)
    BY <1>2, <2>2 DEF i
  <2>4. ASSUME \A n \in Held(buf) : n.key.text # kv.key.text, NEW k \in DOMAIN buf[i]
        PROVE  buf[i][k].key.text # kv.key.text
    BY <1>1, <1>2, <2>4, HeldDef
  <2> QED BY <1>6, <2>2, <2>3, <2>4 DEF IsBuf, Extended
<1> QED BY <1>7, <1>8

\* Where an element behind place p of n comes from when place p is left out.
LEMMA PastTheGap ==
  ASSUME NEW p \in Nat, NEW n \in Nat, NEW k \in Nat, p <= k, k <= (p - 1) + (n - p)
  PROVE  k - (p - 1) \in 1..(n - p) /\ (k - (p - 1)) + p = k + 1 /\ ~(k <= p - 1)
OBVIOUS

\* RemoveAt takes one node out of a chain and moves the later ones down.
LEMMA ChainRemove ==
  ASSUME NEW N, NEW chain \in Seq(N), NEW p \in DOMAIN chain, NEW new, new = RemoveAt(chain, p)
  PROVE  new \in Seq(N) /\ WithAt(chain, new, p, chain[p])
<1>1. Len(chain) \in Nat /\ DOMAIN chain = 1..Len(chain) /\ p \in 1..Len(chain)
      /\ \A k \in 1..Len(chain) : chain[k] \in N
  BY ChainDomain
<1> DEFINE left == SubSeq(chain, 1, p - 1)
           right == SubSeq(chain, p + 1, Len(chain))
<1>2. left \in Seq(N) /\ Len(left) = p - 1 /\ \A k \in 1..(p - 1) : left[k] = chain[k]
  BY <1>1, SubSeqProperties
<1>3. right \in Seq(N) /\ Len(right) = Len(chain) - p
      /\ \A k \in 1..(Len(chain) - p) : right[k] = chain[k + p]
  BY <1>1, SubSeqProperties
<1>4. new = left \o right
  BY DEF RemoveAt
<1> HIDE DEF left, right
<1>5. /\ new \in Seq(N) /\ Len(new) = Len(left) + Len(right)
      /\ \A k \in 1..(Len(left) + Len(right)) :
           new[k] = IF k <= Len(left) THEN left[k] ELSE right[k - Len(left)]
  <2>1. /\ left \o right \in Seq(N) /\ Len(left \o right) = Len(left) + Len(right)
        /\ \A k \in 1..(Len(left) + Len(right)) :
             (left \o right)[k] = IF k <= Len(left) THEN left[k] ELSE right[k - Len(left)]
    BY <1>2, <1>3, ConcatProperties
  <2> QED BY <1>4, <2>1
<1>6. Len(chain) = Len(new) + 1
  <2>1. Len(new) = (p - 1) + (Len(chain) - p)
    BY <1>2, <1>3, <1>5
  <2> QED BY <1>1, <2>1
<1>7. ASSUME NEW k \in 1..Len(new) PROVE chain[IF k < p THEN k ELSE k + 1] = new[k]
  <2>1. CASE k < p
    BY <1>1, <1>2, <1>3, <1>5, <2>1
  <2>2. CASE k >= p
    <3> DEFINE j == k - (p - 1)
    <3>1. p \in Nat /\ Len(chain) \in Nat /\ Len(left) = p - 1 /\ Len(right) = Len(chain) - p
          /\ Len(new) = Len(left) + Len(right)
      BY <1>1, <1>2, <1>3, <1>5
    <3>2. k \in 1..(Len(left) + Len(right)) /\ ~(k <= Len(left)) /\ k - Len(left) = j
          /\ j \in 1..(Len(chain) - p) /\ j + p = k + 1
      <4>1. k \in Nat /\ p <= k /\ k <= (p - 1) + (Len(chain) - p)
        BY <2>2, <3>1
      <4>2. j \in 1..(Len(chain) - p) /\ j + p = k + 1 /\ ~(k <= p - 1)
        BY <3>1, <4>1, PastTheGap
      <4> QED BY <3>1, <4>2
    <3> HIDE DEF j
    <3>3. new[k] = right[j]
      BY <1>5, <3>2
    <3>4. right[j] = chain[k + 1]
      BY <1>3, <3>2
    <3>5. ~(k < p)
      BY <1>1, <2>2
    <3> QED BY <3>3, <3>4, <3>5
  <2> QED BY <1>1, <2>1, <2>2
<1> QED BY <1>1, <1>5, <1>6, <1>7 DEF WithAt

\* new is buf without one node e.
Shrunk(buf, new, mask, N, e) ==
  /\ IsBuf(new, mask, N)
  /\ \E c : c \notin Cells(new) /\ Cells(buf) = Cells(new) \cup {c}
  /\ Held(buf) = Held(new) \cup {e}
  /\ Distinct(buf) => Distinct(new) /\ Held(new) = {n \in Held(buf) : n.key.text # e.key.text}

\* What unlinking a node does to the whole buffer.
LEMMA RemoveFromBuf ==
  ASSUME NEW mask \in Nat, NEW N, Hashed(N), NEW buf, IsBuf(buf, mask, N),
         NEW i \in DOMAIN buf, NEW p \in DOMAIN buf[i],
         NEW new, new = [buf EXCEPT ![i] = RemoveAt(buf[i], p)]
  PROVE  Shrunk(buf, new, mask, N, buf[i][p])
<1> DEFINE e == buf[i][p]
<1>1. buf \in [0..mask -> Seq(N)] /\ Placed(buf, mask) /\ buf[i] \in Seq(N)
      /\ DOMAIN buf = 0..mask
  BY DEF IsBuf
<1>2. new[i] = RemoveAt(buf[i], p) /\ DOMAIN new = 0..mask
      /\ \A j \in 0..mask \ {i} : buf[j] = new[j]
  BY <1>1
<1>3. new[i] \in Seq(N) /\ WithAt(buf[i], new[i], p, e)
  BY <1>1, <1>2, ChainRemove
<1>4. new \in [0..mask -> Seq(N)]
  BY <1>1, <1>2, <1>3
<1>5. p \in Nat
  BY <1>1, ChainDomain
<1> HIDE DEF e
<1>6. GrownAt(new, buf, 0..mask, N, i, p, e)
  BY <1>1, <1>2, <1>3, <1>4, <1>5 DEF GrownAt
<1>7. GrownBuf(new, buf, i, e)
  BY <1>6, Grown
<1>8. IsBuf(new, mask, N)
  BY <1>1, <1>4, <1>7 DEF GrownBuf, IsBuf
<1>9. Held(buf) = Held(new) \cup {e}
      /\ \E c : c \notin Cells(new) /\ Cells(buf) = Cells(new) \cup {c}
  BY <1>7 DEF GrownBuf
<1>10. ASSUME Distinct(buf)
       PROVE  Distinct(new) /\ Held(new) = {n \in Held(buf) : n.key.text # e.key.text}
  <2>1. Distinct(new) /\ \A k \in DOMAIN new[i] : new[i][k].key.text # e.key.text
    BY <1>7, <1>10 DEF GrownBuf
  <2>2. e \in Held(buf) /\ i = Index(Hash(e.key.text), mask)
    <3>1. e \in N
      BY <1>1, ChainDomain DEF e
    <3>2. Index(e.hash, mask) = i
      BY <1>1 DEF e, Placed
    <3> QED BY <1>9, <3>1, <3>2 DEF Hashed
  <2>3. ASSUME NEW n \in Held(new) PROVE n.key.text # e.key.text
    <3>1. InBucket(new, mask, n)
      BY <1>8, BucketOfText
    <3> QED BY <2>1, <2>2, <3>1 DEF InBucket
  <2> QED BY <1>9, <2>1, <2>3
<1> QED BY <1>8, <1>9, <1>10 DEF Shrunk, e

\* f[i] is the first i sequences put together.
Flattens(f, seqs, n, N) ==
  /\ f \in [1..n -> Seq(N)]
  /\ f[1] = seqs[1] /\ \A i \in 2..n : f[i] = f[i - 1] \o seqs[i]
  /\ FlattenSeq(seqs) = f[n]

\* FlattenSeq is such a sequence of concatenations.
LEMMA FlattenFunction ==
  ASSUME NEW N, NEW n \in Nat \ {0}, NEW seqs \in [1..n -> Seq(N)]
  PROVE  \E f : Flattens(f, seqs, n, N)
<1>0. Len(seqs) = n
  OBVIOUS
<1> DEFINE Body(f) == [i \in 1..n |-> IF i = 1 THEN seqs[i] ELSE f[i - 1] \o seqs[i]]
<1>1. \E f \in [1..n -> Seq(N)] : f = Body(f)
  <2> DEFINE G == [i \in 1..(n - 1) |-> [s \in Seq(N) |-> s \o seqs[i + 1]]]
  <2>1. G \in [1..(n - 1) -> [Seq(N) -> Seq(N)]]
    BY ConcatProperties
  <2>2. seqs[1] \in Seq(N) /\ n - 1 \in Nat
    OBVIOUS
  <2> HIDE DEF G
  <2>3. PICK g : Iterates(g, n - 1, Seq(N), seqs[1], G)
    BY <2>1, <2>2, RecursiveFunction
  <2> DEFINE f == [i \in 1..n |-> g[i - 1]]
  <2>4. f \in [1..n -> Seq(N)] /\ f[1] = seqs[1]
    BY <2>3 DEF Iterates
  <2>5. ASSUME NEW i \in 1..n PROVE f[i] = IF i = 1 THEN seqs[i] ELSE f[i - 1] \o seqs[i]
    <3>1. CASE i = 1
      BY <2>4, <3>1
    <3>2. CASE i # 1
      <4>1. i - 1 \in 1..(n - 1) /\ (i - 1) - 1 \in 0..(n - 1) /\ (i - 1) + 1 = i
            /\ i - 1 \in 1..n
        BY <3>2
      <4>2. f[i] = G[i - 1][g[(i - 1) - 1]] /\ f[i - 1] = g[(i - 1) - 1]
            /\ g[(i - 1) - 1] \in Seq(N)
        BY <2>3, <4>1 DEF Iterates
      <4> DEFINE j == i - 1
      <4> HIDE DEF j
      <4>3. j \in 1..(n - 1) /\ j + 1 = i
        BY <4>1 DEF j
      <4>4. \A s \in Seq(N) : G[j][s] = s \o seqs[i]
        BY <4>3 DEF G
      <4> QED BY <3>2, <4>2, <4>4 DEF j
    <3> QED BY <3>1, <3>2
  <2> HIDE DEF f
  <2>6. f = Body(f)
    BY <2>4, <2>5
  <2> QED BY <2>4, <2>6
<1> DEFINE F == CHOOSE f : f = Body(f)
<1>2. F = Body(F)
  BY <1>1
<1>3. FlattenSeq(seqs) = F[n]
  BY <1>0 DEF FlattenSeq
<1>4. PICK f \in [1..n -> Seq(N)] : f = Body(f)
  BY <1>1
<1> HIDE DEF F
<1>5. DOMAIN F = 1..n
  BY <1>2
<1>6. F = f
  <2> DEFINE T == {m \in Nat : m + 1 <= n => F[m + 1] = f[m + 1]}
  <2>1. 0 \in T
    BY <1>2, <1>4
  <2>2. ASSUME NEW m \in T PROVE m + 1 \in T
    <3> SUFFICES ASSUME (m + 1) + 1 <= n PROVE F[(m + 1) + 1] = f[(m + 1) + 1]
      OBVIOUS
    <3> DEFINE i == (m + 1) + 1
    <3>1. i \in 1..n /\ i # 1 /\ i - 1 = m + 1 /\ F[m + 1] = f[m + 1]
      OBVIOUS
    <3> HIDE DEF i
    <3>2. F[i] = F[i - 1] \o seqs[i] /\ f[i] = f[i - 1] \o seqs[i]
      BY <1>2, <1>4, <3>1
    <3> QED BY <3>1, <3>2 DEF i
  <2> HIDE DEF T
  <2>3. T = Nat
    BY <2>1, <2>2, NatSetInduction DEF T
  <2>4. ASSUME NEW i \in 1..n PROVE F[i] = f[i]
    <3>1. i - 1 \in T /\ (i - 1) + 1 = i
      BY <2>3
    <3> QED BY <3>1 DEF T
  <2>5. F = [i \in 1..n |-> F[i]]
    BY <1>2
  <2>6. f = [i \in 1..n |-> f[i]]
    BY <1>4
  <2> QED BY <2>4, <2>5, <2>6
<1>7. f[1] = seqs[1]
  BY <1>4
<1>8. ASSUME NEW i \in 2..n PROVE f[i] = f[i - 1] \o seqs[i]
  <2>1. i \in 1..n /\ i # 1
    OBVIOUS
  <2> QED BY <1>4, <2>1
<1> HIDE DEF Body
<1> QED BY <1>3, <1>4, <1>6, <1>7, <1>8 DEF Flattens

\* kv lists the nodes of seqs, each place once.
Lists(kv, seqs, N, f) ==
  /\ kv \in Seq(N) /\ f \in [1..Len(kv) -> Cells(seqs)]
  /\ \A a, b \in 1..Len(kv) : f[a] = f[b] => a = b
  /\ \A c \in Cells(seqs) : \E a \in 1..Len(kv) : f[a] = c
  /\ \A a \in 1..Len(kv) : kv[a] = seqs[f[a][1]][f[a][2]]

\* A listing followed by the nodes of one bucket more lists both.
LEMMA ListsAppend ==
  ASSUME NEW N, NEW seqs, NEW more, NEW top, top \notin DOMAIN seqs, more[top] \in Seq(N),
         DOMAIN more = DOMAIN seqs \cup {top}, \A i \in DOMAIN seqs : more[i] = seqs[i],
         NEW kv, NEW f, Lists(kv, seqs, N, f)
  PROVE  \E g : Lists(kv \o more[top], more, N, g)
<1> DEFINE n == Len(kv)
           s == more[top]
           new == kv \o s
<1>1. s \in Seq(N) /\ Len(s) \in Nat /\ DOMAIN s = 1..Len(s)
  BY ChainDomain
<1>2. kv \in Seq(N) /\ n \in Nat /\ f \in [1..n -> Cells(seqs)]
  BY ChainDomain DEF Lists
<1>3. /\ new \in Seq(N) /\ Len(new) = n + Len(s)
      /\ \A a \in 1..(n + Len(s)) : new[a] = IF a <= n THEN kv[a] ELSE s[a - n]
  BY <1>1, <1>2, ConcatProperties
<1> DEFINE g == [a \in 1..(n + Len(s)) |-> IF a <= n THEN f[a] ELSE <<top, a - n>>]
<1>4. /\ \A i, k : <<i, k>> \in Cells(seqs) <=> i \in DOMAIN seqs /\ k \in DOMAIN seqs[i]
      /\ \A c \in Cells(seqs) : \E i \in DOMAIN seqs : \E k \in DOMAIN seqs[i] : c = <<i, k>>
  BY CellsDef
<1>5. /\ \A i, k : <<i, k>> \in Cells(more) <=> i \in DOMAIN more /\ k \in DOMAIN more[i]
      /\ \A c \in Cells(more) : \E i \in DOMAIN more : \E k \in DOMAIN more[i] : c = <<i, k>>
  BY CellsDef
<1>6. Cells(seqs) \subseteq Cells(more)
  <2>1. ASSUME NEW c \in Cells(seqs) PROVE c \in Cells(more)
    BY <1>4, <1>5
  <2> QED BY <2>1
<1>7. \A k \in 1..Len(s) : <<top, k>> \in Cells(more) \ Cells(seqs)
  BY <1>1, <1>4, <1>5
<1>8. ASSUME NEW c \in Cells(more), c \notin Cells(seqs)
      PROVE  \E k \in 1..Len(s) : c = <<top, k>>
  <2>1. PICK i, k : c = <<i, k>> /\ i \in DOMAIN more /\ k \in DOMAIN more[i]
    BY <1>5
  <2>2. i = top
    BY <1>4, <1>8, <2>1
  <2> QED BY <1>1, <2>1, <2>2
<1> HIDE DEF n, s, new
<1>9. g \in [1..(n + Len(s)) -> Cells(more)]
  <2>1. ASSUME NEW a \in 1..(n + Len(s)) PROVE g[a] \in Cells(more)
    <3>1. CASE a <= n
      BY <1>2, <1>6, <3>1
    <3>2. CASE a > n
      <4>1. a - n \in 1..Len(s)
        BY <1>1, <1>2, <3>2
      <4> QED BY <1>2, <1>7, <3>2, <4>1
    <3> QED BY <1>2, <3>1, <3>2
  <2> QED BY <2>1
<1>10. ASSUME NEW a \in 1..(n + Len(s)), NEW b \in 1..(n + Len(s)), g[a] = g[b] PROVE a = b
  <2>1. CASE a <= n /\ b <= n
    BY <1>2, <1>10, <2>1 DEF Lists, n
  <2>2. CASE a <= n /\ b > n
    <3>1. b - n \in 1..Len(s) /\ g[b] = <<top, b - n>> /\ g[a] = f[a]
          /\ f[a] \in Cells(seqs)
      BY <1>1, <1>2, <2>2
    <3> QED BY <1>7, <1>10, <3>1
  <2>3. CASE a > n /\ b <= n
    <3>1. a - n \in 1..Len(s) /\ g[a] = <<top, a - n>> /\ g[b] = f[b]
          /\ f[b] \in Cells(seqs)
      BY <1>1, <1>2, <2>3
    <3> QED BY <1>7, <1>10, <3>1
  <2>4. CASE a > n /\ b > n
    <3>1. a - n = b - n
      BY <1>2, <1>10, <2>4
    <3> QED BY <1>1, <1>2, <3>1
  <2> QED BY <1>1, <1>2, <2>1, <2>2, <2>3, <2>4
<1>11. ASSUME NEW c \in Cells(more) PROVE \E a \in 1..(n + Len(s)) : g[a] = c
  <2>1. CASE c \in Cells(seqs)
    <3>1. PICK a \in 1..n : f[a] = c
      BY <2>1 DEF Lists, n
    <3>2. a \in 1..(n + Len(s)) /\ g[a] = c
      BY <1>1, <1>2, <3>1
    <3> QED BY <3>2
  <2>2. CASE c \notin Cells(seqs)
    <3>1. PICK k \in 1..Len(s) : c = <<top, k>>
      BY <1>8, <2>2
    <3>2. n + k \in 1..(n + Len(s)) /\ g[n + k] = <<top, k>>
      BY <1>1, <1>2, <3>1
    <3> QED BY <3>1, <3>2
  <2> QED BY <2>1, <2>2
<1>12. ASSUME NEW a \in 1..(n + Len(s)) PROVE new[a] = more[g[a][1]][g[a][2]]
  <2>1. CASE a <= n
    <3>0. a \in 1..n /\ new[a] = kv[a] /\ g[a] = f[a] /\ f[a] \in Cells(seqs)
      BY <1>1, <1>2, <1>3, <2>1
    <3>1. new[a] = seqs[f[a][1]][f[a][2]] /\ g[a] = f[a] /\ f[a] \in Cells(seqs)
      BY <3>0 DEF Lists, n
    <3>2. f[a][1] \in DOMAIN seqs
      BY <1>4, <3>1
    <3> QED BY <3>1, <3>2
  <2>2. CASE a > n
    <3>1. new[a] = s[a - n] /\ g[a] = <<top, a - n>>
      BY <1>1, <1>2, <1>3, <2>2
    <3> QED BY <3>1 DEF s
  <2> QED BY <1>2, <2>1, <2>2
<1> HIDE DEF g
<1>13. Lists(new, more, N, g)
  BY <1>3, <1>9, <1>10, <1>11, <1>12 DEF Lists
<1> QED BY <1>13 DEF new, s

\* The nodes of a table, each once.
LEMMA NodesListed ==
  ASSUME NEW N, NEW map, map.cap_mask \in Nat, map.buf \in [0..map.cap_mask -> Seq(N)]
  PROVE  \E g : Lists(Nodes(map), map.buf, N, g)
<1> DEFINE mask == map.cap_mask
           buf == map.buf
           seqs == [i \in 1..(mask + 1) |-> buf[i - 1]]
           prefix(m) == [i \in 0..m |-> buf[i]]
<1>1. mask + 1 \in Nat \ {0} /\ seqs \in [1..(mask + 1) -> Seq(N)]
  OBVIOUS
<1> HIDE DEF seqs
<1>9. PICK flat : Flattens(flat, seqs, mask + 1, N)
  BY <1>1, FlattenFunction
<1>2. /\ flat \in [1..(mask + 1) -> Seq(N)]
      /\ flat[1] = seqs[1] /\ \A i \in 2..(mask + 1) : flat[i] = flat[i - 1] \o seqs[i]
      /\ FlattenSeq(seqs) = flat[mask + 1]
  BY <1>9 DEF Flattens
<1> DEFINE Listed(m) == \E g : Lists(flat[m + 1], prefix(m), N, g)
           T == {m \in Nat : m <= mask => Listed(m)}
<1>3. 0 \in T
  <2> DEFINE none == << >>
  <2>1. Cells(none) = {}
    BY DEF Cells
  <2>2. Lists(<< >>, none, N, << >>)
    BY <2>1, EmptySeq DEF Lists
  <2> HIDE DEF none
  <2>3. DOMAIN none = {} /\ DOMAIN prefix(0) = DOMAIN none \cup {0} /\ prefix(0)[0] = buf[0]
    BY DEF none
  <2> HIDE DEF prefix
  <2>4. buf[0] \in Seq(N)
    OBVIOUS
  <2>5. \E g : Lists(<< >> \o prefix(0)[0], prefix(0), N, g)
    BY <2>2, <2>3, <2>4, ListsAppend
  <2>6. << >> \o prefix(0)[0] = flat[0 + 1]
    BY <1>2, <2>3, <2>4, ConcatEmptySeq DEF seqs
  <2> QED BY <2>5, <2>6
<1>4. ASSUME NEW m \in T PROVE m + 1 \in T
  <2> SUFFICES ASSUME m + 1 <= mask
  PROVE  \E g : Lists(flat[(m + 1) + 1], prefix(m + 1), N, g)
    <3> HIDE DEF Listed
    <3>1. m + 1 <= mask => Listed(m + 1)
      BY DEF Listed
    <3> QED BY <3>1
  <2>1. PICK f : Lists(flat[m + 1], prefix(m), N, f)
    <3> HIDE DEF Listed
    <3>1. Listed(m)
      OBVIOUS
    <3> QED BY <3>1 DEF Listed
  <2>2. /\ DOMAIN prefix(m) = 0..m /\ DOMAIN prefix(m + 1) = 0..m \cup {m + 1} /\ m + 1 \notin 0..m
        /\ prefix(m + 1)[m + 1] = buf[m + 1] /\ buf[m + 1] \in Seq(N)
        /\ \A i \in 0..m : prefix(m + 1)[i] = prefix(m)[i]
    OBVIOUS
  <2> HIDE DEF prefix
  <2>3. \E g : Lists(flat[m + 1] \o prefix(m + 1)[m + 1], prefix(m + 1), N, g)
    BY <2>1, <2>2, ListsAppend
  <2>4. flat[(m + 1) + 1] = flat[m + 1] \o seqs[(m + 1) + 1]
        /\ seqs[(m + 1) + 1] = buf[m + 1]
    <3> DEFINE i == (m + 1) + 1
    <3>1. i \in 2..(mask + 1) /\ i - 1 = m + 1 /\ i \in 1..(mask + 1)
      OBVIOUS
    <3> HIDE DEF i
    <3>2. flat[i] = flat[i - 1] \o seqs[i] /\ seqs[i] = buf[i - 1]
      BY <1>2, <3>1 DEF seqs
    <3> QED BY <3>1, <3>2 DEF i
  <2> QED BY <2>2, <2>3, <2>4
<1> HIDE DEF T
<1>5. T = Nat
  BY <1>3, <1>4, NatSetInduction DEF T
<1>6. \E g : Lists(flat[mask + 1], prefix(mask), N, g)
  <2> HIDE DEF Listed
  <2>1. mask \in T
    BY <1>5
  <2>2. Listed(mask)
    BY <2>1 DEF T
  <2> QED BY <2>2 DEF Listed
<1>7. prefix(mask) = buf
  OBVIOUS
<1>8. Nodes(map) = flat[mask + 1]
  BY <1>2 DEF Nodes, seqs
<1> QED BY <1>6, <1>7, <1>8
-----------------------------------------------------------------------------
(* The functions *)

\* kv lists the nodes of a buffer.
Listing(kv, buf) ==
  /\ HasSize(Cells(buf), Len(kv)) /\ Len(kv) \in Nat
  /\ DOMAIN kv = 1..Len(kv)
  /\ \A n : n \in Held(buf) <=> \E a \in 1..Len(kv) : n = kv[a]
  /\ Distinct(buf) =>
       \A a, b \in 1..Len(kv) : kv[a].key.text = kv[b].key.text => a = b

\* Nodes lists the nodes of a table: what hashmap_iter and hashmap_resize
\* walk through.
LEMMA NodesListing ==
  ASSUME NEW N, Hashed(N), NEW map, map.cap_mask \in Nat, IsBuf(map.buf, map.cap_mask, N)
  PROVE  Nodes(map) \in Seq(N) /\ Listing(Nodes(map), map.buf)
<1> DEFINE kv == Nodes(map)
           buf == map.buf
           mask == map.cap_mask
<1>1. PICK f : Lists(kv, buf, N, f)
  BY NodesListed DEF IsBuf
<1> HIDE DEF kv, buf, mask
<1>2. kv \in Seq(N) /\ Len(kv) \in Nat /\ DOMAIN kv = 1..Len(kv)
      /\ f \in [1..Len(kv) -> Cells(buf)]
  BY <1>1, ChainDomain DEF Lists
<1>3. HasSize(Cells(buf), Len(kv))
  <2> DEFINE S == Cells(buf)
             n == Len(kv)
  <2>1. /\ n \in Nat /\ f \in [1..n -> S] /\ \A a, b \in 1..n : f[a] = f[b] => a = b
        /\ \A c \in S : \E a \in 1..n : f[a] = c
    BY <1>1, <1>2 DEF Lists
  <2> HIDE DEF S, n
  <2>2. HasSize(S, n)
    BY <2>1, Counted
  <2> QED BY <2>2 DEF S, n
<1>4. ASSUME NEW n \in Held(buf) PROVE \E a \in 1..Len(kv) : n = kv[a]
  <2>1. PICK c \in Cells(buf) : n = buf[c[1]][c[2]]
    BY DEF Held
  <2> QED BY <1>1, <2>1 DEF Lists
<1>5. ASSUME NEW a \in 1..Len(kv) PROVE kv[a] \in Held(buf)
  <2>1. f[a] \in Cells(buf) /\ kv[a] = buf[f[a][1]][f[a][2]]
    BY <1>1, <1>2 DEF Lists
  <2> QED BY <2>1 DEF Held
<1>6. ASSUME Distinct(buf), NEW a \in 1..Len(kv), NEW b \in 1..Len(kv),
             kv[a].key.text = kv[b].key.text
      PROVE  a = b
  <2>1. f[a] \in Cells(buf) /\ kv[a] = buf[f[a][1]][f[a][2]]
    BY <1>1, <1>2 DEF Lists
  <2>2. f[b] \in Cells(buf) /\ kv[b] = buf[f[b][1]][f[b][2]]
    BY <1>1, <1>2 DEF Lists
  <2>3. PICK i, k : i \in DOMAIN buf /\ k \in DOMAIN buf[i] /\ f[a] = <<i, k>>
    BY <2>1, CellsDef
  <2>4. PICK j, l : j \in DOMAIN buf /\ l \in DOMAIN buf[j] /\ f[b] = <<j, l>>
    BY <2>2, CellsDef
  <2>5. buf[i][k].key.text = buf[j][l].key.text
    BY <1>6, <2>1, <2>2, <2>3, <2>4
  <2>6. IsBuf(buf, mask, N) /\ mask \in Nat
    BY DEF buf, mask
  <2>7. i = j /\ k = l
    BY <1>6, <2>3, <2>4, <2>5, <2>6, DistinctHeld
  <2>8. f[a] = f[b]
    BY <2>3, <2>4, <2>7
  <2>9. \A c, d \in 1..Len(kv) : f[c] = f[d] => c = d
    BY <1>1 DEF Lists
  <2> QED BY <2>8, <2>9
<1>7. Listing(kv, buf)
  BY <1>2, <1>3, <1>4, <1>5, <1>6 DEF Listing
<1> QED BY <1>2, <1>7 DEF kv, buf

\* buf is what setting the nodes of kv one after the other leads to.
Stages(stage, kv, mask, N) ==
  /\ stage[0] = EmptyBuf(mask)
  /\ \A n \in 1..Len(kv) : stage[n] = PutIn(stage[n - 1], mask, kv[n])
  /\ \A n \in 0..Len(kv) : IsBuf(stage[n], mask, N)

\* Placing computes those buffers.
LEMMA PlacingStages ==
  ASSUME NEW N, Hashed(N), NEW mask \in Nat, NEW kv \in Seq(N)
  PROVE  Stages(Placing(kv, mask), kv, mask, N)
<1> DEFINE len == Len(kv)
           B == {b \in [0..mask -> Seq(N)] : Placed(b, mask)}
           Body(f) == [n \in 0..Len(kv) |->
                         IF n = 0 THEN EmptyBuf(mask) ELSE PutIn(f[n - 1], mask, kv[n])]
           F == CHOOSE f : f = Body(f)
<1>1. len \in Nat /\ \A n \in 1..len : kv[n] \in N
  BY ChainDomain
<1>2. \A b : b \in B <=> IsBuf(b, mask, N)
  BY DEF IsBuf
<1>3. \E f : f = Body(f) /\ f \in [0..len -> B]
  <2> DEFINE G == [n \in 1..len |-> [b \in B |-> PutIn(b, mask, kv[n])]]
  <2>1. G \in [1..len -> [B -> B]]
    <3> SUFFICES ASSUME NEW n \in 1..len, NEW b \in B PROVE PutIn(b, mask, kv[n]) \in B
      OBVIOUS
    <3> HIDE DEF B
    <3> QED BY <1>1, <1>2, PutInBuf DEF Extended
  <2>2. EmptyBuf(mask) \in B
    BY <1>2, EmptyBufIsBuf
  <2> HIDE DEF B
  <2>3. \A n \in 1..len : \A b \in B : G[n][b] = PutIn(b, mask, kv[n])
    OBVIOUS
  <2> HIDE DEF G, len
  <2>4. PICK g : Iterates(g, len, B, EmptyBuf(mask), G)
    BY <1>1, <2>1, <2>2, RecursiveFunction
  <2>5. g \in [0..len -> B] /\ g[0] = EmptyBuf(mask)
    BY <2>4 DEF Iterates
  <2>6. ASSUME NEW n \in 1..len PROVE g[n] = PutIn(g[n - 1], mask, kv[n])
    <3>1. n - 1 \in 0..len
      BY <1>1
    <3>2. g[n] = G[n][g[n - 1]] /\ g[n - 1] \in B
      BY <2>4, <2>5, <3>1 DEF Iterates
    <3> QED BY <2>3, <3>2
  <2>7. g = Body(g)
    <3>1. ASSUME NEW n \in 0..len
          PROVE  g[n] = IF n = 0 THEN EmptyBuf(mask) ELSE PutIn(g[n - 1], mask, kv[n])
      <4>1. n = 0 \/ n \in 1..len
        BY <1>1
      <4> QED BY <2>5, <2>6, <4>1
    <3> QED BY <2>5, <3>1 DEF len
  <2> HIDE DEF Body
  <2> QED BY <2>5, <2>7
<1>4. F = Body(F)
  BY <1>3
<1>5. Placing(kv, mask) = F
  BY DEF Placing
<1>6. PICK f \in [0..len -> B] : f = Body(f)
  BY <1>3
<1> HIDE DEF F, B
<1>7. F[0] = EmptyBuf(mask) /\ \A n \in 1..len : F[n] = PutIn(F[n - 1], mask, kv[n])
  BY <1>1, <1>4
<1>8. f[0] = EmptyBuf(mask) /\ \A n \in 1..len : f[n] = PutIn(f[n - 1], mask, kv[n])
  BY <1>1, <1>6
<1> HIDE DEF Body, len
<1> DEFINE T == {n \in Nat : n <= len => F[n] = f[n]}
<1>9. T = Nat
  <2>1. 0 \in T
    BY <1>7, <1>8
  <2>2. ASSUME NEW n \in T PROVE n + 1 \in T
    <3> SUFFICES ASSUME n + 1 <= len PROVE F[n + 1] = f[n + 1]
      OBVIOUS
    <3> DEFINE i == n + 1
    <3>1. i \in 1..len /\ i - 1 = n /\ F[n] = f[n]
      BY <1>1
    <3> HIDE DEF i
    <3> QED BY <1>7, <1>8, <3>1 DEF i
  <2> HIDE DEF T
  <2> QED BY <2>1, <2>2, NatSetInduction DEF T
<1>10. ASSUME NEW n \in 0..len PROVE IsBuf(F[n], mask, N)
  <2>1. n \in T /\ n <= len
    BY <1>1, <1>9
  <2>2. F[n] = f[n] /\ f[n] \in B
    BY <1>6, <2>1
  <2> QED BY <1>2, <2>2
<1> QED BY <1>5, <1>7, <1>10 DEF Stages, len

\* buf holds some of the nodes of kv; all of them, if no text comes twice.
Holds(buf, kv, n, mask, N) ==
  /\ IsBuf(buf, mask, N)
  /\ \E m \in Nat : HasSize(Cells(buf), m) /\ m <= n
  /\ (\A a, b \in 1..Len(kv) : kv[a].key.text = kv[b].key.text => a = b) =>
       /\ \A x : x \in Held(buf) <=> \E a \in 1..n : x = kv[a]
       /\ Distinct(buf)
       /\ HasSize(Cells(buf), n)

\* Setting nodes one after the other in a new buffer loses and duplicates
\* none, when no text comes twice.
LEMMA PlacingHolds ==
  ASSUME NEW N, Hashed(N), NEW mask \in Nat, NEW kv \in Seq(N)
  PROVE  Holds(Placing(kv, mask)[Len(kv)], kv, Len(kv), mask, N)
<1> DEFINE len == Len(kv)
           F == Placing(kv, mask)
           T == {n \in Nat : n <= len => Holds(F[n], kv, n, mask, N)}
<1>1. len \in Nat /\ \A n \in 1..len : kv[n] \in N
  BY ChainDomain
<1>2. /\ F[0] = EmptyBuf(mask)
      /\ \A n \in 1..len : F[n] = PutIn(F[n - 1], mask, kv[n])
      /\ \A n \in 0..len : IsBuf(F[n], mask, N)
  BY PlacingStages DEF Stages
<1> HIDE DEF F, len
<1>3. 0 \in T
  <2>1. /\ IsBuf(F[0], mask, N) /\ Distinct(F[0]) /\ Held(F[0]) = {}
        /\ Cells(F[0]) = {}
    BY <1>2, EmptyBufIsBuf
  <2>3. HasSize(Cells(F[0]), 0) /\ 0 \in Nat /\ 1..0 = {}
    BY <2>1, SizeOfNone
  <2>2. Holds(F[0], kv, 0, mask, N)
    BY <2>1, <2>3 DEF Holds
  <2> QED BY <2>2
<1>4. ASSUME NEW m \in T PROVE m + 1 \in T
  <2> SUFFICES ASSUME m + 1 <= len PROVE Holds(F[m + 1], kv, m + 1, mask, N)
    OBVIOUS
  <2> DEFINE n == m + 1
             new == F[n]
             buf == F[m]
             Once == \A a, b \in 1..Len(kv) : kv[a].key.text = kv[b].key.text => a = b
  <2>1. n \in 1..len /\ n - 1 = m /\ m \in Nat /\ m \in 0..len /\ n \in Nat /\ n = m + 1
    BY <1>1
  <2>2. Holds(buf, kv, m, mask, N)
    BY <2>1
  <2> HIDE DEF n, T
  <2>3. new = PutIn(buf, mask, kv[n]) /\ IsBuf(buf, mask, N) /\ kv[n] \in N
    BY <1>1, <1>2, <2>1
  <2> HIDE DEF new, buf
  <2>9. Hashed(N) /\ mask \in Nat
    OBVIOUS
  <2>4. /\ IsBuf(new, mask, N)
        /\ Cells(new) = Cells(buf) \/ \E c : c \notin Cells(buf) /\ Cells(new) = Cells(buf) \cup {c}
        /\ (\A x \in Held(buf) : x.key.text # kv[n].key.text) =>
              /\ Held(new) = Held(buf) \cup {kv[n]}
              /\ Distinct(buf) => Distinct(new)
              /\ \E c : c \notin Cells(buf) /\ Cells(new) = Cells(buf) \cup {c}
    <3>1. Extended(buf, new, mask, N, kv[n])
      BY <2>3, <2>9, PutInBuf
    <3> QED BY <3>1 DEF Extended
  <2>5. PICK size \in Nat : HasSize(Cells(buf), size) /\ size <= m
    BY <2>2 DEF Holds
  <2>6. \E k \in Nat : HasSize(Cells(new), k) /\ k <= n
    <3>1. CASE Cells(new) = Cells(buf)
      <4>1. size <= n
        BY <2>1, <2>5
      <4> QED BY <2>5, <3>1, <4>1
    <3>2. CASE \E c : c \notin Cells(buf) /\ Cells(new) = Cells(buf) \cup {c}
      <4>1. size + 1 \in Nat /\ size + 1 <= n
        BY <2>1, <2>5
      <4>2. HasSize(Cells(new), size + 1)
        BY <2>5, <3>2, SizeOfMore
      <4> QED BY <4>1, <4>2
    <3> QED BY <2>4, <3>1, <3>2
  <2>7. ASSUME Once
        PROVE  /\ \A x : x \in Held(new) <=> \E a \in 1..n : x = kv[a]
               /\ Distinct(new)
               /\ HasSize(Cells(new), n)
    <3>1. /\ \A x : x \in Held(buf) <=> \E a \in 1..m : x = kv[a]
          /\ Distinct(buf) /\ HasSize(Cells(buf), m)
      BY <2>2, <2>7 DEF Holds
    <3>2. \A x \in Held(buf) : x.key.text # kv[n].key.text
      <4>1. ASSUME NEW a \in 1..m PROVE kv[a].key.text # kv[n].key.text
        <5>1. a \in 1..Len(kv) /\ n \in 1..Len(kv) /\ a # n
          BY <1>1, <2>1 DEF len
        <5> QED BY <2>7, <5>1
      <4> QED BY <3>1, <4>1
    <3>3. /\ Held(new) = Held(buf) \cup {kv[n]} /\ Distinct(new)
          /\ \E c : c \notin Cells(buf) /\ Cells(new) = Cells(buf) \cup {c}
      BY <2>4, <3>1, <3>2
    <3>4. HasSize(Cells(new), n)
      BY <2>1, <3>1, <3>3, SizeOfMore
    <3>5. ASSUME NEW x PROVE x \in Held(new) <=> \E a \in 1..n : x = kv[a]
      <4>1. \A a : a \in 1..n <=> a \in 1..m \/ a = n
        BY <2>1
      <4> QED BY <3>1, <3>3, <4>1
    <3> QED BY <3>3, <3>4, <3>5
  <2>8. Holds(new, kv, n, mask, N)
    BY <2>4, <2>6, <2>7 DEF Holds
  <2> QED BY <2>8 DEF n, new
<1> HIDE DEF T
<1>5. T = Nat
  BY <1>3, <1>4, NatSetInduction DEF T
<1>6. Holds(F[len], kv, len, mask, N)
  <2>1. len \in T
    BY <1>1, <1>5
  <2> QED BY <1>1, <2>1 DEF T
<1> QED BY <1>6 DEF F, len

\* The fields of a table.
Fields == {"cap_log", "cap_mask", "len", "buf"}

\* A table of nodes of N.
Table(map, N) ==
  /\ DOMAIN map = Fields
  /\ map.cap_log \in Nat /\ map.cap_mask \in Nat /\ map.len \in Nat
  /\ map.cap_mask = 2^map.cap_log - 1
  /\ IsBuf(map.buf, map.cap_mask, N)
  /\ \E n \in Nat : HasSize(Cells(map.buf), n) /\ n <= map.len

\* len is the number of nodes.
Counts(map) == HasSize(Cells(map.buf), map.len)

\* The table of hashmap_new is empty.
LEMMA NewTable ==
  ASSUME NEW N
  PROVE  /\ Table(hashmap_new, N) /\ Counts(hashmap_new)
         /\ Distinct(hashmap_new.buf) /\ Held(hashmap_new.buf) = {}
<1> DEFINE m == hashmap_new
<1>1. /\ DOMAIN m = Fields
      /\ m.cap_log = 2 /\ m.cap_mask = 3 /\ m.len = 0 /\ m.buf = EmptyBuf(3)
  BY DEF hashmap_new, INIT_CAPACITY_LOG, INIT_CAPACITY, Fields
<1> HIDE DEF m
<1>2. 2^2 - 1 = 3
  <2>1. 2^(0 + 1) = 2 * 1 /\ 2^(1 + 1) = 2 * 2^1
    BY PowersOfTwo
  <2>2. 0 + 1 = 1 /\ 1 + 1 = 2
    OBVIOUS
  <2> QED BY <2>1, <2>2
<1>3. IsBuf(m.buf, 3, N) /\ Distinct(m.buf) /\ Cells(m.buf) = {} /\ Held(m.buf) = {}
  BY <1>1, EmptyBufIsBuf
<1>4. Table(m, N) /\ Counts(m)
  BY <1>1, <1>2, <1>3, SizeOfNone DEF Table, Counts
<1> QED BY <1>3, <1>4 DEF m

\* r holds what map does, if map holds no text twice.
Grows(map, r, N) ==
  /\ Table(r, N) /\ r.len = map.len
  /\ Distinct(map.buf) =>
       Distinct(r.buf) /\ Held(r.buf) = Held(map.buf) /\ (Counts(map) => Counts(r))

\* hashmap_resize keeps what the table holds.
LEMMA ResizedTable ==
  ASSUME NEW N, Hashed(N), NEW map, Table(map, N)
  PROVE  Grows(map, hashmap_resize(map), N)
<1> DEFINE r == hashmap_resize(map)
           mask == 2 * (map.cap_mask + 1) - 1
           kv == Nodes(map)
<1>1. /\ DOMAIN r = Fields
      /\ r.cap_log = map.cap_log + 1 /\ r.cap_mask = mask /\ r.len = map.len
      /\ r.buf = Placing(kv, mask)[Len(kv)]
  BY DEF hashmap_resize, Table, Rehashed, Fields
<1>2. r.cap_log \in Nat /\ mask \in Nat /\ mask = 2^r.cap_log - 1 /\ r.len \in Nat
  <2>1. 2^(map.cap_log + 1) = 2 * 2^map.cap_log /\ 2^map.cap_log \in Nat
    BY PowersOfTwo DEF Table
  <2>2. map.cap_mask \in Nat /\ map.cap_log \in Nat /\ map.len \in Nat
        /\ map.cap_mask = 2^map.cap_log - 1
    BY DEF Table
  <2> DEFINE old == 2^map.cap_log
             new == 2^(map.cap_log + 1)
  <2> HIDE DEF old, new
  <2>3. new = 2 * old /\ old \in Nat /\ map.cap_mask = old - 1
    BY <2>1, <2>2 DEF old, new
  <2>4. mask \in Nat /\ mask = new - 1
    BY <2>2, <2>3
  <2>5. mask = 2^(map.cap_log + 1) - 1
    BY <2>4 DEF new
  <2>6. mask = 2^r.cap_log - 1
    BY <1>1, <2>5
  <2>7. r.cap_log \in Nat /\ r.len \in Nat
    BY <1>1, <2>2
  <2> QED BY <2>4, <2>6, <2>7
<1>3. kv \in Seq(N) /\ Listing(kv, map.buf)
  BY NodesListing DEF Table
<1> HIDE DEF r, mask, kv
<1>4. Holds(r.buf, kv, Len(kv), mask, N)
  BY <1>1, <1>2, <1>3, PlacingHolds
<1>5. PICK n \in Nat : HasSize(Cells(r.buf), n) /\ n <= Len(kv)
  BY <1>4 DEF Holds
<1>6. PICK k \in Nat : HasSize(Cells(map.buf), k) /\ k <= map.len
  BY DEF Table
<1>7. Len(kv) = k /\ HasSize(Cells(map.buf), Len(kv))
  BY <1>3, <1>6, SizeIsNat DEF Listing
<1>8. n <= r.len
  BY <1>1, <1>2, <1>5, <1>6, <1>7
<1>9. Table(r, N)
  BY <1>1, <1>2, <1>4, <1>5, <1>8 DEF Table, Holds
<1>10. ASSUME Distinct(map.buf)
       PROVE  Distinct(r.buf) /\ Held(r.buf) = Held(map.buf) /\ (Counts(map) => Counts(r))
  <2>1. /\ \A x : x \in Held(r.buf) <=> \E a \in 1..Len(kv) : x = kv[a]
        /\ Distinct(r.buf) /\ HasSize(Cells(r.buf), Len(kv))
    BY <1>3, <1>4, <1>10 DEF Listing, Holds
  <2>2. \A x : x \in Held(map.buf) <=> \E a \in 1..Len(kv) : x = kv[a]
    BY <1>3 DEF Listing
  <2>3. Held(r.buf) = Held(map.buf)
    BY <2>1, <2>2
  <2>4. Counts(map) => Counts(r)
    BY <1>1, <1>7, <2>1, SizeIsNat DEF Counts
  <2> QED BY <2>1, <2>3, <2>4
<1>11. Grows(map, r, N)
  BY <1>1, <1>9, <1>10 DEF Grows
<1> QED BY <1>11 DEF r

\* So does making room before an insertion.
LEMMA WithRoomTable ==
  ASSUME NEW N, Hashed(N), NEW map, Table(map, N)
  PROVE  Grows(map, WithRoom(map), N)
<1>1. Grows(map, map, N)
  BY DEF Grows
<1> QED BY <1>1, ResizedTable DEF WithRoom

\* n is a node of map for the text of key.
NodeOf(n, map, key) == n \in Held(map.buf) /\ n.key.text = key.text

\* The places where keyval_get finds a key are those of its text.
LEMMA HitsAreNodes ==
  ASSUME NEW N, Hashed(N), NEW map, Table(map, N), NEW key, Hash(key.text) \in Nat
  PROVE  LET chain == map.buf[Bucket(map, key)] IN
         /\ Bucket(map, key) \in DOMAIN map.buf /\ chain \in Seq(N)
         /\ \A i : i \in Hits(map, key) <=> i \in DOMAIN chain /\ chain[i].key.text = key.text
<1> DEFINE chain == map.buf[Bucket(map, key)]
<1>1. Bucket(map, key) \in DOMAIN map.buf /\ chain \in Seq(N)
  <2>1. Bucket(map, key) \in 0..map.cap_mask
    BY IndexInRange DEF Bucket, Table
  <2>2. map.buf \in [0..map.cap_mask -> Seq(N)]
    BY DEF Table, IsBuf
  <2> QED BY <2>1, <2>2
<1>2. ASSUME NEW i \in DOMAIN chain
      PROVE  Matches(chain[i], key) <=> chain[i].key.text = key.text
  <2>1. chain[i] \in N
    BY <1>1, ChainDomain
  <2>2. chain[i].hash = Hash(chain[i].key.text)
    BY <2>1 DEF Hashed
  <2> QED BY <2>2 DEF Matches, StrComp
<1> QED BY <1>1, <1>2 DEF Hits

\* hashmap_contains says whether there is a node, and hashmap_get finds one.
Finds(map, key) ==
  /\ hashmap_contains(map, key) <=> \E n : NodeOf(n, map, key)
  /\ hashmap_contains(map, key) => NodeOf(keyval_get(map, key), map, key)
  /\ hashmap_contains(map, key) => FirstHit(map, key) \in DOMAIN map.buf[Bucket(map, key)]

\* The lookup functions look in the only bucket that matters.
LEMMA Lookup ==
  ASSUME NEW N, Hashed(N), NEW map, Table(map, N), NEW key, Hash(key.text) \in Nat
  PROVE  Finds(map, key)
<1> DEFINE chain == map.buf[Bucket(map, key)]
<1>1. /\ Bucket(map, key) \in DOMAIN map.buf /\ chain \in Seq(N)
      /\ \A i : i \in Hits(map, key) <=> i \in DOMAIN chain /\ chain[i].key.text = key.text
  BY HitsAreNodes
<1>2. (\E n \in Held(map.buf) : n.key.text = key.text) <=>
        (\E k \in DOMAIN chain : chain[k].key.text = key.text)
  BY TextsInBucket DEF Table, Bucket
<1>3. hashmap_contains(map, key) <=> \E n : NodeOf(n, map, key)
  BY <1>1, <1>2 DEF hashmap_contains, NodeOf
<1>4. ASSUME hashmap_contains(map, key) PROVE FirstHit(map, key) \in Hits(map, key)
  <2>1. Hits(map, key) \in SUBSET Nat
    BY <1>1, ChainDomain
  <2>2. \E i \in Hits(map, key) : \A j \in Hits(map, key) : i <= j
    BY <1>4, <2>1, NatMinimum DEF hashmap_contains
  <2> QED BY <2>2 DEF FirstHit
<1>5. ASSUME hashmap_contains(map, key)
      PROVE  NodeOf(keyval_get(map, key), map, key) /\ FirstHit(map, key) \in DOMAIN chain
  BY <1>1, <1>4, <1>5, HeldDef DEF keyval_get, NodeOf
<1> QED BY <1>3, <1>5 DEF Finds

\* A text that is held once is found with its node.
LEMMA LookupOnce ==
  ASSUME NEW N, Hashed(N), NEW map, Table(map, N), Distinct(map.buf),
         NEW n \in Held(map.buf), NEW key, key.text = n.key.text
  PROVE  hashmap_contains(map, key) /\ keyval_get(map, key) = n
<1>1. n \in N /\ Hash(key.text) \in Nat
  <2>1. n \in N
    BY BucketOfText DEF Table
  <2> QED BY <2>1 DEF Hashed
<1>2. Finds(map, key)
  BY <1>1, Lookup
<1>3. hashmap_contains(map, key) /\ NodeOf(keyval_get(map, key), map, key)
  BY <1>2 DEF Finds, NodeOf
<1>4. \A a, b \in Held(map.buf) : a.key.text = b.key.text => a = b
  BY DistinctHeld DEF Table
<1> QED BY <1>3, <1>4 DEF NodeOf

\* r is map after an insertion of kv.
Inserted(map, r, N, kv) ==
  /\ Table(r, N) /\ r.len = map.len + 1
  /\ Distinct(map.buf) /\ ~(\E n : NodeOf(n, map, kv.key)) =>
       /\ Held(r.buf) = Held(map.buf) \cup {kv}
       /\ Distinct(r.buf)
       /\ Counts(map) => Counts(r)

\* hashmap_insert adds a node.
LEMMA InsertedTable ==
  ASSUME NEW N, Hashed(N), NEW map, Table(map, N), NEW key, NEW v, Node(key, v) \in N
  PROVE  Inserted(map, hashmap_insert(map, key, v), N, Node(key, v))
<1> DEFINE m == WithRoom(map)
           r == hashmap_insert(map, key, v)
           kv == Node(key, v)
<1>1. Grows(map, m, N)
  BY WithRoomTable
<1>2. Table(m, N) /\ m.len = map.len
  BY <1>1 DEF Grows
<1>3. /\ DOMAIN r = Fields
      /\ r.cap_log = m.cap_log /\ r.cap_mask = m.cap_mask /\ r.len = m.len + 1
      /\ r.buf = PutIn(m.buf, m.cap_mask, kv)
  BY <1>2 DEF hashmap_insert, Table, Fields
<1>4. kv \in N /\ kv.key = key
  BY DEF Node
<1> HIDE DEF m, r, kv
<1>5. /\ m.cap_log \in Nat /\ m.cap_mask \in Nat /\ m.len \in Nat /\ m.cap_mask = 2^m.cap_log - 1
      /\ IsBuf(m.buf, m.cap_mask, N)
  BY <1>2 DEF Table
<1>6. Extended(m.buf, r.buf, m.cap_mask, N, kv)
  BY <1>3, <1>4, <1>5, PutInBuf
<1>7. PICK size \in Nat : HasSize(Cells(m.buf), size) /\ size <= m.len
  BY <1>2 DEF Table
<1>8. \E k \in Nat : HasSize(Cells(r.buf), k) /\ k <= r.len
  <2>1. CASE Cells(r.buf) = Cells(m.buf)
    <3>1. size <= r.len
      BY <1>3, <1>5, <1>7
    <3> QED BY <1>7, <2>1, <3>1
  <2>2. CASE \E c : c \notin Cells(m.buf) /\ Cells(r.buf) = Cells(m.buf) \cup {c}
    <3>1. HasSize(Cells(r.buf), size + 1)
      BY <1>7, <2>2, SizeOfMore
    <3>2. size + 1 \in Nat /\ size + 1 <= r.len
      BY <1>3, <1>5, <1>7
    <3> QED BY <3>1, <3>2
  <2> QED BY <1>6, <2>1, <2>2 DEF Extended
<1>9. Table(r, N)
  BY <1>3, <1>5, <1>6, <1>8 DEF Table, Extended
<1>10. ASSUME Distinct(map.buf), ~(\E n : NodeOf(n, map, kv.key))
       PROVE  /\ Held(r.buf) = Held(map.buf) \cup {kv} /\ Distinct(r.buf)
              /\ Counts(map) => Counts(r)
  <2>1. Distinct(m.buf) /\ Held(m.buf) = Held(map.buf) /\ (Counts(map) => Counts(m))
    BY <1>1, <1>10 DEF Grows
  <2>2. \A n \in Held(m.buf) : n.key.text # kv.key.text
    BY <1>10, <2>1 DEF NodeOf
  <2>3. /\ Held(r.buf) = Held(m.buf) \cup {kv} /\ Distinct(r.buf)
        /\ \E c : c \notin Cells(m.buf) /\ Cells(r.buf) = Cells(m.buf) \cup {c}
    BY <1>6, <2>1, <2>2 DEF Extended
  <2>4. Counts(map) => Counts(r)
    BY <1>3, <2>1, <2>3, SizeOfMore DEF Counts
  <2> QED BY <2>1, <2>3, <2>4
<1>11. Inserted(map, r, N, kv)
  BY <1>2, <1>3, <1>9, <1>10 DEF Inserted
<1> QED BY <1>11 DEF r, kv

\* hashmap_insert reports a key that is not there as new.
LEMMA NewKeyIsNew ==
  ASSUME NEW N, Hashed(N), NEW map, Table(map, N), Distinct(map.buf),
         NEW key, Hash(key.text) \in Nat, ~(\E n : NodeOf(n, map, key))
  PROVE  InsertIsNew(map, key)
<1> DEFINE m == WithRoom(map)
           chain == m.buf[Bucket(m, key)]
<1>1. Table(m, N) /\ Held(m.buf) = Held(map.buf)
  BY WithRoomTable DEF Grows
<1>2. InsertIsNew(map, key) <=> ~Overwrites(chain, key)
  BY DEF InsertIsNew
<1> HIDE DEF m
<1>3. Bucket(m, key) \in DOMAIN m.buf /\ chain \in Seq(N)
  BY <1>1, HitsAreNodes
<1>4. ASSUME Overwrites(chain, key) PROVE FALSE
  <2>1. 1 \in DOMAIN chain
    BY <1>3, <1>4, ChainDomain, EmptySeq DEF Overwrites
  <2>2. chain[1].key.text = key.text
    BY <1>4 DEF Overwrites, Matches, StrComp
  <2>3. NodeOf(chain[1], map, key)
    BY <1>1, <1>3, <2>1, <2>2, HeldDef DEF NodeOf
  <2> QED BY <2>3
<1> QED BY <1>2, <1>4

\* r is map after a removal of key.
Removed(map, r, N, key) ==
  /\ Table(r, N) /\ r.len = map.len
  /\ Distinct(map.buf) =>
       Distinct(r.buf) /\ Held(r.buf) = {n \in Held(map.buf) : n.key.text # key.text}

\* hashmap_remove takes the node of a text away.
LEMMA RemovedTable ==
  ASSUME NEW N, Hashed(N), NEW map, Table(map, N), NEW key, Hash(key.text) \in Nat,
         hashmap_contains(map, key)
  PROVE  Removed(map, hashmap_remove(map, key), N, key)
<1> DEFINE r == hashmap_remove(map, key)
           i == Bucket(map, key)
           p == FirstHit(map, key)
           e == map.buf[i][p]
<1>1. /\ DOMAIN r = Fields
      /\ r.cap_log = map.cap_log /\ r.cap_mask = map.cap_mask /\ r.len = map.len
      /\ r.buf = [map.buf EXCEPT ![i] = RemoveAt(map.buf[i], p)]
  BY DEF hashmap_remove, Table, Fields
<1>2. Finds(map, key) /\ i \in DOMAIN map.buf
  BY Lookup, HitsAreNodes
<1>3. p \in DOMAIN map.buf[i] /\ e.key.text = key.text
  BY <1>2 DEF Finds, NodeOf, keyval_get
<1> HIDE DEF r, i, p
<1>4. /\ map.cap_log \in Nat /\ map.cap_mask \in Nat /\ map.len \in Nat
      /\ map.cap_mask = 2^map.cap_log - 1 /\ IsBuf(map.buf, map.cap_mask, N)
  BY DEF Table
<1>5. Shrunk(map.buf, r.buf, map.cap_mask, N, e)
  BY <1>1, <1>2, <1>3, <1>4, RemoveFromBuf
<1> HIDE DEF e
<1>6. \E k \in Nat : HasSize(Cells(r.buf), k) /\ k <= r.len
  <2>1. PICK size \in Nat : HasSize(Cells(map.buf), size) /\ size <= map.len
    BY DEF Table
  <2>2. HasSize(Cells(r.buf), size - 1) /\ size - 1 \in Nat
    BY <1>5, <2>1, SizeOfLess DEF Shrunk
  <2>3. size - 1 <= r.len
    BY <1>1, <1>4, <2>1
  <2> QED BY <2>2, <2>3
<1>7. Table(r, N)
  BY <1>1, <1>4, <1>5, <1>6 DEF Table, Shrunk
<1>8. Distinct(map.buf) =>
        Distinct(r.buf) /\ Held(r.buf) = {n \in Held(map.buf) : n.key.text # key.text}
  BY <1>3, <1>5 DEF Shrunk
<1>9. Removed(map, r, N, key)
  BY <1>1, <1>7, <1>8 DEF Removed
<1> QED BY <1>9 DEF r
-----------------------------------------------------------------------------
\* A capacity is a multiple of 4: the reason why the test 4 * len >= 3 * cap,
\* made before an insertion, bounds the table after it.
Sizes(m) ==
  /\ DOMAIN m = Fields
  /\ m.cap_log \in INIT_CAPACITY_LOG..CAPACITY_LOG_MAX
  /\ m.cap_mask \in Nat /\ m.len \in Nat
  /\ \E quarter \in Nat : quarter >= 1 /\ m.cap_mask + 1 = 4 * quarter
  /\ 4 * m.len <= 3 * (m.cap_mask + 1)

\* A table that grows keeps the sizes in step and has room.
LEMMA ResizeSizes ==
  ASSUME NEW m, Sizes(m), MustGrow(m), ~InsertPanics(m)
  PROVE  Sizes(hashmap_resize(m)) /\ ~MustGrow(hashmap_resize(m))
  <1> DEFINE r == hashmap_resize(m)
  <1>1. /\ DOMAIN r = Fields /\ r.cap_log = m.cap_log + 1
        /\ r.cap_mask = 2 * (m.cap_mask + 1) - 1 /\ r.len = m.len
    BY DEF hashmap_resize, Sizes, Fields
  <1>2. m.cap_log < CAPACITY_LOG_MAX
    BY CapacityAssumption DEF InsertPanics, Sizes, INIT_CAPACITY_LOG
  <1>3. PICK quarter \in Nat : quarter >= 1 /\ m.cap_mask + 1 = 4 * quarter
    BY DEF Sizes
  <1>4. r.cap_mask \in Nat /\ 2 * quarter \in Nat /\ 2 * quarter >= 1
        /\ r.cap_mask + 1 = 4 * (2 * quarter)
    BY <1>1, <1>3 DEF Sizes
  <1>5. m.len = 3 * quarter
    BY <1>3 DEF Sizes, MustGrow
  <1>6. 4 * r.len <= 3 * (r.cap_mask + 1) /\ ~(4 * r.len >= 3 * (r.cap_mask + 1))
    BY <1>1, <1>3, <1>4, <1>5
  <1>7. r.cap_log \in INIT_CAPACITY_LOG..CAPACITY_LOG_MAX /\ r.len \in Nat
    BY <1>1, <1>2, CapacityAssumption DEF Sizes, INIT_CAPACITY_LOG
  <1> HIDE DEF r
  <1>8. Sizes(r) /\ ~MustGrow(r)
    BY <1>1, <1>4, <1>6, <1>7 DEF Sizes, MustGrow
  <1>9. QED  BY <1>8 DEF r

\* An insertion that does not panic keeps the sizes in step.
LEMMA InsertSizes ==
  ASSUME NEW m, Sizes(m), ~InsertPanics(m), NEW key, NEW v
  PROVE  Sizes(hashmap_insert(m, key, v))
  <1> DEFINE w == WithRoom(m)
             r == hashmap_insert(m, key, v)
  <1>1. Sizes(w) /\ ~MustGrow(w)
    BY ResizeSizes DEF WithRoom
  <1>2. /\ DOMAIN r = Fields /\ r.cap_log = w.cap_log
        /\ r.cap_mask = w.cap_mask /\ r.len = w.len + 1
    BY <1>1 DEF hashmap_insert, Sizes, Fields
  <1> HIDE DEF w, r
  <1>3. PICK quarter \in Nat : quarter >= 1 /\ w.cap_mask + 1 = 4 * quarter
    BY <1>1 DEF Sizes
  <1>4. w.len + 1 <= 3 * quarter
    BY <1>1, <1>3 DEF Sizes, MustGrow
  <1>5. Sizes(r)
    BY <1>1, <1>2, <1>3, <1>4 DEF Sizes
  <1>6. QED  BY <1>5 DEF r

\* A removal changes no size.
LEMMA RemoveSizes ==
  ASSUME NEW m, Sizes(m), NEW key
  PROVE  Sizes(hashmap_remove(m, key))
  <1> DEFINE r == hashmap_remove(m, key)
  <1>1. /\ DOMAIN r = Fields /\ r.cap_log = m.cap_log
        /\ r.cap_mask = m.cap_mask /\ r.len = m.len
    BY DEF hashmap_remove, Sizes, Fields
  <1> HIDE DEF r
  <1>2. Sizes(r)
    BY <1>1 DEF Sizes
  <1>3. QED  BY <1>2 DEF r

\* The sizes of a new table.
LEMMA NewSizes == Sizes(hashmap_new)
  BY CapacityAssumption DEF Sizes, Fields, hashmap_new, INIT_CAPACITY, INIT_CAPACITY_LOG

\* A table refuses to grow when it has taken three quarters of the largest
\* capacity, and not before.
LEMMA FullTable ==
  ASSUME NEW N, NEW m, Table(m, N), Sizes(m)
  PROVE  LET full == 3 * 2^(CAPACITY_LOG_MAX - 2) IN
         IF InsertPanics(m) THEN m.len = full ELSE m.len < full
<1> DEFINE max == CAPACITY_LOG_MAX
           x == 2^(max - 2)
           top == 2^max
           cap == 2^m.cap_log
           next == 2^(m.cap_log + 1)
<1>1. /\ max \in Nat /\ max - 2 \in Nat /\ m.cap_log \in Nat /\ m.cap_log <= max
      /\ m.len \in Nat /\ m.cap_mask \in Nat /\ m.cap_mask = cap - 1
      /\ 4 * m.len <= 3 * (m.cap_mask + 1)
  BY CapacityAssumption DEF Sizes, Table, INIT_CAPACITY_LOG
<1>2. x \in Nat /\ x >= 1 /\ top = 4 * x
  <2>1. 2^(max - 2) \in Nat /\ 2^(max - 2) >= 1
    BY <1>1, PowersOfTwo, PowersGrow
  <2>2. 2^((max - 2) + 1) = 2 * 2^(max - 2)
        /\ 2^(((max - 2) + 1) + 1) = 2 * 2^((max - 2) + 1)
    BY <1>1, PowersOfTwo
  <2>3. ((max - 2) + 1) + 1 = max
    BY <1>1
  <2> QED BY <2>1, <2>2, <2>3
<1>3. cap \in Nat /\ next = 2 * cap
  BY <1>1, PowersOfTwo
<1>4. m.cap_log = max => cap = top
  OBVIOUS
<1>5. m.cap_log < max => next <= top
  <2> SUFFICES ASSUME m.cap_log < max PROVE 2^(m.cap_log + 1) <= 2^max
    OBVIOUS
  <2>1. m.cap_log + 1 \in Nat /\ m.cap_log + 1 <= max
    BY <1>1
  <2> QED BY <1>1, <2>1, PowersGrow
<1> HIDE DEF x, top, cap, next
<1>6. CASE InsertPanics(m)
  <2>1. m.cap_log = max /\ 4 * m.len >= 3 * (m.cap_mask + 1)
    BY <1>1, <1>6 DEF InsertPanics, MustGrow
  <2>2. m.len = 3 * x
    BY <1>1, <1>2, <1>3, <1>4, <2>1
  <2> QED BY <1>6, <2>2 DEF x
<1>7. CASE ~InsertPanics(m)
  <2>1. m.len < 3 * x
    <3>1. CASE m.cap_log = max
      <4>1. 4 * m.len < 3 * (m.cap_mask + 1)
        BY <1>1, <1>7, <3>1 DEF InsertPanics, MustGrow
      <4> QED BY <1>1, <1>2, <1>3, <1>4, <3>1, <4>1
    <3>2. CASE m.cap_log < max
      BY <1>1, <1>2, <1>3, <1>5, <3>2
    <3> QED BY <1>1, <3>1, <3>2
  <2> QED BY <1>7, <2>1 DEF x
<1> QED BY <1>6, <1>7
=============================================================================
