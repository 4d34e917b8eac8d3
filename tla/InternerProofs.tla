--------------------------- MODULE InternerProofs ---------------------------
(***************************************************************************)
(* The interner, for any threads, strings, hash function and number of calls:*)
(* its mutex and its initialisation protect the table (InternerInv), the   *)
(* table holds each text once (PoolInv), and the calls are those of a pool *)
(* (PoolNext).                                                             *)
(***************************************************************************)
EXTENDS HashTableProofs, Interner

Labels == {"idle", "once", "lock"} \cup Registering \cup Inside
Ops == {"intern", "interned_strings", "interner_debug"}

\* Where the threads may be, and with which calls.
ControlOK ==
  /\ pc \in [Thread -> Labels]
  /\ DOMAIN call = Thread
  /\ \A t \in Thread : pc[t] # "idle" => call[t].op \in Ops

\* One thread at most runs register_interner, before any other thread goes on
\* to the mutex; when it is done the table is built.
OnceInv ==
  /\ \A t \in Thread : pc[t] \in Registering => once = "running"
  /\ \A t, u \in Thread : pc[t] \in Registering /\ pc[u] \in Registering => t = u
  /\ \A t \in Thread : pc[t] \in Inside \cup {"lock"} => once = "done"
  /\ \A t \in Thread : pc[t] = "mtx_init" => Ready
  /\ once = "done" => Ready

InternerInv == ControlOK /\ OnceInv /\ OneInside

\* The invariant holds at first.
LEMMA InitInv == Init => InternerInv
  BY DEF Init, InternerInv, ControlOK, OnceInv, OneInside, Labels, Registering, Inside

\* A call is of one of the three functions.
LEMMA CallsHaveOps == \A c \in Calls : c.op \in Ops
  BY DEF Calls, Ops

\* The steps of call_once and of register_interner.
LEMMA OnceSteps ==
  ASSUME InternerInv, NEW t \in Thread,
         CallOnce(t) \/ Malloc(t) \/ Memcpy(t) \/ MtxInit(t)
  PROVE  InternerInv'
<1> USE DEF InternerInv, ControlOK, OnceInv, OneInside, Labels, Registering, Inside, At, Goto, Ready
<1>1. CASE CallOnce(t)
  BY <1>1 DEF CallOnce
<1>2. CASE Malloc(t)
  BY <1>2 DEF Malloc, panic
<1>3. CASE Memcpy(t)
  BY <1>3 DEF Memcpy
<1>4. CASE MtxInit(t)
  BY <1>4 DEF MtxInit
<1> QED BY <1>1, <1>2, <1>3, <1>4

\* The steps from the entry of the critical section to its exit.
LEMMA LockedSteps ==
  ASSUME InternerInv, NEW t \in Thread,
         \/ Lock(t) \/ Contains(t) \/ Get(t) \/ Insert(t) \/ Count(t) \/ Show(t)
         \/ Unlock(t)
  PROVE  InternerInv'
<1> USE NoneAssumption
        DEF InternerInv, ControlOK, OnceInv, OneInside, Labels, Registering, Inside, At,
            Goto,
            Ready
<1>1. CASE Lock(t)
  <2>1. pc'[t] \in {"contains", "len", "iter"}
    BY <1>1 DEF Lock, Ops
  <2> QED BY <1>1, <2>1 DEF Lock
<1>2. CASE Contains(t)
  BY <1>2 DEF Contains
<1>3. CASE Get(t)
  BY <1>3 DEF Get, panic, Answer
<1>4. CASE Insert(t)
  BY <1>4 DEF Insert, panic, Answer
<1>5. CASE Count(t)
  BY <1>5 DEF Count, Answer
<1>6. CASE Show(t)
  BY <1>6 DEF Show, Answer
<1>7. CASE Unlock(t)
  BY <1>7 DEF Unlock
<1> QED BY <1>1, <1>2, <1>3, <1>4, <1>5, <1>6, <1>7

\* Every step keeps the invariant.
LEMMA NextInv == InternerInv /\ [Next]_vars => InternerInv'
<1> SUFFICES ASSUME InternerInv, [Next]_vars PROVE InternerInv'
  OBVIOUS
<1>1. CASE UNCHANGED vars
  BY <1>1 DEF vars, InternerInv, ControlOK, OnceInv, OneInside, Ready
<1>2. ASSUME NEW t \in Thread, Step(t) PROVE InternerInv'
  BY <1>2, OnceSteps, LockedSteps DEF Step
<1>3. ASSUME NEW t \in Thread, NEW c \in Calls, Call(t, c) PROVE InternerInv'
  <2>1. call'[t].op \in Ops /\ DOMAIN call' = Thread
    BY <1>3, CallsHaveOps DEF Call, InternerInv, ControlOK
  <2>2. \A u \in Thread \ {t} : call'[u] = call[u] /\ pc'[u] = pc[u]
    BY <1>3 DEF Call, Goto, InternerInv, ControlOK
  <2> QED
    BY <1>3, <2>1, <2>2
    DEF Call, InternerInv, ControlOK, OnceInv, OneInside, Labels, Registering, Inside, At,
        Goto, Ready
<1> QED BY <1>1, <1>2, <1>3 DEF Next

\* Whatever the threads do, the code between lock() and unlock() runs in the
\* one thread that holds the mutex, and on a table that has been built:
\* call_once lets nobody pass while register_interner runs, so that its
\* mtx_init cannot reset a mutex that is held.
THEOREM TableIsProtected == Spec => []OneInside
<1>1. InternerInv => OneInside
  BY DEF InternerInv
<1> QED BY InitInv, NextInv, <1>1, PTL DEF Spec
-----------------------------------------------------------------------------
\* The nodes the interner sets: a string and no value.
StrNodes == {Node(s, NONE) : s \in Str}

\* They carry the hash of their string.
LEMMA StrNodesCarryHashes ==
  Hashed(StrNodes) /\ \A s \in Str : Hash(s.text) \in Nat /\ Node(s, NONE) \in StrNodes
BY HashAssumption DEF Hashed, StrNodes, Node

\* The table holds every text once, and nothing else.
TableInv ==
  /\ Table(interner, StrNodes) /\ Sizes(interner)
  /\ Distinct(interner.buf) /\ Counts(interner)

\* No string is interned before the initialisation is over, so that the
\* memcpy of register_interner loses none.
FreshInv == once # "done" => interner = hashmap_new

\* A thread is where its call takes it, and what hashset_contains said to it
\* is still true when it goes on.
CallInv ==
  /\ call \in [Thread -> Calls \cup {NONE}]
  /\ \A t \in Thread :
       /\ pc[t] # "idle" => call[t] \in Calls
       /\ pc[t] \in {"contains", "get", "insert"} => call[t].op = "intern"
       /\ pc[t] = "len" => call[t].op = "interned_strings"
       /\ pc[t] = "iter" => call[t].op = "interner_debug"
       /\ pc[t] = "get" => hashmap_contains(interner, call[t].str)
       /\ pc[t] = "insert" => ~hashmap_contains(interner, call[t].str)

\* The types of the other variables.
AnswerInv ==
  /\ once \in {"none", "running", "done"}
  /\ pointer \in {"NULL", "raw", "table"}
  /\ holder \in Thread \cup {NONE}
  /\ res \in [Thread -> Result \cup {NONE}]
  /\ calls \in [Thread -> 0..MAX_CALLS]
  /\ aborted \in BOOLEAN

\* The inductive invariant: control, table, calls and answers together.
PoolInv ==
  /\ InternerInv /\ TableInv /\ FreshInv /\ CallInv /\ AnswerInv
  /\ AbortsOnlyForMemory

\* The strings of calls.
LEMMA CallStrings ==
  \A c \in Calls : c.op = "intern" => /\ c.str \in Str /\ Hash(c.str.text) \in Nat
                                     /\ Node(c.str, NONE) \in StrNodes
<1> SUFFICES ASSUME NEW c \in Calls, c.op = "intern" PROVE c.str \in Str
  BY StrNodesCarryHashes
<1>1. CASE c \in [op : {"intern"}, str : Str]
  BY <1>1
<1>2. CASE c \in [op : {"interned_strings", "interner_debug"}]
  BY <1>2
<1> QED BY <1>1, <1>2 DEF Calls

\* It holds at first.
LEMMA PoolInit == Init => PoolInv
<1> SUFFICES ASSUME Init PROVE PoolInv
  OBVIOUS
<1>1. InternerInv
  BY InitInv
<1>2. TableInv /\ FreshInv
  BY NewTable, NewSizes DEF Init, TableInv, FreshInv
<1>3. CallInv
  BY DEF Init, CallInv
<1>4. AnswerInv
  <2>1. res \in [Thread -> Result \cup {NONE}] /\ calls \in [Thread -> 0..MAX_CALLS]
    BY CallsAssumption DEF Init
  <2>2. aborted \in BOOLEAN
    BY DEF Init
  <2> QED BY <2>1, <2>2 DEF Init, AnswerInv
<1>5. AbortsOnlyForMemory
  BY DEF Init, AbortsOnlyForMemory
<1> QED BY <1>1, <1>2, <1>3, <1>4, <1>5 DEF PoolInv

\* While a thread is in the critical section the table is its own.
LEMMA AloneInside ==
  ASSUME PoolInv, NEW t \in Thread, pc[t] \in Inside
  PROVE  \A u \in Thread \ {t} : pc[u] \notin Inside
BY DEF PoolInv, InternerInv, OneInside

\* Only an insertion changes the table.
LEMMA TableChanges ==
  ASSUME PoolInv, NEW t \in Thread, Step(t)
  PROVE  interner' = interner \/ Insert(t)
<1>1. CASE Memcpy(t)
  <2>1. interner = hashmap_new
    BY <1>1 DEF Memcpy, At, PoolInv, InternerInv, OnceInv, FreshInv, Registering
  <2> QED BY <1>1, <2>1 DEF Memcpy
<1> QED
  BY <1>1 DEF Step, CallOnce, Malloc, MtxInit, Lock, Contains, Get, Count, Show, Unlock,
    Answer, panic

\* What hashset_insert leaves.
LEMMA InsertedOnce ==
  ASSUME PoolInv, NEW t \in Thread, Insert(t), ~InsertPanics(interner)
  PROVE  /\ TableInv'
         /\ Held(interner'.buf) = Held(interner.buf) \cup {Node(call[t].str, NONE)}
         /\ ~(\E n : NodeOf(n, interner, call[t].str))
<1> DEFINE str == call[t].str
<1>1. /\ pc[t] = "insert" /\ call[t] \in Calls /\ call[t].op = "intern"
      /\ ~hashmap_contains(interner, str) /\ interner' = hashmap_insert(interner, str, NONE)
  BY DEF Insert, At, PoolInv, CallInv
<1>2. /\ Hash(str.text) \in Nat /\ Node(str, NONE) \in StrNodes /\ Node(str, NONE).key = str
  BY <1>1, CallStrings DEF Node
<1> HIDE DEF str
<1>3. TableInv
  BY DEF PoolInv
<1>4. Finds(interner, str)
  BY <1>2, <1>3, StrNodesCarryHashes, Lookup DEF TableInv
<1>5. Inserted(interner, interner', StrNodes, Node(str, NONE))
  BY <1>1, <1>2, <1>3, StrNodesCarryHashes, InsertedTable DEF TableInv
<1>6. Sizes(interner')
  BY <1>1, <1>3, InsertSizes DEF TableInv
<1> QED BY <1>1, <1>2, <1>3, <1>4, <1>5, <1>6 DEF Inserted, Finds, TableInv, str

\* Every step keeps the table, and the table empty while it is initialised.
LEMMA TableStep ==
  ASSUME PoolInv, NEW t \in Thread, Step(t)
  PROVE  TableInv' /\ FreshInv'
<1>1. CASE interner' = interner
  <2>1. TableInv'
    BY <1>1 DEF PoolInv, TableInv
  <2>2. once' # "done" => once # "done"
    BY DEF Step, CallOnce, Malloc, Memcpy, MtxInit, Lock, Contains, Get, Insert, Count,
      Show,
           Unlock, Answer, panic
  <2> QED BY <1>1, <2>1, <2>2 DEF PoolInv, FreshInv
<1>2. CASE Insert(t) /\ interner' # interner
  <2>1. ~InsertPanics(interner) /\ once' = once
    BY <1>2 DEF Insert, panic
  <2>2. once = "done"
    BY <1>2 DEF Insert, At, PoolInv, InternerInv, OnceInv, Inside
  <2> QED BY <1>2, <2>1, <2>2, InsertedOnce DEF FreshInv
<1> QED BY <1>1, <1>2, TableChanges

\* A thread's step moves that thread, and leaves the calls as they are.
LEMMA StepMoves ==
  ASSUME PoolInv, NEW t \in Thread, Step(t)
  PROVE  /\ call' = call /\ pc \in [Thread -> Labels] /\ pc' \in [Thread -> Labels]
         /\ \A u \in Thread \ {t} : pc'[u] = pc[u]
         /\ ~aborted
<1>1. pc \in [Thread -> Labels]
  BY DEF PoolInv, InternerInv, ControlOK
<1>2. pc' \in [Thread -> Labels]
  <2>1. InternerInv'
    BY OnceSteps, LockedSteps DEF PoolInv, Step
  <2> QED BY <2>1 DEF InternerInv, ControlOK
<1>3. call' = call /\ ~aborted
  BY DEF Step, CallOnce, Malloc, Memcpy, MtxInit, Lock, Contains, Get, Insert, Count, Show,
         Unlock, Answer, panic, At
<1>4. \A u \in Thread \ {t} : pc'[u] = pc[u]
  BY <1>1
  DEF Step, CallOnce, Malloc, Memcpy, MtxInit, Lock, Contains, Get, Insert, Count, Show,
      Unlock, Answer, panic, Goto
<1> QED BY <1>1, <1>2, <1>3, <1>4

\* Where a step leads.
LEMMA StepLeads ==
  ASSUME PoolInv, NEW t \in Thread, Step(t)
  PROVE  /\ pc[t] # "idle"
         /\ pc'[t] # "idle" => pc[t] # "idle"
         /\ pc'[t] = "contains" => pc[t] = "contains" \/ call[t].op = "intern"
         /\ pc'[t] = "len" => call[t].op = "interned_strings"
         /\ pc'[t] = "iter" => call[t].op = "interner_debug"
         /\ pc'[t] = "get" =>
              call[t].op = "intern" /\ hashmap_contains(interner, call[t].str)
         /\ pc'[t] = "insert" =>
              call[t].op = "intern" /\ ~hashmap_contains(interner, call[t].str)
<1>1. pc \in [Thread -> Labels]
  BY StepMoves
<1>2. CASE CallOnce(t) \/ Malloc(t) \/ Memcpy(t) \/ MtxInit(t)
  BY <1>1, <1>2 DEF CallOnce, Malloc, Memcpy, MtxInit, panic, At, Goto
<1>3. CASE Lock(t)
  <2>1. call[t].op \in Ops /\ pc[t] = "lock"
    BY <1>3 DEF Lock, At, PoolInv, InternerInv, ControlOK
  <2>2. pc'[t] = CASE call[t].op = "intern"           -> "contains"
                   [] call[t].op = "interned_strings" -> "len"
                   [] call[t].op = "interner_debug"   -> "iter"
    BY <1>1, <1>3 DEF Lock, Goto
  <2> QED BY <2>1, <2>2 DEF Ops
<1>4. CASE Contains(t)
  <2>1. pc[t] = "contains" /\ call[t].op = "intern"
    BY <1>4 DEF Contains, At, PoolInv, CallInv
  <2>2. pc'[t] = IF hashmap_contains(interner, call[t].str) THEN "get" ELSE "insert"
    BY <1>1, <1>4 DEF Contains, Goto
  <2> QED BY <2>1, <2>2
<1>5. CASE Get(t) \/ Insert(t)
  <2>1. pc[t] \in {"get", "insert"} /\ pc'[t] \in {pc[t], "unlock"}
    BY <1>1, <1>5 DEF Get, Insert, Answer, panic, At, Goto
  <2> QED BY <2>1 DEF PoolInv, CallInv
<1>6. CASE Count(t) \/ Show(t) \/ Unlock(t)
  <2>1. pc[t] \in {"len", "iter", "unlock"} /\ pc'[t] \in {"unlock", "idle"}
    BY <1>1, <1>6 DEF Count, Show, Unlock, Answer, At, Goto
  <2> QED BY <2>1
<1> QED BY <1>2, <1>3, <1>4, <1>5, <1>6 DEF Step

\* Every step keeps the calls: what hashset_contains said still holds when
\* its caller goes on, since only the holder of the mutex inserts.
LEMMA CallStep ==
  ASSUME PoolInv, NEW t \in Thread, Step(t)
  PROVE  CallInv'
<1> DEFINE Good(u) ==
      /\ pc'[u] # "idle" => call[u] \in Calls
      /\ pc'[u] \in {"contains", "get", "insert"} => call[u].op = "intern"
      /\ pc'[u] = "len" => call[u].op = "interned_strings"
      /\ pc'[u] = "iter" => call[u].op = "interner_debug"
      /\ pc'[u] = "get" => hashmap_contains(interner', call[u].str)
      /\ pc'[u] = "insert" => ~hashmap_contains(interner', call[u].str)
<1>1. call' = call /\ \A u \in Thread \ {t} : pc'[u] = pc[u]
  BY StepMoves
<1>2. CASE interner' = interner
  <2>1. Good(t)
    BY <1>2, StepLeads DEF PoolInv, CallInv
  <2>2. ASSUME NEW u \in Thread \ {t} PROVE Good(u)
    BY <1>1, <1>2 DEF PoolInv, CallInv
  <2> QED BY <1>1, <2>1, <2>2 DEF PoolInv, CallInv
<1>3. CASE Insert(t) /\ interner' # interner
  <2>1. pc[t] = "insert" /\ pc'[t] = "unlock" /\ call[t] \in Calls
    <3>1. pc \in [Thread -> Labels]
      BY StepMoves
    <3> QED BY <1>3, <3>1 DEF Insert, At, Answer, Goto, panic, PoolInv, CallInv
  <2>2. \A u \in Thread \ {t} : pc'[u] \notin Inside
    BY <1>1, <2>1, AloneInside DEF Inside
  <2>3. Good(t)
    BY <2>1
  <2>4. ASSUME NEW u \in Thread \ {t} PROVE Good(u)
    BY <1>1, <2>2 DEF PoolInv, CallInv, Inside
  <2> QED BY <1>1, <2>3, <2>4 DEF PoolInv, CallInv
<1> QED BY <1>2, <1>3, TableChanges

\* The table's answers.
LEMMA NodesOfStrings ==
  ASSUME TableInv, NEW n \in Held(interner.buf)
  PROVE  n.key \in Str /\ n = Node(n.key, NONE)
<1>1. n \in StrNodes
  BY StrNodesCarryHashes, BucketOfText DEF TableInv, Table
<1> QED BY <1>1 DEF StrNodes, Node

\* hashset_get of a text that is there returns a string of that text.
LEMMA FoundString ==
  ASSUME TableInv, NEW str, Hash(str.text) \in Nat, hashmap_contains(interner, str)
  PROVE  /\ hashset_get(interner, str) \in Str
         /\ hashset_get(interner, str).text = str.text
<1>1. Finds(interner, str)
  BY StrNodesCarryHashes, Lookup DEF TableInv
<1>2. NodeOf(keyval_get(interner, str), interner, str)
  BY <1>1 DEF Finds
<1> QED BY <1>2, NodesOfStrings DEF NodeOf, hashset_get

\* The listing of the table: as many strings as len says, each text once.
ListsTable(kv) ==
  /\ kv \in Seq(StrNodes) /\ Len(kv) = interner.len /\ interner.len \in Nat
  /\ \A a \in 1..Len(kv) : kv[a] \in Held(interner.buf) /\ kv[a].key \in Str
  /\ \A n \in Held(interner.buf) : \E a \in 1..Len(kv) : n = kv[a]
  /\ \A a, b \in 1..Len(kv) : kv[a].key.text = kv[b].key.text => a = b

\* The nodes that hashmap_iter meets are the strings of the table, each once.
LEMMA TableListed == TableInv => ListsTable(Nodes(interner))
<1> SUFFICES ASSUME TableInv PROVE ListsTable(Nodes(interner))
  OBVIOUS
<1> DEFINE kv == Nodes(interner)
<1>1. kv \in Seq(StrNodes) /\ Listing(kv, interner.buf)
  BY StrNodesCarryHashes, NodesListing DEF TableInv, Table
<1> HIDE DEF kv
<1>2. Len(kv) = interner.len /\ interner.len \in Nat
  BY <1>1, SizeIsNat DEF Listing, TableInv, Table, Counts
<1>3. \A a \in 1..Len(kv) : kv[a] \in Held(interner.buf)
  BY <1>1 DEF Listing
<1>4. \A a, b \in 1..Len(kv) : kv[a].key.text = kv[b].key.text => a = b
  BY <1>1 DEF Listing, TableInv
<1>5. \A n \in Held(interner.buf) : \E a \in 1..Len(kv) : n = kv[a]
  BY <1>1 DEF Listing
<1>6. \A a \in 1..Len(kv) : kv[a].key \in Str
  BY <1>3, NodesOfStrings
<1>7. ListsTable(kv)
  BY <1>1, <1>2, <1>3, <1>4, <1>5, <1>6 DEF ListsTable
<1> QED BY <1>7 DEF kv

\* What interner_debug prints.
Printed(kv) == [i \in 1..Len(kv) |-> [key |-> kv[i].key, comma |-> i < Len(kv)]]

\* interner_debug prints those, the comma after each but the last.
LEMMA ShowPrints ==
  ASSUME PoolInv, NEW t \in Thread, Show(t)
  PROVE  /\ res' = [res EXCEPT ![t] = [printed |-> Printed(Nodes(interner))]]
         /\ ListsTable(Nodes(interner))
<1> DEFINE kv == Nodes(interner)
           visits == hashmap_iter(interner)
<1>1. ListsTable(kv)
  BY TableListed DEF PoolInv
<1>2. visits = [i \in 1..Len(kv) |->
        [remaining |-> interner.len - i, key |-> kv[i].key, value |-> kv[i].value]]
  BY DEF hashmap_iter
<1>3. res' = [res EXCEPT ![t] = [printed |->
        [i \in DOMAIN visits |-> [key |-> visits[i].key, comma |-> visits[i].remaining > 0]]]]
  BY DEF Show, Answer
<1> HIDE DEF kv, visits
<1>4. DOMAIN visits = 1..Len(kv)
  BY <1>2
<1>5. ASSUME NEW i \in 1..Len(kv)
      PROVE  [key |-> visits[i].key, comma |-> visits[i].remaining > 0]
               = [key |-> kv[i].key, comma |-> i < Len(kv)]
  <2>1. visits[i].key = kv[i].key /\ visits[i].remaining = Len(kv) - i /\ Len(kv) \in Nat
    BY <1>1, <1>2 DEF ListsTable
  <2>2. (visits[i].remaining > 0) = (i < Len(kv))
    BY <2>1
  <2> QED BY <2>1, <2>2
<1>6. [i \in DOMAIN visits |-> [key |-> visits[i].key, comma |-> visits[i].remaining > 0]]
        = Printed(kv)
  BY <1>4, <1>5 DEF Printed
<1> QED BY <1>1, <1>3, <1>6 DEF kv

\* Every step keeps the types.
LEMMA AnswerStep ==
  ASSUME PoolInv, NEW t \in Thread, Step(t)
  PROVE  AnswerInv'
<1>1. AnswerInv
  BY DEF PoolInv
<1>2. /\ once' \in {once, "running", "done"} /\ pointer' \in {pointer, "raw", "table"}
      /\ holder' \in {holder, NONE, t} /\ calls' = calls
  BY DEF Step, CallOnce, Malloc, Memcpy, MtxInit, Lock, Contains, Get, Insert, Count, Show,
         Unlock, Answer, panic
<1>3. aborted' \in {aborted, TRUE}
  BY DEF Step, CallOnce, Malloc, Memcpy, MtxInit, Lock, Contains, Get, Insert, Count, Show,
         Unlock, Answer, panic
<1>4. res' = res \/ \E r \in Result : res' = [res EXCEPT ![t] = r]
  <2>1. CASE Get(t) /\ res' # res
    <3>1. /\ hashmap_contains(interner, call[t].str)
          /\ res' = [res EXCEPT ![t] = [str |-> hashset_get(interner, call[t].str)]]
      BY <2>1 DEF Get, Answer, panic
    <3>2. Hash(call[t].str.text) \in Nat
      BY <2>1, CallStrings DEF Get, At, PoolInv, CallInv
    <3>3. hashset_get(interner, call[t].str) \in Str
      BY <3>1, <3>2, FoundString DEF PoolInv
    <3>4. [str |-> hashset_get(interner, call[t].str)] \in Result
      BY <3>3 DEF Result
    <3> QED BY <3>1, <3>4
  <2>2. CASE Insert(t) /\ res' # res
    <3>1. res' = [res EXCEPT ![t] = [str |-> call[t].str]]
      BY <2>2 DEF Insert, Answer, panic
    <3>2. call[t].str \in Str
      BY <2>2, CallStrings DEF Insert, At, PoolInv, CallInv
    <3>3. [str |-> call[t].str] \in Result
      BY <3>2 DEF Result
    <3> QED BY <3>1, <3>3
  <2>3. CASE Count(t)
    <3>1. res' = [res EXCEPT ![t] = [len |-> interner.len]]
      BY <2>3 DEF Count, Answer
    <3>2. [len |-> interner.len] \in Result
      BY DEF Result, PoolInv, TableInv, Table
    <3> QED BY <3>1, <3>2
  <2>4. CASE Show(t)
    <3> DEFINE kv == Nodes(interner)
    <3>1. res' = [res EXCEPT ![t] = [printed |-> Printed(kv)]] /\ ListsTable(kv)
      BY <2>4, ShowPrints
    <3> HIDE DEF kv
    <3>2. Printed(kv) \in Seq([key : Str, comma : BOOLEAN])
      <4>1. Len(kv) \in Nat /\ \A i \in 1..Len(kv) : kv[i].key \in Str
        BY <3>1 DEF ListsTable
      <4>2. \A i \in 1..Len(kv) :
              [key |-> kv[i].key, comma |-> i < Len(kv)] \in [key : Str, comma : BOOLEAN]
        BY <4>1
      <4> QED BY <4>1, <4>2, IsASeq DEF Printed
    <3>3. [printed |-> Printed(kv)] \in Result
      BY <3>2 DEF Result
    <3> QED BY <3>1, <3>3
  <2>5. Get(t) \/ Insert(t) \/ Count(t) \/ Show(t) \/ res' = res
    BY DEF Step, CallOnce, Malloc, Memcpy, MtxInit, Lock, Contains, Unlock, panic
  <2> QED BY <2>1, <2>2, <2>3, <2>4, <2>5
<1>5. res' \in [Thread -> Result \cup {NONE}]
  BY <1>1, <1>4 DEF AnswerInv
<1>6. aborted' \in BOOLEAN
  BY <1>1, <1>3 DEF AnswerInv
<1> QED BY <1>1, <1>2, <1>5, <1>6 DEF AnswerInv

\* A step that panics does so for memory, or with a full table and a new text.
LEMMA AbortStep ==
  ASSUME PoolInv, NEW t \in Thread, Step(t)
  PROVE  AbortsOnlyForMemory'
<1> SUFFICES ASSUME aborted' PROVE AbortsOnlyForMemory'
  BY DEF AbortsOnlyForMemory
<1>1. ~aborted
  BY StepMoves
<1>2. (Malloc(t) \/ Get(t) \/ Insert(t)) /\ panic
  BY <1>1
  DEF Step, CallOnce, Malloc, Memcpy, MtxInit, Lock, Contains, Get, Insert, Count, Show,
      Unlock
<1>3. pc' = pc /\ call' = call /\ interner' = interner
  BY <1>2 DEF panic
<1>4. CASE Malloc(t)
  BY <1>3, <1>4 DEF Malloc, At, AbortsOnlyForMemory
<1>5. CASE Get(t)
  <2>1. hashmap_contains(interner, call[t].str)
    BY <1>5 DEF Get, At, PoolInv, CallInv
  <2> QED BY <1>1, <1>5, <2>1 DEF Get
<1>6. CASE Insert(t)
  <2>1. pc[t] = "insert" /\ ~hashmap_contains(interner, call[t].str)
    BY <1>6 DEF Insert, At, PoolInv, CallInv
  <2>2. InsertPanics(interner)
    BY <1>1, <1>6 DEF Insert
  <2>3. interner.len = Limit
    BY <2>2, FullTable DEF PoolInv, TableInv, Limit
  <2>4. Len(Nodes(interner)) = Limit
    BY <2>3, TableListed DEF PoolInv, ListsTable
  <2> QED BY <1>3, <2>1, <2>4 DEF AbortsOnlyForMemory
<1> QED BY <1>2, <1>4, <1>5, <1>6

\* Every step keeps the invariant.
LEMMA PoolStep == PoolInv /\ [Next]_vars => PoolInv'
<1> SUFFICES ASSUME PoolInv, [Next]_vars PROVE PoolInv'
  OBVIOUS
<1>1. InternerInv'
  BY NextInv DEF PoolInv
<1>2. ASSUME NEW t \in Thread, Step(t) PROVE PoolInv'
  BY <1>1, <1>2, TableStep, CallStep, AnswerStep, AbortStep DEF PoolInv
<1>3. ASSUME NEW t \in Thread, NEW c \in Calls, Call(t, c) PROVE PoolInv'
  <2>1. interner' = interner /\ once' = once
    BY <1>3 DEF Call
  <2>2. TableInv' /\ FreshInv'
    BY <2>1 DEF PoolInv, TableInv, FreshInv
  <2>3. CallInv'
    <3>1. call \in [Thread -> Calls \cup {NONE}] /\ pc \in [Thread -> Labels]
      BY DEF PoolInv, CallInv, InternerInv, ControlOK
    <3>2. /\ call' \in [Thread -> Calls \cup {NONE}] /\ call'[t] = c /\ pc'[t] = "once"
          /\ \A u \in Thread \ {t} : call'[u] = call[u] /\ pc'[u] = pc[u]
      BY <1>3, <3>1 DEF Call, Goto
    <3> QED BY <2>1, <3>2 DEF PoolInv, CallInv
  <2>4. AnswerInv'
    <3>1. calls' \in [Thread -> 0..MAX_CALLS]
      BY <1>3, CallsAssumption DEF Call, PoolInv, AnswerInv
    <3>2. res' \in [Thread -> Result \cup {NONE}]
      BY <1>3 DEF Call, PoolInv, AnswerInv
    <3>3. once' = once /\ pointer' = pointer /\ holder' = holder
      BY <1>3 DEF Call
    <3>4. aborted' \in BOOLEAN
      BY <1>3 DEF Call, PoolInv, AnswerInv
    <3> QED BY <3>1, <3>2, <3>3, <3>4 DEF PoolInv, AnswerInv
  <2>5. AbortsOnlyForMemory'
    BY <1>3 DEF Call, At, AbortsOnlyForMemory
  <2> QED BY <1>1, <2>2, <2>3, <2>4, <2>5 DEF PoolInv
<1>4. CASE UNCHANGED vars
  <2>1. TableInv' /\ FreshInv' /\ CallInv'
    BY <1>4 DEF vars, PoolInv, TableInv, FreshInv, CallInv
  <2>2. AnswerInv' /\ AbortsOnlyForMemory'
    BY <1>4 DEF vars, PoolInv, AnswerInv, AbortsOnlyForMemory, Limit
  <2> QED BY <1>1, <2>1, <2>2 DEF PoolInv
<1> QED BY <1>2, <1>3, <1>4 DEF Next

\* Every variable keeps its type: an answer of intern is a string of the
\* program, and the table keeps the shape its mask and buckets are read by.
THEOREM TypeCorrect == Spec => []TypeOK
<1>1. PoolInv => TypeOK
  <2> SUFFICES ASSUME PoolInv PROVE TypeOK
    OBVIOUS
  <2>1. interner.cap_mask = 2^interner.cap_log - 1
        /\ DOMAIN interner.buf = 0..interner.cap_mask
    BY DEF PoolInv, TableInv, Table, IsBuf
  <2>2. pc \in [Thread -> {"idle", "once", "lock"} \cup Registering \cup Inside]
    BY DEF PoolInv, InternerInv, ControlOK, Labels
  <2> QED BY <2>1, <2>2 DEF TypeOK, PoolInv, AnswerInv, CallInv
<1> QED BY <1>1, PoolInit, PoolStep, PTL DEF Spec

\* intern never panics with "no such key in hashset" for a string that
\* hashset_contains has just found, and hashmap_resize panics only when the
\* table of the largest capacity is three quarters full and the text is new.
THEOREM AbortsAreJustified == Spec => []AbortsOnlyForMemory
<1>1. PoolInv => AbortsOnlyForMemory
  BY DEF PoolInv
<1> QED BY <1>1, PoolInit, PoolStep, PTL DEF Spec
-----------------------------------------------------------------------------
\* The pool of a table.
PoolOf(m) ==
  [text \in {u \in Text : hashmap_contains(m, [text |-> u])} |-> hashset_get(m, [text |-> text])]

\* An entry of the pool is a node of the table.
LEMMA PoolEntry ==
  ASSUME NEW m, Table(m, StrNodes), Distinct(m.buf), NEW str, str.text \in Text
  PROVE  /\ hashmap_contains(m, str) <=> str.text \in DOMAIN PoolOf(m)
         /\ str.text \in DOMAIN PoolOf(m) <=> \E n : NodeOf(n, m, str)
         /\ \A n : NodeOf(n, m, str) => PoolOf(m)[str.text] = n.key
         /\ str.text \in DOMAIN PoolOf(m) => hashset_get(m, str) = PoolOf(m)[str.text]
<1> DEFINE key == [text |-> str.text]
<1>1. key.text = str.text /\ Hash(str.text) \in Nat
  BY StrNodesCarryHashes DEF Text
<1>2. /\ str.text \in DOMAIN PoolOf(m) <=> hashmap_contains(m, key)
      /\ hashmap_contains(m, key) => PoolOf(m)[str.text] = hashset_get(m, key)
  BY DEF PoolOf
<1> HIDE DEF key
<1>3. Finds(m, key) /\ Finds(m, str)
  BY <1>1, StrNodesCarryHashes, Lookup
<1>4. \A n : NodeOf(n, m, key) <=> NodeOf(n, m, str)
  BY <1>1 DEF NodeOf
<1>5. ASSUME NEW n, NodeOf(n, m, str)
      PROVE  hashset_get(m, key) = n.key /\ hashset_get(m, str) = n.key
  <2>1. n \in Held(m.buf) /\ str.text = n.key.text /\ key.text = n.key.text
    BY <1>1, <1>5 DEF NodeOf
  <2>2. keyval_get(m, key) = n /\ keyval_get(m, str) = n
    BY <2>1, StrNodesCarryHashes, LookupOnce
  <2> QED BY <2>2 DEF hashset_get
<1>6. hashmap_contains(m, key) <=> \E n : NodeOf(n, m, str)
  BY <1>3, <1>4 DEF Finds
<1>7. hashmap_contains(m, str) <=> \E n : NodeOf(n, m, str)
  BY <1>3 DEF Finds
<1> QED BY <1>2, <1>5, <1>6, <1>7

\* The pool is a function on texts.
LEMMA PoolIsFunction ==
  ASSUME NEW m
  PROVE  DOMAIN PoolOf(m) \subseteq Text /\ PoolOf(m) = [u \in DOMAIN PoolOf(m) |-> PoolOf(m)[u]]
BY DEF PoolOf

\* A pool with the string str, if its text was not there.
WithString(old, str) ==
  [text \in DOMAIN old \cup {str.text} |-> IF text \in DOMAIN old THEN old[text] ELSE str]

\* hashset_insert of a new text adds that string to the pool.
LEMMA PoolInserted ==
  ASSUME NEW m, Table(m, StrNodes), Distinct(m.buf), NEW r, Table(r, StrNodes), Distinct(r.buf),
         NEW str \in Str, ~(\E n : NodeOf(n, m, str)),
         Held(r.buf) = Held(m.buf) \cup {Node(str, NONE)}
  PROVE  PoolOf(r) = WithString(PoolOf(m), str) /\ str.text \notin DOMAIN PoolOf(m)
<1> DEFINE kv == Node(str, NONE)
<1>1. kv.key = str /\ str.text \in Text
  BY DEF Node, Text
<1> HIDE DEF kv
<1>2. str.text \notin DOMAIN PoolOf(m)
  BY <1>1, PoolEntry
<1>3. ASSUME NEW u \in Text
      PROVE  /\ u \in DOMAIN PoolOf(r) <=> u \in DOMAIN PoolOf(m) \cup {str.text}
             /\ u \in DOMAIN PoolOf(r) =>
                  PoolOf(r)[u] = IF u \in DOMAIN PoolOf(m) THEN PoolOf(m)[u] ELSE str
  <2> DEFINE key == [text |-> u]
  <2>1. key.text = u
    OBVIOUS
  <2> HIDE DEF key
  <2>2. CASE u = str.text
    <3>1. NodeOf(kv, r, key)
      BY <1>1, <2>1, <2>2 DEF NodeOf, kv
    <3>2. u \in DOMAIN PoolOf(r) /\ PoolOf(r)[u] = str
      BY <1>1, <2>1, <3>1, PoolEntry
    <3> QED BY <1>2, <2>2, <3>2
  <2>3. CASE u # str.text
    <3>1. \A n : NodeOf(n, r, key) <=> NodeOf(n, m, key)
      BY <1>1, <2>1, <2>3 DEF NodeOf, kv
    <3>2. u \in DOMAIN PoolOf(r) <=> u \in DOMAIN PoolOf(m)
      BY <2>1, <3>1, PoolEntry
    <3>3. u \in DOMAIN PoolOf(r) => PoolOf(r)[u] = PoolOf(m)[u]
      BY <2>1, <3>1, PoolEntry
    <3> QED BY <2>3, <3>2, <3>3
  <2> QED BY <2>2, <2>3
<1>4. DOMAIN PoolOf(r) = DOMAIN PoolOf(m) \cup {str.text}
  BY <1>1, <1>3, PoolIsFunction
<1>5. \A u \in DOMAIN PoolOf(r) :
        PoolOf(r)[u] = IF u \in DOMAIN PoolOf(m) THEN PoolOf(m)[u] ELSE str
  BY <1>3, PoolIsFunction
<1>6. PoolOf(r) = [u \in DOMAIN PoolOf(r) |-> PoolOf(r)[u]]
  BY PoolIsFunction
<1> QED BY <1>2, <1>4, <1>5, <1>6 DEF WithString

\* interned_strings counts the strings of the pool.
LEMMA PoolSize ==
  ASSUME TableInv
  PROVE  Pool!Cardinality(DOMAIN PoolOf(interner)) = interner.len
<1> DEFINE D == DOMAIN PoolOf(interner)
           kv == Nodes(interner)
           n == Len(kv)
           f == [a \in 1..n |-> kv[a].key.text]
<1>1. ListsTable(kv)
  BY TableListed
<1>2. ASSUME NEW a \in 1..n PROVE kv[a].key.text \in D
  <2>1. kv[a] \in Held(interner.buf) /\ kv[a].key \in Str
    BY <1>1 DEF ListsTable
  <2>2. NodeOf(kv[a], interner, kv[a].key) /\ kv[a].key.text \in Text
    BY <2>1 DEF NodeOf, Text
  <2> QED BY <2>2, PoolEntry DEF TableInv
<1>3. ASSUME NEW u \in D PROVE \E a \in 1..n : kv[a].key.text = u
  <2> DEFINE key == [text |-> u]
  <2>1. key.text = u /\ u \in Text
    BY PoolIsFunction
  <2> HIDE DEF key
  <2>2. \E x : NodeOf(x, interner, key)
    BY <2>1, PoolEntry DEF TableInv
  <2> QED BY <1>1, <2>1, <2>2 DEF ListsTable, NodeOf
<1>4. \A a, b \in 1..n : kv[a].key.text = kv[b].key.text => a = b
  BY <1>1 DEF ListsTable
<1>5. n \in Nat /\ n = interner.len
  BY <1>1 DEF ListsTable
<1> HIDE DEF D, kv, n
<1>6. f \in [1..n -> D] /\ (\A a, b \in 1..n : f[a] = f[b] => a = b)
      /\ (\A u \in D : \E a \in 1..n : f[a] = u)
  BY <1>2, <1>3, <1>4
<1> HIDE DEF f
<1>7. HasSize(D, n)
  BY <1>5, <1>6, Counted
<1>8. Pool!Cardinality(D) = n
  <2>1. SizeOf(D) = n
    BY <1>7, SizeByRecursion
  <2> QED BY <2>1 DEF SizeOf, Pool!Cardinality
<1> QED BY <1>5, <1>8 DEF D

\* The pool that the refinement maps the table to.
LEMMA ContentsAre == Contents = PoolOf(interner) /\ Contents' = PoolOf(interner')
BY DEF Contents, PoolOf

\* What a step is to the pool: nothing, an answer at an instant, or the return.
PoolStutters(t) == Contents' = Contents /\ Phase' = Phase /\ call' = call /\ res' = res
PoolAnswers(t, r) ==
  /\ Phase[t] = "called" /\ Phase' = [Phase EXCEPT ![t] = "answered"]
  /\ res' = [res EXCEPT ![t] = r] /\ call' = call

\* The pool is that of the table.
LEMMA SameTable == ASSUME interner' = interner PROVE Contents' = Contents
BY DEF Contents

\* Where a call is for the pool.
LEMMA PhaseIs ==
  ASSUME NEW t \in Thread
  PROVE  /\ Phase \in [Thread -> {"idle", "answered", "called"}]
         /\ Phase[t] = CASE pc[t] = "idle" -> "idle"
                         [] pc[t] = "unlock" -> "answered"
                         [] OTHER -> "called"
BY DEF Phase

\* A step of one thread moves one call.
LEMMA PhaseMoves ==
  ASSUME NEW t \in Thread, NEW p, \A u \in Thread \ {t} : pc'[u] = pc[u],
         p = CASE pc'[t] = "idle" -> "idle"
               [] pc'[t] = "unlock" -> "answered"
               [] OTHER -> "called"
  PROVE  Phase' = [Phase EXCEPT ![t] = p]
BY DEF Phase

\* The steps before and after the instant of a call change nothing of the pool.
LEMMA SilentSteps ==
  ASSUME PoolInv, NEW t \in Thread,
         \/ CallOnce(t) \/ Malloc(t) \/ Memcpy(t) \/ MtxInit(t) \/ Lock(t) \/ Contains(t)
  PROVE  PoolStutters(t)
<1>1. pc \in [Thread -> Labels]
  BY DEF PoolInv, InternerInv, ControlOK
<1>2. Step(t)
  BY DEF Step
<1>3. interner' = interner
  BY <1>2, TableChanges DEF CallOnce, Malloc, Memcpy, MtxInit, Lock, Contains, panic,
    PoolInv,
    InternerInv, OnceInv, FreshInv, At, Registering
<1>4. call' = call /\ res' = res
  BY DEF CallOnce, Malloc, Memcpy, MtxInit, Lock, Contains, panic
<1>5. pc[t] \notin {"idle", "unlock"}
  BY DEF CallOnce, Malloc, Memcpy, MtxInit, Lock, Contains, At
<1>6. pc'[t] \notin {"idle", "unlock"}
  <2>1. CASE Lock(t)
    <3>1. call[t].op \in Ops
      BY <2>1 DEF Lock, At, PoolInv, InternerInv, ControlOK
    <3> QED BY <1>1, <2>1, <3>1 DEF Lock, Goto, Ops
  <2>2. CASE Contains(t)
    BY <1>1, <2>2 DEF Contains, Goto
  <2> QED BY <1>1, <1>5, <2>1, <2>2 DEF CallOnce, Malloc, Memcpy, MtxInit, panic, Goto
<1>7. Phase' = [Phase EXCEPT ![t] = "called"] /\ Phase[t] = "called"
  BY <1>2, <1>5, <1>6, StepMoves, PhaseMoves, PhaseIs
<1> QED BY <1>3, <1>4, <1>7, SameTable, PhaseIs DEF PoolStutters

\* A panic is a call that does not return.
LEMMA PanicIsSilent == ASSUME panic, NEW t PROVE PoolStutters(t)
BY SameTable DEF panic, PoolStutters, Phase

\* A step that answers a call answers it for the pool.
LEMMA AnswerIs ==
  ASSUME PoolInv, NEW t \in Thread, NEW r,
         Step(t), Answer(t, r), call' = call, pc[t] \notin {"idle", "unlock"}
  PROVE  PoolAnswers(t, r)
<1>1. pc'[t] = "unlock" /\ res' = [res EXCEPT ![t] = r]
  BY StepMoves DEF Answer, Goto
<1>2. Phase' = [Phase EXCEPT ![t] = "answered"] /\ Phase[t] = "called"
  BY <1>1, StepMoves, PhaseMoves, PhaseIs
<1> QED BY <1>1, <1>2 DEF PoolAnswers

\* The size of the pool.
PoolFull == Pool!Cardinality(DOMAIN Contents)

\* It is the len of the table.
LEMMA PoolCount == TableInv => PoolFull = interner.len
BY PoolSize, ContentsAre DEF PoolFull

\* A call is a call.
LEMMA PoolCall ==
  ASSUME PoolInv, NEW t \in Thread, NEW c \in Calls, Call(t, c)
  PROVE  Pool!Call(t, c)
<1>1. pc \in [Thread -> Labels] /\ pc[t] = "idle"
  BY DEF PoolInv, InternerInv, ControlOK, Call, At
<1>2. pc'[t] = "once" /\ \A u \in Thread \ {t} : pc'[u] = pc[u]
  BY <1>1 DEF Call, Goto
<1>3. Phase[t] = "idle" /\ Phase' = [Phase EXCEPT ![t] = "called"]
  BY <1>1, <1>2, PhaseIs, PhaseMoves
<1>4. Contents' = Contents
  BY SameTable DEF Call
<1> QED BY <1>3, <1>4 DEF Call, Pool!Call

\* unlock is the return.
LEMMA PoolReturn ==
  ASSUME PoolInv, NEW t \in Thread, Unlock(t)
  PROVE  Pool!Return(t)
<1>1. pc \in [Thread -> Labels] /\ pc[t] = "unlock" /\ Step(t)
  BY DEF PoolInv, InternerInv, ControlOK, Unlock, At, Step
<1>2. pc'[t] = "idle"
  BY <1>1 DEF Unlock, Goto
<1>3. Phase[t] = "answered" /\ Phase' = [Phase EXCEPT ![t] = "idle"]
  BY <1>1, <1>2, StepMoves, PhaseIs, PhaseMoves
<1>4. Contents' = Contents
  BY SameTable DEF Unlock
<1> QED BY <1>3, <1>4 DEF Unlock, Pool!Return

\* hashset_get answers with the string that is there.
LEMMA PoolGet ==
  ASSUME PoolInv, NEW t \in Thread, Get(t), ~panic
  PROVE  Pool!Intern(t)
<1> DEFINE str == call[t].str
<1>1. /\ pc[t] = "get" /\ call[t] \in Calls /\ call[t].op = "intern" /\ call' = call
      /\ interner' = interner /\ Answer(t, [str |-> hashset_get(interner, str)])
      /\ hashmap_contains(interner, str)
  BY DEF Get, At, PoolInv, CallInv
<1>2. str.text \in Text
  BY <1>1, CallStrings DEF Text
<1>3. TableInv
  BY DEF PoolInv
<1> HIDE DEF str
<1>4. str.text \in DOMAIN Contents /\ hashset_get(interner, str) = Contents[str.text]
  BY <1>1, <1>2, <1>3, PoolEntry, ContentsAre DEF TableInv
<1>5. Contents' = Contents /\ Contents = [u \in DOMAIN Contents |-> Contents[u]]
  BY <1>1, SameTable, ContentsAre, PoolIsFunction
<1>6. PoolAnswers(t, [str |-> Contents[str.text]])
  BY <1>1, <1>4, AnswerIs DEF Step
<1> HIDE DEF Contents, Phase
<1>7. Contents' = [u \in DOMAIN Contents \cup {str.text} |->
                     IF u \in DOMAIN Contents THEN Contents[u] ELSE str]
  BY <1>4, <1>5
<1>8. Contents'[str.text] = Contents[str.text]
  BY <1>5
<1> QED BY <1>1, <1>4, <1>6, <1>7, <1>8 DEF Pool!Intern, Pool!Answer, PoolAnswers, str

\* hashset_insert answers with the new string; there was room for it.
LEMMA PoolInsert ==
  ASSUME PoolInv, NEW t \in Thread, Insert(t), ~panic
  PROVE  Pool!Intern(t)
<1> DEFINE str == call[t].str
<1>1. /\ pc[t] = "insert" /\ call[t] \in Calls /\ call[t].op = "intern" /\ call' = call
      /\ ~InsertPanics(interner) /\ Answer(t, [str |-> str])
  BY DEF Insert, At, PoolInv, CallInv
<1>2. str \in Str
  BY <1>1, CallStrings
<1>3. /\ TableInv /\ TableInv' /\ ~(\E n : NodeOf(n, interner, str))
      /\ Held(interner'.buf) = Held(interner.buf) \cup {Node(str, NONE)}
  BY <1>1, InsertedOnce DEF PoolInv
<1> HIDE DEF str
<1>4. Contents' = WithString(Contents, str) /\ str.text \notin DOMAIN Contents
  BY <1>2, <1>3, PoolInserted, ContentsAre DEF TableInv
<1>5. PoolFull < Limit
  BY <1>1, <1>3, FullTable, PoolCount DEF TableInv, Limit
<1>6. PoolAnswers(t, [str |-> str])
  BY <1>1, AnswerIs DEF Step
<1> HIDE DEF Contents, Phase
<1>7. Contents'[str.text] = str
  BY <1>4 DEF WithString
<1> QED
  BY <1>1, <1>4, <1>5, <1>6, <1>7 DEF Pool!Intern, Pool!Answer, PoolAnswers, WithString,
    PoolFull, str

\* interned_strings answers with the number of strings.
LEMMA PoolCounts ==
  ASSUME PoolInv, NEW t \in Thread, Count(t)
  PROVE  Pool!Count(t)
<1>1. /\ pc[t] = "len" /\ call[t].op = "interned_strings" /\ call' = call
      /\ interner' = interner /\ Answer(t, [len |-> interner.len])
  BY DEF Count, At, PoolInv, CallInv
<1>2. PoolFull = interner.len
  BY PoolCount DEF PoolInv
<1>3. PoolAnswers(t, [len |-> PoolFull])
  BY <1>1, <1>2, AnswerIs DEF Step
<1>4. Contents' = Contents
  BY <1>1, SameTable
<1> QED BY <1>1, <1>3, <1>4 DEF Pool!Count, Pool!Answer, PoolAnswers, PoolFull

\* interner_debug shows the strings of the pool in some order.
LEMMA PoolShow ==
  ASSUME PoolInv, NEW t \in Thread, Show(t)
  PROVE  Pool!Show(t)
<1> DEFINE kv == Nodes(interner)
           n == PoolFull
           D == DOMAIN Contents
           order == [a \in 1..n |-> kv[a].key.text]
<1>1. /\ pc[t] = "iter" /\ call[t].op = "interner_debug" /\ call' = call /\ interner' = interner
      /\ Answer(t, [printed |-> Printed(kv)])
  <2>1. Goto(t, "unlock")
    BY DEF Show, Answer
  <2> QED BY <2>1, ShowPrints DEF Show, Answer, At, PoolInv, CallInv
<1>2. ListsTable(kv) /\ n = Len(kv)
  BY TableListed, PoolCount DEF PoolInv, ListsTable
<1>3. ASSUME NEW a \in 1..n
      PROVE  kv[a].key.text \in D /\ Contents[kv[a].key.text] = kv[a].key
  <2>1. kv[a] \in Held(interner.buf) /\ kv[a].key \in Str
    BY <1>2 DEF ListsTable
  <2>2. NodeOf(kv[a], interner, kv[a].key) /\ kv[a].key.text \in Text
    BY <2>1 DEF NodeOf, Text
  <2> QED BY <2>2, PoolEntry, ContentsAre DEF PoolInv, TableInv
<1>4. \A a, b \in 1..n : kv[a].key.text = kv[b].key.text => a = b
  BY <1>2 DEF ListsTable
<1>5. PoolAnswers(t, [printed |-> Printed(kv)])
  BY <1>1, AnswerIs DEF Step
<1>6. Contents' = Contents
  BY <1>1, SameTable
<1> HIDE DEF kv, n
<1>7. order \in [1..n -> D] /\ \A a, b \in 1..n : order[a] = order[b] => a = b
  BY <1>3, <1>4
<1>8. Printed(kv) = [i \in 1..n |-> [key |-> Contents[order[i]], comma |-> i < n]]
  BY <1>2, <1>3 DEF Printed
<1> HIDE DEF order
<1>9. \E f \in {g \in [1..n -> D] : \A a, b \in 1..n : g[a] = g[b] => a = b} :
        PoolAnswers(t, [printed |-> [i \in 1..n |-> [key |-> Contents[f[i]], comma |-> i < n]]])
  BY <1>5, <1>7, <1>8
<1> QED BY <1>1, <1>6, <1>9 DEF Pool!Show, Pool!Answer, PoolAnswers, PoolFull, n

\* The variables of the pool.
PoolVars == <<Contents, Phase, call, res>>

\* Every step of the interner is a step of the pool, or none.
LEMMA PoolNext == PoolInv /\ [Next]_vars => [Pool!Next]_PoolVars
<1> SUFFICES ASSUME PoolInv, [Next]_vars PROVE [Pool!Next]_PoolVars
  OBVIOUS
<1>1. CASE UNCHANGED vars
  BY <1>1, SameTable DEF vars, PoolVars, Phase
<1>2. ASSUME NEW t \in Thread, Step(t) PROVE [Pool!Next]_PoolVars
  <2>1. \/ PoolStutters(t)
        \/ Pool!Intern(t) \/ Pool!Count(t) \/ Pool!Show(t) \/ Pool!Return(t)
    BY <1>2, SilentSteps, PanicIsSilent, PoolGet, PoolInsert, PoolCounts, PoolShow,
      PoolReturn
    DEF Step
  <2> QED BY <2>1 DEF Pool!Next, PoolStutters, PoolVars
<1>3. ASSUME NEW t \in Thread, NEW c \in Calls, Call(t, c) PROVE [Pool!Next]_PoolVars
  <2>1. c \in Pool!Calls
    BY <1>3 DEF Calls, Pool!Calls
  <2> QED BY <1>3, <2>1, PoolCall DEF Pool!Next
<1> QED BY <1>1, <1>2, <1>3 DEF Next

\* The interner starts as the empty pool.
LEMMA PoolStart == Init => Pool!Init
<1> SUFFICES ASSUME Init PROVE Pool!Init
  OBVIOUS
<1>1. PoolInv /\ interner = hashmap_new
  BY PoolInit DEF Init
<1>2. DOMAIN Contents = {}
  <2>1. Held(hashmap_new.buf) = {}
    BY NewTable
  <2>2. ASSUME NEW u \in DOMAIN PoolOf(interner) PROVE FALSE
    <3> DEFINE key == [text |-> u]
    <3>1. key.text = u /\ u \in Text
      BY PoolIsFunction
    <3> HIDE DEF key
    <3>2. \E x : NodeOf(x, interner, key)
      BY <1>1, <3>1, PoolEntry DEF PoolInv, TableInv
    <3> QED BY <1>1, <2>1, <3>2 DEF NodeOf
  <2> QED BY <2>2, ContentsAre
<1>3. Contents = [text \in {} |-> NONE]
  BY <1>2, PoolIsFunction, ContentsAre
<1>4. Phase = [t \in Thread |-> "idle"]
  BY DEF Phase, Init
<1> QED BY <1>3, <1>4 DEF Init, Pool!Init

\* The interner implements the pool: whatever the interleaving of the threads,
\* of the initialisation and of the growth of the table, each call takes effect
\* at one instant, one text is answered with one string, interned_strings
\* counts the texts and interner_debug shows each once.
THEOREM InternerIsAPool == Spec => ImplementsStringPool
<1> QED
  BY PoolInit, PoolStep, PoolStart, PoolNext, PTL
  DEF Spec, ImplementsStringPool, Pool!Spec, Pool!pvars, PoolVars

=============================================================================
