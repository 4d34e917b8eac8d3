------------------------------ MODULE Interner ------------------------------
(***************************************************************************)
(* The string interner of src/src/interner.c: one hash set shared by the   *)
(* threads of a program, created by the first of them (call_once) and      *)
(* guarded by a mutex.  Each step is one access to what the threads share. *)
(***************************************************************************)
EXTENDS HashTable, Integers, Sequences, FiniteSets, TLC

CONSTANTS
  Thread,     \* the threads
  Str,        \* the strings of the program: a text stored at an address (data)
  MAX_CALLS,  \* the calls each thread makes
  NONE        \* no thread, no string, no result

ASSUME HashAssumption == \A s \in Str : Hash(s.text) \in Nat \ {0}
ASSUME NoneAssumption == NONE \notin Thread
ASSUME CallsAssumption == MAX_CALLS \in Nat

VARIABLES
  once,       \* PRIVATE_INTERNER_INIT
  pointer,    \* PRIVATE_INTERNER: NULL, memory not yet written, the hash set
  interner,   \* the hash set
  holder,     \* the thread that holds PRIVATE_INTERNER_LOCK
  pc, call, res, calls,   \* of each thread: where it is, its call, its result
  aborted     \* a panic has ended the program

vars == <<once, pointer, interner, holder, pc, call, res, calls, aborted>>

Calls == [op : {"intern"}, str : Str] \cup [op : {"interned_strings", "interner_debug"}]

Goto(t, label) == pc' = [pc EXCEPT ![t] = label]
At(t, label) == ~aborted /\ pc[t] = label
Answer(t, r) == res' = [res EXCEPT ![t] = r] /\ Goto(t, "unlock")
panic == aborted' = TRUE /\ UNCHANGED <<once, pointer, interner, holder, pc, call, res, calls>>

Init ==
  /\ once = "none"
  /\ pointer = "NULL"
  /\ interner = hashmap_new
  /\ holder = NONE
  /\ pc = [t \in Thread |-> "idle"]
  /\ call = [t \in Thread |-> NONE]
  /\ res = [t \in Thread |-> NONE]
  /\ calls = [t \in Thread |-> 0]
  /\ aborted = FALSE

\* A thread calls one of the three functions.
Call(t, c) ==
  /\ At(t, "idle") /\ calls[t] < MAX_CALLS
  /\ call' = [call EXCEPT ![t] = c]
  /\ res' = [res EXCEPT ![t] = NONE]
  /\ calls' = [calls EXCEPT ![t] = @ + 1]
  /\ Goto(t, "once")
  /\ UNCHANGED <<once, pointer, interner, holder, aborted>>
-----------------------------------------------------------------------------
(* lock *)

\* Seeded fault: the threads that find the initialisation running go on.
CallOnceWithoutWait(t) ==
  /\ At(t, "once")
  /\ \/ once = "none" /\ once' = "running" /\ Goto(t, "malloc")
     \/ once # "none" /\ Goto(t, "lock") /\ UNCHANGED once
  /\ UNCHANGED <<pointer, interner, holder, call, res, calls, aborted>>

\* The first thread runs register_interner, the others wait until it is done.
CallOnce(t) ==
  /\ At(t, "once")
  /\ \/ once = "none" /\ once' = "running" /\ Goto(t, "malloc")
     \/ once = "done" /\ Goto(t, "lock") /\ UNCHANGED once
  /\ UNCHANGED <<pointer, interner, holder, call, res, calls, aborted>>

\* GC_malloc_uncollectable may return NULL.
Malloc(t) ==
  /\ At(t, "malloc")
  /\ \/ /\ pointer' = "raw"
        /\ Goto(t, "memcpy")
        /\ UNCHANGED <<once, interner, holder, call, res, calls, aborted>>
     \/ panic

Memcpy(t) ==
  /\ At(t, "memcpy")
  /\ pointer' = "table" /\ interner' = hashmap_new
  /\ Goto(t, "mtx_init")
  /\ UNCHANGED <<once, holder, call, res, calls, aborted>>

\* The end of register_interner, and of call_once.
MtxInit(t) ==
  /\ At(t, "mtx_init")
  /\ holder' = NONE
  /\ once' = "done"
  /\ Goto(t, "lock")
  /\ UNCHANGED <<pointer, interner, call, res, calls, aborted>>

Lock(t) ==
  /\ At(t, "lock") /\ holder = NONE
  /\ holder' = t
  /\ Goto(t, CASE call[t].op = "intern"           -> "contains"
               [] call[t].op = "interned_strings" -> "len"
               [] call[t].op = "interner_debug"   -> "iter")
  /\ UNCHANGED <<once, pointer, interner, call, res, calls, aborted>>
-----------------------------------------------------------------------------
(* intern, interned_strings, interner_debug *)

\* Seeded fault: two texts with the same hash are taken for one.
ContainsHash(t) ==
  /\ At(t, "contains")
  /\ LET str == call[t].str
         chain == interner.buf[Bucket(interner, str)]
         found == \E i \in DOMAIN chain : chain[i].hash = Hash(str.text) IN
     Goto(t, IF found THEN "get" ELSE "insert")
  /\ UNCHANGED <<once, pointer, interner, holder, call, res, calls, aborted>>

Contains(t) ==
  /\ At(t, "contains")
  /\ Goto(t, IF hashmap_contains(interner, call[t].str) THEN "get" ELSE "insert")
  /\ UNCHANGED <<once, pointer, interner, holder, call, res, calls, aborted>>

Get(t) ==
  /\ At(t, "get")
  /\ IF hashmap_contains(interner, call[t].str)
       THEN /\ Answer(t, [str |-> hashset_get(interner, call[t].str)])
            /\ UNCHANGED <<once, pointer, interner, holder, call, calls, aborted>>
       ELSE panic

Insert(t) ==
  /\ At(t, "insert")
  /\ \/ /\ ~InsertPanics(interner)
        /\ interner' = hashmap_insert(interner, call[t].str, NONE)
        /\ Answer(t, [str |-> call[t].str])
        /\ UNCHANGED <<once, pointer, holder, call, calls, aborted>>
     \/ InsertPanics(interner) /\ panic

Count(t) ==
  /\ At(t, "len")
  /\ Answer(t, [len |-> interner.len])
  /\ UNCHANGED <<once, pointer, interner, holder, call, calls, aborted>>

\* print_str puts a comma after a string when others remain.  Nothing is
\* visited when len is 0.
Show(t) ==
  /\ At(t, "iter")
  /\ LET visits == hashmap_iter(interner) IN
     Answer(t, [printed |->
       [i \in DOMAIN visits |-> [key |-> visits[i].key, comma |-> visits[i].remaining > 0]]])
  /\ UNCHANGED <<once, pointer, interner, holder, call, calls, aborted>>

\* Seeded fault: interned_strings returns without unlocking.
UnlockNotAfterCount(t) ==
  /\ At(t, "unlock")
  /\ holder' = IF call[t].op = "interned_strings" THEN holder ELSE NONE
  /\ Goto(t, "idle")
  /\ UNCHANGED <<once, pointer, interner, call, res, calls, aborted>>

Unlock(t) ==
  /\ At(t, "unlock")
  /\ holder' = NONE
  /\ Goto(t, "idle")
  /\ UNCHANGED <<once, pointer, interner, call, res, calls, aborted>>
-----------------------------------------------------------------------------
Step(t) ==
  \/ CallOnce(t) \/ Malloc(t) \/ Memcpy(t) \/ MtxInit(t)
  \/ Lock(t) \/ Contains(t) \/ Get(t) \/ Insert(t) \/ Count(t) \/ Show(t)
  \/ Unlock(t)

Next == \E t \in Thread : Step(t) \/ \E c \in Calls : Call(t, c)

Spec == Init /\ [][Next]_vars

\* A thread that can take its next step takes it; nothing is assumed of the
\* order in which the mutex is given to those that wait for it.
FairSpec == Spec /\ \A t \in Thread : WF_vars(Step(t))
-----------------------------------------------------------------------------
(* Properties *)

Text == {s.text : s \in Str}
Registering == {"malloc", "memcpy", "mtx_init"}
Inside == {"contains", "get", "insert", "len", "iter", "unlock"}
Ready == pointer = "table"

\* Three quarters of the largest capacity.
Limit == 3 * 2^(CAPACITY_LOG_MAX - 2)

Result == [str : Str] \cup [len : Nat] \cup [printed : Seq([key : Str, comma : BOOLEAN])]

TypeOK ==
  /\ once \in {"none", "running", "done"}
  /\ pointer \in {"NULL", "raw", "table"}
  /\ interner.cap_mask = 2^interner.cap_log - 1 /\ DOMAIN interner.buf = 0..interner.cap_mask
  /\ holder \in Thread \cup {NONE}
  /\ pc \in [Thread -> {"idle", "once", "lock"} \cup Registering \cup Inside]
  /\ call \in [Thread -> Calls \cup {NONE}]
  /\ res \in [Thread -> Result \cup {NONE}]
  /\ calls \in [Thread -> 0..MAX_CALLS]
  /\ aborted \in BOOLEAN

\* The code between lock() and unlock() runs in the thread that holds the
\* mutex, on a table that has been built: register_interner cannot reset
\* either under it.
OneInside == \A t \in Thread : pc[t] \in Inside => holder = t /\ Ready

\* A panic means that memory was refused, or that the table was full and a
\* text was new; never that a string found by hashset_contains was lost before
\* hashset_get ("no such key in hashset").
AbortsOnlyForMemory ==
  aborted =>
    \E t \in Thread :
      \/ pc[t] = "malloc"
      \/ /\ pc[t] = "insert" /\ ~hashmap_contains(interner, call[t].str)
         /\ Len(Nodes(interner)) = Limit

\* The answers are those of a pool whose calls take effect at an instant.
Contents ==
  [text \in {u \in Text : hashmap_contains(interner, [text |-> u])} |->
     hashset_get(interner, [text |-> text])]

Phase ==
  [t \in Thread |->
    CASE pc[t] = "idle" -> "idle" [] pc[t] = "unlock" -> "answered" [] OTHER -> "called"]

Pool == INSTANCE StringPool WITH pool <- Contents, phase <- Phase

\* The same text interned by any threads at any time is answered with the
\* same string, interned_strings counts the texts, and interner_debug shows
\* each of them once: contains and insert or get are one critical section.
ImplementsStringPool == Pool!Spec

\* A call returns, unless a panic ends the program: the mutex is released on
\* every path, and the initialisation is waited for only while it runs.
CallsReturn == \A t \in Thread : pc[t] # "idle" ~> (pc[t] = "idle" \/ aborted)
=============================================================================
