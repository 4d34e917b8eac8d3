----------------------------- MODULE StringPool -----------------------------
(***************************************************************************)
(* What interner.h promises to the threads of a program: each call takes   *)
(* effect at one instant between its call and its return.  pool gives each *)
(* text met so far its one string, the first that was interned with it.    *)
(***************************************************************************)
EXTENDS Naturals, FiniteSets

CONSTANTS
  Thread, Str,
  NONE,        \* no result yet
  Limit        \* the number of strings the pool has room for

Text == {s.text : s \in Str}
Calls == [op : {"intern"}, str : Str] \cup [op : {"interned_strings", "interner_debug"}]

VARIABLES pool, phase, call, res

pvars == <<pool, phase, call, res>>

Init ==
  /\ pool = [text \in {} |-> NONE]
  /\ phase = [t \in Thread |-> "idle"]
  /\ call = [t \in Thread |-> NONE]
  /\ res = [t \in Thread |-> NONE]

Call(t, c) ==
  /\ phase[t] = "idle"
  /\ phase' = [phase EXCEPT ![t] = "called"]
  /\ call' = [call EXCEPT ![t] = c]
  /\ res' = [res EXCEPT ![t] = NONE]
  /\ UNCHANGED pool

Answer(t, r) ==
  /\ phase' = [phase EXCEPT ![t] = "answered"]
  /\ res' = [res EXCEPT ![t] = r]
  /\ UNCHANGED call

\* The first string with a text is the one that every caller is given.
Intern(t) ==
  /\ phase[t] = "called" /\ call[t].op = "intern"
  /\ LET str == call[t].str IN
     /\ str.text \in DOMAIN pool \/ Cardinality(DOMAIN pool) < Limit
     /\ pool' = [text \in DOMAIN pool \cup {str.text} |->
                   IF text \in DOMAIN pool THEN pool[text] ELSE str]
     /\ Answer(t, [str |-> pool'[str.text]])

Count(t) ==
  /\ phase[t] = "called" /\ call[t].op = "interned_strings"
  /\ Answer(t, [len |-> Cardinality(DOMAIN pool)])
  /\ UNCHANGED pool

\* Every string once, in any order, a comma after each but the last.
Show(t) ==
  /\ phase[t] = "called" /\ call[t].op = "interner_debug"
  /\ LET n == Cardinality(DOMAIN pool) IN
     \E order \in {f \in [1..n -> DOMAIN pool] : \A i, j \in 1..n : f[i] = f[j] => i = j} :
       Answer(t, [printed |-> [i \in 1..n |-> [key |-> pool[order[i]], comma |-> i < n]]])
  /\ UNCHANGED pool

Return(t) ==
  /\ phase[t] = "answered"
  /\ phase' = [phase EXCEPT ![t] = "idle"]
  /\ UNCHANGED <<pool, call, res>>

Next ==
  \E t \in Thread :
    \/ \E c \in Calls : Call(t, c)
    \/ Intern(t) \/ Count(t) \/ Show(t) \/ Return(t)

Spec == Init /\ [][Next]_pvars
=============================================================================
