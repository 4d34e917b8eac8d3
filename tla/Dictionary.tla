----------------------------- MODULE Dictionary -----------------------------
(***************************************************************************)
(* What hashmap.h promises: a partial function from texts to values.  ret  *)
(* is the last call and what it returned.  The implementation may give up  *)
(* for want of memory (panic).                                             *)
(***************************************************************************)
CONSTANTS Text, Val, NULL

VARIABLES dict, ret

Result(op, text, res) == ret' = [op |-> op, text |-> text, res |-> res]

Init == dict = [t \in {} |-> NULL] /\ ret = [op |-> "new"]

Insert(text, v) ==
  /\ dict' = [t \in DOMAIN dict \cup {text} |-> IF t = text THEN v ELSE dict[t]]
  /\ Result("insert", text, text \notin DOMAIN dict)

Remove(text) ==
  /\ dict' = [t \in DOMAIN dict \ {text} |-> dict[t]]
  /\ Result("remove", text, text \in DOMAIN dict)

Get(text) ==
  /\ Result("get", text, IF text \in DOMAIN dict THEN dict[text] ELSE NULL)
  /\ UNCHANGED dict

Contains(text) == Result("contains", text, text \in DOMAIN dict) /\ UNCHANGED dict

Panic == ret' = [op |-> "panic"] /\ UNCHANGED dict

Next ==
  \/ \E t \in Text : Remove(t) \/ Get(t) \/ Contains(t) \/ \E v \in Val : Insert(t, v)
  \/ Panic

Spec == Init /\ [][Next]_<<dict, ret>>
=============================================================================
