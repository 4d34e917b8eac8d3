----------------------------- MODULE MCInterner -----------------------------
(* Texts a, b and c share a bucket, b has the hash of a, and a is stored at  *)
(* two addresses; there is no room for the fourth.                           *)
EXTENDS Interner

MCHash(t) == CASE t = "a" -> 1 [] t = "b" -> 1 [] t = "c" -> 5 [] t = "d" -> 2

MCStr == [text : {"a"}, data : {1, 2}] \cup [text : {"b", "c", "d"}, data : {3}]
=============================================================================
