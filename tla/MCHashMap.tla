----------------------------- MODULE MCHashMap ------------------------------
(* Texts that collide in every way: a and b have the same hash, c shares     *)
(* their bucket until the capacity is 8, d until it is 16, e never does.     *)
EXTENDS HashMap, TLC

MCHash(t) ==
  CASE t = "a" -> 1 [] t = "b" -> 1 [] t = "c" -> 5 [] t = "d" -> 9 [] t = "e" -> 18

MCText == {"a", "b", "c", "d", "e"}
Colliding == {"a", "b", "c", "d"}

\* No property tells one value from another.
Symmetry == Permutations(Val)
=============================================================================
