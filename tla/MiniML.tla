------------------------------- MODULE MiniML -------------------------------
(***************************************************************************)
(* What a miniml program means, without heap, stack or pointers: the       *)
(* promise src/src/eval.c keeps.  A strict language with lexical scope:    *)
(* environments are functions from names, a closure is the text of a       *)
(* function with the environment of its definition, and a recursive        *)
(* closure is one that finds itself under its own names.                   *)
(*                                                                         *)
(* Fuel bounds the nesting of evaluations, so that Meaning is total; a     *)
(* program that runs out of it is not one this module speaks about.        *)
(***************************************************************************)
EXTENDS Integers, Sequences, TLC

CONSTANTS
  NumNeg(_), NumAdd(_, _), NumSub(_, _), NumMul(_, _), NumDiv(_, _), NumEq(_, _),
  Cat(_, _), Fuel

VARIABLES prog, walked, printed

Failure(msg) == [kind |-> "error", error |-> msg]
OutOfFuel == Failure("out of fuel")

\* Booleans are the integers modulo 2.
Bit(v) == IF v.boolean THEN 1 ELSE 0
FromBit(b) == [kind |-> "bool", boolean |-> b % 2 = 1]
ToNum(n) == [kind |-> "num", num |-> n]
ToBool(b) == [kind |-> "bool", boolean |-> b]

\* The operators, by kind of operand.
Signature == [
  num  |-> {"add", "sub", "mul", "div", "eq"},
  bool |-> {"add", "sub", "mul", "eq"},
  str  |-> {"add", "eq"},
  unit |-> {"eq"},
  fun  |-> {},
  error |-> {}]

Apply2(op, l, r) ==
  IF l.kind # r.kind THEN Failure("incompatible types")
  ELSE IF op \notin Signature[l.kind] THEN Failure("operator does not take this type")
  ELSE IF l.kind = "num"
    THEN CASE op = "add" -> ToNum(NumAdd(l.num, r.num))
           [] op = "sub" -> ToNum(NumSub(l.num, r.num))
           [] op = "mul" -> ToNum(NumMul(l.num, r.num))
           [] op = "div" -> ToNum(NumDiv(l.num, r.num))
           [] op = "eq"  -> ToBool(NumEq(l.num, r.num))
  ELSE IF op = "eq" THEN ToBool(l = r)
  ELSE IF l.kind = "str" THEN [kind |-> "str", str |-> Cat(l.str, r.str)]
  ELSE FromBit(IF op = "mul" THEN Bit(l) * Bit(r) ELSE Bit(l) + Bit(r))

\* The names a closure finds itself under.
Knot(f) == [n \in f.rec |-> f]

RECURSIVE Meaning(_, _, _)
Meaning(e, rho, fuel) ==
  LET Of(x) == Meaning(x, rho, fuel - 1)
      \* the meaning of a strict context around x
      Strict(v, K(_)) == IF v.kind = "error" THEN v ELSE K(v)
  IN
  IF fuel = 0 THEN OutOfFuel ELSE
  CASE e.kind = "num"  -> ToNum(e.num)
    [] e.kind = "str"  -> [kind |-> "str", str |-> e.str]
    [] e.kind = "bool" -> ToBool(e.boolean)
    [] e.kind = "unit" -> [kind |-> "unit"]
    [] e.kind = "error" -> Failure("invalid expression")
    [] e.kind = "var"  ->
         IF e.name \in DOMAIN rho THEN rho[e.name] ELSE Failure("unknown binding")
    [] e.kind = "fun"  ->
         [kind |-> "fun", param |-> e.param, body |-> e.body, rho |-> rho, rec |-> {}]
    [] e.kind = "call" ->
         Strict(Of(e.callee), LAMBDA f : Strict(Of(e.param), LAMBDA v :
           IF f.kind # "fun" THEN Failure("trying to call non function")
           ELSE Meaning(f.body, (f.param :> v) @@ Knot(f) @@ f.rho, fuel - 1)))
    [] e.kind = "let"  ->
         Strict(Of(e.expr), LAMBDA v : Meaning(e.body, (e.name :> v) @@ rho, fuel - 1))
    [] e.kind = "letrec" ->
         Strict(Of(e.expr), LAMBDA f :
           IF f.kind # "fun" THEN Failure("let rec binding can only be used with a function")
           ELSE Meaning(e.body, (e.name :> [f EXCEPT !.rec = @ \cup {e.name}]) @@ rho, fuel - 1))
    [] e.kind = "if"   ->
         Strict(Of(e.cond), LAMBDA c :
           IF c.kind # "bool" THEN Failure("condition is not a boolean")
           ELSE Of(IF c.boolean THEN e.then ELSE e.else))
    [] e.kind = "neg"  ->
         Strict(Of(e.rhs), LAMBDA v :
           CASE v.kind = "num"  -> ToNum(NumNeg(v.num))
             [] v.kind = "bool" -> FromBit(-Bit(v))
             [] OTHER -> Failure("negation operand is not a number"))
    [] OTHER ->
         Strict(Of(e.lhs), LAMBDA l : Strict(Of(e.rhs), LAMBDA r : Apply2(e.kind, l, r)))

\* The bindings after the first k toplevels of p, and the meaning of the next.
RECURSIVE Bindings(_, _)
Result(p, k) == Meaning(p[k + 1].expr, Bindings(p, k), Fuel)
Bindings(p, k) ==
  IF k = 0 THEN << >>
  ELSE LET tl == p[k] v == Result(p, k - 1) rho == Bindings(p, k - 1) IN
       CASE tl.kind = "let" -> (tl.name :> v) @@ rho
         [] tl.kind = "letrec" ->
              (tl.name :> IF v.kind = "fun" THEN [v EXCEPT !.rec = @ \cup {tl.name}] ELSE v) @@ rho
         [] OTHER -> rho

\* What walking toplevel k + 1 prints: an expression its value, unless it is unit.
Printing(p, k) ==
  IF p[k + 1].kind # "expr" THEN << >>
  ELSE LET v == Result(p, k) IN
       CASE v.kind = "unit" -> << >>
         [] v.kind = "fun"  -> <<[kind |-> "fun"]>>
         [] OTHER -> <<v>>
-----------------------------------------------------------------------------
Init == walked = 0 /\ printed = << >>

Walk ==
  /\ walked < Len(prog)
  /\ walked' = walked + 1
  /\ printed' = printed \o Printing(prog, walked)
  /\ UNCHANGED prog

Spec == Init /\ [][Walk]_<<prog, walked, printed>>
=============================================================================
