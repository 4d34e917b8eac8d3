------------------------------- MODULE Samples -------------------------------
(* Small numbers and strings, syntax trees and programs, for the runs. *)
EXTENDS Integers, Sequences

\* Numbers: a floating point format with the integers up to MaxNum, infinity
\* for what is larger, division rounding down, and a NaN.
MaxNum == 24
Inf == MaxNum + 1
NaN == MaxNum + 2
MCNum == (-Inf)..NaN
IsNaN(a) == a = NaN
Round(n) == IF n > MaxNum THEN Inf ELSE IF n < -MaxNum THEN -Inf ELSE n
IsInf(a) == a \in {Inf, -Inf}
Sign(a) == IF a < 0 THEN -1 ELSE 1
MCNeg(a) == IF IsNaN(a) THEN NaN ELSE -a
MCAdd(a, b) ==
  IF IsNaN(a) \/ IsNaN(b) \/ (IsInf(a) /\ b = -a) THEN NaN
  ELSE IF IsInf(a) THEN a ELSE IF IsInf(b) THEN b ELSE Round(a + b)
MCSub(a, b) == MCAdd(a, MCNeg(b))
MCMul(a, b) ==
  IF IsNaN(a) \/ IsNaN(b) \/ (IsInf(a) /\ b = 0) \/ (IsInf(b) /\ a = 0) THEN NaN
  ELSE Round(a * b)
MCDiv(a, b) ==
  IF IsNaN(a) \/ IsNaN(b) \/ (IsInf(a) /\ IsInf(b)) \/ (a = 0 /\ b = 0) THEN NaN
  ELSE IF b = 0 \/ IsInf(a) THEN Inf * Sign(a) * Sign(b)
  ELSE IF IsInf(b) THEN 0
  ELSE Sign(a) * Sign(b) * ((a * Sign(a)) \div (b * Sign(b)))
MCNumEq(a, b) == a = b /\ ~IsNaN(a)

\* Strings of the byte 97, of at most MaxText bytes.
MaxText == 4
As(n) == [i \in 1..n |-> 97]
MCText == {As(n) : n \in 0..MaxText}
MCCat(s, t) == IF Len(s \o t) > MaxText THEN As(MaxText) ELSE s \o t

\* Identifiers are sequences of characters, here of one.
MCName == {<<c>> : c \in {"f", "g", "x", "y"}}

\* Trees
N(n) == [kind |-> "num", num |-> n]
S(n) == [kind |-> "str", str |-> As(n)]
T(b) == [kind |-> "bool", boolean |-> b]
U == [kind |-> "unit"]
Bad == [kind |-> "error"]
V(x) == [kind |-> "var", name |-> <<x>>]
C(f, x) == [kind |-> "call", callee |-> f, param |-> x]
F(x, b) == [kind |-> "fun", param |-> <<x>>, body |-> b]
L(x, e, b) == [kind |-> "let", name |-> <<x>>, expr |-> e, body |-> b]
R(x, e, b) == [kind |-> "letrec", name |-> <<x>>, expr |-> e, body |-> b]
I(c, t, e) == [kind |-> "if", cond |-> c, then |-> t, else |-> e]
Neg(e) == [kind |-> "neg", rhs |-> e]
B(op, l, r) == [kind |-> op, lhs |-> l, rhs |-> r]
TLet(x, e) == [kind |-> "let", name |-> <<x>>, expr |-> e]
TRec(x, e) == [kind |-> "letrec", name |-> <<x>>, expr |-> e]
TExpr(e) == [kind |-> "expr", expr |-> e]
TBad(n) == [kind |-> "error", links |-> n]

\* The trees of Ts and their subtrees.
Children(e) ==
  {e[part] : part \in DOMAIN e \cap {"callee", "cond", "then", "else", "expr", "body", "lhs", "rhs"}}
    \cup (IF e.kind = "call" THEN {e.param} ELSE {})
MaxDepth == 8
Subtrees(Ts) ==
  LET Layer[d \in 0..MaxDepth] ==
        IF d = 0 THEN Ts ELSE UNION {Children(e) : e \in Layer[d - 1]}
  IN UNION {Layer[d] : d \in 0..MaxDepth}
Roots(P) == UNION {{p[i].expr : i \in {j \in 1..Len(p) : p[j].kind # "error"}} : p \in P}

\* Programs after test.mml, with small numbers: recursion with accumulators,
\* mutual shadowing, pairs and lists as closures, errors met by name.
Eq(a, b) == B("eq", a, b)
Sub(a, b) == B("sub", a, b)
Mul(a, b) == B("mul", a, b)
Fact == F("x", I(Eq(V("x"), N(0)), N(1), Mul(V("x"), C(V("f"), Sub(V("x"), N(1))))))
\* let f = fun y -> let rec g = fun acc -> fun x -> ... in g 1 y
FactAcc ==
  F("y", R("g", F("y", F("x", I(Eq(V("x"), N(0)), V("y"),
                                C(C(V("g"), Mul(V("x"), V("y"))), Sub(V("x"), N(1)))))),
           C(C(V("g"), N(1)), V("y"))))
Pair == F("x", F("y", F("g", C(C(V("g"), V("x")), V("y")))))
Examples == {
  <<TRec("f", Fact), TExpr(C(V("f"), N(3))), TExpr(C(V("f"), N(4)))>>,
  <<TLet("f", FactAcc), TExpr(C(V("f"), N(3))), TLet("g", N(2)), TExpr(C(V("f"), V("g")))>>,
  <<TLet("f", Pair), TLet("x", C(C(V("f"), N(1)), S(1))),
    TExpr(C(V("x"), F("x", F("y", V("y"))))), TExpr(C(V("x"), F("x", F("f", V("x"))))), TExpr(V("x"))>>,
  \* a failed toplevel binding is met again by name, and may be shadowed
  <<TLet("x", C(N(1), N(2))), TLet("f", F("y", V("x"))), TExpr(C(V("f"), U)),
    TLet("x", N(3)), TExpr(V("x")), TExpr(C(V("f"), U)), TExpr(L("y", V("x"), V("y")))>>,
  \* the body of a function sees the bindings of its definition
  <<TLet("x", N(1)), TLet("f", F("y", B("add", V("x"), V("y")))), TLet("x", N(5)),
    TExpr(C(V("f"), V("x"))), TLet("g", F("x", C(V("f"), V("x")))), TExpr(C(V("g"), N(2)))>>,
  \* one tree, several closures: a let rec in a function that runs twice
  <<TLet("f", F("x", R("g", F("y", I(V("y"), V("x"), C(V("g"), T(TRUE)))), V("g")))),
    TLet("x", C(V("f"), N(1))), TLet("y", C(V("f"), N(2))),
    TExpr(C(V("x"), T(FALSE))), TExpr(C(V("y"), T(FALSE)))>>,
  \* a recursive function whose parameter hides its own name
  <<TRec("f", F("f", V("f"))), TExpr(C(V("f"), N(1))), TExpr(V("f"))>>,
  \* the operands are evaluated before their kinds are looked at
  <<TExpr(C(N(1), V("x"))), TExpr(B("add", N(1), V("x"))), TExpr(B("add", V("y"), V("x"))),
    TExpr(I(N(1), V("x"), V("y"))), TExpr(Neg(S(1))), TExpr(R("f", N(1), V("f")))>>,
  \* arithmetic at its edges
  <<TLet("x", B("div", N(0), N(0))), TExpr(Eq(V("x"), V("x"))), TExpr(Eq(Neg(V("x")), N(0))),
    TExpr(Eq(B("div", N(1), N(0)), B("div", N(2), N(0)))), TExpr(Mul(N(20), N(20)))>>
}
=============================================================================
