------------------------------ MODULE MCParser ------------------------------
(* Token sequences for the parser: programs as they may be written, the same *)
(* with one slip, and every short sequence over the tokens that matter.      *)
EXTENDS Toplevels, Writing, FiniteSets

\* Two operators, one inside the other, on either side: precedence and grouping.
Leaves == {N(1), V("x")}
Ops == {"add", "sub", "mul", "div", "eq"}
Nested ==
       {B(p, B(q, N(1), V("x")), V("f")) : p, q \in Ops}
  \cup {B(p, V("f"), B(q, N(1), V("x"))) : p, q \in Ops}
  \cup {B(p, Neg(V("x")), C(V("f"), Neg(N(2)))) : p \in Ops}
  \cup {Neg(B(p, N(1), V("x"))) : p \in Ops}
  \cup {C(C(V("f"), B("add", N(1), U)), C(V("g"), S(1))), Neg(Neg(N(1))), Neg(C(V("f"), V("x")))}
\* What ends in an expression, inside each other and among operators.
Open(a, b) ==
  {I(a, b, a), F("x", b), L("x", a, b), R("f", F("x", a), b), L("g", F("x", F("y", a)), b)}
Tails ==
  LET inner == Open(T(TRUE), V("y")) IN
  UNION {Open(i, i) : i \in inner}
    \cup {B(p, i, N(1)) : p \in {"add", "mul", "eq"}, i \in inner}
    \cup {B("add", N(1), i) : i \in inner} \cup {C(V("f"), i) : i \in inner} \cup {Neg(i) : i \in inner}
Small == {<<TExpr(e)>> : e \in Nested \cup Tails} \cup {<<TLet("x", e)>> : e \in Tails}
  \cup {<<TRec("f", F("x", F("y", Neg(V("x"))))), TExpr(e)>> : e \in {U, L("x", U, V("x"))}}
MCPrograms == Small \cup Examples

Written == {[tokens |-> WriteProgram(p, s), program |-> p] : p \in MCPrograms, s \in Style}

\* The program that a sequence of tokens writes.
Sentences == {w.tokens : w \in Written}
Meant == [t \in Sentences |-> (CHOOSE w \in Written : w.tokens = t).program]

\* One token left out, or another in its place.
Plain == {WriteProgram(p, [parens |-> FALSE, sugar |-> TRUE, ends |-> FALSE]) : p \in MCPrograms}
Wrong == {"T_LPAR", "T_RPAR", "T_STAR", "T_MINUS", "T_EQEQ", "T_EQ", "T_LET", "T_IN", "T_ELSE", "T_ARROW"}
Slips(t) ==
  {RemoveAt(t, i) : i \in DOMAIN t} \cup {ReplaceAt(t, i, [kind |-> k]) : i \in DOMAIN t, k \in Wrong}

\* Every sequence of up to MaxLen tokens.
MaxLen == 4
Alphabet ==
  {Ident(<<"x">>)[1]}
    \cup {[kind |-> k] : k \in {"T_LPAR", "T_RPAR", "T_STAR", "T_MINUS", "T_EQEQ", "T_EQ", "T_LET",
                              "T_IN", "T_FUN", "T_ARROW", "T_SEMISEMI"}}
Short == UNION {[1..n -> Alphabet] : n \in 0..MaxLen}
MCShort == Short

AllInputs == Sentences \cup UNION {Slips(t) : t \in Plain} \cup Short
MCInputs == AllInputs
-----------------------------------------------------------------------------
\* Every way to write a program is parsed as that program (toplevel, expr and
\* the levels below): precedence, grouping, and how far each let, fun, if goes.
SentencesParse == phase = "done" /\ tokens \in Sentences => toplevels = Meant[tokens]

\* A toplevel that is delivered without an error in it is written by exactly
\* the tokens that were taken for it: nothing wrong is accepted, nothing skipped.
DeliveredIsWritten ==
  [][Turn /\ ErrorsIn(Latest', "toplevel") = {} => IsToplevel(Latest', SubSeq(tokens, pos + 1, pos'))]_vars

Shown == INSTANCE Printer

\* What fprint_toplevel prints of a toplevel reads back as that toplevel: the
\* parentheses it writes are the ones that the grouping of operators, calls and
\* the reach of let, fun and if need.
PrintedReadsBack ==
  phase = "done" =>
    \A i \in DOMAIN toplevels : ErrorsIn(toplevels[i], "toplevel") = {} =>
      LET text == Shown!fprint_toplevel(toplevels[i]) IN
      toplevel(text, 0) = Parsed(toplevels[i], Len(text))
=============================================================================
