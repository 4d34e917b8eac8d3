------------------------------- MODULE Writing -------------------------------
(* Texts of syntax trees, as sequences of tokens, for the runs.  A style says *)
(* whether every part is put in parentheses, whether a bound function names   *)
(* its parameters before the =, and whether every toplevel has its ;;.        *)
EXTENDS Samples, SequencesExt, TLC

Style == [parens : BOOLEAN, sugar : BOOLEAN, ends : BOOLEAN]

Digit10 == [c \in {ToString(d) : d \in 0..9} |-> CHOOSE d \in 0..9 : ToString(d) = c]
MCF64(digits, scale) == Round(FoldLeft(LAMBDA n, c : 10 * n + Digit10[c], 0, digits) \div 10^scale)

INSTANCE Grammar WITH F64 <- MCF64

Tok(kind) == <<[kind |-> kind]>>
Ident(name) == <<[kind |-> "T_IDENT", ident |-> name]>>
Str(s) == <<[kind |-> "T_STR", str |-> s]>>
Numeral(n) ==
  LET digits == IF n < 10 THEN <<n>> ELSE <<n \div 10, n % 10>> IN
  <<[kind |-> "T_NUM", digits |-> [i \in DOMAIN digits |-> ToString(digits[i])], scale |-> 0]>>

RECURSIVE Bare(_, _), Write(_, _, _), WriteBound(_, _)

Write(e, level, style) ==
  IF Level[e.kind] > level \/ (style.parens /\ Level[e.kind] > 0)
  THEN Tok("T_LPAR") \o Bare(e, style) \o Tok("T_RPAR")
  ELSE Bare(e, style)

WriteBound(e, style) ==
  IF style.sugar /\ e.kind = "fun" THEN Ident(e.param) \o WriteBound(e.body, style)
  ELSE Tok("T_EQ") \o Write(e, Loosest, style)

WriteLet(let, style) ==
  Tok("T_LET") \o (IF let.kind = "letrec" THEN Tok("T_REC") ELSE << >>)
    \o Ident(let.name) \o WriteBound(let.expr, style)

Bare(e, style) ==
  LET Part(x, level) == Write(x, level, style) IN
  CASE e.kind = "num"  -> Numeral(e.num)
    [] e.kind = "str"  -> Str(e.str)
    [] e.kind = "bool" -> Tok(IF e.boolean THEN "T_TRUE" ELSE "T_FALSE")
    [] e.kind = "unit" -> Tok("T_LPAR") \o Tok("T_RPAR")
    [] e.kind = "var"  -> Ident(e.name)
    [] e.kind = "call" -> Part(e.callee, 1) \o Part(e.param, 0)
    [] e.kind = "neg"  -> Tok("T_MINUS") \o Part(e.rhs, 1)
    [] e.kind = "eq"   -> Part(e.lhs, 4) \o Tok("T_EQEQ") \o Part(e.rhs, 4)
    [] e.kind \in DOMAIN Infix \ {"eq"} ->
         Part(e.lhs, Level[e.kind]) \o Tok(Infix[e.kind]) \o Part(e.rhs, Level[e.kind] - 1)
    [] e.kind = "if"   ->
         Tok("T_IF") \o Part(e.cond, Loosest) \o Tok("T_THEN") \o Part(e.then, Loosest)
           \o Tok("T_ELSE") \o Part(e.else, Loosest)
    [] e.kind = "fun"  -> Tok("T_FUN") \o Ident(e.param) \o Tok("T_ARROW") \o Part(e.body, Loosest)
    [] e.kind \in {"let", "letrec"} -> WriteLet(e, style) \o Tok("T_IN") \o Part(e.body, Loosest)

\* A program without errors.  Where the next toplevel begins with a let, the
\* ;; may be left out.
WriteProgram(p, style) ==
  FoldRight(LAMBDA tl, rest :
    (IF tl.kind = "expr" THEN Write(tl.expr, Loosest, style) ELSE WriteLet(tl, style))
      \o (IF style.ends \/ (rest # << >> /\ rest[1].kind # "T_LET") THEN Tok("T_SEMISEMI") ELSE << >>)
      \o rest,
    p, << >>)
=============================================================================
