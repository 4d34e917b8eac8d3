------------------------------- MODULE Printer -------------------------------
(***************************************************************************)
(* fprint_expr and fprint_toplevel of src/src/ast.c: trees as text, here   *)
(* as the tokens of that text.  Spaces and line breaks stand wherever two  *)
(* tokens might touch.  <ERROR (...)>, which stands for a tree that did    *)
(* not parse, begins with a character that begins no token.                *)
(***************************************************************************)
LOCAL INSTANCE Sequences

CONSTANT Numeral(_)    \* the tokens of what %.16g prints of a number

Symbol(kind) == <<[kind |-> kind]>>
Word(ident) == <<[kind |-> "T_IDENT", ident |-> ident]>>
Parens(text) == Symbol("T_LPAR") \o text \o Symbol("T_RPAR")

Sign == [add |-> "T_PLUS", sub |-> "T_MINUS", mul |-> "T_STAR", div |-> "T_SLASH", eq |-> "T_EQEQ"]

\* "let [rec] name =" and the value.
Header(let, value) ==
  Symbol("T_LET") \o (IF let.kind = "letrec" THEN Symbol("T_REC") ELSE << >>)
    \o Word(let.name) \o Symbol("T_EQ") \o value

\* Seeded fault: an operation on the right is printed without parentheses.
RECURSIVE fprint_expr(_)
Infix_bare_right(e) == Parens(fprint_expr(e.lhs)) \o Symbol(Sign[e.kind]) \o fprint_expr(e.rhs)

Infix(e) == Parens(fprint_expr(e.lhs)) \o Symbol(Sign[e.kind]) \o Parens(fprint_expr(e.rhs))

\* The operands of operators and calls are always put in parentheses, the
\* parts of let, fun and if never.
fprint_expr(e) ==
  CASE e.kind = "error" -> Symbol("T_ERROR")
    [] e.kind = "num"   -> Numeral(e.num)
    [] e.kind = "str"   -> <<[kind |-> "T_STR", str |-> e.str]>>
    [] e.kind = "bool"  -> Symbol(IF e.boolean THEN "T_TRUE" ELSE "T_FALSE")
    [] e.kind = "unit"  -> Parens(<< >>)
    [] e.kind = "var"   -> Word(e.name)
    [] e.kind = "call"  -> Parens(fprint_expr(e.callee)) \o Parens(fprint_expr(e.param))
    [] e.kind \in {"let", "letrec"} ->
         Header(e, fprint_expr(e.expr)) \o Symbol("T_IN") \o fprint_expr(e.body)
    [] e.kind = "fun"   ->
         Symbol("T_FUN") \o Word(e.param) \o Symbol("T_ARROW") \o fprint_expr(e.body)
    [] e.kind = "if"    ->
         Symbol("T_IF") \o Parens(fprint_expr(e.cond)) \o Symbol("T_THEN") \o fprint_expr(e.then)
           \o Symbol("T_ELSE") \o fprint_expr(e.else)
    [] e.kind = "neg"   -> Symbol("T_MINUS") \o Parens(fprint_expr(e.rhs))
    [] e.kind \in DOMAIN Sign -> Infix(e)

fprint_toplevel(tl) ==
  CASE tl.kind = "error" -> Symbol("T_ERROR")
    [] tl.kind = "expr"  -> fprint_expr(tl.expr)
    [] OTHER             -> Header(tl, fprint_expr(tl.expr))
=============================================================================
