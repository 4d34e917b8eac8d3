------------------------------- MODULE Grammar -------------------------------
(***************************************************************************)
(* Which texts a syntax tree has, whatever parser reads them: the promise  *)
(* src/src/ast.c keeps.  A text is a sequence of tokens.  Operators group  *)
(* from the left, == does not group at all, an expression that ends in an  *)
(* expression goes on as far as it can, parentheses make an atom of any,   *)
(* and a let may name the parameters of the function it binds.             *)
(***************************************************************************)
LOCAL INSTANCE Naturals
LOCAL INSTANCE Sequences

CONSTANT F64(_, _)

\* How tightly a tree holds its parts together: atoms, calls, negation,
\* products, sums, equality, and what ends in an expression.
Level ==
  [num |-> 0, str |-> 0, bool |-> 0, unit |-> 0, var |-> 0, call |-> 1, neg |-> 2,
   mul |-> 3, div |-> 3, add |-> 4, sub |-> 4, eq |-> 5,
   if |-> 6, fun |-> 6, let |-> 6, letrec |-> 6]
Loosest == 6

Infix == [mul |-> "T_STAR", div |-> "T_SLASH", add |-> "T_PLUS", sub |-> "T_MINUS", eq |-> "T_EQEQ"]

\* The parts of a text before, between and after places in it.
To(s, i) == SubSeq(s, 1, i - 1)
Between(s, i, j) == SubSeq(s, i + 1, j - 1)
From(s, i) == SubSeq(s, i + 1, Len(s))
Places(s, kind) == {i \in 1..Len(s) : s[i].kind = kind}

IsSymbol(s, kind) == Len(s) = 1 /\ s[1].kind = kind
IsName(tok, name) == tok.kind = "T_IDENT" /\ tok.ident = name

RECURSIVE IsWritten(_, _, _), IsBare(_, _), IsBound(_, _)

\* s is a text of e where something as tight as level is wanted.
IsWritten(level, e, s) ==
  \/ Level[e.kind] <= level /\ IsBare(e, s)
  \/ /\ Len(s) > 2 /\ s[1].kind = "T_LPAR" /\ s[Len(s)].kind = "T_RPAR"
     /\ IsWritten(Loosest, e, Between(s, 1, Len(s)))

\* "f x = v" and "f = fun x -> v": s is what follows the name that e is bound to.
IsBound(e, s) ==
  \/ Len(s) > 1 /\ s[1].kind = "T_EQ" /\ IsWritten(Loosest, e, Tail(s))
  \/ e.kind = "fun" /\ Len(s) > 2 /\ IsName(s[1], e.param) /\ IsBound(e.body, Tail(s))

\* A binding of e to name, recursive or not, without its let.
IsBinding(kind, name, e, s) ==
  LET head == IF kind = "letrec" THEN <<"T_REC", "T_IDENT">> ELSE <<"T_IDENT">>
      n == Len(head) IN
  /\ Len(s) > n
  /\ \A i \in 1..n : s[i].kind = head[i]
  /\ IsName(s[n], name) /\ IsBound(e, From(s, n))

IsBare(e, s) ==
  CASE e.kind = "num"  -> IsSymbol(s, "T_NUM") /\ F64(s[1].digits, s[1].scale) = e.num
    [] e.kind = "str"  -> IsSymbol(s, "T_STR") /\ s[1].str = e.str
    [] e.kind = "bool" -> IsSymbol(s, IF e.boolean THEN "T_TRUE" ELSE "T_FALSE")
    [] e.kind = "unit" -> Len(s) = 2 /\ s[1].kind = "T_LPAR" /\ s[2].kind = "T_RPAR"
    [] e.kind = "var"  -> Len(s) = 1 /\ IsName(s[1], e.name)
    [] e.kind = "call" ->
         \E i \in 2..Len(s) : IsWritten(1, e.callee, To(s, i)) /\ IsWritten(0, e.param, From(s, i - 1))
    [] e.kind = "neg"  -> Len(s) > 1 /\ s[1].kind = "T_MINUS" /\ IsWritten(1, e.rhs, Tail(s))
    [] e.kind \in DOMAIN Infix ->
         LET left == IF e.kind = "eq" THEN 4 ELSE Level[e.kind] IN
         \E i \in Places(s, Infix[e.kind]) :
           IsWritten(left, e.lhs, To(s, i)) /\ IsWritten(Level[e.kind] - 1, e.rhs, From(s, i))
    [] e.kind = "if"   ->
         /\ s # << >> /\ s[1].kind = "T_IF"
         /\ \E i \in Places(s, "T_THEN"), j \in Places(s, "T_ELSE") :
              /\ i < j
              /\ IsWritten(Loosest, e.cond, Between(s, 1, i))
              /\ IsWritten(Loosest, e.then, Between(s, i, j))
              /\ IsWritten(Loosest, e.else, From(s, j))
    [] e.kind = "fun"  ->
         /\ Len(s) > 3 /\ s[1].kind = "T_FUN" /\ IsName(s[2], e.param) /\ s[3].kind = "T_ARROW"
         /\ IsWritten(Loosest, e.body, From(s, 3))
    [] e.kind \in {"let", "letrec"} ->
         /\ s # << >> /\ s[1].kind = "T_LET"
         /\ \E i \in Places(s, "T_IN") :
              IsBinding(e.kind, e.name, e.expr, Between(s, 1, i)) /\ IsWritten(Loosest, e.body, From(s, i))

\* A toplevel, and the ;; that may follow it.
IsToplevel(tl, s) ==
  LET closed == s # << >> /\ s[Len(s)].kind = "T_SEMISEMI"
      text == IF closed THEN To(s, Len(s)) ELSE s IN
  IF tl.kind = "expr" THEN IsWritten(Loosest, tl.expr, text)
  ELSE text # << >> /\ text[1].kind = "T_LET" /\ IsBinding(tl.kind, tl.name, tl.expr, Tail(text))
=============================================================================
