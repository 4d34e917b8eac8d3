------------------------------- MODULE Parser -------------------------------
(***************************************************************************)
(* The parser of src/src/ast.c, as operators on the tokens t of a file and *)
(* a position in them, parser_t's pos: how many have been taken.  Each     *)
(* answers with a tree and the position after it.                          *)
(*                                                                         *)
(* An E_ERROR is a tree like any other, with the length of its error chain *)
(* for the chain: ERROR makes one of one link, ASSERT puts a link on it.   *)
(*                                                                         *)
(* Parser functions that end in other parser functions are RECURSIVE here: *)
(* this module is for the runs.                                            *)
(***************************************************************************)
LOCAL INSTANCE Naturals
LOCAL INSTANCE Sequences
LOCAL INSTANCE SequencesExt
LOCAL INSTANCE TLC

CONSTANT F64(_, _)    \* the number of the given digits and scale (lex.c)

PEEK(t, pos) == IF pos < Len(t) THEN t[pos + 1].kind ELSE "T_INCOMPLETE"
\* Seeded fault: the position moves at the end of the file too.
next_past_end(t, pos) == pos + 1
NEXT(t, pos) == IF pos < Len(t) THEN pos + 1 ELSE pos

Parsed(tree, pos) == [tree |-> tree, pos |-> pos]
ERROR(pos) == Parsed([kind |-> "error", links |-> 1], pos)
NOMATCH(pos) == Parsed([kind |-> "nomatch"], pos)

\* What a call has returned, in a variable.  (TLC works r out once.)
With(r, Use(_)) == CHOOSE v \in {Use(x) : x \in {r}} : TRUE

\* ASSERT: an error is returned with one more message, anything else used.
Chained(r) == [r EXCEPT !.tree.links = @ + 1]
ASSERT(r, Use(_)) == With(r, LAMBDA x : IF x.tree.kind = "error" THEN Chained(x) ELSE Use(x))

\* NEXT() must be a token of this kind; it has been taken if it is not.
Expect(kind, t, pos, Then(_)) ==
  IF PEEK(t, pos) = kind THEN Then(pos + 1) ELSE ERROR(NEXT(t, pos))

Binop(kind, lhs, rhs) == Parsed([kind |-> kind, lhs |-> lhs.tree, rhs |-> rhs.tree], rhs.pos)
Products == ("T_STAR" :> "mul") @@ ("T_SLASH" :> "div")
Sums == ("T_PLUS" :> "add") @@ ("T_MINUS" :> "sub")
-----------------------------------------------------------------------------
RECURSIVE expr(_, _)

atom(t, pos) ==
  LET kind == PEEK(t, pos)
      tok  == t[pos + 1] IN
  CASE kind = "T_NUM"   -> Parsed([kind |-> "num", num |-> F64(tok.digits, tok.scale)], pos + 1)
    [] kind = "T_STR"   -> Parsed([kind |-> "str", str |-> tok.str], pos + 1)
    [] kind = "T_IDENT" -> Parsed([kind |-> "var", name |-> tok.ident], pos + 1)
    [] kind \in {"T_TRUE", "T_FALSE"} ->
         Parsed([kind |-> "bool", boolean |-> kind = "T_TRUE"], pos + 1)
    [] kind = "T_LPAR" /\ PEEK(t, pos + 1) = "T_RPAR" -> Parsed([kind |-> "unit"], pos + 2)
    [] kind = "T_LPAR" /\ PEEK(t, pos + 1) # "T_RPAR" ->
         ASSERT(expr(t, pos + 1), LAMBDA e :
           IF PEEK(t, e.pos) = "T_RPAR" THEN Parsed(e.tree, e.pos + 1) ELSE ERROR(e.pos))
    [] OTHER -> NOMATCH(pos)

\* The loop of funcall: as many params as there are.
RECURSIVE Params(_, _)
Params(t, callee) ==
  ASSERT(atom(t, callee.pos), LAMBDA param :
    IF param.tree.kind = "nomatch" THEN callee
    ELSE Params(t, Parsed([kind |-> "call", callee |-> callee.tree, param |-> param.tree], param.pos)))

\* Seeded fault: nothing at all is taken for unit.
funcall_of_nothing(t, pos) ==
  ASSERT(atom(t, pos), LAMBDA callee :
    IF callee.tree.kind = "nomatch" THEN Parsed([kind |-> "unit"], pos) ELSE Params(t, callee))

funcall(t, pos) ==
  ASSERT(atom(t, pos), LAMBDA callee :
    IF callee.tree.kind = "nomatch" THEN ERROR(pos) ELSE Params(t, callee))

unary(t, pos) ==
  IF PEEK(t, pos) # "T_MINUS" THEN funcall(t, pos)
  ELSE ASSERT(funcall(t, pos + 1), LAMBDA e : Parsed([kind |-> "neg", rhs |-> e.tree], e.pos))

\* The loops of product and addition.  Nothing looks whether lhs is an error.
RECURSIVE Factors(_, _)
Factors(t, lhs) ==
  LET sign == PEEK(t, lhs.pos) IN
  IF sign \notin DOMAIN Products THEN lhs
  ELSE ASSERT(unary(t, lhs.pos + 1), LAMBDA rhs : Factors(t, Binop(Products[sign], lhs, rhs)))
product(t, pos) == With(unary(t, pos), LAMBDA lhs : Factors(t, lhs))

RECURSIVE Terms(_, _)
Terms(t, lhs) ==
  LET sign == PEEK(t, lhs.pos) IN
  IF sign \notin DOMAIN Sums THEN lhs
  ELSE ASSERT(product(t, lhs.pos + 1), LAMBDA rhs : Terms(t, Binop(Sums[sign], lhs, rhs)))

\* Seeded fault: the operators of a sum are grouped from the right.
RECURSIVE addition_from_the_right(_, _)
addition_from_the_right(t, pos) ==
  LET lhs == product(t, pos) sign == PEEK(t, lhs.pos) IN
  IF sign \notin DOMAIN Sums THEN lhs
  ELSE ASSERT(addition_from_the_right(t, lhs.pos + 1), LAMBDA rhs : Binop(Sums[sign], lhs, rhs))

addition(t, pos) == With(product(t, pos), LAMBDA lhs : Terms(t, lhs))

\* Seeded fault: the right operand is not looked at either.
equality_unasserted(t, pos) ==
  With(addition(t, pos), LAMBDA lhs :
    IF PEEK(t, lhs.pos) # "T_EQEQ" THEN lhs ELSE Binop("eq", lhs, addition(t, lhs.pos + 1)))

\* One == at most: the operands are sums.
equality(t, pos) ==
  With(addition(t, pos), LAMBDA lhs :
    IF PEEK(t, lhs.pos) # "T_EQEQ" THEN lhs
    ELSE ASSERT(addition(t, lhs.pos + 1), LAMBDA rhs : Binop("eq", lhs, rhs)))
-----------------------------------------------------------------------------
\* branch, fun and binding begin after the token that expr has chosen them by.

branch(t, pos) ==
  ASSERT(expr(t, pos), LAMBDA c : Expect("T_THEN", t, c.pos, LAMBDA then :
  ASSERT(expr(t, then), LAMBDA b : Expect("T_ELSE", t, b.pos, LAMBDA else :
  ASSERT(expr(t, else), LAMBDA e :
    Parsed([kind |-> "if", cond |-> c.tree, then |-> b.tree, else |-> e.tree], e.pos))))))

fun(t, pos) ==
  Expect("T_IDENT", t, pos, LAMBDA arrow : Expect("T_ARROW", t, arrow, LAMBDA body :
  ASSERT(expr(t, body), LAMBDA b :
    Parsed([kind |-> "fun", param |-> t[pos + 1].ident, body |-> b.tree], b.pos))))

\* The position after the parameters that begin at pos.
ParamsEnd(t, pos) ==
  CHOOSE n \in pos..Len(t) :
    PEEK(t, n) # "T_IDENT" /\ \A i \in pos..(n - 1) : PEEK(t, i) = "T_IDENT"

Let(rec) == IF rec THEN "letrec" ELSE "let"

\* Seeded fault: the parameters come out in the order of the loop.
curry_reversed(params, value) ==
  FoldLeft(LAMBDA body, p : [kind |-> "fun", param |-> p.ident, body |-> body], value, params)

\* "let f x y = value" is let f = fun x -> fun y -> value.
curry(params, value) ==
  FoldRight(LAMBDA p, body : [kind |-> "fun", param |-> p.ident, body |-> body], params, value)

\* What binding and toplevel have in common: rec, name, params, = and value.
Bound(t, pos, Then(_, _, _)) ==
  LET rec  == PEEK(t, pos) = "T_REC"
      name == IF rec THEN pos + 1 ELSE pos IN
  Expect("T_IDENT", t, name, LAMBDA first :
    LET end == ParamsEnd(t, first) IN
    Then(rec, t[name + 1].ident, [params |-> SubSeq(t, first + 1, end), pos |-> end]))

LetIn(rec, name, value, body) ==
  Parsed([kind |-> Let(rec), name |-> name, expr |-> value, body |-> body.tree], body.pos)

binding(t, pos) ==
  Bound(t, pos, LAMBDA rec, name, head : Expect("T_EQ", t, head.pos, LAMBDA val :
  ASSERT(expr(t, val), LAMBDA value : Expect("T_IN", t, value.pos, LAMBDA in :
  ASSERT(expr(t, in), LAMBDA body :
    LetIn(rec, name, curry(head.params, value.tree), body))))))

expr(t, pos) ==
  CASE PEEK(t, pos) = "T_IF"  -> branch(t, pos + 1)
    [] PEEK(t, pos) = "T_FUN" -> fun(t, pos + 1)
    [] PEEK(t, pos) = "T_LET" -> binding(t, pos + 1)
    [] OTHER                  -> equality(t, pos)
-----------------------------------------------------------------------------
\* A ;; may follow a toplevel.
SEMISEMI(t, r) == IF PEEK(t, r.pos) = "T_SEMISEMI" THEN [r EXCEPT !.pos = @ + 1] ELSE r

TlExpr(t, e) == SEMISEMI(t, Parsed([kind |-> "expr", expr |-> e.tree], e.pos))

\* toplevel: here the = is looked at before it is taken, and a let without in
\* is a binding of the program.
toplevel(t, pos) ==
  IF PEEK(t, pos) # "T_LET" THEN ASSERT(expr(t, pos), LAMBDA e : TlExpr(t, e))
  ELSE Bound(t, pos + 1, LAMBDA rec, name, head :
    IF PEEK(t, head.pos) # "T_EQ" THEN ERROR(head.pos)
    ELSE ASSERT(expr(t, head.pos + 1), LAMBDA value :
      LET f == curry(head.params, value.tree) IN
      IF PEEK(t, value.pos) # "T_IN"
        THEN SEMISEMI(t, Parsed([kind |-> Let(rec), name |-> name, expr |-> f], value.pos))
        ELSE ASSERT(expr(t, value.pos + 1), LAMBDA body : TlExpr(t, LetIn(rec, name, f, body)))))
=============================================================================
