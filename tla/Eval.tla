-------------------------------- MODULE Eval --------------------------------
(***************************************************************************)
(* The evaluator of miniml (src/src/eval.c) and the loop of src/src/main.c *)
(* that feeds it one toplevel after the other.                             *)
(*                                                                         *)
(* eval_expr is a recursive C function with a loop: the operands of an     *)
(* expression are evaluated by recursive calls, the tail position by       *)
(* "goto __start".  The model is the machine that function is: mode, env,  *)
(* expr and val are the innermost activation, stack holds the activations  *)
(* suspended in a recursive call.                                          *)
(*                                                                         *)
(* An env_t is a list of cells nobody writes after push_env, so it is a    *)
(* value here: the sequence of its bindings, the newest one last.  A       *)
(* vfun_t is written after its creation (let rec), so closures live in the *)
(* heap funs and values hold their address.                                *)
(***************************************************************************)
EXTENDS Naturals, Sequences

CONSTANTS
  Name,          \* the identifiers of the programs
  Num,           \* the numbers (f64)
  Text,          \* the contents of strings
  NumNeg(_), NumAdd(_, _), NumSub(_, _), NumMul(_, _), NumDiv(_, _),
  NumEq(_, _),   \* the floating point ==, not an identity: NaN differs from NaN
  Cat(_, _),     \* concatenation of string contents
  Expr,          \* the syntax trees the programs are made of
  Programs       \* the sequences of toplevels the parser may deliver

Binary == {"add", "sub", "mul", "div", "eq"}
Compound == Binary \cup {"neg", "if", "call", "let", "letrec"}

\* What ast.h declares of a syntax tree: the fields of each kind of node.
WellFormed(e) ==
  /\ e.kind \in Compound \cup {"num", "str", "bool", "unit", "var", "fun", "error"}
  /\ e.kind = "num"  => e.num \in Num
  /\ e.kind = "str"  => e.str \in Text
  /\ e.kind = "bool" => e.boolean \in BOOLEAN
  /\ e.kind = "var"  => e.name \in Name
  /\ e.kind = "call" => e.callee \in Expr /\ e.param \in Expr
  /\ e.kind \in {"let", "letrec"} => e.name \in Name /\ e.expr \in Expr /\ e.body \in Expr
  /\ e.kind = "fun"  => e.param \in Name /\ e.body \in Expr
  /\ e.kind = "if"   => e.cond \in Expr /\ e.then \in Expr /\ e.else \in Expr
  /\ e.kind = "neg"  => e.rhs \in Expr
  /\ e.kind \in Binary => e.lhs \in Expr /\ e.rhs \in Expr

\* Before the first toplevel is evaluated there is no activation of eval_expr.
NoExpr == [kind |-> "none"]

Toplevel ==
       [kind : {"expr"}, expr : Expr]
  \cup [kind : {"let", "letrec"}, name : Name, expr : Expr]
  \cup [kind : {"error"}, links : Nat]     \* links: how long its error chain is

ASSUME NumbersClosed ==
  \A a, b \in Num :
    /\ NumNeg(a) \in Num
    /\ {NumAdd(a, b), NumSub(a, b), NumMul(a, b), NumDiv(a, b)} \subseteq Num
    /\ NumEq(a, b) \in BOOLEAN
ASSUME TextClosed == \A s, t \in Text : Cat(s, t) \in Text
ASSUME ExprWellFormed == \A e \in Expr : WellFormed(e)
\* The loop of run() ends at the first toplevel that does not parse.
ASSUME ProgramsWellFormed ==
  \A p \in Programs :
    /\ p \in Seq(Toplevel)
    /\ \A i \in 1..Len(p) : p[i].kind = "error" => i = Len(p)

VARIABLES
  prog,    \* the toplevels of the program
  pos,     \* how many of them have been walked
  genv,    \* env of run(): the toplevel bindings
  mode,    \* "top": between toplevels; "eval": at __start; "return": val is returned
  env,     \* eval_expr: env of the innermost activation
  expr,    \* eval_expr: expr of the innermost activation
  val,     \* the value being returned
  stack,   \* the suspended activations, the innermost last
  funs,    \* the closures allocated so far; an address is an index
  out      \* what has been printed

vars == <<prog, pos, genv, mode, env, expr, val, stack, funs, out>>
-----------------------------------------------------------------------------
(* Values, environments and frames *)

Unit == [kind |-> "unit"]
NumValue(n) == [kind |-> "num", num |-> n]
StrValue(s) == [kind |-> "str", str |-> s]
BoolValue(b) == [kind |-> "bool", boolean |-> b]
FunValue(a) == [kind |-> "fun", fun |-> a]
Error(msg) == [kind |-> "error", error |-> msg]
Message == {
  "unknown binding", "trying to call non function", "condition is not a boolean",
  "let rec binding can only be used with a function", "invalid expression",
  "negation operand is not a number", "incompatible types",
  "operator does not take this type"}

\* A value_t in a heap of n closures.
Value(n) ==
       {Unit}
  \cup [kind : {"num"}, num : Num]
  \cup [kind : {"str"}, str : Text]
  \cup [kind : {"bool"}, boolean : BOOLEAN]
  \cup [kind : {"fun"}, fun : 1..n]
  \cup [kind : {"error"}, error : Message]

Env(n) == Seq([name : Name, value : Value(n)])
Closure(n) == [param : Name, expr : Expr, env : Env(n)]
\* got: the operands the activation has already obtained
Frame(n) == [env : Env(n), expr : Expr, got : Seq(Value(n))]

\* push_env
Push(e, name, v) == Append(e, [name |-> name, value |-> v])

\* find_env: i is the newest binding of name in e
Binds(e, name, i) ==
  /\ i \in 1..Len(e)
  /\ e[i].name = name
  /\ \A j \in (i + 1)..Len(e) : e[j].name # name
-----------------------------------------------------------------------------
(* Control: how one activation goes on, suspends itself and is resumed *)

Return(v) == mode' = "return" /\ val' = v

\* "goto __start" in an activation
Goto(e, x) == mode' = "eval" /\ env' = e /\ expr' = x

Top == stack[Len(stack)]
Pop == SubSeq(stack, 1, Len(stack) - 1)

\* A recursive call on operand x, made by an activation at (e, caller) that
\* holds the operands in got.
CallOn(below, e, caller, got, x) ==
  /\ stack' = Append(below, [env |-> e, expr |-> caller, got |-> got])
  /\ Goto(e, x)

\* The operand a compound expression evaluates first, and the one a call or a
\* binary operator evaluates second.
FirstOperand(e) ==
  CASE e.kind = "call" -> e.callee
    [] e.kind \in {"let", "letrec"} -> e.expr
    [] e.kind = "if" -> e.cond
    [] e.kind = "neg" -> e.rhs
    [] e.kind \in Binary -> e.lhs
SecondOperand(e) == IF e.kind = "call" THEN e.param ELSE e.rhs

\* What an operator makes of its operands.  Booleans are the two-element
\* field: + and - are exclusive or, * is and, and negation is the identity.
Negate(v) ==
  CASE v.kind = "num" -> NumValue(NumNeg(v.num))
    [] v.kind = "bool" -> v
    [] OTHER -> Error("negation operand is not a number")

NumOp(op, a, b) ==
  CASE op = "add" -> NumValue(NumAdd(a, b))
    [] op = "sub" -> NumValue(NumSub(a, b))
    [] op = "mul" -> NumValue(NumMul(a, b))
    [] op = "div" -> NumValue(NumDiv(a, b))
    [] op = "eq"  -> BoolValue(NumEq(a, b))

BoolOp(op, a, b) ==
  CASE op \in {"add", "sub"} -> BoolValue(a # b)
    [] op = "mul" -> BoolValue(a /\ b)
    [] op = "eq"  -> BoolValue(a = b)
    [] OTHER -> Error("operator does not take this type")

StrOp(op, s, t) ==
  CASE op = "add" -> StrValue(Cat(s, t))
    [] op = "eq"  -> BoolValue(s = t)
    [] OTHER -> Error("operator does not take this type")

BinaryOp(op, l, r) ==
  IF l.kind # r.kind THEN Error("incompatible types")
  ELSE CASE l.kind = "num"  -> NumOp(op, l.num, r.num)
         [] l.kind = "bool" -> BoolOp(op, l.boolean, r.boolean)
         [] l.kind = "str"  -> StrOp(op, l.str, r.str)
         [] l.kind = "unit" /\ op = "eq" -> BoolValue(TRUE)
         [] OTHER -> Error("operator does not take this type")

\* let rec: the closure at a learns its own name, in place
Patch(a, name) == [funs EXCEPT ![a].env = Push(@, name, FunValue(a))]
-----------------------------------------------------------------------------
(* eval_expr at __start: one action per kind of expression *)

Literal ==
  /\ mode = "eval"
  /\ \/ expr.kind = "num"  /\ Return(NumValue(expr.num))
     \/ expr.kind = "str"  /\ Return(StrValue(expr.str))
     \/ expr.kind = "bool" /\ Return(BoolValue(expr.boolean))
     \/ expr.kind = "unit" /\ Return(Unit)
     \/ expr.kind = "error" /\ Return(Error("invalid expression"))
  /\ UNCHANGED <<prog, pos, genv, env, expr, stack, funs, out>>

Variable ==
  /\ mode = "eval" /\ expr.kind = "var"
  /\ \/ \E i \in 1..Len(env) : Binds(env, expr.name, i) /\ Return(env[i].value)
     \/ (\A i \in 1..Len(env) : env[i].name # expr.name) /\ Return(Error("unknown binding"))
  /\ UNCHANGED <<prog, pos, genv, env, expr, stack, funs, out>>

\* Seeded faults: the closure is returned and not kept; a closure like one that
\* is there is not made again.
FunctionNotAllocated ==
  /\ mode = "eval" /\ expr.kind = "fun"
  /\ Return(FunValue(Len(funs) + 1))
  /\ UNCHANGED <<prog, pos, genv, env, expr, stack, funs, out>>

FunctionReused ==
  /\ mode = "eval" /\ expr.kind = "fun"
  /\ LET new == [param |-> expr.param, expr |-> expr.body, env |-> env] IN
     \/ \E a \in 1..Len(funs) : funs[a] = new /\ Return(FunValue(a)) /\ UNCHANGED funs
     \/ /\ \A a \in 1..Len(funs) : funs[a] # new
        /\ funs' = Append(funs, new)
        /\ Return(FunValue(Len(funs) + 1))
  /\ UNCHANGED <<prog, pos, genv, env, expr, stack, out>>

Function ==
  /\ mode = "eval" /\ expr.kind = "fun"
  /\ funs' = Append(funs, [param |-> expr.param, expr |-> expr.body, env |-> env])
  /\ Return(FunValue(Len(funs) + 1))
  /\ UNCHANGED <<prog, pos, genv, env, expr, stack, out>>

Descend ==
  /\ mode = "eval" /\ expr.kind \in Compound
  /\ CallOn(stack, env, expr, << >>, FirstOperand(expr))
  /\ UNCHANGED <<prog, pos, genv, val, funs, out>>
-----------------------------------------------------------------------------
(* A recursive call of eval_expr has returned val to the activation Top *)

Resumed == mode = "return" /\ stack # << >>

\* Seeded fault: the activation does not end.
BubbleInPlace ==
  /\ Resumed /\ val.kind = "error"
  /\ UNCHANGED vars

\* BUBBLE: an error ends the activation that receives it
Bubble ==
  /\ Resumed /\ val.kind = "error"
  /\ stack' = Pop
  /\ UNCHANGED <<prog, pos, genv, mode, env, expr, val, funs, out>>

NextOperand ==
  /\ Resumed /\ val.kind # "error"
  /\ Top.expr.kind \in Binary \cup {"call"} /\ Top.got = << >>
  /\ CallOn(Pop, Top.env, Top.expr, <<val>>, SecondOperand(Top.expr))
  /\ UNCHANGED <<prog, pos, genv, val, funs, out>>

Operator ==
  /\ Resumed /\ val.kind # "error"
  /\ \/ Top.expr.kind = "neg" /\ Return(Negate(val))
     \/ /\ Top.expr.kind \in Binary /\ Top.got # << >>
        /\ Return(BinaryOp(Top.expr.kind, Top.got[1], val))
  /\ stack' = Pop
  /\ UNCHANGED <<prog, pos, genv, env, expr, funs, out>>

\* Seeded faults: the body of a function is evaluated in the environment of
\* its caller; it is evaluated while the caller's activation stays.
CallInCallerEnv ==
  /\ Resumed /\ val.kind # "error"
  /\ Top.expr.kind = "call" /\ Top.got # << >>
  /\ LET callee == Top.got[1] IN
     \/ /\ callee.kind = "fun"
        /\ LET f == funs[callee.fun] IN Goto(Push(Top.env, f.param, val), f.expr)
        /\ UNCHANGED val
     \/ /\ callee.kind # "fun"
        /\ Return(Error("trying to call non function"))
        /\ UNCHANGED <<env, expr>>
  /\ stack' = Pop
  /\ UNCHANGED <<prog, pos, genv, funs, out>>
CallKeepsActivation ==
  /\ Resumed /\ val.kind # "error"
  /\ Top.expr.kind = "call" /\ Top.got # << >>
  /\ LET callee == Top.got[1] IN
     \/ /\ callee.kind = "fun"
        /\ LET f == funs[callee.fun] IN Goto(Push(f.env, f.param, val), f.expr)
        /\ UNCHANGED <<val, stack>>
     \/ /\ callee.kind # "fun"
        /\ Return(Error("trying to call non function"))
        /\ stack' = Pop
        /\ UNCHANGED <<env, expr>>
  /\ UNCHANGED <<prog, pos, genv, funs, out>>

\* The kind of the callee is looked at after the parameter is evaluated.
Call ==
  /\ Resumed /\ val.kind # "error"
  /\ Top.expr.kind = "call" /\ Top.got # << >>
  /\ LET callee == Top.got[1] IN
     \/ /\ callee.kind = "fun"
        /\ LET f == funs[callee.fun] IN Goto(Push(f.env, f.param, val), f.expr)
        /\ UNCHANGED val
     \/ /\ callee.kind # "fun"
        /\ Return(Error("trying to call non function"))
        /\ UNCHANGED <<env, expr>>
  /\ stack' = Pop
  /\ UNCHANGED <<prog, pos, genv, funs, out>>

\* Seeded fault: let does not look for errors.
LetWithoutBubble ==
  /\ Resumed /\ Top.expr.kind = "let"
  /\ Goto(Push(Top.env, Top.expr.name, val), Top.expr.body)
  /\ stack' = Pop
  /\ UNCHANGED <<prog, pos, genv, val, funs, out>>

Let ==
  /\ Resumed /\ val.kind # "error" /\ Top.expr.kind = "let"
  /\ Goto(Push(Top.env, Top.expr.name, val), Top.expr.body)
  /\ stack' = Pop
  /\ UNCHANGED <<prog, pos, genv, val, funs, out>>

LetRec ==
  /\ Resumed /\ val.kind # "error" /\ Top.expr.kind = "letrec"
  /\ \/ /\ val.kind = "fun"
        /\ funs' = Patch(val.fun, Top.expr.name)
        /\ Goto(Push(Top.env, Top.expr.name, val), Top.expr.body)
        /\ UNCHANGED val
     \/ /\ val.kind # "fun"
        /\ Return(Error("let rec binding can only be used with a function"))
        /\ UNCHANGED <<env, expr, funs>>
  /\ stack' = Pop
  /\ UNCHANGED <<prog, pos, genv, out>>

If ==
  /\ Resumed /\ val.kind # "error" /\ Top.expr.kind = "if"
  /\ \/ /\ val.kind = "bool"
        /\ Goto(Top.env, IF val.boolean THEN Top.expr.then ELSE Top.expr.else)
        /\ UNCHANGED val
     \/ /\ val.kind # "bool"
        /\ Return(Error("condition is not a boolean"))
        /\ UNCHANGED <<env, expr>>
  /\ stack' = Pop
  /\ UNCHANGED <<prog, pos, genv, funs, out>>
-----------------------------------------------------------------------------
(* walk_file, and the loop of run() around it *)

Current == prog[pos + 1]

\* A toplevel that does not parse is the last one: run() prints its error
\* chain, which is not part of out, and stops.
Begin ==
  /\ mode = "top" /\ pos < Len(prog)
  /\ \/ /\ Current.kind # "error"
        /\ Goto(genv, Current.expr)
        /\ UNCHANGED pos
     \/ /\ Current.kind = "error"
        /\ pos' = pos + 1
        /\ UNCHANGED <<mode, env, expr>>
  /\ UNCHANGED <<prog, genv, val, stack, funs, out>>

\* fprint_value: a closure has no readable form
Shown(v) == IF v.kind = "fun" THEN [kind |-> "fun"] ELSE v

Walked ==
  /\ mode = "return" /\ stack = << >>
  /\ mode' = "top" /\ pos' = pos + 1
  /\ UNCHANGED <<prog, env, expr, val, stack>>

WalkExpr ==
  /\ Walked /\ Current.kind = "expr"
  /\ out' = IF val.kind = "unit" THEN out ELSE Append(out, Shown(val))
  /\ UNCHANGED <<genv, funs>>

WalkLet ==
  /\ Walked /\ Current.kind = "let"
  /\ genv' = Push(genv, Current.name, val)
  /\ UNCHANGED <<funs, out>>

\* Unlike the let rec expression, the toplevel accepts any value.
WalkLetRec ==
  /\ Walked /\ Current.kind = "letrec"
  /\ funs' = IF val.kind = "fun" THEN Patch(val.fun, Current.name) ELSE funs
  /\ genv' = Push(genv, Current.name, val)
  /\ UNCHANGED out

Finished == mode = "top" /\ pos = Len(prog)
Exited == Finished /\ UNCHANGED vars
-----------------------------------------------------------------------------
Init ==
  /\ prog \in Programs
  /\ pos = 0
  /\ genv = << >>
  /\ mode = "top"
  /\ env = << >>
  /\ expr = NoExpr
  /\ val = Unit
  /\ stack = << >>
  /\ funs = << >>
  /\ out = << >>

EvalStep ==
  \/ Literal \/ Variable \/ Function \/ Descend
  \/ Bubble \/ NextOperand \/ Operator \/ Call \/ Let \/ LetRec \/ If

Next == EvalStep \/ Begin \/ WalkExpr \/ WalkLet \/ WalkLetRec \/ Exited

Spec == Init /\ [][Next]_vars

\* One thread runs the program and nothing makes it wait.
FairSpec == Spec /\ WF_vars(Next)
-----------------------------------------------------------------------------
(* Properties *)

\* Every pointer to a closure that the evaluator holds, in a value, in a
\* binding or in a suspended activation, points to a closure that exists, and
\* every tree it holds is part of the program.
TypeOK ==
  LET n == Len(funs) IN
  /\ prog \in Programs
  /\ pos \in 0..Len(prog)
  /\ mode \in {"top", "eval", "return"}
  /\ genv \in Env(n)
  /\ env \in Env(n)
  /\ expr \in Expr \cup {NoExpr}
  /\ mode = "eval" => expr \in Expr
  /\ mode # "top" => pos < Len(prog)
  /\ val \in Value(n)
  /\ stack \in Seq(Frame(n))
  /\ funs \in Seq(Closure(n))
  /\ out \in Seq(Value(n) \cup {[kind |-> "fun"]})

\* The errors of environment e are those of failed bindings of g.
ErrorsFrom(e, g) ==
  \A i \in 1..Len(e) : e[i].value.kind = "error" => i \in 1..Len(g) /\ e[i] = g[i]

\* An error value never enters a parameter, a let or a let rec binding, nor
\* waits as an operand: the only way a program meets an error again is
\* through the name of the toplevel binding that failed (walk_file binds
\* whatever eval_expr returned, BUBBLE stops everything else).
ErrorsAreGlobal ==
  /\ ErrorsFrom(env, genv)
  /\ \A i \in 1..Len(funs) : ErrorsFrom(funs[i].env, genv)
  /\ \A k \in 1..Len(stack) :
       /\ ErrorsFrom(stack[k].env, genv)
       /\ \A j \in 1..Len(stack[k].got) : stack[k].got[j].kind # "error"

\* The program is walked to its end.
Terminates == <>Finished
=============================================================================
