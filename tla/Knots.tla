-------------------------------- MODULE Knots --------------------------------
(***************************************************************************)
(* let rec writes to the closure that its expression evaluates to          *)
(* (eval.c:78, 222), whoever holds that closure already.  This module says *)
(* when nobody does: when the expression makes the function it stands for. *)
(***************************************************************************)
EXTENDS Eval

CONSTANT Maker  \* expressions that never hand on a function made elsewhere

\* eval_expr gets to the value of a maker without a variable or a call: what it
\* reaches from there by "goto __start" is a maker again.
ASSUME MakersMake ==
  \A e \in Maker :
    /\ e \in Expr
    /\ e.kind \notin {"var", "call"}
    /\ e.kind \in {"let", "letrec"} => e.body \in Maker
    /\ e.kind = "if" => e.then \in Maker /\ e.else \in Maker

\* The construct that receives the value being returned.
Receiver == IF stack = << >> THEN Current ELSE Top.expr

Refers(e, a) == \E i \in 1..Len(e) : e[i].value = FunValue(a)

\* A name, a suspended activation or a closure refers to the closure at a.
Held(a) ==
  \/ Refers(genv, a)
  \/ \E k \in 1..Len(stack) :
       \/ Refers(stack[k].env, a)
       \/ \E j \in 1..Len(stack[k].got) : stack[k].got[j] = FunValue(a)
  \/ \E i \in 1..Len(funs) : Refers(funs[i].env, a)

\* A closure is rewritten for the sake of a let rec only; and if the expression
\* of that let rec makes its function, whatever lets, branches, inner let recs
\* and calls of other functions its evaluation went through, then nobody holds
\* the closure yet: no function that a program can already call changes.
MadeFunctionsTiedUnseen ==
  [][\A a \in 1..Len(funs) :
       funs'[a] # funs[a] =>
         /\ Receiver.kind = "letrec"
         /\ Receiver.expr \in Maker => ~Held(a)]_vars
=============================================================================
