------------------------------- MODULE MCEval -------------------------------
(* Programs for the evaluator: small trees, enumerated and hand-picked. *)
EXTENDS Knots, Samples, FiniteSetsExt

Fuel == 60

Meant == INSTANCE MiniML WITH walked <- pos, printed <- out,
           NumNeg <- MCNeg, NumAdd <- MCAdd, NumSub <- MCSub, NumMul <- MCMul,
           NumDiv <- MCDiv, NumEq <- MCNumEq, Cat <- MCCat

\* Fuel is enough for every toplevel of p.  (Some of the programs below never
\* end; all of those loop over finitely many states.)
Halts(p) ==
  \A k \in 0..(Len(p) - 1) : p[k + 1].kind # "error" => Meant!Result(p, k) # Meant!OutOfFuel

\* Every tree of depth two over a few atoms, as the body of a function that is
\* then applied, and as the body of one of its calls.
Atoms == {N(1), T(TRUE), V("x"), V("f")}
Trees ==
  Atoms \cup {U, S(1), Bad}
  \cup {C(a, b) : a, b \in Atoms}
  \cup {B(op, a, b) : op \in {"add", "eq"}, a, b \in Atoms}
  \cup {B(op, a, a) : op \in Binary, a \in {N(1), T(TRUE), S(1), U, V("f")}}
  \cup {L("x", a, b) : a, b \in Atoms}
  \cup {R("f", F("y", a), b) : a, b \in Atoms}
  \cup {R("f", a, N(1)) : a \in {T(TRUE), V("y")}}
  \cup {F("x", a) : a \in Atoms}
  \cup {I(a, b, c) : a \in {T(TRUE), T(FALSE), V("x")}, b, c \in {N(1), V("f")}}
  \cup {Neg(a) : a \in Atoms \cup {U}}
Enumerated ==
       {<<TLet("f", F("x", t)), TExpr(C(V("f"), a))>> : t \in Trees, a \in Atoms \cup {Bad}}
  \cup {<<TLet("f", F("y", B("add", V("y"), V("x")))), TLet("x", t), TExpr(L("x", N(2), C(V("f"), u)))>> :
          t \in Trees, u \in {V("x"), T(TRUE)}}
  \cup {<<TRec("f", F("x", t)), TLet("x", V("f")), TExpr(t)>> : t \in Trees}
  \cup {<<TLet("x", t), TRec("g", V("x")), TExpr(V("g")), TBad(3)>> : t \in Trees}

\* Loops written as tail calls, some of them endless: the "goto __start" of
\* eval_expr makes them run in a C stack of constant depth.
CountDown(again) == F("x", I(Eq(V("x"), N(0)), S(1), again))
Less1(x) == Sub(V(x), N(1))
Loops == {
  <<TRec("f", F("x", C(V("f"), V("x")))), TExpr(C(V("f"), N(1)))>>,
  <<TExpr(R("f", F("x", C(V("f"), Neg(V("x")))), C(V("f"), N(1))))>>,
  <<TRec("f", CountDown(C(V("f"), Less1("x")))), TExpr(C(V("f"), N(12))), TExpr(C(V("f"), N(13)))>>,
  <<TRec("f", CountDown(L("y", Less1("x"), C(V("f"), V("y"))))), TExpr(C(V("f"), N(12)))>>,
  \* two functions that call each other
  <<TLet("g", F("f", F("x", C(V("f"), Less1("x"))))),
    TRec("f", CountDown(C(C(V("g"), V("f")), V("x")))), TExpr(C(V("f"), N(12)))>>,
  \* a loop in a loop
  <<TRec("f", CountDown(R("g", F("y", I(Eq(V("y"), N(0)), C(V("f"), Less1("x")), C(V("g"), Less1("y")))),
                          C(V("g"), V("x"))))),
    TExpr(C(V("f"), N(4)))>>,
  \* an accumulator: the call of a curried function is itself the callee
  <<TLet("f", FactAcc), TExpr(C(V("f"), N(12)))>>
}

\* Programs that hold an expression that did not parse, and one that is nothing else.
Broken == {
  <<TLet("x", Bad), TExpr(L("y", V("x"), N(1))), TExpr(C(F("y", N(1)), V("x"))), TExpr(F("y", V("x")))>>,
  <<TBad(2)>>
}

\* let rec of a function that somebody holds: reached by its name, through a
\* branch and through a call, at toplevel and within an expression.
Rebound == {
  <<TLet("f", F("y", V("x"))), TRec("x", V("f")), TExpr(C(V("f"), N(1)))>>,
  <<TLet("f", F("y", V("x"))), TExpr(R("x", V("f"), C(V("f"), N(1)))), TExpr(C(V("f"), N(1)))>>,
  <<TLet("f", F("y", C(V("g"), V("y")))), TRec("g", I(T(TRUE), V("f"), F("x", V("x")))), TExpr(C(V("f"), N(1)))>>,
  <<TLet("g", F("x", V("x"))), TLet("f", F("y", V("x"))), TRec("x", C(V("g"), V("f"))), TExpr(C(V("f"), U))>>
}

\* let rec of a function that its expression makes after a detour, and next to
\* another function of the same text and environment.
Made == {
  <<TRec("f", L("g", N(2), R("f", F("x", V("g")),
                I(Eq(V("g"), C(V("f"), U)), CountDown(C(V("f"), Less1("x"))), F("x", V("f")))))),
    TLet("g", V("f")), TExpr(C(V("g"), N(3)))>>,
  <<TExpr(C(F("y", N(1)), R("f", F("y", N(1)), V("f"))))>>
}
MCPrograms == Enumerated \cup Examples \cup Loops \cup Broken \cup Rebound \cup Made
AllTrees == Subtrees(Roots(MCPrograms))
MCExpr == AllTrees

RECURSIVE Makes(_)
Makes(e) ==
  CASE e.kind \in {"var", "call"} -> FALSE
    [] e.kind \in {"let", "letrec"} -> Makes(e.body)
    [] e.kind = "if" -> Makes(e.then) /\ Makes(e.else)
    [] OTHER -> TRUE
MCMaker == {e \in MCExpr : Makes(e)}

RECURSIVE Free(_)
Free(e) ==
  CASE e.kind = "var" -> {e.name}
    [] e.kind = "fun" -> Free(e.body) \ {e.param}
    [] e.kind \in {"let", "letrec"} -> Free(e.expr) \cup (Free(e.body) \ {e.name})
    [] OTHER -> UNION {Free(x) : x \in Children(e)}

\* The programs in which a let rec may change the meaning of a function that
\* somebody holds: its expression may hand one on, and a function of the program
\* has the name of the let rec free.  MiniML, which has no heap, does not say
\* what these mean.
Aliasing ==
  {p \in MCPrograms :
     LET trees == Subtrees(Roots({p}))
         recs == {b \in trees \cup {p[i] : i \in 1..Len(p)} : b.kind = "letrec"}
         functions == {e \in trees : e.kind = "fun"}
     IN \E b \in recs : ~Makes(b.expr) /\ \E f \in functions : b.name \in Free(f)}

\* The machine with its heap of closures and its stack prints what the
\* program means, one toplevel after the other (eval_expr, walk_file): in every
\* program but those in which the place of a closure in the heap can be seen.
ImplementsMiniML ==
  Meant!Init /\ [][prog \notin Aliasing => Meant!Walk]_<<prog, pos, out>>

\* A program in which no evaluation goes on forever is walked to its end: the
\* machine is never stuck, neither on an error nor on a suspended activation.
HaltingProgramsFinish == Halts(prog) /\ prog \notin Aliasing => Terminates

\* The subtrees that eval_expr reaches by goto, and those it calls itself on.
TailPart(e) ==
  CASE e.kind \in {"let", "letrec"} -> {e.body}
    [] e.kind = "if" -> {e.then, e.else}
    [] OTHER -> {}
Operands(e) == IF e.kind = "fun" THEN {} ELSE Children(e) \ TailPart(e)

RECURSIVE Nesting(_)
Nesting(e) ==
  Max({0} \cup {Nesting(x) : x \in TailPart(e)} \cup {1 + Nesting(x) : x \in Operands(e)})
DeepestText == Max({Nesting(e) : e \in Subtrees(Roots(Loops))})

\* However many calls a loop makes, the recursion of eval_expr is no deeper
\* than the nesting of operands in the program text (twice that, because the
\* callee of a curried call is the result of a call).
TailCallsKeepStackFlat == prog \in Loops => Len(stack) <= 2 * DeepestText
=============================================================================
