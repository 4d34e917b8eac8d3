----------------------------- MODULE Interpreter -----------------------------
(***************************************************************************)
(* run (src/src/main.c): the whole file is read and cut into tokens, then  *)
(* one toplevel after the other is parsed and evaluated, and last a syntax *)
(* error is reported.  Reader, Toplevels and Eval, put together: the       *)
(* tokens of the first are those of the second, and the toplevels of the   *)
(* second are the program of the third, which grows while it runs.         *)
(***************************************************************************)
EXTENDS Reader

CONSTANTS
  F64(_, _),                               \* Toplevels
  Name, Num, Text, NumNeg(_), NumAdd(_, _), NumSub(_, _), NumMul(_, _), NumDiv(_, _),
  NumEq(_, _), Cat(_, _), Expr             \* Eval

VARIABLES
  at, toplevels, said, phase,              \* Toplevels: at is parser.pos
  pos, genv, mode, env, expr, val, stack, funs, out        \* Eval

reading == <<text, file, bytes, cap, read, stream, pc, cut>>
parsing == <<at, said, phase>>
evaluating == <<pos, genv, mode, env, expr, val, stack, funs, out>>
run == <<reading, tokens, parsing, toplevels, evaluating>>

Syntax == INSTANCE Toplevels WITH pos <- at, Inputs <- {<< >>}
Machine == INSTANCE Eval WITH prog <- toplevels, Programs <- {<< >>}

RunInit == Init /\ Syntax!Init /\ Machine!Init

ReadAndLex == (Read \/ Lex) /\ UNCHANGED <<parsing, toplevels, evaluating>>

\* walk_file has returned from every toplevel that has been delivered.
Walked == Machine!Finished

\* Seeded fault: the loop goes on after a syntax error.
ParseOn ==
  /\ pc = "done" /\ Walked /\ phase = "parse"
  /\ \E r \in {Syntax!toplevel(tokens, at)} :
       /\ toplevels' = Append(toplevels, r.tree)
       /\ at' = r.pos
       /\ phase' = IF r.pos < Len(tokens) THEN "parse" ELSE "report"
  /\ UNCHANGED <<reading, tokens, said, evaluating>>

Parse == pc = "done" /\ Walked /\ Syntax!Turn /\ UNCHANGED <<reading, evaluating>>

Walk ==
  /\ ~Walked
  /\ Machine!EvalStep \/ Machine!Begin \/ Machine!WalkExpr \/ Machine!WalkLet \/ Machine!WalkLetRec
  /\ UNCHANGED <<reading, tokens, parsing>>

Report == pc = "done" /\ Walked /\ Syntax!Report /\ UNCHANGED <<reading, evaluating>>

\* run has returned, or a panic has ended the program.
Stopped == phase = "done" \/ pc \in Endings \ {"done"}
Exited == Stopped /\ UNCHANGED run

RunNext == ReadAndLex \/ Parse \/ Walk \/ Report \/ Exited

RunSpec == RunInit /\ [][RunNext]_run

\* One thread, which only the reading of the file makes wait, and not for ever.
FairRunSpec == RunSpec /\ WF_run(RunNext)
-----------------------------------------------------------------------------
(* Properties *)

\* What the evaluator assumes of its program (Eval!ExprWellFormed and
\* Eval!ProgramsWellFormed) is what the parser delivers: the trees have the
\* fields of their kinds, and a toplevel that does not parse is the last one.
RunTypeOK ==
  /\ at \in 0..Len(tokens) /\ pos \in 0..Len(toplevels)
  /\ toplevels \in Seq(Machine!Toplevel)
  /\ \A i \in DOMAIN toplevels :
       IF toplevels[i].kind = "error" THEN i = Len(toplevels) ELSE Machine!WellFormed(toplevels[i].expr)
=============================================================================
