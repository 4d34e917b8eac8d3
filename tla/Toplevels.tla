----------------------------- MODULE Toplevels ------------------------------
(***************************************************************************)
(* The second loop of run (src/src/main.c) as far as the parser goes: one  *)
(* toplevel after the other is parsed, and what is said of a syntax error. *)
(***************************************************************************)
EXTENDS Parser, Naturals, Sequences

CONSTANT Inputs    \* the token sequences that are parsed

ASSUME InputsAssumption == \A t \in Inputs : \A i \in 1..Len(t) : t[i].kind # "T_INCOMPLETE"

VARIABLES
  tokens,      \* parser.tokens
  pos,         \* parser.pos
  toplevels,   \* what toplevel has delivered to walk_file
  said,        \* how many messages of an error chain have been printed
  phase        \* "parse", "report", "done"

vars == <<tokens, pos, toplevels, said, phase>>

Init ==
  /\ tokens \in Inputs
  /\ pos = 0
  /\ toplevels = << >>
  /\ said = 0
  /\ phase = "parse"

\* One turn of the do loop: even a file without tokens has one.
Turn ==
  /\ phase = "parse"
  /\ \E r \in {toplevel(tokens, pos)} :
       /\ toplevels' = Append(toplevels, r.tree)
       /\ pos' = r.pos
       /\ phase' = IF r.pos < Len(tokens) /\ r.tree.kind # "error" THEN "parse" ELSE "report"
  /\ UNCHANGED <<tokens, said>>

Latest == toplevels[Len(toplevels)]

\* Seeded fault: the last link of the chain is not printed.
ReportAllButLast ==
  /\ phase = "report"
  /\ said' = IF Latest.kind = "error" /\ Latest.links > 1 THEN Latest.links - 2 ELSE 0
  /\ phase' = "done"
  /\ UNCHANGED <<tokens, pos, toplevels>>

\* The error chain is printed from its second link on.
Report ==
  /\ phase = "report"
  /\ said' = IF Latest.kind = "error" THEN Latest.links - 1 ELSE 0
  /\ phase' = "done"
  /\ UNCHANGED <<tokens, pos, toplevels>>

Returned == phase = "done" /\ UNCHANGED vars

Next == Turn \/ Report \/ Returned

Spec == Init /\ [][Next]_vars

\* One thread, which nothing makes wait.
FairSpec == Spec /\ WF_vars(Next)
-----------------------------------------------------------------------------
(* Properties *)

TypeOK ==
  /\ tokens \in Inputs
  /\ pos \in 0..Len(tokens)
  /\ \A i \in DOMAIN toplevels : toplevels[i].kind \in {"expr", "let", "letrec", "error"}
  /\ said \in Nat
  /\ phase \in {"parse", "report", "done"}

\* Every turn of the loop (main.c:67) takes a token or is the last: toplevel
\* cannot deliver the same toplevel for ever.
EveryTurnAdvances ==
  [][Turn => pos' > pos \/ Latest'.kind = "error"]_vars

\* The places in e where it has a part.
Parts(e) ==
  (DOMAIN e \cap {"callee", "cond", "then", "else", "expr", "body", "lhs", "rhs"})
    \cup (IF e.kind = "call" THEN {"param"} ELSE {})

\* The places of e where an expression that did not parse stands.
RECURSIVE ErrorsIn(_, _)
ErrorsIn(e, place) ==
  IF e.kind = "error" THEN {place} ELSE UNION {ErrorsIn(e[part], part) : part \in Parts(e)}

Broken(tl) == tl.kind # "error" /\ ErrorsIn(tl, "toplevel") # {}

\* An expression that did not parse fails the whole toplevel, unless it is the
\* first operand of an operator: only product, addition and equality take a
\* result they have not looked at (ast.c:139, 160, 181).
ErrorsOnlyLeftmost ==
  \A i \in DOMAIN toplevels :
    Broken(toplevels[i]) => ErrorsIn(toplevels[i], "toplevel") = {"lhs"}

\* The error chain is printed without its first message (main.c:74).  The only
\* errors of which no message is printed are those of a toplevel let that has
\* not come to its = (where its name was right, ast.c:360 prints the token found
\* in place of the =, and no more).
SilentOnlyBeforeEq ==
  phase = "done" /\ Latest.kind = "error" /\ said = 0 =>
    \E let \in 1..pos :
      tokens[let].kind = "T_LET" /\ \A i \in (let + 1)..(pos - 1) : tokens[i].kind # "T_EQ"

\* "invalid toplevel expression" (ast.c:336), and so for every part of a
\* toplevel: a toplevel that is delivered holds no expression that did not parse.
InvalidExpressionsAreRejected == \A i \in DOMAIN toplevels : ~Broken(toplevels[i])
=============================================================================
