---------------------------- MODULE MCInterpreter ----------------------------
(* Files for the interpreter: the programs of Samples as they may be written, *)
(* and others written by hand, most of them with a mistake in them; each with *)
(* the program it means.                                                      *)
EXTENDS Interpreter, Writing, FiniteSets

\* How tokens are written.  A space is needed between two words only.
Spelling ==
  [T_LPAR |-> "(", T_RPAR |-> ")", T_PLUS |-> "+", T_STAR |-> "*", T_MINUS |-> "-", T_SLASH |-> "/",
   T_ARROW |-> "->", T_EQ |-> "=", T_EQEQ |-> "==", T_SEMISEMI |-> ";;", T_IN |-> "in", T_IF |-> "if",
   T_LET |-> "let", T_FUN |-> "fun", T_REC |-> "rec", T_THEN |-> "then", T_ELSE |-> "else",
   T_TRUE |-> "true", T_FALSE |-> "false"]
Spelled(tok) ==
  CASE tok.kind = "T_IDENT" -> tok.ident
    [] tok.kind = "T_NUM"   -> tok.digits
    [] tok.kind = "T_STR"   -> <<"\"">> \o [i \in DOMAIN tok.str |-> "a"] \o <<"\"">>
    [] OTHER                -> Chars(Spelling[tok.kind])
Touch(a, b) == {a[Len(a)], b[1]} \subseteq IdentChar
Spell(toks) ==
  LET words == [i \in DOMAIN toks |-> Spelled(toks[i])] IN
  FlattenSeq([i \in DOMAIN words |->
    words[i] \o IF i < Len(words) /\ Touch(words[i], words[i + 1]) THEN <<" ">> ELSE << >>])

Styles == {[parens |-> p, sugar |-> ~p, ends |-> p] : p \in BOOLEAN}
Written == {[text |-> Spell(WriteProgram(p, s)), program |-> p] : p \in Examples, s \in Styles}

\* An expression that did not parse, with the length of its error chain.
Miss(n) == [kind |-> "error", links |-> n]
ByHand == {
  [text |-> "", program |-> <<TBad(2)>>],
  [text |-> "let f x y=x/y;;f 6 2;;f (1;;3", program |->
     <<TLet("f", F("x", F("y", B("div", V("x"), V("y"))))), TExpr(C(C(V("f"), N(6)), N(2))), TBad(3)>>],
  [text |-> "let rec f x =\n  if x == 0 then\n    0\n  else if x == 1 then\n    1\n  else\n    f (x - 1) + f (x - 2)\n;;\n\nf 4;;\n",
   program |->
     <<TRec("f", F("x", I(Eq(V("x"), N(0)), N(0), I(Eq(V("x"), N(1)), N(1),
        B("add", C(V("f"), Sub(V("x"), N(1))), C(V("f"), Sub(V("x"), N(2)))))))), TExpr(C(V("f"), N(4)))>>],
  [text |-> "let f f f = ()\nlet rec x y = \"a\";;f 1 2 x\"\\x61\"+\"a\"", program |->
     <<TLet("f", F("f", F("f", U))), TRec("x", F("y", S(1))),
       TExpr(B("add", C(C(C(C(V("f"), N(1)), N(2)), V("x")), S(1)), S(1)))>>],
  \* met at run time, for what stands on the left; a second == begins a toplevel
  [text |-> "*3;;let x= -4;;x -1", program |->
     <<TExpr(Mul(Miss(1), N(3))), TLet("x", Neg(N(4))), TExpr(Sub(V("x"), N(1)))>>],
  [text |-> "1==1==2;;let x=*2;;x", program |->
     <<TExpr(Eq(N(1), N(1))), TExpr(Eq(Miss(1), N(2))), TLet("x", Mul(Miss(1), N(2))), TExpr(V("x"))>>],
  \* nothing is said of these
  [text |-> "2;;let rec", program |-> <<TExpr(N(2)), TBad(1)>>],
  [text |-> "let f x;;2", program |-> <<TBad(1)>>],
  [text |-> "if 1 then 2 3", program |-> <<TBad(2)>>],
  \* not even evaluated
  [text |-> "2;;3?", program |-> <<TExpr(N(2))>>],
  [text |-> "2;;\"aa", program |-> <<TExpr(N(2))>>]
}
Endless == "2;;let rec f x=f x in f()"
EndlessProgram == <<TExpr(N(2)), TExpr(R("f", F("x", C(V("f"), V("x"))), C(V("f"), U)))>>

Files ==
  Written \cup {[f EXCEPT !.text = Chars(@)] :
    f \in ByHand \cup {[text |-> Endless, program |-> EndlessProgram]}}
MCTexts == {f.text : f \in Files}
Meant(t) == (CHOOSE f \in Files : f.text = t).program

\* The trees that the programs mean.
AllTrees == Subtrees(Roots({f.program : f \in Files}))
MCExpr == AllTrees
-----------------------------------------------------------------------------
Fuel == 60
Promise == INSTANCE MiniML WITH prog <- Meant(text), walked <- pos, printed <- out,
       NumNeg <- MCNeg, NumAdd <- MCAdd, NumSub <- MCSub, NumMul <- MCMul,
       NumDiv <- MCDiv, NumEq <- MCNumEq, Cat <- MCCat

\* From the characters of a file to what is printed: run prints what the
\* program that is written means, toplevel by toplevel.
ImplementsMiniML == Promise!Spec

\* The program that is written is the program that is delivered to walk_file,
\* to its end or to its first syntax error.
TextsArePrograms == phase = "done" => toplevels = Meant(text)

\* Every other file is read, parsed, evaluated and reported on to the end,
\* whatever is wrong with it.
FilesEnd == text # Chars(Endless) => <>Stopped
=============================================================================
