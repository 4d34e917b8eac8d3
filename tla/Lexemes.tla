------------------------------ MODULE Lexemes -------------------------------
(***************************************************************************)
(* What a source text means, without regard to how it is read: the longest *)
(* word or symbol at each place, up to the first thing that is no lexeme.  *)
(* The values of numbers and strings are those of Lexer.                   *)
(***************************************************************************)
EXTENDS Lexer, Naturals, Sequences, SequencesExt, FiniteSetsExt, TLC

Symbols ==
  {[word |-> <<"(">>,      kind |-> "T_LPAR"],  [word |-> <<")">>,      kind |-> "T_RPAR"],
   [word |-> <<"+">>,      kind |-> "T_PLUS"],  [word |-> <<"*">>,      kind |-> "T_STAR"],
   [word |-> <<"-">>,      kind |-> "T_MINUS"], [word |-> <<"-", ">">>, kind |-> "T_ARROW"],
   [word |-> <<"=">>,      kind |-> "T_EQ"],    [word |-> <<"=", "=">>, kind |-> "T_EQEQ"],
   [word |-> <<";">>,      kind |-> "T_SEMI"],  [word |-> <<";", ";">>, kind |-> "T_SEMISEMI"],
   [word |-> <<"/">>,      kind |-> "T_SLASH"]}

\* The word of a run of letters, digits and underscores: a keyword only when
\* it is the whole of the run.
WordOf(run) ==
  LET k == {i \in DOMAIN Keywords : Keywords[i].word = run} IN
  IF k = {} THEN [kind |-> "T_IDENT", ident |-> run] ELSE [kind |-> Keywords[Min(k)].kind]

LongestSymbol(s) ==
  LET here == {symbol \in Symbols : IsPrefix(symbol.word, s)}
      longest == CHOOSE a \in here : \A b \in here : Len(b.word) <= Len(a.word) IN
  IF here = {} THEN ERROR("invalid character") ELSE TOK(longest.kind, Len(longest.word))

\* How the text from a place on begins.  A text ends with a newline.
Lexeme(s) ==
  IF s[1] \in IdentChar \ Digit THEN
    LET run == SelectInSeq(s, LAMBDA c : c \notin IdentChar) - 1 IN
    Lexed(WordOf(SubSeq(s, 1, run)), run)
  ELSE IF s[1] \in Digit THEN Number(s)
  ELSE IF s[1] = "\"" THEN String(s)
  ELSE IF IsPrefix(<<"/", "*">>, s) THEN TOK("panic", 0)
  ELSE LongestSymbol(s)

Ending == [kind \in {"T_INCOMPLETE", "T_ERROR", "panic"} |->
  CASE kind = "T_INCOMPLETE" -> "unfinished"
    [] kind = "T_ERROR"      -> "malformed"
    [] kind = "panic"        -> "panic"]

\* A text with a token in front.
FollowedBy(tok, rest) == [tokens |-> <<tok>> \o rest.tokens, end |-> rest.end]

\* The tokens of a text that ends with a newline, and how its reading ends.
TokensOf(s) ==
  LET from[i \in 1..(Len(s) + 1)] ==
        IF i > Len(s) THEN [tokens |-> << >>, end |-> "done"]
        ELSE IF s[i] \in Space THEN from[i + 1]
        ELSE IF IsComment(s, i) THEN from[SelectInSubSeq(s, i, Len(s), LAMBDA c : c = "\n") + 1]
        ELSE LET r == Lexeme(SubSeq(s, i, Len(s))) IN
             IF r.tok.kind \in DOMAIN Ending THEN [tokens |-> << >>, end |-> Ending[r.tok.kind]]
             ELSE FollowedBy(r.tok, from[i + r.used])
  IN  from[1]

Meaning(text) == TokensOf(text \o <<"\n">>)
=============================================================================
