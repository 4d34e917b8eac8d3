------------------------------ MODULE MCReader ------------------------------
(* Texts made of three pieces, each a lexeme, a part of one, or what comes   *)
(* between lexemes: with the space among them, every lexeme meets the end of *)
(* a window at each of its characters.                                       *)
EXTENDS Reader

Fragments ==
  {"in", "inx", "e", "->", "-", "=", "1.5", " ", "\"a", "\"\\n\"", "\"", "\"\\u{e9}\"",
   "//e\n", "/", "*", "?"}

\* The last piece: what ends a token, goes on with one or is none.
Lasts == {" ", "e", "\"", "?"}

\* Strings of one byte, and of two that might run together.
Hex(b) == <<"\\", "x", HexDigit(b \div 16), HexDigit(b % 16)>>
Quoted(s) == <<"\"">> \o s \o <<"\"">>
Bytes == {Quoted(Hex(b)) : b \in 0..127}
Pairs == {Quoted(Hex(b) \o Hex(c)) : b, c \in {0, 7, 34, 48, 92, 110, 120}}

\* TLC evaluates AllTexts once, where it would evaluate a value of a constant at
\* each use.
AllTexts ==
  {Chars(f \o g \o h) : f, g \in Fragments, h \in Lasts} \cup Bytes \cup Pairs
MCTexts == AllTexts

\* One comment, after none to three spaces.
Commented == {Chars(w \o "//e ?\n1") : w \in {"", " ", "  ", "   "}}

\* Strings of one \xhh escape.
HexStrings ==
  {<<"\"", "\\", "x", a, b, "\"">> : a, b \in {"0", "4", "7", "8", "a", "f", "A", "F"}}
=============================================================================
