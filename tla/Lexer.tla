------------------------------- MODULE Lexer --------------------------------
(***************************************************************************)
(* The lexer of src/src/lex.c, as operators on the bytes that are left in  *)
(* a stream: the token that lex returns and the bytes it uses up.  A byte  *)
(* is written as its character.                                            *)
(*                                                                         *)
(* The end of the stream is the end of what has been read so far: a token  *)
(* that could go on after it is T_INCOMPLETE, and nothing of it is used.   *)
(***************************************************************************)
LOCAL INSTANCE Naturals
LOCAL INSTANCE Sequences
LOCAL INSTANCE SequencesExt
LOCAL INSTANCE FiniteSetsExt
LOCAL INSTANCE TLC

\* The characters of a string.
Chars(str) == [i \in 1..Len(str) |-> SubSeq(str, i, i)]

Space == {" ", "\t", "\n", "\r"}
Digit == {"0", "1", "2", "3", "4", "5", "6", "7", "8", "9"}
IdentChar == Digit \cup
  {"a", "b", "c", "d", "e", "f", "g", "h", "i", "j", "k", "l", "m", "n", "o", "p", "q", "r",
   "s", "t", "u", "v", "w", "x", "y", "z", "A", "B", "C", "D", "E", "F", "G", "H", "I", "J",
   "K", "L", "M", "N", "O", "P", "Q", "R", "S", "T", "U", "V", "W", "X", "Y", "Z", "_"}

EOF == "EOF"
Peek(s, i) == IF i <= Len(s) THEN s[i] ELSE EOF

Is(s, i, S) == i <= Len(s) /\ s[i] \in S

\* The first position from i on whose character is not in S.
After(s, i, S) == Min({j \in i..(Len(s) + 1) : ~Is(s, j, S)})

\* What a call of lex comes to: a token and the bytes used up with it.
Lexed(tok, n) == [tok |-> tok, used |-> n]
TOK(kind, n) == Lexed([kind |-> kind], n)
INCOMPLETE == TOK("T_INCOMPLETE", 0)
ERROR(msg) == Lexed([kind |-> "T_ERROR", error |-> msg], 0)
-----------------------------------------------------------------------------
(* Words *)

\* In the order in which lex tries them.
Keywords ==
  << [kind |-> "T_IN", word |-> <<"i", "n">>],
     [kind |-> "T_IF", word |-> <<"i", "f">>],
     [kind |-> "T_LET", word |-> <<"l", "e", "t">>],
     [kind |-> "T_FUN", word |-> <<"f", "u", "n">>],
     [kind |-> "T_REC", word |-> <<"r", "e", "c">>],
     [kind |-> "T_THEN", word |-> <<"t", "h", "e", "n">>],
     [kind |-> "T_ELSE", word |-> <<"e", "l", "s", "e">>],
     [kind |-> "T_TRUE", word |-> <<"t", "r", "u", "e">>],
     [kind |-> "T_FALSE", word |-> <<"f", "a", "l", "s", "e">>] >>

keyword(s, k) ==
  CASE IsPrefix(s, k.word) -> INCOMPLETE
    [] IsStrictPrefix(k.word, s) /\ s[Len(k.word) + 1] \notin IdentChar
                           -> TOK(k.kind, Len(k.word))
    [] OTHER               -> ERROR("no match")

ident(s) ==
  LET n == After(s, 1, IdentChar) - 1 IN
  CASE n = Len(s) -> INCOMPLETE
    [] n = 0      -> ERROR("invalid identifier")
    [] OTHER      -> Lexed([kind |-> "T_IDENT", ident |-> SubSeq(s, 1, n)], n)

\* The first of the keywords and the identifier that does not fail to match.
Word(s) ==
  LET tries == [i \in 1..Len(Keywords) |-> keyword(s, Keywords[i])] \o <<ident(s)>>
      match == {i \in DOMAIN tries : tries[i].tok.kind # "T_ERROR"} IN
  IF match = {} THEN ERROR("invalid character") ELSE tries[Min(match)]
-----------------------------------------------------------------------------
(* Numbers and strings *)

Digits(word) == SelectSeq(word, LAMBDA c : c \in Digit)

\* The digits, underscores left out, and how many of them follow the last dot.
NumberToken(word) ==
  LET dots == {i \in DOMAIN word : word[i] = "."} IN
  [kind  |-> "T_NUM", digits |-> Digits(word),
   scale |-> IF dots = {} THEN 0 ELSE Len(Digits(SubSeq(word, Max(dots), Len(word))))]

NumberChar == Digit \cup {"_", "."}

Number(s) ==
  LET n == After(s, 1, NumberChar) - 1 IN
  IF n = Len(s) THEN INCOMPLETE ELSE Lexed(NumberToken(SubSeq(s, 1, n)), n)

Quote == "\""

\* A part of a string: the bytes it stands for, of n characters.
Part(b, n) == Lexed([kind |-> "bytes", bytes |-> b], n)

LowerHex == <<"0", "1", "2", "3", "4", "5", "6", "7", "8", "9", "a", "b", "c", "d", "e", "f">>
UpperHex == <<"A", "B", "C", "D", "E", "F">>
Place(digits, c) == CHOOSE i \in DOMAIN digits : digits[i] = c

\* Hexadecimal digits and their values, if A is worth upper: \x counts the upper
\* case from "F" (lex.c:278), so that there A to F are 5 to 10.
HexValues(upper) ==
  [c \in Range(LowerHex) \cup Range(UpperHex) |->
     IF c \in Range(LowerHex) THEN Place(LowerHex, c) - 1 ELSE upper + Place(UpperHex, c) - 1]
HexX == HexValues(5)
HexU == HexValues(10)

HexEscape(s, i) ==
  LET bad == {j \in {i, i + 1} : ~Is(s, j, DOMAIN HexX)} IN
  IF bad # {} THEN IF Peek(s, Min(bad)) = EOF THEN INCOMPLETE
                                              ELSE ERROR("invalid hex digit in hex escape")
  ELSE LET val == (16 * HexX[s[i]] + HexX[s[i + 1]]) % 256 IN
       IF val > 127 THEN ERROR("invalid hex escape (value is above 0x7f)")
       ELSE Part(<<val>>, 4)

\* The bytes of a code in UTF-8.
Utf8(val) ==
  LET Six(k) == 128 + ((val \div 2^k) % 64) IN
  CASE val < 128   -> <<val>>
    [] val < 2048  /\ val >= 128   -> <<192 + val \div 64, Six(0)>>
    [] val < 65536 /\ val >= 2048  -> <<224 + val \div 4096, Six(6), Six(0)>>
    [] val >= 65536                -> <<240 + val \div 262144, Six(12), Six(6), Six(0)>>

HexNumber(digits) == FoldLeft(LAMBDA v, c : 16 * v + HexU[c], 0, digits)

\* The last code there is (10FFFF).
MaxCode == 1114111

\* \u{h...}: one to six digits, and after them the brace.
UnicodeEscape(s, i) ==
  LET end == Min({i + 7, After(s, i + 1, DOMAIN HexU)})
      val == HexNumber(SubSeq(s, i + 1, end - 1)) IN
  IF Peek(s, i) # "{"
    THEN IF Peek(s, i) = EOF THEN INCOMPLETE ELSE ERROR("unexpected character (wanted '{')")
  ELSE IF Peek(s, end) = EOF THEN INCOMPLETE
  ELSE IF Peek(s, end) # "}"
    THEN ERROR(IF end = i + 7 THEN "unexpected character (wanted '}')"
                              ELSE "invalid hex digit in unicode escape")
  ELSE IF end = i + 1 THEN ERROR("invalid unicode escape (no digits)")
  ELSE IF val > MaxCode THEN ERROR("unicode escape must be at most 10FFFF")
  ELSE Part(Utf8(val), end - i + 3)

Escapes == [c \in {Quote, "\\", "0", "n", "t", "r"} |->
  CASE c = Quote -> 34 [] c = "\\" -> 92 [] c = "0" -> 0
    [] c = "n" -> 10   [] c = "t" -> 9   [] c = "r" -> 13]

\* The codes of the characters themselves.  (A backquote cannot be written in a
\* TLA+ string; BACKQUOTE is its name.)
Codes(str, first) == LET cs == Chars(str) IN [c \in Range(cs) |-> first + Place(cs, c) - 1]
Ascii == Codes(" !\"#$%&'()*+,-./0123456789:;<=>?@ABCDEFGHIJKLMNOPQRSTUVWXYZ[\\]^_", 32)
           @@ ("BACKQUOTE" :> 96) @@ Codes("abcdefghijklmnopqrstuvwxyz{|}~", 97)
           @@ Codes("\t\n", 9) @@ ("\r" :> 13)
Printable == 32..126

\* Every code that is printed as it is has a character; the quote and the
\* backslash have theirs.
ASSUME AsciiAssumption ==
  /\ \A b \in Printable : \E c \in DOMAIN Ascii : Ascii[c] = b
  /\ Ascii[Quote] = 34 /\ Ascii["\\"] = 92

\* What follows a backslash.
Escape(s, i) ==
  LET esc == Peek(s, i) IN
  IF Is(s, i, DOMAIN Escapes) THEN Part(<<Escapes[esc]>>, 2)
  ELSE IF esc = "x" THEN HexEscape(s, i + 1)
  ELSE IF esc = "u" THEN UnicodeEscape(s, i + 1)
  ELSE IF esc = EOF THEN INCOMPLETE
  ELSE ERROR("invalid escape in string literal")

StringPart(s, i) ==
  IF s[i] = "\\" THEN Escape(s, i + 1) ELSE Part(<<Ascii[s[i]]>>, 1)

\* The part before the rest of a string, unless the rest is not one.
Before(part, rest) ==
  IF rest.tok.kind # "T_STR" THEN rest
  ELSE Lexed([kind |-> "T_STR", str |-> part.tok.bytes \o rest.tok.str], rest.used)

\* The parts after the opening quote, to the closing one.
String(s) ==
  LET rest[i \in 1..(Len(s) + 1)] ==
        IF i > Len(s) THEN INCOMPLETE
        ELSE IF s[i] = Quote THEN Lexed([kind |-> "T_STR", str |-> << >>], i)
        ELSE LET part == StringPart(s, i) IN
             IF part.tok.kind = "bytes" THEN Before(part, rest[i + part.used]) ELSE part
  IN  rest[2]
-----------------------------------------------------------------------------
(* How a string is printed (fdebug_str, utils.c) *)

Escaped == [b \in {34, 92, 0, 10, 9, 13} |->
  CASE b = 34 -> Quote [] b = 92 -> "\\" [] b = 0 -> "0"
    [] b = 10 -> "n"   [] b = 9 -> "t"   [] b = 13 -> "r"]
HexDigit(n) == LowerHex[n + 1]

\* Seeded fault: a backslash is printed as it is.
DebugByte_backslash(b) ==
  CASE b \in DOMAIN Escaped \ {92} -> <<"\\", Escaped[b]>>
    [] b \in Printable \ {34}      -> <<CHOOSE c \in DOMAIN Ascii : Ascii[c] = b>>
    [] OTHER                       -> <<"\\", "x", HexDigit(b \div 16), HexDigit(b % 16)>>

DebugByte(b) ==
  CASE b \in DOMAIN Escaped             -> <<"\\", Escaped[b]>>
    [] b \in Printable \ DOMAIN Escaped -> <<CHOOSE c \in DOMAIN Ascii : Ascii[c] = b>>
    [] OTHER                            -> <<"\\", "x", HexDigit(b \div 16), HexDigit(b % 16)>>

fdebug_str(str) ==
  <<Quote>> \o FlattenSeq([i \in DOMAIN str |-> DebugByte(str[i])]) \o <<Quote>>
-----------------------------------------------------------------------------
(* lex *)

Single == [c \in {"(", ")", "+", "*"} |->
  CASE c = "(" -> "T_LPAR" [] c = ")" -> "T_RPAR" [] c = "+" -> "T_PLUS" [] c = "*" -> "T_STAR"]

\* The characters that may begin a longer token: alone, and with the second.
Double == [c \in {"-", "=", ";"} |->
  CASE c = "-" -> [second |-> ">", one |-> "T_MINUS", two |-> "T_ARROW"]
    [] c = "=" -> [second |-> "=", one |-> "T_EQ",    two |-> "T_EQEQ"]
    [] c = ";" -> [second |-> ";", one |-> "T_SEMI",  two |-> "T_SEMISEMI"]]

\* Seeded fault: the end of the stream is taken for another character.
SymbolAtOnce(s) ==
  LET d == Double[s[1]] IN
  IF Peek(s, 2) = d.second THEN TOK(d.two, 2) ELSE TOK(d.one, 1)

Symbol(s) ==
  LET d == Double[s[1]] IN
  IF Peek(s, 2) = EOF THEN INCOMPLETE
  ELSE IF Peek(s, 2) = d.second THEN TOK(d.two, 2) ELSE TOK(d.one, 1)

\* A comment goes on to the end of its line or to the end of the stream.
IsComment(s, i) == Peek(s, i) = "/" /\ Peek(s, i + 1) = "/"
CommentEnd(s, i) == Min({Len(s) + 1} \cup {j + 1 : j \in {k \in (i + 2)..Len(s) : s[k] = "\n"}})

\* The position of the first character that is neither space nor in a comment.
Start(s) ==
  LET start[i \in 1..(Len(s) + 1)] ==
        IF Is(s, i, Space) THEN start[i + 1]
        ELSE IF IsComment(s, i) THEN start[CommentEnd(s, i)]
        ELSE i
  IN  start[1]

\* A slash that begins no comment.
Slash(s) ==
  CASE Peek(s, 2) = EOF -> INCOMPLETE
    [] Peek(s, 2) = "*" -> TOK("panic", 0)     \* "todo: block comments"
    [] OTHER            -> TOK("T_SLASH", 1)

\* The token that begins with the first character.
Token(s) ==
  CASE s = << >>                 -> INCOMPLETE
    [] Is(s, 1, DOMAIN Single)   -> TOK(Single[s[1]], 1)
    [] Is(s, 1, DOMAIN Double)   -> Symbol(s)
    [] Is(s, 1, {"/"})           -> Slash(s)
    [] Is(s, 1, {Quote})         -> String(s)
    [] Is(s, 1, Digit)           -> Number(s)
    [] OTHER                     -> Word(s)

\* Seeded fault: one byte too many is used up.
lex_one_more(s) ==
  LET start == Start(s)
      token == Token(SubSeq(s, start, Len(s))) IN
  Lexed(token.tok, token.used + start)

\* Space and comments are used up whatever comes after them.
lex(s) ==
  LET start == Start(s)
      token == Token(SubSeq(s, start, Len(s))) IN
  Lexed(token.tok, token.used + start - 1)
=============================================================================
