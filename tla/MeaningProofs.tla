--------------------------- MODULE MeaningProofs ----------------------------
(***************************************************************************)
(* What lex answers is what the text means: the longest word or symbol at  *)
(* each place (Lexemes), whatever of the text is there yet.  A token that  *)
(* has been found does not depend on what comes after it, and space and    *)
(* comments that have been skipped hold none.  TokensOf is defined by      *)
(* recursion on later positions; by induction on the length of a text, it  *)
(* is found by taking off what the text begins with.                       *)
(***************************************************************************)
EXTENDS LexerProofs

\* A sequence is its first n elements and the others.
LEMMA SplitAgain ==
  ASSUME NEW S, NEW f \in Seq(S), NEW n \in 0..Len(f)
  PROVE  /\ SubSeq(f, 1, n) \o SubSeq(f, n + 1, Len(f)) = f
         /\ SubSeq(f, 1, n) \in Seq(S) /\ SubSeq(f, n + 1, Len(f)) \in Seq(S)
         /\ Len(SubSeq(f, 1, n)) = n
<1>1. Len(f) \in Nat /\ 1 \in 1..(Len(f) + 1) /\ n \in (1 - 1)..Len(f)
      /\ Len(f) \in n..Len(f)
  OBVIOUS
<1>2. SubSeq(f, 1, n) \o SubSeq(f, n + 1, Len(f)) = SubSeq(f, 1, Len(f))
  BY <1>1, ConcatAdjacentSubSeq
<1>3. /\ SubSeq(f, 1, n) \in Seq(S) /\ SubSeq(f, n + 1, Len(f)) \in Seq(S)
      /\ Len(SubSeq(f, 1, n)) = n
  OBVIOUS
<1> QED BY <1>2, <1>3, SubSeqFull

\* What is left of a sequence without its first n elements.
LEMMA SuffixIs ==
  ASSUME NEW S, NEW a \in Seq(S), NEW n \in 0..Len(a)
  PROVE  /\ SubSeq(a, n + 1, Len(a)) \in Seq(S)
         /\ Len(SubSeq(a, n + 1, Len(a))) = Len(a) - n
         /\ \A i \in 1..(Len(a) - n) : SubSeq(a, n + 1, Len(a))[i] = a[n + i]
OBVIOUS

\* Concatenation is associative.
LEMMA Rejoin ==
  ASSUME NEW S, NEW a \in Seq(S), NEW h \in Seq(S), NEW t \in Seq(S)
  PROVE  (a \o h) \o t = a \o (h \o t)
BY ConcatAssociative

\* Taking elements off the front of a concatenation.
LEMMA DropFront ==
  ASSUME NEW S, NEW a \in Seq(S), NEW b \in Seq(S), NEW n \in 0..Len(a)
  PROVE  SubSeq(a \o b, n + 1, Len(a \o b)) = SubSeq(a, n + 1, Len(a)) \o b
<1> DEFINE h == SubSeq(a, 1, n)
           t == SubSeq(a, n + 1, Len(a))
           u == t \o b
<1>1. a = h \o t /\ h \in Seq(S) /\ t \in Seq(S) /\ Len(h) = n
  BY SplitAgain
<1> HIDE DEF h, t
<1>2. a \o b = h \o u
  BY <1>1, ConcatAssociative
<1>3. u \in Seq(S) /\ Len(u) \in Nat
  BY <1>1
<1> HIDE DEF u
<1>4. Len(h \o u) = n + Len(u) /\ h \o u \in Seq(S)
  BY <1>1, <1>3, ConcatProperties
<1>5. SubSeq(h \o u, n + 1, n + Len(u)) = u
  <2>1. CASE Len(u) = 0
    <3>1. SubSeq(h \o u, n + 1, n + Len(u)) = << >>
      BY <2>1, SubSeqEmpty
    <3> QED BY <1>3, <2>1, <3>1
  <2>2. CASE Len(u) # 0
    <3>1. /\ n + 1 \in Len(h) + 1 .. Len(h) + Len(u)
          /\ n + Len(u) \in Len(h) + 1 .. Len(h) + Len(u)
          /\ (n + 1) - Len(h) = 1 /\ (n + Len(u)) - Len(h) = Len(u)
      BY <1>1, <1>3, <2>2
    <3>2. SubSeq(h \o u, n + 1, n + Len(u)) = SubSeq(u, 1, Len(u))
      BY <1>1, <1>3, <3>1, SubSeqOfConcat2
    <3> QED BY <1>3, <3>2, SubSeqFull
  <2> QED BY <2>1, <2>2
<1> QED BY <1>2, <1>4, <1>5 DEF u, t

\* The end of the end of a sequence.
LEMMA SuffixOfSuffix ==
  ASSUME NEW S, NEW a \in Seq(S), NEW n \in 0..Len(a), NEW i \in 1..(Len(a) - n + 1)
  PROVE  LET t == SubSeq(a, n + 1, Len(a)) IN
         SubSeq(t, i, Len(t)) = SubSeq(a, n + i, Len(a))
<1> DEFINE t == SubSeq(a, n + 1, Len(a))
           x == SubSeq(t, i, Len(t))
           y == SubSeq(a, n + i, Len(a))
<1>1. /\ Len(a) \in Nat /\ t \in Seq(S) /\ Len(t) = Len(a) - n
      /\ \A j \in 1..(Len(a) - n) : t[j] = a[n + j]
  BY SuffixIs
<1> HIDE DEF t
<1>2. x \in Seq(S) /\ Len(x) = Len(t) + 1 - i /\ \A j \in 1..Len(x) : x[j] = t[i + j - 1]
  BY <1>1
<1>3. y \in Seq(S) /\ Len(y) = Len(t) + 1 - i /\ \A j \in 1..Len(y) : y[j] = a[n + i + j - 1]
  BY <1>1
<1> HIDE DEF x, y
<1>4. ASSUME NEW j \in 1..Len(x) PROVE x[j] = y[j]
  <2>1. i + j - 1 \in 1..(Len(a) - n) /\ n + (i + j - 1) = n + i + j - 1 /\ j \in 1..Len(y)
    BY <1>1, <1>2, <1>3
  <2> QED BY <1>1, <1>2, <1>3, <2>1
<1>5. x = y
  BY <1>2, <1>3, <1>4, SeqEqual
<1> QED BY <1>5 DEF x, y, t

\* A symbol of one character, or of two.
One(c, kind) == [word |-> <<c>>, kind |-> kind]
Two(c, d, kind) == [word |-> <<c, d>>, kind |-> kind]

\* All of them.
LEMMA SymbolsAre ==
  \A b : b \in Symbols <=>
    \/ b = One("(", "T_LPAR") \/ b = One(")", "T_RPAR")
    \/ b = One("+", "T_PLUS") \/ b = One("*", "T_STAR")
    \/ b = One("-", "T_MINUS") \/ b = Two("-", ">", "T_ARROW")
    \/ b = One("=", "T_EQ") \/ b = Two("=", "=", "T_EQEQ")
    \/ b = One(";", "T_SEMI") \/ b = Two(";", ";", "T_SEMISEMI")
    \/ b = One("/", "T_SLASH")
BY Zenon DEF Symbols, One, Two

\* How long a symbol is, and whether it is at the beginning of a text.
HasLen(b, n) == Len(b.word) \in Nat /\ Len(b.word) = n
Here(b, z) == IsPrefix(b.word, z)

\* When a symbol is at the beginning of a text.
LEMMA SymbolHere ==
  ASSUME NEW z, IsText(z), Len(z) >= 2
  PROVE  /\ \A c, kind : Here(One(c, kind), z) <=> z[1] = c
         /\ \A c, d, kind : Here(Two(c, d, kind), z) <=> z[1] = c /\ z[2] = d
         /\ \A c, kind : HasLen(One(c, kind), 1) /\ One(c, kind).kind = kind
         /\ \A c, d, kind : HasLen(Two(c, d, kind), 2) /\ Two(c, d, kind).kind = kind
<1>1. Len(z) \in Nat
  BY TextLen
<1>2. ASSUME NEW c, NEW kind PROVE Here(One(c, kind), z) <=> z[1] = c
  <2> DEFINE a == <<c>>
  <2>1. IsText(a) /\ Len(a) = 1 /\ a[1] = c
    <3>1. a \in Seq({c})
      OBVIOUS
    <3> QED BY <3>1 DEF IsText
  <2>2. One(c, kind).word = a
    BY DEF One
  <2> HIDE DEF a
  <2>3. IsPrefix(a, z) <=> Len(a) <= Len(z) /\ \A i \in 1..Len(a) : a[i] = z[i]
    BY <2>1, PrefixIs
  <2>4. \A i : i \in 1..Len(a) <=> i = 1
    BY <2>1
  <2>5. IsPrefix(a, z) <=> z[1] = c
    BY <1>1, <2>1, <2>3, <2>4
  <2> QED BY <2>2, <2>5 DEF Here
<1>3. ASSUME NEW c, NEW d, NEW kind PROVE Here(Two(c, d, kind), z) <=> z[1] = c /\ z[2] = d
  <2> DEFINE a == <<c, d>>
  <2>1. IsText(a) /\ Len(a) = 2 /\ a[1] = c /\ a[2] = d
    <3>1. a \in Seq({c, d})
      OBVIOUS
    <3> QED BY <3>1 DEF IsText
  <2>2. Two(c, d, kind).word = a
    BY DEF Two
  <2> HIDE DEF a
  <2>3. IsPrefix(a, z) <=> Len(a) <= Len(z) /\ \A i \in 1..Len(a) : a[i] = z[i]
    BY <2>1, PrefixIs
  <2>4. \A i : i \in 1..Len(a) <=> i = 1 \/ i = 2
    BY <2>1
  <2>5. IsPrefix(a, z) <=> z[1] = c /\ z[2] = d
    BY <1>1, <2>1, <2>3, <2>4
  <2> QED BY <2>2, <2>5 DEF Here
<1>4. \A c, kind : HasLen(One(c, kind), 1) /\ One(c, kind).kind = kind
  BY DEF One, HasLen
<1>5. \A c, d, kind : HasLen(Two(c, d, kind), 2) /\ Two(c, d, kind).kind = kind
  BY DEF Two, HasLen
<1> QED BY <1>2, <1>3, <1>4, <1>5

\* The symbol that LongestSymbol answers.
LEMMA LongestSymbolIs ==
  ASSUME NEW z, NEW x \in Symbols, Here(x, z), NEW n \in Nat, HasLen(x, n),
         \A b \in Symbols : Here(b, z) => b = x \/ (n = 2 /\ HasLen(b, 1))
  PROVE  LongestSymbol(z) = TOK(x.kind, n)
<1> DEFINE here == {symbol \in Symbols : IsPrefix(symbol.word, z)}
           longest == CHOOSE a \in here : \A b \in here : Len(b.word) <= Len(a.word)
<1>1. LongestSymbol(z) = IF here = {} THEN ERROR("invalid character")
                         ELSE TOK(longest.kind, Len(longest.word))
  BY DEF LongestSymbol
<1>2. x \in here /\ \A b \in here : b = x \/ (n = 2 /\ HasLen(b, 1))
  BY DEF Here
<1>3. Len(x.word) = n /\ Len(x.word) \in Nat
  BY DEF HasLen
<1> HIDE DEF here
<1>4. ASSUME NEW b \in here PROVE Len(b.word) <= Len(x.word)
  <2> DEFINE m == Len(b.word)
  <2>1. b = x \/ (n = 2 /\ m \in Nat /\ m = 1)
    BY <1>2 DEF HasLen
  <2>2. b = x => m = n
    BY <1>3
  <2> HIDE DEF m
  <2>3. m <= n
    BY <2>1, <2>2
  <2> QED BY <1>3, <2>3 DEF m
<1>5. longest \in here /\ Len(x.word) <= Len(longest.word)
  BY <1>2, <1>4
<1> HIDE DEF longest
<1>6. longest = x
  <2> DEFINE m == Len(longest.word)
  <2>1. longest = x \/ (n = 2 /\ m \in Nat /\ m = 1)
    BY <1>2, <1>5 DEF HasLen
  <2>2. n <= m
    BY <1>3, <1>5
  <2> HIDE DEF m
  <2> QED BY <2>1, <2>2
<1> QED BY <1>1, <1>2, <1>3, <1>6

\* What LongestSymbol answers to what there may be.
LEMMA LongestSymbolAt ==
  ASSUME NEW z, IsText(z), Len(z) >= 2
  PROVE  /\ z[1] \in DOMAIN Single => LongestSymbol(z) = TOK(Single[z[1]], 1)
         /\ z[1] \in DOMAIN Double =>
              LongestSymbol(z) = IF z[2] = Double[z[1]].second THEN TOK(Double[z[1]].two, 2)
                                 ELSE TOK(Double[z[1]].one, 1)
         /\ z[1] = "/" => LongestSymbol(z) = TOK("T_SLASH", 1)
         /\ z[1] \notin DOMAIN Single \cup DOMAIN Double \cup {"/"} =>
              LongestSymbol(z) = ERROR("invalid character")
<1>1. /\ \A c, kind : Here(One(c, kind), z) <=> z[1] = c
      /\ \A c, d, kind : Here(Two(c, d, kind), z) <=> z[1] = c /\ z[2] = d
  BY SymbolHere
<1>2. /\ \A c, kind : HasLen(One(c, kind), 1) /\ One(c, kind).kind = kind
      /\ \A c, d, kind : HasLen(Two(c, d, kind), 2) /\ Two(c, d, kind).kind = kind
  BY SymbolHere
<1>3. ASSUME NEW c, NEW kind, One(c, kind) \in Symbols, z[1] = c,
             \A b \in Symbols : Here(b, z) => b = One(c, kind)
      PROVE  LongestSymbol(z) = TOK(kind, 1)
  <2> DEFINE x == One(c, kind)
  <2>1. x.kind = kind /\ HasLen(x, 1) /\ Here(x, z) /\ 1 \in Nat
    BY <1>1, <1>2, <1>3
  <2>2. x \in Symbols /\ \A b \in Symbols : Here(b, z) => b = x
    BY <1>3
  <2> HIDE DEF x
  <2>3. LongestSymbol(z) = TOK(x.kind, 1)
    BY <2>1, <2>2, LongestSymbolIs
  <2> QED BY <2>1, <2>3
<1>4. ASSUME NEW c, NEW d, NEW kind, Two(c, d, kind) \in Symbols, z[1] = c, z[2] = d,
             \A b \in Symbols : Here(b, z) => b = Two(c, d, kind) \/ HasLen(b, 1)
      PROVE  LongestSymbol(z) = TOK(kind, 2)
  <2> DEFINE x == Two(c, d, kind)
  <2>1. x.kind = kind /\ HasLen(x, 2) /\ Here(x, z) /\ 2 \in Nat
    BY <1>1, <1>2, <1>4
  <2>2. x \in Symbols /\ \A b \in Symbols : Here(b, z) => b = x \/ (2 = 2 /\ HasLen(b, 1))
    BY <1>4
  <2> HIDE DEF x
  <2>3. LongestSymbol(z) = TOK(x.kind, 2)
    BY <2>1, <2>2, LongestSymbolIs
  <2> QED BY <2>1, <2>3
<1>5. \A b \in Symbols : Here(b, z) =>
        \/ b = One("(", "T_LPAR") /\ z[1] = "("
        \/ b = One(")", "T_RPAR") /\ z[1] = ")"
        \/ b = One("+", "T_PLUS") /\ z[1] = "+"
        \/ b = One("*", "T_STAR") /\ z[1] = "*"
        \/ b = One("-", "T_MINUS") /\ z[1] = "-"
        \/ b = Two("-", ">", "T_ARROW") /\ z[1] = "-" /\ z[2] = ">"
        \/ b = One("=", "T_EQ") /\ z[1] = "="
        \/ b = Two("=", "=", "T_EQEQ") /\ z[1] = "=" /\ z[2] = "="
        \/ b = One(";", "T_SEMI") /\ z[1] = ";"
        \/ b = Two(";", ";", "T_SEMISEMI") /\ z[1] = ";" /\ z[2] = ";"
        \/ b = One("/", "T_SLASH") /\ z[1] = "/"
  <2> SUFFICES ASSUME NEW b \in Symbols, Here(b, z) PROVE
        \/ b = One("(", "T_LPAR") /\ z[1] = "("
        \/ b = One(")", "T_RPAR") /\ z[1] = ")"
        \/ b = One("+", "T_PLUS") /\ z[1] = "+"
        \/ b = One("*", "T_STAR") /\ z[1] = "*"
        \/ b = One("-", "T_MINUS") /\ z[1] = "-"
        \/ b = Two("-", ">", "T_ARROW") /\ z[1] = "-" /\ z[2] = ">"
        \/ b = One("=", "T_EQ") /\ z[1] = "="
        \/ b = Two("=", "=", "T_EQEQ") /\ z[1] = "=" /\ z[2] = "="
        \/ b = One(";", "T_SEMI") /\ z[1] = ";"
        \/ b = Two(";", ";", "T_SEMISEMI") /\ z[1] = ";" /\ z[2] = ";"
        \/ b = One("/", "T_SLASH") /\ z[1] = "/"
    OBVIOUS
  <2>1. \A c, kind : b = One(c, kind) => z[1] = c
    BY <1>1
  <2>2. \A c, d, kind : b = Two(c, d, kind) => z[1] = c /\ z[2] = d
    BY <1>1
  <2>3. \/ b = One("(", "T_LPAR") \/ b = One(")", "T_RPAR")
        \/ b = One("+", "T_PLUS") \/ b = One("*", "T_STAR")
        \/ b = One("-", "T_MINUS") \/ b = Two("-", ">", "T_ARROW")
        \/ b = One("=", "T_EQ") \/ b = Two("=", "=", "T_EQEQ")
        \/ b = One(";", "T_SEMI") \/ b = Two(";", ";", "T_SEMISEMI")
        \/ b = One("/", "T_SLASH")
    BY SymbolsAre
  <2> QED BY ZenonT(60), <2>1, <2>2, <2>3
<1>6. z[1] = "(" => LongestSymbol(z) = TOK("T_LPAR", 1)
  BY <1>3, <1>5, SymbolsAre
<1>7. z[1] = ")" => LongestSymbol(z) = TOK("T_RPAR", 1)
  BY <1>3, <1>5, SymbolsAre
<1>8. z[1] = "+" => LongestSymbol(z) = TOK("T_PLUS", 1)
  BY <1>3, <1>5, SymbolsAre
<1>9. z[1] = "*" => LongestSymbol(z) = TOK("T_STAR", 1)
  BY <1>3, <1>5, SymbolsAre
<1>10. z[1] = "/" => LongestSymbol(z) = TOK("T_SLASH", 1)
  BY <1>3, <1>5, SymbolsAre
<1>11. \A c, kind : HasLen(One(c, kind), 1)
  BY <1>2
<1>12. z[1] = "-" => LongestSymbol(z) = IF z[2] = ">" THEN TOK("T_ARROW", 2) ELSE TOK("T_MINUS", 1)
  BY <1>3, <1>4, <1>5, <1>11, SymbolsAre
<1>13. z[1] = "=" => LongestSymbol(z) = IF z[2] = "=" THEN TOK("T_EQEQ", 2) ELSE TOK("T_EQ", 1)
  BY <1>3, <1>4, <1>5, <1>11, SymbolsAre
<1>14. z[1] = ";" => LongestSymbol(z) = IF z[2] = ";" THEN TOK("T_SEMISEMI", 2)
                                        ELSE TOK("T_SEMI", 1)
  BY <1>3, <1>4, <1>5, <1>11, SymbolsAre
<1>15. ASSUME z[1] \notin DOMAIN Single \cup DOMAIN Double \cup {"/"}
       PROVE  LongestSymbol(z) = ERROR("invalid character")
  <2>1. \A b \in Symbols : ~Here(b, z)
    BY <1>5, <1>15, OperatorsAre
  <2>2. {symbol \in Symbols : IsPrefix(symbol.word, z)} = {}
    BY <2>1 DEF Here
  <2> QED BY <2>2 DEF LongestSymbol
<1>16. z[1] \in DOMAIN Single => LongestSymbol(z) = TOK(Single[z[1]], 1)
  BY <1>6, <1>7, <1>8, <1>9, OperatorsAre
<1>17. z[1] \in DOMAIN Double =>
         LongestSymbol(z) = IF z[2] = Double[z[1]].second THEN TOK(Double[z[1]].two, 2)
                            ELSE TOK(Double[z[1]].one, 1)
  BY <1>12, <1>13, <1>14, OperatorsAre
<1> QED BY <1>10, <1>15, <1>16, <1>17

\* The characters by which a token is recognised are different.
LEMMA CharactersDiffer ==
  /\ \A c \in {"(", ")", "+", "*", "-", "=", ";", "/", Quote, "\n"} : c \notin IdentChar
  /\ Digit \subseteq IdentChar /\ "\n" \notin NumberChar
  /\ \A c \in {"(", ")", "+", "*"} : c \notin {"-", "=", ";", "/", Quote, "\n"}
  /\ \A c \in {"-", "=", ";"} : c \notin {"/", Quote, "\n"}
  /\ "/" # Quote /\ "/" # "\n" /\ Quote # "\n" /\ "/" # "*"
<1>1. ASSUME NEW c \in {"(", ")", "+", "*", "-", "=", ";", "/", "\n"} PROVE c \notin IdentChar
  BY DEF IdentChar, Digit
<1>2. Quote \notin IdentChar
  BY Zenon DEF IdentChar, Digit, Quote
<1>3. Quote # "\n" /\ \A c \in {"(", ")", "+", "*", "-", "=", ";", "/"} : c # Quote
  BY Zenon DEF Quote
<1>4. Digit \subseteq IdentChar
  BY DEF IdentChar
<1>5. "\n" \notin NumberChar
  BY DEF NumberChar, Digit
<1> QED BY <1>1, <1>2, <1>3, <1>4, <1>5

\* The run by which Lexeme takes a word.
LEMMA RunBySelect ==
  ASSUME NEW z, IsText(z), RunLength(z) # Len(z)
  PROVE  SelectInSeq(z, LAMBDA c : c \notin IdentChar) - 1 = RunLength(z)
<1> DEFINE I == {i \in 1..Len(z) : z[i] \notin IdentChar}
           n == RunLength(z)
<1>1. /\ n \in 0..Len(z) /\ Len(z) \in Nat /\ z[n + 1] \notin IdentChar
      /\ \A i \in 1..n : z[i] \in IdentChar
  BY RunIs
<1>2. SelectInSeq(z, LAMBDA c : c \notin IdentChar) = IF I # {} THEN Min(I) ELSE 0
  BY DEF SelectInSeq
<1> HIDE DEF n
<1>3. n + 1 \in I /\ \A i \in I : n + 1 <= i
  BY <1>1 DEF n
<1>4. I \in SUBSET Nat
  OBVIOUS
<1> HIDE DEF I
<1> DEFINE m == Min(I)
<1>5. m \in I /\ \A i \in I : m <= i
  BY <1>3, <1>4, MinIs
<1> HIDE DEF m
<1>6. m = n + 1
  <2>1. n + 1 <= m /\ m <= n + 1
    BY <1>3, <1>5
  <2>2. m \in Nat /\ n \in Nat
    BY <1>1, <1>4, <1>5
  <2> QED BY <2>1, <2>2
<1>7. SelectInSeq(z, LAMBDA c : c \notin IdentChar) = m
  BY <1>2, <1>3 DEF m
<1>8. m - 1 = n
  BY <1>1, <1>6
<1> QED BY <1>7, <1>8 DEF n
\* What Lexeme answers to a text that begins with neither space nor a comment.
LEMMA LexemeAt ==
  ASSUME NEW z, IsText(z), Len(z) >= 2
  PROVE  /\ z[1] \in IdentChar \ Digit /\ RunLength(z) # Len(z) =>
              Lexeme(z) = Lexed(WordOf(Run(z)), RunLength(z))
         /\ z[1] \in Digit => Lexeme(z) = Number(z)
         /\ z[1] = Quote => Lexeme(z) = String(z)
         /\ z[1] = "/" => Lexeme(z) = IF z[2] = "*" THEN TOK("panic", 0) ELSE TOK("T_SLASH", 1)
         /\ z[1] \notin IdentChar \cup {Quote, "/"} => Lexeme(z) = LongestSymbol(z)
<1> DEFINE run == SelectInSeq(z, LAMBDA c : c \notin IdentChar) - 1
           word == Lexed(WordOf(SubSeq(z, 1, run)), run)
<1>1. Lexeme(z) =
        IF z[1] \in IdentChar \ Digit THEN word
        ELSE IF z[1] \in Digit THEN Number(z)
        ELSE IF z[1] = Quote THEN String(z)
        ELSE IF IsPrefix(<<"/", "*">>, z) THEN TOK("panic", 0)
        ELSE LongestSymbol(z)
  BY Zenon DEF Lexeme, Quote
<1>2. RunLength(z) # Len(z) => word = Lexed(WordOf(Run(z)), RunLength(z))
  <2> SUFFICES ASSUME RunLength(z) # Len(z) PROVE word = Lexed(WordOf(Run(z)), RunLength(z))
    OBVIOUS
  <2>1. run = RunLength(z)
    BY RunBySelect
  <2> HIDE DEF run
  <2> QED BY <2>1 DEF Run
<1>3. IsPrefix(<<"/", "*">>, z) <=> z[1] = "/" /\ z[2] = "*"
  <2>1. Here(Two("/", "*", "panic"), z) <=> z[1] = "/" /\ z[2] = "*"
    BY SymbolHere
  <2> QED BY <2>1 DEF Here, Two
<1> DEFINE block == IsPrefix(<<"/", "*">>, z)
<1> HIDE DEF word, block
<1>4. Lexeme(z) =
        IF z[1] \in IdentChar \ Digit THEN word
        ELSE IF z[1] \in Digit THEN Number(z)
        ELSE IF z[1] = Quote THEN String(z)
        ELSE IF block THEN TOK("panic", 0)
        ELSE LongestSymbol(z)
  BY <1>1 DEF block
<1>5. block <=> z[1] = "/" /\ z[2] = "*"
  BY <1>3 DEF block
<1>6. z[1] \in Digit => Lexeme(z) = Number(z)
  BY <1>4
<1>7. z[1] = Quote => Lexeme(z) = String(z)
  BY <1>4, CharactersDiffer
<1>8. z[1] = "/" => Lexeme(z) = IF z[2] = "*" THEN TOK("panic", 0) ELSE TOK("T_SLASH", 1)
  <2> SUFFICES ASSUME z[1] = "/"
               PROVE  Lexeme(z) = IF z[2] = "*" THEN TOK("panic", 0) ELSE TOK("T_SLASH", 1)
    OBVIOUS
  <2>1. z[1] \notin IdentChar /\ z[1] \notin Digit /\ z[1] # Quote
    BY CharactersDiffer
  <2>2. LongestSymbol(z) = TOK("T_SLASH", 1)
    BY LongestSymbolAt
  <2> QED BY <1>4, <1>5, <2>1, <2>2
<1>9. z[1] \notin IdentChar \cup {Quote, "/"} => Lexeme(z) = LongestSymbol(z)
  <2>1. Digit \subseteq IdentChar
    BY CharactersDiffer
  <2> QED BY <1>4, <1>5, <2>1
<1>10. z[1] \in IdentChar \ Digit => Lexeme(z) = word
  BY <1>4
<1> QED BY <1>2, <1>6, <1>7, <1>8, <1>9, <1>10
\* What Token answers by the first character.
LEMMA TokenAt ==
  ASSUME NEW s, IsText(s), Len(s) >= 1
  PROVE  /\ s[1] \in DOMAIN Single => Token(s) = TOK(Single[s[1]], 1)
         /\ s[1] \in DOMAIN Double => Token(s) = Symbol(s)
         /\ s[1] = "/" => Token(s) = Slash(s)
         /\ s[1] = Quote => Token(s) = String(s)
         /\ s[1] \in Digit => Token(s) = Number(s)
         /\ s[1] \notin DOMAIN Single \cup DOMAIN Double \cup {"/", Quote} \cup Digit
              => Token(s) = Word(s)
<1>1. Len(s) \in Nat /\ s # << >>
  BY TextLen
<1>3. /\ s[1] \in DOMAIN Single => /\ s[1] \notin DOMAIN Double /\ s[1] # "/" /\ s[1] # Quote
                                   /\ s[1] \notin Digit
      /\ s[1] \in DOMAIN Double => s[1] # "/" /\ s[1] # Quote /\ s[1] \notin Digit
      /\ "/" # Quote /\ "/" \notin Digit /\ Quote \notin Digit
  BY OperatorsAre, CharactersDiffer
<1>4. /\ Is(s, 1, DOMAIN Single) <=> s[1] \in DOMAIN Single
      /\ Is(s, 1, DOMAIN Double) <=> s[1] \in DOMAIN Double
      /\ Is(s, 1, {"/"}) <=> s[1] = "/"
      /\ Is(s, 1, {Quote}) <=> s[1] = Quote
      /\ Is(s, 1, Digit) <=> s[1] \in Digit
  BY <1>1 DEF Is
<1>5. s[1] \in DOMAIN Single => Token(s) = TOK(Single[s[1]], 1)
  BY Zenon, <1>1, <1>3, <1>4 DEF Token
<1>6. s[1] \in DOMAIN Double => Token(s) = Symbol(s)
  BY Zenon, <1>1, <1>3, <1>4 DEF Token
<1>7. s[1] = "/" => Token(s) = Slash(s)
  BY Zenon, <1>1, <1>3, <1>4 DEF Token
<1>8. s[1] = Quote => Token(s) = String(s)
  BY Zenon, <1>1, <1>3, <1>4 DEF Token
<1>9. s[1] \in Digit => Token(s) = Number(s)
  BY Zenon, <1>1, <1>3, <1>4 DEF Token
<1>10. s[1] \notin DOMAIN Single \cup DOMAIN Double \cup {"/", Quote} \cup Digit
         => Token(s) = Word(s)
  BY Zenon, <1>1, <1>4 DEF Token
<1> QED BY <1>5, <1>6, <1>7, <1>8, <1>9, <1>10

\* A text ends with a newline.
Proper(z) == Len(z) # 0 => z[Len(z)] = "\n"

\* A token that is found in a part of a text is what the text begins with.
LEMMA LexemeAgrees ==
  ASSUME NEW y, NEW z, Begins(y, z), Proper(z), Len(y) >= 1, y[1] # "\n", Final(Token(y))
  PROVE  Lexeme(z) = Token(y)
<1>1. /\ Len(y) \in Nat /\ Len(z) \in Nat /\ Len(y) <= Len(z) /\ IsText(y) /\ IsText(z)
      /\ 1 \in 1..Len(y)
  BY BeginsLooksSame DEF Begins, IsText
<1>2. y[1] = z[1]
  BY <1>1, BeginsLooksSame
<1>3. Len(z) >= 2
  BY <1>1, <1>2 DEF Proper
<1>4. Peek(y, 2) # EOF => Peek(y, 2) = z[2]
  BY <1>1, BeginsLooksSame DEF Peek
<1>5. CASE y[1] \in DOMAIN Single
  <2>1. Token(y) = TOK(Single[y[1]], 1)
    BY <1>1, <1>5, TokenAt
  <2>2. z[1] \in DOMAIN Single /\ z[1] \notin IdentChar \cup {Quote, "/"}
    BY <1>2, <1>5, OperatorsAre, CharactersDiffer
  <2> QED BY <1>1, <1>2, <1>3, <2>1, <2>2, LexemeAt, LongestSymbolAt
<1>6. CASE y[1] \in DOMAIN Double
  <2> DEFINE d == Double[y[1]]
  <2>1. Token(y) = Symbol(y)
    BY <1>1, <1>6, TokenAt
  <2>2. z[1] \in DOMAIN Double /\ z[1] \notin IdentChar \cup {Quote, "/"}
    BY <1>2, <1>6, OperatorsAre, CharactersDiffer
  <2>3. Symbol(y) = IF Peek(y, 2) = EOF THEN INCOMPLETE
                    ELSE IF Peek(y, 2) = d.second THEN TOK(d.two, 2) ELSE TOK(d.one, 1)
    BY DEF Symbol
  <2>4. Lexeme(z) = IF z[2] = d.second THEN TOK(d.two, 2) ELSE TOK(d.one, 1)
    BY <1>1, <1>2, <1>3, <2>2, LexemeAt, LongestSymbolAt
  <2> HIDE DEF d
  <2> QED BY <1>4, <2>1, <2>3, <2>4, FinalIs
<1>7. CASE y[1] = "/"
  <2>1. Token(y) = Slash(y)
    BY <1>1, <1>7, TokenAt
  <2>2. /\ Peek(y, 2) # EOF
        /\ Slash(y) = IF Peek(y, 2) = "*" THEN TOK("panic", 0) ELSE TOK("T_SLASH", 1)
    <3>1. "*" # EOF
      BY DEF EOF
    <3>2. Peek(y, 2) # EOF
      <4>1. Peek(y, 2) = EOF => Slash(y) = INCOMPLETE
        BY Zenon, <3>1 DEF Slash
      <4> QED BY <2>1, <4>1, FinalIs
    <3> QED BY Zenon, <3>2 DEF Slash
  <2>3. Lexeme(z) = IF z[2] = "*" THEN TOK("panic", 0) ELSE TOK("T_SLASH", 1)
    BY <1>1, <1>2, <1>3, <1>7, LexemeAt
  <2> QED BY <1>4, <2>1, <2>2, <2>3
<1>8. CASE y[1] = Quote
  <2>1. Token(y) = String(y)
    BY <1>1, <1>8, TokenAt
  <2>2. Lexeme(z) = String(z)
    BY <1>1, <1>2, <1>3, <1>8, LexemeAt
  <2>3. String(z) = String(y)
    BY <1>1, <2>1, StringStays
  <2> QED BY <2>1, <2>2, <2>3
<1>9. CASE y[1] \in Digit
  <2>1. Token(y) = Number(y)
    BY <1>1, <1>9, TokenAt
  <2>2. Lexeme(z) = Number(z)
    BY <1>1, <1>2, <1>3, <1>9, LexemeAt
  <2>3. Number(z) = Number(y)
    BY <2>1, NumberStays
  <2> QED BY <2>1, <2>2, <2>3
<1>10. CASE y[1] \notin DOMAIN Single \cup DOMAIN Double \cup {"/", Quote} \cup Digit
  <2>1. Token(y) = Word(y)
    BY <1>1, <1>10, TokenAt
  <2>2. RunLength(y) # Len(y)
    BY <1>1, <2>1, WordInRun
  <2>3. Word(y) = IF RunLength(y) = 0 THEN ERROR("invalid character")
                  ELSE Lexed(WordOf(Run(y)), RunLength(y))
    BY <1>1, <2>2, WordIsRun
  <2>4. /\ RunLength(y) \in 0..Len(y) /\ \A i \in 1..RunLength(y) : y[i] \in IdentChar
        /\ RunLength(y) # Len(y) => y[RunLength(y) + 1] \notin IdentChar
    BY <1>1, RunIs
  <2>5. RunLength(z) = RunLength(y) /\ RunLength(z) # Len(z)
    <3>1. After(y, 1, IdentChar) \in 1..(Len(y) + 1) /\ After(y, 1, IdentChar) # Len(y) + 1
      <4>1. After(y, 1, IdentChar) \in 1..(Len(y) + 1)
        BY <1>1, AfterIs
      <4> QED BY <1>1, <2>2, <4>1 DEF RunLength
    <3>2. After(y, 1, IdentChar) <= Len(y)
      BY <1>1, <3>1
    <3>3. After(z, 1, IdentChar) = After(y, 1, IdentChar)
      BY <1>1, <3>2, BeginsAfter
    <3> QED BY <1>1, <3>1, <3>3 DEF RunLength
  <2>6. CASE RunLength(y) = 0
    <3>0. y[1] \notin IdentChar
      <4>1. RunLength(y) # Len(y) /\ RunLength(y) + 1 = 1
        BY <1>1, <2>6
      <4> QED BY <2>4, <4>1
    <3>1. /\ z[1] \notin IdentChar \cup {Quote, "/"}
          /\ z[1] \notin DOMAIN Single \cup DOMAIN Double \cup {"/"}
      BY <1>2, <1>10, <3>0
    <3>2. Lexeme(z) = LongestSymbol(z)
      BY <1>1, <1>3, <3>1, LexemeAt
    <3>3. LongestSymbol(z) = ERROR("invalid character")
      BY <1>1, <1>3, <3>1, LongestSymbolAt
    <3> QED BY <2>1, <2>3, <2>6, <3>2, <3>3
  <2>7. CASE RunLength(y) # 0
    <3>0. y[1] \in IdentChar
      <4>1. 1 \in 1..RunLength(y)
        BY <1>1, <2>4, <2>7
      <4> QED BY <2>4, <4>1
    <3>1. z[1] \in IdentChar \ Digit
      BY <1>2, <1>10, <3>0
    <3>2. Lexeme(z) = Lexed(WordOf(Run(z)), RunLength(z))
      BY <1>1, <1>3, <2>5, <3>1, LexemeAt
    <3>3. Run(z) = Run(y)
      <4>1. RunLength(y) \in Nat /\ RunLength(y) <= Len(y) /\ 1 \in Nat \ {0}
        BY <1>1, <2>4
      <4>2. SubSeq(y, 1, RunLength(y)) = SubSeq(z, 1, RunLength(y))
        BY <4>1, BeginsSubSeq
      <4> QED BY <2>5, <4>2 DEF Run
    <3> QED BY <2>1, <2>3, <2>5, <2>7, <3>2, <3>3
  <2> QED BY <2>6, <2>7
<1> QED BY <1>5, <1>6, <1>7, <1>8, <1>9, <1>10

\* A word is of a kind of its own.
LEMMA WordOfIs == \A run : WordOf(run).kind \in Kinds
<1> SUFFICES ASSUME NEW run PROVE WordOf(run).kind \in Kinds
  OBVIOUS
<1> DEFINE k == {i \in DOMAIN Keywords : Keywords[i].word = run}
           w == WordOf(run)
<1>1. k # {} => Min(k) \in DOMAIN Keywords
  <2>1. k \in SUBSET Nat /\ k \in SUBSET DOMAIN Keywords
    BY KeywordsAre
  <2> HIDE DEF k
  <2> QED BY <2>1, MinIs
<1>2. w = IF k = {} THEN [kind |-> "T_IDENT", ident |-> run]
          ELSE [kind |-> Keywords[Min(k)].kind]
  BY DEF WordOf
<1> HIDE DEF k, w
<1>3. CASE k = {}
  <2>1. w.kind = "T_IDENT"
    BY <1>2, <1>3
  <2> QED BY <2>1 DEF w, Kinds
<1>4. CASE k # {}
  <2>1. w.kind = Keywords[Min(k)].kind
    BY <1>2, <1>4
  <2> QED BY <1>1, <1>4, <2>1 DEF w, Kinds
<1> QED BY <1>3, <1>4

\* Only a string can be unfinished when nothing more is to be read.
LEMMA UnfinishedAgrees ==
  ASSUME NEW z, IsText(z), NoEOF(z), Proper(z), Len(z) >= 1, z[1] # "\n", ~Final(Token(z))
  PROVE  Lexeme(z) = Token(z)
<1>1. Len(z) \in Nat /\ Len(z) >= 2 /\ z[Len(z)] = "\n"
  BY TextLen DEF Proper
<1>2. Peek(z, 2) # EOF
  BY <1>1 DEF Peek, NoEOF
<1>3. z[1] \notin DOMAIN Single
  <2>1. z[1] \in DOMAIN Single => Final(TOK(Single[z[1]], 1))
    BY OperatorsAre, FinalIs
  <2> QED BY <1>1, <2>1, TokenAt
<1>4. z[1] \notin DOMAIN Double
  <2>1. z[1] \in DOMAIN Double => Final(Symbol(z))
    <3>1. z[1] \in DOMAIN Double => Double[z[1]].two \in Kinds /\ Double[z[1]].one \in Kinds
      BY DEF Kinds
    <3>2. z[1] \in DOMAIN Double => /\ Double[z[1]].two # "T_INCOMPLETE"
                                   /\ Double[z[1]].one # "T_INCOMPLETE"
      BY <3>1, KindsAreNone DEF Others
    <3> QED BY <1>2, <3>2, FinalIs DEF Symbol
  <2> QED BY <1>1, <2>1, TokenAt
<1>5. z[1] # "/"
  <2>1. Slash(z) = TOK("panic", 0) \/ Slash(z) = TOK("T_SLASH", 1)
    BY Zenon, <1>2 DEF Slash
  <2> QED BY <1>1, <2>1, TokenAt, FinalIs
<1>6. z[1] \notin Digit
  <2> SUFFICES ASSUME z[1] \in Digit PROVE FALSE
    OBVIOUS
  <2> DEFINE n == After(z, 1, NumberChar) - 1
  <2>1. Number(z) = IF n = Len(z) THEN INCOMPLETE ELSE Lexed(NumberToken(SubSeq(z, 1, n)), n)
    BY DEF Number
  <2>2. n # Len(z)
    <3>1. /\ After(z, 1, NumberChar) \in 1..(Len(z) + 1)
          /\ \A j \in 1..(After(z, 1, NumberChar) - 1) : Is(z, j, NumberChar)
      BY <1>1, AfterIs, BeforeAfter
    <3>2. ~Is(z, Len(z), NumberChar)
      BY <1>1, CharactersDiffer DEF Is
    <3> QED BY <1>1, <3>1, <3>2
  <2>3. NumberToken(SubSeq(z, 1, n)).kind = "T_NUM"
    BY DEF NumberToken
  <2> HIDE DEF n
  <2>4. Final(Number(z))
    BY <2>1, <2>2, <2>3 DEF Final, Lexed
  <2> QED BY <1>1, <2>4, TokenAt
<1>7. z[1] = Quote
  <2> SUFFICES ASSUME z[1] # Quote PROVE FALSE
    OBVIOUS
  <2>1. Token(z) = Word(z)
    BY <1>1, <1>3, <1>4, <1>5, <1>6, TokenAt
  <2>2. /\ RunLength(z) \in 0..Len(z) /\ \A i \in 1..RunLength(z) : z[i] \in IdentChar
    BY RunIs
  <2>3. RunLength(z) # Len(z)
    <3>1. Len(z) \in 1..Len(z)
      BY <1>1
    <3>3. z[Len(z)] \notin IdentChar
      BY <1>1, CharactersDiffer
    <3>2. \A m : m = RunLength(z) /\ m \in 1..m => z[m] \in IdentChar
      BY <2>2
    <3> QED BY <3>1, <3>2, <3>3
  <2>4. Word(z) = IF RunLength(z) = 0 THEN ERROR("invalid character")
                  ELSE Lexed(WordOf(Run(z)), RunLength(z))
    BY <2>3, WordIsRun
  <2>5. WordOf(Run(z)).kind # "T_INCOMPLETE"
    BY WordOfIs, KindsAreNone DEF Others
  <2>6. Final(Word(z))
    <3> DEFINE w == WordOf(Run(z))
               r == ERROR("invalid character")
    <3>1. Word(z) = r \/ Word(z) = Lexed(w, RunLength(z))
      BY <2>4
    <3>2. Final(r)
      BY FinalIs
    <3>3. Lexed(w, RunLength(z)).tok = w
      BY DEF Lexed
    <3> HIDE DEF w, r
    <3> QED BY <2>5, <3>1, <3>2, <3>3 DEF Final, w
  <2> QED BY <2>1, <2>6
<1> QED BY <1>1, <1>7, LexemeAt, TokenAt

\* A text, or what is left of one.
Source(s) == IsText(s) /\ NoEOF(s) /\ Proper(s)

\* What is left of a text without its first k characters.
LEMMA SourceRest ==
  ASSUME NEW s, Source(s), NEW k \in 0..Len(s)
  PROVE  LET t == SubSeq(s, k + 1, Len(s)) IN
         /\ Source(t) /\ IsRest(t, s, k)
         /\ \A i \in 1..(Len(t) + 1) : SubSeq(t, i, Len(t)) = SubSeq(s, k + i, Len(s))
<1> DEFINE t == SubSeq(s, k + 1, Len(s))
<1>1. PICK C : s \in Seq(C)
  BY DEF Source, IsText
<1>2. /\ Len(s) \in Nat /\ t \in Seq(C) /\ Len(t) = Len(s) - k
      /\ \A i \in 1..Len(t) : t[i] = s[k + i]
  BY <1>1
<1> HIDE DEF t
<1>3. IsRest(t, s, k)
  BY <1>2 DEF IsRest
<1>4. NoEOF(t)
  BY <1>2 DEF NoEOF, Source
<1>5. Proper(t)
  <2> SUFFICES ASSUME Len(t) # 0 PROVE t[Len(t)] = "\n"
    BY DEF Proper
  <2>1. Len(s) # 0 /\ t[Len(t)] = s[k + Len(t)] /\ k + Len(t) = Len(s)
    BY <1>2
  <2> QED BY <2>1 DEF Source, Proper
<1>6. \A i \in 1..(Len(t) + 1) : SubSeq(t, i, Len(t)) = SubSeq(s, k + i, Len(s))
  BY <1>1, <1>2, SuffixOfSuffix DEF t
<1>7. Source(t)
  BY <1>2, <1>4, <1>5 DEF Source, IsText
<1> QED BY <1>3, <1>6, <1>7 DEF t

\* The lexeme at the beginning of a text is the token that is there.
LEMMA LexemeIsToken ==
  ASSUME NEW z, Source(z), Len(z) >= 1, z[1] # "\n"
  PROVE  Lexeme(z) = Token(z)
<1>1. IsText(z) /\ NoEOF(z) /\ Proper(z) /\ Len(z) \in Nat
  BY TextLen DEF Source
<1>2. Begins(z, z)
  BY <1>1 DEF Begins, IsText
<1> QED BY <1>1, <1>2, LexemeAgrees, UnfinishedAgrees

\* The position after the line of position i.
NextLine(s, i) == SelectInSubSeq(s, i, Len(s), LAMBDA c : c = "\n") + 1

\* A comment ends with its line.
LEMMA CommentIsLine ==
  ASSUME NEW s, Source(s), NEW i \in 1..(Len(s) + 1), IsComment(s, i)
  PROVE  NextLine(s, i) = CommentEnd(s, i)
<1> DEFINE nl == "\n"
           I == {j \in i..Len(s) : s[j] = nl}
           m == Min(I)
<1>1. Len(s) \in Nat /\ i \in Nat \ {0}
  BY TextLen DEF Source
<1>2. NextLine(s, i) = (IF I # {} THEN Min(I) ELSE 0) + 1
  BY DEF NextLine, SelectInSubSeq
<1>3. i + 1 <= Len(s) /\ s[i] = "/" /\ s[i + 1] = "/" /\ "/" # nl
  BY <1>1 DEF IsComment, Peek, EOF
<1>4. Len(s) \in I
  BY <1>1, <1>3 DEF Source, Proper
<1>5. I \in SUBSET Nat
  BY <1>1
<1>6. \A j \in I : j \in (i + 2)..Len(s)
  BY <1>1, <1>3
<1>7. \A j : j \in I <=> j \in i..Len(s) /\ s[j] = nl
  OBVIOUS
<1> HIDE DEF I, nl
<1>8. m \in I /\ \A j \in I : m <= j
  BY <1>4, <1>5, MinIs
<1>9. NextLine(s, i) = m + 1
  BY <1>2, <1>4
<1> HIDE DEF m
<1>10. m \in (i + 2)..Len(s) /\ s[m] = nl
  BY <1>6, <1>7, <1>8
<1>11. ASSUME NEW k \in (i + 2)..((m + 1) - 1), s[k] = nl PROVE k = (m + 1) - 1
  <2>1. k \in I
    BY <1>1, <1>7, <1>10, <1>11
  <2> QED BY <1>1, <1>8, <1>10, <2>1
<1>12. EndsAt(s, i, m + 1)
  <2>1. m + 1 \in (i + 2)..(Len(s) + 1) /\ m + 1 > i + 2 /\ s[(m + 1) - 1] = nl
    BY <1>1, <1>10
  <2> QED BY <1>11, <2>1 DEF EndsAt, nl
<1>13. m + 1 = CommentEnd(s, i)
  BY <1>1, <1>12, CommentEndsAt
<1> QED BY <1>9, <1>13

\* A text in which nothing is left, and one that ends with a token that fails.
Done == [tokens |-> << >>, end |-> "done"]
Failed(kind) == [tokens |-> << >>, end |-> Ending[kind]]

\* What TokensOf computes at a position from what it computes at later ones.
TokensAt(s, f, i) ==
  IF i > Len(s) THEN Done
  ELSE IF s[i] \in Space THEN f[i + 1]
  ELSE IF IsComment(s, i) THEN f[NextLine(s, i)]
  ELSE IF Lexeme(SubSeq(s, i, Len(s))).tok.kind \in DOMAIN Ending
         THEN Failed(Lexeme(SubSeq(s, i, Len(s))).tok.kind)
  ELSE FollowedBy(Lexeme(SubSeq(s, i, Len(s))).tok, f[i + Lexeme(SubSeq(s, i, Len(s))).used])

\* f is the function by which TokensOf is computed.
TokensBy(s, f) ==
  /\ \A i \in 1..(Len(s) + 1) : f[i] = TokensAt(s, f, i)
  /\ TokensOf(s) = f[1]

\* How a text ends that does not go on.
LEMMA EndingIs ==
  /\ DOMAIN Ending = Others
  /\ Ending["T_INCOMPLETE"] = "unfinished" /\ Ending["T_ERROR"] = "malformed"
  /\ Ending["panic"] = "panic"
BY DEF Ending, Others

\* TokensOf looks at later positions only.
LEMMA TokensLater ==
  ASSUME NEW s, Source(s), NEW i \in 1..(Len(s) + 1)
  PROVE  /\ i <= Len(s) => i + 1 \in (i + 1)..(Len(s) + 1)
         /\ IsComment(s, i) => NextLine(s, i) \in (i + 1)..(Len(s) + 1)
         /\ i <= Len(s) /\ s[i] \notin Space =>
              LET r == Lexeme(SubSeq(s, i, Len(s))) IN
              r.tok.kind \notin DOMAIN Ending =>
                r.used \in Nat /\ i + r.used \in (i + 1)..(Len(s) + 1)
<1>1. Len(s) \in Nat
  BY TextLen DEF Source
<1>2. IsComment(s, i) => NextLine(s, i) \in (i + 1)..(Len(s) + 1)
  BY <1>1, CommentIsLine, CommentEndIs
<1> DEFINE z == SubSeq(s, i, Len(s))
           r == Lexeme(z)
<1>3. ASSUME i <= Len(s), s[i] \notin Space, r.tok.kind \notin DOMAIN Ending
      PROVE  r.used \in Nat /\ i + r.used \in (i + 1)..(Len(s) + 1)
  <2> DEFINE k == i - 1
             t == SubSeq(s, k + 1, Len(s))
  <2>1. k \in 0..Len(s) /\ k + 1 = i /\ Len(s) - k >= 1
    BY <1>1, <1>3
  <2>2. t = z
    BY <2>1
  <2> HIDE DEF k
  <2>3. Source(t) /\ IsRest(t, s, k)
    BY <2>1, SourceRest
  <2> HIDE DEF t, z
  <2>4. Source(z) /\ Len(z) = Len(s) - k /\ Len(z) \in Nat /\ Len(z) >= 1 /\ z[1] = s[i]
    <3>1. Source(z) /\ Len(z) = Len(s) - k /\ \A j \in 1..Len(z) : z[j] = s[k + j]
      BY <2>2, <2>3 DEF IsRest
    <3>2. Len(s) - k \in Nat /\ 1 \in 1..(Len(s) - k)
      BY <1>1, <2>1
    <3> QED BY <2>1, <3>1, <3>2
  <2>5. z[1] # "\n"
    BY <1>3, <2>4 DEF Space
  <2>6. r = Token(z) /\ IsToken(r, Len(z), Answers)
    BY <2>4, <2>5, LexemeIsToken, LexedTokenIs
  <2> HIDE DEF r
  <2>7. r.used \in 0..Len(z) /\ r.used # 0
    BY <1>3, <2>6, EndingIs DEF IsToken
  <2> QED BY <1>1, <2>1, <2>4, <2>7
<1> HIDE DEF r
<1> QED BY <1>1, <1>2, <1>3 DEF r

\* The tokens of a text are defined by recursion on later positions: such a
\* function exists.
LEMMA TokensFunction ==
  ASSUME NEW s, Source(s)
  PROVE  \E f : TokensBy(s, f)
<1> DEFINE n == Len(s) + 1
<1>1. Len(s) \in Nat /\ n \in Nat /\ 1 \in 1..n
  BY TextLen DEF Source
<1>2. TokensOf(s) = (CHOOSE f : f = [i \in 1..n |-> TokensAt(s, f, i)])[1]
  BY DEF TokensOf, TokensAt, NextLine, SelectInSubSeq, Done, Failed
<1>3. ASSUME NEW f, NEW g, NEW i \in 1..n, \A j \in (i + 1)..n : f[j] = g[j]
      PROVE  TokensAt(s, f, i) = TokensAt(s, g, i)
  <2> DEFINE r == Lexeme(SubSeq(s, i, Len(s)))
             next == i + r.used
             failed == r.tok.kind \in DOMAIN Ending
  <2>1. \A h : TokensAt(s, h, i) = IF i > Len(s) THEN Done
                                   ELSE IF s[i] \in Space THEN h[i + 1]
                                   ELSE IF IsComment(s, i) THEN h[NextLine(s, i)]
                                   ELSE IF failed THEN Failed(r.tok.kind)
                                   ELSE FollowedBy(r.tok, h[next])
    BY DEF TokensAt
  <2>2. /\ i <= Len(s) => i + 1 \in (i + 1)..n
        /\ IsComment(s, i) => NextLine(s, i) \in (i + 1)..n
        /\ i <= Len(s) /\ s[i] \notin Space /\ ~failed => next \in (i + 1)..n
    BY TokensLater
  <2>3. ~(i > Len(s)) <=> i <= Len(s)
    BY <1>1
  <2> HIDE DEF r, next, failed, n
  <2> QED BY <1>3, <2>1, <2>2, <2>3
<1> HIDE DEF n
<1>4. \E f : f = [i \in 1..n |-> TokensAt(s, f, i)]
  <2> DEFINE Good(g, m) == \E D : /\ D = {i \in 1..n : i > n - m}
                                  /\ g = [i \in D |-> TokensAt(s, g, i)]
             U == {m \in Nat : \E g : Good(g, m)}
  <2>1. 0 \in U
    <3> DEFINE g == [i \in {} |-> 0]
    <3>1. {i \in 1..n : i > n - 0} = {} /\ g = [i \in {} |-> TokensAt(s, g, i)]
      BY <1>1
    <3> QED BY <3>1
  <2>2. ASSUME NEW m \in U PROVE m + 1 \in U
    <3> DEFINE D == {i \in 1..n : i > n - m}
               E == {i \in 1..n : i > n - (m + 1)}
    <3>1. PICK g : g = [i \in D |-> TokensAt(s, g, i)]
      OBVIOUS
    <3> DEFINE h == [i \in E |-> IF i \in D THEN g[i] ELSE TokensAt(s, g, i)]
    <3>2. ASSUME NEW i \in E PROVE h[i] = TokensAt(s, h, i)
      <4>1. \A j \in (i + 1)..n : j \in D /\ j \in E
        BY <1>1
      <4>2. \A j \in (i + 1)..n : h[j] = g[j]
        BY <4>1
      <4>3. TokensAt(s, h, i) = TokensAt(s, g, i)
        <5>1. i \in 1..n
          OBVIOUS
        <5> HIDE DEF h, D, E
        <5> QED BY <1>3, <4>2, <5>1
      <4>4. h[i] = TokensAt(s, g, i)
        BY <3>1
      <4> HIDE DEF h
      <4> QED BY <4>3, <4>4
    <3>3. h = [i \in E |-> h[i]]
      OBVIOUS
    <3> HIDE DEF h
    <3>4. h = [i \in E |-> TokensAt(s, h, i)]
      BY <3>2, <3>3
    <3>5. Good(h, m + 1)
      BY <3>4
    <3> HIDE DEF Good
    <3> QED BY <3>5
  <2> HIDE DEF Good
  <2>3. n \in U
    <3>1. U \in SUBSET Nat
      OBVIOUS
    <3> HIDE DEF U
    <3> QED BY <1>1, <2>1, <2>2, <3>1, NatSetInduction
  <2>4. PICK g : Good(g, n)
    BY <2>3
  <2>5. {i \in 1..n : i > n - n} = 1..n
    BY <1>1
  <2> QED BY <2>4, <2>5 DEF Good
<1> DEFINE F == CHOOSE f : f = [i \in 1..n |-> TokensAt(s, f, i)]
<1>5. F = [i \in 1..n |-> TokensAt(s, F, i)]
  BY <1>4
<1> HIDE DEF F
<1>6. \A i \in 1..n : F[i] = TokensAt(s, F, i)
  BY <1>5
<1> QED BY <1>2, <1>6 DEF F, n, TokensBy

\* The tokens from a position on are those of the rest of the text.
LEMMA TokensOfRest ==
  ASSUME NEW s, Source(s), NEW k \in 0..Len(s), NEW f, TokensBy(s, f)
  PROVE  f[k + 1] = TokensOf(SubSeq(s, k + 1, Len(s)))
<1> DEFINE t == SubSeq(s, k + 1, Len(s))
           n == Len(t) + 1
<1>1. /\ Source(t) /\ IsRest(t, s, k)
      /\ \A i \in 1..n : SubSeq(t, i, Len(t)) = SubSeq(s, k + i, Len(s))
  BY SourceRest
<1> HIDE DEF t
<1>2. Len(s) \in Nat /\ Len(t) \in Nat /\ Len(t) = Len(s) - k /\ n \in Nat
  BY <1>1, TextLen DEF Source, IsRest
<1>3. PICK g : TokensBy(t, g)
  BY <1>1, TokensFunction
<1> DEFINE T == {i \in 1..n : f[k + i] = g[i]}
<1>4. ASSUME NEW i \in 1..n, \A j \in (i + 1)..n : j \in T PROVE i \in T
  <2> DEFINE r == Lexeme(SubSeq(t, i, Len(t)))
             next == i + r.used
             failed == r.tok.kind \in DOMAIN Ending
             fail == Failed(r.tok.kind)
             line == NextLine(t, i)
  <2>1. \A j \in (i + 1)..n : f[k + j] = g[j]
    BY <1>4
  <2>2. k + i \in 1..(Len(s) + 1) /\ (i > Len(t) <=> k + i > Len(s)) /\ (k + i) + 1 = k + (i + 1)
    BY <1>2
  <2>3. g[i] = TokensAt(t, g, i) /\ f[k + i] = TokensAt(s, f, k + i)
    BY <1>3, <2>2 DEF TokensBy
  <2>4. i <= Len(t) => t[i] = s[k + i]
    BY <1>1 DEF IsRest
  <2>5. IsComment(t, i) <=> IsComment(s, k + i)
    BY <1>1, RestLooksSame
  <2>6. IsComment(t, i) => NextLine(s, k + i) = k + line
    BY <1>1, <2>2, <2>5, RestLooksSame, CommentIsLine
  <2>7. SubSeq(s, k + i, Len(s)) = SubSeq(t, i, Len(t))
    BY <1>1
  <2>8. /\ i <= Len(t) => i + 1 \in (i + 1)..n
        /\ IsComment(t, i) => line \in (i + 1)..n
        /\ i <= Len(t) /\ t[i] \notin Space /\ ~failed => r.used \in Nat /\ next \in (i + 1)..n
    BY <1>1, TokensLater
  <2>9. g[i] = IF i > Len(t) THEN Done
               ELSE IF t[i] \in Space THEN g[i + 1]
               ELSE IF IsComment(t, i) THEN g[line]
               ELSE IF failed THEN fail
               ELSE FollowedBy(r.tok, g[next])
    BY <2>3 DEF TokensAt
  <2>10. f[k + i] = IF i > Len(t) THEN Done
                    ELSE IF s[k + i] \in Space THEN f[k + (i + 1)]
                    ELSE IF IsComment(t, i) THEN f[NextLine(s, k + i)]
                    ELSE IF failed THEN fail
                    ELSE FollowedBy(r.tok, f[(k + i) + r.used])
    BY <2>2, <2>3, <2>5, <2>7 DEF TokensAt
  <2>11. i <= Len(t) /\ t[i] \notin Space /\ ~failed => (k + i) + r.used = k + next
    <3>1. r.used \in Nat => (k + i) + r.used = k + (i + r.used)
      BY <1>2
    <3> QED BY <2>8, <3>1
  <2>12. ~(i > Len(t)) <=> i <= Len(t)
    BY <1>2
  <2> HIDE DEF r, next, failed, fail, line, n
  <2>13. f[k + i] = g[i]
    BY <2>1, <2>4, <2>6, <2>8, <2>9, <2>10, <2>11, <2>12
  <2> QED BY <2>13
<1> HIDE DEF T
<1>5. 1 \in T
  <2>1. n \in Nat /\ 1 \in 1..n
    BY <1>2
  <2> HIDE DEF n
  <2> QED BY <1>4, <2>1, DownwardInduction
<1> QED BY <1>3, <1>5 DEF T, TokensBy, t

\* The tokens of a text, by how it begins.
LEMMA TokensOfIs ==
  ASSUME NEW s, Source(s)
  PROVE  /\ Len(s) = 0 => TokensOf(s) = Done
         /\ Is(s, 1, Space) => TokensOf(s) = TokensOf(SubSeq(s, 2, Len(s)))
         /\ IsComment(s, 1) => TokensOf(s) = TokensOf(SubSeq(s, CommentEnd(s, 1), Len(s)))
         /\ Len(s) >= 1 /\ s[1] \notin Space /\ ~IsComment(s, 1) =>
              LET r == Token(s) IN
              TokensOf(s) = IF r.tok.kind \in Others THEN Failed(r.tok.kind)
                            ELSE FollowedBy(r.tok, TokensOf(SubSeq(s, r.used + 1, Len(s))))
<1>1. Len(s) \in Nat /\ 1 \in 1..(Len(s) + 1)
  BY TextLen DEF Source
<1>2. PICK f : TokensBy(s, f)
  BY TokensFunction
<1>3. TokensOf(s) = TokensAt(s, f, 1)
  BY <1>1, <1>2 DEF TokensBy
<1>4. Len(s) = 0 => TokensOf(s) = Done
  BY <1>1, <1>3 DEF TokensAt
<1>5. ASSUME Is(s, 1, Space) PROVE TokensOf(s) = TokensOf(SubSeq(s, 2, Len(s)))
  <2>1. TokensOf(s) = f[1 + 1] /\ 1 \in 0..Len(s)
    BY <1>1, <1>3, <1>5 DEF TokensAt, Is
  <2>2. f[1 + 1] = TokensOf(SubSeq(s, 1 + 1, Len(s)))
    BY <1>2, <2>1, TokensOfRest
  <2> QED BY <2>1, <2>2
<1>6. ASSUME IsComment(s, 1) PROVE TokensOf(s) = TokensOf(SubSeq(s, CommentEnd(s, 1), Len(s)))
  <2> DEFINE e == CommentEnd(s, 1)
  <2>1. e \in 2..(Len(s) + 1)
    BY <1>1, <1>6, CommentEndIs
  <2>2. NextLine(s, 1) = e
    BY <1>1, <1>6, CommentIsLine
  <2>3. 1 <= Len(s) /\ s[1] \notin Space
    <3>1. "/" \notin Space
      BY Zenon DEF Space
    <3> QED BY <1>1, <1>6, <3>1 DEF IsComment, Peek, EOF
  <2>4. TokensOf(s) = f[e]
    BY <1>1, <1>3, <1>6, <2>2, <2>3 DEF TokensAt
  <2> HIDE DEF e
  <2>5. e - 1 \in 0..Len(s) /\ (e - 1) + 1 = e
    BY <1>1, <2>1
  <2>6. f[(e - 1) + 1] = TokensOf(SubSeq(s, (e - 1) + 1, Len(s)))
    BY <1>2, <2>5, TokensOfRest
  <2> QED BY <2>4, <2>5, <2>6 DEF e
<1>7. ASSUME Len(s) >= 1, s[1] \notin Space, ~IsComment(s, 1)
      PROVE  LET r == Token(s) IN
             TokensOf(s) = IF r.tok.kind \in Others THEN Failed(r.tok.kind)
                           ELSE FollowedBy(r.tok, TokensOf(SubSeq(s, r.used + 1, Len(s))))
  <2> DEFINE r == Token(s)
  <2>1. SubSeq(s, 1, Len(s)) = s
    <3>1. PICK C : s \in Seq(C)
      BY DEF Source, IsText
    <3> QED BY <3>1, SubSeqFull
  <2>2. s[1] # "\n"
    BY <1>7 DEF Space
  <2>3. Lexeme(SubSeq(s, 1, Len(s))) = r /\ IsToken(r, Len(s), Answers)
    BY <1>1, <1>7, <2>1, <2>2, LexemeIsToken, LexedTokenIs
  <2> HIDE DEF r
  <2>4. ~(1 > Len(s))
    BY <1>1, <1>7
  <2>5. TokensOf(s) = IF r.tok.kind \in Others THEN Failed(r.tok.kind)
                      ELSE FollowedBy(r.tok, f[1 + r.used])
    BY <1>3, <1>7, <2>3, <2>4, EndingIs DEF TokensAt
  <2>6. r.tok.kind \notin Others => f[1 + r.used] = TokensOf(SubSeq(s, r.used + 1, Len(s)))
    <3> DEFINE u == r.used
    <3>1. u \in 0..Len(s)
      BY <2>3 DEF IsToken
    <3> HIDE DEF u
    <3>2. f[u + 1] = TokensOf(SubSeq(s, u + 1, Len(s))) /\ u + 1 = 1 + u
      BY <1>1, <1>2, <3>1, TokensOfRest
    <3> QED BY <3>2 DEF u
  <2>7. TokensOf(s) = IF r.tok.kind \in Others THEN Failed(r.tok.kind)
                      ELSE FollowedBy(r.tok, TokensOf(SubSeq(s, r.used + 1, Len(s))))
    BY <2>5, <2>6
  <2> QED BY <2>7 DEF r
<1> QED BY <1>4, <1>5, <1>6, <1>7

\* The first k characters are a space, or a comment with the newline after it.
SkipsOff(s, k) ==
  \/ k = 1 /\ Is(s, 1, Space)
  \/ IsComment(s, 1) /\ EndsAt(s, 1, k + 1) /\ k > 2 /\ s[k] = "\n"

\* Whether they are does not depend on what comes after them.
LEMMA SkipHolds ==
  ASSUME NEW C, NEW s \in Seq(C), NEW t \in Seq(C), NEW k \in Nat \ {0}, k <= Len(s), k <= Len(t),
         \A i \in 1..k : s[i] = t[i], SkipsOff(s, k)
  PROVE  SkipsOff(t, k)
<1>1. Len(s) \in Nat /\ Len(t) \in Nat /\ 1 \in 1..k
  OBVIOUS
<1>2. CASE k = 1 /\ Is(s, 1, Space)
  BY <1>1, <1>2 DEF SkipsOff, Is
<1>3. CASE IsComment(s, 1) /\ EndsAt(s, 1, k + 1) /\ k > 2 /\ s[k] = "\n"
  <2> DEFINE nl == "\n"
  <2>1. IsComment(t, 1)
    <3>1. 2 \in 1..k /\ 1 <= Len(s) /\ 1 <= Len(t) /\ 2 <= Len(s) /\ 2 <= Len(t)
      BY <1>1, <1>3
    <3>2. Peek(s, 1) = Peek(t, 1) /\ Peek(s, 1 + 1) = Peek(t, 1 + 1)
      BY <1>1, <3>1 DEF Peek
    <3> QED BY <1>3, <3>2 DEF IsComment
  <2>2. \A j \in 3..k : s[j] = nl => j = k
    BY <1>3 DEF EndsAt
  <2>3. t[k] = nl /\ k > 2
    BY <1>1, <1>3
  <2> HIDE DEF nl
  <2>4. \A j \in (1 + 2)..((k + 1) - 1) : t[j] = nl => j = (k + 1) - 1
    BY <1>1, <2>2
  <2>5. k + 1 \in (1 + 2)..(Len(t) + 1) /\ k + 1 > 1 + 2 /\ (k + 1) - 1 = k
    BY <1>1, <2>3
  <2>6. EndsAt(t, 1, k + 1)
    BY <2>3, <2>4, <2>5 DEF EndsAt, nl
  <2> QED BY <2>1, <2>3, <2>6 DEF SkipsOff, nl
<1> QED BY <1>2, <1>3 DEF SkipsOff

\* Where the text begins after them.
LEMMA SkipStart ==
  ASSUME NEW s, Len(s) \in Nat, NEW k \in Nat \ {0}, SkipsOff(s, k), NEW t, IsRest(t, s, k)
  PROVE  Start(s) = k + Start(t)
<1>1. CASE k = 1 /\ Is(s, 1, Space)
  BY <1>1, StartUnfolds
<1>2. CASE IsComment(s, 1) /\ EndsAt(s, 1, k + 1)
  <2>1. k + 1 = CommentEnd(s, 1)
    BY <1>2, CommentEndsAt
  <2>2. (k + 1) - 1 = k
    OBVIOUS
  <2>3. IsRest(t, s, CommentEnd(s, 1) - 1)
    BY <2>1, <2>2
  <2> QED BY <1>2, <2>1, <2>2, <2>3, StartUnfolds
<1> QED BY <1>1, <1>2 DEF SkipsOff

\* They hold no token.
LEMMA SkipTokens ==
  ASSUME NEW s, Source(s), NEW k \in Nat \ {0}, SkipsOff(s, k)
  PROVE  TokensOf(s) = TokensOf(SubSeq(s, k + 1, Len(s)))
<1>1. CASE k = 1 /\ Is(s, 1, Space)
  BY <1>1, TokensOfIs
<1>2. CASE IsComment(s, 1) /\ EndsAt(s, 1, k + 1)
  <2>1. k + 1 = CommentEnd(s, 1)
    BY <1>2, CommentEndsAt, TextLen DEF Source
  <2> QED BY <1>2, <2>1, TokensOfIs
<1> QED BY <1>1, <1>2 DEF SkipsOff

\* The comment at the end of r goes on in g.
OpenIn(r, g) ==
  /\ g # << >> /\ g[1] # "\n"
  /\ \E i \in 1..Len(r) :
       /\ IsComment(r, i) /\ CommentEnd(r, i) = Len(r) + 1 /\ r[Len(r)] # "\n"
       /\ Start(SubSeq(r, 1, i - 1)) = i

\* So it does whatever is before it.
LEMMA OpenInRest ==
  ASSUME NEW C, NEW r \in Seq(C), NEW g, NEW k \in 1..Len(r), SkipsOff(r, k),
         OpenIn(SubSeq(r, k + 1, Len(r)), g)
  PROVE  OpenIn(r, g)
<1> DEFINE t == SubSeq(r, k + 1, Len(r))
<1>1. /\ Len(r) \in Nat /\ t \in Seq(C) /\ Len(t) = Len(r) - k
      /\ \A i \in 1..Len(t) : t[i] = r[k + i]
  BY SuffixIs
<1>2. PICK i \in 1..Len(t) : /\ IsComment(t, i) /\ CommentEnd(t, i) = Len(t) + 1
                             /\ t[Len(t)] # "\n" /\ Start(SubSeq(t, 1, i - 1)) = i
  BY DEF OpenIn
<1> HIDE DEF t
<1>3. IsRest(t, r, k)
  BY <1>1 DEF IsRest
<1>4. k + i \in 1..Len(r) /\ i \in 1..(Len(t) + 1) /\ k + Len(t) = Len(r) /\ Len(t) \in 1..Len(t)
  BY <1>1, <1>2
<1>5. /\ IsComment(r, k + i) /\ CommentEnd(r, k + i) = Len(r) + 1
  <2>1. IsComment(r, k + i) /\ CommentEnd(r, k + i) = k + CommentEnd(t, i)
    BY <1>2, <1>3, <1>4, RestLooksSame
  <2> QED BY <1>1, <1>2, <2>1
<1>6. r[Len(r)] # "\n"
  BY <1>1, <1>2, <1>4
<1>7. Start(SubSeq(r, 1, (k + i) - 1)) = k + i
  <2> DEFINE m == (k + i) - 1
             p == SubSeq(r, 1, m)
             q == SubSeq(t, 1, i - 1)
  <2>1. m \in k..Len(r) /\ i - 1 \in 0..Len(t) /\ m = k + (i - 1)
    BY <1>1, <1>2, <1>4
  <2>2. p \in Seq(C) /\ Len(p) = m /\ \A j \in 1..m : p[j] = r[j]
    <3> HIDE DEF m
    <3> QED BY <1>1, <2>1
  <2>3. Len(q) = i - 1 /\ \A j \in 1..(i - 1) : q[j] = t[j]
    <3> DEFINE l == i - 1
    <3>1. l \in 0..Len(t)
      BY <2>1
    <3> HIDE DEF l
    <3>2. Len(SubSeq(t, 1, l)) = l /\ \A j \in 1..l : SubSeq(t, 1, l)[j] = t[j]
      BY <1>1, <3>1
    <3> QED BY <3>2 DEF l
  <2> HIDE DEF p, q, m
  <2>4. SkipsOff(p, k)
    <3>1. k \in Nat \ {0} /\ k <= Len(r) /\ k <= Len(p) /\ \A j \in 1..k : r[j] = p[j]
      BY <1>1, <2>1, <2>2
    <3> QED BY <2>2, <3>1, SkipHolds
  <2>5. IsRest(q, p, k)
    <3>1. Len(p) \in Nat /\ k \in 0..Len(p) /\ Len(q) = Len(p) - k
      BY <1>1, <2>1, <2>2, <2>3
    <3>2. ASSUME NEW j \in 1..Len(q) PROVE q[j] = p[k + j]
      <4>1. j \in 1..(i - 1) /\ j \in 1..Len(t) /\ k + j \in 1..m
        BY <1>1, <2>1, <2>3
      <4> QED BY <1>1, <2>2, <2>3, <4>1
    <3> QED BY <3>1, <3>2 DEF IsRest
  <2>6. Start(p) = k + Start(q)
    <3>1. k \in Nat \ {0} /\ Len(p) \in Nat
      BY <1>1, <2>1, <2>2
    <3> QED BY <2>4, <2>5, <3>1, SkipStart
  <2>7. Start(q) = i
    BY <1>2 DEF q
  <2> QED BY <2>6, <2>7 DEF p, m
<1> QED BY <1>4, <1>5, <1>6, <1>7 DEF OpenIn

\* A text is empty, or goes on after space or a finished comment, or is in a
\* comment, or begins with something else.
LEMMA HowItBegins ==
  ASSUME NEW C, NEW r \in Seq(C)
  PROVE  \/ Len(r) = 0
         \/ \E k \in 1..Len(r) : SkipsOff(r, k)
         \/ /\ Len(r) # 0 /\ IsComment(r, 1) /\ CommentEnd(r, 1) = Len(r) + 1
            /\ r[Len(r)] # "\n"
         \/ Len(r) # 0 /\ ~Is(r, 1, Space) /\ ~IsComment(r, 1)
<1>1. Len(r) \in Nat
  OBVIOUS
<1>2. CASE Is(r, 1, Space)
  <2>1. 1 \in 1..Len(r) /\ SkipsOff(r, 1)
    BY <1>1, <1>2 DEF Is, SkipsOff
  <2> QED BY <2>1
<1>3. CASE IsComment(r, 1)
  <2> DEFINE e == CommentEnd(r, 1)
             nl == "\n"
  <2>1. EndsAt(r, 1, e)
    BY <1>1, <1>3, CommentEndsAt
  <2>2. 2 <= Len(r) /\ r[2] = "/" /\ "/" # nl
    BY <1>1, <1>3 DEF IsComment, Peek, EOF
  <2> HIDE DEF e, nl
  <2>3. e \in 3..(Len(r) + 1) /\ (e = Len(r) + 1 \/ (e > 3 /\ r[e - 1] = nl))
    BY <2>1 DEF EndsAt, nl
  <2>4. CASE e > 3 /\ r[e - 1] = nl
    <3>1. e - 1 \in 1..Len(r) /\ e - 1 > 2 /\ (e - 1) + 1 = e
      BY <1>1, <2>3, <2>4
    <3>2. SkipsOff(r, e - 1)
      BY <1>3, <2>1, <2>4, <3>1 DEF SkipsOff, nl
    <3> QED BY <3>1, <3>2
  <2>5. CASE ~(e > 3 /\ r[e - 1] = nl)
    <3>1. e = Len(r) + 1 /\ Len(r) # 0
      BY <1>1, <2>2, <2>3, <2>5
    <3>2. r[Len(r)] # nl
      <4>1. CASE e > 3
        <5>1. r[e - 1] # nl /\ e - 1 = Len(r)
          BY <1>1, <2>5, <3>1, <4>1
        <5> QED BY <5>1
      <4>2. CASE ~(e > 3)
        <5>1. e \in 3..(Len(r) + 1)
          BY <2>3
        <5>2. e = 3
          BY <1>1, <4>2, <5>1
        <5>3. Len(r) + 1 = 3
          BY <3>1, <5>2
        <5>4. Len(r) = 2
          <6>1. \A l \in Nat : l + 1 = 3 => l = 2
            OBVIOUS
          <6> QED BY <1>1, <5>3, <6>1
        <5> QED BY <2>2, <5>4
      <4> QED BY <4>1, <4>2
    <3> QED BY <1>3, <3>1, <3>2 DEF e, nl
  <2> QED BY <2>4, <2>5
<1>4. CASE ~Is(r, 1, Space) /\ ~IsComment(r, 1)
  BY <1>4
<1> QED BY <1>2, <1>3, <1>4

\* r from its first token on.
Onward(r) == SubSeq(r, Start(r), Len(r))

\* A text that begins with r means what it does without what is before the first
\* token of r, unless it is in a comment at the end of r.
SameTokens(r, g) ==
  Source(r \o g) /\ (Start(r) <= Len(r) \/ ~OpenIn(r, g))
    => TokensOf(r \o g) = TokensOf(Onward(r) \o g)

\* So it is if it is for what comes after the first space or comment of r.
LEMMA SameTokensSkips ==
  ASSUME NEW C, NEW r \in Seq(C), NEW g \in Seq(C), NEW k \in 1..Len(r), SkipsOff(r, k),
         SameTokens(SubSeq(r, k + 1, Len(r)), g)
  PROVE  SameTokens(r, g)
<1> DEFINE t == SubSeq(r, k + 1, Len(r))
           s == r \o g
<1>1. SUFFICES ASSUME Source(s), Start(r) <= Len(r) \/ ~OpenIn(r, g)
               PROVE  TokensOf(s) = TokensOf(Onward(r) \o g)
  BY DEF SameTokens
<1>2. /\ Len(r) \in Nat /\ t \in Seq(C) /\ Len(t) = Len(r) - k
      /\ \A i \in 1..Len(t) : t[i] = r[k + i]
  BY SuffixIs
<1>3. s \in Seq(C) /\ Len(s) = Len(r) + Len(g) /\ (\A i \in 1..k : r[i] = s[i])
  BY <1>2
<1>4. IsRest(t, r, k)
  BY <1>2 DEF IsRest
<1>5. OpenIn(t, g) => OpenIn(r, g)
  BY OpenInRest
<1>6. SubSeq(s, k + 1, Len(s)) = t \o g
  <2>1. k \in 0..Len(r)
    OBVIOUS
  <2> QED BY <2>1, DropFront
<1>7. \A i \in 1..(Len(r) - k + 1) : SubSeq(t, i, Len(t)) = SubSeq(r, k + i, Len(r))
  <2>1. k \in 0..Len(r)
    OBVIOUS
  <2> QED BY <2>1, SuffixOfSuffix
<1> HIDE DEF t, s
<1>8. Start(r) = k + Start(t) /\ Start(t) \in 1..(Len(t) + 1)
  <2>1. Start(t) \in 1..(Len(t) + 1)
    BY <1>2, StartIs
  <2>2. Start(r) = k + Start(t)
    BY <1>2, <1>4, SkipStart
  <2> QED BY <2>1, <2>2
<1>9. Onward(r) = Onward(t)
  BY <1>2, <1>7, <1>8 DEF Onward
<1>10. Source(t \o g) /\ TokensOf(s) = TokensOf(t \o g)
  <2>1. k \in Nat \ {0} /\ k <= Len(s) /\ k \in 0..Len(s) /\ k <= Len(r)
    BY <1>2, <1>3
  <2>2. SkipsOff(s, k)
    BY <1>3, <2>1, SkipHolds
  <2>3. Source(SubSeq(s, k + 1, Len(s)))
    BY <1>1, <2>1, SourceRest
  <2> QED BY <1>1, <1>6, <2>1, <2>2, <2>3, SkipTokens
<1>11. Start(t) <= Len(t) \/ ~OpenIn(t, g)
  BY <1>1, <1>2, <1>5, <1>8
<1>12. TokensOf(t \o g) = TokensOf(Onward(t) \o g)
  BY <1>10, <1>11 DEF SameTokens, t
<1> QED BY <1>9, <1>10, <1>12

\* Nothing begins in a text that is a comment.
LEMMA StartAtTheEnd ==
  ASSUME NEW C, NEW r \in Seq(C), IsComment(r, 1), CommentEnd(r, 1) = Len(r) + 1
  PROVE  Start(r) = Len(r) + 1
<1> DEFINE n == Len(r)
           e == SubSeq(r, n + 1, n)
<1>1. n \in Nat /\ e = << >> /\ Len(e) = 0
  OBVIOUS
<1>2. IsRest(e, r, n)
  BY <1>1 DEF IsRest
<1>3. Start(e) = 1
  <2>1. Start(e) \in 1..(0 + 1)
    BY <1>1, StartIs
  <2> QED BY <2>1
<1> HIDE DEF e
<1>4. CommentEnd(r, 1) - 1 = n
  BY <1>1
<1>5. Start(r) = n + Start(e)
  BY <1>1, <1>2, <1>4, StartUnfolds
<1> QED BY <1>3, <1>5

\* What begins there is neither space nor a comment.
LEMMA StartLooks ==
  ASSUME NEW C, NEW r \in Seq(C)
  PROVE  ~Is(r, Start(r), Space) /\ ~IsComment(r, Start(r))
<1> DEFINE Good(t) == ~Is(t, Start(t), Space) /\ ~IsComment(t, Start(t))
           U == {n \in Nat : \A t \in Seq(C) : Len(t) <= n => Good(t)}
<1>1. ASSUME NEW t \in Seq(C), Start(t) = Len(t) + 1 PROVE Good(t)
  <2>1. Len(t) \in Nat
    OBVIOUS
  <2> QED BY <1>1, <2>1 DEF Is, IsComment, Peek, EOF
<1>2. ASSUME NEW t \in Seq(C), Len(t) = 0 PROVE Good(t)
  <2>1. Start(t) \in 1..(0 + 1)
    BY <1>2, StartIs
  <2>2. Start(t) = 1 /\ Len(t) + 1 = 1
    BY <1>2, <2>1
  <2>3. Start(t) = Len(t) + 1
    BY <2>2
  <2> HIDE DEF Good
  <2> QED BY <1>1, <2>3
<1>3. 0 \in U
  <2> HIDE DEF Good
  <2> SUFFICES ASSUME NEW t \in Seq(C), Len(t) <= 0 PROVE Good(t)
    OBVIOUS
  <2> QED BY <1>2
<1>4. ASSUME NEW n \in U PROVE n + 1 \in U
  <2> HIDE DEF Good
  <2> SUFFICES ASSUME NEW t \in Seq(C), Len(t) <= n + 1 PROVE Good(t)
    OBVIOUS
  <2>1. Len(t) \in Nat /\ n \in Nat
    OBVIOUS
  <2>2. ASSUME NEW k \in 1..Len(t), SkipsOff(t, k) PROVE Good(t)
    <3> DEFINE u == SubSeq(t, k + 1, Len(t))
    <3>1. u \in Seq(C) /\ Len(u) = Len(t) - k /\ \A i \in 1..Len(u) : u[i] = t[k + i]
      BY SuffixIs
    <3> HIDE DEF u
    <3>2. Len(u) <= n /\ IsRest(u, t, k)
      BY <2>1, <3>1 DEF IsRest
    <3>3. Start(t) = k + Start(u) /\ Start(u) \in 1..(Len(u) + 1)
      <4>1. k \in Nat \ {0} /\ Len(u) \in Nat
        BY <3>1
      <4> QED BY <2>1, <2>2, <3>2, <4>1, SkipStart, StartIs
    <3>4. Good(u)
      BY <3>1, <3>2
    <3>5. /\ \A S : Is(u, Start(u), S) <=> Is(t, k + Start(u), S)
          /\ IsComment(u, Start(u)) <=> IsComment(t, k + Start(u))
      BY <3>2, <3>3, RestLooksSame
    <3> QED BY <3>3, <3>4, <3>5 DEF Good
  <2>3. CASE IsComment(t, 1) /\ CommentEnd(t, 1) = Len(t) + 1
    BY <1>1, <2>3, StartAtTheEnd
  <2>4. CASE ~Is(t, 1, Space) /\ ~IsComment(t, 1)
    <3>1. Start(t) = 1
      BY <2>1, <2>4, StartUnfolds
    <3> QED BY <2>4, <3>1 DEF Good
  <2> QED BY <1>2, <2>2, <2>3, <2>4, HowItBegins
<1>5. U = Nat
  <2>1. U \in SUBSET Nat
    OBVIOUS
  <2> HIDE DEF U
  <2> QED BY <1>3, <1>4, <2>1, NatSetInduction
<1>6. Len(r) \in U
  BY <1>5
<1> QED BY <1>6

\* So it is if r is nothing but the beginning of a comment.
LEMMA SameTokensInComment ==
  ASSUME NEW C, NEW r \in Seq(C), NEW g \in Seq(C), IsComment(r, 1),
         CommentEnd(r, 1) = Len(r) + 1, r[Len(r)] # "\n"
  PROVE  SameTokens(r, g)
<1> DEFINE s == r \o g
           n == Len(r)
           nl == "\n"
<1>1. SUFFICES ASSUME Source(s), Start(r) <= n \/ ~OpenIn(r, g)
               PROVE  TokensOf(s) = TokensOf(Onward(r) \o g)
  BY DEF SameTokens
<1>2. n \in Nat /\ Len(g) \in Nat /\ s \in Seq(C) /\ Len(s) = n + Len(g)
      /\ (\A i \in 1..n : s[i] = r[i]) /\ (\A i \in 1..Len(g) : s[n + i] = g[i])
  OBVIOUS
<1>3. 2 <= n
  BY <1>2 DEF IsComment, Peek, EOF
<1>4. EndsAt(r, 1, n + 1)
  BY <1>2, CommentEndsAt
<1>5. Start(r) = n + 1
  BY StartAtTheEnd
<1>6. Onward(r) \o g = g
  <2>1. Onward(r) = << >>
    BY <1>2, <1>5 DEF Onward
  <2> QED BY <2>1, ConcatEmptySeq
<1>7. ~OpenIn(r, g)
  BY <1>1, <1>2, <1>5
<1>8. g # << >> /\ g[1] = nl
  <2>1. g = << >> \/ g[1] = nl
    <3> SUFFICES ASSUME g # << >>, g[1] # nl PROVE FALSE
      OBVIOUS
    <3>1. SubSeq(r, 1, 1 - 1) = << >>
      BY <1>2
    <3>2. Start(<< >>) = 1
      <4>1. Len(<< >>) = 0
        OBVIOUS
      <4>2. Start(<< >>) \in 1..(0 + 1)
        BY <4>1, StartIs
      <4> QED BY <4>2
    <3>3. 1 \in 1..n
      BY <1>2, <1>3
    <3> QED BY <1>7, <3>1, <3>2, <3>3 DEF OpenIn
  <2>2. g # << >>
    <3> SUFFICES ASSUME g = << >> PROVE FALSE
      OBVIOUS
    <3>1. s = r
      BY ConcatEmptySeq
    <3> QED BY <1>1, <1>3, <3>1 DEF Source, Proper
  <2> QED BY <2>1, <2>2
<1>9. 1 <= Len(g)
  BY <1>2, <1>8
<1> HIDE DEF s, n
<1>10. SkipsOff(s, n + 1)
  <2>1. IsComment(s, 1)
    <3>1. Peek(s, 1) = Peek(r, 1) /\ Peek(s, 1 + 1) = Peek(r, 1 + 1)
      BY <1>2, <1>3 DEF Peek, n
    <3> QED BY <3>1 DEF IsComment
  <2>2. s[n + 1] = nl
    BY <1>2, <1>8, <1>9
  <2>3. \A j \in 3..n : s[j] # nl
    <3> SUFFICES ASSUME NEW j \in 3..n, s[j] = nl PROVE FALSE
      OBVIOUS
    <3>1. j \in (1 + 2)..((n + 1) - 1) /\ r[j] = nl
      BY <1>2
    <3>2. j = (n + 1) - 1
      BY <1>4, <3>1 DEF EndsAt
    <3> QED BY <1>2, <3>1, <3>2 DEF n
  <2> HIDE DEF nl
  <2>4. \A j \in (1 + 2)..((n + 1 + 1) - 1) : s[j] = nl => j = (n + 1 + 1) - 1
    BY <1>2, <2>3
  <2>5. n + 1 + 1 \in (1 + 2)..(Len(s) + 1) /\ n + 1 + 1 > 1 + 2 /\ (n + 1 + 1) - 1 = n + 1
    BY <1>2, <1>3, <1>9
  <2>6. EndsAt(s, 1, n + 1 + 1)
    BY <2>2, <2>4, <2>5 DEF EndsAt, nl
  <2> QED BY <1>2, <1>3, <2>1, <2>2, <2>6 DEF SkipsOff, nl
<1>11. IsRest(g, r \o g, n)
  BY DEF IsRest, n
<1>12. TokensOf(s) = TokensOf(SubSeq(g, 2, Len(g)))
  <2>1. n + 1 \in Nat \ {0}
    BY <1>2
  <2>2. TokensOf(s) = TokensOf(SubSeq(s, (n + 1) + 1, Len(s)))
    BY <1>1, <1>10, <2>1, SkipTokens
  <2>3. SubSeq(s, n + 1, Len(s)) = g
    <3>1. n \in 0..n
      BY <1>2
    <3>2. SubSeq(r \o g, n + 1, Len(r \o g)) = SubSeq(r, n + 1, Len(r)) \o g
      BY <3>1, DropFront DEF n
    <3>3. SubSeq(r, n + 1, Len(r)) = << >>
      BY <1>2 DEF n
    <3>4. << >> \o g = g
      BY ConcatEmptySeq
    <3> QED BY <3>2, <3>3, <3>4 DEF s
  <2>4. SubSeq(g, 2, Len(g)) = SubSeq(s, n + 2, Len(s))
    <3>1. n \in 0..Len(s) /\ 2 \in 1..(Len(s) - n + 1)
      BY <1>2, <1>9
    <3> QED BY <1>2, <2>3, <3>1, SuffixOfSuffix
  <2>5. (n + 1) + 1 = n + 2
    BY <1>2
  <2> QED BY <2>2, <2>4, <2>5
<1>13. Source(g) /\ Is(g, 1, Space)
  <2>1. Source(g)
    <3>1. n \in 0..Len(s)
      BY <1>2
    <3>2. SubSeq(s, n + 1, Len(s)) = g
      <4>1. n \in 0..n
        BY <1>2
      <4>2. SubSeq(r \o g, n + 1, Len(r \o g)) = SubSeq(r, n + 1, Len(r)) \o g
        BY <4>1, DropFront DEF n
      <4>3. SubSeq(r, n + 1, Len(r)) = << >>
        BY <1>2 DEF n
      <4>4. << >> \o g = g
        BY ConcatEmptySeq
      <4> QED BY <4>2, <4>3, <4>4 DEF s
    <3> QED BY <1>1, <3>1, <3>2, SourceRest
  <2>2. Is(g, 1, Space)
    BY <1>8, <1>9 DEF Is, Space
  <2> QED BY <2>1, <2>2
<1>14. TokensOf(g) = TokensOf(SubSeq(g, 2, Len(g)))
  BY <1>13, TokensOfIs
<1> QED BY <1>6, <1>12, <1>14

\* So it is in every case.
LEMMA SkipMeans ==
  ASSUME NEW C, NEW r \in Seq(C), NEW g \in Seq(C)
  PROVE  SameTokens(r, g)
<1> DEFINE U == {n \in Nat : \A t \in Seq(C) : Len(t) <= n => SameTokens(t, g)}
<1>1. ASSUME NEW t \in Seq(C), Start(t) = 1 PROVE SameTokens(t, g)
  <2>1. Onward(t) = t
    BY <1>1, SubSeqFull DEF Onward
  <2> QED BY <2>1 DEF SameTokens
<1>2. ASSUME NEW t \in Seq(C), Len(t) = 0 PROVE SameTokens(t, g)
  <2>1. Start(t) \in 1..(0 + 1)
    BY <1>2, StartIs
  <2> QED BY <1>1, <2>1
<1>3. 0 \in U
  <2> SUFFICES ASSUME NEW t \in Seq(C), Len(t) <= 0 PROVE SameTokens(t, g)
    OBVIOUS
  <2> QED BY <1>2
<1>4. ASSUME NEW n \in U PROVE n + 1 \in U
  <2> SUFFICES ASSUME NEW t \in Seq(C), Len(t) <= n + 1 PROVE SameTokens(t, g)
    OBVIOUS
  <2>1. Len(t) \in Nat /\ n \in Nat
    OBVIOUS
  <2>2. ASSUME NEW k \in 1..Len(t), SkipsOff(t, k) PROVE SameTokens(t, g)
    <3>1. SubSeq(t, k + 1, Len(t)) \in Seq(C) /\ Len(SubSeq(t, k + 1, Len(t))) = Len(t) - k
      BY SuffixIs
    <3>2. Len(SubSeq(t, k + 1, Len(t))) <= n
      BY <2>1, <3>1
    <3>3. SameTokens(SubSeq(t, k + 1, Len(t)), g)
      BY <3>1, <3>2
    <3> QED BY <2>2, <3>3, SameTokensSkips
  <2>3. CASE IsComment(t, 1) /\ CommentEnd(t, 1) = Len(t) + 1 /\ t[Len(t)] # "\n"
    BY <2>3, SameTokensInComment
  <2>4. CASE ~Is(t, 1, Space) /\ ~IsComment(t, 1)
    <3>1. Start(t) = 1
      BY <2>1, <2>4, StartUnfolds
    <3> QED BY <1>1, <3>1
  <2> QED BY <1>2, <2>2, <2>3, <2>4, HowItBegins
<1>5. U = Nat
  <2>1. U \in SUBSET Nat
    OBVIOUS
  <2> HIDE DEF U
  <2> QED BY <1>3, <1>4, <2>1, NatSetInduction
<1>6. Len(r) \in U
  BY <1>5
<1> QED BY <1>6

\* r from its first token on is empty, or begins with a token.
LEMMA OnwardIs ==
  ASSUME NEW C, NEW r \in Seq(C)
  PROVE  LET y == Onward(r) IN
         /\ Start(r) \in 1..(Len(r) + 1) /\ y \in Seq(C) /\ Len(y) = Len(r) + 1 - Start(r)
         /\ Len(y) >= 1 => y[1] \notin Space /\ ~IsComment(y, 1)
<1> DEFINE k == Start(r) - 1
           y == Onward(r)
<1>1. Len(r) \in Nat /\ Start(r) \in 1..(Len(r) + 1)
  BY StartIs
<1>2. k \in 0..Len(r) /\ k + 1 = Start(r)
  BY <1>1
<1>3. y \in Seq(C) /\ Len(y) = Len(r) - k /\ \A i \in 1..(Len(r) - k) : y[i] = r[k + i]
  <2>1. y = SubSeq(r, k + 1, Len(r))
    BY <1>2 DEF Onward
  <2> HIDE DEF k, y
  <2> QED BY <1>2, <2>1, SuffixIs
<1>4. ASSUME Len(y) >= 1 PROVE y[1] \notin Space /\ ~IsComment(y, 1)
  <2> HIDE DEF k, y
  <2>1. IsRest(y, r, k) /\ 1 \in 1..(Len(y) + 1)
    BY <1>1, <1>2, <1>3, <1>4 DEF IsRest
  <2>2. ~Is(r, k + 1, Space) /\ ~IsComment(r, k + 1)
    BY <1>2, StartLooks
  <2>3. ~Is(y, 1, Space) /\ ~IsComment(y, 1)
    BY <2>1, <2>2, RestLooksSame
  <2> QED BY <1>4, <2>3 DEF Is
<1> QED BY <1>1, <1>3, <1>4

\* There is no token in nothing.
LEMMA TokenOfNone == Token(<< >>) = INCOMPLETE
<1>1. \A S : ~Is(<< >>, 1, S)
  BY DEF Is
<1> QED BY Zenon, <1>1 DEF Token

\* What lex answers to r is what the text that r begins means, unless more of
\* the text is needed.
THEOREM LexMeans ==
  ASSUME NEW C, NEW r \in Seq(C), NEW g \in Seq(C), Source(r \o g), Final(lex(r))
  PROVE  LET a == lex(r) IN
         TokensOf(r \o g) =
           IF a.tok.kind \in Others THEN Failed(a.tok.kind)
           ELSE FollowedBy(a.tok, TokensOf(SubSeq(r, a.used + 1, Len(r)) \o g))
<1> DEFINE y == Onward(r)
           z == y \o g
           t == Token(y)
           start == Start(r)
           a == lex(r)
<1>1. /\ start \in 1..(Len(r) + 1) /\ y \in Seq(C) /\ Len(y) = Len(r) + 1 - start
      /\ Len(y) >= 1 => y[1] \notin Space /\ ~IsComment(y, 1)
  BY OnwardIs
<1>2. Len(r) \in Nat /\ Len(y) \in Nat
  BY <1>1
<1>3. a.tok = t.tok /\ a.used = t.used + start - 1 /\ Final(t)
  BY DEF lex, Lexed, Onward, Final
<1>4. Len(y) >= 1
  <2> SUFFICES ASSUME Len(y) = 0 PROVE FALSE
    BY <1>2
  <2>1. y = << >>
    BY <1>1
  <2> QED BY <1>3, <2>1, TokenOfNone, FinalIs
<1>5. z \in Seq(C) /\ Len(z) = Len(y) + Len(g) /\ Len(g) \in Nat
      /\ \A i \in 1..Len(y) : y[i] = z[i]
  <2> HIDE DEF y, start
  <2>1. y \in Seq(C) /\ g \in Seq(C)
    BY <1>1
  <2>2. z \in Seq(C) /\ Len(z) = Len(y) + Len(g) /\ \A i \in 1..Len(y) : z[i] = y[i]
    BY <2>1, ConcatProperties
  <2> QED BY <2>2
<1>6. Source(z) /\ TokensOf(r \o g) = TokensOf(z)
  <2>1. start <= Len(r)
    BY <1>1, <1>2, <1>4
  <2>2. TokensOf(r \o g) = TokensOf(z)
    BY <2>1, SkipMeans DEF SameTokens
  <2> DEFINE k == start - 1
  <2>3. k \in 0..Len(r) /\ k + 1 = start
    BY <1>1, <1>2
  <2>4. SubSeq(r \o g, k + 1, Len(r \o g)) = SubSeq(r, k + 1, Len(r)) \o g
    <3> HIDE DEF k
    <3> QED BY <2>3, DropFront
  <2>5. k \in 0..Len(r \o g)
    BY <1>2, <2>3
  <2>6. Source(SubSeq(r \o g, k + 1, Len(r \o g)))
    <3> HIDE DEF k
    <3> QED BY <2>5, SourceRest
  <2> QED BY <2>2, <2>3, <2>4, <2>6 DEF Onward
<1> HIDE DEF y, z, t, start, a
<1>7. Begins(y, z)
  <2>1. y \in Seq(C) /\ z \in Seq(C) /\ Len(y) <= Len(z) /\ NoEOF(z)
    BY <1>1, <1>2, <1>5, <1>6 DEF Source
  <2> QED BY <1>5, <2>1 DEF Begins
<1>8. z[1] = y[1] /\ Len(z) >= 1 /\ y[1] # "\n"
  <2>1. z[1] = y[1] /\ Len(z) >= 1
    BY <1>2, <1>4, <1>5
  <2>2. "\n" \in Space
    BY DEF Space
  <2> QED BY <1>1, <1>4, <2>1, <2>2
<1>9. Token(z) = t
  <2>1. Lexeme(z) = t
    BY <1>3, <1>4, <1>6, <1>7, <1>8, LexemeAgrees DEF Source, t
  <2> QED BY <1>6, <1>8, <2>1, LexemeIsToken
<1>10. ~IsComment(z, 1)
  <2> SUFFICES ASSUME IsComment(z, 1) PROVE FALSE
    OBVIOUS
  <2>1. y[1] = "/"
    <3>1. Peek(z, 1) = z[1]
      BY <1>2, <1>5, <1>8 DEF Peek
    <3> QED BY <1>8, <3>1 DEF IsComment
  <2>2. Len(y) = 1
    <3>0. \A l \in Nat : l >= 1 /\ ~(l >= 2) => l = 1
      OBVIOUS
    <3> SUFFICES ASSUME Len(y) >= 2 PROVE FALSE
      BY <1>2, <1>4, <3>0
    <3>1. Peek(y, 1) = Peek(z, 1) /\ Peek(y, 1 + 1) = Peek(z, 1 + 1)
      <4>1. 2 \in 1..Len(y) /\ 1 \in 1..Len(y) /\ 1 + 1 = 2
        BY <1>2
      <4> QED BY <1>7, <4>1, BeginsLooksSame
    <3> QED BY <1>1, <1>4, <3>1 DEF IsComment
  <2>3. Peek(y, 2) = EOF
    BY <2>2 DEF Peek
  <2>4. Slash(y) = INCOMPLETE
    <3>1. "*" # EOF
      BY DEF EOF
    <3> QED BY Zenon, <2>3, <3>1 DEF Slash
  <2>5. Token(y) = Slash(y)
    BY <1>1, <1>4, <2>1, TokenAt DEF IsText
  <2> QED BY <1>3, <2>4, <2>5, FinalIs DEF t
<1>11. TokensOf(z) = IF t.tok.kind \in Others THEN Failed(t.tok.kind)
                     ELSE FollowedBy(t.tok, TokensOf(SubSeq(z, t.used + 1, Len(z))))
  BY <1>1, <1>4, <1>6, <1>8, <1>9, <1>10, TokensOfIs
<1>12. t.used \in 0..Len(y)
  BY <1>2, LexedTokenIs DEF IsToken, t
<1>13. SubSeq(z, t.used + 1, Len(z)) = SubSeq(y, t.used + 1, Len(y)) \o g
  BY <1>1, <1>12, DropFront DEF z
<1>14. SubSeq(y, t.used + 1, Len(y)) = SubSeq(r, a.used + 1, Len(r))
  <2> DEFINE k == start - 1
             i == t.used + 1
  <2>1. k \in 0..Len(r) /\ k + 1 = start /\ i \in 1..(Len(r) - k + 1) /\ k + i = a.used + 1
    BY <1>1, <1>2, <1>3, <1>12
  <2>2. y = SubSeq(r, k + 1, Len(r))
    BY <2>1 DEF y, Onward, start
  <2> HIDE DEF k, i
  <2>3. SubSeq(y, i, Len(y)) = SubSeq(r, k + i, Len(r))
    BY <2>1, <2>2, SuffixOfSuffix
  <2> QED BY <2>1, <2>3 DEF i
<1> QED BY <1>3, <1>6, <1>11, <1>13, <1>14 DEF a

\* When it is needed, space and comments have been used up.
LEMMA LexWaits ==
  ASSUME NEW C, NEW r \in Seq(C), NEW g \in Seq(C), Source(r \o g), ~Final(lex(r))
  PROVE  LET a == lex(r)
             rest == SubSeq(r, a.used + 1, Len(r)) IN
         /\ ~OpenIn(r, g) => TokensOf(r \o g) = TokensOf(rest \o g)
         /\ g = << >> => TokensOf(r) = IF a.used < Len(r) THEN Failed("T_INCOMPLETE") ELSE Done
<1> DEFINE y == Onward(r)
           t == Token(y)
           start == Start(r)
           a == lex(r)
<1>1. /\ start \in 1..(Len(r) + 1) /\ y \in Seq(C) /\ Len(y) = Len(r) + 1 - start
      /\ Len(y) >= 1 => y[1] \notin Space /\ ~IsComment(y, 1)
  BY OnwardIs
<1>2. Len(r) \in Nat /\ Len(y) \in Nat
  BY <1>1
<1>3. a.tok = t.tok /\ a.used = t.used + start - 1
  BY DEF lex, Lexed, Onward
<1>4. t.tok.kind = "T_INCOMPLETE" /\ t.used = 0
  <2>1. t.tok.kind = "T_INCOMPLETE"
    BY <1>3 DEF Final
  <2> HIDE DEF t
  <2> QED BY <1>2, <2>1, LexedTokenIs DEF IsToken, t, Others
<1>5. a.used + 1 = start
  <2> HIDE DEF a, t, start
  <2> QED BY <1>1, <1>2, <1>3, <1>4
<1>6. y = SubSeq(r, a.used + 1, Len(r))
  BY <1>5 DEF Onward
<1>7. ~OpenIn(r, g) => TokensOf(r \o g) = TokensOf(y \o g)
  BY SkipMeans DEF SameTokens
<1>8. ASSUME g = << >>
      PROVE  TokensOf(r) = IF a.used < Len(r) THEN Failed("T_INCOMPLETE") ELSE Done
  <2>1. r \o g = r /\ y \o g = y
    BY <1>1, <1>8, ConcatEmptySeq
  <2>2. TokensOf(r) = TokensOf(y)
    BY <1>7, <1>8, <2>1 DEF OpenIn
  <2>3. Source(y)
    <3> DEFINE k == a.used
    <3>1. k \in 0..Len(r)
      <4> HIDE DEF a, start
      <4> QED BY <1>1, <1>2, <1>3, <1>4, <1>5
    <3> HIDE DEF k
    <3>2. Source(SubSeq(r, k + 1, Len(r)))
      BY <2>1, <3>1, SourceRest
    <3> QED BY <1>6, <3>2 DEF k
  <2>4. CASE a.used < Len(r)
    <3>1. Len(y) >= 1
      <4> HIDE DEF a, start, y
      <4> QED BY <1>1, <1>2, <1>3, <1>4, <1>5, <2>4
    <3>2. TokensOf(y) = IF t.tok.kind \in Others THEN Failed(t.tok.kind)
                        ELSE FollowedBy(t.tok, TokensOf(SubSeq(y, t.used + 1, Len(y))))
      BY <1>1, <2>3, <3>1, TokensOfIs
    <3> HIDE DEF a, start, y, t
    <3> QED BY <1>4, <2>2, <2>4, <3>2 DEF Others
  <2>5. CASE ~(a.used < Len(r))
    <3>1. Len(y) = 0
      <4> HIDE DEF a, start, y
      <4> QED BY <1>1, <1>2, <1>3, <1>4, <1>5, <2>5
    <3>2. TokensOf(y) = Done
      BY <2>3, <3>1, TokensOfIs
    <3> HIDE DEF a, y
    <3> QED BY <2>2, <2>5, <3>2
  <2> HIDE DEF a
  <2> QED BY <2>4, <2>5
<1> QED BY <1>6, <1>7, <1>8

\* m is a sequence of tokens and how they end.
IsMeaning(m) == m = [tokens |-> m.tokens, end |-> m.end] /\ IsText(m.tokens)

\* So is every text's.
LEMMA TokensAreMeaning ==
  ASSUME NEW s, Source(s)
  PROVE  IsMeaning(TokensOf(s))
<1> DEFINE U == {n \in Nat : \A t : Source(t) /\ Len(t) <= n => IsMeaning(TokensOf(t))}
<1>1. IsMeaning(Done) /\ \A kind : IsMeaning(Failed(kind))
  <2>1. << >> \in Seq({})
    OBVIOUS
  <2> QED BY <2>1 DEF IsMeaning, IsText, Done, Failed
<1>2. ASSUME NEW tok, NEW m, IsMeaning(m) PROVE IsMeaning(FollowedBy(tok, m))
  <2>1. PICK S : m.tokens \in Seq(S)
    BY <1>2 DEF IsMeaning, IsText
  <2>2. <<tok>> \o m.tokens \in Seq(S \cup {tok})
    BY <2>1
  <2> QED BY <2>2 DEF IsMeaning, IsText, FollowedBy
<1>3. ASSUME NEW t, Source(t), Len(t) = 0 PROVE IsMeaning(TokensOf(t))
  BY <1>1, <1>3, TokensOfIs
<1>4. 0 \in U
  <2> SUFFICES ASSUME NEW t, Source(t), Len(t) <= 0 PROVE IsMeaning(TokensOf(t))
    OBVIOUS
  <2>1. Len(t) \in Nat
    BY TextLen DEF Source
  <2>2. Len(t) = 0
    BY <2>1
  <2> QED BY <1>3, <2>2
<1>5. ASSUME NEW n \in U PROVE n + 1 \in U
  <2> SUFFICES ASSUME NEW t, Source(t), Len(t) <= n + 1 PROVE IsMeaning(TokensOf(t))
    OBVIOUS
  <2>1. Len(t) \in Nat /\ n \in Nat
    BY TextLen DEF Source
  <2>2. ASSUME NEW i \in 2..(Len(t) + 1) PROVE IsMeaning(TokensOf(SubSeq(t, i, Len(t))))
    <3> DEFINE k == i - 1
               u == SubSeq(t, k + 1, Len(t))
    <3>1. k \in 0..Len(t) /\ k + 1 = i /\ k >= 1
      BY <2>1
    <3>2. u = SubSeq(t, i, Len(t))
      BY <3>1
    <3>3. Source(u) /\ Len(u) = Len(t) - k
      <4> HIDE DEF k
      <4> QED BY <3>1, SourceRest DEF IsRest
    <3> HIDE DEF k, u
    <3>4. Len(u) <= n
      BY <2>1, <3>1, <3>3
    <3> QED BY <3>2, <3>3, <3>4
  <2>3. CASE Is(t, 1, Space)
    <3>1. 2 \in 2..(Len(t) + 1)
      BY <2>1, <2>3 DEF Is
    <3> QED BY <2>2, <2>3, <3>1, TokensOfIs
  <2>4. CASE IsComment(t, 1)
    <3>1. CommentEnd(t, 1) \in 2..(Len(t) + 1)
      BY <2>1, <2>4, CommentEndIs
    <3> QED BY <2>2, <2>4, <3>1, TokensOfIs
  <2>5. CASE Len(t) >= 1 /\ t[1] \notin Space /\ ~IsComment(t, 1)
    <3> DEFINE r == Token(t)
               u == SubSeq(t, r.used + 1, Len(t))
    <3>1. TokensOf(t) = IF r.tok.kind \in Others THEN Failed(r.tok.kind)
                        ELSE FollowedBy(r.tok, TokensOf(u))
      BY <2>5, TokensOfIs
    <3>2. r.used \in 0..Len(t) /\ (r.used = 0 <=> r.tok.kind \in Others)
      BY <2>1, LexedTokenIs DEF IsToken
    <3> HIDE DEF r
    <3>3. r.tok.kind \notin Others => IsMeaning(TokensOf(u))
      <4> SUFFICES ASSUME r.tok.kind \notin Others PROVE IsMeaning(TokensOf(u))
        OBVIOUS
      <4>1. r.used + 1 \in 2..(Len(t) + 1)
        BY <2>1, <3>2
      <4> QED BY <2>2, <4>1
    <3> HIDE DEF u
    <3> QED BY <1>1, <1>2, <3>1, <3>3
  <2> QED BY <1>3, <2>1, <2>3, <2>4, <2>5 DEF Is
<1>6. U = Nat
  <2>1. U \in SUBSET Nat
    OBVIOUS
  <2> HIDE DEF U
  <2> QED BY <1>4, <1>5, <2>1, NatSetInduction
<1>7. Len(s) \in U
  BY <1>6, TextLen DEF Source
<1> QED BY <1>7, TextLen DEF Source
=============================================================================
