---------------------------- MODULE LexerProofs -----------------------------
(***************************************************************************)
(* What lex answers, for any text: a token of a known kind that uses at    *)
(* least one character and no more than there are, or a failure; and an    *)
(* answer that does not wait for more to be read is the same whatever      *)
(* comes after the text.  The two functions that are defined by recursion  *)
(* on later positions (Start and the rest of a String) are shown to exist, *)
(* by induction on a set of numbers of positions.                          *)
(***************************************************************************)
EXTENDS NatLemmas, SequenceTheorems, SequencesExt, FiniteSetsExt, TLAPS, Lexemes

\* Induction from n down to 1.
LEMMA DownwardInduction ==
  ASSUME NEW n \in Nat, NEW T, \A i \in 1..n : (\A j \in (i + 1)..n : j \in T) => i \in T
  PROVE  \A i \in 1..n : i \in T
<1> DEFINE U == {m \in Nat : \A j \in 1..n : j > n - m => j \in T}
<1>1. 0 \in U
  OBVIOUS
<1>2. ASSUME NEW m \in U PROVE m + 1 \in U
  <2> SUFFICES ASSUME NEW j \in 1..n, j > n - (m + 1) PROVE j \in T
    OBVIOUS
  <2>1. CASE j > n - m
    BY <2>1
  <2>2. CASE j = n - m
    <3>1. \A k \in (j + 1)..n : k \in T
      BY <2>2
    <3> QED BY <3>1
  <2> QED BY <2>1, <2>2
<1>3. U = Nat
  <2>1. U \in SUBSET Nat
    OBVIOUS
  <2> HIDE DEF U
  <2> QED BY <1>1, <1>2, <2>1, NatSetInduction
<1>4. n \in U
  BY <1>3
<1> QED BY <1>4

\* What Min of a set of natural numbers is.
LEMMA MinIs ==
  ASSUME NEW S \in SUBSET Nat, S # {}
  PROVE  Min(S) \in S /\ \A x \in S : Min(S) <= x
<1>1. \E x \in S : \A y \in S : x <= y
  BY NatMinimum
<1> QED BY <1>1 DEF Min

\* A sequence of characters, as far as the lexer looks at it.
IsText(s) == \E C : s \in Seq(C)

\* The length and the positions of such a sequence.
LEMMA TextLen == ASSUME NEW s, IsText(s) PROVE Len(s) \in Nat /\ DOMAIN s = 1..Len(s)
<1>1. PICK C : s \in Seq(C)
  BY DEF IsText
<1> QED BY <1>1, LenProperties

\* After ends at a position that is not in S.
LEMMA AfterIs ==
  ASSUME NEW s, Len(s) \in Nat, NEW i \in 1..(Len(s) + 1), NEW S
  PROVE  After(s, i, S) \in i..(Len(s) + 1) /\ ~Is(s, After(s, i, S), S)
<1> DEFINE A == {j \in i..(Len(s) + 1) : ~Is(s, j, S)}
<1>1. Len(s) + 1 \in A
  BY DEF Is
<1>2. A \in SUBSET Nat /\ A # {}
  BY <1>1
<1>3. After(s, i, S) = Min(A)
  BY DEF After
<1> HIDE DEF A
<1>4. Min(A) \in A
  BY <1>2, MinIs
<1> QED BY <1>3, <1>4 DEF A

\* A comment ends after it begins, at the end of the text at the latest.
LEMMA CommentEndIs ==
  ASSUME NEW s, Len(s) \in Nat, NEW i \in 1..(Len(s) + 1), IsComment(s, i)
  PROVE  CommentEnd(s, i) \in (i + 1)..(Len(s) + 1)
<1> DEFINE A == {Len(s) + 1} \cup {j + 1 : j \in {k \in (i + 2)..Len(s) : s[k] = "\n"}}
<1>0. i <= Len(s)
  BY DEF IsComment, Peek, EOF
<1>1. A \in SUBSET ((i + 1)..(Len(s) + 1)) /\ A # {}
  BY <1>0
<1>2. CommentEnd(s, i) = Min(A)
  BY DEF CommentEnd
<1> HIDE DEF A
<1>3. Min(A) \in A
  BY <1>1, MinIs
<1> QED BY <1>1, <1>2, <1>3

\* What Start computes at a position from what it computes at later ones.
StartAt(s, f, i) ==
  IF Is(s, i, Space) THEN f[i + 1]
  ELSE IF IsComment(s, i) THEN f[CommentEnd(s, i)]
  ELSE i

\* f is the function by which Start is computed.
StartBy(s, f) ==
  /\ \A i \in 1..(Len(s) + 1) : f[i] = StartAt(s, f, i) /\ f[i] \in i..(Len(s) + 1)
  /\ Start(s) = f[1]

\* Start looks at later positions only.
LEMMA StartLater ==
  ASSUME NEW s, Len(s) \in Nat, NEW i \in 1..(Len(s) + 1)
  PROVE  /\ Is(s, i, Space) => i + 1 \in (i + 1)..(Len(s) + 1)
         /\ IsComment(s, i) => CommentEnd(s, i) \in (i + 1)..(Len(s) + 1)
BY CommentEndIs DEF Is

\* Start is defined by recursion on later positions: such a function exists,
\* and its values are positions.
LEMMA StartFunction ==
  ASSUME NEW s, Len(s) \in Nat
  PROVE  \E f : StartBy(s, f)
<1> DEFINE n == Len(s) + 1
<1>1. n \in Nat /\ 1 \in 1..n
  OBVIOUS
<1>2. ASSUME NEW i \in 1..n
      PROVE  /\ Is(s, i, Space) => i + 1 \in (i + 1)..n
             /\ IsComment(s, i) => CommentEnd(s, i) \in (i + 1)..n
  BY StartLater
<1>3. Start(s) = (CHOOSE f : f = [i \in 1..n |-> StartAt(s, f, i)])[1]
  BY DEF Start, StartAt
<1> HIDE DEF n
<1>4. \E f : f = [i \in 1..n |-> StartAt(s, f, i)]
  <2> DEFINE Good(g, m) == \E D : /\ D = {i \in 1..n : i > n - m}
                                  /\ g = [i \in D |-> StartAt(s, g, i)]
             U == {m \in Nat : \E g : Good(g, m)}
  <2>1. 0 \in U
    <3> DEFINE g == [i \in {} |-> 0]
    <3>1. {i \in 1..n : i > n - 0} = {} /\ g = [i \in {} |-> StartAt(s, g, i)]
      BY <1>1
    <3> QED BY <3>1
  <2>2. ASSUME NEW m \in U PROVE m + 1 \in U
    <3> DEFINE D == {i \in 1..n : i > n - m}
               E == {i \in 1..n : i > n - (m + 1)}
    <3>1. PICK g : g = [i \in D |-> StartAt(s, g, i)]
      OBVIOUS
    <3> DEFINE h == [i \in E |-> IF i \in D THEN g[i] ELSE StartAt(s, g, i)]
    <3>2. ASSUME NEW i \in E PROVE h[i] = StartAt(s, h, i)
      <4>1. \A j \in (i + 1)..n : j \in D /\ j \in E
        BY <1>1
      <4>2. \A j \in (i + 1)..n : h[j] = g[j]
        BY <4>1
      <4>3. StartAt(s, h, i) = StartAt(s, g, i)
        <5>1. i \in 1..n
          OBVIOUS
        <5> HIDE DEF h, D, E
        <5> QED BY <1>2, <4>2, <5>1 DEF StartAt
      <4>4. h[i] = StartAt(s, g, i)
        BY <3>1
      <4> HIDE DEF h
      <4> QED BY <4>3, <4>4
    <3>3. h = [i \in E |-> h[i]]
      OBVIOUS
    <3> HIDE DEF h
    <3>4. h = [i \in E |-> StartAt(s, h, i)]
      BY <3>2, <3>3
    <3>5. Good(h, m + 1)
      BY <3>4
    <3> HIDE DEF Good
    <3> QED BY <3>5
  <2> HIDE DEF Good
  <2>3. n \in U
    <3>1. U \in SUBSET Nat
      OBVIOUS
    <3> HIDE DEF U
    <3> QED BY <1>1, <2>1, <2>2, <3>1, NatSetInduction
  <2>4. PICK g : Good(g, n)
    BY <2>3
  <2>5. {i \in 1..n : i > n - n} = 1..n
    BY <1>1
  <2> QED BY <2>4, <2>5 DEF Good
<1> DEFINE F == CHOOSE f : f = [i \in 1..n |-> StartAt(s, f, i)]
<1>5. F = [i \in 1..n |-> StartAt(s, F, i)]
  BY <1>4
<1> HIDE DEF F
<1>6. \A i \in 1..n : F[i] = StartAt(s, F, i)
  BY <1>5
<1> DEFINE T == {i \in 1..n : F[i] \in i..n}
<1>7. ASSUME NEW i \in 1..n, \A j \in (i + 1)..n : j \in T PROVE i \in T
  <2>1. \A j \in (i + 1)..n : F[j] \in (i + 1)..n
    BY <1>7
  <2> QED BY <1>2, <1>6, <2>1 DEF StartAt
<1> HIDE DEF T
<1>8. \A i \in 1..n : i \in T
  BY <1>1, <1>7, DownwardInduction
<1>9. \A i \in 1..n : F[i] \in i..n
  BY <1>8 DEF T
<1> QED BY <1>3, <1>6, <1>9 DEF F, n, StartBy

\* The text begins at one of its positions, or after the last.
LEMMA StartIs ==
  ASSUME NEW s, Len(s) \in Nat
  PROVE  Start(s) \in 1..(Len(s) + 1)
BY StartFunction DEF StartBy

\* What lex can answer.
Kinds ==
  {"T_NUM", "T_STR", "T_IDENT", "T_SLASH"}
    \cup {Keywords[i].kind : i \in DOMAIN Keywords}
    \cup {Single[c] : c \in DOMAIN Single}
    \cup {Double[c].one : c \in DOMAIN Double}
    \cup {Double[c].two : c \in DOMAIN Double}
Others == {"T_INCOMPLETE", "T_ERROR", "panic"}

\* r is a token of one of the kinds K at the beginning of a text of n characters.
IsToken(r, n, K) ==
  /\ DOMAIN r = {"tok", "used"}
  /\ r.used \in 0..n /\ (r.used = 0 <=> r.tok.kind \in Others)
  /\ "kind" \in DOMAIN r.tok /\ r.tok.kind \in K

\* The answers that are not made of parts of the text.
LEMMA PlainTokens ==
  ASSUME NEW n \in Nat
  PROVE  /\ \A kind, m : m \in 1..n /\ kind \notin Others => IsToken(TOK(kind, m), n, {kind})
         /\ IsToken(INCOMPLETE, n, Others)
         /\ \A msg : IsToken(ERROR(msg), n, Others)
BY DEF TOK, INCOMPLETE, ERROR, Lexed, IsToken, Others

\* A part of a string is some bytes inside it, or how the string fails.
IsPart(r, s, i) ==
  \/ r.tok.kind = "bytes" /\ r.used \in 1..(Len(s) + 1 - i)
  \/ r.tok.kind # "bytes" /\ IsToken(r, Len(s), Others)

\* Some bytes are a part of a string.
LEMMA PartIs ==
  ASSUME NEW s, Len(s) \in Nat, NEW i \in 1..Len(s), NEW b, NEW n \in 1..(Len(s) + 1 - i)
  PROVE  IsPart(Part(b, n), s, i)
BY DEF Part, Lexed, IsPart

\* A part may be unfinished or malformed.
LEMMA FailureIsPart ==
  ASSUME NEW s, Len(s) \in Nat, NEW i
  PROVE  IsPart(INCOMPLETE, s, i) /\ \A msg : IsPart(ERROR(msg), s, i)
<1>1. INCOMPLETE.tok.kind # "bytes" /\ \A msg : ERROR(msg).tok.kind # "bytes"
  BY DEF INCOMPLETE, ERROR, TOK, Lexed
<1> QED BY <1>1, PlainTokens DEF IsPart

\* \xhh, in which the backslash is at i.
LEMMA HexEscapeIs ==
  ASSUME NEW s, Len(s) \in Nat, NEW i \in 1..Len(s)
  PROVE  IsPart(HexEscape(s, i + 2), s, i)
<1> DEFINE bad == {j \in {i + 2, (i + 2) + 1} : ~Is(s, j, DOMAIN HexX)}
           val == (16 * HexX[s[i + 2]] + HexX[s[(i + 2) + 1]]) % 256
<1>1. bad = {} => 4 \in 1..(Len(s) + 1 - i)
  <2> SUFFICES ASSUME bad = {} PROVE (i + 2) + 1 <= Len(s)
    OBVIOUS
  <2>1. Is(s, (i + 2) + 1, DOMAIN HexX)
    OBVIOUS
  <2> QED BY <2>1 DEF Is
<1>2. HexEscape(s, i + 2) =
        IF bad # {}
          THEN IF Peek(s, Min(bad)) = EOF THEN INCOMPLETE
               ELSE ERROR("invalid hex digit in hex escape")
        ELSE IF val > 127 THEN ERROR("invalid hex escape (value is above 0x7f)")
        ELSE Part(<<val>>, 4)
  BY DEF HexEscape
<1> HIDE DEF bad, val
<1>3. bad = {} => IsPart(Part(<<val>>, 4), s, i)
  BY <1>1, PartIs
<1> QED BY <1>2, <1>3, FailureIsPart

\* \u{h...}, in which the backslash is at i.
LEMMA UnicodeEscapeIs ==
  ASSUME NEW s, Len(s) \in Nat, NEW i \in 1..Len(s)
  PROVE  IsPart(UnicodeEscape(s, i + 2), s, i)
<1> DEFINE a == i + 2
           end == Min({a + 7, After(s, a + 1, DOMAIN HexU)})
           bytes == Utf8(HexNumber(SubSeq(s, a + 1, end - 1)))
           r == UnicodeEscape(s, a)
<1>1. \/ r = INCOMPLETE \/ \E msg : r = ERROR(msg)
      \/ Peek(s, a) = "{" /\ Peek(s, end) = "}" /\ r = Part(bytes, end - a + 3)
  BY Zenon DEF UnicodeEscape
<1>2. ASSUME Peek(s, a) = "{", Peek(s, end) = "}" PROVE end - a + 3 \in 1..(Len(s) + 1 - i)
  <2>1. a <= Len(s) /\ end <= Len(s)
    BY <1>2 DEF Peek, EOF
  <2>2. After(s, a + 1, DOMAIN HexU) \in (a + 1)..(Len(s) + 1)
    BY <2>1, AfterIs
  <2>3. end \in {a + 7, After(s, a + 1, DOMAIN HexU)}
    <3> DEFINE E == {a + 7, After(s, a + 1, DOMAIN HexU)}
    <3>1. E \in SUBSET Nat /\ E # {}
      BY <2>2
    <3> HIDE DEF E
    <3>2. Min(E) \in E
      BY <3>1, MinIs
    <3> QED BY <3>2 DEF E
  <2>4. end \in (a + 1)..Len(s)
    BY <2>1, <2>2, <2>3
  <2> HIDE DEF end
  <2> QED BY <2>4
<1> HIDE DEF end, bytes, r
<1>3. IsPart(r, s, i)
  BY <1>1, <1>2, PartIs, FailureIsPart
<1> QED BY <1>3 DEF r

\* A backslash at i with what follows it.
LEMMA EscapeIs ==
  ASSUME NEW s, Len(s) \in Nat, NEW i \in 1..Len(s)
  PROVE  IsPart(Escape(s, i + 1), s, i)
<1> DEFINE two == Part(<<Escapes[Peek(s, i + 1)]>>, 2)
           rest == {HexEscape(s, (i + 1) + 1), UnicodeEscape(s, (i + 1) + 1), INCOMPLETE,
                    ERROR("invalid escape in string literal")}
<1>1. Escape(s, i + 1) \in {two} \cup rest
  BY Zenon DEF Escape
<1>2. ~Is(s, i + 1, DOMAIN Escapes) => Escape(s, i + 1) \in rest
  BY Zenon DEF Escape
<1>3. Is(s, i + 1, DOMAIN Escapes) => IsPart(two, s, i)
  <2>1. Is(s, i + 1, DOMAIN Escapes) => 2 \in 1..(Len(s) + 1 - i)
    BY DEF Is
  <2> QED BY <2>1, PartIs
<1>4. \A r \in rest : IsPart(r, s, i)
  <2>1. (i + 1) + 1 = i + 2
    OBVIOUS
  <2> QED BY <2>1, HexEscapeIs, UnicodeEscapeIs, FailureIsPart
<1> HIDE DEF two, rest
<1> QED BY <1>1, <1>2, <1>3, <1>4

\* A character or an escape.
LEMMA StringPartIs ==
  ASSUME NEW s, Len(s) \in Nat, NEW i \in 1..Len(s)
  PROVE  IsPart(StringPart(s, i), s, i)
<1>1. 1 \in 1..(Len(s) + 1 - i)
  OBVIOUS
<1> QED BY <1>1, PartIs, EscapeIs DEF StringPart

\* A part in front of a string leaves its kind and where it ends.
LEMMA BeforeIs ==
  ASSUME NEW part, NEW r, NEW n, NEW K, IsToken(r, n, K)
  PROVE  IsToken(Before(part, r), n, K)
<1>1. CASE r.tok.kind # "T_STR"
  BY <1>1 DEF Before
<1>2. CASE r.tok.kind = "T_STR"
  <2>1. Before(part, r) =
          Lexed([kind |-> "T_STR", str |-> part.tok.bytes \o r.tok.str], r.used)
    BY <1>2 DEF Before
  <2> QED BY <1>2, <2>1 DEF Lexed, IsToken
<1> QED BY <1>1, <1>2

\* What String computes at a position from what it computes at later ones.
StringAt(s, f, i) ==
  IF i > Len(s) THEN INCOMPLETE
  ELSE IF s[i] = Quote THEN Lexed([kind |-> "T_STR", str |-> << >>], i)
  ELSE IF StringPart(s, i).tok.kind = "bytes"
         THEN Before(StringPart(s, i), f[i + StringPart(s, i).used])
  ELSE StringPart(s, i)

\* f is the function by which String is computed.
StringBy(s, f) ==
  /\ \A i \in 1..(Len(s) + 1) : f[i] = StringAt(s, f, i)
  /\ String(s) = f[2]

\* String looks at later positions only.
LEMMA StringLater ==
  ASSUME NEW s, Len(s) \in Nat, NEW i \in 1..Len(s), StringPart(s, i).tok.kind = "bytes"
  PROVE  i + StringPart(s, i).used \in (i + 1)..(Len(s) + 1)
BY StringPartIs DEF IsPart

\* The rest of a string is defined by recursion on later positions: such a
\* function exists.
LEMMA StringFunction ==
  ASSUME NEW s, Len(s) \in Nat, 1 <= Len(s)
  PROVE  \E f : StringBy(s, f)
<1> DEFINE n == Len(s) + 1
<1>1. n \in Nat /\ 1 \in 1..n /\ 2 \in 1..n
  OBVIOUS
<1>2. String(s) = (CHOOSE f : f = [i \in 1..n |-> StringAt(s, f, i)])[2]
  BY DEF String, StringAt
<1>3. ASSUME NEW f, NEW g, NEW i \in 1..n, \A j \in (i + 1)..n : f[j] = g[j]
      PROVE  StringAt(s, f, i) = StringAt(s, g, i)
  <2>1. CASE i <= Len(s) /\ StringPart(s, i).tok.kind = "bytes"
    <3>1. i + StringPart(s, i).used \in (i + 1)..n
      BY <2>1, StringLater
    <3> QED BY <1>3, <2>1, <3>1 DEF StringAt
  <2>2. CASE i > Len(s) \/ StringPart(s, i).tok.kind # "bytes"
    BY <2>2 DEF StringAt
  <2> QED BY <2>1, <2>2
<1> HIDE DEF n
<1>4. \E f : f = [i \in 1..n |-> StringAt(s, f, i)]
  <2> DEFINE Good(g, m) == \E D : /\ D = {i \in 1..n : i > n - m}
                                  /\ g = [i \in D |-> StringAt(s, g, i)]
             U == {m \in Nat : \E g : Good(g, m)}
  <2>1. 0 \in U
    <3> DEFINE g == [i \in {} |-> 0]
    <3>1. {i \in 1..n : i > n - 0} = {} /\ g = [i \in {} |-> StringAt(s, g, i)]
      BY <1>1
    <3> QED BY <3>1
  <2>2. ASSUME NEW m \in U PROVE m + 1 \in U
    <3> DEFINE D == {i \in 1..n : i > n - m}
               E == {i \in 1..n : i > n - (m + 1)}
    <3>1. PICK g : g = [i \in D |-> StringAt(s, g, i)]
      OBVIOUS
    <3> DEFINE h == [i \in E |-> IF i \in D THEN g[i] ELSE StringAt(s, g, i)]
    <3>2. ASSUME NEW i \in E PROVE h[i] = StringAt(s, h, i)
      <4>1. \A j \in (i + 1)..n : j \in D /\ j \in E
        BY <1>1
      <4>2. \A j \in (i + 1)..n : h[j] = g[j]
        BY <4>1
      <4>3. StringAt(s, h, i) = StringAt(s, g, i)
        <5>1. i \in 1..n
          OBVIOUS
        <5> HIDE DEF h, D, E
        <5> QED BY <1>3, <4>2, <5>1
      <4>4. h[i] = StringAt(s, g, i)
        BY <3>1
      <4> HIDE DEF h
      <4> QED BY <4>3, <4>4
    <3>3. h = [i \in E |-> h[i]]
      OBVIOUS
    <3> HIDE DEF h
    <3>4. h = [i \in E |-> StringAt(s, h, i)]
      BY <3>2, <3>3
    <3>5. Good(h, m + 1)
      BY <3>4
    <3> HIDE DEF Good
    <3> QED BY <3>5
  <2> HIDE DEF Good
  <2>3. n \in U
    <3>1. U \in SUBSET Nat
      OBVIOUS
    <3> HIDE DEF U
    <3> QED BY <1>1, <2>1, <2>2, <3>1, NatSetInduction
  <2>4. PICK g : Good(g, n)
    BY <2>3
  <2>5. {i \in 1..n : i > n - n} = 1..n
    BY <1>1
  <2> QED BY <2>4, <2>5 DEF Good
<1> DEFINE F == CHOOSE f : f = [i \in 1..n |-> StringAt(s, f, i)]
<1>5. F = [i \in 1..n |-> StringAt(s, F, i)]
  BY <1>4
<1> HIDE DEF F
<1>6. \A i \in 1..n : F[i] = StringAt(s, F, i)
  BY <1>5
<1> QED BY <1>2, <1>6 DEF F, n, StringBy

\* What String gives is a string or a failure.
LEMMA StringIs ==
  ASSUME NEW s, Len(s) \in Nat, 1 <= Len(s)
  PROVE  IsToken(String(s), Len(s), {"T_STR"} \cup Others)
<1> DEFINE n == Len(s) + 1
           K == {"T_STR"} \cup Others
           part(i) == StringPart(s, i)
<1>1. n \in Nat /\ 1 \in 1..n /\ 2 \in 1..n
  OBVIOUS
<1>2. ASSUME NEW f, NEW i \in 1..n, \A j \in (i + 1)..n : IsToken(f[j], Len(s), K)
      PROVE  IsToken(StringAt(s, f, i), Len(s), K)
  <2>1. CASE i > Len(s)
    <3>1. StringAt(s, f, i) = INCOMPLETE
      BY <2>1 DEF StringAt
    <3> QED BY <3>1, PlainTokens DEF IsToken
  <2>2. CASE i <= Len(s) /\ s[i] = Quote
    <3>1. StringAt(s, f, i) = Lexed([kind |-> "T_STR", str |-> << >>], i)
      BY <2>2 DEF StringAt
    <3> QED BY <2>2, <3>1 DEF Lexed, IsToken, Others
  <2>3. CASE i <= Len(s) /\ s[i] # Quote /\ part(i).tok.kind = "bytes"
    <3>0. i + part(i).used \in (i + 1)..n
      BY <2>3, StringLater
    <3>1. IsToken(f[i + part(i).used], Len(s), K)
      BY <1>2, <3>0
    <3>2. StringAt(s, f, i) = Before(part(i), f[i + part(i).used])
      BY <2>3 DEF StringAt
    <3> HIDE DEF K, part
    <3> QED BY <3>1, <3>2, BeforeIs
  <2>4. CASE i <= Len(s) /\ s[i] # Quote /\ part(i).tok.kind # "bytes"
    <3>1. StringAt(s, f, i) = part(i)
      BY <2>4 DEF StringAt
    <3>2. IsToken(part(i), Len(s), Others)
      BY <2>4, StringPartIs DEF IsPart
    <3> HIDE DEF part
    <3> QED BY <3>1, <3>2 DEF IsToken
  <2> QED BY <2>1, <2>2, <2>3, <2>4
<1> HIDE DEF n, K, part
<1>3. PICK f : StringBy(s, f)
  BY StringFunction
<1> DEFINE T == {i \in 1..n : IsToken(f[i], Len(s), K)}
<1>4. ASSUME NEW i \in 1..n, \A j \in (i + 1)..n : j \in T PROVE i \in T
  <2>1. f[i] = StringAt(s, f, i)
    BY <1>3 DEF StringBy, n
  <2>2. \A j \in (i + 1)..n : IsToken(f[j], Len(s), K)
    BY <1>4
  <2> QED BY <1>2, <2>1, <2>2
<1> HIDE DEF T
<1>5. 2 \in T
  BY <1>1, <1>4, DownwardInduction
<1>6. IsToken(f[2], Len(s), K)
  BY <1>5 DEF T
<1> QED BY <1>3, <1>6 DEF StringBy, K

\* All of them.
Answers == Kinds \cup Others

\* The operators by their characters.
LEMMA OperatorsAre ==
  /\ DOMAIN Single = {"(", ")", "+", "*"} /\ DOMAIN Double = {"-", "=", ";"}
  /\ Single["("] = "T_LPAR" /\ Single[")"] = "T_RPAR"
  /\ Single["+"] = "T_PLUS" /\ Single["*"] = "T_STAR"
  /\ Double["-"].second = ">" /\ Double["-"].one = "T_MINUS" /\ Double["-"].two = "T_ARROW"
  /\ Double["="].second = "=" /\ Double["="].one = "T_EQ" /\ Double["="].two = "T_EQEQ"
  /\ Double[";"].second = ";" /\ Double[";"].one = "T_SEMI" /\ Double[";"].two = "T_SEMISEMI"
<1>1. DOMAIN Single = {"(", ")", "+", "*"} /\ DOMAIN Double = {"-", "=", ";"}
  BY DEF Single, Double
<1>2. /\ Single["("] = "T_LPAR" /\ Single[")"] = "T_RPAR"
      /\ Single["+"] = "T_PLUS" /\ Single["*"] = "T_STAR"
  BY DEF Single
<1>3. /\ Double["-"].second = ">" /\ Double["-"].one = "T_MINUS" /\ Double["-"].two = "T_ARROW"
      /\ Double["="].second = "=" /\ Double["="].one = "T_EQ" /\ Double["="].two = "T_EQEQ"
      /\ Double[";"].second = ";" /\ Double[";"].one = "T_SEMI" /\ Double[";"].two = "T_SEMISEMI"
  BY DEF Double
<1> QED BY <1>1, <1>2, <1>3

\* No kind of token is the name of a failure.
LEMMA KindsAreNone == \A kind \in Kinds : kind \notin Others
<1>1. \A i \in DOMAIN Keywords : Keywords[i].kind \notin Others
  BY DEF Keywords, Others
<1>2. \A c \in DOMAIN Single : Single[c] \notin Others
  BY OperatorsAre DEF Others
<1>3. \A c \in DOMAIN Double : Double[c].one \notin Others /\ Double[c].two \notin Others
  BY OperatorsAre DEF Others
<1> QED BY <1>1, <1>2, <1>3 DEF Kinds, Others

\* What lex answers where there is no token.
LEMMA FailureIs ==
  ASSUME NEW n \in Nat
  PROVE  IsToken(INCOMPLETE, n, Answers) /\ \A msg : IsToken(ERROR(msg), n, Answers)
BY PlainTokens DEF IsToken, Answers

\* A token of which only the kind and the length matter.
LEMMA TokenIs ==
  ASSUME NEW n \in Nat, NEW kind \in Answers, NEW m \in 0..n, m = 0 <=> kind \in Others
  PROVE  IsToken(TOK(kind, m), n, Answers)
BY DEF TOK, Lexed, IsToken

\* An operator of one or two characters.
LEMMA SymbolIs ==
  ASSUME NEW s, Len(s) \in Nat, Is(s, 1, DOMAIN Double)
  PROVE  IsToken(Symbol(s), Len(s), Answers)
<1> DEFINE d == Double[s[1]]
<1>1. /\ d.one \in Answers /\ d.two \in Answers
      /\ d.one \notin Others /\ d.two \notin Others
  BY KindsAreNone DEF Is, Answers, Kinds
<1>2. 1 \in 1..Len(s) /\ (Peek(s, 2) # EOF => 2 \in 1..Len(s))
  BY DEF Is, Peek
<1>3. Symbol(s) = IF Peek(s, 2) = EOF THEN INCOMPLETE
                  ELSE IF Peek(s, 2) = d.second THEN TOK(d.two, 2) ELSE TOK(d.one, 1)
  BY DEF Symbol
<1> HIDE DEF d
<1> QED BY <1>1, <1>2, <1>3, FailureIs, TokenIs

\* A slash that begins no comment.
LEMMA SlashIs ==
  ASSUME NEW s, Len(s) \in Nat, Is(s, 1, {"/"})
  PROVE  IsToken(Slash(s), Len(s), Answers)
<1>1. Slash(s) \in {INCOMPLETE, TOK("panic", 0), TOK("T_SLASH", 1)}
  BY Zenon DEF Slash
<1>2. /\ {"panic", "T_SLASH"} \subseteq Answers /\ "panic" \in Others
      /\ "T_SLASH" \notin Others /\ 0 \in 0..Len(s)
      /\ 1 \in 0..Len(s)
  BY DEF Is, Answers, Kinds, Others
<1> QED BY <1>1, <1>2, FailureIs, TokenIs

\* A number has its first digit at least.
LEMMA NumberIs ==
  ASSUME NEW s, Len(s) \in Nat, Is(s, 1, Digit)
  PROVE  IsToken(Number(s), Len(s), Answers)
<1> DEFINE n == After(s, 1, NumberChar) - 1
           word == SubSeq(s, 1, n)
<1>1. n \in 1..Len(s)
  <2>1. After(s, 1, NumberChar) \in 1..(Len(s) + 1)
        /\ ~Is(s, After(s, 1, NumberChar), NumberChar)
    BY AfterIs
  <2>2. Is(s, 1, NumberChar)
    BY DEF Is, NumberChar
  <2> QED BY <2>1, <2>2
<1>2. Number(s) = IF n = Len(s) THEN INCOMPLETE ELSE Lexed(NumberToken(word), n)
  BY DEF Number
<1>3. "kind" \in DOMAIN NumberToken(word) /\ NumberToken(word).kind \in Answers \ Others
  BY DEF NumberToken, Answers, Kinds, Others
<1> HIDE DEF n, word
<1>4. IsToken(Lexed(NumberToken(word), n), Len(s), Answers)
  BY <1>1, <1>3 DEF Lexed, IsToken
<1> QED BY <1>2, <1>4, FailureIs

\* An identifier is not empty.
LEMMA identIs ==
  ASSUME NEW s, Len(s) \in Nat
  PROVE  IsToken(ident(s), Len(s), Answers)
<1> DEFINE n == After(s, 1, IdentChar) - 1
           name == Lexed([kind |-> "T_IDENT", ident |-> SubSeq(s, 1, n)], n)
<1>1. n \in 0..Len(s)
  <2>1. After(s, 1, IdentChar) \in 1..(Len(s) + 1)
    BY AfterIs
  <2> QED BY <2>1
<1>2. ident(s) \in {INCOMPLETE, ERROR("invalid identifier"), name}
  BY Zenon DEF ident
<1>3. n = 0 => ident(s) \in {INCOMPLETE, ERROR("invalid identifier")}
  BY Zenon DEF ident
<1> HIDE DEF n
<1>4. n # 0 => IsToken(name, Len(s), Answers)
  BY <1>1 DEF Lexed, IsToken, Answers, Kinds, Others
<1> HIDE DEF name
<1> QED BY <1>2, <1>3, <1>4, FailureIs

\* No keyword is empty.
LEMMA KeywordsAre ==
  /\ Len(Keywords) \in Nat /\ DOMAIN Keywords = 1..Len(Keywords)
  /\ \A i \in DOMAIN Keywords : Len(Keywords[i].word) \in Nat \ {0}
BY DEF Keywords

\* A keyword is in the text when it is answered.
LEMMA keywordIs ==
  ASSUME NEW s, Len(s) \in Nat, NEW i \in DOMAIN Keywords
  PROVE  IsToken(keyword(s, Keywords[i]), Len(s), Answers)
<1> DEFINE k == Keywords[i]
           whole == IsStrictPrefix(k.word, s)
<1>1. keyword(s, k) \in {INCOMPLETE, TOK(k.kind, Len(k.word)), ERROR("no match")}
  BY Zenon DEF keyword
<1>2. ~whole => keyword(s, k) \in {INCOMPLETE, ERROR("no match")}
  BY Zenon DEF keyword
<1>3. whole => Len(k.word) \in 1..Len(s)
  BY KeywordsAre DEF IsStrictPrefix, IsPrefix
<1>4. k.kind \in Answers /\ k.kind \notin Others
  BY KindsAreNone DEF Answers, Kinds
<1> HIDE DEF k, whole
<1>5. whole => IsToken(TOK(k.kind, Len(k.word)), Len(s), Answers)
  <2> SUFFICES ASSUME whole PROVE IsToken(TOK(k.kind, Len(k.word)), Len(s), Answers)
    OBVIOUS
  <2> DEFINE m == Len(k.word)
  <2>1. m \in 0..Len(s) /\ m # 0
    BY <1>3
  <2> HIDE DEF m
  <2>2. IsToken(TOK(k.kind, m), Len(s), Answers)
    BY <1>4, <2>1, TokenIs
  <2> QED BY <2>2 DEF m
<1>6. IsToken(keyword(s, k), Len(s), Answers)
  BY <1>1, <1>2, <1>5, FailureIs
<1> QED BY <1>6 DEF k

\* A word is a keyword or an identifier.
LEMMA WordIs ==
  ASSUME NEW s, Len(s) \in Nat
  PROVE  IsToken(Word(s), Len(s), Answers)
<1> DEFINE n == Len(Keywords)
           first == [i \in 1..n |-> keyword(s, Keywords[i])]
           tries == first \o <<ident(s)>>
           match == {i \in DOMAIN tries : tries[i].tok.kind # "T_ERROR"}
<1>0. n \in Nat /\ DOMAIN Keywords = 1..n
  BY KeywordsAre
<1>1. \A i \in 1..n : IsToken(first[i], Len(s), Answers)
  BY <1>0, keywordIs
<1>2. Word(s) = IF match = {} THEN ERROR("invalid character") ELSE tries[Min(match)]
  BY DEF Word
<1>3. first \in Seq({first[i] : i \in 1..n}) /\ Len(first) = n
  BY <1>0
<1> HIDE DEF n, first
<1>4. DOMAIN tries = 1..(n + 1) /\ tries[n + 1] = ident(s)
      /\ \A i \in 1..n : tries[i] = first[i]
  BY <1>0, <1>3
<1> HIDE DEF tries
<1>5. \A i \in DOMAIN tries : IsToken(tries[i], Len(s), Answers)
  BY <1>0, <1>1, <1>4, identIs
<1>6. match # {} => Min(match) \in DOMAIN tries
  <2>1. match \in SUBSET Nat
    BY <1>0, <1>4
  <2>2. match \in SUBSET DOMAIN tries
    OBVIOUS
  <2> HIDE DEF match
  <2> QED BY <2>1, <2>2, MinIs
<1> HIDE DEF match
<1> QED BY <1>2, <1>5, <1>6, FailureIs

\* Every way a token can begin.
LEMMA LexedTokenIs ==
  ASSUME NEW s, Len(s) \in Nat
  PROVE  IsToken(Token(s), Len(s), Answers)
<1> DEFINE single == TOK(Single[s[1]], 1)
           G(r) == IsToken(r, Len(s), Answers)
<1>1. G(INCOMPLETE) /\ (Is(s, 1, Digit) => G(Number(s))) /\ G(Word(s))
  BY FailureIs, NumberIs, WordIs
<1>2. Is(s, 1, DOMAIN Single) => G(single)
  <2> DEFINE kind == Single[s[1]]
  <2> SUFFICES ASSUME Is(s, 1, DOMAIN Single) PROVE IsToken(TOK(kind, 1), Len(s), Answers)
    OBVIOUS
  <2>1. 1 \in 0..Len(s) /\ kind \in Kinds
    BY DEF Is, Kinds
  <2> HIDE DEF kind
  <2>2. kind \in Answers /\ kind \notin Others
    BY <2>1, KindsAreNone DEF Answers
  <2> QED BY <2>1, <2>2, TokenIs
<1>3. Is(s, 1, DOMAIN Double) => G(Symbol(s))
  BY SymbolIs
<1>4. Is(s, 1, {"/"}) => G(Slash(s))
  BY SlashIs
<1>5. Is(s, 1, {Quote}) => G(String(s))
  BY StringIs DEF Is, IsToken, Answers, Kinds
<1> HIDE DEF G
<1>6. G(Token(s))
  BY Zenon, <1>1, <1>2, <1>3, <1>4, <1>5 DEF Token
<1> QED BY <1>6 DEF G

\* r is an answer to a text of n characters: space and comments may have been
\* used up without a token.
IsLexed(r, n, K) ==
  /\ DOMAIN r = {"tok", "used"}
  /\ r.used \in 0..n /\ (r.used = 0 => r.tok.kind \in Others)
  /\ "kind" \in DOMAIN r.tok /\ r.tok.kind \in K

\* What lex answers to any text is a token of one of its kinds, which uses at
\* least one character, or T_INCOMPLETE, T_ERROR or the panic at a block comment;
\* and it never uses more than the stream holds (lex.c:456-470).
THEOREM LexStaysInside ==
  ASSUME NEW s, IsText(s)
  PROVE  IsLexed(lex(s), Len(s), Answers)
<1> DEFINE start == Start(s)
           rest == SubSeq(s, start, Len(s))
           token == Token(rest)
<1>1. Len(s) \in Nat /\ start \in 1..(Len(s) + 1)
  BY TextLen, StartIs
<1>2. Len(rest) = Len(s) + 1 - start
  <2>1. PICK C : s \in Seq(C)
    BY DEF IsText
  <2> HIDE DEF start
  <2> QED BY <1>1, <2>1
<1>3. lex(s) = Lexed(token.tok, token.used + start - 1)
  BY DEF lex
<1> HIDE DEF start, rest
<1>4. IsToken(token, Len(rest), Answers)
  BY <1>1, <1>2, LexedTokenIs
<1> HIDE DEF token
<1> QED BY <1>1, <1>2, <1>3, <1>4 DEF Lexed, IsToken, IsLexed

-----------------------------------------------------------------------------
(* The parts of a text *)

\* e is where the comment at i ends: after the first newline in it, or at the
\* end of the text.
EndsAt(s, i, e) ==
  /\ e \in (i + 2)..(Len(s) + 1)
  /\ \A k \in (i + 2)..(e - 1) : s[k] = "\n" => k = e - 1
  /\ e = Len(s) + 1 \/ (e > i + 2 /\ s[e - 1] = "\n")

\* CommentEnd is that place, and there is only one.
LEMMA CommentEndsAt ==
  ASSUME NEW s, Len(s) \in Nat, NEW i \in Nat \ {0}, IsComment(s, i)
  PROVE  /\ EndsAt(s, i, CommentEnd(s, i))
         /\ \A e : EndsAt(s, i, e) => e = CommentEnd(s, i)
<1> DEFINE nl == "\n"
           A == {Len(s) + 1} \cup {j + 1 : j \in {k \in (i + 2)..Len(s) : s[k] = nl}}
           m == CommentEnd(s, i)
<1>0. i + 1 <= Len(s)
  BY DEF IsComment, Peek, EOF
<1>1. A \in SUBSET ((i + 2)..(Len(s) + 1)) /\ Len(s) + 1 \in A
  BY <1>0
<1>2. m = Min(A)
  BY DEF CommentEnd
<1>3. \A x : x \in A <=> x = Len(s) + 1 \/ (x - 1 \in (i + 2)..Len(s) /\ x \in Nat /\ s[x - 1] = nl)
  BY <1>0
<1> HIDE DEF A, m, nl
<1>4. m \in A /\ \A x \in A : m <= x
  BY <1>1, <1>2, MinIs
<1>5. EndsAt(s, i, m)
  <2>1. m \in (i + 2)..(Len(s) + 1)
    BY <1>1, <1>4
  <2>2. ASSUME NEW k \in (i + 2)..(m - 1), s[k] = nl PROVE k = m - 1
    <3>1. k + 1 \in A
      BY <1>0, <1>3, <2>1, <2>2
    <3> QED BY <1>4, <2>1, <3>1
  <2>3. m = Len(s) + 1 \/ (m > i + 2 /\ s[m - 1] = nl)
    BY <1>3, <1>4, <2>1
  <2> QED BY <2>1, <2>2, <2>3 DEF EndsAt, nl
<1>6. ASSUME NEW e, EndsAt(s, i, e) PROVE e = m
  <2>1. /\ e \in (i + 2)..(Len(s) + 1)
        /\ \A k \in (i + 2)..(e - 1) : s[k] = nl => k = e - 1
        /\ e = Len(s) + 1 \/ (e > i + 2 /\ s[e - 1] = nl)
    BY <1>6 DEF EndsAt, nl
  <2>2. e \in A
    BY <1>3, <2>1
  <2>3. m <= e /\ m \in (i + 2)..(Len(s) + 1)
    BY <1>1, <1>4, <2>2
  <2>4. ASSUME m < e PROVE FALSE
    <3>1. s[m - 1] = nl /\ m - 1 \in (i + 2)..(e - 1)
      BY <1>3, <1>4, <2>1, <2>3, <2>4
    <3> QED BY <2>1, <2>3, <2>4, <3>1
  <2> QED BY <2>1, <2>3, <2>4
<1> QED BY <1>5, <1>6 DEF m

\* t is what is left of s without its first k characters.
IsRest(t, s, k) ==
  /\ Len(s) \in Nat /\ k \in 0..Len(s) /\ Len(t) = Len(s) - k
  /\ \A i \in 1..Len(t) : t[i] = s[k + i]

\* Characters and comments of the rest are those of the text.
LEMMA RestLooksSame ==
  ASSUME NEW s, NEW t, NEW k, IsRest(t, s, k), NEW i \in 1..(Len(t) + 1)
  PROVE  /\ Len(t) \in Nat /\ k + i \in 1..(Len(s) + 1)
         /\ Peek(t, i) = Peek(s, k + i)
         /\ \A S : Is(t, i, S) <=> Is(s, k + i, S)
         /\ IsComment(t, i) <=> IsComment(s, k + i)
         /\ IsComment(t, i) => CommentEnd(s, k + i) = k + CommentEnd(t, i)
<1>1. Len(t) \in Nat /\ k + i \in 1..(Len(s) + 1) /\ k \in Nat /\ Len(s) \in Nat
  BY DEF IsRest
<1>2. Peek(t, i) = Peek(s, k + i) /\ \A S : Is(t, i, S) <=> Is(s, k + i, S)
  BY DEF IsRest, Peek, Is
<1>3. i <= Len(t) => Peek(t, i + 1) = Peek(s, k + i + 1)
  BY DEF IsRest, Peek
<1>4. IsComment(t, i) <=> IsComment(s, k + i)
  <2>1. "/" # EOF
    BY DEF EOF
  <2>2. Peek(t, i) = "/" => i <= Len(t)
    BY <1>1, <2>1 DEF Peek
  <2>3. (k + i) + 1 = k + i + 1
    OBVIOUS
  <2> QED BY <1>2, <1>3, <2>2, <2>3 DEF IsComment
<1>5. ASSUME IsComment(t, i) PROVE CommentEnd(s, k + i) = k + CommentEnd(t, i)
  <2> DEFINE e == CommentEnd(t, i)
             nl == "\n"
  <2>1. EndsAt(t, i, e)
    BY <1>1, <1>5, CommentEndsAt
  <2> HIDE DEF e, nl
  <2>2. /\ e \in (i + 2)..(Len(t) + 1)
        /\ \A j \in (i + 2)..(e - 1) : t[j] = nl => j = e - 1
        /\ e = Len(t) + 1 \/ (e > i + 2 /\ t[e - 1] = nl)
    BY <2>1 DEF EndsAt, nl
  <2>3. /\ k + e \in ((k + i) + 2)..(Len(s) + 1)
        /\ k + e = Len(s) + 1 \/ (k + e > (k + i) + 2 /\ s[(k + e) - 1] = nl)
    BY <1>1, <2>2 DEF IsRest
  <2>4. ASSUME NEW j \in ((k + i) + 2)..((k + e) - 1), s[j] = nl PROVE j = (k + e) - 1
    <3>1. j - k \in (i + 2)..(e - 1) /\ j - k \in 1..Len(t) /\ k + (j - k) = j
      BY <1>1, <2>2
    <3>2. t[j - k] = s[j]
      BY <3>1 DEF IsRest
    <3>3. j - k = e - 1
      BY <2>2, <2>4, <3>1, <3>2
    <3> QED BY <1>1, <2>2, <3>3
  <2>5. EndsAt(s, k + i, k + e)
    BY <2>3, <2>4 DEF EndsAt, nl
  <2>6. IsComment(s, k + i) /\ k + i \in Nat \ {0}
    BY <1>1, <1>4, <1>5
  <2>7. k + e = CommentEnd(s, k + i)
    BY <1>1, <2>5, <2>6, CommentEndsAt
  <2> QED BY <2>7 DEF e
<1> QED BY <1>1, <1>2, <1>4, <1>5

\* Where the rest begins.
LEMMA StartOfRest ==
  ASSUME NEW s, NEW t, NEW k, IsRest(t, s, k), NEW f, StartBy(s, f)
  PROVE  f[k + 1] = k + Start(t)
<1> DEFINE n == Len(t) + 1
<1>1. Len(s) \in Nat /\ Len(t) \in Nat /\ k \in 0..Len(s) /\ Len(t) = Len(s) - k
  BY DEF IsRest
<1>2. PICK g : StartBy(t, g)
  BY <1>1, StartFunction
<1> DEFINE T == {i \in 1..n : f[k + i] = k + g[i]}
<1>3. ASSUME NEW i \in 1..n, \A j \in (i + 1)..n : j \in T PROVE i \in T
  <2>1. \A j \in (i + 1)..n : f[k + j] = k + g[j]
    BY <1>3
  <2>2. g[i] = StartAt(t, g, i) /\ g[i] \in Nat
    BY <1>1, <1>2 DEF StartBy
  <2>3. k + i \in 1..(Len(s) + 1) /\ f[k + i] = StartAt(s, f, k + i)
    BY <1>1, <1>2 DEF StartBy
  <2>4. /\ Is(t, i, Space) <=> Is(s, k + i, Space)
        /\ IsComment(t, i) <=> IsComment(s, k + i)
        /\ IsComment(t, i) => CommentEnd(s, k + i) = k + CommentEnd(t, i)
    BY RestLooksSame
  <2>5. /\ Is(t, i, Space) => i + 1 \in (i + 1)..n
        /\ IsComment(t, i) => CommentEnd(t, i) \in (i + 1)..n
    BY <1>1, StartLater
  <2>6. CASE Is(t, i, Space)
    <3>1. g[i] = g[i + 1] /\ f[k + i] = f[(k + i) + 1]
      BY <2>2, <2>3, <2>4, <2>6 DEF StartAt
    <3>2. f[k + (i + 1)] = k + g[i + 1] /\ k + (i + 1) = (k + i) + 1
      BY <1>1, <2>1, <2>5, <2>6
    <3> QED BY <3>1, <3>2
  <2>7. CASE ~Is(t, i, Space) /\ IsComment(t, i)
    <3>1. g[i] = g[CommentEnd(t, i)] /\ f[k + i] = f[CommentEnd(s, k + i)]
      BY <2>2, <2>3, <2>4, <2>7 DEF StartAt
    <3>2. f[k + CommentEnd(t, i)] = k + g[CommentEnd(t, i)]
      BY <2>1, <2>5, <2>7
    <3> QED BY <2>4, <2>7, <3>1, <3>2
  <2>8. CASE ~Is(t, i, Space) /\ ~IsComment(t, i)
    <3>1. g[i] = i /\ f[k + i] = k + i
      BY <2>2, <2>3, <2>4, <2>8 DEF StartAt
    <3> QED BY <3>1
  <2> QED BY <2>6, <2>7, <2>8
<1> HIDE DEF T
<1>4. 1 \in T
  <2>1. n \in Nat /\ 1 \in 1..n
    BY <1>1
  <2> HIDE DEF n
  <2> QED BY <1>3, <2>1, DownwardInduction
<1> QED BY <1>2, <1>4 DEF T, StartBy

\* One character of space, or one comment, at the beginning.
LEMMA StartUnfolds ==
  ASSUME NEW s, Len(s) \in Nat
  PROVE  /\ \A t : Is(s, 1, Space) /\ IsRest(t, s, 1) => Start(s) = 1 + Start(t)
         /\ \A t : IsComment(s, 1) /\ IsRest(t, s, CommentEnd(s, 1) - 1)
                     => Start(s) = (CommentEnd(s, 1) - 1) + Start(t)
         /\ ~Is(s, 1, Space) /\ ~IsComment(s, 1) => Start(s) = 1
<1>1. PICK f : StartBy(s, f)
  BY StartFunction
<1>2. 1 \in 1..(Len(s) + 1) /\ Start(s) = StartAt(s, f, 1)
  BY <1>1 DEF StartBy
<1>3. ASSUME NEW t, Is(s, 1, Space), IsRest(t, s, 1) PROVE Start(s) = 1 + Start(t)
  <2>1. Start(s) = f[1 + 1]
    BY <1>2, <1>3 DEF StartAt
  <2> QED BY <1>1, <1>3, <2>1, StartOfRest
<1>4. ASSUME NEW t, IsComment(s, 1), IsRest(t, s, CommentEnd(s, 1) - 1)
      PROVE  Start(s) = (CommentEnd(s, 1) - 1) + Start(t)
  <2>1. ~Is(s, 1, Space)
    <3>1. "/" \notin Space
      BY Zenon DEF Space
    <3> QED BY <1>4, <3>1 DEF IsComment, Peek, Is
  <2>2. Start(s) = f[CommentEnd(s, 1)]
    BY <1>2, <1>4, <2>1 DEF StartAt
  <2> DEFINE e == CommentEnd(s, 1)
  <2>3. e \in Nat
    BY <1>2, <1>4, CommentEndIs
  <2> HIDE DEF e
  <2>4. (e - 1) + 1 = e
    BY <2>3
  <2>5. f[(e - 1) + 1] = (e - 1) + Start(t)
    BY <1>1, <1>4, StartOfRest DEF e
  <2> QED BY <2>2, <2>4, <2>5 DEF e
<1>5. ~Is(s, 1, Space) /\ ~IsComment(s, 1) => Start(s) = 1
  BY <1>2 DEF StartAt
<1> QED BY <1>3, <1>4, <1>5

-----------------------------------------------------------------------------
(* What does not depend on what comes after the text *)

\* No character is the end of the stream.
NoEOF(s) == \A i \in 1..Len(s) : s[i] # EOF

\* y is a part of z from its beginning on: what has been read of it.
Begins(y, z) ==
  /\ \E C : y \in Seq(C) /\ z \in Seq(C)
  /\ Len(y) <= Len(z) /\ \A i \in 1..Len(y) : y[i] = z[i]
  /\ NoEOF(z)

\* What is seen inside y is seen in z, and the end of y is told from it.
LEMMA BeginsLooksSame ==
  ASSUME NEW y, NEW z, Begins(y, z)
  PROVE  /\ Len(y) \in Nat /\ Len(z) \in Nat /\ Len(y) <= Len(z)
         /\ \A i \in Nat \ {0} : Peek(y, i) = EOF <=> i > Len(y)
         /\ \A i \in Nat \ {0} : Peek(z, i) = EOF <=> i > Len(z)
         /\ \A i \in 1..Len(y) : y[i] = z[i] /\ Peek(y, i) = Peek(z, i)
         /\ \A i \in 1..Len(y) : \A S : Is(y, i, S) <=> Is(z, i, S)
<1>1. Len(y) \in Nat /\ Len(z) \in Nat /\ Len(y) <= Len(z)
  BY DEF Begins
<1>2. \A i \in 1..Len(y) : y[i] = z[i] /\ Peek(y, i) = Peek(z, i)
  BY <1>1 DEF Begins, Peek
<1>3. \A i \in 1..Len(y) : \A S : Is(y, i, S) <=> Is(z, i, S)
  BY <1>1 DEF Begins, Is
<1>4. \A i \in Nat \ {0} : Peek(z, i) = EOF <=> i > Len(z)
  BY <1>1 DEF Begins, Peek, NoEOF
<1>5. \A i \in Nat \ {0} : Peek(y, i) = EOF <=> i > Len(y)
  BY <1>1, <1>2, <1>4 DEF Peek
<1> QED BY <1>1, <1>2, <1>3, <1>4, <1>5

\* Parts of y are parts of z.
LEMMA BeginsSubSeq ==
  ASSUME NEW y, NEW z, Begins(y, z), NEW a \in Nat \ {0}, NEW b \in Nat, b <= Len(y)
  PROVE  SubSeq(y, a, b) = SubSeq(z, a, b)
<1>1. PICK C : y \in Seq(C) /\ z \in Seq(C)
  BY DEF Begins
<1>2. Len(y) <= Len(z) /\ \A i \in 1..Len(y) : y[i] = z[i]
  BY DEF Begins
<1> QED BY <1>1, <1>2

\* All before After is in S.
LEMMA BeforeAfter ==
  ASSUME NEW s, Len(s) \in Nat, NEW i \in 1..(Len(s) + 1), NEW S
  PROVE  \A j \in i..(After(s, i, S) - 1) : Is(s, j, S)
<1> DEFINE A == {j \in i..(Len(s) + 1) : ~Is(s, j, S)}
           m == After(s, i, S)
<1>1. m = Min(A)
  BY DEF After
<1>2. A \in SUBSET Nat /\ A # {}
  BY AfterIs
<1> HIDE DEF A
<1>3. \A x \in A : m <= x
  BY <1>1, <1>2, MinIs
<1>4. m \in i..(Len(s) + 1)
  BY AfterIs
<1> HIDE DEF m
<1>5. ASSUME NEW j \in i..(m - 1), ~Is(s, j, S) PROVE FALSE
  <2>1. j \in A
    BY <1>4, <1>5 DEF A
  <2> QED BY <1>3, <1>4, <2>1
<1> QED BY <1>5 DEF m

\* There is only one such place.
LEMMA AfterUnique ==
  ASSUME NEW s, Len(s) \in Nat, NEW i \in 1..(Len(s) + 1), NEW S,
         NEW m \in i..(Len(s) + 1), ~Is(s, m, S), \A j \in i..(m - 1) : Is(s, j, S)
  PROVE  After(s, i, S) = m
<1> DEFINE a == After(s, i, S)
<1>1. a \in i..(Len(s) + 1) /\ ~Is(s, a, S)
  BY AfterIs
<1>2. \A j \in i..(a - 1) : Is(s, j, S)
  BY BeforeAfter
<1> HIDE DEF a
<1>3. ~(a < m) /\ ~(m < a)
  BY <1>1, <1>2
<1>4. a = m
  BY <1>1, <1>3
<1> QED BY <1>4 DEF a

\* Reading more does not change a place that is inside y, and moves no other
\* backwards.
LEMMA BeginsAfter ==
  ASSUME NEW y, NEW z, Begins(y, z), NEW i \in 1..(Len(y) + 1), NEW S
  PROVE  /\ After(y, i, S) <= After(z, i, S)
         /\ After(y, i, S) <= Len(y) => After(z, i, S) = After(y, i, S)
<1> DEFINE a == After(y, i, S)
           b == After(z, i, S)
<1>1. Len(y) \in Nat /\ Len(z) \in Nat /\ Len(y) <= Len(z)
  BY BeginsLooksSame
<1>2. a \in i..(Len(y) + 1) /\ ~Is(y, a, S) /\ \A j \in i..(a - 1) : Is(y, j, S)
  BY <1>1, AfterIs, BeforeAfter
<1>3. i \in 1..(Len(z) + 1)
  BY <1>1
<1>4. b \in i..(Len(z) + 1) /\ ~Is(z, b, S)
  BY <1>1, <1>3, AfterIs
<1> HIDE DEF b
<1>5. \A j \in i..(a - 1) : Is(z, j, S)
  <2> HIDE DEF a
  <2>1. \A j \in i..(a - 1) : j \in 1..Len(y)
    BY <1>1, <1>2
  <2> QED BY <1>2, <2>1, BeginsLooksSame
<1>6. a <= b
  <2> HIDE DEF a
  <2> QED BY <1>1, <1>2, <1>4, <1>5
<1>7. ASSUME a <= Len(y) PROVE b = a
  <2>1. ~Is(z, a, S)
    <3> HIDE DEF a
    <3>1. a \in 1..Len(y)
      BY <1>1, <1>2, <1>7
    <3> QED BY <1>2, <3>1, BeginsLooksSame
  <2>2. a \in i..(Len(z) + 1)
    BY <1>1, <1>2
  <2> HIDE DEF a
  <2>3. After(z, i, S) = a
    BY <1>1, <1>3, <1>5, <2>1, <2>2, AfterUnique
  <2> QED BY <2>3 DEF b
<1> QED BY <1>6, <1>7 DEF b

\* An answer that does not wait for more to be read.
Final(r) == r.tok.kind # "T_INCOMPLETE"

\* Waiting, and nothing else, is not final.
LEMMA FinalIs ==
  /\ ~Final(INCOMPLETE)
  /\ \A msg : Final(ERROR(msg))
  /\ \A kind, n : Final(TOK(kind, n)) <=> kind # "T_INCOMPLETE"
  /\ \A b, n : Final(Part(b, n))
BY DEF Final, INCOMPLETE, ERROR, TOK, Part, Lexed

\* \xhh: the digits that make the answer final are in y.
LEMMA HexEscapeStays ==
  ASSUME NEW y, NEW z, Begins(y, z), NEW i \in Nat \ {0}, Final(HexEscape(y, i))
  PROVE  HexEscape(z, i) = HexEscape(y, i)
<1> DEFINE bad(s) == {j \in {i, i + 1} : ~Is(s, j, DOMAIN HexX)}
           val(s) == (16 * HexX[s[i]] + HexX[s[i + 1]]) % 256
<1>1. ASSUME NEW s
      PROVE  HexEscape(s, i) =
               IF bad(s) # {}
                 THEN IF Peek(s, Min(bad(s))) = EOF THEN INCOMPLETE
                      ELSE ERROR("invalid hex digit in hex escape")
               ELSE IF val(s) > 127 THEN ERROR("invalid hex escape (value is above 0x7f)")
               ELSE Part(<<val(s)>>, 4)
  BY DEF HexEscape
<1>2. CASE bad(y) = {}
  <2>1. i \in 1..Len(y) /\ i + 1 \in 1..Len(y)
    <3>1. Is(y, i, DOMAIN HexX) /\ Is(y, i + 1, DOMAIN HexX)
      BY <1>2
    <3>2. Len(y) \in Nat
      BY BeginsLooksSame
    <3> QED BY <3>1, <3>2 DEF Is
  <2>2. bad(z) = {}
    <3>1. Is(z, i, DOMAIN HexX) /\ Is(z, i + 1, DOMAIN HexX)
      BY <1>2, <2>1, BeginsLooksSame
    <3> QED BY <3>1
  <2>3. val(y) = val(z)
    BY <2>1, BeginsLooksSame
  <2> HIDE DEF bad, val
  <2> QED BY <1>1, <1>2, <2>2, <2>3
<1>3. CASE bad(y) # {}
  <2> DEFINE m == Min(bad(y))
  <2>1. m \in bad(y) /\ \A j \in bad(y) : m <= j
    <3>1. bad(y) \in SUBSET Nat
      OBVIOUS
    <3> HIDE DEF bad
    <3> QED BY <1>3, <3>1, MinIs
  <2>2. m \in 1..Len(y)
    <3>1. Peek(y, m) # EOF
      BY <1>1, <1>3, FinalIs
    <3>2. m \in Nat \ {0}
      BY <2>1
    <3> HIDE DEF m
    <3> QED BY <3>1, <3>2, BeginsLooksSame
  <2>3. m \in bad(z) /\ \A j \in bad(z) : m <= j
    <3>1. m \in {i, i + 1} /\ ~Is(y, m, DOMAIN HexX)
      BY <2>1
    <3>2. ~Is(z, m, DOMAIN HexX)
      <4> HIDE DEF m
      <4> QED BY <2>2, <3>1, BeginsLooksSame
    <3>3. m = i + 1 => Is(z, i, DOMAIN HexX)
      <4> SUFFICES ASSUME m = i + 1 PROVE Is(z, i, DOMAIN HexX)
        OBVIOUS
      <4>1. Is(y, i, DOMAIN HexX)
        <5>1. i \notin bad(y)
          <6> HIDE DEF bad
          <6> QED BY <2>1
        <5> QED BY <5>1
      <4>2. i \in 1..Len(y)
        <5> HIDE DEF m
        <5> QED BY <2>2
      <4> QED BY <4>1, <4>2, BeginsLooksSame
    <3> HIDE DEF m
    <3> QED BY <3>1, <3>2, <3>3
  <2>4. Min(bad(z)) = m
    <3>1. bad(z) \in SUBSET Nat
      OBVIOUS
    <3> HIDE DEF bad
    <3>2. Min(bad(z)) \in bad(z) /\ \A j \in bad(z) : Min(bad(z)) <= j
      BY <2>3, <3>1, MinIs
    <3> HIDE DEF m
    <3>3. Min(bad(z)) <= m /\ m <= Min(bad(z)) /\ m \in Nat /\ Min(bad(z)) \in Nat
      BY <2>3, <3>1, <3>2
    <3> QED BY <3>3
  <2>5. Peek(z, m) # EOF /\ Peek(y, m) # EOF
    <3> HIDE DEF m
    <3> QED BY <2>2, BeginsLooksSame
  <2> HIDE DEF bad, val
  <2> QED BY <1>1, <1>3, <2>3, <2>4, <2>5
<1> QED BY <1>2, <1>3

\* \u{h...}: so are the brace after the digits and the digits.
LEMMA UnicodeEscapeStays ==
  ASSUME NEW y, NEW z, Begins(y, z), NEW i \in Nat \ {0}, Final(UnicodeEscape(y, i))
  PROVE  UnicodeEscape(z, i) = UnicodeEscape(y, i)
<1> DEFINE after(s) == After(s, i + 1, DOMAIN HexU)
           end(s) == Min({i + 7, after(s)})
           open == "{"
           number(s) == HexNumber(SubSeq(s, i + 1, end(s) - 1))
           Answer(first, last, e, val) ==
             IF first # open
               THEN IF first = EOF THEN INCOMPLETE
                    ELSE ERROR("unexpected character (wanted '{')")
             ELSE IF last = EOF THEN INCOMPLETE
             ELSE IF last # "}"
               THEN ERROR(IF e = i + 7 THEN "unexpected character (wanted '}')"
                                       ELSE "invalid hex digit in unicode escape")
             ELSE IF e = i + 1 THEN ERROR("invalid unicode escape (no digits)")
             ELSE IF val > MaxCode THEN ERROR("unicode escape must be at most 10FFFF")
             ELSE Part(Utf8(val), e - i + 3)
<1>1. \A s : UnicodeEscape(s, i) = Answer(Peek(s, i), Peek(s, end(s)), end(s), number(s))
  BY DEF UnicodeEscape
<1>2. ASSUME NEW first, NEW last, NEW e, NEW val
      PROVE  /\ first = EOF => Answer(first, last, e, val) = INCOMPLETE
             /\ first = open /\ last = EOF => Answer(first, last, e, val) = INCOMPLETE
  BY DEF EOF
<1>3. \A s : Peek(s, i) # open =>
              UnicodeEscape(s, i) = IF Peek(s, i) = EOF THEN INCOMPLETE
                                    ELSE ERROR("unexpected character (wanted '{')")
  BY DEF UnicodeEscape
<1> HIDE DEF Answer, end, number
<1>4. Peek(y, i) # EOF
  BY <1>1, <1>2, FinalIs
<1>5. i \in 1..Len(y) /\ Peek(y, i) = Peek(z, i)
  BY <1>4, BeginsLooksSame
<1>6. CASE Peek(y, i) # open
  BY <1>3, <1>5, <1>6
<1>7. CASE Peek(y, i) = open
  <2>1. Peek(y, end(y)) # EOF
    BY <1>1, <1>2, <1>7, FinalIs
  <2>2. Len(y) \in Nat /\ Len(z) \in Nat /\ Len(y) <= Len(z)
    BY BeginsLooksSame
  <2>3. i + 1 \in 1..(Len(y) + 1) /\ i + 1 \in 1..(Len(z) + 1)
    BY <1>5, <2>2
  <2>4. after(y) \in (i + 1)..(Len(y) + 1) /\ after(z) \in (i + 1)..(Len(z) + 1)
    BY <2>2, <2>3, AfterIs
  <2>5. after(y) <= after(z) /\ (after(y) <= Len(y) => after(z) = after(y))
    BY <2>3, BeginsAfter
  <2> HIDE DEF after
  <2>6. ASSUME NEW a \in Nat
        PROVE  Min({i + 7, a}) \in {i + 7, a} /\ Min({i + 7, a}) <= i + 7 /\ Min({i + 7, a}) <= a
    <3> DEFINE E == {i + 7, a}
    <3>1. E \in SUBSET Nat /\ E # {}
      OBVIOUS
    <3> HIDE DEF E
    <3>2. Min(E) \in E /\ \A x \in E : Min(E) <= x
      BY <3>1, MinIs
    <3> QED BY <3>2 DEF E
  <2>7. /\ end(y) \in {i + 7, after(y)} /\ end(y) <= i + 7 /\ end(y) <= after(y)
        /\ end(z) \in {i + 7, after(z)} /\ end(z) <= i + 7 /\ end(z) <= after(z)
    <3>1. after(y) \in Nat /\ after(z) \in Nat
      BY <2>4
    <3> QED BY <2>6, <3>1 DEF end
  <2>8. end(y) \in 1..Len(y)
    <3>1. end(y) \in Nat \ {0}
      BY <2>4, <2>7
    <3> QED BY <2>1, <3>1, BeginsLooksSame
  <2>9. end(z) = end(y)
    BY <2>2, <2>4, <2>5, <2>7, <2>8
  <2>10. Peek(z, end(y)) = Peek(y, end(y))
    BY <2>8, BeginsLooksSame
  <2>11. number(z) = number(y)
    <3>1. end(y) - 1 \in Nat /\ end(y) - 1 <= Len(y) /\ i + 1 \in Nat \ {0}
      BY <2>2, <2>8
    <3>2. SubSeq(y, i + 1, end(y) - 1) = SubSeq(z, i + 1, end(y) - 1)
      BY <3>1, BeginsSubSeq
    <3> QED BY <2>9, <3>2 DEF number
  <2> QED BY <1>1, <1>5, <2>9, <2>10, <2>11
<1> QED BY <1>6, <1>7

\* An escape that is in y.
LEMMA EscapeStays ==
  ASSUME NEW y, NEW z, Begins(y, z), NEW i \in Nat \ {0}, Final(Escape(y, i))
  PROVE  Escape(z, i) = Escape(y, i)
<1> DEFINE esc == Peek(y, i)
           Others_ == IF esc = EOF THEN INCOMPLETE
                      ELSE ERROR("invalid escape in string literal")
           E(s) == IF Is(s, i, DOMAIN Escapes) THEN Part(<<Escapes[esc]>>, 2)
                   ELSE IF esc = "x" THEN HexEscape(s, i + 1)
                   ELSE IF esc = "u" THEN UnicodeEscape(s, i + 1)
                   ELSE Others_
<1>1. Escape(y, i) = E(y)
  BY DEF Escape
<1>2. i \in 1..Len(y)
  <2> SUFFICES ASSUME i \notin 1..Len(y) PROVE FALSE
    OBVIOUS
  <2>1. esc = EOF /\ ~Is(y, i, DOMAIN Escapes)
    BY BeginsLooksSame DEF Is
  <2>2. EOF # "x" /\ EOF # "u"
    BY DEF EOF
  <2> HIDE DEF esc
  <2> QED BY <1>1, <2>1, <2>2, FinalIs
<1>3. Peek(z, i) = esc /\ (Is(z, i, DOMAIN Escapes) <=> Is(y, i, DOMAIN Escapes))
  BY <1>2, BeginsLooksSame
<1>4. Escape(z, i) = E(z)
  BY <1>3 DEF Escape
<1>5. /\ Final(HexEscape(y, i + 1)) => HexEscape(z, i + 1) = HexEscape(y, i + 1)
      /\ Final(UnicodeEscape(y, i + 1)) => UnicodeEscape(z, i + 1) = UnicodeEscape(y, i + 1)
  BY HexEscapeStays, UnicodeEscapeStays
<1> HIDE DEF esc, Others_
<1> QED BY <1>1, <1>3, <1>4, <1>5

\* A part of a string that is in y.
LEMMA StringPartStays ==
  ASSUME NEW y, NEW z, Begins(y, z), NEW i \in 1..Len(y), Final(StringPart(y, i))
  PROVE  StringPart(z, i) = StringPart(y, i)
<1>1. y[i] = z[i] /\ Len(y) \in Nat
  BY BeginsLooksSame
<1>2. Final(Escape(y, i + 1)) => Escape(z, i + 1) = Escape(y, i + 1)
  BY <1>1, EscapeStays
<1> QED BY <1>1, <1>2 DEF StringPart

\* A string that is finished or malformed in y.
LEMMA StringStays ==
  ASSUME NEW y, NEW z, Begins(y, z), 1 <= Len(y), Final(String(y))
  PROVE  String(z) = String(y)
<1> DEFINE n == Len(y) + 1
<1>1. Len(y) \in Nat /\ Len(z) \in Nat /\ Len(y) <= Len(z) /\ n \in Nat /\ 2 \in 1..n
  BY BeginsLooksSame
<1>2. PICK f : StringBy(y, f)
  BY <1>1, StringFunction
<1>3. PICK g : StringBy(z, g)
  BY <1>1, StringFunction
<1> DEFINE T == {i \in 1..n : Final(f[i]) => g[i] = f[i]}
<1>4. ASSUME NEW i \in 1..n, \A j \in (i + 1)..n : j \in T PROVE i \in T
  <2> SUFFICES ASSUME Final(f[i]) PROVE g[i] = f[i]
    OBVIOUS
  <2>1. f[i] = StringAt(y, f, i) /\ g[i] = StringAt(z, g, i)
    BY <1>1, <1>2, <1>3 DEF StringBy
  <2>2. i \in 1..Len(y)
    <3>1. i > Len(y) => f[i] = INCOMPLETE
      BY <2>1 DEF StringAt
    <3> QED BY <1>1, <3>1, FinalIs
  <2>3. y[i] = z[i] /\ ~(i > Len(y)) /\ ~(i > Len(z))
    BY <1>1, <2>2, BeginsLooksSame
  <2> DEFINE part == StringPart(y, i)
  <2>4. CASE y[i] = Quote
    BY <2>1, <2>3, <2>4 DEF StringAt
  <2>5. CASE y[i] # Quote /\ part.tok.kind = "bytes"
    <3>1. StringPart(z, i) = part
      BY <2>2, <2>5, StringPartStays DEF Final
    <3>2. i + part.used \in (i + 1)..n
      BY <1>1, <2>2, <2>5, StringLater
    <3>3. f[i] = Before(part, f[i + part.used]) /\ g[i] = Before(part, g[i + part.used])
      <4> HIDE DEF part
      <4> QED BY <2>1, <2>3, <2>5, <3>1 DEF StringAt, part
    <3>4. Final(f[i + part.used])
      <4>1. CASE f[i + part.used].tok.kind # "T_STR"
        BY <3>3, <4>1 DEF Before
      <4>2. CASE f[i + part.used].tok.kind = "T_STR"
        BY <4>2 DEF Final
      <4> QED BY <4>1, <4>2
    <3>5. g[i + part.used] = f[i + part.used]
      <4> HIDE DEF part
      <4> QED BY <1>4, <3>2, <3>4
    <3> QED BY <3>3, <3>5
  <2>6. CASE y[i] # Quote /\ part.tok.kind # "bytes"
    <3>1. f[i] = part
      BY <2>1, <2>3, <2>6 DEF StringAt
    <3>2. StringPart(z, i) = part
      BY <2>2, <3>1, StringPartStays
    <3>3. g[i] = part
      <4> HIDE DEF part
      <4> QED BY <2>1, <2>3, <2>6, <3>2 DEF StringAt
    <3> QED BY <3>1, <3>3
  <2> QED BY <2>4, <2>5, <2>6
<1> HIDE DEF T
<1>5. 2 \in T
  <2> HIDE DEF n
  <2> QED BY <1>1, <1>4, DownwardInduction
<1> QED BY <1>2, <1>3, <1>5 DEF T, StringBy

\* A number that is finished in y.
LEMMA NumberStays ==
  ASSUME NEW y, NEW z, Begins(y, z), Final(Number(y))
  PROVE  Number(z) = Number(y)
<1> DEFINE n(s) == After(s, 1, NumberChar) - 1
<1>0. Len(y) \in Nat /\ Len(z) \in Nat /\ Len(y) <= Len(z)
  BY BeginsLooksSame
<1>1. \A s : Number(s) = IF n(s) = Len(s) THEN INCOMPLETE
                         ELSE Lexed(NumberToken(SubSeq(s, 1, n(s))), n(s))
  BY DEF Number
<1>2. n(y) \in 0..Len(y) /\ n(y) # Len(y)
  <2>1. n(y) # Len(y)
    <3> HIDE DEF n
    <3> QED BY <1>1, FinalIs
  <2>2. After(y, 1, NumberChar) \in 1..(Len(y) + 1)
    BY <1>0, AfterIs
  <2> QED BY <2>1, <2>2
<1>3. n(z) = n(y) /\ n(y) # Len(z)
  <2>1. After(y, 1, NumberChar) <= Len(y)
    <3>1. After(y, 1, NumberChar) \in 1..(Len(y) + 1)
      BY <1>0, AfterIs
    <3> QED BY <1>0, <1>2, <3>1
  <2>2. After(z, 1, NumberChar) = After(y, 1, NumberChar)
    BY <1>0, <2>1, BeginsAfter
  <2>3. n(y) # Len(z)
    <3> HIDE DEF n
    <3> QED BY <1>0, <1>2
  <2> QED BY <2>2, <2>3
<1> HIDE DEF n
<1>4. SubSeq(y, 1, n(y)) = SubSeq(z, 1, n(y))
  <2>1. 1 \in Nat \ {0} /\ n(y) \in Nat /\ n(y) <= Len(y)
    BY <1>0, <1>2
  <2> QED BY <2>1, BeginsSubSeq
<1> QED BY <1>1, <1>2, <1>3, <1>4
-----------------------------------------------------------------------------
(* Words *)

\* How long the run of letters, digits and underscores at the beginning is.
RunLength(s) == After(s, 1, IdentChar) - 1
Run(s) == SubSeq(s, 1, RunLength(s))

\* What a run is.
LEMMA RunIs ==
  ASSUME NEW s, IsText(s)
  PROVE  /\ RunLength(s) \in 0..Len(s) /\ Len(s) \in Nat
         /\ \A i \in 1..RunLength(s) : s[i] \in IdentChar
         /\ RunLength(s) # Len(s) => s[RunLength(s) + 1] \notin IdentChar
         /\ Len(Run(s)) = RunLength(s) /\ DOMAIN Run(s) = 1..RunLength(s)
         /\ \A i \in 1..RunLength(s) : Run(s)[i] = s[i]
<1> DEFINE a == After(s, 1, IdentChar)
<1>1. Len(s) \in Nat /\ 1 \in 1..(Len(s) + 1)
  BY TextLen
<1>2. a \in 1..(Len(s) + 1) /\ ~Is(s, a, IdentChar) /\ \A j \in 1..(a - 1) : Is(s, j, IdentChar)
  BY <1>1, AfterIs, BeforeAfter
<1>3. RunLength(s) = a - 1
  BY DEF RunLength
<1> HIDE DEF a
<1>4. RunLength(s) \in 0..Len(s) /\ \A i \in 1..RunLength(s) : s[i] \in IdentChar
  BY <1>1, <1>2, <1>3 DEF Is
<1>5. RunLength(s) # Len(s) => s[RunLength(s) + 1] \notin IdentChar
  BY <1>1, <1>2, <1>3 DEF Is
<1>6. /\ Len(Run(s)) = RunLength(s) /\ DOMAIN Run(s) = 1..RunLength(s)
      /\ \A i \in 1..RunLength(s) : Run(s)[i] = s[i]
  <2>1. PICK C : s \in Seq(C)
    BY DEF IsText
  <2> DEFINE m == RunLength(s)
  <2>2. m \in 0..Len(s)
    BY <1>4
  <2> HIDE DEF m
  <2>3. Len(SubSeq(s, 1, m)) = m /\ DOMAIN SubSeq(s, 1, m) = 1..m
        /\ \A i \in 1..m : SubSeq(s, 1, m)[i] = s[i]
    BY <1>1, <2>1, <2>2
  <2> QED BY <2>3 DEF Run, m
<1> QED BY <1>1, <1>4, <1>5, <1>6

\* Keywords are made of letters.
LEMMA KeywordsAreWords ==
  \A i \in DOMAIN Keywords :
    Keywords[i].word \in Seq(IdentChar) /\ Len(Keywords[i].word) \in Nat \ {0}
<1> DEFINE L == {"i", "n", "f", "l", "e", "t", "u", "r", "c", "h", "s", "a"}
<1>1. L \subseteq IdentChar
  BY Zenon DEF IdentChar
<1>2. \A i \in DOMAIN Keywords : Keywords[i].word \in Seq(L)
  <2>1. \A i \in DOMAIN Keywords :
          Keywords[i].word \in {<<"i", "n">>, <<"i", "f">>, <<"l", "e", "t">>, <<"f", "u", "n">>,
            <<"r", "e", "c">>, <<"t", "h", "e", "n">>, <<"e", "l", "s", "e">>,
            <<"t", "r", "u", "e">>, <<"f", "a", "l", "s", "e">>}
    BY DEF Keywords
  <2>2. <<"i", "n">> \in Seq(L) /\ <<"i", "f">> \in Seq(L)
    OBVIOUS
  <2>3. <<"l", "e", "t">> \in Seq(L) /\ <<"f", "u", "n">> \in Seq(L) /\ <<"r", "e", "c">> \in Seq(L)
    OBVIOUS
  <2>4. <<"t", "h", "e", "n">> \in Seq(L) /\ <<"e", "l", "s", "e">> \in Seq(L)
    OBVIOUS
  <2>5. <<"t", "r", "u", "e">> \in Seq(L) /\ <<"f", "a", "l", "s", "e">> \in Seq(L)
    OBVIOUS
  <2> HIDE DEF L
  <2> QED BY <2>1, <2>2, <2>3, <2>4, <2>5
<1> HIDE DEF L
<1>3. \A w : w \in Seq(L) => w \in Seq(IdentChar)
  BY <1>1, SeqMonotonic
<1> QED BY <1>2, <1>3, KeywordsAre

\* A word is a prefix of a text when it is at its beginning.
LEMMA PrefixIs ==
  ASSUME NEW a, NEW b, IsText(a), IsText(b)
  PROVE  IsPrefix(a, b) <=> Len(a) <= Len(b) /\ \A i \in 1..Len(a) : a[i] = b[i]
<1>1. PICK A : a \in Seq(A)
  BY DEF IsText
<1>2. PICK B : b \in Seq(B)
  BY DEF IsText
<1>3. Len(a) \in Nat /\ Len(b) \in Nat /\ SubSeq(a, 1, Len(a)) = a
  BY <1>1, SubSeqFull
<1>4. ASSUME Len(a) <= Len(b)
      PROVE  a = SubSeq(b, 1, Len(a)) <=> \A i \in 1..Len(a) : a[i] = b[i]
  <2> DEFINE c == SubSeq(b, 1, Len(a))
  <2>1. c \in Seq(B) /\ Len(c) = Len(a) /\ \A i \in 1..Len(a) : c[i] = b[i]
    BY <1>2, <1>3, <1>4
  <2>2. a \in Seq(A \cup B) /\ c \in Seq(A \cup B)
    BY <1>1, <2>1, SeqMonotonic
  <2> HIDE DEF c
  <2>3. a = c <=> \A i \in 1..Len(a) : a[i] = c[i]
    BY <2>1, <2>2, SeqEqual
  <2>4. (\A i \in 1..Len(a) : a[i] = c[i]) <=> \A i \in 1..Len(a) : a[i] = b[i]
    BY <2>1
  <2> QED BY <2>3, <2>4 DEF c
<1> QED BY <1>3, <1>4 DEF IsPrefix

\* When the run is finished, a keyword is there if it is the run.
LEMMA keywordAtRun ==
  ASSUME NEW s, IsText(s), RunLength(s) # Len(s), NEW i \in DOMAIN Keywords
  PROVE  keyword(s, Keywords[i]) =
           IF Keywords[i].word = Run(s) THEN TOK(Keywords[i].kind, RunLength(s))
           ELSE ERROR("no match")
<1> DEFINE k == Keywords[i]
           w == k.word
           n == RunLength(s)
<1>1. /\ n \in 0..Len(s) /\ n < Len(s) /\ Len(s) \in Nat /\ s[n + 1] \notin IdentChar
      /\ \A j \in 1..n : s[j] \in IdentChar
  <2>1. RunLength(s) \in 0..Len(s) /\ Len(s) \in Nat
    BY RunIs
  <2> QED BY <2>1, RunIs
<1>2. w \in Seq(IdentChar) /\ Len(w) \in Nat /\ IsText(w) /\ \A j \in 1..Len(w) : w[j] \in IdentChar
  BY KeywordsAreWords DEF IsText
<1>3. Len(Run(s)) = n /\ DOMAIN Run(s) = 1..n /\ \A j \in 1..n : Run(s)[j] = s[j]
  BY RunIs
<1> HIDE DEF n, w
<1>4. ~IsPrefix(s, w)
  <2> SUFFICES ASSUME IsPrefix(s, w) PROVE FALSE
    OBVIOUS
  <2>1. Len(s) <= Len(w) /\ \A j \in 1..Len(s) : s[j] = w[j]
    BY <1>2, PrefixIs
  <2>2. n + 1 \in 1..Len(s) /\ n + 1 \in 1..Len(w)
    BY <1>1, <1>2, <2>1
  <2> QED BY <1>1, <1>2, <2>1, <2>2
<1>5. ASSUME IsStrictPrefix(w, s), s[Len(w) + 1] \notin IdentChar PROVE w = Run(s) /\ Len(w) = n
  <2>1. Len(w) <= Len(s) /\ \A j \in 1..Len(w) : w[j] = s[j]
    BY <1>2, <1>5, PrefixIs DEF IsStrictPrefix
  <2>2. ~(Len(w) < n)
    <3> SUFFICES ASSUME Len(w) < n PROVE FALSE
      OBVIOUS
    <3>1. Len(w) + 1 \in 1..n
      BY <1>1, <1>2
    <3> QED BY <1>1, <1>5, <3>1
  <2>3. ~(Len(w) > n)
    <3> SUFFICES ASSUME Len(w) > n PROVE FALSE
      OBVIOUS
    <3>1. n + 1 \in 1..Len(w)
      BY <1>1, <1>2
    <3> QED BY <1>1, <1>2, <2>1, <3>1
  <2>4. Len(w) = n
    BY <1>1, <1>2, <2>2, <2>3
  <2>5. w = Run(s)
    <3>1. PICK C : s \in Seq(C)
      BY DEF IsText
    <3>2. w \in Seq(C \cup IdentChar) /\ Run(s) \in Seq(C \cup IdentChar)
      <4>1. Run(s) \in Seq(C)
        BY <1>1, <3>1 DEF Run, n
      <4> QED BY <1>2, <4>1, SeqMonotonic
    <3>3. \A j \in 1..Len(w) : w[j] = Run(s)[j]
      BY <1>3, <2>1, <2>4
    <3> QED BY <1>3, <2>4, <3>2, <3>3, SeqEqual
  <2> QED BY <2>4, <2>5
<1>6. ASSUME w = Run(s)
      PROVE  IsStrictPrefix(w, s) /\ s[Len(w) + 1] \notin IdentChar /\ Len(w) = n
  <2>1. Len(w) = n /\ \A j \in 1..Len(w) : w[j] = s[j]
    BY <1>3, <1>6
  <2>2. IsPrefix(w, s)
    BY <1>1, <1>2, <2>1, PrefixIs
  <2>3. w # s
    BY <1>1, <2>1
  <2> QED BY <1>1, <2>1, <2>2, <2>3 DEF IsStrictPrefix
<1>7. w = k.word
  BY DEF w
<1> HIDE DEF k
<1>8. CASE w = Run(s)
  <2>1. keyword(s, k) = TOK(k.kind, Len(w))
    BY Zenon, <1>4, <1>6, <1>7, <1>8 DEF keyword
  <2> QED BY <1>6, <1>7, <1>8, <2>1 DEF k, n
<1>9. CASE w # Run(s)
  <2>1. ~(IsStrictPrefix(w, s) /\ s[Len(w) + 1] \notin IdentChar)
    BY <1>5, <1>9
  <2>2. keyword(s, k) = ERROR("no match")
    BY Zenon, <1>4, <1>7, <2>1 DEF keyword
  <2> QED BY <1>7, <1>9, <2>2 DEF k
<1> QED BY <1>8, <1>9

\* When more may belong to the run, no keyword is there yet.
LEMMA keywordInRun ==
  ASSUME NEW s, IsText(s), RunLength(s) = Len(s), NEW i \in DOMAIN Keywords
  PROVE  keyword(s, Keywords[i]) \in {INCOMPLETE, ERROR("no match")}
<1> DEFINE k == Keywords[i]
           w == k.word
<1>1. /\ Len(s) \in Nat /\ \A j \in 1..Len(s) : s[j] \in IdentChar
  BY RunIs
<1>2. w \in Seq(IdentChar) /\ Len(w) \in Nat /\ IsText(w)
  BY KeywordsAreWords DEF IsText
<1>3. ~(IsStrictPrefix(w, s) /\ s[Len(w) + 1] \notin IdentChar)
  <2> SUFFICES ASSUME IsStrictPrefix(w, s), s[Len(w) + 1] \notin IdentChar PROVE FALSE
    OBVIOUS
  <2> HIDE DEF w
  <2>1. Len(w) <= Len(s) /\ (\A j \in 1..Len(w) : w[j] = s[j]) /\ w # s
    BY <1>2, PrefixIs DEF IsStrictPrefix
  <2>2. Len(w) = Len(s)
    <3> SUFFICES ASSUME Len(w) < Len(s) PROVE FALSE
      BY <1>1, <1>2, <2>1
    <3>1. Len(w) + 1 \in 1..Len(s)
      BY <1>1, <1>2
    <3> QED BY <1>1, <3>1
  <2>3. PICK C : s \in Seq(C)
    BY DEF IsText
  <2>4. w \in Seq(C \cup IdentChar) /\ s \in Seq(C \cup IdentChar)
    BY <1>2, <2>3, SeqMonotonic
  <2> QED BY <2>1, <2>2, <2>4, SeqEqual
<1> QED BY Zenon, <1>3 DEF keyword

\* When the run is finished, Word takes the whole of it.
LEMMA WordIsRun ==
  ASSUME NEW s, IsText(s), RunLength(s) # Len(s)
  PROVE  Word(s) = IF RunLength(s) = 0 THEN ERROR("invalid character")
                   ELSE Lexed(WordOf(Run(s)), RunLength(s))
<1> DEFINE n == RunLength(s)
           K == Len(Keywords)
           first == [i \in 1..K |-> keyword(s, Keywords[i])]
           tries == first \o <<ident(s)>>
           match == {i \in DOMAIN tries : tries[i].tok.kind # "T_ERROR"}
           same == {i \in DOMAIN Keywords : Keywords[i].word = Run(s)}
           name == Lexed([kind |-> "T_IDENT", ident |-> Run(s)], n)
           invalid == ERROR("invalid identifier")
           nomatch == ERROR("no match")
<1>0. K \in Nat /\ DOMAIN Keywords = 1..K
  BY KeywordsAre
<1>1. n \in Nat /\ Len(Run(s)) = n
  BY RunIs
<1>2. Word(s) = IF match = {} THEN ERROR("invalid character") ELSE tries[Min(match)]
  BY DEF Word
<1>3. first \in Seq({first[i] : i \in 1..K}) /\ Len(first) = K
  BY <1>0
<1>4. \A i \in 1..K : first[i] = IF i \in same THEN TOK(Keywords[i].kind, n)
                                 ELSE nomatch
  BY <1>0, keywordAtRun
<1> HIDE DEF K, first
<1>5. DOMAIN tries = 1..(K + 1) /\ tries[K + 1] = ident(s) /\ \A i \in 1..K : tries[i] = first[i]
  BY <1>0, <1>3
<1> HIDE DEF tries
<1>6. ident(s) = IF n = 0 THEN invalid ELSE name
  <2>1. ident(s) = IF RunLength(s) = 0 THEN ERROR("invalid identifier")
                   ELSE Lexed([kind |-> "T_IDENT", ident |-> SubSeq(s, 1, RunLength(s))],
                              RunLength(s))
    BY Zenon DEF ident, RunLength
  <2> QED BY <2>1 DEF Run
<1> HIDE DEF n
<1>7. nomatch.tok.kind = "T_ERROR" /\ invalid.tok.kind = "T_ERROR"
  BY DEF ERROR, Lexed
<1>8. name.tok.kind # "T_ERROR"
  BY DEF Lexed
<1>9. \A i \in same : TOK(Keywords[i].kind, n).tok.kind # "T_ERROR"
                      /\ Lexed([kind |-> Keywords[i].kind], n) = TOK(Keywords[i].kind, n)
  <2>1. \A i \in DOMAIN Keywords : Keywords[i].kind # "T_ERROR"
    BY DEF Keywords
  <2> QED BY <2>1 DEF TOK, Lexed
<1>10. n = 0 => same = {}
  BY <1>1, KeywordsAre
<1> HIDE DEF name, invalid, nomatch
<1>11. match = same \cup (IF n = 0 THEN {} ELSE {K + 1})
  <2>1. ASSUME NEW i \in 1..K PROVE i \in match <=> i \in same
    <3>1. i \in DOMAIN tries /\ tries[i] = IF i \in same THEN TOK(Keywords[i].kind, n)
                                            ELSE nomatch
      BY <1>0, <1>4, <1>5
    <3> HIDE DEF same
    <3> QED BY <1>7, <1>9, <3>1
  <2>2. K + 1 \in match <=> n # 0
    <3>1. K + 1 \in DOMAIN tries /\ tries[K + 1] = IF n = 0 THEN invalid ELSE name
      BY <1>0, <1>5, <1>6
    <3> QED BY <1>7, <1>8, <3>1
  <2>3. match \subseteq (1..K) \cup {K + 1} /\ same \subseteq 1..K
    BY <1>0, <1>5
  <2> HIDE DEF match, same
  <2> QED BY <1>0, <2>1, <2>2, <2>3
<1>12. WordOf(Run(s)) = IF same = {} THEN [kind |-> "T_IDENT", ident |-> Run(s)]
                        ELSE [kind |-> Keywords[Min(same)].kind]
  BY DEF WordOf
<1>13. same \in SUBSET (1..K)
  BY <1>0
<1> HIDE DEF match, same
<1>14. CASE n = 0
  <2>1. match = {}
    BY <1>10, <1>11, <1>14
  <2> QED BY <1>2, <1>14, <2>1 DEF n
<1>15. CASE n # 0 /\ same = {}
  <2> DEFINE S == {K + 1}
  <2>1. match = S
    BY <1>11, <1>15
  <2>2. Min(S) = K + 1
    <3>1. S \in SUBSET Nat /\ S # {}
      BY <1>0
    <3> HIDE DEF S
    <3>2. Min(S) \in S
      BY <3>1, MinIs
    <3> QED BY <3>2 DEF S
  <2>3. match # {}
    BY <2>1
  <2> HIDE DEF S
  <2>4. Word(s) = ident(s)
    BY <1>2, <1>5, <2>1, <2>2, <2>3
  <2> QED BY <1>6, <1>12, <1>15, <2>4 DEF name, n
<1>16. CASE n # 0 /\ same # {}
  <2>1. match \in SUBSET Nat /\ match # {} /\ same \in SUBSET Nat
    BY <1>0, <1>11, <1>13, <1>16
  <2>2. Min(same) \in same /\ \A i \in same : Min(same) <= i
    BY <1>16, <2>1, MinIs
  <2>3. Min(match) \in match /\ \A i \in match : Min(match) <= i
    BY <2>1, MinIs
  <2>4. Min(match) = Min(same)
    <3>1. Min(same) \in match /\ Min(same) \in 1..K
      BY <1>11, <1>13, <2>2
    <3>2. Min(match) <= Min(same) /\ Min(match) \in Nat
      BY <2>1, <2>3, <3>1
    <3>3. Min(match) \in same
      BY <1>0, <1>11, <1>16, <2>3, <3>1, <3>2
    <3> QED BY <2>2, <3>1, <3>2, <3>3
  <2>5. Word(s) = TOK(Keywords[Min(same)].kind, n)
    BY <1>2, <1>4, <1>5, <1>13, <2>1, <2>2, <2>4
  <2> QED BY <1>9, <1>12, <1>16, <2>2, <2>5 DEF n
<1> QED BY <1>14, <1>15, <1>16

\* When more may belong to the run, Word waits.
LEMMA WordInRun ==
  ASSUME NEW s, IsText(s), RunLength(s) = Len(s), Len(s) # 0
  PROVE  ~Final(Word(s))
<1> DEFINE K == Len(Keywords)
           first == [i \in 1..K |-> keyword(s, Keywords[i])]
           tries == first \o <<ident(s)>>
           match == {i \in DOMAIN tries : tries[i].tok.kind # "T_ERROR"}
<1>0. K \in Nat /\ DOMAIN Keywords = 1..K
  BY KeywordsAre
<1>2. Word(s) = IF match = {} THEN ERROR("invalid character") ELSE tries[Min(match)]
  BY DEF Word
<1>3. first \in Seq({first[i] : i \in 1..K}) /\ Len(first) = K
  BY <1>0
<1>4. \A i \in 1..K : first[i] \in {INCOMPLETE, ERROR("no match")}
  BY <1>0, keywordInRun
<1> HIDE DEF K, first
<1>5. DOMAIN tries = 1..(K + 1) /\ tries[K + 1] = ident(s) /\ \A i \in 1..K : tries[i] = first[i]
  BY <1>0, <1>3
<1> HIDE DEF tries
<1>6. ident(s) = INCOMPLETE
  BY Zenon DEF ident, RunLength
<1>7. \A msg : ERROR(msg).tok.kind = "T_ERROR"
  BY DEF ERROR, Lexed
<1>8. INCOMPLETE.tok.kind = "T_INCOMPLETE"
  BY DEF INCOMPLETE, TOK, Lexed
<1>9. \A i \in match : tries[i].tok.kind = "T_INCOMPLETE"
  <2> SUFFICES ASSUME NEW i \in 1..(K + 1), tries[i].tok.kind # "T_ERROR"
               PROVE  tries[i].tok.kind = "T_INCOMPLETE"
    BY <1>5
  <2>1. tries[i] = INCOMPLETE \/ \E msg : tries[i] = ERROR(msg)
    <3>1. CASE i = K + 1
      BY <1>5, <1>6, <3>1
    <3>2. CASE i # K + 1
      <4>1. i \in 1..K
        BY <1>0, <3>2
      <4> QED BY <1>4, <1>5, <4>1
    <3> QED BY <3>1, <3>2
  <2> QED BY <1>7, <1>8, <2>1
<1>10. match \in SUBSET Nat
  BY <1>0, <1>5
<1>11. K + 1 \in match
  BY <1>0, <1>5, <1>6, <1>8
<1> HIDE DEF match
<1>12. Min(match) \in match
  BY <1>10, <1>11, MinIs
<1>13. Word(s).tok.kind = "T_INCOMPLETE"
  BY <1>2, <1>9, <1>11, <1>12
<1> QED BY <1>13 DEF Final
-----------------------------------------------------------------------------
(* What is printed of a string (fdebug_str) is read as that string. *)

\* A hexadecimal digit that is printed is worth what it stands for.
LEMMA HexDigitRead ==
  ASSUME NEW k \in 0..15
  PROVE  HexDigit(k) \in DOMAIN HexX /\ HexX[HexDigit(k)] = k
<1>1. DOMAIN LowerHex = 1..16 /\ \A i, j \in 1..16 : LowerHex[i] = LowerHex[j] => i = j
  BY DEF LowerHex
<1>2. k + 1 \in 1..16 /\ HexDigit(k) = LowerHex[k + 1]
  BY DEF HexDigit
<1>3. HexDigit(k) \in Range(LowerHex)
  BY <1>1, <1>2 DEF Range
<1>4. Place(LowerHex, HexDigit(k)) = k + 1
  BY <1>1, <1>2 DEF Place
<1> QED BY <1>3, <1>4 DEF HexX, HexValues

\* An escape that is printed is one that is read, of the same byte.
LEMMA EscapedRead ==
  ASSUME NEW b \in DOMAIN Escaped
  PROVE  Escaped[b] \in DOMAIN Escapes /\ Escapes[Escaped[b]] = b
<1>1. /\ Quote \in DOMAIN Escapes /\ Escapes[Quote] = 34
      /\ "\\" \in DOMAIN Escapes /\ Escapes["\\"] = 92
      /\ "0" \in DOMAIN Escapes /\ Escapes["0"] = 0
      /\ "n" \in DOMAIN Escapes /\ Escapes["n"] = 10
      /\ "t" \in DOMAIN Escapes /\ Escapes["t"] = 9
      /\ "r" \in DOMAIN Escapes /\ Escapes["r"] = 13
  BY DEF Escapes, Quote
<1>2. /\ Escaped[34] = Quote /\ Escaped[92] = "\\" /\ Escaped[0] = "0"
      /\ Escaped[10] = "n" /\ Escaped[9] = "t" /\ Escaped[13] = "r"
  BY DEF Escaped
<1>3. b \in {34, 92, 0, 10, 9, 13}
  BY DEF Escaped
<1> QED BY <1>1, <1>2, <1>3

\* s has the characters of d at i.
Has(s, i, d) == i + Len(d) <= Len(s) + 1 /\ \A j \in 1..Len(d) : s[i + j - 1] = d[j]

\* What is printed for a byte is read as that byte.
LEMMA ByteRead ==
  ASSUME NEW b \in 0..127, NEW s, Len(s) \in Nat, NEW i \in Nat \ {0}, Has(s, i, DebugByte(b))
  PROVE  s[i] # Quote /\ StringPart(s, i) = Part(<<b>>, Len(DebugByte(b)))
<1>1. CASE b \in DOMAIN Escaped
  <2>1. DebugByte(b) = <<"\\", Escaped[b]>>
    BY <1>1 DEF DebugByte
  <2>2. s[i] = "\\" /\ s[i + 1] = Escaped[b] /\ i + 1 <= Len(s) /\ Len(DebugByte(b)) = 2
    BY <2>1 DEF Has
  <2>3. Is(s, i + 1, DOMAIN Escapes) /\ Escapes[Peek(s, i + 1)] = b
    BY <1>1, <2>2, EscapedRead DEF Is, Peek
  <2>4. Escape(s, i + 1) = Part(<<b>>, 2)
    <3>1. Peek(s, i + 1) = s[i + 1]
      BY <2>2 DEF Peek
    <3> QED BY <2>3, <3>1 DEF Escape
  <2>5. "\\" # Quote
    BY DEF Quote
  <2> QED BY <2>2, <2>4, <2>5 DEF StringPart
<1>2. CASE b \in Printable \ DOMAIN Escaped
  <2> DEFINE c == CHOOSE c \in DOMAIN Ascii : Ascii[c] = b
  <2>1. DebugByte(b) = <<c>>
    BY <1>2 DEF DebugByte
  <2>2. Ascii[c] = b
    BY <1>2, AsciiAssumption
  <2>3. c # Quote /\ c # "\\"
    <3>1. b # 34 /\ b # 92
      BY <1>2 DEF Escaped
    <3> HIDE DEF c
    <3> QED BY <2>2, <3>1, AsciiAssumption
  <2> HIDE DEF c
  <2>4. s[i] = c /\ Len(DebugByte(b)) = 1
    BY <2>1 DEF Has
  <2> QED BY <2>2, <2>3, <2>4 DEF StringPart
<1>3. CASE b \notin Printable /\ b \notin DOMAIN Escaped
  <2> DEFINE h == HexDigit(b \div 16)
             l == HexDigit(b % 16)
  <2>1. DebugByte(b) = <<"\\", "x", h, l>>
    BY <1>3 DEF DebugByte
  <2>2. b \div 16 \in 0..15 /\ b % 16 \in 0..15 /\ 16 * (b \div 16) + (b % 16) = b
    OBVIOUS
  <2>3. h \in DOMAIN HexX /\ HexX[h] = b \div 16 /\ l \in DOMAIN HexX /\ HexX[l] = b % 16
    BY <2>2, HexDigitRead
  <2> HIDE DEF h, l
  <2>4. /\ s[i] = "\\" /\ s[i + 1] = "x" /\ s[i + 2] = h /\ s[i + 3] = l
        /\ i + 3 <= Len(s) /\ Len(DebugByte(b)) = 4
    BY <2>1 DEF Has
  <2>5. HexEscape(s, (i + 1) + 1) = Part(<<b>>, 4)
    <3>0. (i + 1) + 1 = i + 2 /\ (i + 2) + 1 = i + 3
      OBVIOUS
    <3>1. Is(s, i + 2, DOMAIN HexX) /\ Is(s, i + 3, DOMAIN HexX)
      BY <2>3, <2>4 DEF Is
    <3>2. {j \in {i + 2, i + 3} : ~Is(s, j, DOMAIN HexX)} = {}
      BY <3>1
    <3>3. (16 * HexX[s[i + 2]] + HexX[s[i + 3]]) % 256 = b
      <4>1. s[i + 2] = h /\ s[i + 3] = l
        BY <2>4
      <4>2. 16 * HexX[h] + HexX[l] = b
        BY <2>2, <2>3
      <4>3. b % 256 = b
        OBVIOUS
      <4> QED BY <4>1, <4>2, <4>3
    <3>4. ~(b > 127)
      OBVIOUS
    <3> QED BY <3>0, <3>2, <3>3, <3>4 DEF HexEscape
  <2>6. Escape(s, i + 1) = HexEscape(s, (i + 1) + 1)
    <3>1. Peek(s, i + 1) = "x"
      BY <2>4 DEF Peek
    <3>2. "x" \notin DOMAIN Escapes
      BY DEF Escapes, Quote
    <3>3. ~Is(s, i + 1, DOMAIN Escapes)
      BY <2>4, <3>2 DEF Is
    <3> QED BY <3>1, <3>3 DEF Escape
  <2>7. "\\" # Quote
    BY DEF Quote
  <2> QED BY <2>4, <2>5, <2>6, <2>7 DEF StringPart
<1> QED BY <1>1, <1>2, <1>3

\* Sequences of elements of C.
Pieces(seqs, C) ==
  /\ Len(seqs) \in Nat /\ (Len(seqs) = 0 => seqs = << >>)
  /\ \A i \in 1..Len(seqs) : seqs[i] \in Seq(C)

\* g[i] is the first i of seqs, one after the other.
Flattens(seqs, g, C) ==
  /\ g \in [0..Len(seqs) -> Seq(C)]
  /\ g[0] = << >> /\ \A i \in 1..Len(seqs) : g[i] = g[i - 1] \o seqs[i]
  /\ FlattenSeq(seqs) = g[Len(seqs)]

\* FlattenSeq joins the sequences one after the other.
LEMMA FlattenIs ==
  ASSUME NEW C, NEW seqs, Pieces(seqs, C)
  PROVE  \E g : Flattens(seqs, g, C)
<1> DEFINE n == Len(seqs)
           F(g) == [i \in 1..n |-> IF i = 1 THEN seqs[i] ELSE g[i - 1] \o seqs[i]]
           H == CHOOSE g : g = F(g)
           G == [i \in 1..n |-> [x \in Seq(C) |-> x \o seqs[i]]]
           S == Seq(C)
<1>1. n \in Nat /\ \A i \in 1..n : seqs[i] \in Seq(C)
  BY DEF Pieces
<1>2. CASE n = 0
  <2> DEFINE g == [i \in 0..0 |-> << >>]
  <2>1. seqs = << >> /\ FlattenSeq(seqs) = seqs
    BY <1>2 DEF FlattenSeq, Pieces
  <2>2. g \in [0..n -> Seq(C)] /\ g[0] = << >> /\ g[n] = << >>
    BY <1>2
  <2> HIDE DEF g
  <2> QED BY <1>2, <2>1, <2>2 DEF Flattens
<1>3. CASE n # 0
  <2>1. FlattenSeq(seqs) = H[n]
    BY <1>3 DEF FlattenSeq
  <2>2. H = F(H)
    <3>1. << >> \in S /\ G \in [1..n -> [S -> S]]
      BY <1>1
    <3>2. PICK f : Iterates(f, n, S, << >>, G)
      <4> HIDE DEF n, G, S
      <4> QED BY <1>1, <3>1, RecursiveFunction
    <3> DEFINE g == [i \in 1..n |-> f[i]]
    <3>3. /\ f \in [0..n -> Seq(C)] /\ f[0] = << >>
          /\ \A i \in 1..n : f[i] = G[i][f[i - 1]]
      BY <3>2 DEF Iterates
    <3>4. \A i \in 1..n : f[i - 1] \in Seq(C) /\ f[i] = f[i - 1] \o seqs[i]
      <4> SUFFICES ASSUME NEW i \in 1..n PROVE f[i - 1] \in Seq(C) /\ f[i] = f[i - 1] \o seqs[i]
        OBVIOUS
      <4>1. i - 1 \in 0..n
        BY <1>1
      <4> QED BY <3>3, <4>1
    <3>5. \A i \in 1..n : g[i] = F(g)[i]
      <4> SUFFICES ASSUME NEW i \in 1..n PROVE g[i] = F(g)[i]
        OBVIOUS
      <4>1. CASE i = 1
        <5>1. i - 1 = 0
          BY <4>1
        <5>2. f[i] = f[i - 1] \o seqs[i]
          BY <3>4
        <5>3. seqs[i] \in Seq(C)
          BY <1>1
        <5>4. f[i] = seqs[i]
          BY <3>3, <5>1, <5>2, <5>3, ConcatEmptySeq
        <5> QED BY <4>1, <5>4
      <4>2. CASE i # 1
        <5>1. i - 1 \in 1..n
          BY <1>1, <4>2
        <5> QED BY <3>4, <4>2, <5>1
      <4> QED BY <4>1, <4>2
    <3>6. g = [i \in 1..n |-> g[i]] /\ F(g) = [i \in 1..n |-> F(g)[i]]
      OBVIOUS
    <3>7. g = F(g)
      <4> HIDE DEF g, F
      <4> QED BY <3>5, <3>6
    <3> HIDE DEF g, F
    <3> QED BY <3>7
  <2> HIDE DEF H
  <2>3. \A i \in 1..n : H[i] = IF i = 1 THEN seqs[i] ELSE H[i - 1] \o seqs[i]
    BY <2>2
  <2> DEFINE T == {m \in Nat : m + 1 <= n => H[m + 1] \in Seq(C)}
  <2>4. T = Nat
    <3>1. 0 \in T
      BY <1>1, <1>3, <2>3
    <3>2. ASSUME NEW m \in T PROVE m + 1 \in T
      <4> SUFFICES ASSUME (m + 1) + 1 <= n PROVE H[(m + 1) + 1] \in Seq(C)
        OBVIOUS
      <4>1. H[m + 1] \in Seq(C) /\ (m + 1) + 1 \in 1..n
        BY <1>1
      <4>2. H[(m + 1) + 1] = H[m + 1] \o seqs[(m + 1) + 1]
        <5>1. ((m + 1) + 1) - 1 = m + 1 /\ (m + 1) + 1 # 1
          OBVIOUS
        <5> QED BY <2>3, <4>1, <5>1
      <4> QED BY <1>1, <4>1, <4>2
    <3> HIDE DEF T
    <3> QED BY <3>1, <3>2, NatSetInduction DEF T
  <2>5. ASSUME NEW i \in 1..n PROVE H[i] \in Seq(C)
    <3>1. i - 1 \in Nat /\ (i - 1) + 1 = i /\ i <= n
      <4> HIDE DEF n, T
      <4> QED BY <1>1
    <3>2. i - 1 \in T
      <4> HIDE DEF T
      <4> QED BY <2>4, <3>1
    <3> QED BY <3>1, <3>2
  <2> DEFINE g == [i \in 0..n |-> IF i = 0 THEN << >> ELSE H[i]]
  <2>6. g \in [0..n -> Seq(C)] /\ g[0] = << >> /\ g[n] = H[n]
    BY <1>1, <1>3, <2>5
  <2>7. ASSUME NEW i \in 1..n PROVE g[i] = g[i - 1] \o seqs[i]
    <3>1. g[i] = H[i] /\ seqs[i] \in Seq(C)
      BY <1>1
    <3>2. CASE i = 1
      <4>1. g[i - 1] = << >> /\ H[i] = seqs[i]
        BY <1>1, <2>3, <3>2
      <4>2. << >> \o seqs[i] = seqs[i]
        BY <3>1, ConcatEmptySeq
      <4> HIDE DEF g
      <4> QED BY <3>1, <4>1, <4>2
    <3>3. CASE i # 1
      <4>1. i - 1 \in 0..n /\ g[i - 1] = H[i - 1]
        BY <1>1, <3>3
      <4> QED BY <2>3, <3>1, <3>3, <4>1
    <3> QED BY <3>2, <3>3
  <2> HIDE DEF g
  <2> QED BY <2>1, <2>6, <2>7 DEF Flattens
<1> QED BY <1>2, <1>3

\* The elements of two sequences that are joined.
LEMMA JoinPlaces ==
  ASSUME NEW C, NEW a \in Seq(C), NEW b \in Seq(C)
  PROVE  /\ a \o b \in Seq(C) /\ Len(a \o b) = Len(a) + Len(b)
         /\ \A j \in 1..Len(a) : (a \o b)[j] = a[j]
         /\ \A j \in 1..Len(b) : (a \o b)[Len(a) + j] = b[j]
OBVIOUS

\* The i-th of the sequences is where those before it end.
Placed(seqs, g, i) ==
  /\ Len(g[i]) = Len(g[i - 1]) + Len(seqs[i]) /\ Len(g[i]) <= Len(FlattenSeq(seqs))
  /\ \A j \in 1..Len(seqs[i]) : FlattenSeq(seqs)[Len(g[i - 1]) + j] = seqs[i][j]

\* Each of the sequences is where those before it end.
LEMMA FlattenPlaces ==
  ASSUME NEW C, NEW seqs, Pieces(seqs, C), NEW g, Flattens(seqs, g, C)
  PROVE  \A i \in 1..Len(seqs) : Placed(seqs, g, i)
<1> DEFINE n == Len(seqs)
           all == g[n]
           end(i) == Len(g[i])
           size(i) == Len(seqs[i])
           T == {i \in 1..n : /\ end(i) <= end(n)
                              /\ \A j \in 1..end(i) : all[j] = g[i][j]}
<1>1. n \in Nat /\ \A i \in 1..n : seqs[i] \in Seq(C)
  BY DEF Pieces
<1>2. /\ \A i \in 0..n : g[i] \in Seq(C)
      /\ \A i \in 1..n : g[i] = g[i - 1] \o seqs[i]
      /\ FlattenSeq(seqs) = all
  BY DEF Flattens
<1> HIDE DEF n
<1>3. ASSUME NEW i \in 0..n PROVE end(i) \in Nat
  BY <1>2, LenProperties
<1>4. ASSUME NEW i \in 1..n
      PROVE  /\ i - 1 \in 0..n /\ size(i) \in Nat /\ end(i) = end(i - 1) + size(i)
             /\ \A j \in 1..end(i - 1) : g[i][j] = g[i - 1][j]
             /\ \A j \in 1..size(i) : g[i][end(i - 1) + j] = seqs[i][j]
  <2>1. i - 1 \in 0..n
    BY <1>1
  <2> DEFINE a == g[i - 1]
             b == seqs[i]
  <2>2. a \in Seq(C) /\ b \in Seq(C) /\ g[i] = a \o b
    BY <1>1, <1>2, <2>1
  <2> HIDE DEF a, b
  <2>3. /\ Len(b) \in Nat /\ Len(a \o b) = Len(a) + Len(b)
        /\ \A j \in 1..Len(a) : (a \o b)[j] = a[j]
        /\ \A j \in 1..Len(b) : (a \o b)[Len(a) + j] = b[j]
    BY <2>2, JoinPlaces, LenProperties
  <2> QED BY <2>1, <2>2, <2>3 DEF a, b
<1>5. n \in 1..n => n \in T
  <2>1. n \in 1..n => end(n) \in Nat
    BY <1>1, <1>3
  <2> HIDE DEF end
  <2> QED BY <2>1
<1> HIDE DEF end, size, all
<1>6. ASSUME NEW i \in 1..n, \A k \in (i + 1)..n : k \in T PROVE i \in T
  <2>1. CASE i = n
    BY <1>5, <2>1
  <2>2. CASE i # n
    <3> DEFINE k == i + 1
    <3>1. k \in 1..n /\ k \in (i + 1)..n /\ k - 1 = i /\ i \in 0..n /\ n \in 0..n
      BY <1>1, <2>2
    <3>2. k \in T
      BY <1>6, <3>1
    <3>3. /\ size(k) \in Nat /\ end(k) = end(i) + size(k) /\ end(i) \in Nat /\ end(n) \in Nat
          /\ \A j \in 1..end(i) : g[k][j] = g[i][j]
      <4> HIDE DEF T, k
      <4> QED BY <1>3, <1>4, <3>1
    <3>4. end(k) <= end(n) /\ \A j \in 1..end(k) : all[j] = g[k][j]
      BY <3>2
    <3> HIDE DEF k
    <3>5. end(i) <= end(n) /\ \A j \in 1..end(i) : j \in 1..end(k)
      <4> HIDE DEF T
      <4> QED BY <3>3, <3>4
    <3> QED BY <3>3, <3>4, <3>5
  <2> QED BY <2>1, <2>2
<1>7. \A i \in 1..n : i \in T
  <2> HIDE DEF T
  <2> QED BY <1>1, <1>6, DownwardInduction
<1>8. ASSUME NEW i \in 1..n
      PROVE  /\ end(i) = end(i - 1) + size(i) /\ end(i) <= end(n)
             /\ \A j \in 1..size(i) : all[end(i - 1) + j] = seqs[i][j]
  <2> DEFINE h == i - 1
  <2>1. /\ h \in 0..n /\ size(i) \in Nat /\ end(i) = end(h) + size(i)
        /\ \A j \in 1..size(i) : g[i][end(h) + j] = seqs[i][j]
    BY <1>4
  <2>2. end(i) <= end(n) /\ \A j \in 1..end(i) : all[j] = g[i][j]
    BY <1>7
  <2> HIDE DEF h, T
  <2>3. end(h) \in Nat
    BY <1>3, <2>1
  <2>4. ASSUME NEW j \in 1..size(i) PROVE all[end(h) + j] = seqs[i][j]
    <3>1. end(h) + j \in 1..end(i)
      BY <2>1, <2>3
    <3> QED BY <2>1, <2>2, <3>1
  <2> QED BY <2>1, <2>2, <2>4 DEF h
<1> QED BY <1>2, <1>8 DEF n, all, end, size, Placed

\* What the bytes are printed as, one after the other.
Printed(str) == [i \in DOMAIN str |-> DebugByte(str[i])]

\* Every byte is printed as something.
LEMMA PrintedLength ==
  ASSUME NEW b \in 0..127
  PROVE  Len(DebugByte(b)) \in Nat \ {0}
BY DEF DebugByte

\* A quote after a sequence.
LEMMA JoinQuote ==
  ASSUME NEW C, NEW a \in Seq(C), NEW n \in Nat, Len(a) = n
  PROVE  /\ Len(a \o <<Quote>>) = n + 1 /\ (a \o <<Quote>>)[n + 1] = Quote
         /\ \A j \in 1..n : (a \o <<Quote>>)[j] = a[j]
<1> DEFINE q == Quote
<1> HIDE DEF q
<1>1. /\ Len(a \o <<q>>) = n + 1 /\ (a \o <<q>>)[n + 1] = q
      /\ \A j \in 1..n : (a \o <<q>>)[j] = a[j]
  OBVIOUS
<1> QED BY <1>1 DEF q

\* The rest of a sequence, from one of its elements on.
LEMMA RestOfSeq ==
  ASSUME NEW C, NEW s \in Seq(C), NEW i \in 1..Len(s)
  PROVE  <<s[i]>> \o SubSeq(s, i + 1, Len(s)) = SubSeq(s, i, Len(s))
OBVIOUS

\* The rest of a printed string is read as the rest of the string.
LEMMA RestRead ==
  ASSUME NEW str \in Seq(0..127), NEW g, NEW C, Pieces(Printed(str), C),
         Flattens(Printed(str), g, C), NEW s, Len(s) \in Nat,
         Has(s, 2, FlattenSeq(Printed(str)) \o <<Quote>>), NEW f, StringBy(s, f)
  PROVE  f[2] = Lexed([kind |-> "T_STR", str |-> str], Len(g[Len(str)]) + 2)
<1> DEFINE n == Len(str)
           d == Printed(str)
           end(i) == Len(g[i])
           size(i) == Len(d[i])
           all == FlattenSeq(d)
           R(i) == Lexed([kind |-> "T_STR", str |-> SubSeq(str, i, n)], end(n) + 2)
           T == {i \in 1..(n + 1) : f[2 + end(i - 1)] = R(i)}
<1>1. n \in Nat /\ Len(d) = n /\ \A i \in 1..n : str[i] \in 0..127 /\ d[i] = DebugByte(str[i])
  <2>1. n \in Nat /\ DOMAIN str = 1..n /\ \A i \in 1..n : str[i] \in 0..127
    BY LenProperties, ElementOfSeq
  <2>2. Len(d) \in Nat /\ DOMAIN d = 1..n
    BY <2>1 DEF Printed, Pieces
  <2>3. d = [i \in 1..n |-> DebugByte(str[i])]
    BY <2>1 DEF Printed
  <2> HIDE DEF n, d
  <2>4. Len(d) = n
    BY <2>1, <2>3
  <2> QED BY <2>1, <2>3, <2>4
<1>0. Pieces(d, C) /\ Flattens(d, g, C)
  OBVIOUS
<1> HIDE DEF n, d
<1>2. end(0) = 0 /\ \A i \in 0..n : end(i) \in Nat
  <2>1. g \in [0..n -> Seq(C)] /\ g[0] = << >>
    BY <1>1 DEF Flattens, d
  <2> QED BY <2>1, LenProperties, EmptySeq
<1>3. ASSUME NEW i \in 1..n
      PROVE  /\ end(i) = end(i - 1) + size(i) /\ end(i) <= Len(all)
             /\ \A j \in 1..size(i) : all[end(i - 1) + j] = d[i][j]
  <2>1. Placed(d, g, i)
    BY <1>0, <1>1, FlattenPlaces
  <2> QED BY <2>1 DEF Placed
<1>4. all \in Seq(C) /\ Len(all) = end(n)
  <2>1. all = g[n] /\ g \in [0..n -> Seq(C)]
    BY <1>1 DEF Flattens, d
  <2> QED BY <1>1, <2>1
<1>5. ASSUME NEW i \in 1..n PROVE size(i) \in Nat \ {0}
  BY <1>1, PrintedLength
<1> DEFINE whole == all \o <<Quote>>
<1>6. /\ Len(whole) = end(n) + 1 /\ whole[end(n) + 1] = Quote
      /\ \A j \in 1..end(n) : whole[j] = all[j]
  <2>1. end(n) \in Nat
    BY <1>1, <1>2
  <2> HIDE DEF all, end
  <2> QED BY <1>4, <2>1, JoinQuote
<1>7. /\ end(n) + 2 <= Len(s) /\ s[end(n) + 2] = Quote
      /\ \A j \in 1..end(n) : s[j + 1] = all[j]
  <2>1. 2 + Len(whole) <= Len(s) + 1 /\ \A j \in 1..Len(whole) : s[2 + j - 1] = whole[j]
    BY DEF Has, d
  <2> HIDE DEF whole, all, end
  <2>2. end(n) \in Nat
    BY <1>1, <1>2
  <2>3. end(n) + 1 \in 1..Len(whole) /\ 2 + (end(n) + 1) - 1 = end(n) + 2
    BY <1>6, <2>2
  <2>4. ASSUME NEW j \in 1..end(n) PROVE s[j + 1] = all[j]
    <3>1. j \in 1..Len(whole) /\ 2 + j - 1 = j + 1
      BY <1>6, <2>2
    <3> QED BY <1>6, <2>1, <3>1
  <2> QED BY <1>6, <2>1, <2>2, <2>3, <2>4
<1> HIDE DEF whole, all, end, size
<1>8. n + 1 \in T
  <2>1. SubSeq(str, n + 1, n) = << >>
    BY <1>1
  <2>2. f[end(n) + 2] = StringAt(s, f, end(n) + 2)
    BY <1>1, <1>2, <1>7 DEF StringBy
  <2>3. StringAt(s, f, end(n) + 2) = Lexed([kind |-> "T_STR", str |-> << >>], end(n) + 2)
    <3>1. ~(end(n) + 2 > Len(s))
      BY <1>1, <1>2, <1>7
    <3> QED BY <1>7, <3>1 DEF StringAt
  <2>4. (n + 1) - 1 = n /\ 2 + end(n) = end(n) + 2
    BY <1>1, <1>2
  <2> QED BY <1>1, <2>1, <2>2, <2>3, <2>4
<1>9. ASSUME NEW i \in 1..n, i + 1 \in T PROVE i \in T
  <2> DEFINE p == 2 + end(i - 1)
             b == str[i]
  <2>1. /\ i - 1 \in 0..n /\ i \in 0..n /\ n \in 0..n /\ (i + 1) - 1 = i
        /\ i \in 1..(n + 1) /\ b \in 0..127
    BY <1>1
  <2>2. p \in Nat \ {0} /\ end(i) = end(i - 1) + size(i) /\ end(i) <= end(n)
    <3>1. end(i - 1) \in Nat
      BY <1>2, <2>1
    <3> QED BY <1>3, <1>4, <3>1
  <2> DEFINE e == end(i - 1)
             z == size(i)
             m == end(n)
  <2>a. /\ e \in Nat /\ z \in Nat \ {0} /\ m \in Nat /\ p = 2 + e
        /\ end(i) = e + z /\ e + z <= m /\ m + 2 <= Len(s)
    BY <1>2, <1>5, <1>7, <2>1, <2>2
  <2> HIDE DEF p, b, e, z, m
  <2>3. Has(s, p, DebugByte(b))
    <3>1. DebugByte(b) = d[i] /\ Len(d[i]) = z
      BY <1>1 DEF size, b, z
    <3>2. p + z <= Len(s) + 1
      BY <2>a
    <3>3. ASSUME NEW j \in 1..z PROVE s[p + j - 1] = d[i][j]
      <4>1. e + j \in 1..m /\ p + j - 1 = (e + j) + 1
        BY <2>a
      <4>2. all[e + j] = d[i][j]
        BY <1>3 DEF e, z
      <4>3. s[(e + j) + 1] = all[e + j]
        BY <1>7, <4>1 DEF m
      <4> QED BY <4>1, <4>2, <4>3
    <3> QED BY <3>1, <3>2, <3>3 DEF Has
  <2>4. s[p] # Quote /\ StringPart(s, p) = Part(<<b>>, z)
    <3>1. z = Len(DebugByte(b))
      BY <1>1 DEF size, b, z
    <3> QED BY <2>1, <2>2, <2>3, <3>1, ByteRead
  <2>5. p \in 1..Len(s) /\ p + z = 2 + end(i)
    BY <2>a
  <2>6. f[2 + end(i)] = R(i + 1)
    BY <1>9, <2>1
  <2>7. f[p] = Before(Part(<<b>>, z), R(i + 1))
    <3>1. f[p] = StringAt(s, f, p)
      BY <2>5 DEF StringBy
    <3>2. Part(<<b>>, z).tok.kind = "bytes" /\ Part(<<b>>, z).used = z
      BY DEF Part, Lexed
    <3> HIDE DEF R
    <3>3. ~(p > Len(s))
      BY <2>5
    <3> QED BY <2>4, <2>5, <2>6, <3>1, <3>2, <3>3 DEF StringAt
  <2>8. <<b>> \o SubSeq(str, i + 1, n) = SubSeq(str, i, n)
    BY <1>1, RestOfSeq DEF n, b
  <2>9. Before(Part(<<b>>, z), R(i + 1)) = R(i)
    BY <2>8 DEF Before, Part, Lexed
  <2> HIDE DEF R
  <2> QED BY <2>1, <2>7, <2>9 DEF p
<1>10. \A i \in 1..(n + 1) : i \in T
  <2>1. ASSUME NEW i \in 1..(n + 1), \A j \in (i + 1)..(n + 1) : j \in T PROVE i \in T
    <3>1. CASE i = n + 1
      BY <1>8, <3>1
    <3>2. CASE i # n + 1
      <4>1. i \in 1..n /\ i + 1 \in (i + 1)..(n + 1)
        BY <1>1, <3>2
      <4> HIDE DEF T
      <4> QED BY <1>9, <2>1, <4>1
    <3> QED BY <3>1, <3>2
  <2>2. n + 1 \in Nat
    BY <1>1
  <2> HIDE DEF T
  <2> QED BY <2>1, <2>2, DownwardInduction
<1>11. 1 \in T
  <2> HIDE DEF T
  <2> QED BY <1>1, <1>10
<1>12. SubSeq(str, 1, n) = str
  BY DEF n
<1> QED BY <1>2, <1>11, <1>12 DEF n, end

\* The characters that strings are printed with.
Inks == {"\\", "x", Quote, "\n"} \cup {Escaped[b] : b \in DOMAIN Escaped}
          \cup DOMAIN Ascii \cup {HexDigit(k) : k \in 0..15}

\* What is printed of a byte is a sequence of them.
LEMMA ByteInks ==
  ASSUME NEW b \in 0..127
  PROVE  DebugByte(b) \in Seq(Inks)
<1>1. CASE b \in DOMAIN Escaped
  <2>1. DebugByte(b) = <<"\\", Escaped[b]>>
    BY <1>1 DEF DebugByte
  <2>2. "\\" \in Inks /\ Escaped[b] \in Inks
    BY <1>1 DEF Inks
  <2> QED BY <2>1, <2>2
<1>2. CASE b \in Printable \ DOMAIN Escaped
  <2> DEFINE c == CHOOSE c \in DOMAIN Ascii : Ascii[c] = b
  <2>1. DebugByte(b) = <<c>>
    BY <1>2 DEF DebugByte
  <2>2. c \in DOMAIN Ascii
    BY <1>2, AsciiAssumption
  <2> HIDE DEF c
  <2>3. c \in Inks
    BY <2>2 DEF Inks
  <2> QED BY <2>1, <2>3
<1>3. CASE b \notin Printable /\ b \notin DOMAIN Escaped
  <2> DEFINE h == HexDigit(b \div 16)
             l == HexDigit(b % 16)
  <2>1. DebugByte(b) = <<"\\", "x", h, l>>
    BY <1>3 DEF DebugByte
  <2>2. b \div 16 \in 0..15 /\ b % 16 \in 0..15
    OBVIOUS
  <2>3. h \in Inks /\ l \in Inks
    BY <2>2 DEF Inks
  <2>4. "\\" \in Inks /\ "x" \in Inks
    BY DEF Inks
  <2> HIDE DEF h, l
  <2> QED BY <2>1, <2>3, <2>4
<1> QED BY <1>1, <1>2, <1>3

\* A text that begins with a quote begins with a string.
LEMMA QuoteBeginsString ==
  ASSUME NEW s, Len(s) \in Nat, 1 <= Len(s), s[1] = Quote
  PROVE  Token(s) = String(s)
<1>1. s # << >>
  OBVIOUS
<1>2. /\ Quote \notin DOMAIN Single /\ Quote \notin DOMAIN Double
      /\ Quote # "/" /\ Quote \notin Digit
  BY OperatorsAre DEF Quote, Digit
<1>3. /\ ~Is(s, 1, DOMAIN Single) /\ ~Is(s, 1, DOMAIN Double) /\ ~Is(s, 1, {"/"})
      /\ Is(s, 1, {Quote}) /\ ~Is(s, 1, Digit)
  BY <1>2 DEF Is
<1> QED BY <1>1, <1>3 DEF Token

\* A quote is not what comes between tokens.
LEMMA QuoteIsNoSpace ==
  ASSUME NEW s, Len(s) \in Nat, 1 <= Len(s), s[1] = Quote
  PROVE  Start(s) = 1
<1>1. Quote \notin Space /\ Quote # "/"
  BY DEF Space, Quote
<1>2. ~Is(s, 1, Space) /\ ~IsComment(s, 1)
  BY <1>1 DEF Is, IsComment, Peek
<1> QED BY <1>2, StartUnfolds

\* A string of ASCII bytes, printed with its escapes and its quotes (fdebug_str,
\* utils.c:86), is read as the same string (lex.c:233-358).
THEOREM PrintedStringsRead ==
  ASSUME NEW str \in Seq(0..127)
  PROVE  lex(Append(fdebug_str(str), "\n")).tok = [kind |-> "T_STR", str |-> str]
<1> DEFINE d == Printed(str)
           all == FlattenSeq(d)
           nl == "\n"
           s == Append(fdebug_str(str), nl)
<1>1. Pieces(d, Inks)
  <2>1. Len(str) \in Nat /\ DOMAIN str = 1..Len(str) /\ \A i \in 1..Len(str) : str[i] \in 0..127
    BY LenProperties, ElementOfSeq
  <2>2. d = [i \in 1..Len(str) |-> DebugByte(str[i])]
    BY <2>1 DEF Printed
  <2>3. d \in Seq(Seq(Inks)) /\ Len(d) = Len(str)
    <3>1. ASSUME NEW i \in 1..Len(str) PROVE DebugByte(str[i]) \in Seq(Inks)
      BY <2>1, ByteInks
    <3> QED BY <2>1, <2>2, <3>1
  <2> HIDE DEF d
  <2>4. Len(d) = 0 => d = << >>
    BY <2>3, EmptySeq
  <2> QED BY <2>3, <2>4, LenProperties, ElementOfSeq DEF Pieces
<1>2. PICK g : Flattens(d, g, Inks)
  <2> HIDE DEF d
  <2> QED BY <1>1, FlattenIs
<1>3. all \in Seq(Inks)
  <2> HIDE DEF d
  <2> QED BY <1>1, <1>2 DEF Flattens, Pieces
<1>4. fdebug_str(str) = <<Quote>> \o all \o <<Quote>>
  BY DEF fdebug_str, Printed
<1> HIDE DEF d, all, nl
<1>5. /\ s \in Seq(Inks \cup {nl}) /\ Len(s) = Len(all) + 3 /\ s[1] = Quote
      /\ \A j \in 1..Len(all \o <<Quote>>) : s[j + 1] = (all \o <<Quote>>)[j]
      /\ Len(all \o <<Quote>>) = Len(all) + 1
  <2> DEFINE q == Quote
  <2>1. q \in Inks
    BY DEF Inks
  <2> HIDE DEF q
  <2>2. s = Append(<<q>> \o all \o <<q>>, nl)
    BY <1>4 DEF q
  <2> HIDE DEF s
  <2> QED BY <1>3, <2>1, <2>2 DEF q
<1> HIDE DEF s
<1>6. Len(all) \in Nat /\ Len(s) \in Nat /\ 1 <= Len(s)
  BY <1>3, <1>5, LenProperties
<1>7. Has(s, 2, all \o <<Quote>>)
  <2> DEFINE w == all \o <<Quote>>
  <2>1. 2 + Len(w) <= Len(s) + 1
    BY <1>5, <1>6
  <2>2. ASSUME NEW j \in 1..Len(w) PROVE s[2 + j - 1] = w[j]
    <3>1. 2 + j - 1 = j + 1
      BY <1>5, <1>6
    <3> QED BY <1>5, <3>1
  <2> QED BY <2>1, <2>2 DEF Has
<1>8. String(s).tok = [kind |-> "T_STR", str |-> str]
  <2>1. PICK f : StringBy(s, f)
    BY <1>6, StringFunction
  <2>2. f[2] = Lexed([kind |-> "T_STR", str |-> str], Len(g[Len(str)]) + 2)
    BY <1>1, <1>2, <1>6, <1>7, <2>1, RestRead DEF d, all
  <2> QED BY <2>1, <2>2 DEF StringBy, Lexed
<1>9. Token(s) = String(s)
  BY <1>5, <1>6, QuoteBeginsString
<1>10. Start(s) = 1
  BY <1>5, <1>6, QuoteIsNoSpace
<1>11. SubSeq(s, 1, Len(s)) = s
  BY <1>5, SubSeqFull
<1> QED BY <1>8, <1>9, <1>10, <1>11 DEF lex, Lexed, s, nl
=============================================================================
