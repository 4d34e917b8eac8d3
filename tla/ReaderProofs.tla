---------------------------- MODULE ReaderProofs ----------------------------
(***************************************************************************)
(* The reading loop, for any files and any size of the window: the buffer  *)
(* is never overrun, a read of nothing means the end of the file, the      *)
(* bytes are lexed in order and once, and the tokens are those of the      *)
(* whole text.  Loop invariants: ReaderInv, and Known for the last.        *)
(***************************************************************************)
EXTENDS MeaningProofs, Reader

\* Something can be read.
RoomForMore == pc = "read" => Len(bytes) < cap
\* cap is a number, and the tokens are a sequence.
BufferInv == cap \in Nat /\ \E S : tokens \in Seq(S)

\* Without RoomForMore, a read of nothing need not mean the end of the file.
ReaderInv == TypeOK /\ NothingLeftUnread /\ RoomForMore /\ BufferInv

\* The kinds of tokens that TypeOK names are those the lexer has.
LEMMA KindsAre == TokenKind = Kinds
BY DEF TokenKind, Kinds, Range

\* What Max of two natural numbers is.
LEMMA MaxIs ==
  ASSUME NEW a \in Nat, NEW b \in Nat
  PROVE  Max({a, b}) \in Nat /\ Max({a, b}) >= a /\ Max({a, b}) >= b
<1> DEFINE S == {a, b}
<1>1. \E x \in S : \A y \in S : x >= y
  <2>1. CASE a <= b
    BY <2>1
  <2>2. CASE b <= a
    BY <2>2
  <2> QED BY <2>1, <2>2
<1>2. Max(S) \in S /\ \A y \in S : Max(S) >= y
  <2> HIDE DEF S
  <2> QED BY <1>1 DEF Max
<1> QED BY <1>2

\* The invariant holds at first.
LEMMA InitHolds == Init => ReaderInv
<1> SUFFICES ASSUME Init PROVE ReaderInv
  OBVIOUS
<1>1. text \in Seq(STRING) /\ text \in Seq(Range(text))
  BY TextsAssumption DEF Init, Range
<1>2. /\ bytes = << >> /\ cap = BUFFER_WINDOW /\ read = 0 /\ stream = 0 /\ tokens = << >>
      /\ pc = "read" /\ cut = FALSE /\ text \in Texts /\ file = text
  BY DEF Init
<1> DEFINE R == Range(text) \cup {"\n"}
<1>3. bytes \in Seq(R) /\ Len(bytes) = 0
      /\ \A i \in DOMAIN tokens : tokens[i].kind \in TokenKind
  <2> HIDE DEF R
  <2> QED BY <1>2
<1>4. TypeOK
  <2> HIDE DEF R
  <2>1. file \in Seq(Range(text)) /\ Len(bytes) <= cap /\ read \in 0..cap
    BY <1>1, <1>2, <1>3, WindowAssumption
  <2> QED BY <1>2, <1>3, <2>1 DEF TypeOK, R
<1>5. RoomForMore /\ BufferInv
  <2>1. tokens \in Seq({})
    BY <1>2
  <2> QED BY <1>2, <1>3, <2>1, WindowAssumption DEF RoomForMore, BufferInv
<1> QED BY <1>2, <1>4, <1>5 DEF ReaderInv, NothingLeftUnread

\* bytes_fread: there was room for something, so that nothing read means the
\* end of the file, and the newline fits.
LEMMA ReadKeeps == ReaderInv /\ Read => ReaderInv'
<1> SUFFICES ASSUME ReaderInv, Read PROVE ReaderInv'
  OBVIOUS
<1> DEFINE n == Min({cap - Len(bytes), Len(file)})
           R == Range(text)
           nl == "\n"
           filled == bytes \o SubSeq(file, 1, n)
<1>1. /\ cap \in Nat /\ file \in Seq(R) /\ bytes \in Seq(R \cup {nl})
      /\ Len(bytes) \in Nat /\ Len(file) \in Nat /\ Len(bytes) < cap
  BY DEF ReaderInv, TypeOK, BufferInv, RoomForMore, Read
<1>2. n \in 0..Len(file) /\ n \in 0..(cap - Len(bytes)) /\ (n = 0 => Len(file) = 0)
  <2>1. {cap - Len(bytes), Len(file)} \in SUBSET Nat
    BY <1>1
  <2>2. n \in {cap - Len(bytes), Len(file)} /\ n <= cap - Len(bytes) /\ n <= Len(file)
    BY <2>1, MinIs
  <2> HIDE DEF n
  <2> QED BY <1>1, <2>1, <2>2
<1>3. /\ read' = n
      /\ file' = SubSeq(file, n + 1, Len(file))
      /\ bytes' = IF n = 0 THEN Append(filled, nl) ELSE filled
      /\ cap' = IF n = 0 THEN bytes_push_cap(Len(filled), cap) ELSE cap
      /\ stream' = 0
      /\ pc' = "lex"
      /\ UNCHANGED <<text, tokens, cut>>
  BY DEF Read
<1> HIDE DEF n, R, nl
<1>4. SubSeq(file, 1, n) \in Seq(R) /\ Len(SubSeq(file, 1, n)) = n
  BY <1>1, <1>2
<1>5. filled \in Seq(R \cup {nl}) /\ Len(filled) = Len(bytes) + n
  BY <1>1, <1>2, <1>4
<1> HIDE DEF filled
<1>6. file' \in Seq(R) /\ (n = 0 => file' = << >>)
  BY <1>1, <1>2, <1>3
<1>7. bytes' \in Seq(R \cup {nl})
      /\ Len(bytes') = IF n = 0 THEN Len(bytes) + 1 ELSE Len(bytes) + n
  <2>1. CASE n = 0
    <3>1. bytes' = Append(filled, nl)
      BY <1>3, <2>1
    <3> QED BY <1>1, <1>5, <2>1, <3>1
  <2>2. CASE n # 0
    <3>1. bytes' = filled
      BY <1>3, <2>2
    <3> QED BY <1>5, <2>2, <3>1
  <2> QED BY <2>1, <2>2
<1>8. cap' = cap
  BY <1>1, <1>2, <1>3, <1>5 DEF bytes_push_cap
<1>9. Len(bytes') \in Nat /\ Len(bytes') <= cap' /\ read' \in 0..cap'
  BY <1>1, <1>2, <1>3, <1>7, <1>8
<1>10. TypeOK'
  <2>1. R = Range(text')
    BY <1>3 DEF R
  <2> QED BY <1>3, <1>6, <1>7, <1>9, <2>1 DEF TypeOK, ReaderInv, nl
<1>11. NothingLeftUnread' /\ RoomForMore'
  BY <1>3, <1>6 DEF NothingLeftUnread, RoomForMore
<1>12. BufferInv'
  BY <1>3, <1>8 DEF ReaderInv, BufferInv
<1> QED BY <1>10, <1>11, <1>12 DEF ReaderInv

\* What lex is called with, and what it answers.
LEMMA RestIs ==
  ASSUME ReaderInv, pc = "lex"
  PROVE  /\ Rest \in Seq(Range(text) \cup {"\n"}) /\ Len(Rest) = Len(bytes) - stream
         /\ IsLexed(lex(Rest), Len(Rest), Answers)
<1>1. bytes \in Seq(Range(text) \cup {"\n"}) /\ stream \in 0..Len(bytes)
  BY DEF ReaderInv, TypeOK
<1>2. Rest \in Seq(Range(text) \cup {"\n"}) /\ Len(Rest) = Len(bytes) - stream
  BY <1>1 DEF Rest
<1>3. IsLexed(lex(Rest), Len(Rest), Answers)
  BY <1>2, LexStaysInside DEF IsText
<1> QED BY <1>2, <1>3

\* A token, an end of the loop, or room for the next piece.
LEMMA LexKeeps == ReaderInv /\ Lex => ReaderInv'
<1> SUFFICES ASSUME ReaderInv, Lex PROVE ReaderInv'
  OBVIOUS
<1> DEFINE r == lex(Rest)
           R == Range(text) \cup {"\n"}
<1>1. /\ pc = "lex" /\ stream' = stream + r.used
      /\ \/ Push(r) \/ Malformed(r) \/ BlockComment(r)
         \/ Unfinished(r) \/ EndOfInput(r) \/ Refill(r)
  BY DEF Lex
<1>2. IsLexed(r, Len(bytes) - stream, Answers)
  BY <1>1, RestIs
<1> HIDE DEF r, R
<1>3. /\ cap \in Nat /\ bytes \in Seq(R) /\ Len(bytes) \in Nat /\ stream \in 0..Len(bytes)
      /\ Len(bytes) <= cap /\ read \in 0..cap
  BY <1>1 DEF ReaderInv, TypeOK, BufferInv, R
<1>4. stream + r.used \in 0..Len(bytes)
  BY <1>2, <1>3 DEF IsLexed
<1>5. CASE Push(r)
  <2>1. /\ tokens' = Append(tokens, r.tok) /\ r.tok.kind \in TokenKind
        /\ UNCHANGED <<text, file, bytes, cap, read, pc, cut>>
    BY <1>2, <1>5, KindsAre DEF Push, IsLexed, Answers, Others
  <2>2. \A i \in DOMAIN tokens' : tokens'[i].kind \in TokenKind
    <3>1. PICK S : tokens \in Seq(S)
      BY DEF ReaderInv, BufferInv
    <3>2. \A i \in DOMAIN tokens : tokens[i].kind \in TokenKind
      BY DEF ReaderInv, TypeOK
    <3> HIDE DEF TokenKind
    <3> QED BY <2>1, <3>1, <3>2
  <2>3. \E S : tokens' \in Seq(S)
    <3>1. PICK S : tokens \in Seq(S)
      BY DEF ReaderInv, BufferInv
    <3>2. tokens' \in Seq(S \cup {r.tok})
      BY <2>1, <3>1
    <3> QED BY <3>2
  <2>4. stream' \in 0..Len(bytes')
    BY <1>1, <1>4, <2>1
  <2>5. TypeOK'
    BY <2>1, <2>2, <2>4 DEF ReaderInv, TypeOK, TokenKind
  <2>6. NothingLeftUnread' /\ RoomForMore' /\ BufferInv'
    BY <2>1, <2>3 DEF ReaderInv, NothingLeftUnread, RoomForMore, BufferInv
  <2> QED BY <2>5, <2>6 DEF ReaderInv
<1>6. ASSUME NEW how \in Endings, End(how) PROVE ReaderInv'
  <2>1. pc' = how /\ UNCHANGED <<text, file, bytes, cap, read, tokens, cut>>
    BY <1>6 DEF End
  <2>2. stream' \in 0..Len(bytes')
    BY <1>1, <1>4, <2>1
  <2>3. TypeOK'
    BY <2>1, <2>2 DEF ReaderInv, TypeOK, TokenKind
  <2>4. NothingLeftUnread' /\ RoomForMore' /\ BufferInv'
    BY <1>1, <1>6, <2>1 DEF ReaderInv, NothingLeftUnread, RoomForMore, BufferInv, Endings
  <2> QED BY <2>3, <2>4 DEF ReaderInv
<1>7. CASE Refill(r)
  <2>1. /\ bytes' = SubSeq(bytes, stream + r.used + 1, Len(bytes))
        /\ cap' = Max({cap, Len(bytes') + BUFFER_WINDOW})
        /\ pc' = "read" /\ cut' = (cut \/ InComment)
        /\ UNCHANGED <<text, file, read, tokens>>
    BY <1>7 DEF Refill, bytes_clear_start, bytes_reserve_cap
  <2>2. bytes' \in Seq(R) /\ Len(bytes') \in Nat
    BY <1>3, <1>4, <2>1
  <2>3. cap' \in Nat /\ cap' >= cap /\ cap' >= Len(bytes') + BUFFER_WINDOW
    <3>1. Len(bytes') + BUFFER_WINDOW \in Nat
      BY <2>2, WindowAssumption
    <3> QED BY <1>3, <2>1, <3>1, MaxIs
  <2>4. Len(bytes') < cap' /\ Len(bytes') <= cap' /\ read' \in 0..cap'
    <3>1. read' = read
      BY <2>1
    <3>2. read' \in 0..cap'
      BY <1>3, <2>3, <3>1
    <3>3. Len(bytes') < cap' /\ Len(bytes') <= cap'
      BY <2>2, <2>3, WindowAssumption
    <3> QED BY <3>2, <3>3
  <2>5. cut' \in BOOLEAN
    BY <2>1 DEF ReaderInv, TypeOK, InComment
  <2>6. TypeOK'
    BY <2>1, <2>2, <2>4, <2>5 DEF ReaderInv, TypeOK, TokenKind, R
  <2>7. NothingLeftUnread' /\ RoomForMore' /\ BufferInv'
    BY <2>1, <2>3, <2>4 DEF ReaderInv, NothingLeftUnread, RoomForMore, BufferInv
  <2> QED BY <2>6, <2>7 DEF ReaderInv
<1> QED BY <1>1, <1>5, <1>6, <1>7 DEF Malformed, BlockComment, Unfinished, EndOfInput,
  Endings

\* Every step keeps the invariant.
LEMMA StepKeeps == ReaderInv /\ [Next]_vars => ReaderInv'
<1> SUFFICES ASSUME ReaderInv, [Next]_vars PROVE ReaderInv'
  OBVIOUS
<1>1. CASE UNCHANGED vars
  BY <1>1 DEF vars, ReaderInv, TypeOK, NothingLeftUnread, RoomForMore, BufferInv, TokenKind
<1> QED BY <1>1, ReadKeeps, LexKeeps DEF Next, Ended

\* A piece that is read moves from the file to the buffer.
LEMMA ReadTakesNothing ==
  ASSUME ReaderInv, Read
  PROVE  /\ Ahead' = Ahead \o (IF read' = 0 THEN <<"\n">> ELSE << >>)
         /\ \E C : Ahead \in Seq(C)
<1> DEFINE n == Min({cap - Len(bytes), Len(file)})
           nl == "\n"
           C == Range(text) \cup {nl}
           h == SubSeq(file, 1, n)
           t == SubSeq(file, n + 1, Len(file))
           filled == bytes \o h
<1>1. /\ read' = n /\ file' = t /\ stream' = 0 /\ pc' = "lex" /\ pc = "read"
      /\ bytes' = IF n = 0 THEN Append(filled, nl) ELSE filled
  BY DEF Read
<1>2. file \in Seq(C) /\ bytes \in Seq(C) /\ nl \in C
  BY DEF ReaderInv, TypeOK
<1>3. n \in 0..Len(file)
  <2>1. cap - Len(bytes) \in Nat /\ Len(file) \in Nat
    BY <1>1, <1>2 DEF ReaderInv, RoomForMore, BufferInv
  <2>2. {cap - Len(bytes), Len(file)} \in SUBSET Nat
    BY <2>1
  <2>3. n \in Nat /\ n <= Len(file)
    BY <2>2, MinIs
  <2> HIDE DEF n
  <2> QED BY <2>1, <2>3
<1> HIDE DEF n, nl, C
<1>4. h \o t = file /\ h \in Seq(C) /\ t \in Seq(C) /\ Len(h) = n
  BY <1>2, <1>3, SplitAgain
<1>5. (n = 0 => t = << >>) /\ Ahead = bytes \o file
  <2>1. ReaderInv' BY ReadKeeps
  <2>2. n = 0 => file' = << >>
    BY <1>1, <2>1 DEF ReaderInv, NothingLeftUnread
  <2> QED BY <1>1, <2>2 DEF Ahead
<1> HIDE DEF h, t
<1>6. filled \in Seq(C) /\ filled \o t = bytes \o file
  <2>1. filled \in Seq(C)
    BY <1>2, <1>4, ConcatProperties
  <2>2. (bytes \o h) \o t = bytes \o (h \o t)
    <3>1. bytes \in Seq(C) /\ h \in Seq(C) /\ t \in Seq(C)
      BY <1>2, <1>4
    <3> QED BY <3>1, Rejoin
  <2> QED BY <1>4, <2>1, <2>2
<1> HIDE DEF filled
<1>7. bytes' \in Seq(C)
      /\ bytes' \o t = (bytes \o file) \o (IF n = 0 THEN <<nl>> ELSE << >>)
  <2>1. CASE n = 0
    <3>1. bytes' = Append(filled, nl) /\ t = << >>
      BY <1>1, <1>5, <2>1
    <3>2. bytes' \in Seq(C) /\ bytes' = filled \o <<nl>>
      BY <1>2, <1>6, <3>1, AppendIsConcat, AppendProperties
    <3>3. bytes' \o t = bytes' /\ filled \o t = filled
      BY <1>6, <3>1, <3>2, ConcatEmptySeq
    <3> QED BY <1>6, <2>1, <3>2, <3>3
  <2>2. CASE n # 0
    <3>1. bytes' = filled /\ bytes \o file \in Seq(C)
      BY <1>1, <1>2, <2>2, ConcatProperties
    <3> QED BY <1>6, <2>2, <3>1, ConcatEmptySeq
  <2> QED BY <2>1, <2>2
<1>8. Ahead' = bytes' \o t
  <2>1. Rest' = SubSeq(bytes', 1, Len(bytes'))
    BY <1>1 DEF Rest
  <2>2. Rest' = bytes'
    BY <1>7, <2>1, SubSeqFull
  <2> QED BY <1>1, <2>2 DEF Ahead
<1>9. Ahead \in Seq(C)
  BY <1>2, <1>5, ConcatProperties
<1> QED BY <1>1, <1>5, <1>7, <1>8, <1>9 DEF nl

\* A call of lex takes what it used, whatever the loop does with its answer.
LEMMA LexTakesWhatItUses ==
  ASSUME ReaderInv, Lex
  PROVE  /\ Ahead' = SubSeq(Ahead, lex(Rest).used + 1, Len(Ahead))
         /\ \E C : Ahead' \in Seq(C)
         /\ tokens' # tokens => lex(Rest).used > 0
         /\ Ahead' = SubSeq(Rest, lex(Rest).used + 1, Len(Rest)) \o file
<1> DEFINE r == lex(Rest)
           C == Range(text) \cup {"\n"}
           used == r.used
<1>1. /\ pc = "lex" /\ stream' = stream + r.used
      /\ \/ Push(r) \/ Malformed(r) \/ BlockComment(r)
         \/ Unfinished(r) \/ EndOfInput(r) \/ Refill(r)
  BY DEF Lex
<1>2. Rest \in Seq(C) /\ Len(Rest) = Len(bytes) - stream /\ IsLexed(r, Len(Rest), Answers)
  BY <1>1, RestIs
<1>3. file \in Seq(C) /\ bytes \in Seq(C) /\ stream \in 0..Len(bytes)
  BY <1>1 DEF ReaderInv, TypeOK
<1> HIDE DEF r, C
<1>4. used \in 0..Len(Rest) /\ Len(Rest) \in Nat /\ Len(bytes) \in Nat
  BY <1>2, <1>3 DEF IsLexed
<1>5. tokens' # tokens => used > 0
  <2> SUFFICES ASSUME tokens' # tokens, used = 0 PROVE FALSE
    BY <1>4
  <2>1. Push(r)
    BY <1>1 DEF Malformed, BlockComment, Unfinished, EndOfInput, Refill, End
  <2> QED BY <1>2, <2>1 DEF Push, IsLexed, Others
<1>6. file' = file
  BY <1>1 DEF Push, Malformed, BlockComment, Unfinished, EndOfInput, Refill, End
<1>7. SubSeq(Rest, used + 1, Len(Rest)) = SubSeq(bytes, stream + used + 1, Len(bytes))
  <2> DEFINE x == SubSeq(Rest, used + 1, Len(Rest))
             y == SubSeq(bytes, stream + used + 1, Len(bytes))
  <2>1. x \in Seq(C) /\ Len(x) = Len(Rest) - used
        /\ \A i \in 1..(Len(Rest) - used) : x[i] = Rest[used + i]
    BY <1>2, <1>4, SuffixIs
  <2>2. stream + used \in 0..Len(bytes) /\ Len(bytes) - (stream + used) = Len(Rest) - used
    BY <1>2, <1>3, <1>4
  <2>3. /\ y \in Seq(C) /\ Len(y) = Len(Rest) - used
        /\ \A i \in 1..(Len(Rest) - used) : y[i] = bytes[stream + used + i]
    <3> DEFINE m == stream + used
    <3>1. m \in 0..Len(bytes) /\ Len(bytes) - m = Len(Rest) - used
          /\ y = SubSeq(bytes, m + 1, Len(bytes))
      BY <2>2
    <3> HIDE DEF m, y
    <3>2. y \in Seq(C) /\ Len(y) = Len(bytes) - m
          /\ \A i \in 1..(Len(bytes) - m) : y[i] = bytes[m + i]
      BY <1>3, <3>1, SuffixIs
    <3> QED BY <3>1, <3>2 DEF m
  <2>4. \A i \in 1..Len(Rest) : Rest[i] = bytes[stream + i]
    BY <1>2, <1>3, <1>4 DEF Rest
  <2> HIDE DEF x, y
  <2>5. ASSUME NEW i \in 1..(Len(Rest) - used) PROVE x[i] = y[i]
    <3>1. used + i \in 1..Len(Rest) /\ stream + (used + i) = stream + used + i
      BY <1>3, <1>4
    <3> QED BY <2>1, <2>3, <2>4, <3>1
  <2>6. x = y
    BY <2>1, <2>3, <2>5, SeqEqual
  <2> QED BY <2>6 DEF x, y
<1>8. Ahead' = SubSeq(Rest, used + 1, Len(Rest)) \o file
  <2>1. CASE Refill(r)
    <3>1. pc' = "read" /\ bytes' = SubSeq(bytes, stream + used + 1, Len(bytes))
      BY <2>1 DEF Refill, bytes_clear_start
    <3> QED BY <1>6, <1>7, <3>1 DEF Ahead
  <2>2. CASE ~Refill(r)
    <3>1. bytes' = bytes /\ pc' # "read"
      BY <1>1, <2>2 DEF Push, Malformed, BlockComment, Unfinished, EndOfInput, End
    <3>2. Rest' = SubSeq(bytes, stream + used + 1, Len(bytes))
      BY <1>1, <3>1 DEF Rest
    <3> QED BY <1>6, <1>7, <3>1, <3>2 DEF Ahead
  <2> QED BY <2>1, <2>2
<1>9. Ahead = Rest \o file
  BY <1>1 DEF Ahead
<1>10. Ahead' = SubSeq(Ahead, used + 1, Len(Ahead))
  BY <1>2, <1>3, <1>4, <1>8, <1>9, DropFront
<1>11. Ahead' \in Seq(C)
  <2>1. SubSeq(Rest, used + 1, Len(Rest)) \in Seq(C)
    BY <1>2, <1>4
  <2> QED BY <1>3, <1>8, <2>1, ConcatProperties
<1> QED BY <1>5, <1>8, <1>10, <1>11 DEF r

\* What reading adds to the end of the file.
LastLine == IF pc # "read" /\ read = 0 THEN << >> ELSE <<"\n">>

\* What is still to come of the text that the file is lexed as.
Remainder == Ahead \o LastLine

\* What the file means, by what is known of it: the tokens found so far, and those
\* of what is still to come.
Known ==
  pc \in {"read", "lex"} =>
    /\ Source(Remainder)
    /\ ~cut => /\ Meaning(text).tokens = tokens \o TokensOf(Remainder).tokens
               /\ Meaning(text).end = TokensOf(Remainder).end

\* A file is a text when it ends with a newline.
LEMMA FileIsSource ==
  ASSUME NEW t \in Texts
  PROVE  Source(t \o <<"\n">>)
<1> DEFINE nl == "\n"
           s == t \o <<nl>>
           R == STRING \ {EOF}
           S == R \cup {nl}
<1>1. t \in Seq(S) /\ nl \in S /\ \A c \in S : c # EOF
  <2>1. t \in Seq(R) /\ \A c \in R : c # EOF
    BY TextsAssumption
  <2>2. nl # EOF
    BY DEF EOF
  <2> HIDE DEF R, nl
  <2> QED BY <2>1, <2>2
<1> HIDE DEF S, nl
<1>2. s \in Seq(S) /\ Len(s) = Len(t) + 1 /\ s[Len(t) + 1] = nl /\ Len(t) \in Nat
  BY <1>1
<1>3. \A i \in 1..Len(s) : s[i] \in S
  BY <1>2
<1> HIDE DEF s
<1>4. NoEOF(s)
  BY <1>1, <1>3 DEF NoEOF
<1>5. Proper(s)
  BY <1>2 DEF Proper, nl
<1> QED BY <1>2, <1>4, <1>5 DEF Source, IsText, s, nl

\* Nothing is known at first.
LEMMA InitKnown == Init => Known /\ ChunkingInvisibleButInComments
<1> SUFFICES ASSUME Init PROVE Known /\ ChunkingInvisibleButInComments
  OBVIOUS
<1> DEFINE m == TokensOf(Remainder)
<1>1. /\ text \in Texts /\ file = text /\ bytes = << >> /\ pc = "read" /\ tokens = << >>
  BY DEF Init
<1>2. PICK S : text \in Seq(S)
  BY <1>1, TextsAssumption
<1>3. Remainder = text \o <<"\n">>
  <2>1. Ahead = text
    BY <1>1, <1>2, ConcatEmptySeq DEF Ahead
  <2> QED BY <1>1, <2>1 DEF Remainder, LastLine
<1>4. Source(Remainder) /\ Meaning(text) = m
  BY <1>1, <1>3, FileIsSource DEF Meaning
<1> HIDE DEF m
<1>5. IsMeaning(m)
  BY <1>4, TokensAreMeaning DEF m
<1>6. m.tokens = tokens \o m.tokens
  <2>1. PICK T : m.tokens \in Seq(T)
    BY <1>5 DEF IsMeaning, IsText
  <2> QED BY <1>1, <2>1, ConcatEmptySeq
<1>7. Known
  BY <1>4, <1>6 DEF Known, m
<1>8. ChunkingInvisibleButInComments
  BY <1>1 DEF ChunkingInvisibleButInComments, ChunkingInvisible, Endings
<1> QED BY <1>7, <1>8

\* Reading a piece changes nothing of what is known.
LEMMA ReadKnows ==
  ASSUME ReaderInv, Known, Read
  PROVE  Known' /\ ChunkingInvisibleButInComments'
<1> DEFINE nl == "\n"
<1>1. pc = "read" /\ pc' = "lex" /\ UNCHANGED <<text, tokens, cut>>
  BY DEF Read
<1>2. Ahead' = Ahead \o (IF read' = 0 THEN <<nl>> ELSE << >>)
  BY ReadTakesNothing
<1>3. PICK C : Ahead \in Seq(C)
  BY ReadTakesNothing
<1>4. Remainder = Ahead \o <<nl>>
  BY <1>1 DEF Remainder, LastLine
<1>5. Remainder' = Ahead' \o (IF read' = 0 THEN << >> ELSE <<nl>>)
  BY <1>1 DEF Remainder, LastLine
<1> HIDE DEF nl
<1>6. Remainder' = Remainder
  <2>1. CASE read' = 0
    <3>1. Ahead \o <<nl>> \in Seq(C \cup {nl})
      BY <1>3
    <3>2. (Ahead \o <<nl>>) \o << >> = Ahead \o <<nl>>
      BY <3>1, ConcatEmptySeq
    <3> QED BY <1>2, <1>4, <1>5, <2>1, <3>2
  <2>2. CASE read' # 0
    <3>1. Ahead \o << >> = Ahead
      BY <1>3, ConcatEmptySeq
    <3> QED BY <1>2, <1>4, <1>5, <2>2, <3>1
  <2> QED BY <2>1, <2>2
<1>7. Known'
  BY <1>1, <1>6 DEF Known
<1>8. ChunkingInvisibleButInComments'
  BY <1>1 DEF ChunkingInvisibleButInComments, ChunkingInvisible, Endings
<1> QED BY <1>7, <1>8

\* Nor does a call of lex, and when the loop ends, all is known.
LEMMA LexKnows ==
  ASSUME ReaderInv, Known, Lex
  PROVE  Known' /\ (ChunkingInvisibleButInComments)'
<1> DEFINE r == lex(Rest)
           g == file \o LastLine
           rest == SubSeq(Rest, r.used + 1, Len(Rest))
           C == Range(text) \cup {"\n"}
           m == TokensOf(Remainder)
           next == TokensOf(rest \o g)
<1>1. /\ pc = "lex"
      /\ \/ Push(r) \/ Malformed(r) \/ BlockComment(r)
         \/ Unfinished(r) \/ EndOfInput(r) \/ Refill(r)
  BY DEF Lex
<1>2. Rest \in Seq(C) /\ r.used \in 0..Len(Rest) /\ r.tok.kind \in Answers
  BY <1>1, RestIs DEF IsLexed
<1>3. file \in Seq(C) /\ LastLine \in Seq(C) /\ g \in Seq(C)
  <2>1. file \in Seq(C)
    BY DEF ReaderInv, TypeOK
  <2>2. LastLine \in Seq(C)
    <3> DEFINE nl == "\n"
    <3>1. nl \in C /\ (LastLine = << >> \/ LastLine = <<nl>>)
      BY DEF LastLine
    <3> HIDE DEF nl, C
    <3>2. <<nl>> \in Seq(C) /\ << >> \in Seq(C)
      BY <3>1
    <3> QED BY <3>1, <3>2
  <2> HIDE DEF C
  <2> QED BY <2>1, <2>2, ConcatProperties
<1> HIDE DEF C, r
<1>4. rest \in Seq(C) /\ SubSeq(Rest \o g, r.used + 1, Len(Rest \o g)) = rest \o g
  BY <1>2, <1>3, DropFront, SuffixIs
<1> HIDE DEF g
<1>5. Remainder = Rest \o g
  <2>1. Ahead = Rest \o file
    BY <1>1 DEF Ahead
  <2> QED BY <1>2, <1>3, <2>1, Rejoin DEF Remainder, g
<1>6. Source(Remainder) /\ IsMeaning(m) /\ Source(rest \o g) /\ IsMeaning(next)
  <2>1. Source(Remainder)
    BY <1>1 DEF Known
  <2>2. r.used \in 0..Len(Rest \o g)
    BY <1>2, <1>3
  <2>3. Source(rest \o g)
    BY <1>4, <1>5, <2>1, <2>2, SourceRest
  <2> QED BY <2>1, <2>3, TokensAreMeaning
<1>7. Ahead' = rest \o file
  BY LexTakesWhatItUses DEF r
<1>8. PICK T : tokens \in Seq(T)
  BY DEF ReaderInv, BufferInv
<1>9. ~cut => Meaning(text).tokens = tokens \o m.tokens /\ Meaning(text).end = m.end
  BY <1>1 DEF Known
<1>10. ~cut => IsMeaning(Meaning(text))
  <2>1. PICK t \in Texts : t = text
    BY DEF ReaderInv, TypeOK
  <2> QED BY <2>1, FileIsSource, TokensAreMeaning DEF Meaning
<1>11. Final(r) => m = IF r.tok.kind \in Others THEN Failed(r.tok.kind)
                       ELSE FollowedBy(r.tok, next)
  BY <1>2, <1>3, <1>5, <1>6, LexMeans DEF r
<1>12. ~Final(r) => /\ ~OpenIn(Rest, g) => m = next
                    /\ g = << >> => m = IF r.used < Len(Rest) THEN Failed("T_INCOMPLETE") ELSE Done
  <2>1. g = << >> => Rest \o g = Rest
    BY <1>2, ConcatEmptySeq
  <2> QED BY <1>2, <1>3, <1>5, <1>6, <2>1, LexWaits DEF r
<1> HIDE DEF m, next, rest
<1>13. ASSUME NEW how \in Endings, End(how), ~cut => m.tokens = << >> /\ m.end = how
       PROVE  Known' /\ (ChunkingInvisibleButInComments)'
  <2>1. pc' = how /\ UNCHANGED <<text, cut, tokens>>
    BY <1>13 DEF End
  <2>2. tokens \o << >> = tokens
    BY <1>8, ConcatEmptySeq
  <2>3. ~cut => Meaning(text) = [tokens |-> tokens, end |-> how]
    BY <1>9, <1>10, <1>13, <2>2 DEF IsMeaning
  <2>4. Known'
    BY <1>13, <2>1 DEF Known, Endings
  <2>5. (ChunkingInvisibleButInComments)'
    <3>1. ~cut' => [tokens |-> tokens', end |-> pc'] = Meaning(text')
      BY <2>1, <2>3
    <3>2. Meaning(text)' = Meaning(text')
      BY <2>1 DEF Meaning
    <3> QED BY <3>1, <3>2 DEF ChunkingInvisibleButInComments, ChunkingInvisible
  <2> QED BY <2>4, <2>5
<1>14. CASE Push(r)
  <2>1. /\ tokens' = Append(tokens, r.tok) /\ r.tok.kind \notin Others
        /\ UNCHANGED <<text, file, read, pc, cut>>
    BY <1>14 DEF Push, Others
  <2>2. LastLine' = LastLine
    BY <2>1 DEF LastLine
  <2>3. Remainder' = rest \o g
    <3>1. Remainder' = (rest \o file) \o LastLine
      BY <1>7, <2>2 DEF Remainder
    <3> QED BY <1>3, <1>4, <3>1, Rejoin DEF g
  <2>4. TokensOf(Remainder)' = next
    BY <2>3 DEF next
  <2>5. m = FollowedBy(r.tok, next)
    BY <1>11, <2>1 DEF Final, Others
  <2>6. m.tokens = <<r.tok>> \o next.tokens /\ m.end = next.end
    BY <2>5 DEF FollowedBy
  <2>7. tokens \o m.tokens = tokens' \o next.tokens
    <3>1. PICK U : next.tokens \in Seq(U)
      BY <1>6 DEF IsMeaning, IsText
    <3> DEFINE V == T \cup U \cup {r.tok}
               one == <<r.tok>>
               more == next.tokens
    <3>2. tokens \in Seq(V) /\ more \in Seq(V) /\ one \in Seq(V)
      BY <1>8, <3>1
    <3>3. tokens' = tokens \o one /\ m.tokens = one \o more
      <4> DEFINE t == r.tok
      <4>1. tokens \in Seq(V) /\ t \in V /\ tokens' = Append(tokens, t)
        BY <2>1, <3>2
      <4> HIDE DEF V, t
      <4>2. tokens' = tokens \o <<t>>
        BY <4>1, AppendIsConcat
      <4> QED BY <2>6, <4>2 DEF t
    <3> HIDE DEF V, one, more
    <3>4. (tokens \o one) \o more = tokens \o (one \o more)
      BY <3>2, Rejoin
    <3> QED BY <3>3, <3>4 DEF more
  <2>8. Meaning(text)' = Meaning(text)
    BY <2>1 DEF Meaning
  <2>9. Known'
    <3>1. Source(Remainder')
      BY <1>6, <2>3
    <3> QED BY <1>9, <2>1, <2>4, <2>6, <2>7, <2>8, <3>1 DEF Known
  <2>10. (ChunkingInvisibleButInComments)'
    BY <1>1, <2>1 DEF ChunkingInvisibleButInComments, ChunkingInvisible, Endings
  <2> QED BY <2>9, <2>10
<1>15. CASE Malformed(r)
  <2>1. r.tok.kind = "T_ERROR" /\ End("malformed")
    BY <1>15 DEF Malformed
  <2>2. m.tokens = << >> /\ m.end = "malformed"
    BY <1>11, <2>1, EndingIs DEF Final, Others, Failed
  <2> QED BY <1>13, <2>1, <2>2 DEF Endings
<1>16. CASE BlockComment(r)
  <2>1. r.tok.kind = "panic" /\ End("panic")
    BY <1>16 DEF BlockComment
  <2>2. m.tokens = << >> /\ m.end = "panic"
    BY <1>11, <2>1, EndingIs DEF Final, Others, Failed
  <2> QED BY <1>13, <2>1, <2>2 DEF Endings
<1>17. ASSUME r.tok.kind = "T_INCOMPLETE", read = 0
       PROVE  m = IF Seen(r) THEN Failed("T_INCOMPLETE") ELSE Done
  <2>1. file = << >> /\ LastLine = << >>
    BY <1>1, <1>17 DEF ReaderInv, NothingLeftUnread, LastLine
  <2>2. g = << >>
    BY <2>1, ConcatEmptySeq DEF g
  <2> QED BY <1>12, <1>17, <2>2 DEF Seen, Final
<1>18. CASE Unfinished(r)
  <2>1. r.tok.kind = "T_INCOMPLETE" /\ read = 0 /\ Seen(r) /\ End("unfinished")
    BY <1>18 DEF Unfinished
  <2>2. m.tokens = << >> /\ m.end = "unfinished"
    BY <1>17, <2>1, EndingIs DEF Failed
  <2> QED BY <1>13, <2>1, <2>2 DEF Endings
<1>19. CASE EndOfInput(r)
  <2>1. r.tok.kind = "T_INCOMPLETE" /\ read = 0 /\ ~Seen(r) /\ End("done")
    BY <1>19 DEF EndOfInput
  <2>2. m.tokens = << >> /\ m.end = "done"
    BY <1>17, <2>1 DEF Done
  <2> QED BY <1>13, <2>1, <2>2 DEF Endings
<1>20. CASE Refill(r)
  <2>1. /\ r.tok.kind = "T_INCOMPLETE" /\ read # 0 /\ pc' = "read"
        /\ cut' = (cut \/ InComment) /\ UNCHANGED <<text, file, read, tokens>>
    BY <1>20 DEF Refill
  <2>2. LastLine = <<"\n">> /\ LastLine' = <<"\n">>
    BY <2>1 DEF LastLine
  <2>3. Remainder' = rest \o g
    <3>1. Remainder' = (rest \o file) \o LastLine
      BY <1>7, <2>2 DEF Remainder
    <3> QED BY <1>3, <1>4, <3>1, Rejoin DEF g
  <2>4. OpenIn(Rest, g) => InComment
    <3> SUFFICES ASSUME OpenIn(Rest, g) PROVE InComment
      OBVIOUS
    <3>1. file # << >> /\ Head(file) # "\n"
      <4> DEFINE nl == "\n"
      <4>1. g = file \o <<nl>> /\ g[1] # nl
        BY <2>2 DEF g, OpenIn
      <4> HIDE DEF nl
      <4>2. file # << >>
        BY <4>1
      <4>3. g[1] = Head(file)
        BY <1>3, <4>1, <4>2
      <4> QED BY <4>1, <4>2, <4>3 DEF nl
    <3> QED BY <3>1 DEF OpenIn, InComment
  <2>5. ~cut' => ~cut /\ m = next
    BY <1>12, <2>1, <2>4 DEF Final
  <2>6. TokensOf(Remainder)' = next /\ Meaning(text)' = Meaning(text)
    BY <2>1, <2>3 DEF next, Meaning
  <2>7. Known'
    <3>1. Source(Remainder')
      BY <1>6, <2>3
    <3> QED BY <1>9, <2>1, <2>5, <2>6, <3>1 DEF Known
  <2>8. (ChunkingInvisibleButInComments)'
    BY <2>1 DEF ChunkingInvisibleButInComments, ChunkingInvisible, Endings
  <2> QED BY <2>7, <2>8
<1> QED BY <1>1, <1>14, <1>15, <1>16, <1>18, <1>19, <1>20

\* The invariant holds in every state.
THEOREM ReaderInvariant == Spec => []ReaderInv
BY InitHolds, StepKeeps, PTL DEF Spec

\* The buffer is never fuller than its capacity, the stream never past its end,
\* and every token is of one of lex's kinds (bytes_fread, bytes_clear_start,
\* bytes_reserve, lex): no access of the loop is out of bounds.
THEOREM TypeCorrect == Spec => []TypeOK
<1>1. ReaderInv => TypeOK
  BY DEF ReaderInv
<1> QED BY <1>1, ReaderInvariant, PTL

\* The loop takes a read of nothing for the end of the file only at the end of
\* the file (main.c:23, 32, 50), whatever the window and the file.
THEOREM AllIsRead == Spec => []NothingLeftUnread
<1>1. ReaderInv => NothingLeftUnread
  BY DEF ReaderInv
<1> QED BY <1>1, ReaderInvariant, PTL

\* Between the pieces of a file no byte is lost, repeated or moved, and every
\* token uses a byte at least (main.c:19-56).
THEOREM BytesAreTakenInOrder == Spec => TakenInOrder
<1> DEFINE used == IF pc = "lex" THEN lex(Rest).used ELSE 0
           end == IF pc = "read" /\ read' = 0 THEN <<"\n">> ELSE << >>
           Step == /\ Ahead' = SubSeq(Ahead, used + 1, Len(Ahead)) \o end
                   /\ tokens' # tokens => used > 0
<1>1. ASSUME ReaderInv, Read PROVE Step
  <2>1. pc = "read" /\ tokens' = tokens /\ used = 0
    BY <1>1 DEF Read
  <2>2. PICK C : Ahead \in Seq(C)
    BY <1>1, ReadTakesNothing
  <2>3. SubSeq(Ahead, 0 + 1, Len(Ahead)) = Ahead
    BY <2>2, SubSeqFull
  <2>4. Ahead' = Ahead \o end
    BY <1>1, <2>1, ReadTakesNothing
  <2> QED BY <2>1, <2>3, <2>4
<1>2. ASSUME ReaderInv, Lex PROVE Step
  <2>1. used = lex(Rest).used /\ end = << >>
    BY <1>2 DEF Lex
  <2>2. PICK C : Ahead' \in Seq(C)
    BY <1>2, LexTakesWhatItUses
  <2>3. Ahead' = SubSeq(Ahead, used + 1, Len(Ahead)) /\ (tokens' # tokens => used > 0)
    BY <1>2, <2>1, LexTakesWhatItUses
  <2> QED BY <2>1, <2>2, <2>3, ConcatEmptySeq
<1>3. ReaderInv /\ [Next]_vars => [Step]_vars
  <2> HIDE DEF Step
  <2> QED BY <1>1, <1>2 DEF Next, Ended
<1> QED BY <1>3, ReaderInvariant, PTL DEF Spec, TakenInOrder

\* The tokens of a file, and how its reading ends, are those of the whole of its
\* text, wherever the window ends between two bytes of a token (main.c:19-56,
\* lex.c:456-470), as long as no comment goes on from one piece to the next.
THEOREM PiecesMakeNoDifference == Spec => []ChunkingInvisibleButInComments
<1> DEFINE Inv == Known /\ ChunkingInvisibleButInComments
<1>1. Init => Inv
  BY InitKnown
<1>2. ReaderInv /\ Inv /\ [Next]_vars => Inv'
  <2> SUFFICES ASSUME ReaderInv, Inv, [Next]_vars PROVE Inv'
    OBVIOUS
  <2>1. CASE UNCHANGED vars
    <3>1. UNCHANGED <<text, file, bytes, read, stream, tokens, pc, cut>>
      BY <2>1 DEF vars
    <3> QED BY <3>1 DEF Known, Remainder, Ahead, LastLine, Rest, Meaning,
          ChunkingInvisibleButInComments, ChunkingInvisible
  <2> QED BY <2>1, ReadKnows, LexKnows DEF Next, Ended
<1>3. Inv => ChunkingInvisibleButInComments
  OBVIOUS
<1> HIDE DEF Inv
<1> QED BY <1>1, <1>2, <1>3, ReaderInvariant, PTL DEF Spec

\* A string of ASCII bytes that a file has in it is printed as a literal of the
\* same bytes (fdebug_str, utils.c:86; string, lex.c:233), whatever they are.
THEOREM StringsAreReadBack == Spec => []StringsReadBack
<1>1. StringsReadBack
  BY PrintedStringsRead DEF StringsReadBack
<1> QED BY <1>1, PTL
=============================================================================
