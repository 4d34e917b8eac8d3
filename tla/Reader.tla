------------------------------- MODULE Reader -------------------------------
(***************************************************************************)
(* The reading loop of run (src/src/main.c): a file is read in pieces into *)
(* a growable buffer, the tokens of the buffer are taken off its front,    *)
(* and what is left of it waits for the next piece.                        *)
(***************************************************************************)
EXTENDS Lexemes, Naturals, Sequences, SequencesExt, FiniteSetsExt

CONSTANTS
  BUFFER_WINDOW,   \* 1024 in the code
  Texts            \* the files: sequences of characters

ASSUME WindowAssumption == BUFFER_WINDOW \in Nat \ {0}
ASSUME TextsAssumption == \A t \in Texts : t \in Seq(STRING \ {EOF})

VARIABLES
  text,      \* the whole file
  file,      \* what has not been read of it
  bytes,     \* the contents of the buffer
  cap,       \* its capacity
  read,      \* what the last bytes_fread returned
  stream,    \* how far stream.data is into the buffer
  tokens,    \* the tokens found
  pc,        \* "read", "lex", or how the loop has ended
  cut        \* some comment was interrupted by the end of a piece

vars == <<text, file, bytes, cap, read, stream, tokens, pc, cut>>

Init ==
  /\ text \in Texts
  /\ file = text
  /\ bytes = << >>
  /\ cap = BUFFER_WINDOW
  /\ read = 0
  /\ stream = 0
  /\ tokens = << >>
  /\ pc = "read"
  /\ cut = FALSE

bytes_push_cap(len, c) == IF len >= c THEN len + (IF c # 0 THEN c ELSE 4) ELSE c
bytes_reserve_cap(len, c, additional) == Max({c, len + additional})
bytes_clear_start(b, len) == SubSeq(b, len + 1, Len(b))

\* bytes_fread fills the free part of the buffer; at the end of the file a
\* newline ends the last token.
Read ==
  LET n == Min({cap - Len(bytes), Len(file)})
      filled == bytes \o SubSeq(file, 1, n) IN
  /\ pc = "read"
  /\ read' = n
  /\ file' = SubSeq(file, n + 1, Len(file))
  /\ bytes' = IF n = 0 THEN Append(filled, "\n") ELSE filled
  /\ cap' = IF n = 0 THEN bytes_push_cap(Len(filled), cap) ELSE cap
  /\ stream' = 0
  /\ pc' = "lex"
  /\ UNCHANGED <<text, tokens, cut>>
-----------------------------------------------------------------------------
(* What the loop does with r, what lex returned *)

Rest == SubSeq(bytes, stream + 1, Len(bytes))

Push(r) ==
  /\ r.tok.kind \notin {"T_INCOMPLETE", "T_ERROR", "panic"}
  /\ tokens' = Append(tokens, r.tok)
  /\ UNCHANGED <<text, file, bytes, cap, read, pc, cut>>

\* The loop ends and leaves everything as it is.
End(how) == pc' = how /\ UNCHANGED <<text, file, bytes, cap, read, tokens, cut>>

Malformed(r) == r.tok.kind = "T_ERROR" /\ End("malformed")
BlockComment(r) == r.tok.kind = "panic" /\ End("panic")

\* stream.seen # 0 after an incomplete token: something of it is there.
Seen(r) == r.used < Len(Rest)
Unfinished(r) == r.tok.kind = "T_INCOMPLETE" /\ read = 0 /\ Seen(r) /\ End("unfinished")

\* Seeded fault: the loop goes on to the next piece at the end of the file too.
EndOfInputGoesOn(r) ==
  /\ r.tok.kind = "T_INCOMPLETE" /\ read = 0 /\ ~Seen(r)
  /\ bytes' = << >> /\ pc' = "read"
  /\ UNCHANGED <<text, file, cap, read, tokens, cut>>

EndOfInput(r) == r.tok.kind = "T_INCOMPLETE" /\ read = 0 /\ ~Seen(r) /\ End("done")

\* Does a comment go on after the end of the buffer?  (The code does not know.)
InComment ==
  LET n == Len(Rest) IN
  /\ file # << >> /\ Head(file) # "\n"
  /\ \E i \in 1..n :
       /\ IsComment(Rest, i) /\ CommentEnd(Rest, i) = n + 1 /\ Rest[n] # "\n"
       /\ Start(SubSeq(Rest, 1, i - 1)) = i

\* Seeded fault: what was used is counted from the last token on.
RefillFromLast(r) ==
  /\ r.tok.kind = "T_INCOMPLETE" /\ read # 0
  /\ bytes' = bytes_clear_start(bytes, r.used)
  /\ cap' = bytes_reserve_cap(Len(bytes'), cap, BUFFER_WINDOW)
  /\ pc' = "read"
  /\ cut' = (cut \/ InComment)
  /\ UNCHANGED <<text, file, read, tokens>>

\* Seeded fault: no room is made for the next piece.
RefillNoReserve(r) ==
  /\ r.tok.kind = "T_INCOMPLETE" /\ read # 0
  /\ bytes' = bytes_clear_start(bytes, stream + r.used)
  /\ pc' = "read"
  /\ cut' = (cut \/ InComment)
  /\ UNCHANGED <<text, file, cap, read, tokens>>

\* What has been used is dropped from the buffer, the beginning of the
\* incomplete token stays, and room is made for a window more.
Refill(r) ==
  /\ r.tok.kind = "T_INCOMPLETE" /\ read # 0
  /\ bytes' = bytes_clear_start(bytes, stream + r.used)
  /\ cap' = bytes_reserve_cap(Len(bytes'), cap, BUFFER_WINDOW)
  /\ pc' = "read"
  /\ cut' = (cut \/ InComment)
  /\ UNCHANGED <<text, file, read, tokens>>

\* lexstream_t's data has advanced over what was used.
Lex ==
  /\ pc = "lex"
  /\ \E r \in {lex(Rest)} :
       /\ stream' = stream + r.used
       /\ \/ Push(r) \/ Malformed(r) \/ BlockComment(r)
          \/ Unfinished(r) \/ EndOfInput(r) \/ Refill(r)

Endings == {"done", "unfinished", "malformed", "panic"}
Ended == pc \in Endings /\ UNCHANGED vars

Next == Read \/ Lex \/ Ended

Spec == Init /\ [][Next]_vars

\* Reading a file never blocks for ever.
FairSpec == Spec /\ WF_vars(Next)
-----------------------------------------------------------------------------
(* Properties *)

TokenKind ==
  {"T_NUM", "T_STR", "T_IDENT"} \cup {Keywords[i].kind : i \in DOMAIN Keywords}
    \cup Range(Single) \cup {Double[c].one : c \in DOMAIN Double}
    \cup {Double[c].two : c \in DOMAIN Double} \cup {"T_SLASH"}

\* The buffer holds at most its capacity, and the stream is inside it.
TypeOK ==
  /\ text \in Texts /\ file \in Seq(Range(text))
  /\ bytes \in Seq(Range(text) \cup {"\n"}) /\ Len(bytes) <= cap
  /\ read \in 0..cap
  /\ stream \in 0..Len(bytes) \/ pc = "read"
  /\ \A i \in DOMAIN tokens : tokens[i].kind \in TokenKind
  /\ pc \in {"read", "lex"} \cup Endings
  /\ cut \in BOOLEAN

\* A read that returns nothing is taken for the end of the file (main.c:23,
\* 32, 50): there must have been room for something.
NothingLeftUnread == pc # "read" /\ read = 0 => file = << >>

\* The bytes that are still to be lexed, as far as they are in the buffer or in
\* the file, are taken in order and once: a call of lex takes some off the front,
\* and at least one for a token; reading a piece, dropping what was used and
\* making room take none (bytes_clear_start, bytes_fread, lexstream_new).
Ahead == (IF pc = "read" THEN bytes ELSE Rest) \o file
TakenInOrder ==
  [][LET used == IF pc = "lex" THEN lex(Rest).used ELSE 0
         end  == IF pc = "read" /\ read' = 0 THEN <<"\n">> ELSE << >> IN
     /\ Ahead' = SubSeq(Ahead, used + 1, Len(Ahead)) \o end
     /\ tokens' # tokens => used > 0]_vars

\* Where the pieces end makes no difference to the tokens of the file or to how
\* its reading ends.
ChunkingInvisible ==
  pc \in Endings => [tokens |-> tokens, end |-> pc] = Meaning(text)

\* That is so as long as no comment goes on from one piece to the next.
ChunkingInvisibleButInComments == ~cut => ChunkingInvisible

\* "malformed token in input stream" (main.c:45): the panic is about a token of
\* the file, not about something in a comment.
MalformedIsInTheFile == pc = "malformed" => Meaning(text).end = "malformed"

\* A string of ASCII bytes, as fprint_value and the messages of run print it
\* (fdebug_str, utils.c:86), is a string literal of the same bytes: the escapes
\* that are written are escapes that lex reads.
StringsReadBack ==
  pc \in Endings =>
    \A i \in DOMAIN tokens :
      tokens[i].kind = "T_STR" /\ tokens[i].str \in Seq(0..127) =>
        lex(Append(fdebug_str(tokens[i].str), "\n")).tok = [kind |-> "T_STR", str |-> tokens[i].str]

\* The loop ends: every piece either gets longer or leaves fewer bytes unread.
ReadingEnds == <>(pc \in Endings)

\* "invalid hex escape (value is above 0x7f)" (lex.c:284): in a text that is
\* one string of one \xhh escape, a value above 0x7f is malformed.
HexAbove7fIsMalformed ==
  pc = "done" /\ Len(text) = 6 => 16 * HexU[text[4]] + HexU[text[5]] <= 127
=============================================================================
