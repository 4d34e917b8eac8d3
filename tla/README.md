# A TLA+ verification project for miniml

miniml (`src/src/*.c`) is an interpreter for a small strict functional
language: it reads a file, cuts it into tokens, parses one *toplevel* after the
other and evaluates each as soon as it is parsed. This directory holds TLA+
modules that model it, TLC configurations that check them on small instances,
and proofs checked by TLAPS. Paths below are relative to the repository
(`eval.c` is `src/src/eval.c`).

## 1. Inventory

| component | code | state it keeps | operations | modelled by |
|---|---|---|---|---|
| driver | `main.c` | the file, the buffer, the tokens, the parser position, the toplevel environment | the reading loop; the loop over the toplevels | `Reader` (first loop), `Toplevels` and `Eval` (second loop), `Interpreter` (both) |
| input buffer | `utils.c` | `bytes_t`: data, len, cap | `bytes_push`, `bytes_reserve`, `bytes_clear_start`, `bytes_fread` | `Reader` |
| lexer | `lex.c` | `lexstream_t`: how far the buffer has been used, how far looked at | `lex` and its sub-lexers | `Lexer` |
| interner | `interner.c` | a once flag, a mutex, a hash set | `intern`, `interned_strings`, `interner_debug` | `Interner` |
| hash table | `hashmap.c` | buckets of chained nodes, capacity, number of insertions | `hashmap_insert`, `_remove`, `_get`, `_contains`, `_iter`, growth; the same as `hashset_*` | `HashTable`, `HashMap` |
| parser | `ast.c` | the position in the tokens | `toplevel`, `expr` and the levels below | `Parser`, `Toplevels` |
| evaluator | `eval.c` | the heap of closures, the environment, the C stack | `eval_expr`, `walk_file` | `Eval` |
| printing | `fprint_*`, `fdebug_str*`, `hashmap_debug` | none | output | `fprint_expr`, `fprint_toplevel` in `Printer`, `fdebug_str` in `Lexer`; the rest not |
| memory | `gcalloc*`, `print_memory_use` | the collector's | allocation | no (external) |

**How they interact.** All calls are synchronous. `run()` fills the buffer and
calls `lex` until it answers `T_INCOMPLETE`; `lex` calls `intern` for
identifiers and strings, `intern` calls the hash set. When the file has been
read, `run()` alternates `toplevel` and `walk_file`, which calls `eval_expr`.
The program has one thread; `interner.c` is nevertheless written for several
(`call_once`, a mutex), and is modelled for several.

**What is hard.**

- `eval_expr` is a recursion and a loop at once (`goto __start`), and `let rec`
  writes to a closure after it was created.
- Errors are values. Macros (`EVAL`, `BUBBLE`) end an activation that receives
  one, except at a toplevel `let`, which binds it.
- The file is read in pieces of 1024 bytes: every lexeme, escape and comment may
  be cut anywhere.
- A chain of the hash table may hold two nodes for one key, and growth
  reorders the chains.
- The parser has no grammar beside it: precedence, grouping and how far a `let`
  or a `fun` goes are in the order of its calls. Errors are trees there, and each
  caller has to look for them. Each toplevel is evaluated before the next is
  parsed, and need not end in `;;`.
- `intern` is check-then-act on a table that several threads may share and that
  one of them creates.

**What makes each component correct.**

- evaluator: it prints what the language means; a function that
  somebody holds keeps its meaning when a `let rec` makes another; no error is captured; a tail call costs no stack.
- hash table: it is a dictionary, for the clients it was made for; its load is
  bounded; it panics only when it is full.
- interner: its calls are linearizable, one string per text; it returns.
- lexer and buffer: where the pieces of a file end makes no difference to its
  tokens; nothing is left unread; reading ends.
- parser: a text has the tree that precedences and parentheses give it, and
  nothing else is accepted; an error fails the toplevel it is in; every turn of
  the loop takes a token or is the last.
- driver: what a file prints is what the program written in it means, up to its
  first syntax error, and the file is walked to its end.
- printing: a string or a tree that is printed reads back as itself.

## 2. Plan

Done, in this order: `Eval` with `MiniML`; `HashTable`/`HashMap` with
`Dictionary`; `Interner` with `StringPool`; `Lexer`, `Lexemes`, `Reader`; the
proofs of section 6; `Parser` and `Toplevels` with `Grammar`; `Interpreter`,
which composes `Reader`, `Toplevels` and `Eval`; `fdebug_str` and `Printer`.

The proofs, in this order: `Eval` and the first ones of `HashMap` and `Interner`;
then `HashMap` and what a table contains, that a guarded client has a `Dictionary`;
`Interner`, that it is a `StringPool`; `Lexer` and `Reader`; that the lexer's tokens are
the longest ones (`Lexer` against `Lexemes`, on one piece), and from it that where the
pieces end makes no difference; that a printed string is read back.

Next: the turns of `Toplevels`, which
would need a `Parser` without `RECURSIVE`.

The modules that have proofs (`NatLemmas` and those whose names end in `Proofs`), and
those they extend, hold no `RECURSIVE` operator. The modules that have some, and are used by TLC only, are `MiniML`,
`Parser`, `Printer`, `Toplevels`, `Grammar`, `Writing`, `Interpreter`, and the MC
modules of those and of `Eval`.

## 3. Modules

### Eval, Knots, MiniML

`Eval` is the machine that `eval_expr` is. `mode`, `env`, `expr` and `val` are the
innermost activation: at `__start` (`"eval"`), or with a value being returned
(`"return"`). `stack` holds the activations that wait for a recursive call; a
frame has the environment, the expression and the operands already obtained. A
recursive call (`EVAL`) pushes a frame, a `goto __start` does not. `funs` is
the heap of `vfun_t`: closures are the only objects written after their
creation, so they alone have addresses. An `env_t` is never written after
`push_env` and is a sequence of bindings, the newest last.

One action per case of the `switch` at `__start` (`Literal`, `Variable`,
`Function`, `Descend`) and per way an activation goes on with the value it
receives (`Bubble`, `NextOperand`, `Operator`, `Call`, `Let`, `LetRec`, `If`).
`Begin`, `WalkExpr`, `WalkLet`, `WalkLetRec` are `walk_file` in the loop of
`run()`. The messages of a few operators are merged (`"incompatible types"`);
`E_MUL` of strings says "cannot substract this type" (`eval.c:163`), a slip in
a message that the model does not keep.

`Num` and the operators on it are parameters. The proofs need only that `Num` is
closed under them; the runs use a floating point format with infinities and a
NaN. `Programs` is what the parser may deliver.

`MiniML` is the language without heap, stack or pointers: environments are
functions from names, a recursive closure is one with names it finds itself
under. It is total because fuel bounds the nesting of evaluations.
`ImplementsMiniML` (in `MCEval`) is the refinement `walked <- pos, printed <- out`:
walking toplevel *k* prints what it means, everything else is a stutter. It says
nothing of the programs in `Aliasing`, where the heap can be seen (section 5).

`Knots` says when `let rec` writes to a closure nobody holds. `Maker` is any set of
expressions that is closed under the gotos of `eval_expr` and holds no variable and
no call: their functions are their own. In the run it is the largest such set.

`Samples` holds what the runs of `Eval`, `Parser` and `Interpreter` share: a number
format, strings, constructors of trees and the programs after `test.mml`.

### HashTable, HashMap, Dictionary

`HashTable` has the functions of `hashmap.c` as operators on a table value; it is
shared by `HashMap` and `Interner`. A bucket is the sequence of its nodes, slot
first. `keyval_set` is kept as it is: only the slot is compared, a new node
becomes the second. `HashMap` is a table with a client: any calls (`Spec`), or a
client that inserts only keys that `hashmap_contains` denies (`GuardedSpec`), as
`intern` does. `Dictionary` is a partial function with the same calls.
A null `value` keeps what an overwritten node held (`hashmap.c:96`); the maps of the
model are given values only (`NullAssumption`), and sets, which hold none, do not tell.

`Nodes` lists the nodes of a table in the order of iteration, and `Placing` is the
loop of `hashmap_resize`, as a function of the number of nodes that have been set
again: a recursive function, which the proofs can unfold.

### Interner, StringPool

One step per access to shared state: `call_once`, the three parts of
`register_interner`, `mtx_lock`, `hashset_contains`, `hashset_get` or
`hashset_insert`, `hashset_len`, `hashset_iter`, `mtx_unlock`. A string is a text
stored at an address, so that "the same string" means more than "the same text".
`call_once` and the mutex are modelled by what C11 says of them. `StringPool`
answers each call at one instant between its call and its return.

### Lexer, Lexemes, Reader

`Lexer` gives, for the bytes left in a stream, the token `lex` returns and how many
bytes are used up. A byte is written as its character; a backquote cannot be
written in a TLA+ string and goes by the name `BACKQUOTE`. `Reader` is the loop of `run()` with
the buffer's contents and capacity; an action per outcome of `lex`. The history
variable `cut` says that a comment has been interrupted by the end of a piece.
`Lexemes` says what a whole text means by the longest match at each place. It
takes the values of numbers and strings from `Lexer`, so it is a reference for
where lexemes begin and end, for keywords and for how reading ends, not for those
values.

`fdebug_str`, which prints strings, is here as well, byte for byte, so that what it
writes can be lexed: `StringsReadBack`.

Not kept: the growth of the token array, the interning of the texts (that is
`Interner`), `bytes_shrink`, the wording of `MATCH`'s error.

### Parser, Toplevels, Grammar, Printer

`Parser` has the functions of `ast.c` as operators that answer with a tree and the
position after it, in the code's order and with its error exits: `ASSERT` returns an
error with one more link, `Expect` is the test of `NEXT().kind`, `Factors`, `Terms` and
`Params` are the loops. An error chain is its length: the wording of its
messages is not kept, but how many of them are printed is. `expr` chooses between
`branch`, `fun`, `binding` and `equality` by the next token, which is what their
`NOMATCH` comes to. `With` stands for a local variable; it is written so that TLC
evaluates a call once. The number that digits stand for (`lex.c:429-452`) is the parameter `F64`.

`Toplevels` is the second loop of `run()` without the evaluation: a turn per toplevel, and
the report of a syntax error.

`Grammar` says which token sequences are texts of a tree, without a position or an
order of calls: it splits the sequence at an operator or a keyword, anywhere, and
asks whether the parts are texts of the parts. `Writing` goes the other way, from
a tree to its texts in eight styles: all parentheses or only the needed ones,
`let f x = e` or `let f = fun x -> e`, with or without the `;;` that can be left
out.

`Printer` is `fprint_expr` and `fprint_toplevel` as the tokens of what they print;
indentation is left out. What `%.16g` prints of a number is a parameter: a
number that needs more than 16 digits does not read back.

### Interpreter

`Interpreter` is `run()`: it extends `Reader`, instantiates `Toplevels` on the tokens
that `Reader` leaves and `Eval` on the toplevels delivered so far, which grow while it
runs. Its own names begin with `Run` where `Reader` has the same. A step is one of
`ReadAndLex`, `Parse` (only when the last toplevel has been walked), `Walk`, `Report`.
`RunTypeOK` is where the pieces meet: what the proofs about `Eval` assume of a
program (`ProgramsWellFormed`, and an error only at its end) is what the parser
delivers.

`ImplementsMiniML` in `MCInterpreter` is the refinement of `MiniML` by the whole
program: from the characters of a file, three modules later, the values printed
are those of the program that is written there.

## 4. Runs

| run | instance | shows |
|---|---|---|
| `eval_meaning` | 1185 programs: every tree of a family of depth two (all kinds of expression, all operators on all kinds of operands), as a function's body that is applied, as a toplevel next to names it may shadow, as a toplevel that follows a recursive one, as a value that a `let rec` binds again; programs after `test.mml`; loops, endless, mutual, nested, with accumulators, of up to 13 turns; programs with an expression that did not parse; `let rec` of functions that are held already, and of functions made after a detour | the machine prints what `MiniML` says; no dangling closure; errors stay where they belong; a `let rec` whose expression makes its function writes to a closure that nobody holds yet; the stack of a loop stays below a bound read off the program text; a program that halts is walked to its end |
| `hashmap_any_client` | five keys, two with one hash, two that share a bucket until the table grows, capacities 4 and 8 | sizes, placement, load bound, iteration, panics, for any calls |
| `hashmap_guarded` | four colliding keys, capacities 4, 8 and 16 | a guarded client has a dictionary |
| `hashmap_overwrite`, `hashmap_iter` | as `hashmap_any_client` | **violated**: an overwritten value comes back; more keys are announced than visited |
| `interner` | two threads, two calls each, five strings, a table of capacity 4 that fills up and cannot grow | linearizable, mutual exclusion, every call returns, panics only for want of memory |
| `reader` | 1024 files of three fragments, a string of every ASCII byte, strings of two bytes that might run together; window 3 | tokens independent of the pieces, bytes taken once and in order, nothing unread, reading ends, strings read back |
| `reader_comment` | four files with one comment, window 4 | **violated**: a cut comment's character is a malformed token |
| `reader_hex` | 64 strings of one `\xhh` escape | **violated**: `"\xA0"` is accepted, as the byte 0x50 |
| `parser` | 46618 token sequences: 184 programs (each operator inside each other on either side; each of `if`, `fun`, `let`, `let rec` inside each other and among operators; the programs of `Samples`) in eight styles; the same with any one token left out or replaced; every sequence of up to four tokens over twelve | the trees delivered are those that are written, only those, and nothing is skipped; an error in a tree stands at its first operand or nowhere; of which errors nothing is printed; every turn takes a token; a tree that is printed reads back |
| `syntax_errors` | the sequences of up to four tokens | **violated**: `* x` is delivered, as the product of an error and `x` |
| `interpreter` | 30 files of characters: the programs of `Samples` in two styles, and files with a missing toplevel, syntax errors of each kind, a malformed and an unfinished token, an endless loop; window 5 | the program delivered is the one that is written, it prints what `MiniML` says, and every file but the endless one is done with |

Each property of a passing run has a *seeded fault*, a variant of one definition
of the model as a plausible slip in the code would make it, kept next to the
definition with a comment, under which TLC finds the property violated. No
action uses these variants.

**Bounds.** `Fuel` (60) and the numbers up to 24 are enough for every program of
`Samples` and `MCEval` that halts. `CAPACITY_LOG_MAX` is 2, 3 or 4 instead of 32: at 2 a
table is full at once (the interner's; the growth is in the runs of the table),
at 3 every table grows once and then fills up, at 4 a table that has grown grows again.
`MAX_CALLS` bounds the calls per thread. `BUFFER_WINDOW` is 3, 4, 5 or 8 instead of
1024: with 3 every lexeme of more than one character, and every escape, is cut
at each of its places by some file. The window is positive
(`WindowAssumption`): a window of 0 would make every file look empty.
`MaxLen` is 4: what the error exits of `if`, and those behind a value or an `in`, need more
tokens for, the slips in whole programs reach. The files of `interpreter` hold no
comments: `reader` covers those, and a cut comment has other tokens (section 5).

**Deadlock** is not checked for the tables (the program is aborted by a panic) and
for the interner (the threads stop after `MAX_CALLS` calls); `CallsReturn` covers
the waiting that should not happen. It is checked everywhere else
(a program that has ended stutters in `Exited`, `Ended` or `Returned`).

**Fairness.** `Eval`, `Reader`, `Toplevels` and `Interpreter` assume weak fairness of the whole next-state
relation: one thread, which nothing makes wait; reading a file is assumed not to
block for ever. `Interner` assumes weak fairness of each thread's steps inside a
call, none of making calls, and no strong fairness of `mtx_lock`: with bounded
calls the others stop competing at some point, and with unbounded ones C11
promises nothing.

## 5. What the runs say of the code

Five statements of the repository that the code does not keep (`findings` in
`PROJECT.json` has the details):

- an expression that did not parse and is the first operand of an operator becomes a
  part of a tree that is delivered and evaluated (`ast.c:139`, 160, 181, against
  `ast.c:336`). `ErrorsOnlyLeftmost` shows that it is so nowhere else;
- `hashmap_insert` compares only the head of a chain, so that it may leave an old
  value that comes back later (and report a key as new that is there, or leave
  one that a removal does not remove: the same cause); `hashmap_iter` counts down from the number of
  insertions, not of keys (against
  `hashmap.h:20` and `:24-25`). `intern` asks first and
  never removes, so the interpreter is not affected: that is `hashmap_guarded`
  and `interner`;
- a `//` comment that goes past the end of the buffer is lexed as code from there
  (`lex.c:417`). `ChunkingInvisibleButInComments` shows that nothing else
  depends on where the pieces end;
- upper case digits in `\xhh` count from 5 (`lex.c:278`).

Three more things that no document of the repository denies. The `let rec` of a
toplevel takes any value (`eval.c:219`), the expression only a function
(`eval.c:76`): `MiniML` follows the code in both. The error chain is printed from its second link on
(`main.c:74`): `SilentOnlyBeforeEq` says that only for a toplevel `let` that
has not come to its `=` no message is printed at all (where the name was right, the token
found instead of the `=` is: `ast.c:360`). And
`1 == 1 == 2` is two toplevels, the second of which begins with a missing operand.

`let rec` writes to the closure its expression evaluates to, whoever holds it
(`eval.c:78`, 222). `MadeFunctionsTiedUnseen` says that nobody does if the expression
makes its function, as in `let rec f x = ...`; it is checked with programs of both
kinds and proved for all. If the expression hands on a function that has a name, that
function is changed: after `let f = fun y -> x` and `let rec x = f`, the `x` in `f`
is `f`, so that `f 1` is a function, where lexical scope makes it an unbound name.
No document of the repository says otherwise, so this is no finding. Such programs
are in the run of `eval_meaning`. In most of them nobody can see the change, as no
function has the name that is bound free: they print what they mean. Where one has
(`Aliasing`, four of the 1185 programs), `ImplementsMiniML` and
`HaltingProgramsFinish`, whose meanings are computed by `MiniML`, say nothing. Without
this restriction each of the four breaks one of the two: three print a function in place
of an error (by name at toplevel and within an expression, through a call), and one, a
function reached through a branch that is made to call itself, loops instead of failing.
The run `interpreter` holds no such program.

## 6. Proofs

| theorem | says | argument |
|---|---|---|
| `EvalProofs!TypeCorrect` | `Spec => []TypeOK` | `TypeOK` is inductive. Values, environments and frames are sets indexed by the size of the heap, and grow with it (`ValueGrows` ... `FrameGrows`, `HeapGrows`); `PatchType` is the one step that writes to the heap |
| `EvalProofs!MadeFunctionsAreTiedUnseen` | `Spec => MadeFunctionsTiedUnseen`, for every `Maker` | `Making` is inductive together with `TypeOK`: below every activation that waits for a maker, `eval_expr` is at a maker, through every `goto` and every call in between; and a function that is returned to one is new, so that no name, activation or closure refers to it (`NewIsNotHeld`). The property itself is about the step after, and is not inductive |
| `EvalProofs!ErrorsStayGlobal` | `Spec => []ErrorsAreGlobal` | inductive together with `TypeOK`; `GlobalsGrow`: what came from a failed toplevel binding still does when the toplevel environment grows |
| `HashMapProofs!LoadIsBounded` | `Spec => []LoadBound` | `SizesInv`: a capacity is a multiple of four. The bound is not inductive without it: the test before an insertion allows for one more only because `3 * cap` is a multiple of 4 |
| `HashMapProofs!PanicsAreJustified` | `Spec => []PanicsOnlyWhenFull` | the same invariant |
| `HashMapProofs!TypeCorrect`, `NodesAreWellPlaced`, `IterationEnds` | `Spec => []TypeOK`, `[]WellPlaced`, `[]IterNeverWraps` | `TableInv`, for any client: every node is in the bucket of its hash under the present mask, and there are at most `len` nodes. `len` counts insertions, so that it is a bound only and not the number of nodes: that is why overwriting and removing keep it |
| `HashMapProofs!GuardedTablesHaveNoDuplicates` | `GuardedSpec => []NoDuplicates` | `OnceInv`, which adds to `TableInv` that each text has one node at most, is inductive only for a client that looks first: `hashmap_contains` searches the whole chain and a new node goes to the same chain |
| `HashMapProofs!GuardedTablesAreDictionaries` | `GuardedSpec => ImplementsDictionary` | from the same invariant, step by step: with each text held once, a lookup finds *the* node of a text, inserting adds one, removing takes it out, a resize keeps the set of nodes |
| `InternerProofs!TableIsProtected` | `Spec => []OneInside` | `InternerInv` adds who may be registering (`OnceInv`): while one thread is in `register_interner` no other is past `call_once`, so that neither the table nor the mutex is reset under a holder |
| `InternerProofs!TypeCorrect`, `AbortsAreJustified` | `Spec => []TypeOK`, `[]AbortsOnlyForMemory` | `PoolInv`: the table is well-formed once it is built, holds each text once, and maps a text to a string of that text; what a thread has seen between `lock` and `unlock` (the text is there, or is not) is still so |
| `InternerProofs!InternerIsAPool` | `Spec => ImplementsStringPool` | the pool is the set of strings in the table; a call takes effect where `hashset_get`, `hashset_insert`, `hashset_len` or `hashset_iter` does, everything else stutters. It needs all of `PoolInv` |
| `LexerProofs!LexStaysInside` | what `lex` answers to any text | a lemma for each sub-lexer; `Start` and the rest of a string go by recursion on later positions |
| `ReaderProofs!TypeCorrect`, `AllIsRead` | `Spec => []TypeOK`, `[]NothingLeftUnread` | `ReaderInv` adds that there is room in the buffer before a read (`RoomForMore`): without it a read of nothing would not mean the end of the file |
| `ReaderProofs!BytesAreTakenInOrder` | `Spec => TakenInOrder` | from the same invariant and `LexStaysInside`: dropping the front of the buffer and reading behind it leave `Ahead`, the bytes that are still to be lexed, as it was |
| `MeaningProofs!LexMeans` | for every text `r \o g`: what `lex` answers to `r` is what the whole text begins with, unless it asks for more | `StringStays`, `NumberStays`, `EscapeStays`: an answer that does not wait is the same whatever follows; `LexemeAgrees`: it is the longest word or symbol there (`LongestSymbolAt`, `WordIsRun`); `SkipMeans`: the space and comments before it hold no token |
| `ReaderProofs!PiecesMakeNoDifference` | `Spec => []ChunkingInvisibleButInComments` | `Known`: as long as no comment was cut, the tokens of the file are those found so far and then those of what is still to come. A token takes the first of these (`LexMeans`); `T_INCOMPLETE` takes space and comments only (`LexWaits`), and at the end of the file means an unfinished token if anything is left, the end if not |
| `LexerProofs!PrintedStringsRead`, `ReaderProofs!StringsAreReadBack` | what `fdebug_str` prints of any string of bytes up to 0x7f is lexed as that string; `Spec => []StringsReadBack` | `ByteRead`: what is printed of one byte is read as that byte, wherever it stands and whatever follows it, so that no escape takes in the next character (`EscapedRead`, `HexDigitRead`: the tables of the two files are inverse). `FlattenPlaces` says where the escapes of each byte are in the text; `RestRead` goes back from the closing quote |

They hold for every value of the constants that satisfies the named assumptions, which
TLC evaluates in the runs:

- `Eval`: `NumbersClosed`, `TextClosed`, `ExprWellFormed`, `ProgramsWellFormed`: the operators
  on numbers and strings stay among them, and programs are what the parser delivers.
- `Knots`: `MakersMake`: what `Maker` is, above.
- `HashTable`: `CapacityAssumption`: the logarithm of the largest capacity is a natural
  number, at least that of the initial one (32 and 2 in the code).
- `HashMap` and `Interner`: `HashAssumption`: a hash is a natural number above 0 (`hasher`
  is biased away from it: 0 marks an empty slot), by any function, constant ones included.
- `HashMap`: `NullAssumption`: a null pointer is no value. `Interner`: `NoneAssumption`:
  `NONE` is no thread; `CallsAssumption`: the number of calls of a thread.
- `Lexer`: `AsciiAssumption`: every printable code is the code of some character, and 34
  and 92 are those of the quote and the backslash. It is about the table `Ascii`, which
  is computed from strings and which the provers cannot look into; it holds no
  constant, so that TLC decides it. Only the theorems on printed strings use it.
- `Reader`: `WindowAssumption`: a window of a byte at least; `TextsAssumption`: a file is
  a sequence of characters, none of which is `EOF`, the mark by which `lex_peek` says that
  the stream has ended (in the code a number that is no byte, `lex.c:126-133`).

**How.** Each invariant was first checked by TLC, as an invariant of the run of
its module. `HashTableProofs` begins with the chains of a buffer (what
setting and unlinking a node do to the set of its nodes, and that `Nodes` lists each
once) and goes from there to the functions of `hashmap.c`, the resize
included; it serves both `HashMap` and `Interner`. `NatLemmas` has the induction
they need: a set of natural numbers with 0 and with each successor is `Nat`
(`NatSetInduction`), from which the values of a recursive function follow where
that function is known to exist (`RecursiveFunction`; `StartIs` and `StringIs` in
`LexerProofs`, `TokensFunction` in `MeaningProofs`).

`LexerProofs` is about `Lexer` alone: what `lex` answers, and that an answer which does not
wait stays the same when more of the text is there. `MeaningProofs` compares it with
`Lexemes`. `TokensOf` goes through a text by positions; `TokensOfIs` unfolds it once,
so that it can be reasoned about by what a text begins with: nothing, space, a
comment, a token. The tokens of `r \o g` when only `r` is in the buffer follow by
induction on the length of `r` (`SkipMeans`), and the one case that is left out is a
comment at the end of `r` that goes on in `g` (`OpenIn`), which is when `cut` is set.

`StringsReadBack` says the same of a string in any state, so that its theorem is that of
`fdebug_str` and `lex` alone.

**Only model-checked.** Liveness (`HaltingProgramsFinish`, `CallsReturn`,
`ReadingEnds`, `FilesEnd`): out of the prover's reach, as `ENABLED` is.
`MiniML`, `Parser`, `Grammar`, `Printer` and `Toplevels` are recursive on trees and
positions (`RECURSIVE`), and so is everything said of them: `ImplementsMiniML`, the
runs `parser` and `interpreter`, and `TailCallsKeepStackFlat`, whose bound is
computed from the program text.

## 7. Not modelled

`main()` (opening the file, the collector's start and statistics); coloured output
(`fprint_token`, `fdebug_str_color`) and `hashmap_debug`; the collector; failing
allocations, except the one `register_interner` tests for; read errors; the rounding
of `f64` and of the `long double` that a number is built from; the depth at which the C
stack is exhausted by a recursion that is not a tail call, or by a deeply nested
text; the 64-bit limits of sizes, which no input reaches. Strings with bytes
above 0x7f are lexed but left out of `StringsReadBack`: they are printed as `\xhh`
escapes, which the lexer takes only up to 0x7f.
