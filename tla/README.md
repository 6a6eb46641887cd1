# WXCC, modelled in TLA+

WXCC is a compiler front end for a subset of C: a hand-written lexer over
buffered input, a recursive-descent parser with a small buffer of tokens, symbol
tables in nested environments, types, and three-address code with back-patched
jumps. It is sequential. What is hard in it is not concurrency but *state that
must survive a long sequence of calls*: a buffer refilled between a look-ahead
and the push-back that undoes it, one remembered column, a token buffer of three,
a hash table that probes, environments entered and left on every path, lists of
jumps merged in place. Tests reach few of these sequences.

All paths below are relative to `src/`.

## 1. The system

| Part | Code | State it keeps | Operations |
|---|---|---|---|
| Character sources | `lib/lex/input.cc`, `includes/lex/input.h` | buffer, cursor, end, sizes, EOF flag, line, column, last column | `next(GET_CHAR / LOOK_AHEAD / PUSH_BACK)`, `fill`, `fillBuffer`, `position` |
| Lexer | `lib/lex/lex.cc`, `includes/lex/lexer.h`, `lib/lex/lexWE.cc` | the source, `tmpBuffer` | `getNextToken` and the scanners of words, numbers, operators, strings, character constants |
| Tokens | `includes/lex/token.h`, `lib/lex/token.cc` | kind, position, a union that may own a text | copy, compare, destroy |
| Scopes | `includes/table.h`, `includes/environment.h`, `lib/env/` | per scope two hash tables and a level; up and down pointers | `newIdentifier`, `findID`, `findFUNC`, `EnterEnv`, `ExitEnv` |
| Parser, statements and declarations | `includes/parser.h`, `lib/parser/` | three tokens `cur`, `pre`, `prepre`; `isFinish`; the C++ stack | `next`, `pushBack`, `need`, one function per construct |
| Parser, expressions | `lib/parser/expr.cc` | as above | precedence climbing, error recovery |
| Types | `includes/type.h`, `lib/semantic/type.cc` | type trees; one static `TypeException` | construction and `Type::check` |
| Intermediate code | `includes/semantic.h`, `lib/inter/` | a doubly linked list of instructions with a current one; labels; lists of jumps to patch | `appendIR`, `makeIRList`, `mergeChain`, `backPatch`, tree builders |
| Driver, options, output, tools | `driver/`, `lib/lex/output.cc`, `lib/tools/` | none that matters | reading options, printing |

How they interact: the parser pulls tokens from the lexer, the lexer pulls
characters from the source, all by plain calls. A scanner may get a character,
look one ahead and push one back; the source may have to refill its buffer from
the file (or, in memory, be given more text) in the middle of that. The parser
calls the environments as declarations, uses and blocks come by, and builds code
as it goes. Nothing calls back, nothing runs in parallel, nothing is persisted.

What makes each part correct:

* **Sources**: no byte is lost, repeated or reordered by a refill; line and
  column are those of the cursor after any sequence of calls; a push-back undoes
  a get; the end is reported when everything was read and not before.
* **Lexer**: the tokens of a text are those its characters make (longest match,
  keywords exactly where they are, strings with their text) and do not depend on
  where chunks end; the end is reached.
* **Numbers**: what is accepted without a report has the value and type that
  were written.
* **Scopes**: a use finds the innermost declaration, a second declaration in the
  same scope is refused, and a scope that was left has no effect.
* **Token buffer**: what the parser reads is what the lexer returned, in order.
* **Types**: the verdict on a type depends on that type alone (which the code
  breaks: `ParserRefusal`, section 5).
* **Code**: every jump ends up with the label of the construct it belongs to, none
  is left open, and what a construct has given its jumps when it ends, nothing
  that ends later changes.

## 2. The modules

| Module | Models | Kind |
|---|---|---|
| `CharStream` | what a source promises: a text, a cursor, get / look ahead / push back | abstract specification |
| `InputBuffer` | the object behind both sources, as operators on a record (`MemoryNext`, `Fill`, `FillBuffer`, `FileNext`, ...) | operators |
| `FileSource` | `FileLexInputSource` under any order of calls | implements `CharStream` |
| `MemorySource` | `MemoryLexInputSource`, whose text arrives in pieces between calls | implements `CharStream` |
| `Lexer` | `Lex::getNextToken` and its scanners over `InputBuffer`, one step per character, called until it answers `T_NONE` | component, composed with the source |
| `LexerProps`, `LexerChunks` | what is checked of it; the lexer over chunks implements the lexer over one chunk | properties, refinement |
| `NumberLiteral`, `NumberProps` | `Lex::number` and the four number scanners, one step per character | component, properties |
| `SymbolTable` | `Table` as operators on a record | operators |
| `ScopeStack` | what the environments promise: a stack of scopes | abstract specification |
| `Env`, `EnvProps` | `Env` and `Tree::IDtree` under the calls the parser makes | implements `ScopeStack` when no names collide |
| `TokenBuffer` | `Parser::next`, `pushBack`, `need` and the reports, as operators on the parser's record | operators |
| `InstructionList` | `IR`, `IRList`, `Label`: the chain of instructions, lists of open jumps, merging, back-patching, printing | operators |
| `TypeTree` | the types of `type.cc`, and the check with its one static exception | operators |
| `Names` | the names in scope and their types, as the parser holds them | operators |
| `CallStack` | the state of the parser between two steps: the functions that wait, what comes next, what is returned | state |
| `ExprParser` | `c_parser_expressions` and every level below it, with the trees of `tree.cc` and what they write | actions |
| `Declarator` | the declaration functions of `decl.cc`: tokens, types, checks and names | actions |
| `StatementParser` | `c_parser_translation_unit`, function definitions, blocks and statements, and with the two above the whole parser | component |
| `ParserSafety` | what is claimed of every text, well formed or not | properties |
| `GrammarProps`, `ParserProps` | expressions and declarations against C's grammar; statements and the code they become | properties |
| `InputBuffer_proofs`, `FileSource_proofs`, `MemorySource_proofs`, `Lexer_proofs`, `Number_proofs`, `Env_proofs`, `Parser_proofs`, `ParserCode_proofs` | lemmas and theorems of one component, those of the parser's code apart | proofs |
| `MC*` | small instances | model checking |

How state and actions correspond to the code:

* A **source** is one record: `buf`, `pointer`, `end`, `bufsize`, `filled`,
  `eof`, `line`, `column`, `lastCol` are the members of the classes. Each call of
  `next` is one action; a `LOOK_AHEAD` or `PUSH_BACK` at the border of a chunk
  refills as in the code, so that a push-back there can be a no-op.
* The **lexer**: `pc` names the loop or switch the code is in, `tmp` is
  `tmpBuffer` up to the write position, `count` is `lengthCount`. One step gets
  one character together with the push-back or look-ahead that belongs to it.
  `start` and the `from`/`to` of a token are history: how many characters of
  the file precede it. The tries of `letter()` are the set of prefixes of the
  keywords; `do`, which has no `CHECK_NEXT`, is a case of its own. A character
  constant ends in `crashed`: the code then writes through a pointer that is null
  in every fresh `Token`. The file's end is `NUL`; `Byte255` is the byte that
  compares equal to `EOF` in a `char`.
* A **number** is the text `getBufferUntilSp` collected; `times`, `seen`
  (`reachU`, `reachL`) and `marks` (`reachP`, `reachE`, ...) are the locals of
  the scanners. `strtod` is external: it may find any number out of range.
* A **table** has `slot` and `stored`; an identifier is its name and `Home` is
  any function from names to slots (`strHash` modulo the size). `scopes` is the
  chain of `up` pointers. `status` says how the compiler stopped: growing a
  table hashes a null pointer (`lost_in_rePut`), a probe runs out of the array
  (`overrun`), the report of a redeclaration reads its arguments in the wrong
  order (`lost_in_report`, which may or may not happen: the call is undefined),
  and a search in an environment that is its own `up` does not end (`endless`).
* The **parser** is one record: the text as tokens and how many of them the
  lexer has returned; `cur`, `pre`, `prepre` as places in the text, so that a token
  that is returned twice or lost is seen; `isFinish`; `stop`, why the program
  ended; and the code: instructions with their links and destination, `tail`
  (`IR::currentIR`), the lists of instructions that blocks and trees share, the
  number of labels. A list is an object with an identity, because a merge changes it
  for everybody who holds it.
* The functions of `lib/parser` call each other to any depth. A step is what the
  code does from one call or return to the next, or one turn of a loop. `calls` is
  the C++ stack from the loop over the file down, a frame for each function that
  waits for one it called, with the locals it goes on with; `mode` says what comes next
  (a statement is about to be read, an operand, a suffix of a declarator, a function has
  returned, ...) and `value` is what was returned or is worked on. After an
  empty statement `mode` is `"stmt_list"`, the label the code goes back to, which stands
  behind the test for a brace (`lib/parser/stmt.cc:208`): that of `;{` is tried as an
  expression first. `turns` counts
  the loop over the file, as `n` does in the code. Precedence climbing is one frame per
  level (`"binary"`, with the precedence it was called with).
* Of the operators of C there is one of each behaviour the parser shows: `<` for
  the four orderings (whose builders are the same code), `<<` for both shifts,
  `+` and `*` for the arithmetic of their levels, `++` for `--`, `!`, `~` and
  `sizeof`; all others for themselves. Arithmetic writes no instruction: `GD_OUTPUT`
  is not defined by the build files.
* A **tree** is its node, what it is made of, its type, where its code begins and its
  two lists of jumps; `trees` has those of the statements read. A **type** is its
  outermost operator over the type it is applied to, and a function's list of
  parameters is the first one, linked to the next. `scopes` are the names in scope
  with their types (the tables that hold them are `Env`'s matter). `verdict` is the
  static exception of `Type::check`, which no call sets back.
* `stop` is `undefined` where the code follows a null or unset pointer, descends for
  ever, or prints a report by a wrong index; `assert` and `fatal` where it says so;
  `thrown` where a pointer is thrown that no handler takes; `pushback` where a third
  token is given back; `beyond` where a stray `{` replaces the global environment.
* The model's instructions were compared with what the compiler prints for a few
  hundred random functions, well formed or not, and agree.

## 3. The runs

| Run | Question | Bounds |
|---|---|---|
| `FileSource` | Does any order of gets, look-aheads, push-backs and refills keep the file, the line and the stream? | every file of up to five characters, chunks of two: a file has up to three chunks, the border falls between any two characters |
| `MemorySource` | The same when text arrives in pieces, through every branch of `fill` | see `MCMemorySource` |
| `LexTokens` | Is each token what its characters make it, on its line and column, and nothing lost? Are chunks invisible in the tokens, and is the end reached? | words around `do`, `double`, `if`; operators; all mixed; three pieces each; strings of three pieces, of four behind an opening quote, and of three behind a character and a quote, with a `tmpBuffer` of three characters, so that it overflows, at a newline, a backslash, a quote and a letter; chunks of two (against one chunk, for `ChunksAreInvisible`); weak fairness |
| `Numbers` | Is what is accepted without a report exact, and is what the grammar has accepted? | texts of up to five characters; `IntValues` 2^8 and `LongValues` 2^12 for the code's 2^32 and 2^64, limits 3, 2, 4 for the code's 32, 64, 16, 8, 11 |
| `EnvShared` | Do tables stay well formed and answers in scope when names collide, and are they a scope stack until two do? | four names over five slots: two share a home, the slot after it is the last and the home of a third; global, function and block scope; the fourth name of a scope makes the table grow; one stray brace |
| `Parser` | Does the parser take every well-formed text to its last token, group its operators, build its types and place its jumps as the text means? Whatever the text, does it give back one token at most, and leave every environment it entered? | 326 functions of statements nested two deep and pairs of statements; eight of them with each token left out in turn; nine strange ones; 574 expressions over every pair of operators; declarations of 245 types; 36 files of declarations some of which are refused, 18 uses of names |
| `LexSwallow`, `EnvCollision`, `ParserEnds`, `ParserBraces`, `ParserParameters`, `ParserRefusal` | counterexamples to what the repository says, section 5 | |

`FlowCorrect` compares two graphs: the one a syntax tree stands for (`Flow`, by
recursion on the tree, with where a statement, a break and a continue lead) and the
one the instructions make (`FlowWritten`, by following links and labels from one
comparison, assignment or return to the next). It says nothing of how many labels
or empty instructions there are. `NoJumpLost` and `EndsAreFinal` say how that comes
about: a jump without a destination is in a list somebody still holds, and the
destinations that are there when a construct ends stay. It is not that a jump is
patched once: a `for` patches the jumps of its condition three times
(`lib/parser/stmt.cc:353`, 358, 361), the last label stays, and all this is one step of the
model (`EndFor`). What is claimed is that no statement around it patches them again.

`GroupsAsGrammar` takes the tree the parser built for an expression back to the
operators it says (a subscript is an address plus a multiple of a size, a sign adds
to 0) and compares it with the tree the text was written from; `TypeAsDeclared` does so
for the type a name ends up with, as far as its declarator says it: the `const`
every text begins with is dropped by the code for an `int` (`lib/parser/decl.cc:145-163`)
and not asked for. `ScopesNest` holds of every file: however a text goes wrong, there is
one environment for each function body and block that is being read, and the global one,
although other functions enter and leave them than those that report the error.

*Well formed* means what this parser takes. The texts are generated from syntax
trees and keep to these rules, each of which is a restriction of the code that
section 5 names:

* the body of an `if` is in braces, the branches of an `if` with an `else` and the
  bodies of a `while` and a `for` are one statement without;
* no `if` or `for` stands in an `if`, no `break` or `continue` in a `for` or an
  `if`, and at most one of them in a loop;
* a condition is one comparison or two of them joined by one `&&` or `||`;
* variables and functions are declared with `const` and no type;
* an expression has at most one `&&` or `||`, at its top; no `!=`, no binary `&`, no
  comma, and of the unary operators `+`, `*` and `&`; what is left of an operator
  is not constant in type;
* a declarator has at most two stars, one dimension, two parameters and one pair of
  brackets around a pointer, and the first parameter may be what the check lets by.

Within them one run covers loops in loops and in an `if`, an `if` in a loop, breaks
and continues of an inner loop, sequences of statements and every condition.

Why the bounds are enough: the lexer's scanners hold at most three characters of
context, and its buffer matters only in where a chunk ends, which chunks of two
put between any two characters. The theorems of section 4 hold for all chunk
sizes. In `Numbers` the proportions of the code are kept: a hex number of
maximal length fills an `int`, the octal and decimal ones do not. In `Env`, a
global, a function's and a block's scope are all the kinds there are, and three
quarters of five slots is three entries, so growth, collision and overrun all
happen with four names. In `EnvShared`
a collision at the border and one before it both happen. In `Parser` a list of jumps is merged at most once on its
way out of a statement, so two levels of nesting and a second statement after them
bring every merge and every patch together with every other; what needs three
levels is the same code again. Every pair of operators, nested to either side, is every
way one level of the climb can meet another.

Named bounds in guards: `MaxDepth`, `MaxDeclared`, `MaxStray` (`Env`),
`MaxInstructions` and `MaxTurns` (`StatementParser`: 60 instructions, which no
well-formed text of the run comes near, `CodeBounded` gives one per token; 12 turns
of the loop over the file, whose end `TurnsEnd` is about), `MaxPieces` and
`MaxLength` (inputs of the MC modules).

Fairness: only `Lexer` has any, `WF_vars(Next)`. The lexer is a loop in a single
thread that nothing suspends: while it can take a step it does. `EndIsReached` is
claimed of files that end with a newline, unless a string is cut at the newline that
should end it (`CutAtNewline`); without either it is false (section 5).

No liveness is claimed of `StatementParser`: on the texts that are not well formed it is
false in several places (a stray `)`, `+=` and the loop over the file itself go on for
ever, section 5). That a well-formed text
is read to its end is what `Accepted` and `CodeBounded` say as safety: the parser
does not stop, writes no more instructions than it takes tokens, and has taken the
last token when the function ends.

`CHECK_DEADLOCK FALSE` is set where the program stops: the lexer at the end of
the file, a scanner at the end of a number, the compiler when it is lost, the
parser at its bounds.

## 4. What is proved

With TLAPS, for every file, alphabet, chunk size and sequence of calls:

* `FileSource_proofs`: `TypeCorrect`, `BufferCorrect` (the buffer mirrors the
  part of the file around the cursor: nothing lost, repeated or reordered by a
  refill), `EofCorrect`, `LineCorrect`, `UndoCorrect` (a push-back after a get
  restores cursor, line and column) and `ImplementsStream` (the source implements
  `CharStream`).
* `MemorySource_proofs`: `TypeCorrect`, `NothingLost`, `ImplementsStream`.
* `Lexer_proofs`, for every file, whatever its end: `TypeCorrect`, `PlaceCorrect` (line
  and column are those of the text, for the cursor and for the tokens) and
  `OperatorsCorrect` (an operator is the longest that stands there). For every file that
  ends with a newline and holds no `'\0'` (`TextFile`): `WordsCorrect` (words are flex.l's
  words, and the keywords among them are keywords), `SpellingCorrect` (a token is
  spelled as the file spells it), `OrderCorrect` (nothing is lost between two tokens or
  read twice), `EndNears` (a step takes a character or comes nearer to the end of
  a token, but in a string open at the end of the file) and `OpenByCut` (which is so
  only after a cut at a newline). Of the lexer that runs beside another machine:
  `StringsCorrect` (`StringsExact`, for text files: beside flex.l's scanner of strings) and
  `ChunksInvisible` (`ChunksAreInvisible`, for text files: the lexer over chunks of any
  size implements the lexer that has the whole file in its buffer).
* `Number_proofs`, for every text, size of `int` and long, and limits of digits that
  fit them: `TypeCorrect`, `ValueCorrect` (what is accepted without a report has the
  value that was written), `SuffixesCorrect` (the suffixes of the grammar are
  taken, but for the `u` of `1lu`, and say the type), `FloatCorrect`.

Assumptions: those of the modules (`Chunk` is at least 1, the newline is not the
end mark, ...). The argument: type correctness first; then an inductive
invariant that ties the buffer to the file. The property `BufferMirrorsFile` alone
is not inductive, since whether a refill keeps the right bytes depends on
`pointer <= end <= filled` and on how much of the file `filled` accounts for;
`InputBuffer_proofs` therefore states, per operator and not per action, what
`Fill`, `FillBuffer` and `next` preserve (`FillSound`, `RefillSound`, `GetSound`,
...), and the proofs of the steps cite these lemmas. Refinement maps the cursor of
`CharStream` to the number of characters consumed.

* `Env_proofs`, for every table size, every hash, every set of names and every
  sequence of declarations, uses, blocks and functions (within `MaxDepth`,
  `MaxDeclared` and `MaxStray`, which are any numbers): `TypeCorrect`, `TablesCorrect`
  (the counts agree and no slot between a name's home and its own is empty),
  `CollisionsOnly` (only another name in its home slot hides a declared one),
  `GlobalCorrect`, `NoFalseAlarm`, `UsesCorrect`, and `ImplementsScopeStack`: as long as
  no two names of a table share a home, the environments implement `ScopeStack`.

The properties of `Env` are not inductive. A count stays that of the filled slots only
if the slot that is taken was free, which is what the probe finds only if nothing
before it was left empty (`Unbroken`) and each name lies at or after its home
(`AtHome`); the counts are not claimed after the table's growth went wrong. That
leaving a block or a function never touches the global environment needs to know
which environment stands where (`Placed`: a block is never among the first two), and that
it keeps level 0 needs that no stray brace was read (`GlobalAlone`). `IInv` is their
conjunction with the type invariant. The probe's end is the least of the free slots and
the innermost scope the greatest of those that hold a name, so the lemmas
`LeastExists` and `GreatestExists` (by well-founded choice, not by induction) stand at
the beginning. For the refinement, `Declared` maps the tables to the sets of names of
`ScopeStack`, and `Declare`, `Use`, `Enter` and `LeaveSimulates` map the steps.

For the lexer the difficulty is the end of a file: there nothing is got, the push-back
gives back the character before, and the source, which remembers one column, would
lose its place if that were a newline. `IInv` has therefore that inside a word, a number
or an operator (`Collecting`) the last character got is none, and that a number which
got nothing yet stands before a digit (`InToken`); that `tmpBuffer` is free of newlines is
what ties a token's line to where it begins. `AlphabetAssumption` says that neither a
newline nor the end mark is in a word or an operator.

What a token is made of needs more (`TInv`). `Collected`: `tmpBuffer` is the file from
`start` to the cursor. `Scanning`: what each loop has learnt of it (inside `letter()` it
begins a keyword or is `do`; in `identifier()` no keyword goes on from it; an operator's
scanner holds one character or two of a longer operator). `TokenRight`: the last token
was right when it was returned, which the file alone decides. `Between`: from the last token to
where the lexer stands there are blanks, line breaks and directives. The proof of
a step has one lemma for each way a step can end (a token is returned, a loop goes on,
the switch is left). The hypotheses are used where they bite. `TextFile`: at the end of a
file without a newline a `'\0'` is pushed back that was never got, and the last character
of a token is read twice, so that the theorems do not hold there. `PrefixAssumption`:
`letter()` gives up a keyword that begins another one, but for `do`, which has a case of
its own. `QuoteAssumption` and `EndAssumption`: the quote, the backslash, the newline, the end
mark and the blanks are different characters.

`EndNears` is a measure: with the cursor unchanged, `Rank` falls. No loop lingers at the
end of a text file, for a loop that has taken a character and no newline has the newline
still before it (`Unended`). A string that is cut may take its newline without a look, and
`OpenByCut` says that nothing else can leave one open. Under weak fairness this
is what `EndIsReached` needs; the step from the measure to `<>` is left to TLC.

Strings are compared with a scanner of flex.l's pattern that runs beside the lexer:
`FlexFrom` is its state after each character. Inside a literal (`InLiteral`) it is in
a literal and has collected what `tmpBuffer` holds, or, after a cut, something that ends
with it; between literals (`BehindLiteral`) it waits for a quote. `StringText` and
`CutKeepsTheEnd` leave out the strings on which the two part (section 5). `FlexFrom` is
recursive; that it satisfies its equation is lemma `Recursion`.

Chunks are compared state by state (`InOne`): the source with the whole file in its
buffer that stands at the same character, line, column and last column. A get and a look
ahead find the same character there, whether the buffer has to be refilled or not. On a
text file a push-back always follows a get that got something, which leaves at least that
character behind the pointer, so that it is exact in both; at the end of another file it is
not, and the two part. `WholeChunkAssumption` makes `WholeChunk` larger than every input.

For numbers the invariant is that `result` times the weight of what is still to come is
the sum of the digits read so far (`Valued`), that this fits (`Fits`), and which
suffixes were met where (`Flagged`, `Remembered`, `Marked`). That the grammar's suffixes are
taken needs in addition that an integer scanner goes on after one report only, LE03 (`DocInv`).
Sums and weights are recursive functions, whose equations are lemma `Recursion` again (the library states it for operators, which the
provers cannot instantiate; here it is for sets and functions).
The product does not overflow by `FitAssumption`, which the real values satisfy: 10^16 is below
2^64, 16^8 is 2^32, and 9^9 is below 2^31.

* `Parser_proofs`, for every text, whether or not it is one of the language, and for every
  bound: `StackCorrect` (the function at the top waits for what the running one gives),
  `TokensCorrect` (`OneTokenBack`: at most one token is given back, in a text without
  an `else`), `ScopesCorrect` (`ScopesNest`: there is one environment for each function body
  and block that waits, and the global one).
* `ParserCode_proofs`, for the same texts and bounds: `TypeCorrect` (`TypeOK`:
  whatever list, label or instruction is named anywhere is there) and `ChainCorrect`
  (`ChainLinked`: the instructions are linked both ways, in a text without a `for`).

`OneTokenBack` alone is far from inductive: whether a function may give a token back
depends on what the one it called did, and so on down the stack. `Situated` says of any two
neighbours on the stack that the upper one gives what the lower one waits for, a tree, a
block, a type or a declarator, and that `mode` is one the function at the top expects;
`Framed` says which kinds of frame can be there and with what (a text that has no `else` has
no frame of one). `TokenWaits` then says where a token may be
waiting: where a pointer is about to be read, and where something other than a tree is
returned (`Loose`), and nowhere else. Where the code gives one back no other waits,
because what returns a tree has read on. An `else` is left out because its branch leaves
the token doubled.

`ScopesNest` is a count, and needs besides that the environments are a sequence
(`ScopesRight`). Most actions neither enter nor leave one (`Quiet`): those keep the names in
scope (`StepNames`) and the number of functions and blocks that wait (`StepOpened`, which
needs the shape of every frame that is put down or taken). For the others `Rooted` says how
many environments a record of the parser has more than the one the step began with.

`TypeOK` and `ChainLinked` are proved together, by `Holding`: the instructions are well
typed and well linked (`Well`), and whatever the waiting functions and the value hold is there
(`Held`, `HeldStack`). Well linked is not inductive alone: an insertion keeps the chain only
if what it inserts has no link back yet, and the jump over an else part is made before that
part is read and linked in after it. So `Held` says of a waiting else that its jump has no link
back, `Apart` that no two of them wait for the same jump, and every operation is shown to give
no link back to an instruction that had none, but for the one it inserts (`GoodBut`, `Good`).
The operations on the code add instructions, labels and lists and take none away
(`Adds`, `Extends`), so that what was held stays there (`ExtendsKeeps`); a step cites the
operations it is made of, and where it counts what they add, that a list it names by its number
is one it made. A `for` links the code of its third expression in by hand, with a link back that
names another instruction: texts with one keep the types and are left out of `ChainLinked`.
The walks to the ends of the chain are recursive functions: `WalkExists` and `WalkStays` say that
there is such a walk and that it stays among the instructions.

The operators on the parser's record have lemmas of their own, on what they leave alone
(`Keeps`, `Writes`, `Scans`, `Declares`: same tokens, same code, same names); a step of
an action cites the operators it is made of.

Only model-checked: that the lexer ends (`EndIsReached`; liveness is out of the prover's
reach), and of the parser what is about whole texts and the graphs and trees they stand for
(`Accepted`, `FlowCorrect`, `GroupsAsGrammar`, `TypeAsDeclared`, `CodeBounded`, `NoJumpLost`,
`EndsAreFinal`): each of them compares with a recursive definition on syntax trees, or
holds of well-formed texts only, whose generation is recursive, and so needs an induction over
data, which the prover cannot do. Every other property of a passing run is proved.

## 5. Where the code and what the repository says disagree

Each has a run whose counterexample shows it.

* `LexSwallow`: a one-character `<`, `>`, `/` or `=` swallows the character after
  it (no push-back in the default branches, `lib/lex/lex.cc:1369` ff.).
* `EnvCollision`: a redeclaration is not noticed when another name holds the
  home slot (`includes/table.h:150`).
* `ParserEnds`: the loop over the file waits for `EOT`, which `next()` never
  returns: the compiler never ends (`lib/parser/decl.cc:58`).
* `ParserBraces`: the loop and the statement after it that the comment at
  `lib/parser/stmt.cc:393` translates: the statement is dropped, because the brace
  of the loop's body is given back and closes the function (`stmt.cc:122`).
* `ParserParameters`: of three parameters the middle one is lost: each is linked to the
  first (`lib/parser/decl.cc:294`), where `includes/type.h:97` promises a list.
* `ParserRefusal`: after a function with a function as parameter was refused, a plain
  variable is refused too, with the words of TE05: the check answers with one static
  exception that nobody sets back (`lib/semantic/type.cc:237`).

Others were met while modelling; the models have them, as the exceptions in
their properties or as outcomes of `status`, without a run of their own:

* `do_x` is the keyword `do` and an identifier (`WordsMaximal`).
* No character constant is ever returned: it is written through a null pointer
  (`lex.cc:1568`). A string open at the end of the file is read for ever
  (`lex.cc:1498`) and LE02 never reported.
* `1lu` is reported as having an illegal suffix, though an `l` and then a `u` is in the
  grammar of the comment at `lib/lex/lex.cc:595` and in `flex.l:7` (and `1ul` and `0x1lu` are
  taken): the decimal and the octal scanner note an `l` as a `u` (`lex.cc:361`, 519).
  It is the one exception of `SuffixesExact`.
* `1+1` is one number: signs and dots are part of one wherever they stand.
* A backslash before a quote escapes it even if it is itself escaped, and one before a
  newline does not keep the string open (`StringText` leaves such strings out). In a string
  longer than `tmpBuffer` the character the cut falls on is not looked at: a backslash there
  escapes nothing, and a newline does not end the string, so that LE01 is missing and, if no
  quote follows, the end of the file is never noticed (`CutKeepsTheEnd`, `CutAtNewline`).
* A number at the very end of a file, with no newline after it, is returned again
  and again: the `'\0'` that was never consumed is pushed back.
* `1ll` is accepted, for the same reason `1lu` is not: the comment at `lex.cc:595` has
  one `l`, `flex.l` two. An octal number may have the
  digit 8, and `037777777777`, the maximum that the comment at `lex.cc:533`
  names, is too big for the scanner; so is `0xffffffffu`; `0xffffffff` is
  widened with its sign (`AcceptedIsExact`).
* The table grows by inserting the null entries of its new array
  (`table.h:113`), and the report TE01 is printed with its arguments in the wrong
  order (`lib/env/environment.cc:55`).
* A stray `{` at the top level replaces the global environment
  (`lib/parser/decl.cc:63`).
* A variable of an outer scope hides a function of an inner one
  (`lib/inter/tree.cc:66`); `ScopeStack` states it as it is.
* An `if` without braces loses the token after its body; one with braces works
  because the brace is given back. An `else` leaves a token doubled (which is why
  `OneTokenBack` leaves such texts out).
* An `if` in an `if`, or a `for` in one, has its jumps patched a second time by the
  outer one (`stmt.cc:193`, `stmt.cc:354`): control leaves for the wrong end.
* The breaks and continues of a `for` are never patched (`stmt.cc:342`); the label
  a `break` writes is placed a second time by an `if` around it; the breaks of a
  block's second statement go into the wrong list (`stmt.cc:108`).
* `a && b || c` groups to the right, and with an `&&` on the right of another
  operator the code follows a pointer that was never set (`expr.cc:161`,
  `tree.cc:530`).
* The brace of a block after an empty statement, `;{`, is tried as an expression first, which
  writes an instruction and gives it back (`stmt.cc:229`); only the next statement is the block.
* A `)` where a statement begins is never taken: instructions are written without
  end (`stmt.cc:96`).
* A declaration with a base type never succeeds, since the token is given back
  before it is looked at (`decl.cc:127-152`); what works is `const` and a name.
* TE05 is never checked of the first parameter, and `checkArray`, which has TE06, is
  never called: an array of functions is declared (`lib/semantic/type.cc:222`).
* Of several dimensions the last one written is the outermost.
* `!=` makes the node of a division and the binary `&` that of a sum (`NodeOf`).
* `+=` and its kind are taken for the end of the expression and never taken: empty
  instructions without end. `?` descends for ever. `++`, `--`, `!`, `~` and `sizeof` make no
  tree, and the operator that comes next follows null.
* A binary operator whose left side is constant in type follows the type beyond its end.
* The tree of a call is that of the function. `()` and `(void)` count as one parameter, so
  `f()` reads an argument that is not there and follows null (`lib/parser/expr.cc`).
* An assignment to an array throws a pointer (`lib/inter/tree.cc:127`); the handler takes
  a `const Exception&` (`lib/parser/expr.cc:35`): the program ends.
* Three reports look up their text beyond the table or print arguments of the
  wrong types (`lib/parser/parserWE.cc:92`).

## 6. Not modelled, and why

* Overruns of `tmpBuffer` by words, numbers and `resynch`: undefined from the first
  byte; the model's buffer is unbounded there.
* The characters of a character constant after its first quote beyond what decides
  how it ends; the `\x` escape, whose loop never reads (unreachable as a token).
* The wording of messages, output formatting, options, build files.
* The recovery from an exception in an expression: the handler is never reached.
* Base types after the first token of a declaration, and with them what the check counts
  of `signed` and `unsigned`: the parser never reads them. Sizes of types, and initialisers
  beyond what the parser takes of them.
* Who calls nothing: `lookAHead`, `setPC`, `setSym`, `setAsPara`, `setBaseType`,
  `setReturnType`, `checkArray`, `Symbol::setValue`, `appendIRBlock`, `patch`, `nextLabel`
  are defined and called by nobody.
* The limit of 1000 labels (an assert), and fixed buffers of 20 and 40 characters for
  the text of an instruction.
* The ownership of token texts: an assignment of tokens copies a pointer
  (`includes/lex/token.h:122`), so the text of every name is freed before the parser looks
  at it. That is undefined from the first token on, and a model of it could say nothing
  of anything else; the modules take the text to be still there.
* The words of an instruction, and that its operands are printed through a pointer
  nobody set (`treeString`), which is taken to lead to some text.

## 7. What is left

All parts that keep state are modelled, but for who owns the text of a token (section 6). Of
the parser, the properties of well-formed texts are checked and not proved; they would need an
induction over syntax trees.
