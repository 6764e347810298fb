# dasm in TLA+

Models, model checks and proofs for the macro assembler dasm (`src/src/*.c`).  dasm
reads its source again and again until nothing changes any more.  What makes it hard to
get right is not any one statement but the way statements of one pass depend on those
of the pass before: flags that say who was referenced too early, counters that ask for
another pass, errors that count only if the pass was the last.  The models are about
that.

Names in the models are those of the code (`Redo`, `Redo_why`, `Csegment`, `Fisclear`,
`v_equ`, ...).  Paths below are relative to the repository root.

## 1. The system

| component | source | state | operations |
|---|---|---|---|
| pass loop | `main.c` `MainShadow` 551-758, `main` 1705-1730 | `pass`, `Redo`, `Redo_why`, `Redo_eval`, the old values of the three, `Redo_if` | one pass, the decision after it, the ways out |
| errors | `main.c` `asmerr` 1553-1662, `errors.c` | `bStopAtEnd`, `ERRORBUF` (cleared per pass), what is on stderr | report, abort, print at the end |
| symbol table | `symbols.c`, `main.c` `clearrefs` | `SHash`: value, `SYM_UNKNOWN`, `SYM_REF`, string | find, create, label, clear marks |
| expressions | `exp.c` | argument and operator stacks, `symbolRecursionCount` | `eval`, `evaltop`, `doop`, `pushsymbol` |
| mnemonics | `ops.c` `v_mnemonic` | none of its own | choose the addressing mode, generate |
| pseudo-ops | `ops.c` `v_dc` ... `v_set` | segments, symbols | one handler each |
| segments | `ops.c` `v_seg`, `v_org`, `v_rorg`, `main.c` `clearsegs` | `Seglist`, `Csegment`: `org`, `rorg` and their unknown flags, `SF_RORG`, `SF_BSS` | select, set origin, clear |
| conditionals, loops | `ops.c` `v_if` ... `v_repend` | `Ifstack`, `Reploop`; each entry holds the address of its frame | push, flip, pop, jump back |
| output | `ops.c` `generate`, `closegenerate`, `genfill` | static `org`, `Seglen`, `Seekback`; `OrgFill`, `Fisclear`, the file | write a run, start a hunk, patch its length, fill |
| files and macros | `main.c` `pushinclude`, `v_macro`, `ops.c` `v_execmac`, `v_mexit`, `v_endm`, `v_end` | `pIncfile` stack, macros, levels, scopes of local labels | push, pop, record, replay |
| line scanner | `main.c` `cleanup`, `parse`, `findext` | the buffer, `mlflag`, argument lists, `Av` | remove comments, protect strings, put in arguments, split |
| processor tables | `mne*.c`, `mnef8.c`, `ops.c` `v_processor`, `addhashtable` | `MHash` | select |
| strings | `ops.c` `v_set`, `v_eqm`, `v_setstr` | strings owned by symbols | set, share, free |
| converters | `ftobin.c`, `ftohex.c` | address and length of the hunk, how far the output is filled | read a header, copy, fill a gap, write a record |

**How they interact.**  `MainShadow` calls one handler per line through the mnemonic
table.  A handler calls `programlabel` for its label field, `eval` for its operand and
`generate` for its bytes.  All of them share the global variables above: `eval` raises
`Redo_eval`, handlers and `programlabel` raise `Redo` and set a bit of `Redo_why`,
`generate` looks at `Redo` before it writes, and `MainShadow` looks at all three after
the last line.  Lines come from the frame on top of `pIncfile`, through `cleanup` and
`parse`; `v_include` and `v_execmac` push a frame, and the end of a file removes from
`Ifstack` and `Reploop` what belongs to it.  `asmerr` is called from everywhere, and either returns, after marking the
pass as failed, or calls `exit`.

**What is hard.**  There is no concurrency.  The hard behaviours are order and
staleness: a value read in one statement is changed by a later one and nobody notices;
`Redo` is raised after the bytes were written; a flag or a segment survives from one pass
into the next; messages are buffered for a pass that turns out not to be the last; the
process ends inside `asmerr` and skips what `main` would do; the loop runs forever, or
stops too early because two passes look alike; stacks are left unbalanced by source
lines in an odd order.  Each is listed with its line in `PROJECT.json`, "hazards".

**What makes each component correct.**

* pass loop: it ends; the verdict and the messages are those of the last pass, and a fatal
  one is printed whichever way dasm ends, except by `panic()`; no pass is used for output
  that asked for another one.
* symbol table: when the loop stops, every operand whose symbol was known when it was looked
  up was computed from the final value of that symbol.
* mnemonics and data: no byte comes from an unknown operand; the length chosen for an
  instruction is the one its operand needs in the end.
* segments and output: addresses in the output never go back; labels agree with where
  the bytes are.
* conditionals: unbalanced lines never take the bottom entry; every loop ends.
* expressions: an accepted text has the value of the documented table; a known value does
  not depend on what is still unknown; a well-formed text is accepted; a nested evaluation
  leaves the stacks of the outer one alone, and a failed one leaves nothing behind.
* files and macros: no frame leaves anything in the stacks of the next; levels count
  what is open; a local label belongs to one call; an accepted source has generated what
  its expansion says, and every source ends (the argument scanner aside, section 6).
* line scanner: comments go and strings stay, wherever they begin and end; a macro line is
  the line as written with its arguments; nothing of a line is lost on its way to the
  fields.
* hunks and converters: loading the file, or what a converter has made of it, gives the
  bytes that were generated.

## 2. Modules

### `PassDriver`: the pass loop with arbitrary statements

The state is that of `MainShadow` and `asmerr`; `phase` is where control is.  Whatever a
line of source can do to the loop is one action, `ReadLine`: it may raise `Redo` (and then
set bits of `Redo_why`), raise `Redo_eval`, set bit 0 of `Redo_if`, report errors, and open
or close a comment or macro.  `ReadLineAborts` is a line whose `asmerr` has `bAbort`,
`ReadLinePanics` one that `cleanup`, `parse` or `genfill` gives up with `panic()`: the process
exits and nothing of `ERRORBUF` is printed.  The
other actions are the steps of `MainShadow` in their order: `OpenPass` (or `OpenFails`,
`SourceMissing`), `EndOfSource`, then exactly one of `CommentOpen`, `GiveUp`, `NextPass`,
`OutOfPasses` and `LastPass`, and `MainEnds` for what `main` does with the result.

`MCPassDriver` gives it two counts, one reason and three errors.

### `Assembler`: one assembly

The same loop (it instantiates `PassDriver` as `Driver` and uses its actions), with the
handlers in place of `ReadLine`.  A handler is a function on the *machine record*: it is
composed, in the order of the calls in the C code, of `Label` (`programlabel`), `Eval`
and `Value` (`eval`), `Generate` and `Genfill`, `Bump` (`++Redo; Redo_why |= ...`),
`Asmerr` and `Abort`, and `PushIf` (`pushif`).  The action for a line computes the record
the handler returns and makes it the next state (`Become`), unless `asmerr` has ended
the process inside it (`Stop`).  A `panic()` of these handlers needs a line that is too long or
a DS of too many bytes; lines are already split here and numbers have no limit, so only
`PassDriver` has it.

What is abstracted:

* a line is already split into label, operation and operand (the scanner is another
  component);
* a mnemonic is one of a few shapes: `lda` has a zero page and an absolute form, `jmp` the
  absolute one only, `nop` none, `bne` is relative, `br` is a branch of the F8, which has a handler
  of its own (`generate_branch` in `mnef8.c`), `illegal` has no form for its operand,
  `unknown` is not in the table;
* an expression is a symbol, `.` or nothing, plus a number, or the conditional
  `[[a < n] ? [a - n]] + n` that the documentation uses;
  (the evaluator itself is `Expressions`; `Eval` here is what it does to the symbols);
* bytes are runs: address, length, operand, whether the operand and the origin were known.

`used` is the one history variable: the symbol values that operands were computed from
in the current pass.

### `Layout`: what the output should be

A definition of the assembled program that knows nothing of passes.  A *place* is where a
line begins: the origin, the address that lines between RORG and REND pretend to have, and the
bytes before it.  Given the values of all symbols, `Behind` gives the place behind a line, and
`Places` folds the source.  `SuccessIsLayout` says that whenever dasm succeeds, its output
is the image behind the last line, and every known label and EQU has the value its line gives it
there, all under dasm's own final symbol table.

It speaks of *straight* sources, that is, of those without conditionals, loops, segments and
reassignments, whose origins are `Settled`.  The second condition is not there for
convenience; each part of it excludes something dasm really does:

* an ORG, RORG or ALIGN whose operand is unknown asks for no other pass.  In
  `b equ c; org 5; nop; org b+100; nop; c equ 7` the second ORG is evaluated with `b` = 0, and the
  assembly ends with success (the cause is that of `unknown_branch` in section 6);
* an EQU of a symbol that is defined further down may stay unknown in the pass that is accepted, so
  nothing is said of the values of symbols that are unknown at the end;
* ALIGN has to be to a positive number, and RORG and ALIGN do not take their own address.

### `Expressions`: the evaluator of `exp.c`

`eval` is a machine with two stacks, and the model is that machine: `Argstack` with `Argi`,
`Oppri` and `Opdis` with `Opi`, `Lastwasop`, and for each call in progress the base of
its part of the stacks (`bases`) and what it has read (`frames`).  The calls inside
`eval` (the loops around `evaltop`) are single steps here; `todo` says which of them is
running, and nothing is read before it is over.

| in the model | in the code |
|---|---|
| `PushConstant`, `PushSymbol`, `IllegalCharacter` | `pushhex` ... `pushstr`, `pushsymbol` |
| `EnterMacro`, `LeaveMacro` | the recursive `eval` of an EQM symbol in `pushsymbol` |
| `UnaryOp`, `BinaryOp`, `NewOp` | `doop` before, during and after its loop |
| `EvalTop` | `evaltop` with the operator and the `stackarg` it calls |
| `OpenBracket`, `CloseBracket`, `Closed` | `[` and `]`; `(` and `)` outside a mnemonic's operand |
| `ModeMark`, `IndirectX`, `Comma`, `Indexed` | the addressing modes |
| `NextElement`, `EndOfText`, `Return` | lists, the end of `eval` |

The text is not given beforehand: `Eval` picks a vocabulary and a length from `Texts`,
every step reads any token of it, and `read` counts them; so one run covers all texts up
to that length, malformed ones included, and `Eval` may be called again after a text that failed.  `frames[i].toks` is the history
the properties need: what the element of the list was.  Three things of the code are
kept on purpose:

* `Opdis` of a bracket's slot is whatever was there.  A function of one argument that is
  called with two gets a value for its flags that is any (`EvalTop`);
* `Argi` may fall below 0 with a misplaced `,` (`Slots`).  The memory there starts as
  zeros in the model, and no property speaks of what is read from it;
* the value an unknown symbol is left with (`Stale`).

Numbers are integers; the bitwise operators work on `Width` = 16 bits, wider than any
value of the runs.

### `ExpressionMeaning`: what an expression should be worth

`Meaning` takes a text and the final values of its unresolved symbols and knows of no
stack: a binary expression is split at the operator that the table of `docs/dasm.txt`
applies last, unary operators bind tighter, brackets group.  The properties compare it with
what `Expressions` returned.

### `Frames`: files, macros, conditionals, loops and local labels over several passes

The state is `pIncfile`, `Ifstack`, `Reploop`, the macros of `MHash`, the levels and the
four indices of local labels.  One action stands for each mnemonic (`Include`, `Mac`, `Call`,
`Mexit`, `StrayEndm`, `End`, `If`, `Else`, `Endif`, `Repeat`, `Repend`, `Subroutine`, `Label`), one
for a line that generates something (`Emit`) and one for a line that is skipped; `EndOfFile`
and `EndOfMacro` are what `MainShadow` does when a frame has no more lines, `NextPass`, `GiveUp`
and `LastPass` what it does between passes.  `Mac` is all of `v_macro`: it reads on in the *file*
up to ENDM.

An entry of `Ifstack` or `Reploop` knows its frame by its address only, and `MainShadow` frees a
frame with entries still pointing to it.  So frames have addresses (`Addresses`), and a new
one may get any that is free, those still referred to included (`Allocated`).  A loop of a macro keeps a pointer
into its lines, a loop of a file a position; `Sought` is what `v_repend` does with either in a
frame of either kind, a crash included.

What is abstracted: a line is a mnemonic and its operand; a condition is a number and whether
it is known in the first pass; labels are only the scopes they open or belong to (`uses`).

### `FrameMeaning`: the expansion of a source

`Expand` gives what a source should generate: a recursion over the text, with macro calls and
includes put in and loops unrolled, which has no stack and knows of no frames.  It speaks of
sources whose texts are nested (`WellFormed`).

### `FrameDiscipline`: which texts mind their own business

`Seen` reads a text once and says after every line which IFs and REPEATs are open and whether the
line is in a definition; it knows of no frames and of no values.  `Disciplined` demands of a macro that
it is nested, is left only where nothing is open, and neither defines a macro nor ends the file
(`v_mexit` and the end of a macro do not clean up), and of a file that, if it has an ELSE at all, each
ELSE, ENDIF and REPEND meets what it is meant for.  A file without ELSE may contain anything, and
every file may leave anything open: its end unwinds what its frame has pushed.  `EntriesBelong` is
stated here, without a RECURSIVE operator, so that it can be proved.

### `Lines`: from a line of text to the fields

A line is a sequence of tokens; a token is a character, or several of them that stay
together (a comment mark, `{n}`, a word).  `ReadLine` reads *any* line of its family and applies
the first loop of `cleanup` (`Comments`, which moves comments to the end of the line); `Scan` is one
iteration of the second loop (strings, apostrophes, arguments); `Parse` fills `Av`; `Handle` leaves the
argument list of a macro call, after which `ReadMacroLine` reads a line of the macro, which was
cleaned before, when it was recorded (`Recorded`).

### `LineMeaning`: what a line means

`Documented` reads a line once from left to right: comments, strings, arguments.  It also
says in which way a line is beyond what dasm means to handle, and the properties exempt
these ways one by one.

### `Hunks` and `Converters`: the output file and its two readers

`Hunks` has `generate` and `closegenerate` with every byte they write, in the three formats, and
their static variables, which survive from pass to pass.  Any statements may come in any
order (`Generate`, `v_org`, `AskForPass`); where the origins come from is the concern of
`Assembler`.  `Converters` adds `ftobin` and `ftohex` reading the file that is left, with the reads
beyond its end they may do.

### `MCPassDriver`, `MCAssembler`, `MCLayout`, `MCExpressions`, `MCFrames`, `MCLines`, `MCHunks`

The instances.  `MCAssembler` builds sources as all sequences up to a length over a
vocabulary of statements, behind a prologue that puts the origin where the interesting
case is, and contains the single sources that the documentation and the findings are
about.  `MCFrames` combines short texts for a main file, an included file and two macros.
`MCLines` has all short lines over several sets of tokens.

### `PassDriverProofs`, `HandlerProofs`, `AssemblerProofs`, `LayoutProofs`, `ExpressionProofs`, `FrameProofs`, `FrameEntryProofs`, `ConverterProofs`

See section 5.

## 3. Runs

| run | what it shows |
|---|---|
| `driver` | the loop ends, verdict and messages belong to the last pass, and no fatal error stays unprinted unless dasm panics, whatever the statements do |
| `assembly` | all sources of three statements at the end of page 0; conditionals and loops around forward references; segments, origins and every way to be cut short: no stale operand, no unknown byte, output in order, no error is dropped but the REPEAT warning and the far branch of the F8, everything ends, and `Assembler` implements `PassDriver` |
| `layout` | all straight sources of four statements across page 0 with a branch or a load resolve under `-P`, and to their layout; so do sources of three statements with origins, alignments and fills that depend on labels, with and without an ORG in front, whenever they succeed; the example of `docs/dasm.txt:611` takes exactly the twelve passes it promises |
| `frames` | files, macros, conditionals and loops in every order three lines of a file can bring them, around texts that are nested and texts that leave everything open: stacks, levels, scopes, the expansion, and an end |
| `lines` | all lines of up to six tokens about comments, strings, fields, labels with arguments; macro lines behind calls |
| `hunks` | any six statements over two passes in three formats, and both converters on every file that results |
| `expressions` | (a) all texts of six tokens over a number, an unresolved symbol, `-` (unary and binary), `*` (operator and program counter), `\|\|` and brackets; (b) chains of operators of nine of the eleven priorities; (c) all operands of a mnemonic of five tokens: each is refused or has the documented value and mode |
| `evaluations` | EQM symbols, lists, faulty texts and unary operators behind a quotient on stacks of two, one text after another: no overflow, no damage to the caller's part, the second text fares as if it were the first, and what is refused is malformed or one of the texts of section 6 |
| `unknown_branch`, `mexit`, `stale_header`, `block_comment` | end in a violation, see section 6 |

**Bounds, and why they are enough.**

* `MaxPasses` is 3 or 4, where the default of dasm is 10: a forward reference takes two
  passes, a shrinking operand three; 4 also reaches `OutOfPasses` and `GiveUp`.  `layout`
  has 13, one more than the documented example needs.
* Two symbols are enough for a chain of definitions and a cycle, two segments for an
  interleaving of origins.  The prologue `org 252` or `org 251` puts every source across
  the boundary between page 0 and page 1, so three or four statements are enough to make
  an operand shrink and move a label that another operand used.
* Counters: `driver` has `Redo` and `Redo_eval` in `0..1`, because the loop only compares
  them with 0 and with the old values.  In `Assembler` they are not bounded.
* Fills are cut into two calls of `generate`: the first 1024 bytes and the rest.  Only the
  first call can meet an unknown origin or ask for another pass.
* Numbers are mathematical integers.  Origins and operands stay far below 2^31; negative
  operands do occur, negative origins do not.
* Texts of five or six tokens are enough for a unary operator before a bracket, two
  binary operators of any two priorities on either side of one, and an unmatched bracket.
  `expressions` has stacks that such texts cannot fill (`Texts` is a union of three
  vocabularies, since all tokens at once would be too many); `evaluations` has stacks of two
  entries and a `MaxRecursion` of 2, so that four tokens meet all three limits (32
  operators, 64 arguments and 1000 in the code); its texts of six tokens,
  `2/2+-2` among them, have a unary operator behind two binary ones.
* `frames`: `MAXMACLEVEL` is 2 (32 in the code) and `MaxOpenFiles` 3, so that both limits are met by
  sources that call themselves; two passes are enough for everything that survives one.
  Six addresses are more than frames can be open, so malloc always has a fresh one, and it may
  always return one that a freed frame has left in a stack.
* `hunks`: a byte has 8 values and a word therefore 64, so that hunks cross the end of memory
  and length fields need both bytes; `MaxStatements` is 6 of all passes together, enough for three
  hunks that go back and forth; `PERLINE` is 2 (16 in the code), and statements generate 0 or 3 bytes, so a
  record is full or not.  Data are numbered, so that a byte tells where it comes from.
* `lines`: `MAXLINE` is 12 tokens (1024 characters), so that an argument can overflow the buffer;
  six tokens hold two comments and a string, five behind a label two arguments.

**Fairness.**  dasm is a single process that never waits: `FairSpec` is weak fairness of
`Next`.  In `PassDriver`, where `ReadLine` stands for any line, the fairness of
`EndOfSource` says that the source is finite, and the remaining parts that the loop takes
its next step.  `Terminates` in `Assembler` does not rest on such an assumption about
the source: it follows from what `v_repeat` and `v_repend` do.
The same holds for `Terminates` in `Frames`: a file that includes itself ends at the limit of open
files, a macro that calls itself at `MAXMACLEVEL`, and a loop counts down whatever frame it has come to.
`Expressions`, `Lines` and `Hunks` state no liveness: each of their steps reads, pops or ends.

## 4. Properties

* `VerdictFollowsLastPass`, `OnlyLastPassShown`, `FatalNeverSilent`, `Termination`
  (`PassDriver`).
* `FinalPassConsistent`: when a pass is accepted, every operand of it whose symbol was known
  when it was looked up was computed from the value the symbol has at the end.  It says nothing of
  operands that were unknown: DC, DS and the mnemonics ask for another pass then, but ORG, RORG,
  EQU, SET, IFCONST and REPEAT take an unknown operand as it is and go on, and a pass that did so
  can be the last one (`unknown_branch` has such a source).  `programlabel` notices a moved label only if the
  label was known before (phase error) or was referenced (`SYM_REF`), `v_equ` only if the
  symbol was known, and nothing notices a `SET`; `Stable` names the symbols for which that is
  enough.  A symbol defined both as a label and with EQU is not one of them: `v_equ`
  overwrites the flags and forgets the reference.
* `UnknownNeverWritten`: `Redo` is raised before `generate` looks at it.
* `OutputInOrder`: without hunks, addresses never go back, so a file offset is an address.
* `OnlyTwoDropped`: of the non-fatal errors, which a successful pass throws away, all force
  another pass but the warning of REPEAT and, in sources for the F8, a branch that is out of
  range.  The second is no intention (section 6).
* `ImplementsDriver`: every step of `Assembler` is a step of `PassDriver`.  In particular a
  handler never sets a bit of `Redo_why` without raising `Redo`.
* `SuccessIsLayout`, `Terminates`.
* `Resolves`: with `-P` a pass that asks for as much as the one before is followed by another one, and
  the example of the documentation, whose passes all look alike, gets there.
* `ValueCorrect`: an evaluation that reports nothing returned the documented value, and one
  that says the value is known is right for all final values of the unresolved symbols.
* `UnknownHasCause`: an unknown value names an unresolved symbol and asks for another pass.
* `WellFormedAccepted`: no error for a text of the documented form, unless it is `Mistaken`: a unary
  operator, a binary number or `*` behind a binary operator that can have reduced one which leaves
  `Lastwasop` in the wrong state (`8/2+-3`, section 6).
* `OperandCorrect`: the mode and the value of each documented operand form.
* `StacksRestored`: `Opi` stays within `0 .. MAXOPS`, `Argi` never exceeds `MAXARGS`, and both are 0
  between evaluations, after an error too.  Until an error was raised `Argi` is not negative;
  after one, `eval` reads and writes *in front of* `Argstack`, where a misplaced `,` takes it
  (`exp.c:490`, `668`), and the bound is one slot per token read.
* `CallerKept`: a nested evaluation leaves the slots of its caller alone.
* `BottomKept`: `Ifstack->xtrue` is read for every line without a test, so whatever the source, its
  last entry must stay.
* `LevelsCount`, `ScopesNotShared`: a frame is left by MEXIT, by the end of a macro, by END (which
  leaves several) and by the end of a file, and `v_endm` must have put everything back each time.
  Two macro calls, or a call and the code around it, never use one scope of local labels.
* `EntriesBelong`: every entry of the stacks belongs to a frame that is there, in the order of the
  frames, as long as the texts are `Disciplined`.  ENDIF, ELSE and REPEND see the entry on top and at
  most compare its address, and the address may by now be that of another frame.
* `ExpansionCorrect`: an accepted source has generated its expansion.
* `CommentsRemoved`, `MacroLineAsWritten`, `StringsWhole`, `FieldsKept`, `DynamicLabel` (`LineMeaning`).
* `HunksCorrect`, `FlatCorrect`: loading the file gives the memory that was generated.  All that is said
  of hunks supposes `HunksFit`: what is generated without a change of address is shorter than 64K,
  since `putw` cuts the length of a hunk to 16 bits.  `FtobinCorrect`
  says the same of the flat file; its premise `GapsAtEnd` is the weakest under which `ftobin` is right, since
  it counts a gap from the highest address so far and writes the fill where the last hunk has
  ended.  `FtohexCorrect` also checks the sums.

## 5. Proofs

TLAPS proves, for every value of the constants that satisfies the module's named assumption
(`DriverAssumption`, `AssemblerAssumption`, ...: names are disjoint, an EQU or SET has a
label, `-p` is positive, ...):

**The pass loop** (`PassDriverProofs`): `DriverTypeCorrect`, `VerdictCorrect`, `MessagesCorrect` and
`RetriedMessagesDropped`, from `DriverInvariant`.  `MessagesCorrect` leaves out the end by `panic()`.  The invariant says, by phase, which passes the
messages in `ERRORBUF` can be of and that `bStopAtEnd[pass]` is set exactly if one of them
is fatal; without the second part the verdict, which looks at `bStopAtEnd`, could not be related to
the messages.

**One assembly** (`HandlerProofs`, `AssemblerProofs`): `FixpointReached`, `OutputKnown`,
`NothingElseDropped`, `OutputAlwaysInOrder`, `AssemblerTypeCorrect` and `AssemblerImplementsDriver`, from
`AssemblerInvariant`.  Here the sources, symbols, segments, origins and the number of passes
are arbitrary.

`FinalPassConsistent` speaks of the end only and is not inductive.  The invariant says
what must hold *during* a pass: as long as `Redo` is 0, each operand computed so far still has the
value the symbol table holds, **and** its symbol is marked `SYM_REF` unless it is defined
by EQU.  The mark is what makes a label whose value was taken before it became unknown raise
`Redo`.  Likewise, as long as `Redo` is 0, only fatal errors, the REPEAT warning and the far branch of the F8 are in the
buffer.  In every pass, `Redo` or not, the runs of an output without hunks lie behind one another
and do not reach beyond the static `org` of `generate` (`InOrder`).  `HandlerProofs` states this for a machine record
(`Good`) and proves, for each operator a handler is made of and then for each handler, that it
keeps `Good`; an operator that raises `Redo` has nothing to show but types, the runs and that
counters only grow (`Allowed`, `GoodWhenRedo`).  `AssemblerProofs` carries `Good` over to the
variables (`BecomeGood`, `StopGood`) and treats the steps of the pass loop one by one.

`Allowed` is also what the refinement needs: a line may raise `Redo` and `Redo_eval`, sets a bit of
`Redo_why` only with a `++Redo`, and reports or aborts; so each `Statement` is a `ReadLine` or a
`ReadLineAborts` of `PassDriver`, and the other actions are instances of its own.  (What is
proved of `PassDriver` itself cannot be cited for its instance in `Assembler`, which is why
`AssemblerInv` says again what it needs of the loop.)

**The layout** (`LayoutProofs`): `LayoutCorrect`, from `LayoutInvariant`.  The invariant relates a
pass that is going on to the layout under the symbol table of *this moment*, which changes with
every label: `Follows(n)` says that there is a layout of the first n lines under the present values,
that known labels have the values it gives them, that the machine stands at its last place, and
that every operand of those lines is in `used` with its present value.  It is claimed only as long
as `Redo` is 0.  The argument for a line (`FollowsOn`):

* every handler *advances* (`Advances`, one lemma per handler: `DsAdvances`, `AlignAdvances`, ...): if
  it leaves `Redo` at 0, then for all values of symbols that agree with the operands it has
  read it leads from a place to the place behind the line, and gives its label the value the layout
  gives it;
* it changes no symbol but its label (`SameSymbols`), and no operand of the lines before, because that
  would contradict `AssemblerInvariant`: a value that is in `used` is still in the symbol
  table, or `Redo` is not 0.  So the layout of the lines before is one under the new values too
  (`OldLines`, `BehindSame`);
* an origin that is settled now was settled when its line was read (`LineAimed`, `SettledBefore`).

At the end the layout that was followed is *the* layout of the source (`LaidIsPlaces`, by induction over
the lines), and dasm only succeeds with `Redo` = 0.  TLC checked `LayoutInv` on the instance
of `layout` first.

**The output file** (`ConverterProofs`): `FileTypeCorrect`, `FlatFileCorrect`, `HunkFileCorrect`,
`HexFileCorrect` and `BinFileCorrect`, for any number of statements and passes, any origins and
lengths, any length of a line, and the three formats.  The argument has four layers, each with an invariant
that contains the one before.

`FileInv` gives the first two theorems.  Its parts are the types
of what `generate` keeps (`HunkTypes`) and of what the converters keep (`ToolTypes`, with the reads
beyond the end of the file), that no converter has started before the assembly is over
(`ToolsWait`), and `FlatSoFar`: in the formats without hunks the pieces of the pass ascend,
the last one ends at the static `org`, and the file *now* is the image of the pieces *so far*,
each gap filled with the fill of its time; it is empty as long as `Fisclear` is set.

`HunkInv` adds `RasSoFar` and gives `HunkFileCorrect`: loading the hunks of a file of format 2 gives every
address the byte that was generated for it last.  During a pass the file is not one of hunks: the
last length field is still empty.  So the invariant says that the file *is cut* into hunks of which all
but the last have their lengths (`OpenHunk`), that `Seekback` is the length field of the last one and
`Seglen` its length up to now, that its bytes come from adjacent statements (which is where `HunksFit`
is used: a length below 64K survives `putw`), and that loading the cut gives what loading the statements
one by one gives.  The hunk that grows is an entry of the list that is replaced by a longer one; that this
loads like an additional piece is `Overlay`: the effect of loading one piece is the same whatever
is in the memory before, bytes that wrap around at 64K included (`LoadedAppended`, `SameEffect`).  What
`HunksOf` reads is then that cut (`FileRead`).

`HexInv` adds `HexSoFar` and gives `HexFileCorrect`: the lines of ftohex load as the memory, have from one to
`PERLINE` bytes and add up to 0.  A file of any format is seen as a *source* (`Source`): hunks, and
where their data begin, with the one piece of a flat file as a hunk.  The invariant says that
ftohex is somewhere in hunk k, has j of its bytes behind it, and that its lines load as the hunks
before and those bytes (`HexAt`, `Part`).  Since the position never leaves the hunk, nothing
beyond the end of the file is ever read (`HunkRead`).

`BinInv` adds `BinSoFar` and gives `BinFileCorrect`.  Between two hunks (`InGap`) the output shows the memory
of the hunks so far, from the first address up to the highest end of them (`High`), and the position in it is
where the last hunk ends; in front of a hunk (`InHunk`) it reaches up to the hunk or to that highest end,
whichever is higher (`Opened`).  A gap is filled where the last hunk has ended, and `GapsAtEnd` is what makes
that the end of the output (`GapFilled`); `InOneBank` keeps the 16-bit `org` from
wrapping.  The counter `maxseek` lags behind the output by one hunk, which is why `InGap` has the
conditional that `NextHunk` begins with.

What the file means had to be stated so that it can be reasoned about: in an earlier form of `HunksOf` a
recursive function was applied outside its domain where a length field pointed beyond the end of
the file.  TLC never came there; the prover could conclude nothing.

**The evaluator** (`ExpressionProofs`): `StacksAlwaysRestored` and `CallerAlwaysKept`, from
`StackInvariant`, and `ExpressionTypeCorrect`, from `ExpressionTypes`, under `ExpressionAssumption`: for any capacity of the stacks, any tokens and any
nesting.  `CallerKept` alone is not inductive: the invariant says that the bases of the calls in
progress are ordered, that `Opi` never falls below the innermost `Opibase`, and that `Argi`
does not fall below the innermost `Argibase` unless the evaluation has raised an error
(`NextElement` on an empty list does it).  Each action is then shown to write
only at or above the innermost base, and `LeaveMacro` to give back exactly the part the
nested call had.  `TypeInv` adds what the slots, the calls and the phases hold (`doop` has an operator at
hand; an operator never sees a divisor of 0 that is known; every operator gives a number), and
`ArgsAbove`: after n tokens `Argi` and all bases are at -n or above, because each misplaced `,` takes
one slot and is one token.  That is how far eval() may reach in front of `Argstack`.
Bits are added up by recursive functions over an interval; that they exist and give numbers is
shown once (`StepsExist`, `StepsTyped`).

**Frames** (`FrameProofs`): `BottomAlwaysKept`, `LevelsAlwaysCount`, `ScopesNeverShared` and
`FramesTypeCorrect`, under `FrameAssumption`: for any files, any depth of INCLUDE, macros, IF and
REPEAT, any limits and any number of passes.  No entry of the three stacks is looked at one by one;
each action is shown once to be of one of two kinds (`Left(n)`: the n frames on top are
gone and the others are the same; `Entered`: one frame is new), and to keep the types.
That gives `BottomKept`: the loop that unwinds `Ifstack` at the end of a
file compares addresses of frames, which the last entry does not have, and the
`IFF_BASE` test of ENDIF is the same comparison.  The levels follow by counting (`Shifted`).
`ScopesNotShared` is not inductive.  The invariant `ScopeOK` adds, for each of the two kinds
of scope: the scopes that the macros on the stack will come back to are all older than
the one in force and get older towards the bottom; each of them was used only by the
call below; and a file belongs to the call that includes it.  It is the order of the indices
that makes a scope that ENDM restores different from all that were opened meanwhile.
Assumptions: none besides `FrameAssumption`; in particular the address of a freed frame may be
used again.

**The entries of the frames** (`FrameEntryProofs`): `EntriesAlwaysBelong`, from `EntriesInv`.  That the
entries are in order is far from inductive: what ENDIF pops depends on whether the frame on top
has an entry left, and that on the text the frame has read.  The invariant therefore says what each
entry *is*:

* no two frames have the same address (`Distinct`; `Allocated` never returns one in use);
* Ifstack and Reploop are cut into one part per frame, in the order of the frames, and `BaseIf`
  (`Stacked`); every part has the address of its frame, and the loops of a part its text (`Own`);
* where a frame is in a macro, or in a file that has an ELSE, its part corresponds entry by entry
  to the lines of its text that are open at its position (`Corresponds`): an entry of a REPEAT that is
  executed has a loop, which leads back to the line after that REPEAT, and no other entry has one
  (`Linked`).

The last part is what carries REPEND: it jumps back over lines that are not read again from the
start, so what is open at the line after the REPEAT must be what was open there the first time
(`JumpKept`; `SeenOpen` shows that cutting the open lines of a text at one of them gives those
that were open when it was read).  A macro that is left has nothing open, so its part is empty
(`MacroLeft`); the part of a file is exactly what `Unwound` removes (`UnwoundOwn`).  There is one
lemma per action (`IfStacked`, `ElseStacked`, `RependStacked`, `MacStacked`, ...), and
`DisciplineEarlier`: macros are never changed, so a run that is disciplined now has been so all along.
`FrameAssumption` is the only assumption here too.

The hypothesis is not decoration.  A weaker `Disciplined`, which asked of a file only that each
ELSE stands in an IF of its own text, was refuted while the invariant was looked for.  A macro has
`repeat 2 / include f / repend`, and f is

    if / repeat 2 / endif / else / endif / repend

The first ENDIF takes the entry of the REPEAT, whose loop stays.  REPEND jumps back; now nothing of f is
open, ENDIF is refused, and ELSE flips the entry of the macro's own REPEAT.  The macro's REPEND is
skipped code then: it pops that entry and leaves the loop behind, and the macro ends with a loop that
belongs to no frame.  So ENDIF and REPEND must meet their own kind in a file that has an ELSE;
`Disciplined` asks no more of files than the proof uses.

**Only model-checked**, and why:

* what an expression is worth (`ValueCorrect` and the others that use `Meaning`), what a source expands to
  (`ExpansionCorrect`) and what a line means: recursions over the text.  The modules `FrameMeaning` and
  `Lines` have RECURSIVE operators, with which the prover has no arithmetic (so the types of `Lines` are only
  checked, too); and that a parser with two stacks agrees with `Meaning` would be an induction over all texts.
  `UnknownHasCause` and `WellFormedAccepted` are of this kind too: they hold for well-formed
  texts only, and which these are is the recursion of `Meaning`.  `ValueCorrect` is moreover not true for
  all constants: an operator stack that is too small drops a bracket and a value comes out wrong (section 6);
* `Terminates`, `Termination`, `Resolves`: liveness, which needs fairness.  `Resolves` moreover depends on
  the family of sources; there are sources that never resolve;
* the four runs that end in a violation.

## 6. Where the code and what is said of it differ

Four have a run whose property states the quoted sentence and that ends in a violation.
All were reproduced with the program.

* `mexit`: MEXIT in a conditional leaves the entry of its IF behind.  The ELSE of the caller
  flips that entry and its ENDIF is refused silently, so the caller's own IF stays open and what
  follows is assembled or not by accident.
* `stale_header`: with `-f2`, a last pass that generates nothing writes the length of the last hunk of the
  pass before into the empty file, behind a hole.
* `block_comment`: a comment between `/*` and `*/` on one line that contains a semicolon does not end
  on that line; everything up to the next `*/` is lost.
* `unknown_branch`: a branch at an unknown origin is given displacement 0 with the comment
  that there will be another pass; none follows if everything else is known.

Others were met while modelling.  The modules do what the code does in these places too,
but no run is kept for them:

* A REPEAT whose count is unknown in the first pass has value 0, is skipped for that reason,
  and asks for no other pass (`ops.c:1452`).
* The second pass does not start in the initial segment but in the one the first pass ended in
  (`main.c:732`); if that one is uninitialized, code before the first SEG is lost.
* `generate_branch` of the F8 (`mnef8.c:589`) reports a branch that is out of range, which is
  not a fatal error, without `++Redo`.  The pass is the last one, the error goes with its buffer, and dasm
  says "Complete. (0)"; `v_mnemonic` has `++Redo` there, and the comment at `ops.c:463` relies on it.
* Only `*`, `+` and `-`, and `%` on known operands, set `Lastwasop` *after* their result
  was pushed; `op_div` sets it before (`exp.c:749`), and `stackarg` clears it (`exp.c:641`).  Once `doop` has
  reduced any other operator, or a unary one in front of a bracket, a unary operator, a `%`
  constant or a `*` that follows is taken for a binary operator: `8/2+-3`, `2|2|-2` and `-[2]*-3` are
  syntax errors, `8+2+-3` and `8/-3` are not.
* `panic()` (`main.c:1091`) exits without printing `ERRORBUF`: fatal errors reported earlier in the pass are
  lost if a macro argument makes the line too long ("failure1", `main.c:1062`), a label does
  (`main.c:1232`), or a DS is too large (`ops.c:1770`).
* `[` does not set `Opdis`; if it is never closed, the function an earlier expression left in that
  slot is called: after `1+1`, `[$2$3` is 5 (`exp.c:351`).
* `-R` is documented to remove the output file in case of errors; when `asmerr` aborts it
  calls `exit`, and the `unlink` in `main` (`main.c:1726`) is never reached.
* The warning about a negative REPEAT count (`docs/dasm.txt:518`) is buffered, and a
  successful pass drops its buffer.
* The label of REND is defined before the relocation ends (`ops.c:975`), not after, as
  `docs/dasm.txt:565` has it.
* `op_mod` does not set `Lastwasop` if an operand is unknown: `7%u+-3` fails while `u` is
  unresolved.
* `[` with a full operator stack prints a line and is dropped (`exp.c:348`); its `]` then
  closes another bracket, and the expression is accepted with another value.
* `lda ($5) ,y`, with a blank, is assembled as `lda $5,y` (`exp.c:359`).
* An illegal character leaves `symbolRecursionCount` one higher for good (`exp.c:983`).
* ALIGN of a value that is still unknown is refused as an alignment to 0 before its flags are
  looked at (`ops.c:985`).
* ELSE flips the entry on top even if it belongs to the caller (`ops.c:1416`), where ENDIF and REPEND
  leave it alone.
* MAC inside a macro reads the lines that follow the *call* in the file (`main.c:1460`).
* With `-S`, a macro that is defined again in a branch that is skipped is reported as repeated.
* A comment left open on the line of a macro call covers the whole macro (`main.c:944`).
* An argument is scanned again after it was put in (`main.c:1047`): `{1}` inside an argument is put in
  again, and one that contains itself makes dasm loop or panic with "failure1".
* `/*/` counts as a whole comment; marks and semicolons in strings are comments where the line also has
  a mark; a comma in a string separates macro arguments.
* A label with arguments (`foo,N`) passes all that is left of the line to `eval`: in `foo,N = 5` the argument is
  a comparison, and one in `bar,1 dc.b 2` is an error.  An argument that is unknown drops the label
  without asking for another pass.
* The fill of ORG is not reset between passes (`ops.c:944`), and no gap before the first byte is filled,
  where the example of `docs/dasm.txt:350` has it filled from 0.
* With `-f2`, a hunk of 64K or more gets a length field without its upper bits (`ops.c:1685`), though files may
  be ten times as large (`ops.c:1719`).
* `ftobin` fills the gap after a hunk that went back at the wrong place and overwrites data; its comments name
  another restriction only.  Its 16-bit `org` wraps after a hunk that ends at 64K.

## 7. Not modelled, and what is left

* `StringOwnership`: who owns the string of a symbol across SET, EQM and SETSTR (`ops.c:1108`).  It is memory
  ownership with no choice of order; a sanitizer shows it on one source.
* The arguments of DC, DV, HEX, ALIGN and DS beyond the first, forced addressing modes, INCBIN; of
  expressions `[x+n]`, `val,val` and `[exp]d`.  The components concerned are "partly" modelled.
* The buffers of messages (`main.c:1732`), the store and the tallies of `errors.c`: they grow, print and
  count, and decide nothing.
* The handlers of the F8 other than its branches: they check operands, all of their errors are fatal, and
  call `generate`.
* Processor tables (constants), list file and symbol dump (output only), allocation and
  string helpers, the syntax of the options, the search path of INCDIR.
* Not proved, for the reasons given in section 5: the meaning of expressions, of lines and of
  macro expansions, and liveness.
