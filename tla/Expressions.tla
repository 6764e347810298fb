----------------------------- MODULE Expressions -----------------------------
(***************************************************************************)
(* The expression evaluator, src/exp.c: eval() reads an operand field      *)
(* character by character and works on two stacks shared by all the        *)
(* evaluations in progress, one of arguments and one of operators.  The    *)
(* text is not known beforehand: each step reads any next token.  doop(),  *)
(* ']', ',' and the end of the text reduce the operator stack, one call of *)
(* evaltop() per step, before anything else is read.                       *)
(*                                                                         *)
(* Tokens are spelled as in the source.  Left out: the addressing modes of *)
(* one processor only ([x+n] of 68705, 6811 and 68908, val,val of the      *)
(* 65C02), the text of strings, [exp]d, and the -X debugging output.       *)
(***************************************************************************)
EXTENDS Integers, Sequences

CONSTANTS
  Literals,      \* spelling of a number (not %nnn) or a character |-> its value
  Strings,       \* spelling of a "string" |-> its bytes packed into a number
  Resolved,      \* defined symbols ("." is the program counter) |-> value
  Unresolved,    \* symbols that are absent or SYM_UNKNOWN
  Stale,         \* values an unknown symbol may be left with
  Equated,       \* symbols bound to an expression by EQM (SYM_MACRO)
  Texts,         \* what eval() is called with: wantmode, TRUE for a mnemonic's
                 \* operand, and a text over some tokens up to a length
  MAXOPS, MAXARGS,   \* capacity of the stacks
  MaxRecursion,      \* limit of symbolRecursionCount, 1000 in pushsymbol()
  MaxTokens, MaxEvals   \* bounds of the model: tokens of a text, texts

Tokens == UNION {text.tokens : text \in Texts}

Operands == DOMAIN Literals \cup DOMAIN Strings \cup DOMAIN Resolved \cup Unresolved

\* Binary operators from the loosest to the tightest: Pri is the second
\* argument of doop(), 10 for "?" and 20 for "*".
Levels == << {"?"}, {"||"}, {"&&"}, {"|"}, {"^"}, {"&"}, {"==", "!="},
             {"<", "<=", ">", ">="}, {"<<", ">>"}, {"+", "-"}, {"*", "/", "%"} >>
Binary  == UNION {Levels[i] : i \in DOMAIN Levels}
Pri(op) == 9 + CHOOSE i \in DOMAIN Levels : op \in Levels[i]

\* A character that begins a unary operator where an operand is expected.
UnaryName == [t \in {"-", "~", "!", "<", ">"} |->
  CASE t = "-" -> "op_negate" [] t = "~" -> "op_invert" [] t = "!" -> "op_not"
    [] t = "<" -> "op_takelsb" [] t = ">" -> "op_takemsb"]
Unary    == {UnaryName[t] : t \in DOMAIN UnaryName}
UNARY    == 128
NULL     == "NULL"

Openers == {"[", "("}
Closers == {"]", ")"}
Commas  == {",", ",x", ",y", ",y)", ",sp"}
Spelled == DOMAIN UnaryName \cup Binary \cup Openers \cup Closers \cup Commas
             \cup {"),y", "),x", "#", ":"}

ASSUME ExpressionAssumption ==
  /\ Tokens \subseteq Operands \cup Equated \cup Spelled
  /\ (Operands \cup Equated) \cap (Spelled \cup {"{", "}"}) = {}
  /\ "*" \in Tokens => "." \in DOMAIN Resolved \cup Unresolved
  /\ \A text \in Texts : text.wantmode \in BOOLEAN /\ text.length \in 0 .. MaxTokens
  /\ {MAXOPS, MAXARGS, MaxRecursion, MaxTokens, MaxEvals} \subseteq Nat \ {0}
  /\ Literals \in [DOMAIN Literals -> Int] /\ Strings \in [DOMAIN Strings -> Int]
  /\ Resolved \in [DOMAIN Resolved -> Int] /\ Stale \subseteq Int

VARIABLES
  Argstack, Argi,      \* Argstack, Argflags and Argstring, and the next free slot
  Oppri, Opdis, Opi,   \* priority and function of an operator, and the next free slot
  Lastwasop,           \* an operand is expected next
  bases,               \* Argibase and Opibase of the calls of eval() in progress
  frames,              \* what these calls have read, the innermost last
  todo, tok,           \* what eval() is at, and for which token
  raised,              \* errors of the evaluation
  Redo, Redo_eval,     \* reasons for another pass
  symbolRecursionCount,
  read, evals,         \* tokens of this text and texts so far
  last                 \* the list that the latest evaluation has returned

argVars  == <<Argstack, Argi>>
opVars   == <<Oppri, Opdis, Opi>>
redoVars == <<Redo, Redo_eval>>
vars == <<argVars, opVars, Lastwasop, bases, frames, todo, tok, raised, redoVars,
          symbolRecursionCount, read, evals, last>>

\* A slot of Argstack; slots below 0 are the memory in front of the array, which
\* a misplaced ',' reaches: one slot a token.
NoArg == [value |-> 0, unk |-> FALSE, str |-> FALSE]
Slots == -(MaxTokens + 1) .. MAXARGS - 1

\* A call of eval(): its mode and cur, the list element being read, after those that
\* are complete.  toks is the text of the element.
NewFrame(text, wantmode) ==
  [text |-> text, wantmode |-> wantmode,
   toks |-> <<>>, addrmode |-> "AM_IMP", done |-> <<>>]
Top      == frames[Len(frames)]
NewBase  == [Argibase |-> Argi, Opibase |-> Opi]
Argibase == bases[Len(bases)].Argibase
Opibase  == bases[Len(bases)].Opibase

\* frames after the innermost call read t, and set the mode of the element.
JustReading(t) == [frames EXCEPT ![Len(frames)].toks = Append(@, t)]
ReadingMode(t, addrmode) ==
  [frames EXCEPT ![Len(frames)].toks = Append(@, t), ![Len(frames)].addrmode = addrmode]

-----------------------------------------------------------------------------
(***************************************************************************)
(* The operators.  Each has its own rule for an operand that is unknown.   *)
(***************************************************************************)
\* Bitwise operators on two's complement numbers of Width bits: 64 in the build,
\* here as many as the values of the runs need.
Width     == 16
Power2[n \in 0 .. 63] == IF n = 0 THEN 1 ELSE 2 * Power2[n - 1]
BitsOf(a) == {i \in 0 .. Width - 1 : (a \div Power2[i]) % 2 = 1}
BitValue  == [i \in 0 .. Width - 1 |-> IF i = Width - 1 THEN -Power2[i] ELSE Power2[i]]
Number(S) ==
  LET below[n \in 0 .. Width] ==
        IF n = 0 THEN 0 ELSE below[n - 1] + (IF n - 1 \in S THEN BitValue[n - 1] ELSE 0)
  IN below[Width]

Abs(a)     == IF a < 0 THEN -a ELSE a
Sign(a)    == IF a < 0 THEN -1 ELSE 1
Quot(a, b) == Sign(a) * Sign(b) * (Abs(a) \div Abs(b))      \* C truncates
Rem(a, b)  == a - b * Quot(a, b)
Truth(b)   == IF b THEN 1 ELSE 0
Shift(b)   == IF b < 0 \/ b >= 64 THEN 0 ELSE b

UnaryValue(f, a) ==
  CASE f = "op_negate"  -> -a
    [] f = "op_invert"  -> -a - 1
    [] f = "op_not"     -> Truth(a = 0)
    [] f = "op_takelsb" -> a % 256
    [] f = "op_takemsb" -> (a \div 256) % 256

BinaryValue(f, a, b) ==
  CASE f = "*"  -> a * b
    [] f = "/"  -> Quot(a, b)
    [] f = "%"  -> Rem(a, b)
    [] f = "+"  -> a + b
    [] f = "-"  -> a - b
    [] f = "<<" -> a * Power2[Shift(b)]
    [] f = ">>" -> a \div Power2[Shift(b)]
    [] f = "<"  -> Truth(a < b)
    [] f = "<=" -> Truth(a <= b)
    [] f = ">"  -> Truth(a > b)
    [] f = ">=" -> Truth(a >= b)
    [] f = "==" -> Truth(a = b)
    [] f = "!=" -> Truth(a # b)
    [] f = "&"  -> Number(BitsOf(a) \cap BitsOf(b))
    [] f = "^"  -> Number((BitsOf(a) \cup BitsOf(b)) \ (BitsOf(a) \cap BitsOf(b)))
    [] f = "|"  -> Number(BitsOf(a) \cup BitsOf(b))
    [] f = "&&" -> Truth(a # 0 /\ b # 0)
    [] f = "||" -> Truth(a # 0 \/ b # 0)
    [] f = "?"  -> IF a # 0 THEN b ELSE 0

Divides    == {"/", "%"}
ZeroIfUnknown == Divides \cup {"<<", ">>"}

\* What a binary operator hands to stackarg().
Result(v, u) == [value |-> v, unk |-> u, str |-> FALSE]
ApplyBinary(f, x, y) ==
  LET u == x.unk \/ y.unk IN
  CASE f = "?" -> IF x.unk THEN Result(0, TRUE)
                  ELSE IF x.value # 0 THEN Result(y.value, y.unk) ELSE Result(0, FALSE)
    [] f = "&&" -> IF \E z \in {x, y} : ~z.unk /\ z.value = 0
                   THEN Result(0, FALSE) ELSE Result(1, u)
    [] f = "||" -> IF \E z \in {x, y} : ~z.unk /\ z.value # 0
                   THEN Result(1, FALSE) ELSE Result(0, u)
    [] f \in ZeroIfUnknown /\ u -> Result(0, TRUE)
    [] OTHER -> Result(BinaryValue(f, x.value, y.value), u)

\* Mutant of OperandAfter: no operator sets Lastwasop.
OperandNeverAfter(f, x, y) == FALSE

\* op_mult, op_add and op_sub set Lastwasop again after stackarg() has cleared it, op_mod
\* only when both operands are known; op_div sets it before it calls stackarg().
OperandAfter(f, x, y) == f \in {"*", "+", "-"} \/ (f = "%" /\ ~(x.unk \/ y.unk))

-----------------------------------------------------------------------------
(***************************************************************************)
(* Before a token                                                          *)
(***************************************************************************)
\* Mutant: operators of one priority are applied from right to left.
MustEvalTighter ==
  /\ todo \in {"stackarg", "doop", "]", ",", "end"}
  /\ Opi # Opibase
  /\ LET pri == Oppri[Opi - 1] IN
       /\ todo = "stackarg" => pri = UNARY
       /\ todo = "doop" => pri # 0 /\ Pri(tok) < pri
       /\ todo = "]" => pri # 0

\* The loops around evaltop(): which operators must go before eval() reads on.
MustEval ==
  /\ todo \in {"stackarg", "doop", "]", ",", "end"}
  /\ Opi # Opibase
  /\ LET pri == Oppri[Opi - 1] IN
       /\ todo = "stackarg" => pri = UNARY
       /\ todo = "doop" => pri # 0 /\ Pri(tok) <= pri
       /\ todo = "]" => pri # 0

Scanning == todo \in {"scan", "stackarg"} /\ ~MustEval
Reduced(what) == todo = what /\ ~MustEval

Read(t) ==
  /\ Scanning /\ read < Top.text.length /\ t \in Top.text.tokens
  /\ read' = read + 1

\* asmerr(): the evaluation goes on, unless its second argument is true.
Raise(e) == raised' = raised \cup {e}
Abort(e) ==
  /\ Raise(e) /\ todo' = "exit"
  /\ UNCHANGED <<argVars, opVars, Lastwasop, frames, tok, redoVars,
                 symbolRecursionCount, bases, evals, last>>

\* Mutant: one argument too many.
ArgsOverfull == Argi > MAXARGS
\* The capacity check of stackarg().
ArgsFull == Argi >= MAXARGS

\* stackarg(): the pending unary operators are applied by the steps that follow.
StackArg(arg) ==
  /\ Argstack' = [Argstack EXCEPT ![Argi] = arg]
  /\ Argi' = Argi + 1 /\ Lastwasop' = FALSE /\ todo' = "stackarg"

\* Mutant: what is expected first is left over from the previous text.
EvalAsLeft ==
  /\ todo = "idle" /\ evals < MaxEvals
  /\ \E text \in Texts : frames' = <<NewFrame(text, text.wantmode)>>
  /\ bases' = <<NewBase>>
  /\ todo' = "scan" /\ raised' = {} /\ read' = 0
  /\ evals' = evals + 1 /\ last' = <<>>
  /\ UNCHANGED <<argVars, opVars, Lastwasop, tok, redoVars, symbolRecursionCount>>

\* A caller evaluates a text: ops.c, or the main loop for a dynamic label.
Eval ==
  /\ todo = "idle" /\ evals < MaxEvals
  /\ \E text \in Texts : frames' = <<NewFrame(text, text.wantmode)>>
  /\ bases' = <<NewBase>>
  /\ Lastwasop' = TRUE /\ todo' = "scan" /\ raised' = {} /\ read' = 0
  /\ evals' = evals + 1 /\ last' = <<>>
  /\ UNCHANGED <<argVars, opVars, tok, redoVars, symbolRecursionCount>>

-----------------------------------------------------------------------------
(***************************************************************************)
(* Operands                                                                *)
(***************************************************************************)
\* pushhex, pushoct, pushdec, pushbin, pushchar and pushstr; "%" where an operand
\* is expected is a binary number, of no digits when none follows.
PushConstant(t) ==
  /\ Read(t)
  /\ \/ t \in DOMAIN Literals \cup DOMAIN Strings
     \/ t = "%" /\ Lastwasop
  /\ IF ArgsFull
     THEN Abort("ERROR_EXPRESSION_TABLE_OVERFLOW")
     ELSE /\ StackArg(IF t \in DOMAIN Strings
                      THEN [value |-> Strings[t], unk |-> FALSE, str |-> TRUE]
                      ELSE Result(IF t = "%" THEN 0 ELSE Literals[t], FALSE))
          /\ frames' = JustReading(t)
          /\ UNCHANGED <<opVars, tok, raised, redoVars, symbolRecursionCount,
                         bases, evals, last>>

\* Mutant: the unknown symbol does not ask for another pass.
StackSymbolSilently(name) ==
  /\ IF name \in Unresolved THEN \E v \in Stale : StackArg(Result(v, TRUE))
                            ELSE StackArg(Result(Resolved[name], FALSE))
  /\ UNCHANGED Redo_eval

\* The value of a symbol, whatever it is if the symbol is unknown.
StackSymbol(name) ==
  \/ /\ name \in Unresolved
     /\ \E v \in Stale : StackArg(Result(v, TRUE))
     /\ Redo_eval' = Redo_eval + 1
  \/ /\ name \notin Unresolved
     /\ StackArg(Result(Resolved[name], FALSE)) /\ UNCHANGED Redo_eval

\* pushsymbol() on a name without an EQM expression; "*" where an operand is
\* expected is the symbol ".".
PushSymbol(t) ==
  /\ Read(t)
  /\ LET name == IF t = "*" /\ Lastwasop THEN "." ELSE t IN
     /\ name \in DOMAIN Resolved \cup Unresolved
     /\ IF symbolRecursionCount + 1 > MaxRecursion
        THEN Abort("ERROR_RECURSION_TOO_DEEP")
        ELSE IF ArgsFull
        THEN Abort("ERROR_EXPRESSION_TABLE_OVERFLOW")
        ELSE /\ StackSymbol(name)
             /\ frames' = JustReading(t)
             /\ UNCHANGED <<opVars, tok, raised, Redo, symbolRecursionCount,
                         bases, evals, last>>

\* pushsymbol() on a character that no name begins with.
IllegalCharacter(t) ==
  /\ Read(t) /\ t = ":"
  /\ IF symbolRecursionCount + 1 > MaxRecursion
     THEN Abort("ERROR_RECURSION_TOO_DEEP")
     ELSE /\ symbolRecursionCount' = symbolRecursionCount + 1
          /\ Raise("ERROR_ILLEGAL_CHARACTER")
          /\ frames' = JustReading(t) /\ todo' = "scan"
          /\ UNCHANGED <<argVars, opVars, Lastwasop, tok, redoVars, bases, evals, last>>

\* pushsymbol() on a name bound by EQM: eval() of its text starts on top of the
\* stacks as they are.
EnterMacro(t) ==
  /\ Read(t) /\ t \in Equated
  /\ IF symbolRecursionCount + 1 > MaxRecursion
     THEN Abort("ERROR_RECURSION_TOO_DEEP")
     ELSE /\ symbolRecursionCount' = symbolRecursionCount + 1
          /\ frames' = Append(frames, NewFrame(Top.text, FALSE))
          /\ bases' = Append(bases, NewBase)
          /\ Lastwasop' = TRUE /\ todo' = "scan"
          /\ UNCHANGED <<argVars, opVars, tok, raised, redoVars, evals, last>>

-----------------------------------------------------------------------------
(***************************************************************************)
(* Operators                                                               *)
(***************************************************************************)
PushOp(f, pri) ==
  /\ Opdis' = [Opdis EXCEPT ![Opi] = f]
  /\ Oppri' = [Oppri EXCEPT ![Opi] = pri]
  /\ Opi' = Opi + 1

\* doop() of a unary operator.
UnaryOp(t) ==
  /\ Read(t) /\ t \in DOMAIN UnaryName /\ Lastwasop
  /\ IF Opi >= MAXOPS
     THEN Abort("ERROR_RECURSION_TOO_DEEP")
     ELSE /\ PushOp(UnaryName[t], UNARY)
          /\ frames' = JustReading(t) /\ todo' = "scan"
          /\ UNCHANGED <<argVars, Lastwasop, tok, raised, redoVars,
                         symbolRecursionCount, bases, evals, last>>

\* '~' is never binary.
MisplacedInvert(t) ==
  /\ Read(t) /\ t = "~" /\ ~Lastwasop
  /\ Raise("ERROR_SYNTAX_ERROR")
  /\ frames' = JustReading(t) /\ todo' = "scan"
  /\ UNCHANGED <<argVars, opVars, Lastwasop, tok, redoVars,
                 symbolRecursionCount, bases, evals, last>>

\* A character that may begin an operand is an operator only after one; the others
\* always are.  doop() then reduces, and NewOp is how it ends.
BeginsOperand == DOMAIN UnaryName \cup {"*", "%", "!=", "<<", "<=", ">>", ">="}
BinaryOp(t) ==
  /\ Read(t) /\ t \in Binary
  /\ t \in BeginsOperand => ~Lastwasop
  /\ Lastwasop' = TRUE /\ todo' = "doop" /\ tok' = t
  /\ frames' = JustReading(t)
  /\ UNCHANGED <<argVars, opVars, raised, redoVars, symbolRecursionCount,
                 bases, evals, last>>

NewOp ==
  /\ Reduced("doop")
  /\ todo' = IF Opi = Opibase /\ Opi >= MAXOPS THEN "exit" ELSE "scan"
  /\ IF Opi < MAXOPS
     THEN PushOp(tok, Pri(tok)) /\ UNCHANGED raised
     ELSE /\ UNCHANGED <<Oppri, Opdis>>
          /\ IF Opi = Opibase
             THEN Raise("ERROR_RECURSION_TOO_DEEP") /\ UNCHANGED Opi
             ELSE Opi' = Opibase /\ UNCHANGED raised    \* "too many operators"
  /\ UNCHANGED <<argVars, Lastwasop, frames, tok, redoVars, symbolRecursionCount,
                 read, bases, evals, last>>

\* Mutant: the arguments of the caller count.
EnoughOfAnyone(n) == Argi >= n
EnoughArgs(n) == Argi >= Argibase + n

\* evaltop().  An opening bracket has a priority of 0 and whatever function its slot
\* held before; a function of one argument called with two takes the second for
\* the flags of the first.
EvalTop ==
  /\ MustEval
  /\ Opi' = Opi - 1
  /\ LET f == Opdis[Opi - 1]
         n == IF Oppri[Opi - 1] = UNARY THEN 1 ELSE 2
         x == Argstack[Argi - n]
         y == Argstack[Argi - 1]
         Push(arg, wasop) ==
           /\ Argstack' = [Argstack EXCEPT ![Argi - n] = arg]
           /\ Argi' = Argi - n + 1 /\ Lastwasop' = wasop
           /\ UNCHANGED <<todo, raised>>
         Fail(e, state) ==
           /\ Raise(e) /\ todo' = state /\ UNCHANGED <<Argstack, Lastwasop>>
     IN IF f = NULL
        THEN Fail("ERROR_AVOID_SEGFAULT", "exit") /\ UNCHANGED Argi
        ELSE IF ~EnoughArgs(n)
        THEN Fail("ERROR_SYNTAX_ERROR", todo) /\ Argi' = Argibase
        ELSE IF f \in Unary
        THEN \E u \in IF n = 1 THEN {x.unk} ELSE BOOLEAN :
               Push(Result(UnaryValue(f, x.value), u), FALSE)
        ELSE IF f \in Divides /\ ~x.unk /\ ~y.unk /\ y.value = 0
        THEN Fail("ERROR_DIVISION_BY_0", "exit") /\ UNCHANGED Argi
        ELSE Push(ApplyBinary(f, x, y), OperandAfter(f, x, y))
  /\ UNCHANGED <<Oppri, Opdis, frames, tok, redoVars, symbolRecursionCount,
                 read, bases, evals, last>>

-----------------------------------------------------------------------------
(***************************************************************************)
(* Brackets, addressing modes and lists                                    *)
(***************************************************************************)
\* '[', and '(' except in a mnemonic's operand.
OpenBracket(t) ==
  /\ Read(t) /\ t \in Openers
  /\ t = "(" => ~Top.wantmode
  /\ IF Opi = MAXOPS
     THEN UNCHANGED <<Oppri, Opi>>           \* "too many ops"
     ELSE Oppri' = [Oppri EXCEPT ![Opi] = 0] /\ Opi' = Opi + 1
  /\ frames' = JustReading("[") /\ todo' = "scan"
  /\ UNCHANGED <<argVars, Opdis, Lastwasop, tok, raised, redoVars,
                 symbolRecursionCount, bases, evals, last>>

CloseBracket(t) ==
  /\ Read(t) /\ t \in Closers
  /\ t = ")" => ~Top.wantmode
  /\ todo' = "]" /\ frames' = JustReading("]")
  /\ UNCHANGED <<argVars, opVars, Lastwasop, tok, raised, redoVars,
                 symbolRecursionCount, bases, evals, last>>

\* Mutant: something is popped even from an empty stack.
ClosedAnyway ==
  /\ Reduced("]")
  /\ Opi' = Opi - 1
  /\ Lastwasop' = (Lastwasop /\ Argi = Argibase) /\ todo' = "scan"
  /\ UNCHANGED <<argVars, Oppri, Opdis, frames, tok, raised, redoVars,
                 symbolRecursionCount, read, bases, evals, last>>

Closed ==
  /\ Reduced("]")
  /\ Opi' = IF Opi # Opibase THEN Opi - 1 ELSE Opi
  /\ Lastwasop' = (Lastwasop /\ Argi = Argibase)     \* no argument: only a message
  /\ todo' = "scan"
  /\ UNCHANGED <<argVars, Oppri, Opdis, frames, tok, raised, redoVars,
                 symbolRecursionCount, read, bases, evals, last>>

\* In a mnemonic's operand '(', ')' and '#' say what the mode is.  "),y" and "),x"
\* are read as one only where no blank separates their characters.
ModeMark(t) ==
  /\ Read(t) /\ t \in {"(", ")", "),y", "#"}
  /\ t # "#" => Top.wantmode
  /\ t = "),y" => Top.addrmode = "AM_INDWORD"
  /\ frames' = CASE t = "("   -> ReadingMode(t, "AM_INDWORD")
                 [] t = ")"   -> JustReading(t)
                 [] t = "),y" -> ReadingMode(t, "AM_INDBYTEY")
                 [] t = "#"   -> [ReadingMode(t, "AM_IMM8") EXCEPT
                                    ![Len(frames)].wantmode = FALSE]
  /\ todo' = "scan"
  /\ UNCHANGED <<argVars, opVars, Lastwasop, tok, raised, redoVars,
                 symbolRecursionCount, bases, evals, last>>

\* "(zp),x" is reported; then the ',' is read as usual.
IndirectX(t) ==
  /\ Read(t) /\ t = "),x" /\ Top.wantmode /\ Top.addrmode = "AM_INDWORD"
  /\ Raise("ERROR_ILLEGAL_ADDRESSING_MODE") /\ Redo' = Redo + 1
  /\ frames' = JustReading(")") /\ todo' = "," /\ tok' = ",x"
  /\ UNCHANGED <<argVars, opVars, Lastwasop, Redo_eval,
                 symbolRecursionCount, bases, evals, last>>

Comma(t) ==
  /\ Read(t) /\ t \in Commas
  /\ t = ",y)" => Top.wantmode /\ Top.addrmode = "AM_INDWORD"
  /\ todo' = "," /\ tok' = t
  /\ UNCHANGED <<argVars, opVars, Lastwasop, frames, raised, redoVars,
                 symbolRecursionCount, bases, evals, last>>

\* Mutant: indirect operands are not told apart.
IndexedModeFlat(t, addrmode) ==
  CASE t = ",x" -> "AM_0X"
    [] t \in {",y", ",y)"} -> "AM_0Y"
    [] t = ",sp" -> "AM_BYTEADR_SP"

IndexedMode(t, addrmode) ==
  CASE t = ",x" /\ addrmode = "AM_INDWORD" -> "AM_INDBYTEX"
    [] t = ",x" /\ addrmode # "AM_INDWORD" -> "AM_0X"
    [] t \in {",y", ",y)"} -> "AM_0Y"
    [] t = ",sp" -> "AM_BYTEADR_SP"

\* ',' before an index register: the mode of the operand; the value stays stacked.
Indexed ==
  /\ Reduced(",") /\ tok # ","
  /\ frames' = ReadingMode(tok, IndexedMode(tok, Top.addrmode))
  /\ IF tok = ",y)" THEN Raise("ERROR_ILLEGAL_ADDRESSING_MODE") /\ Redo' = Redo + 1
                    ELSE UNCHANGED <<raised, Redo>>
  /\ Lastwasop' = TRUE /\ todo' = "scan"
  /\ UNCHANGED <<argVars, opVars, tok, Redo_eval, symbolRecursionCount,
                 read, bases, evals, last>>

\* The element that eval() has been reading, with its value.
Element(arg) == [toks |-> Top.toks, addrmode |-> Top.addrmode,
                 value |-> arg.value, unk |-> arg.unk, str |-> arg.str]

\* Mutant: the slot is read before Argi is decremented.
ArgAbove == Argstack[Argi]

\* The argument on top of the stack.
LastArg == Argstack[Argi - 1]

\* ',' between two elements of a list.
NextElement ==
  /\ Reduced(",") /\ tok = ","
  /\ Argi' = Argi - 1
  /\ frames' = [frames EXCEPT
       ![Len(frames)].done = Append(@, Element(LastArg)),
       ![Len(frames)].toks = <<>>, ![Len(frames)].addrmode = "AM_IMP"]
  /\ IF Argi - 1 # Argibase THEN Raise("ERROR_SYNTAX_ERROR") ELSE UNCHANGED raised
  /\ Lastwasop' = TRUE /\ todo' = "scan"
  /\ UNCHANGED <<Argstack, opVars, tok, redoVars, symbolRecursionCount,
                 read, bases, evals, last>>

-----------------------------------------------------------------------------
(***************************************************************************)
(* The end of the text                                                     *)
(***************************************************************************)
EndOfText ==
  /\ Scanning
  /\ todo' = "end"
  /\ UNCHANGED <<argVars, opVars, Lastwasop, frames, tok, raised, redoVars,
                 symbolRecursionCount, read, bases, evals, last>>

\* What eval() returns, and the error when something is left on a stack.
Taken == Argi # Argibase
List ==
  LET l == Append(Top.done, Element(IF Taken THEN LastArg ELSE NoArg))
  IN IF Taken /\ l[1].addrmode = "AM_IMP"
     THEN [l EXCEPT ![1].addrmode = "AM_BYTEADR"] ELSE l
LeftOver == (IF Taken THEN Argi - 1 ELSE Argi) # Argibase \/ Opi # Opibase
Leaving  == IF LeftOver THEN raised \cup {"ERROR_SYNTAX_ERROR"} ELSE raised

Return ==
  /\ Reduced("end") /\ Len(bases) = 1
  /\ last' = List /\ raised' = Leaving
  /\ Argi' = Argibase /\ Opi' = Opibase
  /\ bases' = <<>> /\ frames' = <<>> /\ todo' = "idle"
  /\ UNCHANGED <<Argstack, Oppri, Opdis, Lastwasop, tok, redoVars,
                 symbolRecursionCount, read, evals>>

\* Back in pushsymbol(), which stacks the first value of the list.  (The text of the
\* outer element shows where the expression of the symbol was.)
LeaveMacro ==
  /\ Reduced("end") /\ Len(bases) > 1
  /\ LET outer == SubSeq(frames, 1, Len(frames) - 1)
         first == List[1]
         commas == [i \in 1 .. Len(List) - 1 |-> ","]
     IN frames' = [outer EXCEPT
          ![Len(outer)].toks = @ \o <<"{">> \o first.toks \o commas \o <<"}">>]
        /\ IF Argibase >= MAXARGS
           THEN /\ raised' = Leaving \cup {"ERROR_EXPRESSION_TABLE_OVERFLOW"}
                /\ Argi' = Argibase /\ todo' = "exit"
                /\ UNCHANGED <<Argstack, Lastwasop>>
           ELSE /\ Argstack' = [Argstack EXCEPT ![Argibase] =
                     [value |-> first.value, unk |-> first.unk, str |-> first.str]]
                /\ Argi' = Argibase + 1 /\ raised' = Leaving
                /\ Lastwasop' = FALSE /\ todo' = "stackarg"
  /\ Opi' = Opibase /\ bases' = SubSeq(bases, 1, Len(bases) - 1)
  /\ symbolRecursionCount' = symbolRecursionCount - 1
  /\ UNCHANGED <<Oppri, Opdis, tok, redoVars, read, evals, last>>

\* asmerr() called exit(), or every text was read.
Stopped ==
  /\ \/ todo = "exit"
     \/ todo = "idle" /\ evals = MaxEvals
  /\ UNCHANGED vars

-----------------------------------------------------------------------------
ReadToken(t) ==
  \/ PushConstant(t) \/ PushSymbol(t) \/ IllegalCharacter(t) \/ EnterMacro(t)
  \/ UnaryOp(t) \/ MisplacedInvert(t) \/ BinaryOp(t)
  \/ OpenBracket(t) \/ CloseBracket(t) \/ ModeMark(t) \/ IndirectX(t) \/ Comma(t)

Init ==
  /\ Argstack = [i \in Slots |-> NoArg] /\ Argi = 0
  /\ Oppri = [i \in 0 .. MAXOPS - 1 |-> 0]
  /\ Opdis = [i \in 0 .. MAXOPS - 1 |-> NULL] /\ Opi = 0
  /\ Lastwasop = FALSE /\ bases = <<>> /\ frames = <<>>
  /\ todo = "idle" /\ tok = "," /\ raised = {}
  /\ Redo = 0 /\ Redo_eval = 0 /\ symbolRecursionCount = 0
  /\ read = 0 /\ evals = 0 /\ last = <<>>

Next ==
  \/ Eval \/ (\E t \in Tokens : ReadToken(t))
  \/ EvalTop \/ NewOp \/ Closed \/ Indexed \/ NextElement
  \/ EndOfText \/ Return \/ LeaveMacro \/ Stopped

Spec == Init /\ [][Next]_vars

\* Types; Argi may lie in front of the array, see Slots.
Args == [value : Int, unk : BOOLEAN, str : BOOLEAN]
AddrModes == {"AM_IMP", "AM_IMM8", "AM_BYTEADR", "AM_BYTEADR_SP", "AM_0X", "AM_0Y",
              "AM_INDWORD", "AM_INDBYTEX", "AM_INDBYTEY"}
TypeOK ==
  /\ \A i \in Slots : Argstack[i] \in Args
  /\ Argi \in -(MaxTokens + 1) .. MAXARGS
  /\ Opi \in 0 .. MAXOPS
  /\ \A i \in 0 .. MAXOPS - 1 : /\ Oppri[i] \in 0 .. UNARY
                                /\ Opdis[i] \in {NULL} \cup Unary \cup Binary
  /\ {Lastwasop} \subseteq BOOLEAN
  /\ \A i \in DOMAIN frames :
       frames[i].wantmode \in BOOLEAN /\ frames[i].addrmode \in AddrModes
  /\ todo \in {"idle", "scan", "stackarg", "doop", "]", ",", "end", "exit"}
  /\ symbolRecursionCount \in 0 .. MaxRecursion
=============================================================================
