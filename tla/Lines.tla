--------------------------------- MODULE Lines ---------------------------------
(***************************************************************************)
(* From a line of text to the fields Av[0..2]: comments (cleanup, first    *)
(* loop), strings and macro arguments (second loop), fields (parse).       *)
(*                                                                         *)
(* A line is a sequence of tokens: each is a character, or several that    *)
(* always stay together (a comment mark, {n}, a word).  TAB is a blank.    *)
(* Any line may be read in a file.  If its mnemonic is the name of a macro *)
(* its operand is the argument list, and a line of the macro follows,      *)
(* which was cleaned a first time when the macro was defined.              *)
(***************************************************************************)
EXTENDS Integers, Sequences, FiniteSets, SequencesExt

CONSTANTS
  Texts,      \* families of lines of a file
  Bodies,     \* families of lines of a macro
  MacroName,
  Placeholders,   \* of macro arguments: how {0}, {1}, ... are written
  MAXLINE

Blank == " "
Hard  == "0x80"     \* a blank that does not separate anything

VARIABLES
  level,    \* "file", "call" (its arguments were just taken) or "macro"
  line,     \* as read
  opened,   \* mlflag when it was read
  mlflag,   \* in a comment that began on an earlier line
  args,     \* pIncfile->args: all, first, second, ...; empty in a file
  rest,     \* of the buffer, not yet looked at by the second loop
  text,     \* what this loop has passed
  phase,    \* "idle", "scan", "parsed" or "panic"
  errors,   \* reported for this line
  Av        \* label, mnemonic, extension and operand

vars == <<level, line, opened, mlflag, args, rest, text, phase, errors, Av>>

-----------------------------------------------------------------------------
(***************************************************************************)
(* Comments: the first loop of cleanup()                                   *)
(***************************************************************************)

\* strstr(): where t is, or a place behind the end.
Strstr(buf, t) ==
  LET at == SelectInSeq(buf, LAMBDA x : x = t) IN IF at = 0 THEN Len(buf) + 1 ELSE at
Before(buf, i) == SubSeq(buf, 1, i - 1)
Behind(buf, i) == SubSeq(buf, i + 1, Len(buf))

\* Mutant of PutAway: the line is joined again without the semicolon.
PutBack(code, comment) == code \o comment

\* A comment that is over goes behind the code and a semicolon.
PutAway(code, comment) == code \o <<";">> \o comment

\* Comments are taken out of the line until none is left.
RECURSIVE Comments(_, _, _)
Comments(buf, open, errs) ==
  LET mlstart   == Strstr(buf, "/*")
      mlend     == Strstr(buf, "*/")
      semistart == Strstr(buf, ";")
      found(at) == at <= Len(buf)
      spurious  == found(mlend) /\ mlend < semistart /\ mlend < mlstart
      errors1   == IF spurious THEN errs \cup {"spurious"} ELSE errs
  IN IF open
     THEN IF found(mlend)
          THEN Comments(PutAway(Behind(buf, mlend), <<"*/">> \o Before(buf, mlend)), FALSE, errs)
          ELSE [buf |-> <<";">> \o buf, open |-> TRUE, errs |-> errs]
     ELSE IF ~(found(mlstart) /\ mlstart < semistart)
          THEN [buf |-> buf, open |-> FALSE, errs |-> errors1]
     ELSE IF found(mlend) /\ mlstart < mlend /\ mlend < semistart
          THEN Comments(PutAway(Before(buf, mlstart) \o Behind(buf, mlend),
                          SubSeq(buf, mlstart, mlend - 1) \o <<"*">>), FALSE, errors1)
     ELSE [buf |-> Before(buf, mlstart) \o <<";">> \o SubSeq(buf, mlstart, Len(buf)),
           open |-> TRUE, errs |-> errors1]

-----------------------------------------------------------------------------
(***************************************************************************)
(* Strings and arguments: the second loop of cleanup()                     *)
(***************************************************************************)

\* Mutant of Hardened: blanks in strings separate.
HardenedNot(s) == s

Hardened(s) == [i \in DOMAIN s |-> IF s[i] = Blank THEN Hard ELSE s[i]]

\* Mutant of Substituted: what the argument brings in is not looked at.
SubstitutedOnce(arg, r, passed) == [rest |-> r, text |-> passed \o arg, errs |-> {}]

\* An argument takes the place of {n}, and the loop goes on at its first token.
Substituted(arg, r, passed) == [rest |-> arg \o r, text |-> passed, errs |-> {}]

\* One iteration at the first token of r, which is the rest, after passed.  With disable,
\* which is for the lines between MAC and ENDM, arguments are left alone.
Iterated(r, passed, disable) ==
  LET t     == Head(r)
      quote == Strstr(Tail(r), "\"")
      step(n) == [rest |-> Behind(r, n), text |-> passed \o SubSeq(r, 1, n), errs |-> {}]
      stop(p, e) == [rest |-> <<>>, text |-> p, errs |-> e]
  IN CASE t = ";" -> stop(passed, {})
       [] t = "'" /\ Len(r) = 1 -> stop(passed \o <<t, Hard>>, {})
       [] t = "'" /\ Len(r) > 1 ->
            [step(2) EXCEPT !.text = passed \o <<t>> \o Hardened(SubSeq(r, 2, 2))]
       [] t = "\"" /\ quote < Len(r) ->
            [step(quote + 1) EXCEPT !.text = passed \o Hardened(SubSeq(r, 1, quote + 1))]
       [] t = "\"" /\ quote = Len(r) -> stop(passed \o Hardened(r), {"syntax"})
       [] t \in ToSet(Placeholders) /\ ~disable ->
            LET n == SelectInSeq(Placeholders, LAMBDA p : p = t)
            IN IF n \in DOMAIN args
               THEN Substituted(args[n], Tail(r), passed)
               ELSE stop(Append(passed, t), {"arguments"})
       [] OTHER -> step(1)

\* Blanks at the end are cut off.
Trimmed(s) ==
  LET keep == {i \in DOMAIN s : s[i] # Blank}
  IN IF keep = {} THEN <<>> ELSE SubSeq(s, 1, CHOOSE i \in keep : \A j \in keep : j <= i)

\* cleanup(buf, true), which the lines of a macro have behind them.
RECURSIVE ScannedDisabled(_, _, _)
ScannedDisabled(r, passed, errs) ==
  IF r = <<>> THEN [text |-> Trimmed(passed), errs |-> errs]
  ELSE LET it == Iterated(r, passed, TRUE)
       IN ScannedDisabled(it.rest, it.text, errs \cup it.errs)
Recorded(buf) == LET c == Comments(buf, FALSE, {}) IN ScannedDisabled(c.buf, <<>>, c.errs)

-----------------------------------------------------------------------------
(***************************************************************************)
(* Fields: parse(), with findext() for the mnemonic                        *)
(***************************************************************************)

Soft(s) == [i \in DOMAIN s |-> IF s[i] = Hard THEN Blank ELSE s[i]]

\* Up to the first of the tokens in stops.
UpTo(buf, stops) ==
  LET at == SelectInSeq(buf, LAMBDA t : t \in stops)
  IN IF at = 0 THEN buf ELSE Before(buf, at)
From(buf, stops) == Behind(buf, Len(UpTo(buf, stops)))

RECURSIVE Unindented(_)
Unindented(buf) ==
  IF buf # <<>> /\ Head(buf) = Blank THEN Unindented(Tail(buf)) ELSE buf

\* Mutant of LabelStart: blanks before a label do not matter.
LabelStartAnywhere(buf) == Unindented(buf)

\* Where the label begins: in the first column, or behind a ^; a # stands for a blank.
LabelStart(buf) ==
  LET first == Unindented(buf)
  IN CASE first # <<>> /\ Head(first) = "^" -> Unindented(Tail(first))
       [] first # <<>> /\ Head(first) = "#" -> <<Blank>> \o Tail(first)
       [] OTHER -> buf

Numbers == {"1", "2"}
\* Mutant of Evaluated: an unknown argument counts as 0.
EvaluatedAsZero(s) == IF Len(s) = 1 /\ s[1] \in Numbers THEN s[1] ELSE "0"

\* What eval() makes of the argument of a label, given all that is left of the line but
\* cut at a comma.  An = is a comparison; after an error the value is any.
Evaluated(s) ==
  LET operands == SelectSeq(s, LAMBDA t : t # Blank)
  IN CASE Len(operands) = 1 /\ operands[1] \in Numbers -> operands[1]
       [] Len(operands) = 1 /\ operands[1] = "u" -> "unknown"
       [] Len(operands) = 3 /\ operands[2] = "=" /\ {operands[1], operands[3]} \subseteq Numbers ->
            IF operands[1] = operands[3] THEN "1" ELSE "0"
       [] OTHER -> "error"

LabelEnds == {Blank, "="}
\* The label, the rest of the line, and whether an argument was not known (undef).
RECURSIVE LabelOf(_, _, _, _)
LabelOf(buf, label, undef, errs) ==
  LET done(r) == [label |-> IF undef THEN <<>> ELSE label, rest |-> r, errs |-> errs]
  IN IF buf = <<>> \/ Head(buf) \in LabelEnds THEN done(buf)
     ELSE IF Head(buf) = ":" THEN done(Tail(buf))
     ELSE IF Head(buf) # "," THEN LabelOf(Tail(buf), label \o Soft(<<Head(buf)>>), undef, errs)
     ELSE IF Len(buf) > 1 /\ buf[2] = "\""
     THEN LET s == UpTo(Behind(buf, 2), {"\"", Blank, ",", ":"})
              r == Behind(buf, 2 + Len(s))
          IN IF r # <<>> /\ Head(r) = "\"" THEN LabelOf(Tail(r), label \o s, undef, errs)
             ELSE LabelOf(r, label \o s, TRUE, errs \cup {"syntax"})
     ELSE LET value == Evaluated(UpTo(Tail(buf), {","}))
              r     == From(Tail(buf), LabelEnds \cup {",", ":"})
          IN CASE value = "unknown" -> LabelOf(r, label, TRUE, errs)
               [] value = "error" -> LabelOf(r, Append(label, "any"), undef, errs \cup {"syntax"})
               [] OTHER -> LabelOf(r, Append(label, value), undef, errs)

\* findext(): the addressing mode an extension asks for.
Mnext(ext) ==
  LET letter(i) == IF i \in DOMAIN ext THEN ext[i] ELSE ""
      indexed(x, y, other) == IF letter(2) = "x" THEN x ELSE IF letter(2) = "y" THEN y ELSE other
  IN CASE letter(1) = "s" -> "AM_OTHER_ENDIAN"
       [] letter(1) \in {"0", "i"} ->
            indexed("AM_0X", "AM_0Y", IF letter(2) = "n" THEN "AM_INDWORD" ELSE "AM_IMP")
       [] letter(1) \in {"d", "b", "z"} ->
            indexed("AM_BYTEADRX", "AM_BYTEADRY",
                    CASE letter(2) = "i" -> "AM_BITMOD" [] letter(2) = "b" -> "AM_BITBRAMOD"
                      [] OTHER -> "AM_BYTEADR")
       [] letter(1) \in {"e", "w", "a"} -> indexed("AM_WORDADRX", "AM_WORDADRY", "AM_WORDADR")
       [] letter(1) = "l" -> "AM_LONG"
       [] letter(1) = "r" -> "AM_REL"
       [] letter(1) = "u" -> "AM_BSS"
       [] OTHER -> "none"

\* Of a run of blanks the last one stays.
Squeezed(s) ==
  LET last(i) == ~(s[i] = Blank /\ i < Len(s) /\ s[i + 1] = Blank)
      keep == SelectSeq([i \in DOMAIN s |-> i], last)
  IN [k \in DOMAIN keep |-> s[keep[k]]]

Parsed(buf) ==
  LET l    == LabelOf(LabelStart(buf), <<>>, FALSE, {})
      m    == Unindented(l.rest)
      word == IF m # <<>> /\ Head(m) = "=" THEN <<"=">> ELSE UpTo(m, {Blank})
      dot  == IF word # <<>> /\ Head(word) = "." THEN Len(word) + 1 ELSE Strstr(word, ".")
      ext  == Soft(Behind(word, dot))
  IN [label |-> l.label, mnemonic |-> Soft(Before(word, dot)), ext |-> ext, mnext |-> Mnext(ext),
      operand |-> Soft(Squeezed(Unindented(Behind(m, Len(word))))), errs |-> l.errs]

-----------------------------------------------------------------------------
(***************************************************************************)
(* Reading                                                                 *)
(***************************************************************************)

\* The argument list of a macro call: all of it, then what is between the commas.
RECURSIVE Split(_)
Split(s) ==
  IF s = <<>> THEN <<>>
  ELSE LET piece == UpTo(s, {","})
       IN <<piece>> \o Split(Unindented(Behind(s, Len(piece) + 1)))

\* A line enters the buffer, and its comments are moved away.
Buffered(l, buf) ==
  LET c == Comments(buf, mlflag, {})
  IN /\ line' = l /\ opened' = mlflag
     /\ mlflag' = c.open /\ rest' = c.buf /\ errors' = c.errs
     /\ text' = <<>> /\ phase' = "scan"
     /\ UNCHANGED Av

\* fgets()
ReadLine ==
  /\ phase = "idle" /\ level = "file"
  /\ \E T \in Texts : \E l \in T : Buffered(l, l)
  /\ UNCHANGED <<level, args>>

\* The next line of the macro that was called.
ReadMacroLine ==
  /\ phase = "idle" /\ level = "call"
  /\ \E T \in Bodies : \E l \in T : Buffered(l, Recorded(l).text)
  /\ level' = "macro"
  /\ UNCHANGED args

\* Mutant of TooLong: the buffer is full one token later.
TooLongLate(it) == Len(it.text) + Len(it.rest) > MAXLINE + 1

\* panic("failure1")
TooLong(it) == Len(it.text) + Len(it.rest) > MAXLINE

Scan ==
  /\ phase = "scan" /\ rest # <<>>
  /\ LET it == Iterated(rest, text, FALSE)
     IN IF TooLong(it) THEN phase' = "panic" /\ UNCHANGED <<rest, text, errors>>
        ELSE /\ rest' = it.rest /\ text' = it.text
             /\ errors' = errors \cup it.errs
             /\ UNCHANGED phase
  /\ UNCHANGED <<level, line, opened, mlflag, args, Av>>

Parse ==
  /\ phase = "scan" /\ rest = <<>>
  /\ text' = Trimmed(text)
  /\ LET p == Parsed(Trimmed(text)) IN Av' = p /\ errors' = errors \cup p.errs
  /\ phase' = "parsed"
  /\ UNCHANGED <<level, line, opened, mlflag, args, rest>>

\* The handler of the line.  A macro call, v_execmac, leaves its arguments; a macro here
\* has one line, and calls none itself.
Handle ==
  /\ phase = "parsed"
  /\ IF level = "file" /\ Av.mnemonic = MacroName
     THEN level' = "call" /\ args' = <<Av.operand>> \o Split(Av.operand)
     ELSE level' = "file" /\ args' = <<>>
  /\ phase' = "idle"
  /\ line' = <<>> /\ text' = <<>> /\ errors' = {} /\ Av' = Parsed(<<>>) /\ opened' = mlflag
  /\ UNCHANGED <<mlflag, rest>>

Init ==
  /\ level = "file" /\ line = <<>> /\ opened = FALSE /\ mlflag = FALSE
  /\ args = <<>> /\ rest = <<>> /\ text = <<>> /\ phase = "idle" /\ errors = {}
  /\ Av = Parsed(<<>>)

Next == ReadLine \/ ReadMacroLine \/ Scan \/ Parse \/ Handle

Spec == Init /\ [][Next]_vars
=============================================================================
