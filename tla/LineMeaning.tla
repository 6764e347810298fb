------------------------------- MODULE LineMeaning -------------------------------
(***************************************************************************)
(* What the documentation says a line means, and whether Lines agrees.     *)
(***************************************************************************)
EXTENDS Lines

Marks == {"/*", "*/"}

(***************************************************************************)
(* A line read from left to right.  Text between /* and */ is a comment,   *)
(* and so is the rest of a line after a semicolon; a string, and the token *)
(* after an apostrophe, are neither.  An argument stands for its text.     *)
(* The record also says what of the lines is beyond dasm's ways: marks in  *)
(* strings or an apostrophe at the end (quoted), a semicolon between the   *)
(* marks on one line (semi), a mark without its opening one (spurious), a  *)
(* string that does not end, or an argument that is not there or not in    *)
(* one piece (broken).                                                     *)
(***************************************************************************)
Nothing == [text |-> <<>>, inside |-> FALSE, quoted |-> FALSE, semi |-> FALSE,
            spurious |-> FALSE, broken |-> FALSE]

RECURSIVE Documented(_, _, _, _)
Documented(r, where, acc, as) ==
  IF r = <<>>
  THEN [acc EXCEPT !.inside = where # "code"]
  ELSE
  LET t     == Head(r)
      end   == Strstr(Tail(r), "\"")
      has(s, T) == \E i \in DOMAIN s : s[i] \in T
      add(s) == [acc EXCEPT !.text = @ \o Hardened(s), !.quoted = @ \/ has(s, Marks \cup {";"})]
      n     == SelectInSeq(Placeholders, LAMBDA p : p = t)
      arg   == IF n \in DOMAIN as THEN Documented(as[n], "code", Nothing, <<>>) ELSE Nothing
      whole == n \in DOMAIN as /\ arg = [Nothing EXCEPT !.text = arg.text]
  IN CASE where # "code" ->
            Documented(Tail(r), IF t = "*/" THEN "code" ELSE where,
                       [acc EXCEPT !.semi = @ \/ (t = ";" /\ where = "here" /\ has(r, {"*/"}))],
                       as)
       [] where = "code" /\ t = "/*" -> Documented(Tail(r), "here", acc, as)
       [] where = "code" /\ t = "*/" ->
            Documented(Tail(r), where, [acc EXCEPT !.spurious = TRUE], as)
       [] where = "code" /\ t = ";" -> Documented(<<>>, where, acc, as)
       [] where = "code" /\ t = "'" ->
            LET next == IF Len(r) = 1 THEN <<Hard>> ELSE <<r[2]>>
            IN Documented(Behind(r, 2), where,
                          [add(IF Len(r) = 1 THEN <<";">> ELSE next) EXCEPT
                             !.text = acc.text \o <<t>> \o Hardened(next)], as)
       [] where = "code" /\ t = "\"" /\ end < Len(r) ->
            Documented(Behind(r, end + 1), where, add(SubSeq(r, 1, end + 1)), as)
       [] where = "code" /\ t = "\"" /\ end = Len(r) ->
            Documented(<<>>, where, [add(r) EXCEPT !.broken = TRUE], as)
       [] where = "code" /\ n > 0 ->
            Documented(Tail(r), where,
                       [acc EXCEPT !.text = @ \o arg.text, !.broken = @ \/ ~whole], as)
       [] OTHER -> Documented(Tail(r), where, [acc EXCEPT !.text = Append(@, t)], as)

Meaning == Documented(line, IF opened THEN "before" ELSE "code", Nothing, args)

\* Semicolons and marks in strings count only where there is a mark to find.
Protected == Meaning.quoted /\ \E i \in DOMAIN line : line[i] \in Marks
Done == phase = "parsed"

-----------------------------------------------------------------------------
\* The types of the variables.
TypeOK ==
  /\ level \in {"file", "call", "macro"} /\ phase \in {"idle", "scan", "parsed", "panic"}
  /\ opened \in BOOLEAN /\ mlflag \in BOOLEAN
  /\ Len(rest) + Len(text) <= MAXLINE
  /\ errors \subseteq {"spurious", "syntax", "arguments"}
  /\ args = <<>> <=> level = "file"

\* Wherever comments begin and end, on one line or on several, what is assembled is the
\* text around them, and the next line is in a comment exactly if one was left open.
CommentsRemoved ==
  Done /\ level = "file" =>
    \/ Protected \/ Meaning.semi \/ Meaning.broken
    \/ Meaning.spurious /\ "spurious" \in errors
    \/ text = Trimmed(Meaning.text) /\ mlflag = Meaning.inside

\* "C-style comments mark all text between and including /* and */ as a comment"
\* (docs/sources/manual.tex).  Violated: with a semicolon in it, the comment does not end on
\* this line, and what follows is lost up to the end of the next comment.
BlockCommentEnds ==
  Done /\ level = "file" =>
    \/ Protected \/ Meaning.broken \/ Meaning.spurious
    \/ mlflag = Meaning.inside

\* A line of a macro, cleaned when it was defined and again when it is called, is the line as
\* written with the arguments in place of {n}, but not in strings.
MacroLineAsWritten ==
  Done /\ level = "macro" /\ ~opened =>
    Protected \/ Meaning.semi \/ Meaning.broken \/ Meaning.spurious \/ text = Trimmed(Meaning.text)

-----------------------------------------------------------------------------
\* The strings in a text, one after another.
RECURSIVE Strings(_)
Strings(s) ==
  IF s = <<>> THEN <<>>
  ELSE LET end == Strstr(Tail(s), "\"")
       IN CASE Head(s) = "'" -> Strings(Behind(s, 2))
            [] Head(s) = "\"" /\ end = Len(s) -> <<s>>
            [] Head(s) = "\"" -> <<SubSeq(s, 1, end + 1)>> \o Strings(Behind(s, end + 1))
            [] OTHER -> Strings(Tail(s))

\* Every string of the operand arrives in one piece and with its blanks, although blanks
\* separate fields and runs of them count as one.
StringsWhole ==
  Done /\ errors = {} /\ text # <<>> /\ Head(text) = Blank /\ "\"" \notin ToSet(Av.mnemonic)
       /\ "'" \notin ToSet(Av.mnemonic) =>
    Strings(Av.operand) = Strings(Soft(text))

\* Nothing of a line but separators is lost or doubled on its way into the fields, and a
\* label is there only where the documentation allows one.
Essential(s) == SelectSeq(s, LAMBDA t : t \notin {Blank, Hard, ":", ".", "^", "#"})
LabelPart    == UpTo(LabelStart(text), LabelEnds \cup {":"})
FieldsKept ==
  Done /\ "," \notin ToSet(LabelPart) =>
    /\ Essential(Av.label \o Av.mnemonic \o Av.ext \o Av.operand) = Essential(text)
    /\ Av.label # <<>> => \/ Head(text) \notin {Blank, "#"}
                          \/ Unindented(text) # <<>> /\ Head(Unindented(text)) = "^"

\* The values of a label's arguments are appended to it, and with one that is not known yet
\* there is no label at all ("to avoid a partial label being used").
DynamicArgument(s) ==
  \/ Len(s) = 1 /\ s[1] \in Numbers \cup {"u"}
  \/ Len(s) > 1 /\ SelectSeq(s, LAMBDA t : t # "\"") = SubSeq(s, 2, Len(s) - 1)
Value(s) == IF Len(s) = 1 THEN s ELSE SubSeq(s, 2, Len(s) - 1)
DynamicLabel ==
  Done /\ errors = {} /\ LabelPart = LabelStart(text) /\ "," \in ToSet(LabelPart) =>
    LET base   == UpTo(LabelPart, {","})
        pieces == Split(Behind(LabelPart, Len(base) + 1))
    IN "\"" \notin ToSet(base) /\ (\A i \in DOMAIN pieces : DynamicArgument(pieces[i])) =>
         Av.label = IF <<"u">> \in ToSet(pieces) THEN <<>>
                    ELSE base \o FlattenSeq([i \in DOMAIN pieces |-> Value(pieces[i])])
=============================================================================
