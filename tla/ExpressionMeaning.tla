-------------------------- MODULE ExpressionMeaning --------------------------
(***************************************************************************)
(* What docs/dasm.txt promises of an expression, "EXPRESSIONS", and what   *)
(* the comment on eval() promises of an operand: a text means what the     *)
(* table of operators says, whatever stacks the evaluator works with.      *)
(* Stated on texts, without a stack, and compared with what Expressions    *)
(* computes.                                                               *)
(***************************************************************************)
EXTENDS Expressions, FiniteSets

CONSTANT Finals      \* values an unresolved symbol may turn out to have

\* Values that the unresolved symbols take when the assembly is over.
Outcomes == [Unresolved -> Finals]

\* The table of docs/dasm.txt:653-672.
Precedence(op) ==
  CASE op \in {"*", "/", "%"}        -> 19
    [] op \in {"+", "-"}             -> 18
    [] op \in {">>", "<<"}           -> 17
    [] op \in {">", ">=", "<", "<="} -> 16
    [] op \in {"==", "!="}           -> 15
    [] op = "&"  -> 14
    [] op = "^"  -> 13
    [] op = "|"  -> 12
    [] op = "&&" -> 11
    [] op = "||" -> 10
    [] op = "?"  -> 9

\* The meaning of the span lo .. hi of a text: whether it is an expression (wf),
\* whether it has a value (def: no division by 0), and the value.  Unary operators
\* bind tighter than binary ones; of these the loosest is applied last and, among
\* equals, the rightmost.
NotAnExpression == [wf |-> FALSE, def |-> FALSE, value |-> 0]
Means(v)        == [wf |-> TRUE, def |-> TRUE, value |-> v]

OperandMeaning(t, outcome) ==
  LET name == IF t = "*" THEN "." ELSE t IN
  CASE t \in DOMAIN Literals -> Means(Literals[t])
    [] t \in DOMAIN Strings  -> Means(Strings[t])
    [] name \in DOMAIN Resolved -> Means(Resolved[name])
    [] name \in Unresolved   -> Means(outcome[name])
    [] OTHER -> NotAnExpression

BinaryMeaning(f, x, y) ==
  LET def == x.def /\ y.def /\ (f \in Divides => y.value # 0) IN
  [wf |-> TRUE, def |-> def,
   value |-> IF def THEN BinaryValue(f, x.value, y.value) ELSE 0]

Meaning(toks, outcome) ==
  LET n == Len(toks)
      Span[lo \in 1 .. n + 1, hi \in 0 .. n] ==
        IF hi < lo THEN NotAnExpression
        ELSE IF hi = lo THEN OperandMeaning(toks[lo], outcome)
        ELSE LET splits == {k \in lo + 1 .. hi - 1 : /\ toks[k] \in Binary
                                                     /\ Span[lo, k - 1].wf
                                                     /\ Span[k + 1, hi].wf}
                 Later(j, k) == LET pj == Precedence(toks[j])  pk == Precedence(toks[k])
                                IN pj > pk \/ (pj = pk /\ j <= k)
                 k == CHOOSE k \in splits : \A j \in splits : Later(j, k)
             IN IF splits # {} THEN BinaryMeaning(toks[k], Span[lo, k - 1], Span[k + 1, hi])
                ELSE IF toks[lo] \in DOMAIN UnaryName
                THEN LET x == Span[lo + 1, hi] IN
                     [x EXCEPT !.value = UnaryValue(UnaryName[toks[lo]], @)]
                ELSE IF <<toks[lo], toks[hi]>> \in {<<"[", "]">>, <<"{", "}">>}
                THEN Span[lo + 1, hi - 1]
                ELSE NotAnExpression
  IN Span[1, n]

WellFormed(toks) == \E o \in Outcomes : Meaning(toks, o).wf

\* An evaluation that reported nothing is over.
Accepted == todo = "idle" /\ raised = {}

-----------------------------------------------------------------------------
(***************************************************************************)
(* Values                                                                  *)
(***************************************************************************)
\* An expression accepted without an error has the value of the documented table:
\* brackets group, the tighter operator goes first, equals go from left to right.
\* A value said to be known is that value whatever the unresolved symbols turn
\* out to be, so "||", "&&" and "?" may resolve early but never wrongly.
ValueCorrect ==
  Accepted => \A i \in DOMAIN last, o \in Outcomes :
    LET m == Meaning(last[i].toks, o) IN
    m.wf /\ m.def /\ ~last[i].unk => last[i].value = m.value

\* The value of an expression is unknown only if its text names an unresolved symbol,
\* and then the evaluation has asked for another pass.
UnknownHasCause ==
  Accepted => \A i \in DOMAIN last : last[i].unk /\ WellFormed(last[i].toks) =>
    /\ \E k \in DOMAIN last[i].toks :
         (IF last[i].toks[k] = "*" THEN "." ELSE last[i].toks[k]) \in Unresolved
    /\ Redo_eval > 0

\* A unary operator, a binary number or "*" stands behind a binary operator that may
\* have reduced others, and not all of them say that an operand comes next: those
\* before a bracket do not, nor do "/", "|" and the like.
Mistaken(toks) ==
  \E k \in 3 .. Len(toks) :
    /\ toks[k] \in BeginsOperand /\ toks[k - 1] \in Binary
    /\ \E j \in 1 .. k - 2 : \/ toks[j] \in Binary \ {"*", "+", "-"}
                             \/ toks[j] \in DOMAIN UnaryName /\ toks[j + 1] = "["

\* An expression of the documented form is accepted: when an evaluation ends with an
\* error, an element of its text is not well formed, or Lastwasop has made a unary
\* operator behind such a one a binary operator, as in 2/2+-2.
WellFormedAccepted ==
  todo = "idle" /\ raised # {} =>
    \E i \in DOMAIN last : Mistaken(last[i].toks) \/ ~WellFormed(last[i].toks)

-----------------------------------------------------------------------------
(***************************************************************************)
(* Operands of a mnemonic, src/exp.c:97-105                                *)
(***************************************************************************)
Form(addrmode, before, after) == [addrmode |-> addrmode, before |-> before, after |-> after]
Forms == {Form("AM_IMM8", <<"#">>, <<>>),          Form("AM_BYTEADR", <<>>, <<>>),
          Form("AM_0X", <<>>, <<",x">>),           Form("AM_0Y", <<>>, <<",y">>),
          Form("AM_BYTEADR_SP", <<>>, <<",sp">>),  Form("AM_INDWORD", <<"(">>, <<")">>),
          Form("AM_INDBYTEX", <<"(">>, <<",x", ")">>),
          Form("AM_INDBYTEY", <<"(">>, <<"),y">>)}

\* e was written as some expression between the marks of the form.
Written(e, form) ==
  \E body \in {SubSeq(e.toks, Len(form.before) + 1, Len(e.toks) - Len(form.after))} :
    e.toks = form.before \o body \o form.after /\ WellFormed(body)
HasForm(e, form) ==
  LET body == SubSeq(e.toks, Len(form.before) + 1, Len(e.toks) - Len(form.after)) IN
  /\ e.addrmode = form.addrmode
  /\ \A o \in Outcomes : LET m == Meaning(body, o) IN
       m.def /\ ~e.unk => e.value = m.value

\* An operand written in one of the documented forms is given that form's mode, and
\* the value of the expression in it.
OperandCorrect ==
  Accepted /\ Len(last) = 1 =>
    \A form \in Forms : Written(last[1], form) => HasForm(last[1], form)

-----------------------------------------------------------------------------
(***************************************************************************)
(* The shared stacks                                                       *)
(***************************************************************************)
\* As long as nothing is wrong, evaluating the expression of an EQM symbol does not
\* touch what the expression that uses it has stacked.
CallerKept ==
  [][bases # <<>> /\ raised' = {} =>
       /\ \A i \in 0 .. MAXARGS - 1 : i < Argibase => Argstack'[i] = Argstack[i]
       /\ \A i \in 0 .. MAXOPS - 1 :
            i < Opibase => Oppri'[i] = Oppri[i] /\ Opdis'[i] = Opdis[i]]_vars

\* The operators stay within Oppri and Opdis, and as long as no error is raised the
\* arguments stay within Argstack.  After an error Argi may lie in front of Argstack,
\* since a misplaced ',' takes an argument that is not there, but by one slot per
\* token at most, and never behind it.  An evaluation, failed or not, leaves
\* both stacks empty for the next.
StacksRestored ==
  /\ Opi \in 0 .. MAXOPS
  /\ Argi <= MAXARGS /\ -read <= Argi
  /\ raised = {} => 0 <= Argi
  /\ todo = "idle" => Opi = 0 /\ Argi = 0
=============================================================================
