---------------------------- MODULE MCExpressions ----------------------------
(***************************************************************************)
(* Instances of Expressions for TLC: the spellings, their values, and the  *)
(* texts that eval() may be given.                                         *)
(***************************************************************************)
EXTENDS ExpressionMeaning, TLC

MCLiterals == "2" :> 2 @@ "3" :> 3
MCStrings  == "s" :> 97
MCResolved == "." :> 5
NoStrings  == [t \in {} |-> 0]

Text(wantmode, tokens, length) ==
  [wantmode |-> wantmode, tokens |-> tokens, length |-> length]

\* Brackets, a unary operator and an unresolved symbol.
ValueTexts == {Text(FALSE, {"2", "u", "-", "*", "||", "[", "]"}, 6)}

\* Operators of nine of the eleven priorities, without brackets.
OperatorTexts ==
  {Text(FALSE, {"2", "3", "+", "<<", "<", "==", "&", "|", "&&", "?"}, 5)}

\* Operands of a mnemonic: every addressing mode.
OperandTexts ==
  {Text(TRUE, {"2", "-", "#", "(", ")", "),y", "),x", ",x", ",y", ",y)", ",sp"}, 5)}

\* EQM symbols inside one another, and lists, errors and brackets.
MacroTexts == {Text(FALSE, {"2", "s", "+", "-", ",", "m"}, 4)}
FaultyTexts == {Text(FALSE, {"2", "-", "~", "/", "[", "]", ",", ":"}, 3)}

\* A unary operator behind two binary ones, one of which has been applied: 2/2+-2.
QuotientTexts == {Text(FALSE, {"2", "/", "+", "-"}, 6)}

ExpressionTexts == ValueTexts \cup OperatorTexts \cup OperandTexts
SequenceTexts   == MacroTexts \cup FaultyTexts \cup QuotientTexts
=============================================================================
