\* Values, priorities and operands, on stacks that are large enough.
CONSTANTS
  Literals <- MCLiterals
  Strings <- NoStrings
  Resolved <- MCResolved
  Unresolved = {"u"}
  Stale = {0, 1}
  Finals = {0, 4}
  Equated = {}
  Texts <- ExpressionTexts
  MAXOPS = 7
  MAXARGS = 7
  MaxRecursion = 9
  MaxTokens = 6
  MaxEvals = 1
SPECIFICATION Spec
INVARIANTS TypeOK ValueCorrect UnknownHasCause OperandCorrect
