\* One text after another, on stacks that are soon full.
CONSTANTS
  Literals <- MCLiterals
  Strings <- MCStrings
  Resolved <- MCResolved
  Unresolved = {}
  Stale = {0}
  Finals = {0}
  Equated = {"m"}
  Texts <- SequenceTexts
  MAXOPS = 2
  MAXARGS = 2
  MaxRecursion = 2
  MaxTokens = 6
  MaxEvals = 2
SPECIFICATION Spec
INVARIANTS StacksRestored WellFormedAccepted ValueCorrect
PROPERTIES CallerKept
