SPECIFICATION Spec
CONSTANTS
  Texts <- MCTexts
  Bodies <- MCBodies
  MacroName <- MCName
  Placeholders <- MCPlaceholders
  MAXLINE = 12
INVARIANT BlockCommentEnds
CHECK_DEADLOCK FALSE
