SPECIFICATION Spec
CONSTANTS
  Texts <- MCTexts
  Bodies <- MCBodies
  MacroName <- MCName
  Placeholders <- MCPlaceholders
  MAXLINE = 12
INVARIANTS TypeOK CommentsRemoved MacroLineAsWritten StringsWhole FieldsKept DynamicLabel
CHECK_DEADLOCK FALSE
