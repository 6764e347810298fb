SPECIFICATION FairSpec
CONSTANTS
  Items <- MCItems
  Names <- MCNames
  Paths <- MCPaths
  MainFile = "main"
  Sources <- MCSources
  Addresses = {1, 2, 3, 4, 5, 6}
  Null = NULL
  NULL = NULL
  MAXMACLEVEL = 2
  MaxOpenFiles = 3
  MaxPasses = 2
INVARIANTS TypeOK BottomKept LevelsCount ScopesNotShared EntriesBelong ExpansionCorrect
CHECK_DEADLOCK FALSE
PROPERTY Terminates
