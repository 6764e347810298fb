SPECIFICATION FairSpec
CONSTANTS
  Symbols <- MCSymbols
  NoLabel = ""
  Segments <- MCSegments
  InitialSegment <- MCInitial
  Predefined <- NoDefines
  Programs <- UnknownOriginPrograms
  MaxPasses = 4
  AllPasses = FALSE
  RemoveOut = FALSE
  Verbose = TRUE
  Format = "FORMAT_DEFAULT"
PROPERTY BranchFromUnknownRetried
CHECK_DEADLOCK FALSE
