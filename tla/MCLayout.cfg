SPECIFICATION FairSpec
CONSTANTS
  Symbols <- LayoutSymbols
  NoLabel = ""
  Segments <- MCSegments
  InitialSegment <- MCInitial
  Predefined <- NoDefines
  Programs <- SomePrograms
  MaxPasses = 13
  AllPasses = TRUE
  RemoveOut = FALSE
  Verbose = TRUE
  Format = "FORMAT_RAW"
INVARIANT SuccessIsLayout
PROPERTY Resolves
CHECK_DEADLOCK FALSE
