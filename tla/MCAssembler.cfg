SPECIFICATION FairSpec
CONSTANTS
  Symbols <- MCSymbols
  NoLabel = ""
  Segments <- MCSegments
  InitialSegment <- MCInitial
  Predefined <- DefineC
  Programs <- MCPrograms
  MaxPasses = 4
  AllPasses = FALSE
  RemoveOut = FALSE
  Verbose = TRUE
  Format = "FORMAT_DEFAULT"
INVARIANTS TypeOK FinalPassConsistent UnknownNeverWritten OutputInOrder OnlyTwoDropped
PROPERTIES Terminates ImplementsDriver
CHECK_DEADLOCK FALSE
