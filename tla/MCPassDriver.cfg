SPECIFICATION FairDriverSpec
CONSTANTS
  MaxPasses = 3
  AllPasses = FALSE
  RemoveOut = FALSE
  Counts <- MCCounts
  Reasons <- MCReasons
  Errors <- MCErrors
  FatalErrors <- MCFatalErrors
INVARIANTS DriverTypeOK VerdictFollowsLastPass OnlyLastPassShown FatalNeverSilent
PROPERTY Termination
CHECK_DEADLOCK FALSE
