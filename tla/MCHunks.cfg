SPECIFICATION Spec
CONSTANTS
  Byte = 8
  Formats <- MCFormats
  Origins <- MCOrigins
  Fills <- MCFills
  DEFORGFILL = 7
  Lengths <- MCLengths
  MaxStatements = 6
  MaxPasses = 2
  maxFileSize = 66
  PERLINE = 2
INVARIANTS TypeOK HunksCorrect FlatCorrect FtobinCorrect FtohexCorrect
CHECK_DEADLOCK FALSE
