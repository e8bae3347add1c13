SPECIFICATION FairSpec
CONSTANTS
  Variants <- MCVariants
  LogSizes <- MCLogSizes
  Repeats = 2
  MaxFailures = 2
INVARIANTS
  TypeOK
  RowMeansReplay
  ColumnsAligned
  CompleteAtEnd
PROPERTY ScriptEnds
CHECK_DEADLOCK FALSE
