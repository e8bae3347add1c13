SPECIFICATION FairSpec
CONSTANTS
  Requests <- MCRequests
  Unset = Unset
  IntRange = 32
  SizeRange = 64
  MaxPool = 16
  Overhead = 1
  SizeLimit = 8
  Tolerance = 4
INVARIANTS
  TypeOK
  Bracketed
  EstimateTight
  NoWrap
PROPERTIES
  Shrinks
  Terminates
CHECK_DEADLOCK FALSE
