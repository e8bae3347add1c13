SPECIFICATION Spec
CONSTANTS
  Sections <- MCSections
  MaxFailures = 3
INVARIANTS
  TypeOK
  CompleteMeansAverage
  NothingOld
  NothingLost
  ShiftsUpOnly
CHECK_DEADLOCK FALSE
