SPECIFICATION Spec
CONSTANTS
  HeapSize = 17
  Redzone = 1
  BigDummy = 64
  Stretch = 40
  Rounds = 2
  MaxFailures = 1
  Libraries <- MCBothLibraries
INVARIANT StatusIsVerdict
CHECK_DEADLOCK FALSE
