SPECIFICATION Spec
CONSTANTS
  Figures <- MCFigures
  Rows = 2
  MaxTrouble = 2
  MaxImports = 3
INVARIANT SlowdownOfSameBenchmark
CHECK_DEADLOCK FALSE
