SPECIFICATION Spec
CONSTANTS
  Figures <- MCFigures
  Rows = 2
  MaxTrouble = 2
  MaxImports = 3
INVARIANTS
  TypeOK
  BarsAreOwn
  OldOnlyIfMissing
  ComparableToPmdk
  CompleteFigure
PROPERTY NothingOverwritten
CHECK_DEADLOCK FALSE
