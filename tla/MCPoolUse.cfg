SPECIFICATION Spec
CONSTANTS
  HeapSize = 11
  Redzone = 1
  Sizes <- MCSizes
INVARIANTS
  TypeOK
  NoOverlap
  ShadowExact
PROPERTY Atomicity
