SPECIFICATION Spec
CONSTANT Unknown = "unknown"
INVARIANTS
  TypeOK
  SegmentsListedRight
  PerformsWhatWasAsked
CHECK_DEADLOCK FALSE
