SPECIFICATION Spec
CONSTANTS
  compilers <- MCCompilers
  Forms <- MCForms
  RepeatTimes = 2
  MaxFailures = 2
INVARIANTS
  TypeOK
  EveryFormCounted
  CreditExact
  NPMeansImpossible
  ClassesHonest
CHECK_DEADLOCK FALSE
