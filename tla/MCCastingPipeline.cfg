SPECIFICATION FairSpec
CONSTANTS
  Item = {x1, x2, x3}
  Steps = 3
  Degree <- OneTwoOne
  MaxCapacity <- OneEach
INVARIANTS
  TypeOK
  InOnePlace
  StepIsBounded
  NeverStuck
  OvertakenOnlyInParallel
  ExceptionsSpareWorkers
PROPERTIES
  EveryItemIsSettled
CHECK_DEADLOCK FALSE
