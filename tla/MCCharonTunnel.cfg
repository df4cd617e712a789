SPECIFICATION Spec
CONSTANTS
  Credentials <- SomeCredentials
  Children = 2
  MaxDrops = 1
  MaxBreaks = 1
INVARIANTS
  TypeOK
  OwnAnswers
  ViewAgrees
PROPERTIES
  StopEnds
  ImplementsService
CHECK_DEADLOCK FALSE
