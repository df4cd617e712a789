SPECIFICATION Spec
CONSTANTS
  Credentials <- SomeCredentials
  Children = 1
  MaxDrops = 0
  MaxBreaks = 1
PROPERTY RemovedBeforeReturning
CHECK_DEADLOCK FALSE
