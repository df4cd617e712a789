SPECIFICATION Spec
CONSTANTS
  Networks = {"net", "lan", "around", "gateway", "default", "low", "high"}
  Around = {"around"}
  Names = {"home", "vpn", "s0", "s1", "s2"}
  NoRoute = NoRoute
  MaxBadRequests = 2
  Configs <- VariedConfigs
  Batches <- SomeBatches
  MaxFailures = 2
  OtherLine <- SomeOther
INVARIANTS
  TypeOK
  RoutesRestored
  ResolvRestored
  GatewayOutside
  SessionsClosed
PROPERTIES
  StopEnds
  ImplementsService
CHECK_DEADLOCK FALSE
