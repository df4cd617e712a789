SPECIFICATION Spec
CONSTANTS
  n1 = n1
  Eap = TRUE
  Dpd = TRUE
  Wanted <- OneNetwork
  Keyed = {0, 1, 2}
  Numbers = {0, 1, 2}
  OrderNumbers = {0, 1}
  Networks = {n1}
  GatewaySpis = {1}
  InitRetries = 2
  GroupRetries = 1
  Retransmits = 2
  CloseSends = 1
CHECK_DEADLOCK FALSE
INVARIANTS
  TypeOK
  NonceUnique
  HostOnlyEstablished
PROPERTY UpWithChild
