SPECIFICATION TunnelFairSpec
CONSTANTS
  n1 = n1
  n2 = n2
  Eap = TRUE
  Dpd = TRUE
  Wanted <- TwoNetworks
  Keyed = {}
  Numbers = {}
  OrderNumbers = {}
  Networks = {n1, n2}
  GatewaySpis = {1, 2, 3, 4, 5, 6}
  InitRetries = 1
  GroupRetries = 1
  Retransmits = 2
  CloseSends = 1
  MaxSas = 1
  MaxRequests = 5
  MaxOrders = 1
CHECK_DEADLOCK FALSE
PROPERTIES
  DeathNoticed
  TeardownEnds
  UpCovers
