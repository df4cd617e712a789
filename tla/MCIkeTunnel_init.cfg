SPECIFICATION TunnelSpec
CONSTANTS
  n1 = n1
  n2 = n2
  Eap = FALSE
  Dpd = FALSE
  Wanted <- OneNetwork
  Keyed = {}
  Numbers = {}
  OrderNumbers = {}
  Networks = {n1, n2}
  GatewaySpis = {1, 2, 3, 4, 5, 6}
  InitRetries = 3
  GroupRetries = 1
  Retransmits = 1
  CloseSends = 1
  MaxSas = 1
  MaxRequests = 2
  MaxOrders = 1
CHECK_DEADLOCK FALSE
INVARIANT SameInit
