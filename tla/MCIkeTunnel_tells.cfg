SPECIFICATION TunnelSpec
CONSTANTS
  n1 = n1
  n2 = n2
  Eap = FALSE
  Dpd = FALSE
  Wanted <- OneNetwork
  Keyed = {}
  Numbers = {}
  OrderNumbers = {}
  Networks = {n1, n2}
  GatewaySpis = {1, 2, 3, 4, 5, 6}
  InitRetries = 1
  GroupRetries = 1
  Retransmits = 1
  CloseSends = 1
  MaxSas = 2
  MaxRequests = 2
  MaxOrders = 2
CHECK_DEADLOCK FALSE
INVARIANT TellsGateway
