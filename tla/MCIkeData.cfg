SPECIFICATION Spec
CONSTANTS
  NoMessage = NoMessage
  MaxFragments = 3
  Window = 2
  MaxSeq = 3
  Limit = 2
  Generations = 2
  Settings <- SomeSettings
  Foreign <- SomeForeign
  IkeOffers <- SomeIkeOffers
  EspOffers <- SomeEspOffers
  Totals = {1, 2}
  Challenges = {1, 2}
  Loads <- SomeLoads
  MaxSas = 2
INVARIANTS
  TypeOK
  AlgorithmsAgree
  ProvenGateway
  WholeMessages
  NumbersOnce
CHECK_DEADLOCK FALSE
