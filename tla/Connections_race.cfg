SPECIFICATION FairSpec
CONSTANTS
  c1 = c1  c2 = c2  c3 = c3
  NoClient = NoClient
  Clients <- TwoClients
  MaxRequests <- NoRequests
CHECK_DEADLOCK FALSE
PROPERTIES
  AlwaysAnswered
