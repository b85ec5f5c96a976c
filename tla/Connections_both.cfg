SPECIFICATION FairSpec
CONSTANTS
  c1 = c1  c2 = c2  c3 = c3
  NoClient = NoClient
  Clients <- ThreeClients
  MaxRequests <- OneAsks
CHECK_DEADLOCK FALSE
INVARIANTS
  TypeOK
  OneThreadEach
PROPERTIES
  PatientAnswered
