SPECIFICATION FairSpec
CONSTANTS
  Capacity = 2
  Requests <- ProgressRequests
  RequestLength = 1
  MessageLength = 1
  ClientBytes = 2
  HostBytes = 1
  MaxAnswers = 1
  ExtraUnits = 0
  TryModulus = 256
  CounterMax = 1
  OtherConnections = 0
  Memory = 2
  PeerStalls = TRUE
  PeerResets = FALSE
PROPERTIES
  EventuallyReleased
  ErrorReported
  HalfCloseForwarded
