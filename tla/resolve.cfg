SPECIFICATION Spec
CONSTANTS
  Capacity = 3
  Requests <- AllRequests
  RequestLength = 1
  MessageLength = 2
  ClientBytes = 2
  HostBytes = 1
  MaxAnswers = 2
  ExtraUnits = 1
  TryModulus = 256
  CounterMax = 3
  OtherConnections = 1
  Memory = 2
  PeerStalls = FALSE
  PeerResets = FALSE
INVARIANTS
  DownloadIntact
  ResolverIsolated
  NoDanglingAnswers
  HandlersReturn
PROPERTIES
  TriesAdvance
  KeepsToLifecycle
