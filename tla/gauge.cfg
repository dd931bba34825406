SPECIFICATION Spec
CONSTANTS
  Capacity = 2
  Requests <- AddressRequests
  RequestLength = 1
  MessageLength = 2
  ClientBytes = 2
  HostBytes = 1
  MaxAnswers = 0
  ExtraUnits = 0
  TryModulus = 256
  CounterMax = 3
  OtherConnections = 1
  Memory = 2
  PeerStalls = FALSE
  PeerResets = FALSE
INVARIANT GaugeExact
