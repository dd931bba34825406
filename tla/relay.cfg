SPECIFICATION Spec
CONSTANTS
  Capacity = 3
  Requests <- AddressRequests
  RequestLength = 2
  MessageLength = 2
  ClientBytes = 5
  HostBytes = 3
  MaxAnswers = 0
  ExtraUnits = 0
  TryModulus = 256
  CounterMax = 3
  OtherConnections = 1
  Memory = 3
  PeerStalls = TRUE
  PeerResets = TRUE
INVARIANTS
  TypeOK
  DispatchHandled
  NoEmptyTransfer
  AlwaysWatched
  NoOrphanOrigin
  UploadIntact
  DownloadIntact
  HalfCloseAfterDelivery
  GaugeNeverLeaks
