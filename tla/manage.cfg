SPECIFICATION FairSpec
CONSTANTS
  Options <- SomeOptions
  Entered <- SomeValues
  OtherRequests <- Harmless
  Lengths = {4}
  RequestsMax = 2
  OthersMax = 1
  Counted = {2}
  CountMax = 1
  FailsMax = 1
  Networks = {TRUE, FALSE}
CHECK_DEADLOCK FALSE
INVARIANTS
  AnswersOwnRequest
  FreshRetrieval
  SuccessMeansDone
PROPERTY EventuallyAnswered
