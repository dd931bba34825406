SPECIFICATION Spec
CONSTANTS
  Options <- ModifyOptions
  Entered <- SomeValues
  OtherRequests <- Changing
  Lengths = {4, 6}
  RequestsMax = 1
  OthersMax = 2
  Counted = {}
  CountMax = 0
  FailsMax = 0
  Networks = {FALSE}
CHECK_DEADLOCK FALSE
PROPERTY ChangesCarryTheirValue
