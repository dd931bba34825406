SPECIFICATION Spec
CONSTANTS
  Sessions <- SomeSessions
  Portions <- SomeOrAll
  NoLogin = NoLogin
  MaxUserLength = 3
  MaxPasswordLength = 3
  MaxAuthValueLength = 8
INVARIANTS
  ExaminedInOrder
  LoggedAsSaid
