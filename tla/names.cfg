SPECIFICATION Spec
CONSTANTS
  Texts <- LineTexts
  Ipv4Literals <- TheIpv4Literal
  Ipv6Literals <- TheIpv6Literal
  MaxMethodLength = 9
  MaxFqdnLength = 9
  MaxOriginForm = 5
  Code <- AsciiCode
  OctetModulus = 25
  MaxLabel = 5
  Answers = 256
  AnswerCounts = {0, 1, 2, 3, 256}
  AnswersSent = 3
  Heads <- TwoHeads
  BadHeads <- ThreeBadHeads
  Names <- AnswerNames
  Addresses <- SomeAddresses
  OtherType = 16
  MaxQnameLength = 9
INVARIANTS
  
  TargetAsSaid
  QueryNamesHost
  DecisionsAgree
  TableFaithful
