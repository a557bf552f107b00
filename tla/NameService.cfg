SPECIFICATION Spec
CONSTANTS
  c1 = c1  n1 = n1  n2 = n2
  Containers <- OneContainer
  Networks <- TwoNetworks
  NetsOf <- Both
  NameOf <- Below
  HostName <- Internal
  Subnet <- Subnets
  Width = 2
  Questions <- TwoQuestions
  Forwarders = 2
  Faults <- AllFaults
  None = None
INVARIANTS
  TypeOK
  RegistrationKept
  RunningIsResolvable
  ReplyMatches
PROPERTIES
  AnswerIsComplete
  ForwardedIsUnknown
  QueriesEnd
CONSTRAINT
  StartedOnce
