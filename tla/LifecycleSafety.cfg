SPECIFICATION Spec
CONSTANTS
  c1 = c1  c2 = c2  t1 = t1  t2 = t2  p1 = p1  p2 = p2  p3 = p3
  Containers <- TwoContainers
  Networked <- OnlyC1
  Deaf <- OnlyC2
  Clients <- TwoClients
  Pids <- ThreePids
  Faults <- NoFaults
  SockCap = 2
  PollLimit = 1
  Absent = Absent  Empty = Empty  ForkError = ForkError  None = None
INVARIANTS
  TypeOK
  OneRunPerContainer
  RunningIffInFlight
  SendNeverBlocks
  JailsAccountedFor
PROPERTIES
  ExitedAfterTeardown
  ImplementsContainerStatus
SYMMETRY MCSymmetry
