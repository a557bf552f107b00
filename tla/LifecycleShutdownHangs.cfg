SPECIFICATION LiveSpec
CONSTANTS
  c1 = c1  c2 = c2  t1 = t1  t2 = t2  p1 = p1  p2 = p2  p3 = p3
  Containers <- OneContainer
  Networked <- OnlyC1
  Deaf <- NoContainer
  Clients <- OneClient
  Pids <- TwoPids
  Faults <- TermOnly
  SockCap = 1
  PollLimit = 1
  Absent = Absent  Empty = Empty  ForkError = ForkError  None = None
PROPERTIES
  ShutdownEnds
CHECK_DEADLOCK FALSE
