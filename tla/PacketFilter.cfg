SPECIFICATION Spec
CONSTANTS
  c1 = c1  c2 = c2  n1 = n1
  Containers <- TwoContainers
  Networks <- OneNetwork
  NetsOf <- SharedNetwork
  PortsOf <- SharedPorts
  DnsPort = 53
  Resolver = Resolver
  RuleCap <- RoomForThree
  Faults <- AllFaults
  None = None
INVARIANTS
  TypeOK
  NatHasRdr
  Reachable
  StoppedIsUnpublished
  ShutdownUnpublishes
PROPERTIES
  StopTakesOnlyItsPorts
