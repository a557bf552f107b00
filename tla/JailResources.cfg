SPECIFICATION Spec
CONSTANTS
  c1 = c1  c2 = c2  c3 = c3
  n1 = n1  n2 = n2  n3 = n3  n4 = n4
  Containers <- ThreeContainers
  Networks <- FourNetworks
  NetsOf <- Attached
  Driver <- Drivers
  MountsOf <- Mounts
  Inside <- Below
  MaxRuns = 2
  Faults <- AllFaults
  Host = Host  Dying = Dying
CONSTRAINT Pairs
CHECK_DEADLOCK FALSE
INVARIANTS
  TypeOK
  NothingLeft
  ReadyToRun
  AddressOnItsBridge
