SPECIFICATION Spec
CONSTANTS
  t1 = t1  t2 = t2  n1 = n1  n2 = n2  c1 = c1  c2 = c2  v1 = v1  v2 = v2
  Threads <- TwoThreads
  NetNames <- TwoNets
  ContNames <- OneCont
  VolNames <- NoVols
  Anonymous <- NoVols
  MountLists <- NoMounts
  Pool <- TwoCandidates
  UserSubnets <- NoSubnets
  Hosts = 2
  Faults <- CloneFails
  None = None
PROPERTIES
  AutoSubnetsDisjoint
