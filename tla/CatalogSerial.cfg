SPECIFICATION Spec
CONSTANTS
  t1 = t1  t2 = t2  n1 = n1  n2 = n2  c1 = c1  c2 = c2  v1 = v1  v2 = v2
  Threads <- OneThread
  NetNames <- TwoNets
  ContNames <- TwoConts
  VolNames <- TwoVols
  Anonymous <- SecondVol
  MountLists <- OneMount
  Pool <- TwoCandidates
  UserSubnets <- Larger
  Hosts = 2
  Faults <- NoTermination
  None = None
INVARIANTS
  TypeOK
  FreshAddresses
  LinksClosed
  NothingPending
  AnsweredIsStored
PROPERTIES
  AutoSubnetsDisjoint
SYMMETRY MCSymmetry
