CONSTANTS
  ann = ann  ben = ben  cyd = cyd  use = use  manage = manage  nether = nether
  player = player  admin = admin  blocked = blocked
  Players = {ann, ben, cyd}
  Nodes <- SomeNodes
  Contexts = {nether}
  Wildcard = any
  Everyone = everyone
  Groups <- ThreeGroups
  DefaultGroup = player
  MaxAssignments = 2
  InitialStores <- FreshOrBlocked
  MaxVersion = 3
  MaxOutstanding = 1
  Faults = {"batch_rejection", "uncertain_write", "read_failure", "publication_refusal", "restart"}
SPECIFICATION FairSpec
INVARIANTS GrantsAreStored AdmissionMatchesCheck
PROPERTIES LastTableInForce UpdateEnds
