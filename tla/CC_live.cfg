SPECIFICATION FairSpec
CONSTANTS
  a = a
  b = b
  Keys <- MCTwoKeys
  Vals <- MCVals
  Wants <- MCOneWant
  CreateOnly <- MCFixed
  SpecIdentifier = 1
  Expiring <- MCAllOps
  UserKinds <- MCLeavers
  FaultKinds <- MCDamage
  MaxIds = 3
  MaxGen = 1
  MaxFaults = 1
CHECK_DEADLOCK FALSE
INVARIANTS AdoptedNotRecreated
PROPERTIES Converges
