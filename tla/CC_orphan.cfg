SPECIFICATION Spec
CONSTANTS
  a = a
  b = b
  Keys <- MCKeys
  Vals <- MCVals
  Wants <- MCWants
  CreateOnly <- MCNone
  SpecIdentifier = 0
  Expiring <- MCNone
  UserKinds <- MCRemovals
  FaultKinds <- MCNone
  MaxIds = 2
  MaxGen = 1
  MaxFaults = 0
CHECK_DEADLOCK FALSE
INVARIANTS DeletesUnderlying
