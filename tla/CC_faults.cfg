SPECIFICATION Spec
CONSTANTS
  a = a
  b = b
  Keys <- MCKeys
  Vals <- MCVals
  Wants <- MCWants
  CreateOnly <- MCNone
  SpecIdentifier = 0
  Expiring <- MCUpdates
  UserKinds <- MCEditors
  FaultKinds <- MCMishaps
  MaxIds = 2
  MaxGen = 2
  MaxFaults = 1
CHECK_DEADLOCK FALSE
SYMMETRY MCSymmetry
INVARIANTS IInv OneResourceUntilEdited
PROPERTIES ReleasedWhenGone QuietAfterGone ImplementsManaged
