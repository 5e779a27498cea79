SPECIFICATION FairSpec
CONSTANTS
  Wants <- MCWants
  Scenarios <- MCScenarios
  MaxIds = 3
CHECK_DEADLOCK FALSE
INVARIANTS PeeringInv
PROPERTIES ReleasedClean ImplementsManaged Converges
