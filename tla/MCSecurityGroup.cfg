SPECIFICATION GroupFairSpec
CONSTANTS
  Wants <- MCWants
  Scenarios <- MCScenarios
  MaxIds = 3
  VpcGoes = TRUE
CHECK_DEADLOCK FALSE
INVARIANTS GroupInv ReadyMeansApplied
PROPERTIES GroupConverges
