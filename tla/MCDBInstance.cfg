SPECIFICATION FairSpec
CONSTANTS
  Wants <- MCWants
  Values <- MCValues
  Scenarios <- MCScenarios
  EarlierSnapshots = {TRUE, FALSE}
CHECK_DEADLOCK FALSE
INVARIANTS InstanceInv ObservedMeansApplied
PROPERTIES Converges
