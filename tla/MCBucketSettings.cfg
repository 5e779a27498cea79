SPECIFICATION FairSpec
CONSTANTS
  Wants <- MCWants
  Scenarios <- MCScenarios
  Settings = 2
  PutOnly <- MCPutOnly
CHECK_DEADLOCK FALSE
INVARIANTS BucketInv
PROPERTIES OthersLeftAlone Settled
