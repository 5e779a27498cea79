SPECIFICATION FairSpec
CONSTANTS
  a = a
  b = b
  Wants <- MCWants
  Scenarios <- MCScenarios
  Subnets <- MCSubnets
  Tags <- MCTags
  MaxIds = 4
CHECK_DEADLOCK FALSE
INVARIANTS GatewayInv SoleGatewayRemoved
PROPERTIES ReleasedClean ImplementsManaged Converges
