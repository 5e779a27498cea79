SPECIFICATION FairSpec
CONSTANTS
  Wants <- MCWants
  Scenarios <- MCScenarios
  CrossAccount = TRUE
CHECK_DEADLOCK FALSE
INVARIANTS AssociationInv AuthorizationTransient
PROPERTIES ImplementsManaged Converges
