SPECIFICATION FairSpec
CONSTANTS
    w1 = w1
    w2 = w2
    ctl = ctl
    Names <- MCNames
    Namespaces <- MCNamespaces
    Roles <- MCRoles
    Workers <- MCWorkers
    Verifier = ctl
    MaxStack = 3
    Scenarios <- MCScenarios
INVARIANTS IInv
PROPERTIES ScopesCurrent VerifiedInTheEnd
CHECK_DEADLOCK FALSE
