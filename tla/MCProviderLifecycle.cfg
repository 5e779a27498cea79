SPECIFICATION LifecycleFairSpec
CONSTANTS
    r1 = r1
    r2 = r2
    ProviderNames <- MCNames
    Resources <- MCResources
    Lives <- MCScenarios
INVARIANTS LifecycleInv
PROPERTIES ReleasedUnused ResourcesGo ProvidersGo
CHECK_DEADLOCK FALSE
