CONSTANTS
    c1 = c1
    c2 = c2
    k1 = k1
    k2 = k2
    r1 = r1
    r2 = r2
    Calls <- MCCalls
    Resources <- MCResources
    Consumers <- MCConsumers
    Scenarios <- MCScenarios
    MaxPendingCalls = 2
    MaxResources = 2
SPECIFICATION Spec
INVARIANTS
    OwnedOrReleased
PROPERTIES
    KeepsPromise
    CleanupCompletes
CHECK_DEADLOCK FALSE
