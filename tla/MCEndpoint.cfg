CONSTANTS
    c1 = c1
    c2 = c2
    Calls <- MCCalls
    Scenarios <- MCScenarios
    MaxPendingCalls = 1
    MaxPendingControls = 2
    MaxPendingResults = 1
SPECIFICATION Spec
INVARIANTS
    PeersAgree
    DecisionsAgree
    CountersAgree
PROPERTIES
    ResultsSettle
    RequestsReturn
CHECK_DEADLOCK FALSE
