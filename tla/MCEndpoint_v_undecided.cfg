CONSTANTS
    c1 = c1
    c2 = c2
    Calls <- MCCalls
    Scenarios <- MCUndecided
    MaxPendingCalls = 2
    MaxPendingControls = 1
    MaxPendingResults = 2
SPECIFICATION Spec
PROPERTIES
    ResultsDecided
CHECK_DEADLOCK FALSE
