CONSTANTS
    s1 = s1
    s2 = s2
    Scopes <- MCScopes
    ScopeOf <- MCScopeOf
    Kinds = {"func"}
    MaxStarts = 2
    MaxSignals = 1
    MaxCalls <- MCMaxCalls
    MaxPendingEvents = 2
SPECIFICATION Spec
PROPERTIES
    AfterFuncCalls
CHECK_DEADLOCK FALSE
