CONSTANTS
    s1 = s1
    s2 = s2
    Scopes <- MCScopes
    ScopeOf <- MCScopeOf
    Kinds = {"ticker", "timer", "func"}
    MaxStarts = 2
    MaxSignals = 1
    MaxCalls <- MCMaxCalls
    MaxPendingEvents = 2
SPECIFICATION Spec
INVARIANTS
    ReadyIsAnnounced
    OneTickSource
    StopIsFinal
PROPERTIES
    CallbackRuns
CHECK_DEADLOCK FALSE
