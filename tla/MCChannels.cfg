SPECIFICATION Spec
CONSTANTS
    u = u
    b = b
    Chans = {u, b}
    Nil = nil
    Tasks = {t1, t2, t3}
    NoTask = noTask
    MaxOps = 2
    MaxCases = 2
    Capacity <- MCCapacity
    Starts <- MCStarts
    Values <- MCValues
    Tokens <- MCTokens
    Selects <- MCSelects
INVARIANTS
    WaitersLive
    SendersAccounted
    CloseReleases
PROPERTIES
    ImplementsPromise
    WakeLeavesNobody
SYMMETRY TaskSymmetry
CHECK_DEADLOCK FALSE
