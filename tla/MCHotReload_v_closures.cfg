CONSTANTS
    None = none
    Hosts = {h1, h2}
    Plans = {p1, p2}
    Scopes = {s1, s2}
    Frames = {f1, f2}
    MaxRetained = 2
SPECIFICATION Spec
INVARIANTS
    ClosuresKeepTheirRevision
SYMMETRY Symmetry
CHECK_DEADLOCK FALSE
