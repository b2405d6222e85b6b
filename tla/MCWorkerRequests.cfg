SPECIFICATION Spec
CONSTANTS
    p1 = p1
    w1 = w1
    w2 = w2
    r1 = r1
    r2 = r2
    Projects = {p1}
    Handles = {w1, w2}
    Requests = {r1, r2}
    None = None
    Shutdown = Shutdown
    MaxFaults = 1
SYMMETRY Interchangeable
INVARIANT NobodyForgotten
PROPERTIES ImplementsContract
\* A supervisor that was closed has nothing left to do.
CHECK_DEADLOCK FALSE
