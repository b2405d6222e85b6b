SPECIFICATION Spec
CONSTANTS
    Requests = {r1, r2}
    Nobody = Nobody
    MaxPaths = 2
    MaxEdits = 3
    MaxCheckpoints = 4
    MaxConflicts = 1
    MaxAttempts = 2
SYMMETRY Interchangeable
CONSTRAINT Focus
INVARIANTS TypeOK RegisteredBacked
PROPERTIES UserContentKept RestoreComplete ClosedStays
CHECK_DEADLOCK FALSE
