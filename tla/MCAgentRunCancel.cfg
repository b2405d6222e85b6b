SPECIFICATION Spec
CONSTANTS
    k1 = k1
    Runs = {k1}
    Formal = {}
    MaxStreams = 1
    MaxDisturbances = 1
INVARIANTS CancellationPersists
\* With every run settled nothing is left to do.
CHECK_DEADLOCK FALSE
