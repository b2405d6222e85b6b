SPECIFICATION Spec
CONSTANTS
    k1 = k1
    k2 = k2
    s1 = s1
    s2 = s2
    Keys = {k1, k2}
    Streams = {s1, s2}
    None = None
    MaxTasks = 2
    MaxOpens = 2
    MaxDisturbances = 2
SYMMETRY Interchangeable
INVARIANTS TypeOK RanOnce TaskHeld DeliveryBacked
PROPERTY CallFinal
\* A stage run whose streams have ended waits for its users.
CHECK_DEADLOCK FALSE
