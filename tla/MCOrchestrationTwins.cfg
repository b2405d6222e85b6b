SPECIFICATION Spec
CONSTANTS
    k1 = k1
    s1 = s1
    s2 = s2
    Keys = {k1}
    Streams = {s1, s2}
    None = None
    MaxTasks = 2
    MaxOpens = 2
    MaxDisturbances = 0
INVARIANT OneTaskPerKey
CHECK_DEADLOCK FALSE
