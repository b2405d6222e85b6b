SPECIFICATION FairSpec
CONSTANTS
    p1 = p1
    w1 = w1
    w2 = w2
    r1 = r1
    Projects = {p1}
    Handles = {w1, w2}
    Requests = {r1}
    None = None
    Shutdown = Shutdown
    MaxFaults = 1
INVARIANTS ProcessOwned ClosedMeansStopped
PROPERTIES StopEnds DeadWorkerReleasesCallers
\* A supervisor that was closed has nothing left to do.
CHECK_DEADLOCK FALSE
