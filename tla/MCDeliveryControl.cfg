SPECIFICATION Spec
CONSTANTS
    NumStages = 2
    MaxAttempts = 2
    MaxTasks = 1
    MaxVersions = 0
    MaxGates = 0
    MaxAgentRooms = 1
    MaxControls = 1
    MaxCrashes = 1
    WarnStages = {2}
INVARIANTS TypeOK SupersededInert ControlHitsCurrentRun
\* A stopped, abandoned or failed workflow takes no further step, nor does
\* one that has used up its bounds.
CHECK_DEADLOCK FALSE
