SPECIFICATION Spec
CONSTANTS
    NumStages = 2
    MaxAttempts = 2
    MaxTasks = 0
    MaxVersions = 2
    MaxGates = 1
    MaxAgentRooms = 2
    MaxControls = 0
    MaxCrashes = 0
    WarnStages = {2}
INVARIANTS HandoffBacked LaterStagesUntouched StatusBacked
PROPERTY ImplementsContract
\* A stopped, abandoned or failed workflow takes no further step, nor does
\* one that has used up its bounds.
CHECK_DEADLOCK FALSE
