SPECIFICATION FairSpec
CONSTANTS
    audit_v1 = audit_v1
    websocket_v1 = websocket_v1
    LocalAudit = audit_v1
    WebSocket = websocket_v1
    Consumers <- MCConsumers
    TargetSets <- MCTargetSets
    MaxAttempts = 3
    BatchSize = 1
    MaxEvents = 1
    MaxRestarts = 2
    MaxFaults = 2
PROPERTY EventuallySettled
\* A stopped or dead dispatcher takes no further step.
CHECK_DEADLOCK FALSE
