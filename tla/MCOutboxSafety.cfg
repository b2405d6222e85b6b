SPECIFICATION Spec
CONSTANTS
    audit_v1 = audit_v1
    websocket_v1 = websocket_v1
    LocalAudit = audit_v1
    WebSocket = websocket_v1
    Consumers <- MCConsumers
    TargetSets <- MCTargetSets
    MaxAttempts = 2
    BatchSize = 1
    MaxEvents = 2
    MaxRestarts = 1
    MaxFaults = 1
INVARIANTS TypeOK AuditReceipt AggregateSound NoStrandedRow LeaseHeldWhilePublishing
PROPERTIES FirstAttemptsInTimeOrder ImplementsContract
\* A stopped or dead dispatcher takes no further step.
CHECK_DEADLOCK FALSE
