------------------------------ MODULE MCOutbox ------------------------------
\* Small instance of Outbox: the two consumers of the program.
EXTENDS Outbox

CONSTANTS audit_v1, websocket_v1

MCConsumers == {audit_v1, websocket_v1}
\* create_project appends for the default target, all other services for both.
MCTargetSets == {{audit_v1}, {audit_v1, websocket_v1}}
=============================================================================
