---------------------------- MODULE MCEventStream ----------------------------
\* Small instance of EventStream: the observed workflow and another one, a
\* socket in use and two whose handlers have not yet noticed that they are left.
EXTENDS EventStream

CONSTANTS w1, w2, c1, c2, c3

MCWorkflows == {w1, w2}
MCConns == {c1, c2, c3}
=============================================================================
