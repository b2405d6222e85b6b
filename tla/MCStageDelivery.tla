-------------------------- MODULE MCStageDelivery --------------------------
\* Small instances of StageDelivery, given in the configurations.
EXTENDS StageDelivery
=============================================================================
