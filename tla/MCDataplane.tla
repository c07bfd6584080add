---------------------------- MODULE MCDataplane ----------------------------
EXTENDS Dataplane

CONSTANT n1

AtN1 == [t \in TicketIds |-> n1]
GwRestarts == [p \in Procs |-> IF p = Gw THEN 1 ELSE 0]
=============================================================================
