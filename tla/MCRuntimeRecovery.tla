-------------------------- MODULE MCRuntimeRecovery --------------------------
(* Failures of one agent session on one provider circuit.                   *)
EXTENDS RuntimeRecovery

CONSTANTS j1, j2, c1, s1, t1, t2, t3

MCCircuitOf == [j \in Jobs |-> c1]
MCSessionOf == [j \in Jobs |-> s1]
=============================================================================
