------------------------------ MODULE MCNodeJobs ------------------------------
(* Instances of NodeJobs for TLC.  Workers are numbers, so that the choice   *)
(* of a free name is deterministic.                                         *)
EXTENDS NodeJobs

CONSTANTS nodeA, nodeB, aircon, light

OneObject == [n \in {nodeA} |-> <<aircon>>]
TwoNodes == [n \in {nodeA, nodeB} |-> IF n = nodeA THEN <<aircon>> ELSE <<light>>]
=============================================================================
