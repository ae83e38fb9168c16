--------------------------- MODULE MCNodeDiscovery ---------------------------
(***************************************************************************)
(* Instances of NodeDiscovery for TLC: two nodes and two addresses, room    *)
(* for two queued frames, and either a stop and a restart or a change of    *)
(* address.                                                                 *)
(***************************************************************************)
EXTENDS NodeDiscovery, TLC

CONSTANTS n1, n2, a1, a2

MCLimits ==
    {[frames |-> 2, profiles |-> 1, moves |-> 0, learned |-> 0, stops |-> 1],
     [frames |-> 3, profiles |-> 2, moves |-> 1, learned |-> 1, stops |-> 0],
     [frames |-> 0, profiles |-> 1, moves |-> 0, learned |-> 2, stops |-> 1]}

MCSymmetry == Permutations(Nodes) \cup Permutations(Addresses)
=============================================================================
