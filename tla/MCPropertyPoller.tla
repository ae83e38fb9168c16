--------------------------- MODULE MCPropertyPoller ---------------------------
(***************************************************************************)
(* An instance of PropertyPoller for TLC: an EPC of each tier and one that  *)
(* cannot be read, and intervals that let latency and backoff each reach    *)
(* the cap.                                                                 *)
(***************************************************************************)
EXTENDS PropertyPoller, TLC

CONSTANTS c1, c2

MCBundles == {{1}, {1, 2}}
MCPaces == {1, 4}
MCCapacities == {None, 1}
MCSymmetry == Permutations(Consumers)
=============================================================================
