--------------------------- MODULE MCRequestQueue ---------------------------
(***************************************************************************)
(* Instances of RequestQueue for TLC.  nodeA gets a SetC, a setup GET,      *)
(* and a poll GET; nodeB gets an INF_REQ.  A run picks the requests it      *)
(* needs.                                                                  *)
(***************************************************************************)
EXTENDS RequestQueue

CONSTANTS set, get, poll, inf, \* requests
          nodeA, nodeB           \* addresses

MCAddressOf == [r \in Requests |-> IF r = inf THEN nodeB ELSE nodeA]

MCPriorityOf == [r \in Requests |->
    IF r = set THEN 0 ELSE IF r = poll THEN 2 ELSE 1]

(* A GET and a poll of one object are matched by the same EOJs and ESVs. *)
MCServiceOf == [r \in Requests |->
    IF r = set THEN "set" ELSE IF r = inf THEN "inf" ELSE "get"]

MCInfRequests == Requests \cap {inf}
=============================================================================
