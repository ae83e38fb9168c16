--------------------------- MODULE MCPropertyCache ---------------------------
(***************************************************************************)
(* An instance of PropertyCache for TLC: an EPC that can be read and one    *)
(* that cannot, and Sets that overlap each other, a poll and a change, or   *)
(* a loss.                                                                  *)
(***************************************************************************)
EXTENDS PropertyCache

MCBudgets ==
    {[set |-> 2, poll |-> 0, change |-> 0, loss |-> 1],
     [set |-> 2, poll |-> 0, change |-> 1, loss |-> 0],
     [set |-> 1, poll |-> 1, change |-> 1, loss |-> 1]}
=============================================================================
