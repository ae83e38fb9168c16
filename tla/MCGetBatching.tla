---------------------------- MODULE MCGetBatching ----------------------------
(***************************************************************************)
(* The scenarios of GetBatching for TLC: one setup of five EPCs; two setups *)
(* and a get of the same object of a device that behaves as devices are     *)
(* known to; the same under a policy, with any answers whatever; and a      *)
(* setup, a get and a request_get of a node that loses its address.         *)
(***************************************************************************)
EXTENDS GetBatching

CONSTANTS maker, e1, e2, e3, e4, setup, setup2, get, once

MCEPCs == {maker, e1, e2, e3, e4}
MCKinds == {"silent", "partial", "empty"}

MCPlain(wanted, device, maxLosses) ==
    [wanted |-> wanted, classHasPolicy |-> FALSE, hasPolicy |-> FALSE, pairs |-> {},
     maxBatch |-> NoLimit, device |-> device, rival |-> device, moves |-> FALSE,
     maxLosses |-> maxLosses]

MCOneSetup ==
    {MCPlain(setup :> <<e1, e2, maker, e3, e4>>, d, 2) :
        d \in [kind : MCKinds, capable : 1..5, supported : SUBSET MCEPCs]}

MCShared == setup :> <<e1, e2, maker, e3>> @@ setup2 :> <<e3, e2>> @@ get :> <<e1, e2>>

MCConcurrent ==
    {MCPlain(MCShared, d, 1) :
        d \in [kind : MCKinds, capable : 1..4,
               supported : {{}, {maker, e1}, {maker, e3}, {maker, e1, e2, e3}}]}

(* Only whether it has the manufacturer code matters of a wild device. *)
MCUnderPolicy ==
    {[MCPlain([MCShared EXCEPT ![setup2] = <<e3>>], d, 0)
        EXCEPT !.classHasPolicy = TRUE, !.hasPolicy = TRUE,
               !.pairs = {{e1, e2}}, !.maxBatch = 2] :
        d \in [kind : {"wild"}, capable : {1}, supported : {{}, {maker}}]}

MCMoving ==
    {[MCPlain(setup :> <<e1, e2, e3>> @@ setup2 :> <<e1, e2>> @@ once :> <<e1, e2>>, d, 0)
        EXCEPT !.rival = [d EXCEPT !.capable = 4 - @], !.moves = TRUE] :
        d \in [kind : MCKinds, capable : {1, 3}, supported : {{maker, e1, e2, e3}}]}

MCScenarios == MCOneSetup \cup MCConcurrent \cup MCUnderPolicy \cup MCMoving
=============================================================================
