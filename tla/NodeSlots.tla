------------------------------ MODULE NodeSlots ------------------------------
(***************************************************************************)
(* What ADR-0011 promises of the request queues of a HemsClient, without    *)
(* saying how: every node address has one slot, at most one request holds   *)
(* it, and the requests that found it taken are admitted one at a time, by  *)
(* priority and, within a priority, in the order in which they arrived.     *)
(* A waiting request may give up, the client may turn away everything it    *)
(* holds (stop).  RequestQueue is shown to implement this specification.    *)
(***************************************************************************)
EXTENDS Naturals

CONSTANTS Requests,    \* the calls of HemsClient._send_request
          Addresses,   \* the node addresses
          AddressOf,   \* [Requests -> Addresses]: where a request is sent
          PriorityOf,  \* [Requests -> Nat]: RequestPriority, smaller is first
          None         \* "no request"

VARIABLES holder,   \* the request that holds the slot of an address, or None
          waiting,  \* the requests waiting for it
          arrival   \* the place of a waiting request in the order of arrival

slots == <<holder, waiting, arrival>>

TypeOK ==
    /\ holder \in [Addresses -> Requests \cup {None}]
    /\ waiting \in [Addresses -> SUBSET Requests]
    /\ arrival \in [Requests -> Nat]

Init ==
    /\ holder = [a \in Addresses |-> None]
    /\ waiting = [a \in Addresses |-> {}]
    /\ arrival = [r \in Requests |-> 0]

(* The order in which two waiting requests are admitted. *)
Precedes(r, s) ==
    \/ PriorityOf[r] < PriorityOf[s]
    \/ PriorityOf[r] = PriorityOf[s] /\ arrival[r] < arrival[s]

First(a, r) ==
    /\ r \in waiting[a]
    /\ \A s \in waiting[a] \ {r} : Precedes(r, s)

(* A request finds the slot free and nobody waiting. *)
Take(r) ==
    LET a == AddressOf[r] IN
    /\ holder[a] = None
    /\ waiting[a] = {}
    /\ holder' = [holder EXCEPT ![a] = r]
    /\ UNCHANGED <<waiting, arrival>>

(* A request finds the slot taken and waits behind everyone who arrived. *)
Join(r) ==
    LET a == AddressOf[r] IN
    /\ holder[a] # None
    /\ r \notin waiting[a]
    /\ waiting' = [waiting EXCEPT ![a] = @ \cup {r}]
    /\ \A s \in waiting[a] : arrival[s] < arrival'[r]
    /\ arrival' = [arrival EXCEPT ![r] = arrival'[r]]
    /\ UNCHANGED holder

(* A waiting request is cancelled. *)
Withdraw(r) ==
    LET a == AddressOf[r] IN
    /\ r \in waiting[a]
    /\ waiting' = [waiting EXCEPT ![a] = @ \ {r}]
    /\ UNCHANGED <<holder, arrival>>

(* The holder leaves, and the first waiting request, if any, follows it. *)
Leave(a) ==
    /\ holder[a] # None
    /\ \/ /\ waiting[a] = {}
          /\ holder' = [holder EXCEPT ![a] = None]
          /\ UNCHANGED waiting
       \/ \E r \in waiting[a] :
            /\ First(a, r)
            /\ holder' = [holder EXCEPT ![a] = r]
            /\ waiting' = [waiting EXCEPT ![a] = @ \ {r}]
    /\ UNCHANGED arrival

(* The client stops: nobody holds or waits for a slot any more. *)
TurnAway ==
    /\ holder' = [a \in Addresses |-> None]
    /\ waiting' = [a \in Addresses |-> {}]
    /\ UNCHANGED arrival

Next ==
    \/ \E r \in Requests : Take(r) \/ Join(r) \/ Withdraw(r)
    \/ \E a \in Addresses : Leave(a)
    \/ TurnAway

Spec == Init /\ [][Next]_slots
=============================================================================
