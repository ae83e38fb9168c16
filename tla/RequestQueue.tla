---------------------------- MODULE RequestQueue ----------------------------
(***************************************************************************)
(* The request pipeline of HemsClient (runtime.py): _send_request, the      *)
(* per-address _NodeRequestQueue it passes through, the transaction IDs,    *)
(* the table of pending requests that _process_frame matches responses      *)
(* against, and stop() and start().                                         *)
(*                                                                         *)
(* The client is one asyncio program: a step is what a task does between    *)
(* two awaits, or one callback of the event loop (a datagram, a timer).     *)
(* A request is one call of _send_request.  A queue object has no name in   *)
(* the code: here it is named after the request that created it.            *)
(***************************************************************************)
EXTENDS Naturals

CONSTANTS Requests,    \* the calls of _send_request
          Addresses,   \* the node addresses they are sent to
          AddressOf,   \* [Requests -> Addresses]
          PriorityOf,  \* [Requests -> Nat]: RequestPriority, smaller is first
          ServiceOf,   \* what a response is matched by besides TID and address:
                       \* the EOJs and the set of response ESVs
          InfRequests, \* the INF_REQ requests: an INF notification answers one
          MaxTid,      \* the largest transaction ID (0xFFFF in the code)
          FirstTids,   \* the transaction IDs the counter may start from
          MaxStarts,   \* bound on the calls of start() after a stop()
          MaxProbes,   \* bound on the multicast probes of the discovery loop
          None         \* no request, no queue

ASSUME RequestsAssumption ==
    /\ AddressOf \in [Requests -> Addresses]
    /\ PriorityOf \in [Requests -> Nat]
    /\ InfRequests \subseteq Requests
    /\ None \notin Requests
    /\ None \notin Addresses

ASSUME BoundsAssumption ==
    /\ MaxTid \in Nat \ {0}
    /\ FirstTids \subseteq 0..MaxTid
    /\ MaxStarts \in Nat
    /\ MaxProbes \in Nat

VARIABLES
    open,        \* _protocol is not None
    starts,      \* how often the client was started again
    probes,      \* how many probes the discovery loop sent
    stuck,       \* the discovery loop spins and nothing else runs any more
    nodeQueues,  \* _node_queues: the queue registered for an address, or None
    queueOf,     \* the queue object a request passed through
    busy,        \* _busy of a queue
    waiters,     \* _waiters of a queue; a cancelled one stays until popped
    sequence,    \* _sequence of a queue
    ticket,      \* the sequence number a waiter drew
    slot,        \* the future a waiter awaits
    pc,          \* where a request is, or how it ended
    cancelling,  \* the task was cancelled and has not run since
    fired,       \* the request_timeout has expired
    tidCounter,  \* _tid_counter
    tid,         \* the transaction ID of a request; 0 when it has none
    pending,     \* _pending: the request registered under a TID, or None
    reply,       \* the future of a pending request
    answer,      \* history: whose response completed that future
    wire         \* the requests that went out; they may be answered at any
                 \* later time, several times or never

clientVars == <<open, starts, probes, stuck>>
queueVars  == <<nodeQueues, queueOf, busy, waiters, sequence, ticket, slot>>
taskVars   == <<pc, cancelling, fired>>
replyVars  == <<reply, answer>>
sendVars   == <<tidCounter, tid, pending, wire>>
vars == <<clientVars, queueVars, taskVars, replyVars, sendVars>>

Outcomes == {"answered", "timeout", "unsent", "stopped", "cancelled", "error"}
Tids == 1..MaxTid

TypeOK ==
    /\ open \in BOOLEAN
    /\ starts \in 0..MaxStarts
    /\ probes \in 0..MaxProbes
    /\ stuck \in BOOLEAN
    /\ nodeQueues \in [Addresses -> Requests \cup {None}]
    /\ queueOf \in [Requests -> Requests \cup {None}]
    /\ busy \in [Requests -> BOOLEAN]
    /\ waiters \in [Requests -> SUBSET Requests]
    /\ sequence \in [Requests -> Nat]
    /\ ticket \in [Requests -> Nat]
    /\ slot \in [Requests -> {"none", "pending", "granted", "failed", "cancelled"}]
    /\ pc \in [Requests -> {"new", "queued", "awaiting"} \cup Outcomes]
    /\ cancelling \in [Requests -> BOOLEAN]
    /\ fired \in [Requests -> BOOLEAN]
    /\ tidCounter \in 0..MaxTid
    /\ tid \in [Requests -> 0..MaxTid]
    /\ pending \in [Tids -> Requests \cup {None}]
    /\ reply \in [Requests -> {"none", "pending", "result", "stopped"}]
    /\ answer \in [Requests -> Requests \cup {None}]
    /\ wire \subseteq Requests

(* A started client with nothing in flight; how far its transaction IDs     *)
(* have counted depends on how long it has been running.                    *)
Init ==
    /\ open = TRUE
    /\ starts = 0
    /\ probes = 0
    /\ stuck = FALSE
    /\ nodeQueues = [a \in Addresses |-> None]
    /\ queueOf = [r \in Requests |-> None]
    /\ busy = [q \in Requests |-> FALSE]
    /\ waiters = [q \in Requests |-> {}]
    /\ sequence = [q \in Requests |-> 0]
    /\ ticket = [r \in Requests |-> 0]
    /\ slot = [r \in Requests |-> "none"]
    /\ pc = [r \in Requests |-> "new"]
    /\ cancelling = [r \in Requests |-> FALSE]
    /\ fired = [r \in Requests |-> FALSE]
    /\ tidCounter \in FirstTids
    /\ tid = [r \in Requests |-> 0]
    /\ pending = [t \in Tids |-> None]
    /\ reply = [r \in Requests |-> "none"]
    /\ answer = [r \in Requests |-> None]
    /\ wire = {}

-----------------------------------------------------------------------------
(* Transaction IDs: _next_transaction_id.                                   *)

(* The k-th transaction ID the search of _next_transaction_id looks at. *)
TidAt(k) == IF tidCounter + k <= MaxTid THEN tidCounter + k
                                        ELSE tidCounter + k - MaxTid

(* Mutants of NextTid: IDs in use are not skipped; the smallest free ID is  *)
(* taken instead of the next one.                                           *)
NextTidEvenIfPending(t) == t = TidAt(1)
SmallestFreeTid(t) == pending[t] = None /\ \A u \in 1..(t - 1) : pending[u] # None

(* t is the ID it returns: the first in that order that is not pending. *)
NextTid(t) ==
    \E k \in Tids :
        /\ t = TidAt(k)
        /\ pending[t] = None
        /\ \A j \in 1..(k - 1) : pending[TidAt(j)] # None

NoTidLeft == \A t \in Tids : pending[t] # None

(* A request whose future is done resumes within two turns of the event     *)
(* loop; the counter does not come round in that time, so the ID such a     *)
(* request is about to drop is not handed out again.  (With MaxTid small,   *)
(* the model has to say so.)                                                *)
NotComeRound(t) ==
    \A s \in Requests : pc[s] = "awaiting" /\ reply[s] # "pending" => tid[s] # t

-----------------------------------------------------------------------------
(* The queue of one node: _NodeRequestQueue.                                *)

Idle(q) == ~busy[q] /\ waiters[q] = {}

(* The waiters whose future is not done: release() skips the others. *)
Live(q) == {s \in waiters[q] : slot[s] = "pending"}

(* Mutant of Before: the heap is ordered by arrival alone. *)
BeforeByArrival(r, s) == ticket[r] < ticket[s]

(* The order of the heap: (priority, sequence). *)
Before(r, s) ==
    \/ PriorityOf[r] < PriorityOf[s]
    \/ PriorityOf[r] = PriorityOf[s] /\ ticket[r] < ticket[s]

(* Mutants of Release: the slot is marked free although it was handed over; *)
(* the first waiter gets it without a look at its future.                   *)
ReleaseFreesSlot(q) ==
    /\ busy' = [busy EXCEPT ![q] = FALSE]
    /\ \/ Live(q) = {} /\ waiters' = [waiters EXCEPT ![q] = {}] /\ UNCHANGED slot
       \/ \E s \in Live(q) :
            /\ \A o \in Live(q) \ {s} : Before(s, o)
            /\ slot' = [slot EXCEPT ![s] = "granted"]
            /\ waiters' = [waiters EXCEPT ![q] = {o \in @ : Before(s, o)}]

ReleaseToFirst(q) ==
    \/ waiters[q] = {} /\ busy' = [busy EXCEPT ![q] = FALSE] /\ UNCHANGED <<waiters, slot>>
    \/ \E s \in waiters[q] :
         /\ \A o \in waiters[q] \ {s} : Before(s, o)
         /\ slot' = [slot EXCEPT ![s] = IF @ = "pending" THEN "granted" ELSE @]
         /\ waiters' = [waiters EXCEPT ![q] = @ \ {s}]
         /\ UNCHANGED busy

(* release(): pop waiters in order up to the first whose future is not      *)
(* done and give it the slot; if there is none, the slot is free.           *)
Release(q) ==
    \/ /\ Live(q) = {}
       /\ busy' = [busy EXCEPT ![q] = FALSE]
       /\ waiters' = [waiters EXCEPT ![q] = {}]
       /\ UNCHANGED slot
    \/ \E s \in Live(q) :
         /\ \A o \in Live(q) \ {s} : Before(s, o)
         /\ slot' = [slot EXCEPT ![s] = "granted"]
         /\ waiters' = [waiters EXCEPT ![q] = {o \in @ : Before(s, o)}]
         /\ UNCHANGED busy

(* The end of _send_request (its finally) once the TID is dealt with:       *)
(* release the slot and drop the queue from _node_queues if it is idle and  *)
(* still the one registered there.                                          *)
Leave(r) ==
    LET q == queueOf[r]
        a == AddressOf[r]
    IN  /\ Release(q)
        /\ nodeQueues' = IF Live(q) = {} /\ nodeQueues[a] = q
                         THEN [nodeQueues EXCEPT ![a] = None]
                         ELSE nodeQueues
        /\ UNCHANGED <<queueOf, sequence, ticket>>

-----------------------------------------------------------------------------
(* Sending, from holding the slot to awaiting the response.                 *)

(* The request is registered under a fresh TID and its datagram goes out. *)
Transmit(r) ==
    /\ open
    /\ \E t \in Tids :
         /\ NextTid(t)
         /\ NotComeRound(t)
         /\ tidCounter' = t
         /\ tid' = [tid EXCEPT ![r] = t]
         /\ pending' = [pending EXCEPT ![t] = r]
    /\ wire' = wire \cup {r}
    /\ reply' = [reply EXCEPT ![r] = "pending"]
    /\ pc' = [pc EXCEPT ![r] = "awaiting"]
    /\ UNCHANGED <<clientVars, cancelling, fired, answer>>

(* Nothing goes out: no TID is left (RuntimeError), the client is stopped,  *)
(* or the socket refuses the datagram (OSError).  The TID drawn in the last *)
(* two cases is unregistered again by the finally.                          *)
FailToSend(r) ==
    /\ \/ /\ NoTidLeft
          /\ tidCounter' = TidAt(MaxTid)
          /\ pc' = [pc EXCEPT ![r] = "error"]
          /\ UNCHANGED tid
       \/ \E t \in Tids :
            /\ NextTid(t)
            /\ NotComeRound(t)
            /\ tidCounter' = t
            /\ tid' = [tid EXCEPT ![r] = t]
            /\ pc' = [pc EXCEPT ![r] = "unsent"]
    /\ UNCHANGED <<clientVars, pending, wire, cancelling, fired, replyVars>>

(* The queue a call finds at its address; a new one if there is none. *)
QueueFor(r) ==
    IF nodeQueues[AddressOf[r]] = None THEN r ELSE nodeQueues[AddressOf[r]]

(* A call that finds the slot free runs up to its await without a pause. *)
CallAndSend(r) ==
    /\ pc[r] = "new"
    /\ Idle(QueueFor(r))
    /\ nodeQueues' = [nodeQueues EXCEPT ![AddressOf[r]] = QueueFor(r)]
    /\ queueOf' = [queueOf EXCEPT ![r] = QueueFor(r)]
    /\ busy' = [busy EXCEPT ![QueueFor(r)] = TRUE]
    /\ Transmit(r)
    /\ UNCHANGED <<waiters, sequence, ticket, slot>>

(* Mutant of CallAndFail: the error escapes before the try block. *)
CallAndFailKeepsSlot(r) ==
    /\ pc[r] = "new"
    /\ Idle(QueueFor(r))
    /\ nodeQueues' = [nodeQueues EXCEPT ![AddressOf[r]] = QueueFor(r)]
    /\ queueOf' = [queueOf EXCEPT ![r] = QueueFor(r)]
    /\ busy' = [busy EXCEPT ![QueueFor(r)] = TRUE]
    /\ FailToSend(r)
    /\ UNCHANGED <<waiters, sequence, ticket, slot>>

(* The same when nothing goes out: it takes the slot, gives it back, and    *)
(* drops the queue.                                                         *)
CallAndFail(r) ==
    /\ pc[r] = "new"
    /\ Idle(QueueFor(r))
    /\ nodeQueues' = [nodeQueues EXCEPT ![AddressOf[r]] = None]
    /\ queueOf' = [queueOf EXCEPT ![r] = QueueFor(r)]
    /\ FailToSend(r)
    /\ UNCHANGED <<busy, waiters, sequence, ticket, slot>>

(* A call that finds the slot taken waits in acquire(). *)
CallAndWait(r) ==
    /\ pc[r] = "new"
    /\ ~Idle(QueueFor(r))
    /\ LET q == QueueFor(r) IN
         /\ queueOf' = [queueOf EXCEPT ![r] = q]
         /\ ticket' = [ticket EXCEPT ![r] = sequence[q]]
         /\ sequence' = [sequence EXCEPT ![q] = @ + 1]
         /\ waiters' = [waiters EXCEPT ![q] = @ \cup {r}]
    /\ slot' = [slot EXCEPT ![r] = "pending"]
    /\ pc' = [pc EXCEPT ![r] = "queued"]
    /\ UNCHANGED <<clientVars, nodeQueues, busy, cancelling, fired, replyVars, sendVars>>

-----------------------------------------------------------------------------
(* A waiter resumes in acquire().                                           *)

ResumeAndSend(r) ==
    /\ pc[r] = "queued" /\ slot[r] = "granted" /\ ~cancelling[r]
    /\ Transmit(r)
    /\ UNCHANGED queueVars

ResumeAndFail(r) ==
    /\ pc[r] = "queued" /\ slot[r] = "granted" /\ ~cancelling[r]
    /\ FailToSend(r)
    /\ Leave(r)

(* fail_waiters() completed its future with ClientStoppedError. *)
ResumeStopped(r) ==
    /\ pc[r] = "queued" /\ slot[r] = "failed" /\ ~cancelling[r]
    /\ pc' = [pc EXCEPT ![r] = "stopped"]
    /\ UNCHANGED <<clientVars, queueVars, cancelling, fired, replyVars, sendVars>>

(* The CancelledError of acquire(): a slot handed over just before is       *)
(* passed on.  The call is outside the try of _send_request, so the queue   *)
(* stays registered even if it is idle now.                                 *)
ResumeCancelled(r) ==
    /\ pc[r] = "queued" /\ cancelling[r]
    /\ IF slot[r] = "cancelled"
         THEN UNCHANGED <<busy, waiters, slot>>
         ELSE Release(queueOf[r])
    /\ pc' = [pc EXCEPT ![r] = "cancelled"]
    /\ UNCHANGED <<clientVars, nodeQueues, queueOf, sequence, ticket,
                   cancelling, fired, replyVars, sendVars>>

-----------------------------------------------------------------------------
(* The wait for the response: wait_for(shield(future), request_timeout).    *)

(* The whole finally of _send_request. *)
Finish(r, outcome) ==
    /\ pc' = [pc EXCEPT ![r] = outcome]
    /\ pending' = [pending EXCEPT ![tid[r]] = None]
    /\ Leave(r)
    /\ UNCHANGED <<clientVars, cancelling, fired, replyVars, tidCounter, tid, wire>>

FinishAnswered(r) ==
    /\ pc[r] = "awaiting" /\ ~cancelling[r]
    /\ reply[r] = "result"
    /\ Finish(r, "answered")

FinishStopped(r) ==
    /\ pc[r] = "awaiting" /\ ~cancelling[r]
    /\ reply[r] = "stopped"
    /\ Finish(r, "stopped")

(* Mutant of FinishTimeout: no look at the future after the timeout. *)
FinishTimeoutAnyway(r) ==
    /\ pc[r] = "awaiting" /\ ~cancelling[r] /\ fired[r]
    /\ Finish(r, "timeout")

(* The timeout counts only if the future is still not done: a response that *)
(* raced it is used.                                                        *)
FinishTimeout(r) ==
    /\ pc[r] = "awaiting" /\ ~cancelling[r] /\ fired[r]
    /\ reply[r] = "pending"
    /\ Finish(r, "timeout")

FinishCancelled(r) ==
    /\ pc[r] = "awaiting" /\ cancelling[r]
    /\ Finish(r, "cancelled")

TimerFires(r) ==
    /\ pc[r] = "awaiting" /\ ~fired[r]
    /\ fired' = [fired EXCEPT ![r] = TRUE]
    /\ UNCHANGED <<clientVars, queueVars, pc, cancelling, replyVars, sendVars>>

(* Any task may be cancelled by its owner.  The future of a waiter that     *)
(* still waits is cancelled at once.                                        *)
CancelTask(r) ==
    /\ pc[r] \in {"queued", "awaiting"} /\ ~cancelling[r]
    /\ cancelling' = [cancelling EXCEPT ![r] = TRUE]
    /\ slot' = IF slot[r] = "pending" THEN [slot EXCEPT ![r] = "cancelled"] ELSE slot
    /\ UNCHANGED <<clientVars, nodeQueues, queueOf, busy, waiters, sequence, ticket,
                   pc, fired, replyVars, sendVars>>

-----------------------------------------------------------------------------
(* Datagrams: the matching in _process_frame.                               *)

(* A response frame to request s answers r: same address, EOJs and ESVs. *)
Matches(s, r) == AddressOf[s] = AddressOf[r] /\ ServiceOf[s] = ServiceOf[r]

Accept(t, from) ==
    /\ pending' = [pending EXCEPT ![t] = None]
    /\ reply' = [reply EXCEPT ![pending[t]] = IF @ = "pending" THEN "result" ELSE @]
    /\ answer' = [answer EXCEPT ![pending[t]] = from]
    /\ UNCHANGED <<clientVars, queueVars, taskVars, tidCounter, tid, wire>>

(* The response to a request that went out arrives, late or again perhaps.  *)
Receive(s) ==
    /\ open
    /\ s \in wire
    /\ pending[tid[s]] # None
    /\ Matches(s, pending[tid[s]])
    /\ Accept(tid[s], s)

(* A node notifies something of its own accord, under a TID of its own      *)
(* choice, from the object an INF_REQ with that TID was sent to.            *)
Notify(t) ==
    /\ open
    /\ pending[t] \in InfRequests
    /\ Accept(t, None)

-----------------------------------------------------------------------------
(* The client.                                                              *)

Registered(q) == \E a \in Addresses : nodeQueues[a] = q

(* Mutant of Stop: only the pending requests are failed. *)
StopForgetsWaiters ==
    /\ open
    /\ open' = FALSE
    /\ reply' = [r \in Requests |-> IF reply[r] = "pending" THEN "stopped" ELSE reply[r]]
    /\ pending' = [t \in Tids |-> None]
    /\ nodeQueues' = [a \in Addresses |-> None]
    /\ UNCHANGED <<starts, probes, stuck, queueOf, busy, waiters, sequence, ticket,
                   slot, taskVars, answer, tidCounter, tid, wire>>

(* The part of stop() after its awaits: every pending request and every     *)
(* waiter of a registered queue is failed with ClientStoppedError.          *)
Stop ==
    /\ open
    /\ open' = FALSE
    /\ reply' = [r \in Requests |->
                   IF (\E t \in Tids : pending[t] = r) /\ reply[r] = "pending"
                   THEN "stopped" ELSE reply[r]]
    /\ pending' = [t \in Tids |-> None]
    /\ slot' = [r \in Requests |->
                  IF slot[r] = "pending"
                     /\ \E q \in Requests : Registered(q) /\ r \in waiters[q]
                  THEN "failed" ELSE slot[r]]
    /\ waiters' = [q \in Requests |-> IF Registered(q) THEN {} ELSE waiters[q]]
    /\ nodeQueues' = [a \in Addresses |-> None]
    /\ UNCHANGED <<starts, probes, stuck, queueOf, busy, sequence, ticket, taskVars,
                   answer, tidCounter, tid, wire>>

(* start(): creating the socket takes several turns of the event loop, and  *)
(* in these every task that stop() failed has resumed.  The first probe     *)
(* draws a TID; if it cannot be sent the client is closed again.            *)
Start ==
    /\ ~open /\ starts < MaxStarts
    /\ \A r \in Requests : pc[r] \notin {"queued", "awaiting"}
    /\ open' \in BOOLEAN
    /\ starts' = starts + 1
    /\ \E t \in Tids : NextTid(t) /\ tidCounter' = t
    /\ UNCHANGED <<probes, stuck, queueVars, taskVars, replyVars, tid, pending, wire>>

(* Mutant of Probe: the counter does not wrap. *)
ProbeWithoutWrap ==
    /\ open /\ probes < MaxProbes
    /\ probes' = probes + 1
    /\ tidCounter' = tidCounter + 1
    /\ UNCHANGED <<open, starts, stuck, queueVars, taskVars, replyVars, tid, pending, wire>>

(* A multicast probe draws a TID that it does not register. *)
Probe ==
    /\ open /\ probes < MaxProbes
    /\ probes' = probes + 1
    /\ \E t \in Tids : NextTid(t) /\ NotComeRound(t) /\ tidCounter' = t
    /\ UNCHANGED <<open, starts, stuck, queueVars, taskVars, replyVars, tid, pending, wire>>

(* With every TID pending the probe raises before the sleep that would be   *)
(* the loop's only await: _discovery_loop logs the error and probes again   *)
(* at once, for ever, in one step of its task.  (The counter is back where  *)
(* it was after each search.)                                               *)
ProbeSpins ==
    /\ open /\ probes < MaxProbes
    /\ NoTidLeft
    /\ stuck' = TRUE
    /\ UNCHANGED <<open, starts, probes, queueVars, taskVars, replyVars, sendVars>>

-----------------------------------------------------------------------------
Call(r) == CallAndSend(r) \/ CallAndFail(r) \/ CallAndWait(r)

Resume(r) ==
    \/ ResumeAndSend(r) \/ ResumeAndFail(r) \/ ResumeStopped(r) \/ ResumeCancelled(r)
    \/ FinishAnswered(r) \/ FinishStopped(r) \/ FinishTimeout(r) \/ FinishCancelled(r)

Step ==
    \/ \E r \in Requests :
         Call(r) \/ Resume(r) \/ TimerFires(r) \/ CancelTask(r) \/ Receive(r)
    \/ \E t \in Tids : Notify(t)
    \/ Stop \/ Start \/ Probe \/ ProbeSpins

(* One thread: no task, timer or datagram gets a turn in a loop that spins. *)
Running == ~stuck

Next == Running /\ Step

Spec == Init /\ [][Next]_vars

(* A loop that does not spin runs every ready task, and request_timeout is  *)
(* finite.                                                                  *)
FairSpec ==
    /\ Spec
    /\ \A r \in Requests :
         WF_vars(Running /\ Resume(r)) /\ WF_vars(Running /\ TimerFires(r))

-----------------------------------------------------------------------------
(* Properties.                                                              *)

(* The client waits for an answer to r that is still to come. *)
Outstanding(r) == pc[r] = "awaiting" /\ reply[r] = "pending"

(* r holds the slot of q. *)
Owner(r, q) ==
    /\ queueOf[r] = q
    /\ pc[r] = "awaiting" \/ (pc[r] = "queued" /\ slot[r] = "granted")

(* ADR-0011: at most one request per node awaits its response, whatever is  *)
(* cancelled, times out or is stopped in between.                           *)
OneOutstanding ==
    \A r, s \in Requests :
        Outstanding(r) /\ Outstanding(s) /\ AddressOf[r] = AddressOf[s] => r = s

(* No slot is lost: a registered queue is busy exactly while one request    *)
(* owns its slot.  (release() on every path out of _send_request.)          *)
SlotHasOwner ==
    \A a \in Addresses : nodeQueues[a] # None =>
        (busy[nodeQueues[a]] <=> \E r \in Requests : Owner(r, nodeQueues[a]))

(* No wakeup is lost: a request that still waits is in the heap of a queue  *)
(* whose slot somebody owns and will hand over, or that stop() will find.   *)
NoLostWakeup ==
    \A r \in Requests : slot[r] = "pending" =>
        /\ nodeQueues[AddressOf[r]] = queueOf[r]
        /\ r \in waiters[queueOf[r]]
        /\ \E s \in Requests \ {r} : Owner(s, queueOf[r])

(* _pending holds exactly the outstanding requests, each under its own TID: *)
(* no finally removed, and no allocation overwrote, the entry of another.   *)
PendingMatchesOutstanding ==
    \A r \in Requests :
        Outstanding(r) <=> \E t \in Tids : pending[t] = r /\ tid[r] = t

(* A response that was accepted before the request ended reaches its        *)
(* caller, also when the timeout fired in the same turn, unless the task    *)
(* was cancelled.                                                           *)
AnswerIsDelivered ==
    \A r \in Requests :
        reply[r] = "result" /\ pc[r] \in Outcomes => pc[r] \in {"answered", "cancelled"}

(* As long as the transaction IDs have not come round, the response that    *)
(* answers a request is the response to that request, not the late or       *)
(* duplicated one to an earlier, equal request.                             *)
AnswerIsOwn ==
    \A r \in Requests \ InfRequests : reply[r] = "result" => answer[r] = r

(* Every call of _send_request returns or raises, whatever is cancelled,    *)
(* stopped or refused on the way, and also when a call finds no TID left.   *)
(* The exception is an event loop that spins since a probe found none left: *)
(* whatever awaits its response then awaits it for ever.                    *)
EveryRequestEnds ==
    \A r \in Requests :
        pc[r] \in {"queued", "awaiting"} ~> pc[r] \in Outcomes \/ stuck

(* The queues implement the slots of ADR-0011. *)
Holder == [a \in Addresses |->
    IF nodeQueues[a] # None /\ \E r \in Requests : Owner(r, nodeQueues[a])
    THEN CHOOSE r \in Requests : Owner(r, nodeQueues[a])
    ELSE None]

Waiting == [a \in Addresses |->
    IF nodeQueues[a] = None THEN {} ELSE Live(nodeQueues[a])]

Slots == INSTANCE NodeSlots WITH holder <- Holder, waiting <- Waiting, arrival <- ticket

(* ADR-0011: one holder per node, admitted by priority and then by arrival. *)
ImplementsSlots == Slots!Spec
-----------------------------------------------------------------------------
(* The inductive invariant behind these properties, in named parts.         *)

(* r holds the slot of the queue that is registered at its address. *)
Holds(r) ==
    /\ queueOf[r] # None
    /\ nodeQueues[AddressOf[r]] = queueOf[r]
    /\ pc[r] = "awaiting" \/ (pc[r] = "queued" /\ slot[r] = "granted")

(* A call that was not made has left no trace, and names no queue yet. *)
Untouched ==
    \A q \in Requests : pc[q] = "new" =>
        /\ ~busy[q] /\ waiters[q] = {}
        /\ slot[q] = "none" /\ queueOf[q] = None /\ ~cancelling[q]
        /\ \A r \in Requests : queueOf[r] # q
        /\ \A a \in Addresses : nodeQueues[a] # q

(* A queue serves the requests of one address. *)
QueuesStayHome ==
    /\ \A a \in Addresses : nodeQueues[a] # None => AddressOf[nodeQueues[a]] = a
    /\ \A r \in Requests : queueOf[r] # None => AddressOf[queueOf[r]] = AddressOf[r]
    /\ \A r \in Requests : pc[r] # "new" => queueOf[r] # None

(* What a heap holds: waiters of this queue that still wait or gave up. *)
WaitersWait ==
    /\ \A q \in Requests : \A w \in waiters[q] :
         queueOf[w] = q /\ pc[w] # "new" /\ slot[w] \in {"pending", "cancelled"}
    /\ \A q \in Requests : waiters[q] # {} => busy[q]

(* Where a waiter is, by what its future says. *)
PendingWaits(r) == slot[r] = "pending" =>
    /\ pc[r] = "queued" /\ ~cancelling[r]
    /\ r \in waiters[queueOf[r]]
    /\ nodeQueues[AddressOf[r]] = queueOf[r]

GrantedHolds(r) ==
    slot[r] = "granted" /\ pc[r] = "queued" /\ open => nodeQueues[AddressOf[r]] = queueOf[r]

FailedIsAway(r) == slot[r] = "failed" => nodeQueues[AddressOf[r]] # queueOf[r]

SlotStates ==
    \A r \in Requests :
        /\ PendingWaits(r) /\ GrantedHolds(r) /\ FailedIsAway(r)
        /\ pc[r] = "queued" => slot[r] # "none"

(* The slot of a registered queue: one holder exactly while it is busy.     *)
OneHolder ==
    /\ \A r, s \in Requests :
         Holds(r) /\ Holds(s) /\ AddressOf[r] = AddressOf[s] => r = s
    /\ \A a \in Addresses : nodeQueues[a] # None =>
         (busy[nodeQueues[a]] <=> \E r \in Requests : Holds(r) /\ AddressOf[r] = a)

(* A request on the wire that waits for its answer holds its slot. *)
OutstandingHolds == \A r \in Requests : Outstanding(r) => Holds(r)

QueueInv ==
    /\ TypeOK /\ Untouched /\ QueuesStayHome /\ WaitersWait /\ SlotStates
    /\ OneHolder /\ OutstandingHolds

(* The table of pending requests.  A request that awaits its response is    *)
(* registered under its own TID until its future is done, and from then on  *)
(* nobody is registered there until it has left.                            *)
PendingInv ==
    /\ \A t \in Tids : pending[t] # None =>
         Outstanding(pending[t]) /\ tid[pending[t]] = t
    /\ \A r \in Requests : pc[r] = "awaiting" =>
         /\ tid[r] \in Tids
         /\ reply[r] = "pending" => pending[tid[r]] = r
         /\ reply[r] # "pending" => pending[tid[r]] = None
    /\ \A r \in wire : tid[r] \in Tids

IInv == QueueInv /\ PendingInv

(* An answer reaches its caller, and only a request that was sent has one. *)
DeliveryInv ==
    /\ AnswerIsDelivered
    /\ \A r \in Requests : pc[r] \in {"new", "queued"} => reply[r] = "none"
=============================================================================
