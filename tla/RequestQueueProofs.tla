-------------------------- MODULE RequestQueueProofs --------------------------
(***************************************************************************)
(* Theorems about RequestQueue for any set of requests and addresses, any   *)
(* number of transaction IDs, starts and probes.                            *)
(* Last, that RequestQueue implements NodeSlots.                            *)
(***************************************************************************)
EXTENDS RequestQueue, FiniteSets, FiniteSetTheorems, TLAPS

(* No transaction ID leaves 1..MaxTid. *)
LEMMA TidAtInRange ==
    ASSUME TypeOK, NEW k \in Tids
    PROVE  TidAt(k) \in Tids
  BY BoundsAssumption DEF TypeOK, TidAt, Tids

(* The queue a call passes through is a request's queue. *)
LEMMA QueueForType ==
    ASSUME TypeOK, NEW r \in Requests
    PROVE  QueueFor(r) \in Requests
  BY RequestsAssumption DEF TypeOK, QueueFor

(* release() keeps the types of what it changes. *)
LEMMA ReleaseType ==
    ASSUME TypeOK, NEW q \in Requests \cup {None}, Release(q)
    PROVE  /\ busy' \in [Requests -> BOOLEAN]
           /\ waiters' \in [Requests -> SUBSET Requests]
           /\ slot' \in [Requests -> {"none", "pending", "granted", "failed", "cancelled"}]
  <1>1. CASE Live(q) = {} /\ busy' = [busy EXCEPT ![q] = FALSE]
                           /\ waiters' = [waiters EXCEPT ![q] = {}] /\ UNCHANGED slot
    BY <1>1 DEF TypeOK
  <1>2. ASSUME NEW s,
               slot' = [slot EXCEPT ![s] = "granted"],
               waiters' = [waiters EXCEPT ![q] = {o \in @ : Before(s, o)}],
               UNCHANGED busy
        PROVE  /\ waiters' \in [Requests -> SUBSET Requests]
               /\ slot' \in [Requests -> {"none", "pending", "granted", "failed", "cancelled"}]
    <2>1. waiters' \in [Requests -> SUBSET Requests]
      BY <1>2 DEF TypeOK
    <2>2. slot' \in [Requests -> {"none", "pending", "granted", "failed", "cancelled"}]
      BY <1>2 DEF TypeOK
    <2> QED BY <2>1, <2>2
  <1> QED BY <1>1, <1>2 DEF Release, TypeOK

(* Leaving a queue keeps the types of the queues. *)
LEMMA LeaveType ==
    ASSUME TypeOK, NEW r \in Requests, Leave(r)
    PROVE  /\ busy' \in [Requests -> BOOLEAN]
           /\ waiters' \in [Requests -> SUBSET Requests]
           /\ slot' \in [Requests -> {"none", "pending", "granted", "failed", "cancelled"}]
           /\ nodeQueues' \in [Addresses -> Requests \cup {None}]
           /\ UNCHANGED <<queueOf, sequence, ticket>>
  <1>1. queueOf[r] \in Requests \cup {None}
    BY DEF TypeOK
  <1> QED BY <1>1, ReleaseType DEF Leave, TypeOK

(* A step of the pipeline keeps the type invariant. *)
LEMMA TypeStep ==
    ASSUME TypeOK, [Next]_vars
    PROVE  TypeOK'
  <1> USE DEF TypeOK
  <1>t. Tids \subseteq 0..MaxTid
    BY BoundsAssumption DEF Tids
  <1>0. ASSUME NEW r \in Requests, Transmit(r)
        PROVE  /\ tidCounter' \in 0..MaxTid
               /\ tid' \in [Requests -> 0..MaxTid]
               /\ pending' \in [Tids -> Requests \cup {None}]
               /\ pc' \in [Requests -> {"new", "queued", "awaiting"} \cup Outcomes]
               /\ reply' \in [Requests -> {"none", "pending", "result", "stopped"}]
               /\ wire' \subseteq Requests
               /\ UNCHANGED <<open, starts, probes, stuck, cancelling, fired, answer>>
    <2>1. PICK t \in Tids : tidCounter' = t /\ tid' = [tid EXCEPT ![r] = t]
                            /\ pending' = [pending EXCEPT ![t] = r]
      BY <1>0 DEF Transmit
    <2>2. t \in 0..MaxTid
      BY <1>t
    <2> QED BY <1>0, <2>1, <2>2 DEF Transmit, clientVars
  <1>1. ASSUME NEW r \in Requests, CallAndSend(r) PROVE TypeOK'
    <2>1. QueueFor(r) \in Requests
      BY QueueForType
    <2> QED BY <1>0, <1>1, <2>1 DEF CallAndSend
  <1>2. ASSUME NEW r \in Requests, FailToSend(r)
        PROVE  /\ tidCounter' \in 0..MaxTid
               /\ tid' \in [Requests -> 0..MaxTid]
               /\ pc' \in [Requests -> {"new", "queued", "awaiting"} \cup Outcomes]
    <2>1. TidAt(MaxTid) \in 0..MaxTid
      BY TidAtInRange, BoundsAssumption, <1>t DEF Tids
    <2>2. /\ tidCounter' \in 0..MaxTid
          /\ \/ UNCHANGED tid
             \/ \E t \in 0..MaxTid : tid' = [tid EXCEPT ![r] = t]
          /\ \E o \in Outcomes : pc' = [pc EXCEPT ![r] = o]
      BY <1>2, <2>1, <1>t DEF FailToSend, Outcomes
    <2> QED BY <2>2
  <1>3. ASSUME NEW r \in Requests, CallAndFail(r) PROVE TypeOK'
    BY <1>2, <1>3, QueueForType
    DEF CallAndFail, FailToSend, clientVars, replyVars
  <1>4. ASSUME NEW r \in Requests, CallAndWait(r) PROVE TypeOK'
    BY <1>4, QueueForType DEF CallAndWait, clientVars, replyVars, sendVars
  <1>5. ASSUME NEW r \in Requests, ResumeAndSend(r) PROVE TypeOK'
    BY <1>0, <1>5 DEF ResumeAndSend, queueVars
  <1>6. ASSUME NEW r \in Requests, ResumeAndFail(r) PROVE TypeOK'
    BY <1>2, <1>6, LeaveType DEF ResumeAndFail, FailToSend, clientVars, replyVars
  <1>7. ASSUME NEW r \in Requests, ResumeStopped(r) PROVE TypeOK'
    BY <1>7 DEF ResumeStopped, clientVars, queueVars, replyVars, sendVars, Outcomes
  <1>8. ASSUME NEW r \in Requests, ResumeCancelled(r) PROVE TypeOK'
    <2>1. queueOf[r] \in Requests \cup {None}
      OBVIOUS
    <2> QED BY <1>8, <2>1, ReleaseType
            DEF ResumeCancelled, clientVars, replyVars, sendVars, Outcomes
  <1>9. ASSUME NEW r \in Requests, NEW o \in Outcomes, Finish(r, o) PROVE TypeOK'
    BY <1>9, LeaveType DEF Finish, clientVars, replyVars
  <1>10. ASSUME NEW r \in Requests,
                FinishAnswered(r) \/ FinishStopped(r) \/ FinishTimeout(r) \/ FinishCancelled(r)
         PROVE TypeOK'
    <2>1. \E o \in Outcomes : Finish(r, o)
      BY <1>10 DEF FinishAnswered, FinishStopped, FinishTimeout, FinishCancelled, Outcomes
    <2> QED BY <2>1, <1>9
  <1>11. ASSUME NEW r \in Requests, TimerFires(r) \/ CancelTask(r) PROVE TypeOK'
    BY <1>11 DEF TimerFires, CancelTask, clientVars, queueVars, replyVars, sendVars
  <1>12. ASSUME NEW t \in Tids, pending[t] # None, NEW s \in Requests \cup {None}, Accept(t, s)
         PROVE TypeOK'
    BY <1>12 DEF Accept, clientVars, queueVars, taskVars
  <1>13. ASSUME NEW r \in Requests, Receive(r) PROVE TypeOK'
    <2>1. CASE tid[r] \in Tids
      BY <1>12, <1>13, <2>1 DEF Receive
    <2>2. CASE tid[r] \notin Tids
      BY <1>13, <2>2 DEF Receive, Accept, clientVars, queueVars, taskVars
    <2> QED BY <2>1, <2>2
  <1>14. ASSUME NEW t \in Tids, Notify(t) PROVE TypeOK'
    BY <1>12, <1>14, RequestsAssumption DEF Notify
  <1>15. ASSUME Stop PROVE TypeOK'
    BY <1>15 DEF Stop, taskVars
  <1>16. ASSUME Start \/ Probe \/ ProbeSpins PROVE TypeOK'
    <2>1. CASE Start \/ Probe
      BY <2>1, BoundsAssumption DEF Start, Probe, queueVars, taskVars, replyVars, Tids
    <2>2. CASE ProbeSpins
      <3>1. stuck' \in BOOLEAN
        BY <2>2, Zenon DEF ProbeSpins
      <3> QED BY <2>2, <3>1 DEF ProbeSpins, queueVars, taskVars, replyVars, sendVars
    <2> QED BY <1>16, <2>1, <2>2
  <1>17. CASE UNCHANGED vars
    BY <1>17 DEF vars, clientVars, queueVars, taskVars, replyVars, sendVars
  <1> QED BY <1>1, <1>3, <1>4, <1>5, <1>6, <1>7, <1>8, <1>10, <1>11, <1>13, <1>14, <1>15,
             <1>16, <1>17 DEF Next, Step, Call, Resume

(* Every variable keeps its type in every behaviour of the client. *)
THEOREM TypeCorrect == Spec => []TypeOK
  <1>1. Init => stuck \in BOOLEAN
    BY Zenon DEF Init
  <1>2. Init => TypeOK
    BY <1>1, BoundsAssumption, RequestsAssumption DEF Init, TypeOK, Tids, Outcomes
  <1> QED BY <1>2, TypeStep, PTL DEF Spec

-----------------------------------------------------------------------------
(* The queue a request leaves is handed over or freed: what remains true    *)
(* when r ends and release() runs, whether r got the slot, lost it to       *)
(* stop(), or was told by stop() not to wait any more.                      *)
LEMMA HandOver ==
    ASSUME QueueInv, TypeOK', NEW r \in Requests, NEW o \in Outcomes,
           pc[r] = "awaiting" \/ (pc[r] = "queued" /\ slot[r] \in {"granted", "failed"}),
           pc' = [pc EXCEPT ![r] = o],
           Release(queueOf[r]),
           \/ nodeQueues' = nodeQueues
           \/ /\ Live(queueOf[r]) = {} /\ nodeQueues[AddressOf[r]] = queueOf[r]
              /\ nodeQueues' = [nodeQueues EXCEPT ![AddressOf[r]] = None],
           UNCHANGED <<queueOf, cancelling, reply, open>>
    PROVE  QueueInv'
  <1> DEFINE q == queueOf[r]
             a == AddressOf[r]
  <1>0. TypeOK /\ Untouched /\ QueuesStayHome /\ WaitersWait /\ SlotStates
        /\ OneHolder /\ OutstandingHolds
    BY DEF QueueInv
  <1>1. q \in Requests /\ a \in Addresses /\ AddressOf[q] = a /\ pc[q] # "new"
    <2>1. pc[r] # "new"
      OBVIOUS
    <2>2. q \in Requests /\ AddressOf[q] = a
      BY <1>0, <2>1 DEF QueuesStayHome, TypeOK
    <2>3. pc[q] # "new"
      BY <1>0, <2>2 DEF Untouched
    <2> QED BY <2>2, <2>3, RequestsAssumption
  <1>2. pc'[r] = o /\ \A s \in Requests : s # r => pc'[s] = pc[s]
    BY <1>0 DEF TypeOK
  <1>3. o \notin {"new", "queued", "awaiting"}
    BY DEF Outcomes
  <1>4. nodeQueues[a] = q => Holds(r)
    BY <1>0, <1>1, RequestsAssumption DEF SlotStates, FailedIsAway, Holds
  <1>5. CASE Live(q) = {}
    <2>1. /\ busy' = [busy EXCEPT ![q] = FALSE]
          /\ waiters' = [waiters EXCEPT ![q] = {}]
          /\ slot' = slot
      BY <1>5 DEF Release
    <2>2. \A s \in Requests : slot[s] = "pending" => queueOf[s] # q
      BY <1>0, <1>5 DEF SlotStates, PendingWaits, Live
    <2>3. /\ \A x \in Addresses : nodeQueues'[x] \in {nodeQueues[x], None}
          /\ \A x \in Addresses : nodeQueues[x] # q => nodeQueues'[x] = nodeQueues[x]
      BY <1>0, <1>1 DEF TypeOK
    <2>4. Untouched'
      BY <1>0, <1>1, <1>2, <1>3, <2>1, <2>3, RequestsAssumption DEF Untouched, TypeOK
    <2>5. QueuesStayHome'
      BY <1>0, <1>1, <1>2, <2>1, <2>3 DEF QueuesStayHome, TypeOK
    <2>6. WaitersWait'
      BY <1>0, <1>1, <1>2, <1>3, <2>1 DEF WaitersWait, TypeOK
    <2>7. \A s \in Requests : Holds(s)' => Holds(s) /\ s # r
      <3> SUFFICES ASSUME NEW s \in Requests, Holds(s)' PROVE Holds(s) /\ s # r
        OBVIOUS
      <3>1. /\ AddressOf[s] \in Addresses /\ queueOf[s] # None
            /\ nodeQueues'[AddressOf[s]] = queueOf[s]
            /\ pc'[s] = "awaiting" \/ (pc'[s] = "queued" /\ slot[s] = "granted")
        BY <2>1, RequestsAssumption DEF Holds
      <3>2. s # r /\ pc[s] = pc'[s]
        BY <1>2, <1>3, <3>1
      <3>3. nodeQueues[AddressOf[s]] = queueOf[s]
        BY <2>3, <3>1
      <3> QED BY <3>1, <3>2, <3>3 DEF Holds
    <2>8. \A s \in Requests : Holds(s) /\ s # r => queueOf[s] # q
      BY <1>0, <1>1, <1>4 DEF Holds, OneHolder, QueuesStayHome, TypeOK
    <2>9. \A s \in Requests : Holds(s) /\ s # r => Holds(s)'
      <3> SUFFICES ASSUME NEW s \in Requests, Holds(s), s # r PROVE Holds(s)'
        OBVIOUS
      <3>1. AddressOf[s] \in Addresses /\ queueOf[s] # q /\ nodeQueues[AddressOf[s]] = queueOf[s]
        BY <2>8, RequestsAssumption DEF Holds
      <3>2. nodeQueues'[AddressOf[s]] = nodeQueues[AddressOf[s]]
        BY <3>1, <2>3
      <3> QED BY <1>2, <2>1, <3>1, <3>2 DEF Holds
    <2>10. SlotStates'
      <3> SUFFICES ASSUME NEW s \in Requests
                   PROVE  (/\ PendingWaits(s) /\ GrantedHolds(s) /\ FailedIsAway(s)
                           /\ pc[s] = "queued" => slot[s] # "none")'
        BY DEF SlotStates
      <3>1. AddressOf[s] \in Addresses /\ queueOf[s] \in Requests \cup {None}
        BY <1>0, RequestsAssumption DEF TypeOK
      <3>2. PendingWaits(s)'
        <4> SUFFICES ASSUME slot[s] = "pending" PROVE PendingWaits(s)'
          BY <2>1 DEF PendingWaits
        <4>1. PendingWaits(s) /\ s # r /\ queueOf[s] # q
          BY <1>0, <2>2 DEF SlotStates, PendingWaits
        <4> QED BY <1>2, <2>1, <2>3, <3>1, <4>1 DEF PendingWaits
      <3>3. GrantedHolds(s)'
        <4> SUFFICES ASSUME slot[s] = "granted", pc[s] = "queued", open, s # r
                     PROVE  GrantedHolds(s)'
          BY <1>2, <1>3, <2>1 DEF GrantedHolds
        <4>1. Holds(s)
          BY <1>0 DEF SlotStates, GrantedHolds, Holds, QueuesStayHome
        <4>2. Holds(s)'
          BY <2>9, <4>1
        <4> QED BY <4>2 DEF GrantedHolds, Holds
      <3>4. FailedIsAway(s)'
        <4>1. slot[s] = "failed" => pc[s] # "new" /\ queueOf[s] # None
          BY <1>0 DEF Untouched, QueuesStayHome
        <4> QED BY <1>0, <2>1, <2>3, <3>1, <4>1 DEF SlotStates, FailedIsAway
      <3>5. pc'[s] = "queued" => slot'[s] # "none"
        BY <1>0, <1>2, <1>3, <2>1 DEF SlotStates
      <3> QED BY <3>2, <3>3, <3>4, <3>5
    <2>11. OneHolder'
      <3>1. ASSUME NEW s \in Requests, NEW w \in Requests,
                   Holds(s)', Holds(w)', AddressOf[s] = AddressOf[w]
            PROVE  s = w
        BY <1>0, <2>7, <3>1 DEF OneHolder
      <3>2. ASSUME NEW x \in Addresses, nodeQueues'[x] # None
            PROVE  busy'[nodeQueues'[x]] <=> \E s \in Requests : Holds(s)' /\ AddressOf[s] = x
        <4>1. nodeQueues'[x] = nodeQueues[x] /\ nodeQueues[x] \in Requests
          BY <1>0, <2>3, <3>2 DEF TypeOK
        <4>2. CASE nodeQueues[x] = q
          <5>1. x = a
            BY <1>0, <1>1, <4>2 DEF QueuesStayHome, TypeOK
          <5>2. ~busy'[q]
            BY <1>0, <1>1, <2>1 DEF TypeOK
          <5>3. \A s \in Requests : Holds(s)' => AddressOf[s] # a
            BY <1>0, <1>4, <2>7, <4>2, <5>1 DEF OneHolder
          <5> QED BY <4>1, <4>2, <5>1, <5>2, <5>3
        <4>3. CASE nodeQueues[x] # q
          <5>1. busy'[nodeQueues[x]] = busy[nodeQueues[x]]
            BY <1>0, <2>1, <4>1, <4>3 DEF TypeOK
          <5>2. \A s \in Requests : Holds(s) /\ AddressOf[s] = x => s # r
            BY <4>3 DEF Holds
          <5>3. \A s \in Requests : AddressOf[s] = x => (Holds(s)' <=> Holds(s))
            BY <2>7, <2>9, <5>2
          <5>4. busy[nodeQueues[x]] <=> \E s \in Requests : Holds(s) /\ AddressOf[s] = x
            BY <1>0, <3>2, <4>1 DEF OneHolder
          <5>5. (\E s \in Requests : Holds(s)' /\ AddressOf[s] = x)
                <=> (\E s \in Requests : Holds(s) /\ AddressOf[s] = x)
            BY <5>3
          <5> QED BY <4>1, <5>1, <5>4, <5>5
        <4> QED BY <4>2, <4>3
      <3> QED BY <3>1, <3>2 DEF OneHolder
    <2>12. OutstandingHolds'
      BY <1>0, <1>2, <1>3, <2>9 DEF OutstandingHolds, Outstanding
    <2> QED BY <2>4, <2>5, <2>6, <2>10, <2>11, <2>12 DEF QueueInv
  <1>6. CASE Live(q) # {}
    <2>1. PICK s \in Live(q) :
            /\ slot' = [slot EXCEPT ![s] = "granted"]
            /\ waiters' = [waiters EXCEPT ![q] = {w \in @ : Before(s, w)}]
            /\ busy' = busy
            /\ \A w \in Live(q) \ {s} : Before(s, w)
      BY <1>6 DEF Release
    <2>2. /\ s \in Requests /\ s \in waiters[q] /\ slot[s] = "pending"
          /\ pc[s] = "queued" /\ queueOf[s] = q /\ nodeQueues[AddressOf[s]] = q
      BY <1>0, <1>1 DEF SlotStates, PendingWaits, WaitersWait, Live, TypeOK
    <2>3. s # r /\ AddressOf[s] = a /\ nodeQueues[a] = q /\ nodeQueues' = nodeQueues
      BY <1>0, <1>1, <1>6, <2>2 DEF QueuesStayHome, TypeOK
    <2>4. Untouched'
      BY <1>0, <1>1, <1>2, <1>3, <2>1, <2>2, <2>3 DEF Untouched, TypeOK
    <2>5. QueuesStayHome'
      BY <1>0, <1>2, <2>3 DEF QueuesStayHome, TypeOK
    <2>6. ~Before(s, s)
      BY <1>0, RequestsAssumption, <2>2 DEF Before, TypeOK
    <2>7. WaitersWait'
      BY <1>0, <1>1, <1>2, <1>3, <2>1, <2>2, <2>6 DEF WaitersWait, TypeOK
    <2>8. SlotStates'
      <3> SUFFICES ASSUME NEW w \in Requests
                   PROVE  (/\ PendingWaits(w) /\ GrantedHolds(w) /\ FailedIsAway(w)
                           /\ pc[w] = "queued" => slot[w] # "none")'
        BY DEF SlotStates
      <3>1. /\ slot'[s] = "granted" /\ (w # s => slot'[w] = slot[w])
            /\ pc'[w] = "queued" => w # r /\ pc[w] = "queued"
        BY <1>0, <1>2, <1>3, <2>1, <2>2 DEF TypeOK
      <3>2. PendingWaits(w)'
        <4> SUFFICES ASSUME slot[w] = "pending", w # s PROVE PendingWaits(w)'
          BY <3>1 DEF PendingWaits
        <4>1. PendingWaits(w) /\ w # r
          BY <1>0 DEF SlotStates, PendingWaits
        <4>2. w \in waiters'[queueOf[w]]
          <5>1. CASE queueOf[w] = q
            BY <1>0, <1>1, <2>1, <4>1, <5>1 DEF PendingWaits, Live, TypeOK
          <5>2. CASE queueOf[w] # q
            BY <1>0, <2>1, <4>1, <5>2 DEF PendingWaits, TypeOK
          <5> QED BY <5>1, <5>2
        <4> QED BY <1>2, <2>3, <4>1, <4>2 DEF PendingWaits
      <3>3. GrantedHolds(w)'
        BY <1>0, <2>2, <2>3, <3>1 DEF SlotStates, GrantedHolds
      <3>4. FailedIsAway(w)'
        BY <1>0, <2>3, <3>1 DEF SlotStates, FailedIsAway
      <3>5. pc'[w] = "queued" => slot'[w] # "none"
        BY <1>0, <3>1 DEF SlotStates
      <3> QED BY <3>2, <3>3, <3>4, <3>5
    <2>9. \A w \in Requests : Holds(w)' <=> w = s \/ (Holds(w) /\ w # r)
      BY <1>0, <1>1, <1>2, <1>3, <2>1, <2>2, <2>3, RequestsAssumption DEF Holds, TypeOK
    <2>10. OneHolder'
      BY <1>0, <1>1, <1>4, <2>1, <2>2, <2>3, <2>9 DEF OneHolder
    <2>11. OutstandingHolds'
      BY <1>0, <1>2, <1>3, <2>9 DEF OutstandingHolds, Outstanding
    <2> QED BY <2>4, <2>5, <2>7, <2>8, <2>10, <2>11 DEF QueueInv
  <1> QED BY <1>5, <1>6

(* A call takes a slot only where nobody holds one. *)
LEMMA IdleHasNoHolder ==
    ASSUME QueueInv, NEW r \in Requests, pc[r] = "new", Idle(QueueFor(r))
    PROVE  /\ \A s \in Requests : Holds(s) => AddressOf[s] # AddressOf[r]
           /\ \A s \in Requests : slot[s] = "pending" => AddressOf[s] # AddressOf[r]
  <1>0. TypeOK /\ Untouched /\ QueuesStayHome /\ SlotStates /\ OneHolder
    BY DEF QueueInv
  <1>1. CASE nodeQueues[AddressOf[r]] = None
    <2>1. \A s \in Requests : Holds(s) => AddressOf[s] # AddressOf[r]
      BY <1>1 DEF Holds
    <2>2. \A s \in Requests : slot[s] = "pending" => queueOf[s] # None
      BY <1>0 DEF SlotStates, PendingWaits, QueuesStayHome
    <2> QED BY <1>0, <1>1, <2>1, <2>2 DEF SlotStates, PendingWaits
  <1>2. CASE nodeQueues[AddressOf[r]] # None
    <2>1. QueueFor(r) = nodeQueues[AddressOf[r]]
      BY <1>2 DEF QueueFor
    <2>2. ~busy[QueueFor(r)] /\ waiters[QueueFor(r)] = {}
      BY DEF Idle
    <2>3. AddressOf[r] \in Addresses
      BY RequestsAssumption
    <2> QED BY <1>0, <1>2, <2>1, <2>2, <2>3 DEF OneHolder, SlotStates, PendingWaits
  <1> QED BY <1>1, <1>2

(* The queue a call finds: its own new one, or the one registered for its   *)
(* address.                                                                 *)
LEMMA QueueFound ==
    ASSUME QueueInv, NEW r \in Requests, pc[r] = "new"
    PROVE  /\ QueueFor(r) \in Requests /\ AddressOf[QueueFor(r)] = AddressOf[r]
           /\ \/ QueueFor(r) = r /\ nodeQueues[AddressOf[r]] = None
              \/ QueueFor(r) = nodeQueues[AddressOf[r]] /\ pc[QueueFor(r)] # "new"
           /\ \A s \in Requests : slot[s] = "failed" => queueOf[s] # QueueFor(r) \/ AddressOf[s] # AddressOf[r]
  <1>0. TypeOK /\ Untouched /\ QueuesStayHome /\ SlotStates
    BY DEF QueueInv
  <1>1. AddressOf[r] \in Addresses
    BY RequestsAssumption
  <1>2. CASE nodeQueues[AddressOf[r]] = None
    BY <1>0, <1>2 DEF QueueFor, Untouched
  <1>3. CASE nodeQueues[AddressOf[r]] # None
    <2>1. QueueFor(r) = nodeQueues[AddressOf[r]] /\ QueueFor(r) \in Requests
      BY <1>0, <1>1, <1>3 DEF QueueFor, TypeOK
    <2>2. AddressOf[QueueFor(r)] = AddressOf[r] /\ pc[QueueFor(r)] # "new"
      BY <1>0, <1>1, <1>3, <2>1 DEF QueuesStayHome, Untouched
    <2> QED BY <1>0, <2>1, <2>2 DEF SlotStates, FailedIsAway
  <1> QED BY <1>2, <1>3

(* A call that finds the slot free becomes its only holder. *)
LEMMA CallAndSendInv ==
    ASSUME QueueInv, TypeOK', NEW r \in Requests, CallAndSend(r)
    PROVE  QueueInv'
  <1> DEFINE q == QueueFor(r)
             a == AddressOf[r]
  <1>0. TypeOK /\ Untouched /\ QueuesStayHome /\ WaitersWait /\ SlotStates
        /\ OneHolder /\ OutstandingHolds
    BY DEF QueueInv
  <1>1. /\ pc[r] = "new" /\ Idle(q) /\ open' = open
        /\ nodeQueues' = [nodeQueues EXCEPT ![a] = q]
        /\ queueOf' = [queueOf EXCEPT ![r] = q]
        /\ busy' = [busy EXCEPT ![q] = TRUE]
        /\ reply' = [reply EXCEPT ![r] = "pending"]
        /\ pc' = [pc EXCEPT ![r] = "awaiting"]
        /\ UNCHANGED <<waiters, slot, cancelling>>
    BY DEF CallAndSend, Transmit, clientVars
  <1>2. /\ q \in Requests /\ AddressOf[q] = a /\ a \in Addresses
        /\ (q = r /\ nodeQueues[a] = None) \/ (q = nodeQueues[a] /\ pc[q] # "new")
    BY <1>1, QueueFound, RequestsAssumption
  <1>3. /\ \A s \in Requests : s # r => pc'[s] = pc[s] /\ queueOf'[s] = queueOf[s]
                                     /\ reply'[s] = reply[s]
        /\ pc'[r] = "awaiting" /\ queueOf'[r] = q
        /\ \A x \in Addresses : x # a => nodeQueues'[x] = nodeQueues[x]
        /\ nodeQueues'[a] = q
    BY <1>0, <1>1, <1>2 DEF TypeOK
  <1>4. \A s \in Requests : AddressOf[s] = a => ~Holds(s) /\ slot[s] # "pending"
    BY <1>1, IdleHasNoHolder
  <1>5. \A s \in Requests : s # r => (Holds(s)' <=> Holds(s) /\ AddressOf[s] # a)
    <2> SUFFICES ASSUME NEW s \in Requests, s # r
                 PROVE  Holds(s)' <=> Holds(s) /\ AddressOf[s] # a
      OBVIOUS
    <2>1. CASE AddressOf[s] # a
      BY <1>1, <1>3, <2>1, RequestsAssumption DEF Holds
    <2>2. CASE AddressOf[s] = a /\ q = r
      BY <1>0, <1>1, <1>3, <2>2 DEF Untouched, Holds
    <2>3. CASE AddressOf[s] = a /\ q = nodeQueues[a]
      <3>1. Holds(s)' => Holds(s)
        BY <1>1, <1>3, <2>3 DEF Holds
      <3> QED BY <1>4, <2>3, <3>1
    <2> QED BY <1>2, <2>1, <2>2, <2>3
  <1>6. Holds(r)'
    BY <1>2, <1>3, RequestsAssumption DEF Holds
  <1>7. Untouched'
    BY <1>0, <1>1, <1>2, <1>3, RequestsAssumption DEF Untouched, TypeOK
  <1>8. QueuesStayHome'
    <2>1. \A x \in Addresses : nodeQueues'[x] # None => AddressOf[nodeQueues'[x]] = x
      BY <1>0, <1>2, <1>3 DEF QueuesStayHome
    <2>2. \A s \in Requests : queueOf'[s] # None => AddressOf[queueOf'[s]] = AddressOf[s]
      BY <1>0, <1>2, <1>3 DEF QueuesStayHome
    <2>3. \A s \in Requests : pc'[s] # "new" => queueOf'[s] # None
      BY <1>0, <1>2, <1>3, RequestsAssumption DEF QueuesStayHome
    <2> QED BY <2>1, <2>2, <2>3 DEF QueuesStayHome
  <1>9. WaitersWait'
    BY <1>0, <1>1, <1>2, <1>3 DEF WaitersWait, TypeOK
  <1>10. SlotStates'
    <2> SUFFICES ASSUME NEW s \in Requests
                 PROVE  (/\ PendingWaits(s) /\ GrantedHolds(s) /\ FailedIsAway(s)
                         /\ pc[s] = "queued" => slot[s] # "none")'
      BY DEF SlotStates
    <2>1. CASE s = r
      <3>1. slot[r] = "none"
        BY <1>0, <1>1 DEF Untouched
      <3> QED BY <1>1, <1>3, <2>1, <3>1 DEF PendingWaits, GrantedHolds, FailedIsAway
    <2>2. CASE s # r /\ AddressOf[s] # a
      BY <1>0, <1>1, <1>3, <2>2, RequestsAssumption
      DEF SlotStates, PendingWaits, GrantedHolds, FailedIsAway
    <2>3. CASE s # r /\ AddressOf[s] = a
      <3>1. slot[s] # "pending" /\ ~Holds(s)
        BY <1>4, <2>3
      <3>2. slot[s] = "failed" => queueOf[s] # q
        BY <1>1, <2>3, QueueFound
      <3>3. slot[s] = "granted" /\ pc[s] = "queued" => ~open
        BY <1>0, <3>1 DEF SlotStates, GrantedHolds, Holds, QueuesStayHome
      <3> QED BY <1>0, <1>1, <1>3, <2>3, <3>1, <3>2, <3>3
              DEF SlotStates, PendingWaits, GrantedHolds, FailedIsAway
    <2> QED BY <2>1, <2>2, <2>3
  <1>11. OneHolder'
    <2>1. \A s, w \in Requests : (Holds(s) /\ Holds(w) /\ AddressOf[s] = AddressOf[w])' => s = w
      BY <1>0, <1>5 DEF OneHolder
    <2>2. ASSUME NEW x \in Addresses, nodeQueues'[x] # None
          PROVE  busy'[nodeQueues'[x]] <=> \E s \in Requests : Holds(s)' /\ AddressOf[s] = x
      <3>1. CASE x = a
        BY <1>0, <1>1, <1>2, <1>3, <1>6, <3>1 DEF TypeOK
      <3>2. CASE x # a
        <4>1. nodeQueues'[x] = nodeQueues[x] /\ nodeQueues[x] # q
          BY <1>0, <1>2, <1>3, <2>2, <3>2 DEF QueuesStayHome
        <4>2. busy'[nodeQueues[x]] = busy[nodeQueues[x]]
          BY <1>0, <1>1, <4>1 DEF TypeOK
        <4>3. \A s \in Requests : AddressOf[s] = x => (Holds(s)' <=> Holds(s))
          <5>1. ~Holds(r)
            BY <1>4
          <5> QED BY <1>5, <3>2
        <4>4. busy[nodeQueues[x]] <=> \E s \in Requests : Holds(s) /\ AddressOf[s] = x
          BY <1>0, <2>2, <4>1 DEF OneHolder
        <4> QED BY <4>1, <4>2, <4>3, <4>4
      <3> QED BY <3>1, <3>2
    <2> QED BY <2>1, <2>2 DEF OneHolder
  <1>12. OutstandingHolds'
    BY <1>0, <1>3, <1>4, <1>5, <1>6 DEF OutstandingHolds, Outstanding
  <1> QED BY <1>7, <1>8, <1>9, <1>10, <1>11, <1>12 DEF QueueInv

-----------------------------------------------------------------------------
(* Registering a request under a free transaction ID. *)
LEMMA TransmitPending ==
    ASSUME TypeOK, PendingInv, NEW r \in Requests, pc[r] # "awaiting", Transmit(r)
    PROVE  PendingInv'
  <1> USE DEF TypeOK
  <1>1. PICK t \in Tids :
          /\ pending[t] = None /\ NotComeRound(t)
          /\ tid' = [tid EXCEPT ![r] = t] /\ pending' = [pending EXCEPT ![t] = r]
    BY DEF Transmit, NextTid
  <1>2. /\ reply' = [reply EXCEPT ![r] = "pending"]
        /\ pc' = [pc EXCEPT ![r] = "awaiting"]
    BY DEF Transmit
  <1>3. \A u \in Tids : pending[u] # r
    BY RequestsAssumption DEF PendingInv, Outstanding
  <1>4. ASSUME NEW u \in Tids, pending'[u] # None
        PROVE  Outstanding(pending[u])' /\ tid'[pending'[u]] = u
    <2>1. CASE u = t
      BY <1>1, <1>2, <2>1, RequestsAssumption DEF Outstanding, Tids
    <2>2. CASE u # t
      BY <1>1, <1>2, <1>3, <1>4, <2>2, RequestsAssumption DEF PendingInv, Outstanding
    <2> QED BY <2>1, <2>2
  <1>5. ASSUME NEW s \in Requests, pc'[s] = "awaiting"
        PROVE  /\ tid'[s] \in Tids
               /\ reply'[s] = "pending" => pending'[tid'[s]] = s
               /\ reply'[s] # "pending" => pending'[tid'[s]] = None
    <2>1. CASE s = r
      BY <1>1, <1>2, <2>1 DEF Tids
    <2>2. CASE s # r
      <3>1. pc[s] = "awaiting" /\ tid'[s] = tid[s] /\ reply'[s] = reply[s]
        BY <1>1, <1>2, <1>5, <2>2
      <3>2. tid[s] \in Tids
        BY <3>1 DEF PendingInv
      <3>3. tid[s] # t
        BY <1>1, <3>1, RequestsAssumption DEF PendingInv, NotComeRound
      <3>4. pending'[tid[s]] = pending[tid[s]]
        BY <1>1, <3>2, <3>3
      <3> QED BY <3>1, <3>2, <3>4 DEF PendingInv
    <2> QED BY <2>1, <2>2
  <1>6. \A s \in wire' : tid'[s] \in Tids
    BY <1>1 DEF PendingInv, Transmit
  <1> QED BY <1>4, <1>5, <1>6 DEF PendingInv

(* The finally of _send_request removes the entry of its own request only. *)
LEMMA FinishPending ==
    ASSUME TypeOK, PendingInv, NEW r \in Requests, NEW o \in Outcomes,
           pc[r] = "awaiting", Finish(r, o)
    PROVE  PendingInv'
  <1> USE DEF TypeOK
  <1>1. /\ pending' = [pending EXCEPT ![tid[r]] = None]
        /\ pc' = [pc EXCEPT ![r] = o] /\ o # "awaiting"
        /\ UNCHANGED <<reply, tid, wire>>
    BY DEF Finish, replyVars, Outcomes
  <1>2. tid[r] \in Tids /\ pending[tid[r]] \in {r, None}
    BY DEF PendingInv
  <1>3. ASSUME NEW u \in Tids, pending'[u] # None
        PROVE  Outstanding(pending[u])' /\ tid'[pending'[u]] = u
    <2>1. u # tid[r] /\ pending'[u] = pending[u] /\ pending[u] \in Requests
      BY <1>1, <1>2, <1>3
    <2>2. Outstanding(pending[u]) /\ tid[pending[u]] = u
      BY <2>1, RequestsAssumption DEF PendingInv
    <2>3. pending[u] # r
      BY <2>1, <2>2
    <2> QED BY <1>1, <2>1, <2>2, <2>3 DEF Outstanding
  <1>4. ASSUME NEW s \in Requests, pc'[s] = "awaiting"
        PROVE  /\ tid'[s] \in Tids
               /\ reply'[s] = "pending" => pending'[tid'[s]] = s
               /\ reply'[s] # "pending" => pending'[tid'[s]] = None
    <2>1. s # r /\ pc[s] = "awaiting"
      BY <1>1, <1>4
    <2>2. tid[s] \in Tids /\ (reply[s] = "pending" => pending[tid[s]] = s)
      BY <2>1 DEF PendingInv
    <2>3. reply[s] = "pending" => tid[s] # tid[r]
      BY <1>2, <2>1, <2>2, RequestsAssumption
    <2> QED BY <1>1, <1>2, <2>1, <2>2, <2>3 DEF PendingInv
  <1> QED BY <1>1, <1>3, <1>4 DEF PendingInv

(* Completing the future of a pending request unregisters it. *)
LEMMA AcceptPending ==
    ASSUME TypeOK, PendingInv, NEW t \in Tids, pending[t] # None,
           NEW s \in Requests \cup {None}, Accept(t, s)
    PROVE  PendingInv'
  <1> USE DEF TypeOK
  <1>1. /\ pending' = [pending EXCEPT ![t] = None]
        /\ reply' = [reply EXCEPT ![pending[t]] = IF @ = "pending" THEN "result" ELSE @]
        /\ UNCHANGED <<pc, tid, wire>>
    BY DEF Accept, taskVars
  <1>2. pending[t] \in Requests /\ tid[pending[t]] = t /\ Outstanding(pending[t])
    BY DEF PendingInv
  <1>3. ASSUME NEW u \in Tids, pending'[u] # None
        PROVE  Outstanding(pending[u])' /\ tid'[pending'[u]] = u
    <2>1. u # t /\ pending'[u] = pending[u]
      BY <1>1, <1>3
    <2>2. Outstanding(pending[u]) /\ tid[pending[u]] = u
      BY <1>3, <2>1 DEF PendingInv
    <2>3. pending[u] # pending[t]
      BY <1>2, <2>1, <2>2
    <2> QED BY <1>1, <1>2, <2>1, <2>2, <2>3 DEF Outstanding
  <1>4. ASSUME NEW r \in Requests, pc'[r] = "awaiting"
        PROVE  /\ tid'[r] \in Tids
               /\ reply'[r] = "pending" => pending'[tid'[r]] = r
               /\ reply'[r] # "pending" => pending'[tid'[r]] = None
    <2>1. CASE r = pending[t]
      BY <1>1, <1>2, <2>1 DEF Outstanding
    <2>2. CASE r # pending[t]
      <3>1. reply'[r] = reply[r] /\ pc[r] = "awaiting" /\ tid'[r] = tid[r]
        BY <1>1, <1>4, <2>2
      <3>2. tid[r] \in Tids /\ (reply[r] = "pending" => tid[r] # t)
        BY <2>2, <3>1 DEF PendingInv
      <3> QED BY <1>1, <3>1, <3>2 DEF PendingInv
    <2> QED BY <2>1, <2>2
  <1> QED BY <1>1, <1>3, <1>4 DEF PendingInv

(* A step of the pipeline keeps the table of pending requests right. *)
LEMMA PendingStep ==
    ASSUME TypeOK, PendingInv, [Next]_vars
    PROVE  PendingInv'
  <1>1. ASSUME NEW r \in Requests, CallAndSend(r) \/ ResumeAndSend(r)
        PROVE  PendingInv'
    <2>1. pc[r] # "awaiting" /\ Transmit(r)
      BY <1>1 DEF CallAndSend, ResumeAndSend
    <2> QED BY <2>1, TransmitPending
  <1>2. ASSUME NEW r \in Requests, pc[r] # "awaiting",
               \A s \in Requests : s # r => pc'[s] = pc[s] /\ tid'[s] = tid[s],
               pc'[r] # "awaiting", tid'[r] \in {tid[r]} \cup Tids,
               UNCHANGED <<pending, reply, wire>>
        PROVE  PendingInv'
    <2>1. \A s \in Requests : Outstanding(s)' <=> Outstanding(s)
      BY <1>2 DEF Outstanding
    <2>2. \A u \in Tids : pending[u] # None => pending[u] \in Requests /\ pending[u] # r
      BY <1>2 DEF PendingInv, Outstanding, TypeOK
    <2>3. \A s \in wire' : tid'[s] \in Tids
      BY <1>2 DEF PendingInv, TypeOK
    <2> QED BY <1>2, <2>1, <2>2, <2>3 DEF PendingInv
  <1>3. ASSUME NEW r \in Requests, CallAndFail(r) \/ ResumeAndFail(r)
        PROVE  PendingInv'
    <2>1. pc[r] # "awaiting" /\ FailToSend(r)
      BY <1>3 DEF CallAndFail, ResumeAndFail
    <2>2. /\ UNCHANGED <<pending, reply, wire>>
          /\ pc'[r] # "awaiting" /\ tid'[r] \in {tid[r]} \cup Tids
          /\ \A s \in Requests : s # r => pc'[s] = pc[s] /\ tid'[s] = tid[s]
      BY <2>1 DEF FailToSend, replyVars, TypeOK
    <2> QED BY <1>2, <2>1, <2>2
  <1>4. ASSUME NEW r \in Requests, CallAndWait(r) \/ ResumeStopped(r) \/ ResumeCancelled(r)
        PROVE  PendingInv'
    <2>1. pc[r] # "awaiting" /\ UNCHANGED <<pending, reply, tid, wire>>
      BY <1>4 DEF CallAndWait, ResumeStopped, ResumeCancelled, replyVars, sendVars
    <2>2. pc'[r] # "awaiting" /\ \A s \in Requests : s # r => pc'[s] = pc[s]
      BY <1>4 DEF CallAndWait, ResumeStopped, ResumeCancelled, TypeOK
    <2> QED BY <1>2, <2>1, <2>2
  <1>5. ASSUME NEW r \in Requests,
               FinishAnswered(r) \/ FinishStopped(r) \/ FinishTimeout(r) \/ FinishCancelled(r)
        PROVE  PendingInv'
    <2>1. pc[r] = "awaiting" /\ \E o \in Outcomes : Finish(r, o)
      BY <1>5 DEF FinishAnswered, FinishStopped, FinishTimeout, FinishCancelled, Outcomes
    <2> QED BY <2>1, FinishPending
  <1>6. CASE UNCHANGED <<pending, reply, pc, tid, wire>>
    BY <1>6 DEF PendingInv, Outstanding
  <1>7. ASSUME NEW r \in Requests, TimerFires(r) \/ CancelTask(r) PROVE PendingInv'
    BY <1>6, <1>7 DEF TimerFires, CancelTask, replyVars, sendVars
  <1>8. CASE Start \/ Probe \/ ProbeSpins \/ UNCHANGED vars
    BY <1>6, <1>8 DEF Start, Probe, ProbeSpins, vars, taskVars, replyVars, sendVars
  <1>9. ASSUME NEW r \in Requests, Receive(r) PROVE PendingInv'
    BY <1>9, AcceptPending DEF Receive, PendingInv
  <1>10. ASSUME NEW t \in Tids, Notify(t) PROVE PendingInv'
    BY <1>10, AcceptPending, RequestsAssumption DEF Notify
  <1>11. CASE Stop
    <2>1. \A t \in Tids : pending'[t] = None
      BY <1>11 DEF Stop
    <2>2. UNCHANGED <<pc, tid, wire>>
      BY <1>11 DEF Stop, taskVars
    <2>3. \A r \in Requests : pc[r] = "awaiting" => reply'[r] # "pending"
      BY <1>11 DEF Stop, PendingInv
    <2> QED BY <2>1, <2>2, <2>3 DEF PendingInv
  <1> QED BY <1>1, <1>3, <1>4, <1>5, <1>7, <1>8, <1>9, <1>10, <1>11 DEF Next, Step, Call, Resume

-----------------------------------------------------------------------------
(* A call that sends nothing leaves no holder and no queue behind. *)
LEMMA CallAndFailInv ==
    ASSUME QueueInv, TypeOK', NEW r \in Requests, CallAndFail(r)
    PROVE  QueueInv'
  <1> DEFINE q == QueueFor(r)
             a == AddressOf[r]
  <1>0. TypeOK /\ Untouched /\ QueuesStayHome /\ WaitersWait /\ SlotStates
        /\ OneHolder /\ OutstandingHolds
    BY DEF QueueInv
  <1>1. /\ pc[r] = "new" /\ Idle(q)
        /\ nodeQueues' = [nodeQueues EXCEPT ![a] = None]
        /\ queueOf' = [queueOf EXCEPT ![r] = q]
        /\ UNCHANGED <<busy, waiters, slot, cancelling, reply, open>>
    BY DEF CallAndFail, FailToSend, clientVars, replyVars
  <1>2. q \in Requests /\ AddressOf[q] = a /\ a \in Addresses /\ (q = r \/ pc[q] # "new")
    BY <1>1, QueueFound, RequestsAssumption
  <1>3. /\ \A s \in Requests : s # r => pc'[s] = pc[s] /\ queueOf'[s] = queueOf[s]
        /\ pc'[r] \notin {"new", "queued", "awaiting"} /\ queueOf'[r] = q
        /\ \A x \in Addresses : x # a => nodeQueues'[x] = nodeQueues[x]
        /\ nodeQueues'[a] = None
    BY <1>0, <1>1, <1>2 DEF TypeOK, CallAndFail, FailToSend
  <1>4. \A s \in Requests : AddressOf[s] = a => ~Holds(s) /\ slot[s] # "pending"
    BY <1>1, IdleHasNoHolder
  <1>5. \A s \in Requests : Holds(s)' <=> Holds(s)
    <2> SUFFICES ASSUME NEW s \in Requests PROVE Holds(s)' <=> Holds(s)
      OBVIOUS
    <2>1. CASE AddressOf[s] = a
      BY <1>1, <1>3, <1>4, <2>1 DEF Holds
    <2>2. CASE AddressOf[s] # a
      BY <1>1, <1>3, <2>2, RequestsAssumption DEF Holds
    <2> QED BY <2>1, <2>2
  <1>6. Untouched'
    BY <1>0, <1>1, <1>2, <1>3, RequestsAssumption DEF Untouched
  <1>7. QueuesStayHome'
    BY <1>0, <1>2, <1>3, RequestsAssumption DEF QueuesStayHome
  <1>8. WaitersWait'
    BY <1>0, <1>1, <1>3 DEF WaitersWait, TypeOK, Untouched
  <1>9. SlotStates'
    <2> SUFFICES ASSUME NEW s \in Requests
                 PROVE  (/\ PendingWaits(s) /\ GrantedHolds(s) /\ FailedIsAway(s)
                         /\ pc[s] = "queued" => slot[s] # "none")'
      BY DEF SlotStates
    <2>1. CASE s = r
      <3>1. slot[r] = "none"
        BY <1>0, <1>1 DEF Untouched
      <3> QED BY <1>1, <1>3, <2>1, <3>1 DEF PendingWaits, GrantedHolds, FailedIsAway
    <2>2. CASE s # r /\ AddressOf[s] # a
      BY <1>0, <1>1, <1>3, <2>2, RequestsAssumption
      DEF SlotStates, PendingWaits, GrantedHolds, FailedIsAway
    <2>3. CASE s # r /\ AddressOf[s] = a
      <3>1. slot[s] # "pending" /\ ~Holds(s)
        BY <1>4, <2>3
      <3>2. slot[s] = "failed" => queueOf[s] # None
        BY <1>0 DEF Untouched, QueuesStayHome
      <3>3. slot[s] = "granted" /\ pc[s] = "queued" => ~open
        BY <1>0, <3>1 DEF SlotStates, GrantedHolds, Holds, QueuesStayHome
      <3> QED BY <1>0, <1>1, <1>3, <2>3, <3>1, <3>2, <3>3
              DEF SlotStates, PendingWaits, GrantedHolds, FailedIsAway
    <2> QED BY <2>1, <2>2, <2>3
  <1>10. OneHolder'
    <2>1. \A s, w \in Requests : (Holds(s) /\ Holds(w) /\ AddressOf[s] = AddressOf[w])' => s = w
      BY <1>0, <1>5 DEF OneHolder
    <2>2. \A x \in Addresses : nodeQueues'[x] # None =>
            (busy'[nodeQueues'[x]] <=> \E s \in Requests : Holds(s)' /\ AddressOf[s] = x)
      BY <1>0, <1>1, <1>3, <1>5 DEF OneHolder
    <2> QED BY <2>1, <2>2 DEF OneHolder
  <1>11. OutstandingHolds'
    BY <1>0, <1>1, <1>3, <1>5 DEF OutstandingHolds, Outstanding
  <1> QED BY <1>6, <1>7, <1>8, <1>9, <1>10, <1>11 DEF QueueInv

(* A call that finds the slot taken waits in the registered queue. *)
LEMMA CallAndWaitInv ==
    ASSUME QueueInv, TypeOK', NEW r \in Requests, CallAndWait(r)
    PROVE  QueueInv'
  <1> DEFINE q == QueueFor(r)
             a == AddressOf[r]
  <1>0. TypeOK /\ Untouched /\ QueuesStayHome /\ WaitersWait /\ SlotStates
        /\ OneHolder /\ OutstandingHolds
    BY DEF QueueInv
  <1>1. /\ pc[r] = "new" /\ ~Idle(q)
        /\ queueOf' = [queueOf EXCEPT ![r] = q]
        /\ waiters' = [waiters EXCEPT ![q] = @ \cup {r}]
        /\ slot' = [slot EXCEPT ![r] = "pending"]
        /\ pc' = [pc EXCEPT ![r] = "queued"]
        /\ UNCHANGED <<nodeQueues, busy, cancelling, reply, open>>
    BY DEF CallAndWait, clientVars, replyVars
  <1>2. slot[r] = "none" /\ ~busy[r] /\ waiters[r] = {} /\ q # r
    BY <1>0, <1>1 DEF Untouched, Idle
  <1>3. /\ q \in Requests /\ AddressOf[q] = a /\ a \in Addresses
        /\ q = nodeQueues[a] /\ pc[q] # "new" /\ busy[q]
    <2>1. q \in Requests /\ AddressOf[q] = a /\ q = nodeQueues[a] /\ pc[q] # "new"
      BY <1>1, <1>2, QueueFound
    <2>2. busy[q]
      BY <1>0, <1>1, <2>1 DEF WaitersWait, Idle
    <2> QED BY <2>1, <2>2, RequestsAssumption
  <1>4. /\ \A s \in Requests : s # r => /\ pc'[s] = pc[s] /\ queueOf'[s] = queueOf[s]
                                       /\ slot'[s] = slot[s]
        /\ pc'[r] = "queued" /\ queueOf'[r] = q /\ slot'[r] = "pending"
    BY <1>0, <1>1 DEF TypeOK
  <1>5. \A s \in Requests : Holds(s)' <=> Holds(s)
    BY <1>1, <1>4 DEF Holds
  <1>6. Untouched'
    BY <1>0, <1>1, <1>3, <1>4 DEF Untouched, TypeOK
  <1>7. QueuesStayHome'
    BY <1>0, <1>1, <1>3, <1>4, RequestsAssumption DEF QueuesStayHome
  <1>8. WaitersWait'
    BY <1>0, <1>1, <1>3, <1>4 DEF WaitersWait, TypeOK
  <1>9. ~cancelling[r]
    BY <1>0, <1>1 DEF Untouched
  <1>10. SlotStates'
    <2> SUFFICES ASSUME NEW s \in Requests
                 PROVE  (/\ PendingWaits(s) /\ GrantedHolds(s) /\ FailedIsAway(s)
                         /\ pc[s] = "queued" => slot[s] # "none")'
      BY DEF SlotStates
    <2>1. CASE s = r
      BY <1>0, <1>1, <1>3, <1>4, <1>9, <2>1
      DEF PendingWaits, GrantedHolds, FailedIsAway, TypeOK
    <2>2. CASE s # r
      <3>1. PendingWaits(s)'
        <4>1. slot[s] = "pending" => queueOf[s] \in Requests
          BY <1>0, RequestsAssumption DEF SlotStates, PendingWaits, QueuesStayHome, TypeOK
        <4> QED BY <1>0, <1>1, <1>4, <2>2, <4>1 DEF SlotStates, PendingWaits, TypeOK
      <3> QED BY <1>0, <1>1, <1>4, <2>2, <3>1 DEF SlotStates, GrantedHolds, FailedIsAway
    <2> QED BY <2>1, <2>2
  <1>11. OneHolder'
    BY <1>0, <1>1, <1>5 DEF OneHolder
  <1>12. OutstandingHolds'
    BY <1>0, <1>1, <1>4, <1>5 DEF OutstandingHolds, Outstanding
  <1> QED BY <1>6, <1>7, <1>8, <1>10, <1>11, <1>12 DEF QueueInv

(* A waiter that got the slot sends. *)
LEMMA ResumeAndSendInv ==
    ASSUME QueueInv, TypeOK', NEW r \in Requests, ResumeAndSend(r)
    PROVE  QueueInv'
  <1>0. TypeOK /\ Untouched /\ QueuesStayHome /\ WaitersWait /\ SlotStates
        /\ OneHolder /\ OutstandingHolds
    BY DEF QueueInv
  <1>1. /\ pc[r] = "queued" /\ slot[r] = "granted" /\ open
        /\ pc' = [pc EXCEPT ![r] = "awaiting"]
        /\ reply' = [reply EXCEPT ![r] = "pending"]
        /\ UNCHANGED <<nodeQueues, queueOf, busy, waiters, slot, cancelling, open>>
    BY DEF ResumeAndSend, Transmit, queueVars, clientVars
  <1>2. Holds(r)
    BY <1>0, <1>1, RequestsAssumption DEF SlotStates, GrantedHolds, Holds, QueuesStayHome
  <1>3. \A s \in Requests : pc'[s] = IF s = r THEN "awaiting" ELSE pc[s]
    BY <1>0, <1>1 DEF TypeOK
  <1>4. \A s \in Requests : Holds(s)' <=> Holds(s)
    BY <1>1, <1>2, <1>3 DEF Holds
  <1>5. Untouched' /\ QueuesStayHome' /\ WaitersWait'
    BY <1>0, <1>1, <1>3 DEF Untouched, QueuesStayHome, WaitersWait, TypeOK
  <1>6. SlotStates'
    BY <1>0, <1>1, <1>3 DEF SlotStates, PendingWaits, GrantedHolds, FailedIsAway
  <1>7. OneHolder'
    BY <1>0, <1>1, <1>4 DEF OneHolder
  <1>8. OutstandingHolds'
    BY <1>0, <1>1, <1>2, <1>3, <1>4 DEF OutstandingHolds, Outstanding, TypeOK
  <1> QED BY <1>5, <1>6, <1>7, <1>8 DEF QueueInv

(* A waiter that has no slot ends: nothing but its own state changes. *)
LEMMA WaiterEndsInv ==
    ASSUME QueueInv, TypeOK', NEW r \in Requests, NEW o \in Outcomes,
           pc[r] = "queued", slot[r] \in {"cancelled", "failed"},
           pc' = [pc EXCEPT ![r] = o],
           UNCHANGED <<nodeQueues, queueOf, busy, waiters, slot, cancelling, reply, open>>
    PROVE  QueueInv'
  <1>0. TypeOK /\ Untouched /\ QueuesStayHome /\ WaitersWait /\ SlotStates
        /\ OneHolder /\ OutstandingHolds
    BY DEF QueueInv
  <1>1. /\ o \notin {"new", "queued", "awaiting"}
        /\ \A s \in Requests : pc'[s] = IF s = r THEN o ELSE pc[s]
    BY <1>0 DEF TypeOK, Outcomes
  <1>2. \A s \in Requests : Holds(s)' <=> Holds(s)
    BY <1>1 DEF Holds
  <1>3. Untouched' /\ QueuesStayHome' /\ WaitersWait'
    BY <1>0, <1>1 DEF Untouched, QueuesStayHome, WaitersWait, TypeOK
  <1>4. SlotStates'
    BY <1>0, <1>1 DEF SlotStates, PendingWaits, GrantedHolds, FailedIsAway
  <1>5. OneHolder' /\ OutstandingHolds'
    BY <1>0, <1>1, <1>2 DEF OneHolder, OutstandingHolds, Outstanding
  <1> QED BY <1>3, <1>4, <1>5 DEF QueueInv

(* Cancelling a task takes its future out of the race for the slot. *)
LEMMA CancelTaskInv ==
    ASSUME QueueInv, TypeOK', NEW r \in Requests, CancelTask(r)
    PROVE  QueueInv'
  <1>0. TypeOK /\ Untouched /\ QueuesStayHome /\ WaitersWait /\ SlotStates
        /\ OneHolder /\ OutstandingHolds
    BY DEF QueueInv
  <1>1. /\ pc[r] # "new" /\ cancelling' = [cancelling EXCEPT ![r] = TRUE]
        /\ slot' = IF slot[r] = "pending" THEN [slot EXCEPT ![r] = "cancelled"] ELSE slot
        /\ UNCHANGED <<nodeQueues, queueOf, busy, waiters, pc, reply, open>>
    BY DEF CancelTask, clientVars, replyVars
  <1>2. \A s \in Requests :
          /\ slot'[s] = IF s = r /\ slot[s] = "pending" THEN "cancelled" ELSE slot[s]
          /\ s # r => cancelling'[s] = cancelling[s]
    BY <1>0, <1>1 DEF TypeOK
  <1>3. \A s \in Requests : Holds(s)' <=> Holds(s)
    BY <1>1, <1>2 DEF Holds
  <1>4. Untouched' /\ QueuesStayHome'
    BY <1>0, <1>1, <1>2 DEF Untouched, QueuesStayHome
  <1>5. WaitersWait'
    BY <1>0, <1>1, <1>2 DEF WaitersWait, TypeOK
  <1>6. SlotStates'
    <2> SUFFICES ASSUME NEW s \in Requests
                 PROVE  (/\ PendingWaits(s) /\ GrantedHolds(s) /\ FailedIsAway(s)
                         /\ pc[s] = "queued" => slot[s] # "none")'
      BY DEF SlotStates
    <2>1. slot'[s] = slot[s] \/ slot'[s] = "cancelled"
      BY <1>2
    <2>2. slot'[s] = "pending" => slot[s] = "pending" /\ cancelling'[s] = cancelling[s]
      BY <1>2
    <2>3. PendingWaits(s)'
      BY <1>0, <1>1, <2>2 DEF SlotStates, PendingWaits
    <2>4. GrantedHolds(s)' /\ FailedIsAway(s)'
      BY <1>0, <1>1, <2>1 DEF SlotStates, GrantedHolds, FailedIsAway
    <2> QED BY <1>0, <1>1, <2>1, <2>3, <2>4 DEF SlotStates
  <1>7. OneHolder' /\ OutstandingHolds'
    BY <1>0, <1>1, <1>3 DEF OneHolder, OutstandingHolds, Outstanding
  <1> QED BY <1>4, <1>5, <1>6, <1>7 DEF QueueInv

(* stop() leaves no registered queue, no waiter and no outstanding request. *)
LEMMA StopInv ==
    ASSUME IInv, TypeOK', Stop
    PROVE  QueueInv'
  <1>0. TypeOK /\ Untouched /\ QueuesStayHome /\ WaitersWait /\ SlotStates
        /\ OneHolder /\ OutstandingHolds /\ PendingInv
    BY DEF IInv, QueueInv
  <1>1. /\ open' = FALSE
        /\ \A a \in Addresses : nodeQueues'[a] = None
        /\ \A q \in Requests : waiters'[q] = IF Registered(q) THEN {} ELSE waiters[q]
        /\ UNCHANGED <<queueOf, busy, pc, cancelling>>
    BY DEF Stop, taskVars
  <1>2. \A s \in Requests :
          slot'[s] = IF slot[s] = "pending" THEN "failed" ELSE slot[s]
    <2> SUFFICES ASSUME NEW s \in Requests, slot[s] = "pending"
                 PROVE  \E q \in Requests : Registered(q) /\ s \in waiters[q]
      BY DEF Stop
    <2>1. /\ s \in waiters[queueOf[s]] /\ queueOf[s] \in Requests
          /\ nodeQueues[AddressOf[s]] = queueOf[s] /\ AddressOf[s] \in Addresses
      BY <1>0, RequestsAssumption DEF SlotStates, PendingWaits, QueuesStayHome, TypeOK
    <2> QED BY <2>1 DEF Registered
  <1>3. \A s \in Requests : ~Holds(s)' /\ AddressOf[s] \in Addresses
    BY <1>1, RequestsAssumption DEF Holds
  <1>4. \A s \in Requests : ~Outstanding(s)'
    BY <1>0, <1>1 DEF Stop, PendingInv, Outstanding
  <1>5. \A q \in Requests, w \in Requests : w \in waiters'[q] => slot[w] # "pending"
    <2> SUFFICES ASSUME NEW q \in Requests, NEW w \in Requests,
                        w \in waiters'[q], slot[w] = "pending"
                 PROVE  FALSE
      OBVIOUS
    <2>1. ~Registered(q) /\ w \in waiters[q]
      BY <1>1
    <2>2. nodeQueues[AddressOf[w]] = q /\ AddressOf[w] \in Addresses
      BY <1>0, <2>1, RequestsAssumption DEF SlotStates, PendingWaits, WaitersWait
    <2> QED BY <2>1, <2>2 DEF Registered
  <1>6. Untouched' /\ QueuesStayHome'
    BY <1>0, <1>1, <1>2 DEF Untouched, QueuesStayHome, TypeOK, RequestsAssumption
  <1>7. WaitersWait'
    <2>1. ASSUME NEW q \in Requests, NEW w \in waiters'[q]
          PROVE  queueOf'[w] = q /\ pc'[w] # "new" /\ slot'[w] \in {"pending", "cancelled"}
      <3>1. w \in waiters[q] /\ w \in Requests
        BY <1>0, <1>1, <2>1 DEF TypeOK
      <3>2. slot[w] # "pending"
        BY <1>5, <2>1, <3>1
      <3> QED BY <1>0, <1>1, <1>2, <3>1, <3>2 DEF WaitersWait
    <2>2. \A q \in Requests : waiters'[q] # {} => busy'[q]
      BY <1>0, <1>1 DEF WaitersWait
    <2> QED BY <2>1, <2>2 DEF WaitersWait
  <1>8. SlotStates'
    <2>1. \A s \in Requests : slot'[s] = "failed" => queueOf[s] # None
      BY <1>0, <1>2 DEF Untouched, QueuesStayHome
    <2> QED BY <1>0, <1>1, <1>2, <1>3, <2>1
            DEF SlotStates, PendingWaits, GrantedHolds, FailedIsAway
  <1>9. OneHolder' /\ OutstandingHolds'
    BY <1>1, <1>3, <1>4 DEF OneHolder, OutstandingHolds
  <1> QED BY <1>6, <1>7, <1>8, <1>9 DEF QueueInv

(* Steps that leave the queues alone, and answers to pending requests. *)
LEMMA QuietInv ==
    ASSUME QueueInv, TypeOK',
           UNCHANGED <<nodeQueues, queueOf, busy, waiters, slot, pc, cancelling>>,
           \A r \in Requests : reply'[r] = "pending" => reply[r] = "pending",
           open' => open \/ \A r \in Requests : pc[r] # "queued"
    PROVE  QueueInv'
  <1>0. TypeOK /\ Untouched /\ QueuesStayHome /\ WaitersWait /\ SlotStates
        /\ OneHolder /\ OutstandingHolds
    BY DEF QueueInv
  <1>1. \A s \in Requests : Holds(s)' <=> Holds(s)
    BY DEF Holds
  <1>2. Untouched' /\ QueuesStayHome' /\ WaitersWait'
    BY <1>0 DEF Untouched, QueuesStayHome, WaitersWait
  <1>3. SlotStates'
    BY <1>0 DEF SlotStates, PendingWaits, GrantedHolds, FailedIsAway
  <1>4. OneHolder' /\ OutstandingHolds'
    BY <1>0, <1>1 DEF OneHolder, OutstandingHolds, Outstanding
  <1> QED BY <1>2, <1>3, <1>4 DEF QueueInv

(* Every step of the client keeps the inductive invariant. *)
LEMMA InvStep ==
    ASSUME IInv, [Next]_vars
    PROVE  IInv'
  <1>0. TypeOK /\ QueueInv /\ PendingInv
    BY DEF IInv, QueueInv
  <1>1. TypeOK'
    BY <1>0, TypeStep
  <1>2. PendingInv'
    BY <1>0, PendingStep
  <1>3. ASSUME NEW r \in Requests, Call(r) PROVE QueueInv'
    BY <1>0, <1>1, <1>3, CallAndSendInv, CallAndFailInv, CallAndWaitInv DEF Call
  <1>4. ASSUME NEW r \in Requests, ResumeAndSend(r) PROVE QueueInv'
    BY <1>0, <1>1, <1>4, ResumeAndSendInv
  <1>5. ASSUME NEW r \in Requests, NEW o \in Outcomes,
               pc[r] = "awaiting" \/ (pc[r] = "queued" /\ slot[r] \in {"granted", "failed"}),
               pc' = [pc EXCEPT ![r] = o], Leave(r), UNCHANGED <<cancelling, reply, open>>
        PROVE  QueueInv'
    <2>1. /\ Release(queueOf[r]) /\ UNCHANGED queueOf
          /\ \/ nodeQueues' = nodeQueues
             \/ /\ Live(queueOf[r]) = {} /\ nodeQueues[AddressOf[r]] = queueOf[r]
                /\ nodeQueues' = [nodeQueues EXCEPT ![AddressOf[r]] = None]
      BY <1>5 DEF Leave
    <2> QED BY <1>0, <1>1, <1>5, <2>1, HandOver
  <1>6. ASSUME NEW r \in Requests, ResumeAndFail(r) PROVE QueueInv'
    <2>1. PICK o \in Outcomes : pc' = [pc EXCEPT ![r] = o]
      BY <1>6 DEF ResumeAndFail, FailToSend, Outcomes
    <2>2. /\ pc[r] = "queued" /\ slot[r] = "granted" /\ Leave(r)
          /\ UNCHANGED <<cancelling, reply, open>>
      BY <1>6 DEF ResumeAndFail, FailToSend, clientVars, replyVars
    <2> QED BY <1>5, <2>1, <2>2
  <1>7. ASSUME NEW r \in Requests, ResumeStopped(r) PROVE QueueInv'
    <2>1. /\ pc[r] = "queued" /\ slot[r] = "failed"
          /\ pc' = [pc EXCEPT ![r] = "stopped"] /\ "stopped" \in Outcomes
          /\ UNCHANGED <<nodeQueues, queueOf, busy, waiters, slot, cancelling, reply, open>>
      BY <1>7 DEF ResumeStopped, Outcomes, queueVars, clientVars, replyVars
    <2> QED BY <1>0, <1>1, <2>1, WaiterEndsInv
  <1>8. ASSUME NEW r \in Requests, ResumeCancelled(r) PROVE QueueInv'
    <2>1. /\ pc[r] = "queued" /\ cancelling[r] /\ "cancelled" \in Outcomes
          /\ pc' = [pc EXCEPT ![r] = "cancelled"]
          /\ UNCHANGED <<nodeQueues, queueOf, cancelling, reply, open>>
      BY <1>8 DEF ResumeCancelled, Outcomes, clientVars, replyVars
    <2>2. CASE slot[r] = "cancelled"
      BY <1>0, <1>1, <1>8, <2>1, <2>2, WaiterEndsInv DEF ResumeCancelled
    <2>3. CASE slot[r] # "cancelled"
      <3>1. slot[r] \in {"granted", "failed"}
        BY <1>0, <2>1, <2>3 DEF QueueInv, SlotStates, PendingWaits, TypeOK
      <3>2. Release(queueOf[r])
        BY <1>8, <2>3 DEF ResumeCancelled
      <3> QED BY <1>0, <1>1, <2>1, <3>1, <3>2, HandOver
    <2> QED BY <2>2, <2>3
  <1>9. ASSUME NEW r \in Requests,
               FinishAnswered(r) \/ FinishStopped(r) \/ FinishTimeout(r) \/ FinishCancelled(r)
        PROVE  QueueInv'
    <2>1. pc[r] = "awaiting" /\ \E o \in Outcomes : Finish(r, o)
      BY <1>9 DEF FinishAnswered, FinishStopped, FinishTimeout, FinishCancelled, Outcomes
    <2> QED BY <1>5, <2>1 DEF Finish, clientVars, replyVars
  <1>10. ASSUME NEW r \in Requests, CancelTask(r) PROVE QueueInv'
    BY <1>0, <1>1, <1>10, CancelTaskInv
  <1>11. ASSUME NEW t, NEW s, Accept(t, s) PROVE QueueInv'
    BY <1>0, <1>1, <1>11, QuietInv
    DEF Accept, clientVars, queueVars, taskVars, TypeOK, QueueInv
  <1>12. ASSUME NEW r \in Requests, TimerFires(r) \/ Receive(r) PROVE QueueInv'
    BY <1>0, <1>1, <1>11, <1>12, QuietInv
    DEF TimerFires, Receive, clientVars, queueVars, replyVars
  <1>13. ASSUME NEW t \in Tids, Notify(t) PROVE QueueInv'
    BY <1>11, <1>13 DEF Notify
  <1>14. ASSUME Stop PROVE QueueInv'
    BY <1>1, <1>14, StopInv
  <1>15. ASSUME Start \/ Probe \/ ProbeSpins \/ UNCHANGED vars PROVE QueueInv'
    BY <1>0, <1>1, <1>15, QuietInv
    DEF Start, Probe, ProbeSpins, vars, clientVars, queueVars, taskVars, replyVars
  <1>16. QueueInv'
    BY <1>3, <1>4, <1>6, <1>7, <1>8, <1>9, <1>10, <1>12, <1>13, <1>14, <1>15
    DEF Next, Step, Resume
  <1> QED BY <1>2, <1>16 DEF IInv

(* A started client with nothing in flight satisfies the invariant. *)
LEMMA InvInit == Init => IInv
  <1> SUFFICES ASSUME Init PROVE IInv
    OBVIOUS
  <1>1. TypeOK
    <2>1. stuck \in BOOLEAN
      BY Zenon DEF Init
    <2> QED BY <2>1, BoundsAssumption, RequestsAssumption DEF Init, TypeOK, Tids, Outcomes
  <1>2. Untouched /\ QueuesStayHome /\ WaitersWait /\ SlotStates
    BY RequestsAssumption
    DEF Init, Untouched, QueuesStayHome, WaitersWait, SlotStates,
        PendingWaits, GrantedHolds, FailedIsAway
  <1>3. OneHolder /\ OutstandingHolds /\ PendingInv
    BY DEF Init, OneHolder, OutstandingHolds, PendingInv, Holds, Outstanding
  <1> QED BY <1>1, <1>2, <1>3 DEF IInv, QueueInv

(* The inductive invariant holds in every behaviour. *)
THEOREM Invariant == Spec => []IInv
  BY InvInit, InvStep, PTL DEF Spec

(* ADR-0011: one outstanding request per node. *)
THEOREM OneOutstandingPerNode == Spec => []OneOutstanding
  <1>1. IInv => OneOutstanding
    BY DEF IInv, QueueInv, OutstandingHolds, OneHolder, OneOutstanding
  <1> QED BY <1>1, Invariant, PTL

(* A registered queue is busy exactly while a request owns its slot. *)
THEOREM NoSlotIsLost == Spec => []SlotHasOwner
  <1> SUFFICES ASSUME IInv PROVE SlotHasOwner
    BY Invariant, PTL
  <1>0. TypeOK /\ QueuesStayHome /\ OneHolder
    BY DEF IInv, QueueInv
  <1> SUFFICES ASSUME NEW a \in Addresses, nodeQueues[a] # None
               PROVE  busy[nodeQueues[a]] <=> \E r \in Requests : Owner(r, nodeQueues[a])
    BY DEF SlotHasOwner
  <1>1. \A r \in Requests : Owner(r, nodeQueues[a]) <=> Holds(r) /\ AddressOf[r] = a
    BY <1>0 DEF QueuesStayHome, Owner, Holds
  <1> QED BY <1>0, <1>1 DEF OneHolder

(* A waiting request waits behind an owner who will hand the slot over. *)
THEOREM NoWakeupIsLost == Spec => []NoLostWakeup
  <1> SUFFICES ASSUME IInv PROVE NoLostWakeup
    BY Invariant, PTL
  <1>0. TypeOK /\ QueuesStayHome /\ WaitersWait /\ SlotStates /\ OneHolder
    BY DEF IInv, QueueInv
  <1> SUFFICES ASSUME NEW r \in Requests, slot[r] = "pending"
               PROVE  /\ nodeQueues[AddressOf[r]] = queueOf[r]
                      /\ r \in waiters[queueOf[r]]
                      /\ \E s \in Requests \ {r} : Owner(s, queueOf[r])
    BY DEF NoLostWakeup
  <1>1. /\ nodeQueues[AddressOf[r]] = queueOf[r] /\ r \in waiters[queueOf[r]]
        /\ pc[r] = "queued" /\ queueOf[r] # None
    BY <1>0 DEF SlotStates, PendingWaits, QueuesStayHome
  <1>2. AddressOf[r] \in Addresses /\ queueOf[r] \in Requests
    BY <1>0, <1>1, RequestsAssumption DEF TypeOK
  <1>3. busy[queueOf[r]]
    BY <1>0, <1>1, <1>2 DEF WaitersWait
  <1>4. PICK s \in Requests : Holds(s) /\ AddressOf[s] = AddressOf[r]
    BY <1>0, <1>1, <1>2, <1>3 DEF OneHolder
  <1>5. s # r /\ Owner(s, queueOf[r])
    BY <1>1, <1>4 DEF Holds, Owner
  <1> QED BY <1>1, <1>5

(* _pending holds exactly the outstanding requests, under their own TIDs. *)
THEOREM PendingIsOutstanding == Spec => []PendingMatchesOutstanding
  <1>1. ASSUME IInv PROVE PendingMatchesOutstanding
    <2> SUFFICES ASSUME NEW r \in Requests
                 PROVE  Outstanding(r) <=> \E t \in Tids : pending[t] = r /\ tid[r] = t
      BY DEF PendingMatchesOutstanding
    <2>1. PendingInv
      BY <1>1 DEF IInv
    <2>2. ASSUME Outstanding(r) PROVE tid[r] \in Tids /\ pending[tid[r]] = r
      BY <2>1, <2>2 DEF PendingInv, Outstanding
    <2>3. ASSUME NEW t \in Tids, pending[t] = r PROVE Outstanding(r)
      BY <2>1, <2>3, RequestsAssumption DEF PendingInv
    <2> QED BY <2>2, <2>3
  <1> QED BY <1>1, Invariant, PTL

-----------------------------------------------------------------------------
(* A step of the pipeline loses no answer that was accepted. *)
LEMMA DeliveryStep ==
    ASSUME IInv, DeliveryInv, [Next]_vars
    PROVE  DeliveryInv'
  <1>0. TypeOK /\ PendingInv
    BY DEF IInv, QueueInv
  <1>1. CASE UNCHANGED <<pc, reply>>
    BY <1>1 DEF DeliveryInv, AnswerIsDelivered
  <1>2. ASSUME NEW r \in Requests, pc[r] \in {"new", "queued"}, Transmit(r)
        PROVE  DeliveryInv'
    <2>1. /\ pc' = [pc EXCEPT ![r] = "awaiting"]
          /\ reply' = [reply EXCEPT ![r] = "pending"]
      BY <1>2 DEF Transmit
    <2> QED BY <1>0, <2>1 DEF DeliveryInv, AnswerIsDelivered, TypeOK, Outcomes
  <1>3. ASSUME NEW r \in Requests, pc[r] \in {"new", "queued"},
               NEW o \in Outcomes \cup {"queued"}, pc' = [pc EXCEPT ![r] = o],
               UNCHANGED reply
        PROVE  DeliveryInv'
    BY <1>0, <1>3 DEF DeliveryInv, AnswerIsDelivered, TypeOK, Outcomes
  <1>4. ASSUME NEW r \in Requests, pc[r] = "awaiting",
               NEW o \in Outcomes, Finish(r, o),
               reply[r] = "result" => o \in {"answered", "cancelled"}
        PROVE  DeliveryInv'
    <2>1. pc' = [pc EXCEPT ![r] = o] /\ UNCHANGED reply
      BY <1>4 DEF Finish, replyVars
    <2> QED BY <1>0, <1>4, <2>1 DEF DeliveryInv, AnswerIsDelivered, TypeOK, Outcomes
  <1>5. ASSUME NEW t \in Tids, pending[t] # None, NEW from, Accept(t, from)
        PROVE  DeliveryInv'
    <2>1. pending[t] \in Requests /\ pc[pending[t]] = "awaiting"
      BY <1>0, <1>5 DEF PendingInv, Outstanding, TypeOK
    <2>2. UNCHANGED pc /\ \A r \in Requests : r # pending[t] => reply'[r] = reply[r]
      BY <1>0, <1>5 DEF Accept, taskVars, TypeOK
    <2> QED BY <2>1, <2>2 DEF DeliveryInv, AnswerIsDelivered, Outcomes
  <1>6. ASSUME NEW r \in Requests, Call(r) PROVE DeliveryInv'
    <2>1. CASE CallAndSend(r)
      BY <1>2, <2>1 DEF CallAndSend
    <2>2. CASE CallAndFail(r)
      <3>1. /\ pc[r] = "new" /\ UNCHANGED reply
            /\ \E o \in Outcomes : pc' = [pc EXCEPT ![r] = o]
        BY <2>2 DEF CallAndFail, FailToSend, replyVars, Outcomes
      <3> QED BY <1>3, <3>1
    <2>3. CASE CallAndWait(r)
      BY <1>3, <2>3 DEF CallAndWait, replyVars
    <2> QED BY <1>6, <2>1, <2>2, <2>3 DEF Call
  <1>7. ASSUME NEW r \in Requests, Resume(r) PROVE DeliveryInv'
    <2>1. CASE ResumeAndSend(r)
      BY <1>2, <2>1 DEF ResumeAndSend
    <2>2. CASE ResumeAndFail(r) \/ ResumeStopped(r) \/ ResumeCancelled(r)
      <3>1. /\ pc[r] = "queued" /\ UNCHANGED reply
            /\ \E o \in Outcomes : pc' = [pc EXCEPT ![r] = o]
        BY <2>2 DEF ResumeAndFail, ResumeStopped, ResumeCancelled, FailToSend,
                    replyVars, Outcomes
      <3> QED BY <1>3, <3>1
    <2>3. CASE FinishAnswered(r) \/ FinishStopped(r) \/ FinishTimeout(r) \/ FinishCancelled(r)
      <3>1. \E o \in Outcomes : /\ pc[r] = "awaiting" /\ Finish(r, o)
                                /\ reply[r] = "result" => o \in {"answered", "cancelled"}
        BY <2>3 DEF FinishAnswered, FinishStopped, FinishTimeout, FinishCancelled, Outcomes
      <3> QED BY <1>4, <3>1
    <2> QED BY <1>7, <2>1, <2>2, <2>3 DEF Resume
  <1>8. ASSUME NEW r \in Requests, TimerFires(r) \/ CancelTask(r) PROVE DeliveryInv'
    BY <1>1, <1>8 DEF TimerFires, CancelTask, replyVars
  <1>9. ASSUME NEW r \in Requests, Receive(r) PROVE DeliveryInv'
    <2>1. tid[r] \in Tids /\ pending[tid[r]] # None /\ Accept(tid[r], r)
      BY <1>0, <1>9 DEF Receive, PendingInv
    <2> QED BY <1>5, <2>1
  <1>10. ASSUME NEW t \in Tids, Notify(t) PROVE DeliveryInv'
    BY <1>5, <1>10, RequestsAssumption DEF Notify
  <1>11. CASE Stop
    <2>1. /\ UNCHANGED pc
          /\ \A r \in Requests : reply'[r] \in {reply[r], "stopped"}
          /\ \A r \in Requests : reply[r] = "none" => reply'[r] = "none"
      BY <1>11 DEF Stop, taskVars
    <2> QED BY <2>1 DEF DeliveryInv, AnswerIsDelivered
  <1>12. CASE Start \/ Probe \/ ProbeSpins \/ UNCHANGED vars
    BY <1>1, <1>12 DEF Start, Probe, ProbeSpins, vars, taskVars, replyVars
  <1> QED BY <1>6, <1>7, <1>8, <1>9, <1>10, <1>11, <1>12 DEF Next, Step

(* An answer that raced the timeout, or stop(), is not thrown away. *)
THEOREM AcceptedIsDelivered == Spec => []AnswerIsDelivered
  <1>1. Init => DeliveryInv
    BY DEF Init, DeliveryInv, AnswerIsDelivered
  <1>2. DeliveryInv => AnswerIsDelivered
    BY DEF DeliveryInv
  <1>3. IInv /\ DeliveryInv /\ [Next]_vars => DeliveryInv'
    BY DeliveryStep
  <1> QED BY <1>1, <1>2, <1>3, Invariant, PTL DEF Spec

-----------------------------------------------------------------------------
(* Answers are not mistaken: the requests that drew a transaction ID, how   *)
(* often the client drew one, and how far back the ID of r was drawn.       *)
Drawn == {r \in Requests : tid[r] # 0}
Draws == Cardinality(Drawn) + starts + probes
Behind(r) == IF tid[r] <= tidCounter THEN tidCounter - tid[r] ELSE tidCounter + MaxTid - tid[r]

(* The IDs drawn so far are the last Draws of them, one for each request.   *)
TidsInv ==
    /\ \A r \in Requests : pc[r] \in {"new", "queued"} => tid[r] = 0
    /\ \A r \in Drawn : Behind(r) < Draws
    /\ \A r, s \in Drawn : tid[r] = tid[s] => r = s

(* The transaction IDs do not come round: there is one for every draw. *)
TidsSuffice ==
    IsFiniteSet(Requests) /\ Cardinality(Requests) + MaxStarts + MaxProbes <= MaxTid

LEMMA DrawsFacts ==
    ASSUME IsFiniteSet(Requests), TypeOK
    PROVE  /\ Cardinality(Requests) \in Nat
           /\ IsFiniteSet(Drawn) /\ Cardinality(Drawn) \in Nat
           /\ Cardinality(Drawn) <= Cardinality(Requests)
           /\ \A r \in Requests \ Drawn :
                /\ Cardinality(Drawn) < Cardinality(Requests)
                /\ Cardinality(Drawn \cup {r}) = Cardinality(Drawn) + 1
           /\ Draws \in Nat
  <1>1. Drawn \subseteq Requests
    BY DEF Drawn
  <1> HIDE DEF Drawn
  <1>2. /\ Cardinality(Requests) \in Nat
        /\ IsFiniteSet(Drawn) /\ Cardinality(Drawn) \in Nat
        /\ Cardinality(Drawn) <= Cardinality(Requests)
    BY <1>1, FS_Subset, FS_CardinalityType
  <1>3. ASSUME NEW r \in Requests \ Drawn
        PROVE  /\ Cardinality(Drawn) < Cardinality(Requests)
               /\ Cardinality(Drawn \cup {r}) = Cardinality(Drawn) + 1
    <2>1. Cardinality(Drawn \cup {r}) = Cardinality(Drawn) + 1
      BY <1>2, FS_AddElement
    <2>2. Drawn \cup {r} \subseteq Requests
      BY <1>1
    <2>3. Cardinality(Drawn \cup {r}) <= Cardinality(Requests)
      BY <2>2, FS_Subset
    <2> QED BY <1>2, <2>1, <2>3
  <1>4. starts \in Nat /\ probes \in Nat
    BY BoundsAssumption DEF TypeOK
  <1> QED BY <1>2, <1>3, <1>4 DEF Draws

(* While IDs are left, the next one is drawn, and no request ever had it.   *)
LEMMA NextTidIsFresh ==
    ASSUME IsFiniteSet(Requests), TypeOK, PendingInv, TidsInv, Draws < MaxTid
    PROVE  /\ ~NoTidLeft
           /\ \A t \in Tids : NextTid(t) =>
                /\ t = TidAt(1)
                /\ \A r \in Drawn : /\ tid[r] # t
                                    /\ (IF tid[r] <= t THEN t - tid[r] ELSE t + MaxTid - tid[r])
                                         <= Draws
                /\ t \in Tids
  <1>1. /\ MaxTid \in Nat \ {0} /\ tidCounter \in 0..MaxTid /\ Draws \in Nat
        /\ TidAt(1) \in Tids
    BY BoundsAssumption, DrawsFacts, TidAtInRange DEF TypeOK, Tids
  <1>2. ASSUME NEW r \in Drawn
        PROVE  /\ tid[r] # TidAt(1)
               /\ (IF tid[r] <= TidAt(1) THEN TidAt(1) - tid[r] ELSE TidAt(1) + MaxTid - tid[r])
                    <= Draws
    <2>1. tid[r] \in 1..MaxTid /\ Behind(r) < Draws
      BY <1>2 DEF TidsInv, TypeOK, Drawn
    <2> QED BY <1>1, <2>1 DEF Behind, TidAt, Tids
  <1>3. pending[TidAt(1)] = None
    <2> SUFFICES ASSUME pending[TidAt(1)] # None PROVE FALSE
      OBVIOUS
    <2>1. /\ pending[TidAt(1)] \in Requests
          /\ tid[pending[TidAt(1)]] = TidAt(1)
      BY <1>1 DEF PendingInv, TypeOK
    <2>2. pending[TidAt(1)] \in Drawn
      BY <1>1, <2>1 DEF Drawn, Tids
    <2> QED BY <1>2, <2>1, <2>2
  <1>4. ASSUME NEW t \in Tids, NextTid(t) PROVE t = TidAt(1)
    <2>1. PICK k \in Tids : t = TidAt(k) /\ \A j \in 1..(k - 1) : pending[TidAt(j)] # None
      BY <1>4 DEF NextTid
    <2>2. k = 1
      BY <1>1, <1>3, <2>1 DEF Tids
    <2> QED BY <2>1, <2>2
  <1> QED BY <1>1, <1>2, <1>3, <1>4 DEF NoTidLeft

(* A request draws its ID, and the client one more. *)
LEMMA DrawForRequest ==
    ASSUME TidsSuffice, TypeOK, PendingInv, TidsInv,
           NEW r \in Requests, pc[r] \in {"new", "queued"},
           NEW t \in Tids, NextTid(t), tidCounter' = t, tid' = [tid EXCEPT ![r] = t],
           UNCHANGED <<starts, probes>>,
           pc'[r] \notin {"new", "queued"}, \A s \in Requests \ {r} : pc'[s] = pc[s]
    PROVE  TidsInv'
  <1>1. r \notin Drawn /\ Drawn' = Drawn \cup {r}
    BY BoundsAssumption DEF TidsInv, Drawn, TypeOK, Tids
  <1>2. Draws \in Nat /\ Draws' = Draws + 1 /\ Draws < MaxTid
    <2>1. Cardinality(Drawn') = Cardinality(Drawn) + 1
      BY <1>1, DrawsFacts DEF TidsSuffice
    <2>2. /\ Cardinality(Requests) \in Nat /\ Cardinality(Drawn) \in Nat
          /\ Cardinality(Drawn) < Cardinality(Requests)
      BY <1>1, DrawsFacts DEF TidsSuffice
    <2>3. /\ starts \in 0..MaxStarts /\ probes \in 0..MaxProbes /\ MaxStarts \in Nat
          /\ MaxProbes \in Nat /\ MaxTid \in Nat
      BY BoundsAssumption DEF TypeOK
    <2> QED BY <2>1, <2>2, <2>3 DEF Draws, TidsSuffice
  <1>3. \A s \in Drawn : /\ tid[s] # t
                         /\ (IF tid[s] <= t THEN t - tid[s] ELSE t + MaxTid - tid[s]) <= Draws
    BY <1>2, NextTidIsFresh DEF TidsSuffice
  <1>4. tid'[r] = t /\ \A s \in Drawn : tid'[s] = tid[s]
    BY <1>1 DEF TypeOK, Drawn
  <1>5. \A s \in Requests : pc'[s] \in {"new", "queued"} => tid'[s] = 0
    BY DEF TidsInv, TypeOK
  <1>6. ASSUME NEW s \in Drawn' PROVE Behind(s)' < Draws'
    <2>1. CASE s = r
      <3>1. Behind(s)' = t - t
        BY <1>4, <2>1 DEF Behind, Tids
      <3> QED BY <1>2, <3>1 DEF Tids
    <2>2. CASE s # r
      <3>1. s \in Drawn
        BY <1>1, <2>2
      <3>2. Behind(s)' <= Draws /\ Behind(s)' \in Int
        <4>1. MaxTid \in Nat /\ tid[s] \in Nat /\ t \in Nat
          BY <3>1, BoundsAssumption DEF TypeOK, Drawn, Tids
        <4> QED BY <1>3, <1>4, <3>1, <4>1 DEF Behind
      <3> QED BY <1>2, <3>2
    <2> QED BY <2>1, <2>2
  <1>7. \A s, q \in Drawn' : tid'[s] = tid'[q] => s = q
    BY <1>1, <1>3, <1>4 DEF TidsInv
  <1> QED BY <1>5, <1>6, <1>7 DEF TidsInv

(* start() and the discovery loop draw an ID that no request gets. *)
LEMMA DrawForProbe ==
    ASSUME TidsSuffice, TypeOK, PendingInv, TidsInv,
           NEW t \in Tids, NextTid(t), tidCounter' = t, UNCHANGED <<tid, pc>>,
           \/ starts' = starts + 1 /\ UNCHANGED probes
           \/ probes' = probes + 1 /\ UNCHANGED starts,
           starts + probes < MaxStarts + MaxProbes
    PROVE  TidsInv'
  <1>1. Drawn' = Drawn
    BY DEF Drawn
  <1>2. Draws \in Nat /\ Draws' = Draws + 1 /\ Draws < MaxTid
    <2>1. /\ Cardinality(Requests) \in Nat /\ Cardinality(Drawn) \in Nat
          /\ Cardinality(Drawn) <= Cardinality(Requests)
      BY DrawsFacts DEF TidsSuffice
    <2>2. /\ starts \in Nat /\ probes \in Nat /\ MaxStarts \in Nat
          /\ MaxProbes \in Nat /\ MaxTid \in Nat
      BY BoundsAssumption DEF TypeOK
    <2>3. Draws' = Cardinality(Drawn) + starts' + probes'
      BY <1>1 DEF Draws
    <2> DEFINE n == Cardinality(Drawn)
    <2> HIDE DEF n
    <2>4. Draws = n + starts + probes /\ Draws' = n + starts' + probes' /\ n \in Nat
      BY <2>1, <2>3 DEF Draws, n
    <2>5. n + MaxStarts + MaxProbes <= MaxTid
      BY <2>1, <2>2 DEF n, TidsSuffice
    <2>6. Draws \in Nat
      BY <2>2, <2>4
    <2>7. Draws' = Draws + 1
      BY <2>2, <2>4
    <2>8. Draws < MaxTid
      BY <2>2, <2>4, <2>5
    <2> QED BY <2>6, <2>7, <2>8
  <1>3. \A s \in Drawn : (IF tid[s] <= t THEN t - tid[s] ELSE t + MaxTid - tid[s]) <= Draws
    BY <1>2, NextTidIsFresh DEF TidsSuffice
  <1>4. ASSUME NEW s \in Drawn PROVE Behind(s)' < Draws'
    <2>1. Behind(s)' <= Draws /\ Behind(s)' \in Int
      <3>1. MaxTid \in Nat /\ tid[s] \in Nat /\ t \in Nat
        BY BoundsAssumption DEF TypeOK, Drawn, Tids
      <3> QED BY <1>3, <3>1 DEF Behind
    <2> QED BY <1>2, <2>1
  <1> QED BY <1>1, <1>4 DEF TidsInv

(* What leaves the IDs alone. *)
LEMMA NothingDrawn ==
    ASSUME TidsInv, UNCHANGED <<tid, tidCounter, starts, probes>>,
           \A r \in Requests : pc'[r] \in {"new", "queued"} => pc[r] \in {"new", "queued"}
    PROVE  TidsInv'
  <1>1. Drawn' = Drawn /\ Draws' = Draws
    BY DEF Drawn, Draws
  <1>2. \A r \in Requests : Behind(r)' = Behind(r)
    BY DEF Behind
  <1> QED BY <1>1, <1>2 DEF TidsInv, Drawn

LEMMA TransmitDraws ==
    ASSUME TidsSuffice, TypeOK, PendingInv, TidsInv,
           NEW r \in Requests, pc[r] \in {"new", "queued"}, Transmit(r)
    PROVE  TidsInv'
  <1>1. PICK t \in Tids : NextTid(t) /\ tidCounter' = t /\ tid' = [tid EXCEPT ![r] = t]
    BY DEF Transmit
  <1>2. /\ pc'[r] = "awaiting" /\ \A s \in Requests \ {r} : pc'[s] = pc[s]
        /\ UNCHANGED <<starts, probes>>
    BY DEF Transmit, clientVars, TypeOK
  <1> QED BY <1>1, <1>2, DrawForRequest

LEMMA FailToSendDraws ==
    ASSUME TidsSuffice, TypeOK, PendingInv, TidsInv,
           NEW r \in Requests, pc[r] \in {"new", "queued"}, FailToSend(r)
    PROVE  TidsInv'
  <1>1. ~NoTidLeft
    <2>1. r \in Requests \ Drawn
      BY DEF TidsInv, Drawn
    <2>2. /\ Cardinality(Requests) \in Nat /\ Cardinality(Drawn) \in Nat
          /\ Cardinality(Drawn) < Cardinality(Requests)
      BY <2>1, DrawsFacts DEF TidsSuffice
    <2>3. /\ starts \in 0..MaxStarts /\ probes \in 0..MaxProbes /\ MaxStarts \in Nat
          /\ MaxProbes \in Nat /\ MaxTid \in Nat
      BY BoundsAssumption DEF TypeOK
    <2>4. Draws < MaxTid
      BY <2>2, <2>3 DEF Draws, TidsSuffice
    <2> QED BY <2>4, NextTidIsFresh DEF TidsSuffice
  <1>2. PICK t \in Tids : /\ NextTid(t) /\ tidCounter' = t /\ tid' = [tid EXCEPT ![r] = t]
                          /\ pc' = [pc EXCEPT ![r] = "unsent"]
    BY <1>1 DEF FailToSend
  <1>3. /\ pc'[r] = "unsent" /\ \A s \in Requests \ {r} : pc'[s] = pc[s]
        /\ UNCHANGED <<starts, probes>>
    BY <1>2 DEF FailToSend, clientVars, TypeOK
  <1> QED BY <1>2, <1>3, DrawForRequest

(* A step draws no ID twice.                                                *)
LEMMA TidsStep ==
    ASSUME TidsSuffice, IInv, TidsInv, [Next]_vars
    PROVE  TidsInv'
  <1>0. TypeOK /\ PendingInv
    BY DEF IInv, QueueInv
  <1>1. ASSUME NEW r \in Requests, Call(r) PROVE TidsInv'
    <2>1. CASE CallAndSend(r)
      BY <1>0, <2>1, TransmitDraws DEF CallAndSend
    <2>2. CASE CallAndFail(r)
      BY <1>0, <2>2, FailToSendDraws DEF CallAndFail
    <2>3. CASE CallAndWait(r)
      <3>1. /\ UNCHANGED <<tid, tidCounter, starts, probes>>
            /\ pc[r] = "new" /\ \A s \in Requests \ {r} : pc'[s] = pc[s]
        BY <1>0, <2>3 DEF CallAndWait, clientVars, sendVars, TypeOK
      <3> QED BY <3>1, NothingDrawn
    <2> QED BY <1>1, <2>1, <2>2, <2>3 DEF Call
  <1>2. ASSUME NEW r \in Requests, Resume(r) PROVE TidsInv'
    <2>1. CASE ResumeAndSend(r)
      BY <1>0, <2>1, TransmitDraws DEF ResumeAndSend
    <2>2. CASE ResumeAndFail(r)
      BY <1>0, <2>2, FailToSendDraws DEF ResumeAndFail
    <2>3. ASSUME UNCHANGED <<tid, tidCounter, starts, probes>>,
                 NEW o \in Outcomes, pc' = [pc EXCEPT ![r] = o]
          PROVE  TidsInv'
      <3>1. \A s \in Requests : pc'[s] \in {"new", "queued"} => pc[s] \in {"new", "queued"}
        BY <1>0, <2>3 DEF TypeOK, Outcomes
      <3> QED BY <2>3, <3>1, NothingDrawn
    <2>4. CASE ResumeStopped(r) \/ ResumeCancelled(r)
      <3>1. /\ UNCHANGED <<tid, tidCounter, starts, probes>>
            /\ \E o \in Outcomes : pc' = [pc EXCEPT ![r] = o]
        BY <2>4 DEF ResumeStopped, ResumeCancelled, clientVars, sendVars, Outcomes
      <3> QED BY <2>3, <3>1
    <2>5. CASE FinishAnswered(r) \/ FinishStopped(r) \/ FinishTimeout(r) \/ FinishCancelled(r)
      <3>1. \E o \in Outcomes : Finish(r, o)
        BY <2>5 DEF FinishAnswered, FinishStopped, FinishTimeout, FinishCancelled, Outcomes
      <3> QED BY <2>3, <3>1 DEF Finish, clientVars
    <2> QED BY <1>2, <2>1, <2>2, <2>4, <2>5 DEF Resume
  <1>3. ASSUME NEW r \in Requests, TimerFires(r) \/ CancelTask(r) \/ Receive(r) PROVE TidsInv'
    BY <1>3, NothingDrawn
    DEF TimerFires, CancelTask, Receive, Accept, clientVars, sendVars, taskVars
  <1>4. ASSUME NEW t \in Tids, Notify(t) PROVE TidsInv'
    BY <1>4, NothingDrawn DEF Notify, Accept, clientVars, taskVars
  <1>5. CASE Stop
    BY <1>5, NothingDrawn DEF Stop, taskVars
  <1>6. CASE Start
    <2>1. PICK t \in Tids : NextTid(t) /\ tidCounter' = t
      BY <1>6 DEF Start
    <2>2. UNCHANGED <<tid, pc>> /\ starts' = starts + 1 /\ UNCHANGED probes
      BY <1>6 DEF Start, taskVars
    <2>3. /\ starts < MaxStarts /\ starts \in Nat /\ probes \in 0..MaxProbes
          /\ MaxStarts \in Nat /\ MaxProbes \in Nat
      BY <1>0, <1>6, BoundsAssumption DEF Start, TypeOK
    <2>4. starts + probes < MaxStarts + MaxProbes
      BY <2>3
    <2> QED BY <1>0, <2>1, <2>2, <2>4, DrawForProbe
  <1>7. CASE Probe
    <2>1. PICK t \in Tids : NextTid(t) /\ tidCounter' = t
      BY <1>7 DEF Probe
    <2>2. UNCHANGED <<tid, pc>> /\ probes' = probes + 1 /\ UNCHANGED starts
      BY <1>7 DEF Probe, taskVars
    <2>3. /\ starts \in 0..MaxStarts /\ probes \in Nat /\ probes < MaxProbes
          /\ MaxStarts \in Nat /\ MaxProbes \in Nat
      BY <1>0, <1>7, BoundsAssumption DEF Probe, TypeOK
    <2>4. starts + probes < MaxStarts + MaxProbes
      BY <2>3
    <2> QED BY <1>0, <2>1, <2>2, <2>4, DrawForProbe
  <1>8. CASE ProbeSpins \/ UNCHANGED vars
    BY <1>8, NothingDrawn DEF ProbeSpins, vars, clientVars, sendVars, taskVars
  <1> QED BY <1>1, <1>2, <1>3, <1>4, <1>5, <1>6, <1>7, <1>8 DEF Next, Step

(* Only the owner of an ID is found by a response that carries it.          *)
LEMMA OwnStep ==
    ASSUME IInv, TidsInv, AnswerIsOwn, [Next]_vars
    PROVE  AnswerIsOwn'
  <1>0. TypeOK /\ PendingInv
    BY DEF IInv, QueueInv
  <1>1. ASSUME UNCHANGED answer,
               \A r \in Requests : reply'[r] = "result" => reply[r] = "result"
        PROVE  AnswerIsOwn'
    BY <1>1 DEF AnswerIsOwn
  <1>2. ASSUME NEW t \in Tids, pending[t] # None, NEW from \in Requests \cup {None},
               pending[t] \notin InfRequests => from = pending[t], Accept(t, from)
        PROVE  AnswerIsOwn'
    <2>1. pending[t] \in Requests
      BY <1>0, <1>2 DEF TypeOK
    <2>2. /\ answer'[pending[t]] = from
          /\ \A r \in Requests \ {pending[t]} : answer'[r] = answer[r] /\ reply'[r] = reply[r]
      BY <1>0, <1>2, <2>1 DEF Accept, TypeOK
    <2> QED BY <1>2, <2>2 DEF AnswerIsOwn
  <1>3. ASSUME NEW r \in Requests, Transmit(r) PROVE AnswerIsOwn'
    <2>1. UNCHANGED answer /\ reply' = [reply EXCEPT ![r] = "pending"]
      BY <1>3 DEF Transmit
    <2> QED BY <1>0, <1>1, <2>1 DEF TypeOK
  <1>4. ASSUME NEW r \in Requests, Call(r) PROVE AnswerIsOwn'
    BY <1>1, <1>3, <1>4 DEF Call, CallAndSend, CallAndFail, CallAndWait, FailToSend, replyVars
  <1>5. ASSUME NEW r \in Requests, Resume(r) PROVE AnswerIsOwn'
    <2>1. CASE ResumeAndSend(r)
      BY <1>3, <2>1 DEF ResumeAndSend
    <2>2. CASE ~ResumeAndSend(r)
      <3>1. UNCHANGED <<reply, answer>>
        BY <1>5, <2>2 DEF Resume, ResumeAndFail, ResumeStopped, ResumeCancelled, FinishAnswered,
           FinishStopped, FinishTimeout, FinishCancelled, Finish, FailToSend, replyVars
      <3> QED BY <1>1, <3>1
    <2> QED BY <2>1, <2>2
  <1>6. ASSUME NEW r \in Requests, TimerFires(r) \/ CancelTask(r) PROVE AnswerIsOwn'
    BY <1>1, <1>6 DEF TimerFires, CancelTask, replyVars
  <1>7. ASSUME NEW r \in Requests, Receive(r) PROVE AnswerIsOwn'
    <2>1. tid[r] \in Tids /\ pending[tid[r]] # None /\ Accept(tid[r], r)
      BY <1>0, <1>7 DEF Receive, PendingInv
    <2>2. pending[tid[r]] \in Requests /\ tid[pending[tid[r]]] = tid[r]
      BY <1>0, <2>1 DEF PendingInv, TypeOK
    <2>3. pending[tid[r]] \in Drawn /\ r \in Drawn
      BY <2>1, <2>2 DEF Drawn, Tids
    <2>4. pending[tid[r]] = r
      BY <2>2, <2>3 DEF TidsInv
    <2> QED BY <1>2, <2>1, <2>4
  <1>8. ASSUME NEW t \in Tids, Notify(t) PROVE AnswerIsOwn'
    <2>1. pending[t] \in InfRequests /\ pending[t] # None /\ Accept(t, None)
      BY <1>8, RequestsAssumption DEF Notify
    <2> QED BY <1>2, <2>1
  <1>9. CASE Stop
    <2>1. UNCHANGED answer /\ \A r \in Requests : reply'[r] \in {reply[r], "stopped"}
      BY <1>9 DEF Stop
    <2> QED BY <1>1, <2>1
  <1>10. CASE Start \/ Probe \/ ProbeSpins \/ UNCHANGED vars
    BY <1>1, <1>10 DEF Start, Probe, ProbeSpins, vars, replyVars
  <1> QED BY <1>4, <1>5, <1>6, <1>7, <1>8, <1>9, <1>10 DEF Next, Step

(* While there is an ID for every draw, and no ID is drawn twice, a late or *)
(* duplicated response to another request is not taken for the answer to    *)
(* one: _process_frame finds only the request it responds to.               *)
THEOREM AnswersAreOwn ==
    ASSUME TidsSuffice
    PROVE  Spec => []AnswerIsOwn
  <1>1. Init => TidsInv /\ AnswerIsOwn
    BY DEF Init, TidsInv, AnswerIsOwn, Drawn
  <1>2. IInv /\ TidsInv /\ AnswerIsOwn /\ [Next]_vars => TidsInv' /\ AnswerIsOwn'
    BY TidsStep, OwnStep
  <1> QED BY <1>1, <1>2, Invariant, PTL DEF Spec

-----------------------------------------------------------------------------
(* RequestQueue implements NodeSlots: every step of the request pipeline is *)
(* a step of the slots of ADR-0011, or changes none of them, for any set of *)
(* requests and addresses.                                                  *)

(* A heap hands its tickets out in growing order. *)
TicketInv == \A q \in Requests : \A w \in waiters[q] : ticket[w] < sequence[q]

SlotsInv == QueueInv /\ TicketInv

(* r holds the slot of address a. *)
HoldsAt(r, a) == AddressOf[r] = a /\ Holds(r)

-----------------------------------------------------------------------------
(* release() keeps what is in the heaps, or takes some of it out. *)
LEMMA ReleaseKeepsTickets ==
    ASSUME TypeOK, TicketInv, NEW q \in Requests, Release(q), UNCHANGED <<sequence, ticket>>
    PROVE  TicketInv'
  <1>1. \A p \in Requests : waiters'[p] \subseteq waiters[p]
    BY DEF Release, TypeOK
  <1> QED BY <1>1 DEF TicketInv

(* A step of the pipeline keeps the order of the tickets. *)
LEMMA TicketStep ==
    ASSUME QueueInv, TicketInv, [Next]_vars
    PROVE  TicketInv'
  <1>0. TypeOK /\ WaitersWait /\ QueuesStayHome /\ SlotStates
    BY DEF QueueInv
  <1>1. ASSUME UNCHANGED <<waiters, sequence, ticket>> PROVE TicketInv'
    BY <1>1 DEF TicketInv
  <1>2. ASSUME NEW r \in Requests, CallAndWait(r) PROVE TicketInv'
    <2>1. QueueFor(r) \in Requests
      BY <1>0, QueueForType
    <2>2. \A q \in Requests : r \notin waiters[q]
      BY <1>0, <1>2 DEF WaitersWait, CallAndWait
    <2>3. \A w \in Requests : w # r => ticket'[w] = ticket[w]
      BY <1>0, <1>2 DEF CallAndWait, TypeOK
    <2>4. /\ ticket'[r] = sequence[QueueFor(r)]
          /\ sequence'[QueueFor(r)] = sequence[QueueFor(r)] + 1
          /\ \A q \in Requests : q # QueueFor(r) => sequence'[q] = sequence[q]
          /\ waiters'[QueueFor(r)] = waiters[QueueFor(r)] \cup {r}
          /\ \A q \in Requests : q # QueueFor(r) => waiters'[q] = waiters[q]
      BY <1>0, <1>2, <2>1 DEF CallAndWait, TypeOK
    <2> SUFFICES ASSUME NEW q \in Requests, NEW w \in waiters'[q]
                 PROVE  ticket'[w] < sequence'[q]
      BY DEF TicketInv
    <2>5. w \in Requests /\ sequence[q] \in Nat /\ sequence[QueueFor(r)] \in Nat
          /\ ticket[w] \in Nat
      BY <1>0, <2>1, <2>4 DEF TypeOK
    <2>6. CASE w = r
      <3>1. q = QueueFor(r)
        BY <2>2, <2>4, <2>6
      <3> QED BY <2>4, <2>5, <2>6, <3>1
    <2>7. CASE w # r
      <3>1. w \in waiters[q]
        BY <2>4, <2>7
      <3>2. ticket[w] < sequence[q]
        BY <3>1 DEF TicketInv
      <3> QED BY <2>3, <2>4, <2>5, <2>7, <3>2
    <2> QED BY <2>6, <2>7
  <1>3. ASSUME NEW r \in Requests, pc[r] # "new", Release(queueOf[r]),
               UNCHANGED <<sequence, ticket>>
        PROVE  TicketInv'
    <2>1. queueOf[r] \in Requests
      BY <1>0, <1>3 DEF QueuesStayHome, TypeOK
    <2> QED BY <1>0, <1>3, <2>1, ReleaseKeepsTickets
  <1>4. ASSUME NEW r \in Requests, ResumeCancelled(r) PROVE TicketInv'
    BY <1>1, <1>3, <1>4 DEF ResumeCancelled
  <1>5. ASSUME NEW r \in Requests, ResumeAndFail(r) PROVE TicketInv'
    BY <1>3, <1>5 DEF ResumeAndFail, Leave
  <1>6. ASSUME NEW r \in Requests,
               FinishAnswered(r) \/ FinishStopped(r) \/ FinishTimeout(r) \/ FinishCancelled(r)
        PROVE  TicketInv'
    BY <1>3, <1>6
    DEF FinishAnswered, FinishStopped, FinishTimeout, FinishCancelled, Finish, Leave
  <1>7. ASSUME Stop PROVE TicketInv'
    <2>1. \A q \in Requests : waiters'[q] \subseteq waiters[q]
      BY <1>7 DEF Stop
    <2> QED BY <1>7, <2>1 DEF Stop, TicketInv
  <1>8. ASSUME NEW r \in Requests,
               CallAndSend(r) \/ CallAndFail(r) \/ ResumeAndSend(r) \/ ResumeStopped(r)
               \/ TimerFires(r) \/ CancelTask(r) \/ Receive(r)
        PROVE  TicketInv'
    BY <1>1, <1>8 DEF CallAndSend, CallAndFail, ResumeAndSend, ResumeStopped, TimerFires,
                      CancelTask, Receive, Accept, queueVars
  <1>9. ASSUME NEW t \in Tids, Notify(t) PROVE TicketInv'
    BY <1>1, <1>9 DEF Notify, Accept, queueVars
  <1>10. ASSUME Start \/ Probe \/ ProbeSpins PROVE TicketInv'
    BY <1>1, <1>10 DEF Start, Probe, ProbeSpins, queueVars
  <1>11. CASE UNCHANGED vars
    BY <1>1, <1>11 DEF vars, queueVars
  <1> QED BY <1>2, <1>4, <1>5, <1>6, <1>7, <1>8, <1>9, <1>10, <1>11 DEF Next, Step, Call, Resume

-----------------------------------------------------------------------------
(* The holder of an address is whoever holds its slot. *)
HolderHolds ==
    \A a \in Addresses :
        \/ Holder[a] = None /\ \A r \in Requests : ~HoldsAt(r, a)
        \/ Holder[a] \in Requests /\ HoldsAt(Holder[a], a)

LEMMA HolderInv == QueueInv => HolderHolds
  <1> SUFFICES ASSUME QueueInv, NEW a \in Addresses
               PROVE  \/ Holder[a] = None /\ \A r \in Requests : ~HoldsAt(r, a)
                      \/ Holder[a] \in Requests /\ HoldsAt(Holder[a], a)
    BY DEF HolderHolds
  <1>0. TypeOK /\ QueuesStayHome
    BY DEF QueueInv
  <1>1. CASE nodeQueues[a] # None /\ \E r \in Requests : Owner(r, nodeQueues[a])
    <2>1. Holder[a] \in Requests /\ Owner(Holder[a], nodeQueues[a])
      BY <1>1 DEF Holder
    <2>2. AddressOf[Holder[a]] = a
      BY <1>0, <1>1, <2>1 DEF Owner, QueuesStayHome
    <2> QED BY <1>1, <2>1, <2>2 DEF Owner, HoldsAt, Holds
  <1>2. CASE ~(nodeQueues[a] # None /\ \E r \in Requests : Owner(r, nodeQueues[a]))
    <2>1. Holder[a] = None
      BY <1>2 DEF Holder
    <2>2. \A r \in Requests : ~HoldsAt(r, a)
      BY <1>2 DEF Owner, HoldsAt, Holds
    <2> QED BY <2>1, <2>2
  <1> QED BY <1>1, <1>2

(* The same after a step. *)
LEMMA HolderInvNext == QueueInv' => HolderHolds'
  BY HolderInv, PTL

(* As long as nobody takes or leaves the slot of an address, its holder     *)
(* stays.                                                                   *)
LEMMA HolderStays ==
    ASSUME QueueInv, QueueInv', NEW a \in Addresses,
           \A r \in Requests : HoldsAt(r, a)' <=> HoldsAt(r, a)
    PROVE  Holder'[a] = Holder[a]
  <1>1. HolderHolds /\ HolderHolds'
    BY HolderInv, HolderInvNext
  <1>2. \A r, s \in Requests : HoldsAt(r, a) /\ HoldsAt(s, a) => r = s
    BY DEF QueueInv, OneHolder, HoldsAt
  <1>3. \/ Holder[a] = None /\ \A r \in Requests : ~HoldsAt(r, a)
        \/ Holder[a] \in Requests /\ HoldsAt(Holder[a], a)
    BY <1>1 DEF HolderHolds
  <1>4. \/ Holder'[a] = None /\ \A r \in Requests : ~HoldsAt(r, a)'
        \/ /\ Holder'[a] \in Requests
           /\ \E r \in Requests : r = Holder'[a] /\ HoldsAt(r, a)'
    BY <1>1 DEF HolderHolds, HoldsAt, Holds
  <1> QED BY <1>2, <1>3, <1>4

(* Whoever holds a slot is its holder. *)
LEMMA HolderIs ==
    ASSUME QueueInv, NEW r \in Requests, Holds(r)
    PROVE  Holder[AddressOf[r]] = r
  <1>1. AddressOf[r] \in Addresses
    BY RequestsAssumption
  <1> QED BY <1>1, HolderInv, RequestsAssumption DEF HolderHolds, HoldsAt, QueueInv, OneHolder

(* The same after a step. *)
LEMMA HolderIsNext ==
    ASSUME QueueInv', NEW r \in Requests, Holds(r)'
    PROVE  Holder'[AddressOf[r]] = r
  <1>1. AddressOf[r] \in Addresses
    BY RequestsAssumption
  <1>2. HolderHolds'
    BY HolderInvNext
  <1>3. \A s \in Requests : HoldsAt(s, AddressOf[r])' => s = r
    BY DEF QueueInv, OneHolder, HoldsAt
  <1>4. HoldsAt(r, AddressOf[r])'
    BY DEF HoldsAt
  <1> QED BY <1>1, <1>2, <1>3, <1>4 DEF HolderHolds, HoldsAt, Holds

-----------------------------------------------------------------------------
(* Steps that neither give nor take a slot, nor wait for one. *)
LEMMA Stutters ==
    ASSUME QueueInv, QueueInv',
           UNCHANGED <<nodeQueues, waiters, slot, ticket>>,
           \A r \in Requests : Holds(r)' <=> Holds(r)
    PROVE  UNCHANGED <<Holder, Waiting, ticket>>
  <1>1. \A a \in Addresses : Holder'[a] = Holder[a]
    BY HolderStays DEF HoldsAt
  <1>2. Holder' = Holder
    BY <1>1 DEF Holder
  <1>3. Waiting' = Waiting
    BY DEF Waiting, Live
  <1> QED BY <1>2, <1>3

(* r leaves and release() runs: the first waiter follows it, if r had the   *)
(* slot of its address; otherwise stop() has closed the queue and nobody is *)
(* in it.                                                                   *)
LEMMA LeaveRefines ==
    ASSUME QueueInv, QueueInv', NEW r \in Requests, NEW o \in Outcomes,
           pc[r] = "awaiting" \/ (pc[r] = "queued" /\ slot[r] \in {"granted", "failed"}),
           pc' = [pc EXCEPT ![r] = o],
           Release(queueOf[r]),
           \/ nodeQueues' = nodeQueues
           \/ /\ Live(queueOf[r]) = {} /\ nodeQueues[AddressOf[r]] = queueOf[r]
              /\ nodeQueues' = [nodeQueues EXCEPT ![AddressOf[r]] = None],
           UNCHANGED <<queueOf, ticket>>
    PROVE  Slots!Leave(AddressOf[r]) \/ UNCHANGED <<Holder, Waiting, ticket>>
  <1> DEFINE q == queueOf[r]
             a == AddressOf[r]
  <1>0. TypeOK /\ Untouched /\ QueuesStayHome /\ WaitersWait /\ SlotStates /\ OneHolder
    BY DEF QueueInv
  <1>1. q \in Requests /\ a \in Addresses /\ AddressOf[q] = a
    BY <1>0, RequestsAssumption DEF QueuesStayHome, TypeOK
  <1>2. /\ pc'[r] = o /\ \A s \in Requests : s # r => pc'[s] = pc[s]
        /\ o \notin {"new", "queued", "awaiting"}
    BY <1>0 DEF TypeOK, Outcomes
  <1>3. ~Holds(r)'
    BY <1>2 DEF Holds
  <1>4. /\ nodeQueues[a] = q => Holds(r)
        /\ nodeQueues[a] # q => ~Holds(r)
    BY <1>0, <1>1, RequestsAssumption DEF SlotStates, FailedIsAway, Holds
  <1>5. \A x \in Addresses : nodeQueues[x] = q => x = a
    BY <1>0, <1>1, RequestsAssumption DEF QueuesStayHome, TypeOK
  <1>6. CASE nodeQueues[a] # q
    <2>1. Live(q) = {}
      BY <1>0, <1>1, <1>6 DEF SlotStates, PendingWaits, WaitersWait, QueuesStayHome, Live, TypeOK
    <2>2. nodeQueues' = nodeQueues /\ slot' = slot /\ waiters' = [waiters EXCEPT ![q] = {}]
      BY <1>6, <2>1 DEF Release
    <2>3. \A s \in Requests : Holds(s)' <=> Holds(s)
      BY <1>2, <1>3, <1>4, <1>6, <2>2 DEF Holds
    <2>4. \A x \in Addresses : Holder'[x] = Holder[x]
      BY <2>3, HolderStays DEF HoldsAt
    <2>5. \A x \in Addresses : nodeQueues[x] # q
      BY <1>5, <1>6
    <2>6. \A x \in Addresses : Waiting'[x] = Waiting[x]
      BY <1>0, <1>1, <2>2, <2>5 DEF Waiting, Live, TypeOK
    <2>7. Holder' = Holder
      BY <2>4 DEF Holder
    <2>8. Waiting' = Waiting
      BY <2>6 DEF Waiting
    <2> QED BY <2>7, <2>8
  <1>7. CASE nodeQueues[a] = q
    <2>1. Holder[a] = r
      BY <1>4, <1>7, HolderIs
    <2>2. Holder[a] # None
      BY <2>1, RequestsAssumption
    <2>3. Waiting[a] = Live(q)
      BY <1>1, <1>7, RequestsAssumption DEF Waiting
    <2>4. \A s \in Requests : HoldsAt(s, a) => s = r
      BY <1>0, <1>4, <1>7 DEF OneHolder, HoldsAt
    <2>5. CASE Live(q) = {}
      <3>1. slot' = slot /\ waiters' = [waiters EXCEPT ![q] = {}]
        BY <2>5 DEF Release
      <3>2. \A x \in Addresses : x # a => nodeQueues'[x] = nodeQueues[x]
        BY <1>0, <1>1 DEF TypeOK
      <3>3. \A s \in Requests : ~HoldsAt(s, a)'
        BY <1>2, <1>3, <1>7, <2>4, <3>1, <1>1, RequestsAssumption, <1>0 DEF HoldsAt, Holds, TypeOK
      <3>4. HolderHolds'
        BY HolderInvNext
      <3>5. Holder'[a] = None
        BY <1>1, <3>3, <3>4 DEF HolderHolds, HoldsAt, Holds
      <3>6. \A x \in Addresses : x # a => Holder'[x] = Holder[x]
        <4> SUFFICES ASSUME NEW x \in Addresses, x # a PROVE Holder'[x] = Holder[x]
          OBVIOUS
        <4>1. \A s \in Requests : HoldsAt(s, x)' <=> HoldsAt(s, x)
          BY <1>2, <3>1, <3>2 DEF HoldsAt, Holds
        <4> QED BY <4>1, HolderStays
      <3>7. Holder' = [Holder EXCEPT ![a] = None]
        BY <1>1, <3>5, <3>6 DEF Holder
      <3>8. Waiting'[a] = {}
        <4>1. nodeQueues'[a] = None \/ nodeQueues'[a] = q
          BY <1>0, <1>1, <1>7 DEF TypeOK
        <4>2. waiters'[q] = {}
          BY <1>0, <1>1, <3>1 DEF TypeOK
        <4> QED BY <1>1, <4>1, <4>2 DEF Waiting, Live
      <3>9. \A x \in Addresses : x # a => Waiting'[x] = Waiting[x]
        <4> SUFFICES ASSUME NEW x \in Addresses, x # a PROVE Waiting'[x] = Waiting[x]
          OBVIOUS
        <4>1. nodeQueues'[x] = nodeQueues[x] /\ nodeQueues[x] # q
          BY <1>5, <3>2
        <4>2. nodeQueues[x] # None => waiters'[nodeQueues[x]] = waiters[nodeQueues[x]]
          BY <1>0, <1>1, <3>1, <4>1 DEF TypeOK
        <4> QED BY <3>1, <4>1, <4>2 DEF Waiting, Live
      <3>10. Waiting' = Waiting
        <4>1. \A x \in Addresses : Waiting'[x] = Waiting[x]
          BY <2>3, <2>5, <3>8, <3>9
        <4> QED BY <4>1 DEF Waiting
      <3> QED BY <2>2, <2>3, <2>5, <3>7, <3>10 DEF Slots!Leave
    <2>6. CASE Live(q) # {}
      <3>1. PICK s \in Live(q) :
              /\ \A w \in Live(q) \ {s} : Before(s, w)
              /\ slot' = [slot EXCEPT ![s] = "granted"]
              /\ waiters' = [waiters EXCEPT ![q] = {w \in @ : Before(s, w)}]
              /\ busy' = busy
        BY <2>6 DEF Release
      <3>2. /\ s \in Requests /\ slot[s] = "pending" /\ s \in waiters[q]
            /\ pc[s] = "queued" /\ queueOf[s] = q /\ AddressOf[s] = a /\ s # r
        BY <1>0, <1>1, <3>1 DEF SlotStates, PendingWaits, WaitersWait, QueuesStayHome, Live, TypeOK
      <3>3. nodeQueues' = nodeQueues
        BY <2>6
      <3>4. slot'[s] = "granted" /\ \A w \in Requests : w # s => slot'[w] = slot[w]
        BY <1>0, <3>1, <3>2 DEF TypeOK
      <3>5. Holds(s)'
        BY <1>1, <1>2, <1>7, <3>2, <3>3, <3>4, RequestsAssumption DEF Holds
      <3>6. Holder'[a] = s
        BY <3>2, <3>5, HolderIsNext
      <3>7. \A x \in Addresses : x # a => Holder'[x] = Holder[x]
        <4> SUFFICES ASSUME NEW x \in Addresses, x # a PROVE Holder'[x] = Holder[x]
          OBVIOUS
        <4>1. \A w \in Requests : HoldsAt(w, x)' <=> HoldsAt(w, x)
          BY <1>2, <3>2, <3>3, <3>4 DEF HoldsAt, Holds
        <4> QED BY <4>1, HolderStays
      <3>8. Holder' = [Holder EXCEPT ![a] = s]
        BY <1>1, <3>6, <3>7 DEF Holder
      <3>9. Slots!First(a, s)
        <4>1. s \in Waiting[a] /\ \A w \in Waiting[a] \ {s} : Slots!Precedes(s, w)
          BY <2>3, <3>1 DEF Before, Slots!Precedes
        <4> QED BY <4>1 DEF Slots!First
      <3>10. Waiting'[a] = Waiting[a] \ {s}
        <4>1. waiters'[q] = {w \in waiters[q] : Before(s, w)}
          BY <1>0, <1>1, <3>1 DEF TypeOK
        <4>2. ~Before(s, s)
          BY <1>0, <3>2, RequestsAssumption DEF Before, TypeOK
        <4>3. \A w \in waiters[q] : w \in Requests
          BY <1>0, <1>1 DEF TypeOK
        <4>4. {w \in waiters'[q] : slot'[w] = "pending"} = Live(q) \ {s}
          BY <3>1, <3>4, <4>1, <4>2, <4>3 DEF Live
        <4>5. Waiting'[a] = {w \in waiters'[q] : slot'[w] = "pending"}
          BY <1>1, <1>7, <3>3, RequestsAssumption DEF Waiting, Live
        <4> QED BY <2>3, <4>4, <4>5
      <3>11. \A x \in Addresses : x # a => Waiting'[x] = Waiting[x]
        <4> SUFFICES ASSUME NEW x \in Addresses, x # a, nodeQueues[x] # None
                     PROVE  Waiting'[x] = Waiting[x]
          BY <3>3 DEF Waiting
        <4>1. nodeQueues[x] # q /\ nodeQueues[x] \in Requests
          BY <1>0, <1>5 DEF TypeOK
        <4>2. waiters'[nodeQueues[x]] = waiters[nodeQueues[x]]
          BY <1>0, <3>1, <4>1 DEF TypeOK
        <4>3. \A w \in waiters[nodeQueues[x]] : w # s /\ w \in Requests
          BY <1>0, <3>2, <4>1 DEF WaitersWait, TypeOK
        <4>4. Live(nodeQueues[x])' = Live(nodeQueues[x])
          BY <3>3, <3>4, <4>2, <4>3 DEF Live
        <4> QED BY <3>3, <4>4 DEF Waiting
      <3>12. Waiting' = [Waiting EXCEPT ![a] = @ \ {s}]
        BY <1>1, <3>10, <3>11 DEF Waiting
      <3>13. s \in Waiting[a]
        BY <2>3
      <3> QED BY <2>2, <3>8, <3>9, <3>12, <3>13 DEF Slots!Leave
    <2> QED BY <2>5, <2>6
  <1> QED BY <1>6, <1>7

(* A request that finds the slot free takes it. *)
LEMMA CallAndSendTakes ==
    ASSUME QueueInv, QueueInv', NEW r \in Requests, CallAndSend(r)
    PROVE  Slots!Take(r)
  <1> DEFINE q == QueueFor(r)
             a == AddressOf[r]
  <1>0. TypeOK /\ Untouched /\ QueuesStayHome /\ WaitersWait /\ SlotStates /\ OneHolder
    BY DEF QueueInv
  <1>1. q \in Requests /\ a \in Addresses
    BY <1>0, QueueForType, RequestsAssumption
  <1>2. /\ pc[r] = "new" /\ pc'[r] = "awaiting" /\ queueOf'[r] = q /\ nodeQueues'[a] = q
        /\ \A s \in Requests : s # r => pc'[s] = pc[s] /\ queueOf'[s] = queueOf[s]
        /\ \A x \in Addresses : x # a => nodeQueues'[x] = nodeQueues[x]
        /\ UNCHANGED <<slot, waiters, ticket>>
    BY <1>0, <1>1 DEF CallAndSend, Transmit, TypeOK
  <1>3. Holds(r)'
    BY <1>1, <1>2, RequestsAssumption DEF Holds
  <1>4. waiters[q] = {} /\ ~busy[q]
    BY DEF CallAndSend, Idle
  <1>5. \A s \in Requests : ~HoldsAt(s, a)
    <2>1. CASE nodeQueues[a] = None
      BY <2>1 DEF HoldsAt, Holds
    <2>2. CASE nodeQueues[a] # None
      BY <1>0, <1>1, <1>4, <2>2 DEF QueueFor, OneHolder, HoldsAt
    <2> QED BY <2>1, <2>2
  <1>6. Holder[a] = None
    BY <1>1, <1>5, HolderInv DEF HolderHolds
  <1>7. Waiting[a] = {} /\ Waiting'[a] = {}
    BY <1>1, <1>2, <1>4 DEF Waiting, Live, QueueFor
  <1>8. Waiting' = Waiting
    <2>1. \A x \in Addresses : Waiting'[x] = Waiting[x]
      BY <1>2, <1>7 DEF Waiting, Live
    <2> QED BY <2>1 DEF Waiting
  <1>9. Holder'[a] = r
    BY <1>3, HolderIsNext
  <1>10. \A x \in Addresses : x # a => Holder'[x] = Holder[x]
    <2> SUFFICES ASSUME NEW x \in Addresses, x # a PROVE Holder'[x] = Holder[x]
      OBVIOUS
    <2>1. \A s \in Requests : HoldsAt(s, x)' <=> HoldsAt(s, x)
      BY <1>2 DEF HoldsAt, Holds
    <2> QED BY <2>1, HolderStays
  <1>11. Holder' = [Holder EXCEPT ![a] = r]
    BY <1>1, <1>9, <1>10 DEF Holder
  <1> QED BY <1>2, <1>6, <1>7, <1>8, <1>11 DEF Slots!Take

(* A request that takes the slot and gives it back in one step changes      *)
(* nothing.                                                                 *)
LEMMA CallAndFailStutters ==
    ASSUME QueueInv, QueueInv', NEW r \in Requests, CallAndFail(r)
    PROVE  UNCHANGED <<Holder, Waiting, ticket>>
  <1> DEFINE q == QueueFor(r)
             a == AddressOf[r]
  <1>0. TypeOK /\ Untouched /\ QueuesStayHome /\ OneHolder
    BY DEF QueueInv
  <1>1. q \in Requests /\ a \in Addresses
    BY <1>0, QueueForType, RequestsAssumption
  <1>2. /\ pc[r] = "new" /\ pc'[r] \in Outcomes /\ nodeQueues'[a] = None
        /\ \A s \in Requests : s # r => pc'[s] = pc[s] /\ queueOf'[s] = queueOf[s]
        /\ \A x \in Addresses : x # a => nodeQueues'[x] = nodeQueues[x]
        /\ UNCHANGED <<slot, waiters, ticket>>
    BY <1>0, <1>1 DEF CallAndFail, FailToSend, TypeOK, Outcomes
  <1>3. waiters[q] = {} /\ ~busy[q]
    BY DEF CallAndFail, Idle
  <1>4. \A s \in Requests : ~HoldsAt(s, a) /\ ~HoldsAt(s, a)'
    <2>1. CASE nodeQueues[a] = None
      BY <1>2, <2>1 DEF HoldsAt, Holds
    <2>2. CASE nodeQueues[a] # None
      <3>1. \A s \in Requests : ~HoldsAt(s, a)
        BY <1>0, <1>1, <1>3, <2>2 DEF QueueFor, OneHolder, HoldsAt
      <3>2. \A s \in Requests : ~HoldsAt(s, a)'
        BY <1>2 DEF HoldsAt, Holds
      <3> QED BY <3>1, <3>2
    <2> QED BY <2>1, <2>2
  <1>5. Waiting' = Waiting
    <2>1. Waiting[a] = {} /\ Waiting'[a] = {}
      BY <1>1, <1>2, <1>3 DEF Waiting, Live, QueueFor
    <2>2. \A x \in Addresses : Waiting'[x] = Waiting[x]
      BY <1>2, <2>1 DEF Waiting, Live
    <2> QED BY <2>2 DEF Waiting
  <1>6. \A x \in Addresses : Holder'[x] = Holder[x]
    <2> SUFFICES ASSUME NEW x \in Addresses PROVE Holder'[x] = Holder[x]
      OBVIOUS
    <2>1. \A s \in Requests : HoldsAt(s, x)' <=> HoldsAt(s, x)
      <3>1. CASE x = a
        BY <1>4, <3>1
      <3>2. CASE x # a
        <4> SUFFICES ASSUME NEW s \in Requests PROVE HoldsAt(s, x)' <=> HoldsAt(s, x)
          OBVIOUS
        <4>1. CASE s = r
          BY <3>2, <4>1 DEF HoldsAt
        <4>2. CASE s # r
          BY <1>2, <3>2, <4>2 DEF HoldsAt, Holds
        <4> QED BY <4>1, <4>2
      <3> QED BY <3>1, <3>2
    <2> QED BY <2>1, HolderStays
  <1>7. Holder' = Holder
    BY <1>6 DEF Holder
  <1> QED BY <1>2, <1>5, <1>7

(* A request that finds the slot taken joins the waiters, behind them all. *)
LEMMA CallAndWaitJoins ==
    ASSUME QueueInv, TicketInv, QueueInv', NEW r \in Requests, CallAndWait(r)
    PROVE  Slots!Join(r)
  <1> DEFINE q == QueueFor(r)
             a == AddressOf[r]
  <1>0. TypeOK /\ Untouched /\ QueuesStayHome /\ WaitersWait /\ SlotStates /\ OneHolder
    BY DEF QueueInv
  <1>1. q \in Requests /\ a \in Addresses
    BY <1>0, QueueForType, RequestsAssumption
  <1>2. /\ pc[r] = "new" /\ pc'[r] = "queued" /\ slot'[r] = "pending"
        /\ \A s \in Requests : s # r => /\ pc'[s] = pc[s] /\ queueOf'[s] = queueOf[s]
                                         /\ slot'[s] = slot[s]
        /\ waiters'[q] = waiters[q] \cup {r}
        /\ \A p \in Requests : p # q => waiters'[p] = waiters[p]
        /\ ticket' = [ticket EXCEPT ![r] = sequence[q]] /\ ticket'[r] = sequence[q]
        /\ nodeQueues' = nodeQueues
    BY <1>0, <1>1 DEF CallAndWait, TypeOK
  <1>3. nodeQueues[a] = q
    <2>1. q # r
      BY <1>0, <1>2 DEF Untouched, CallAndWait, Idle
    <2> QED BY <2>1 DEF QueueFor
  <1>4. busy[q]
    BY <1>0, <1>1 DEF CallAndWait, Idle, WaitersWait
  <1>5. \A p \in Requests : r \notin waiters[p]
    BY <1>0, <1>2 DEF WaitersWait
  <1>6. Holder[a] # None
    <2>1. \E s \in Requests : HoldsAt(s, a)
      BY <1>0, <1>1, <1>3, <1>4, RequestsAssumption DEF OneHolder, HoldsAt
    <2>2. PICK s \in Requests : HoldsAt(s, a)
      BY <2>1
    <2> QED BY <2>2, HolderIs, RequestsAssumption DEF HoldsAt
  <1>7. \A s \in Requests : Holds(s)' <=> Holds(s)
    <2> SUFFICES ASSUME NEW s \in Requests PROVE Holds(s)' <=> Holds(s)
      OBVIOUS
    <2>1. CASE s = r
      BY <1>2, <2>1 DEF Holds
    <2>2. CASE s # r
      BY <1>2, <2>2 DEF Holds
    <2> QED BY <2>1, <2>2
  <1>8. Holder' = Holder
    <2>1. \A x \in Addresses : Holder'[x] = Holder[x]
      BY <1>7, HolderStays DEF HoldsAt
    <2> QED BY <2>1 DEF Holder
  <1>9. Waiting[a] = Live(q)
    BY <1>1, <1>3, RequestsAssumption DEF Waiting
  <1>10. r \notin Waiting[a] /\ \A s \in Waiting[a] : ticket[s] < ticket'[r]
    BY <1>1, <1>2, <1>5, <1>9 DEF Live, TicketInv
  <1>11. Waiting'[a] = Waiting[a] \cup {r}
    <2>1. \A s \in waiters[q] : s \in Requests /\ s # r
      BY <1>0, <1>1, <1>5 DEF TypeOK
    <2>2. {s \in waiters'[q] : slot'[s] = "pending"} = Live(q) \cup {r}
      BY <1>2, <2>1 DEF Live
    <2>3. Waiting'[a] = {s \in waiters'[q] : slot'[s] = "pending"}
      BY <1>1, <1>2, <1>3, RequestsAssumption DEF Waiting, Live
    <2> QED BY <1>9, <2>2, <2>3
  <1>12. \A x \in Addresses : x # a => Waiting'[x] = Waiting[x]
    <2> SUFFICES ASSUME NEW x \in Addresses, x # a, nodeQueues[x] # None
                 PROVE  Waiting'[x] = Waiting[x]
      BY <1>2 DEF Waiting
    <2>1. nodeQueues[x] # q /\ nodeQueues[x] \in Requests
      BY <1>0, <1>1, <1>3, RequestsAssumption DEF QueuesStayHome, TypeOK
    <2>2. \A s \in waiters[nodeQueues[x]] : s \in Requests /\ s # r
      BY <1>0, <1>5, <2>1 DEF TypeOK
    <2>3. {s \in waiters'[nodeQueues[x]] : slot'[s] = "pending"} = Live(nodeQueues[x])
      BY <1>2, <2>1, <2>2 DEF Live
    <2> QED BY <1>2, <2>3 DEF Waiting, Live
  <1>13. Waiting' = [Waiting EXCEPT ![a] = @ \cup {r}]
    BY <1>1, <1>11, <1>12 DEF Waiting
  <1> QED BY <1>2, <1>6, <1>8, <1>10, <1>13 DEF Slots!Join

(* A waiter that is cancelled withdraws; any other task keeps its place. *)
LEMMA CancelTaskWithdraws ==
    ASSUME QueueInv, QueueInv', NEW r \in Requests, CancelTask(r)
    PROVE  Slots!Withdraw(r) \/ UNCHANGED <<Holder, Waiting, ticket>>
  <1> DEFINE q == queueOf[r]
             a == AddressOf[r]
  <1>0. TypeOK /\ QueuesStayHome /\ WaitersWait /\ SlotStates
    BY DEF QueueInv
  <1>1. /\ UNCHANGED <<nodeQueues, queueOf, waiters, ticket, pc>>
        /\ pc[r] # "new" /\ q \in Requests /\ a \in Addresses
    BY <1>0, RequestsAssumption DEF CancelTask, QueuesStayHome, TypeOK
  <1>2. CASE slot[r] # "pending"
    <2>1. slot' = slot
      BY <1>2 DEF CancelTask
    <2>2. \A s \in Requests : Holds(s)' <=> Holds(s)
      BY <1>1, <2>1 DEF Holds
    <2> QED BY <1>1, <2>1, <2>2, Stutters
  <1>3. CASE slot[r] = "pending"
    <2>1. /\ r \in waiters[q] /\ nodeQueues[a] = q /\ pc[r] = "queued"
          /\ slot'[r] = "cancelled" /\ \A s \in Requests : s # r => slot'[s] = slot[s]
      BY <1>0, <1>3 DEF SlotStates, PendingWaits, CancelTask, TypeOK
    <2>2. \A s \in Requests : Holds(s)' <=> Holds(s)
      <3> SUFFICES ASSUME NEW s \in Requests PROVE Holds(s)' <=> Holds(s)
        OBVIOUS
      <3>1. CASE s = r
        BY <1>1, <1>3, <2>1, <3>1 DEF Holds
      <3>2. CASE s # r
        BY <1>1, <2>1, <3>2 DEF Holds
      <3> QED BY <3>1, <3>2
    <2>3. Holder' = Holder
      <3>1. \A x \in Addresses : Holder'[x] = Holder[x]
        BY <2>2, HolderStays DEF HoldsAt
      <3> QED BY <3>1 DEF Holder
    <2>4. Waiting[a] = Live(q) /\ r \in Waiting[a]
      BY <1>1, <1>3, <2>1, RequestsAssumption DEF Waiting, Live
    <2>5. \A p \in Requests : \A s \in waiters[p] : s \in Requests /\ queueOf[s] = p
      BY <1>0 DEF WaitersWait, TypeOK
    <2>6. Waiting'[a] = Waiting[a] \ {r}
      <3>1. {s \in waiters[q] : slot'[s] = "pending"} = Live(q) \ {r}
        BY <1>1, <2>1, <2>5 DEF Live
      <3>2. Waiting'[a] = {s \in waiters[q] : slot'[s] = "pending"}
        BY <1>1, <2>1, RequestsAssumption DEF Waiting, Live
      <3> QED BY <2>4, <3>1, <3>2
    <2>7. \A x \in Addresses : x # a => Waiting'[x] = Waiting[x]
      <3> SUFFICES ASSUME NEW x \in Addresses, x # a, nodeQueues[x] # None
                   PROVE  Waiting'[x] = Waiting[x]
        BY <1>1 DEF Waiting
      <3>1. nodeQueues[x] # q /\ nodeQueues[x] \in Requests
        BY <1>0, <1>1, <2>1, RequestsAssumption DEF QueuesStayHome, TypeOK
      <3>2. \A s \in waiters[nodeQueues[x]] : s \in Requests /\ s # r
        BY <2>5, <3>1
      <3>3. {s \in waiters[nodeQueues[x]] : slot'[s] = "pending"} = Live(nodeQueues[x])
        BY <2>1, <3>2 DEF Live
      <3> QED BY <1>1, <3>3 DEF Waiting, Live
    <2>8. Waiting' = [Waiting EXCEPT ![a] = @ \ {r}]
      BY <1>1, <2>6, <2>7 DEF Waiting
    <2> QED BY <1>1, <2>3, <2>4, <2>8 DEF Slots!Withdraw
  <1> QED BY <1>2, <1>3

(* stop() turns everyone away. *)
LEMMA StopTurnsAway ==
    ASSUME Stop
    PROVE  Slots!TurnAway
  <1>1. nodeQueues' = [a \in Addresses |-> None] /\ ticket' = ticket
    BY DEF Stop
  <1>2. Holder' = [a \in Addresses |-> None]
    BY <1>1 DEF Holder
  <1>3. Waiting' = [a \in Addresses |-> {}]
    BY <1>1 DEF Waiting
  <1> QED BY <1>1, <1>2, <1>3 DEF Slots!TurnAway

-----------------------------------------------------------------------------
(* Every step of the pipeline is a step of the slots or changes none.       *)
LEMMA SlotsStep ==
    ASSUME QueueInv, TicketInv, QueueInv', [Next]_vars
    PROVE  [Slots!Next]_(Slots!slots)
  <1> DEFINE Stutter == UNCHANGED <<Holder, Waiting, ticket>>
  <1>0. TypeOK /\ SlotStates
    BY DEF QueueInv
  <1>s. ASSUME Stutter PROVE [Slots!Next]_(Slots!slots)
    BY <1>s DEF Slots!slots
  <1>q. ASSUME UNCHANGED <<nodeQueues, waiters, slot, ticket>>,
               \A r \in Requests : Holds(r)' <=> Holds(r)
        PROVE  [Slots!Next]_(Slots!slots)
    BY <1>q, <1>s, Stutters
  <1>l. ASSUME NEW r \in Requests, Slots!Leave(AddressOf[r]) \/ Stutter
        PROVE  [Slots!Next]_(Slots!slots)
    BY <1>l, <1>s, RequestsAssumption DEF Slots!Next
  <1>1. ASSUME NEW r \in Requests, CallAndSend(r) PROVE [Slots!Next]_(Slots!slots)
    BY <1>1, CallAndSendTakes DEF Slots!Next
  <1>2. ASSUME NEW r \in Requests, CallAndFail(r) PROVE [Slots!Next]_(Slots!slots)
    BY <1>2, <1>s, CallAndFailStutters
  <1>3. ASSUME NEW r \in Requests, CallAndWait(r) PROVE [Slots!Next]_(Slots!slots)
    BY <1>3, CallAndWaitJoins DEF Slots!Next
  <1>4. ASSUME NEW r \in Requests, ResumeAndSend(r) PROVE [Slots!Next]_(Slots!slots)
    <2>1. /\ pc[r] = "queued" /\ slot[r] = "granted" /\ pc'[r] = "awaiting"
          /\ \A s \in Requests : s # r => pc'[s] = pc[s]
          /\ UNCHANGED <<nodeQueues, queueOf, waiters, slot, ticket>>
      BY <1>0, <1>4 DEF ResumeAndSend, Transmit, queueVars, TypeOK
    <2>2. \A s \in Requests : Holds(s)' <=> Holds(s)
      BY <2>1 DEF Holds
    <2> QED BY <1>q, <2>1, <2>2
  <1>5. ASSUME NEW r \in Requests, NEW o \in Outcomes,
               pc[r] = "awaiting" \/ (pc[r] = "queued" /\ slot[r] \in {"granted", "failed"}),
               pc' = [pc EXCEPT ![r] = o], Leave(r)
        PROVE  [Slots!Next]_(Slots!slots)
    <2>1. /\ Release(queueOf[r]) /\ UNCHANGED <<queueOf, ticket>>
          /\ \/ nodeQueues' = nodeQueues
             \/ /\ Live(queueOf[r]) = {} /\ nodeQueues[AddressOf[r]] = queueOf[r]
                /\ nodeQueues' = [nodeQueues EXCEPT ![AddressOf[r]] = None]
      BY <1>5 DEF Leave
    <2> QED BY <1>5, <1>l, <2>1, LeaveRefines
  <1>6. ASSUME NEW r \in Requests, ResumeAndFail(r) PROVE [Slots!Next]_(Slots!slots)
    <2>1. PICK o \in Outcomes : pc' = [pc EXCEPT ![r] = o]
      BY <1>6 DEF ResumeAndFail, FailToSend, Outcomes
    <2>2. pc[r] = "queued" /\ slot[r] = "granted" /\ Leave(r)
      BY <1>6 DEF ResumeAndFail
    <2> QED BY <1>5, <2>1, <2>2
  <1>7. ASSUME NEW r \in Requests,
               pc[r] = "queued", slot[r] # "granted", pc' = [pc EXCEPT ![r] = "stopped"]
                                                      \/ pc' = [pc EXCEPT ![r] = "cancelled"],
               UNCHANGED <<nodeQueues, queueOf, waiters, slot, ticket>>
        PROVE  [Slots!Next]_(Slots!slots)
    <2>1. /\ pc'[r] \notin {"queued", "awaiting"}
          /\ \A s \in Requests : s # r => pc'[s] = pc[s]
      BY <1>0, <1>7 DEF TypeOK
    <2>2. \A s \in Requests : Holds(s)' <=> Holds(s)
      BY <1>7, <2>1 DEF Holds
    <2> QED BY <1>7, <1>q, <2>2
  <1>8. ASSUME NEW r \in Requests, ResumeStopped(r) PROVE [Slots!Next]_(Slots!slots)
    BY <1>7, <1>8 DEF ResumeStopped, queueVars
  <1>9. ASSUME NEW r \in Requests, ResumeCancelled(r) PROVE [Slots!Next]_(Slots!slots)
    <2>1. /\ pc[r] = "queued" /\ cancelling[r] /\ "cancelled" \in Outcomes
          /\ pc' = [pc EXCEPT ![r] = "cancelled"]
          /\ UNCHANGED <<nodeQueues, queueOf, ticket>>
      BY <1>9 DEF ResumeCancelled, Outcomes
    <2>2. CASE slot[r] = "cancelled"
      BY <1>7, <1>9, <2>1, <2>2 DEF ResumeCancelled
    <2>3. CASE slot[r] # "cancelled"
      <3>1. slot[r] \in {"granted", "failed"}
        BY <1>0, <2>1, <2>3 DEF SlotStates, PendingWaits, TypeOK
      <3>2. Release(queueOf[r])
        BY <1>9, <2>3 DEF ResumeCancelled
      <3> QED BY <1>l, <2>1, <3>1, <3>2, LeaveRefines
    <2> QED BY <2>2, <2>3
  <1>10. ASSUME NEW r \in Requests,
                FinishAnswered(r) \/ FinishStopped(r) \/ FinishTimeout(r) \/ FinishCancelled(r)
         PROVE  [Slots!Next]_(Slots!slots)
    <2>1. pc[r] = "awaiting" /\ \E o \in Outcomes : Finish(r, o)
      BY <1>10 DEF FinishAnswered, FinishStopped, FinishTimeout, FinishCancelled, Outcomes
    <2> QED BY <1>5, <2>1 DEF Finish
  <1>11. ASSUME NEW r \in Requests, CancelTask(r) PROVE [Slots!Next]_(Slots!slots)
    BY <1>11, <1>s, CancelTaskWithdraws DEF Slots!Next
  <1>12. ASSUME UNCHANGED <<queueVars, pc>> PROVE [Slots!Next]_(Slots!slots)
    <2>1. \A r \in Requests : Holds(r)' <=> Holds(r)
      BY <1>12 DEF Holds, queueVars
    <2> QED BY <1>12, <1>q, <2>1 DEF queueVars
  <1>13. ASSUME NEW r \in Requests, TimerFires(r) \/ Receive(r)
         PROVE  [Slots!Next]_(Slots!slots)
    BY <1>12, <1>13 DEF TimerFires, Receive, Accept, taskVars
  <1>14. ASSUME NEW t \in Tids, Notify(t) PROVE [Slots!Next]_(Slots!slots)
    BY <1>12, <1>14 DEF Notify, Accept, taskVars
  <1>15. ASSUME Stop PROVE [Slots!Next]_(Slots!slots)
    BY <1>15, StopTurnsAway DEF Slots!Next
  <1>16. ASSUME Start \/ Probe \/ ProbeSpins \/ UNCHANGED vars PROVE [Slots!Next]_(Slots!slots)
    BY <1>12, <1>16 DEF Start, Probe, ProbeSpins, vars, taskVars
  <1> QED
    BY <1>1, <1>2, <1>3, <1>4, <1>6, <1>8, <1>9, <1>10, <1>11, <1>13, <1>14, <1>15, <1>16
    DEF Next, Step, Call, Resume

(* A started client with nothing in flight has every slot free. *)
LEMMA SlotsInit == Init => TicketInv /\ Slots!Init
  <1> SUFFICES ASSUME Init PROVE TicketInv /\ Slots!Init
    OBVIOUS
  <1>1. TicketInv
    BY DEF Init, TicketInv
  <1>2. Holder = [a \in Addresses |-> None] /\ Waiting = [a \in Addresses |-> {}]
    BY DEF Init, Holder, Waiting
  <1> QED BY <1>1, <1>2 DEF Init, Slots!Init

(* The queues of runtime.py implement the slots of ADR-0011: one holder per *)
(* node, admitted by priority and then by arrival, whatever is cancelled,   *)
(* times out, fails to be sent or is stopped.                               *)
THEOREM QueuesImplementSlots == Spec => ImplementsSlots
  <1>1. IInv /\ TicketInv /\ [Next]_vars => TicketInv'
    BY TicketStep DEF IInv
  <1>2. IInv /\ IInv' /\ TicketInv /\ [Next]_vars => [Slots!Next]_(Slots!slots)
    <2>1. IInv => QueueInv
      BY DEF IInv
    <2>2. IInv' => QueueInv'
      BY DEF IInv
    <2> QED BY <2>1, <2>2, SlotsStep
  <1> QED BY <1>1, <1>2, Invariant, SlotsInit, PTL DEF Spec, ImplementsSlots, Slots!Spec
=============================================================================
