----------------------------- MODULE GetBatching -----------------------------
(***************************************************************************)
(* Reading a device object with GET requests (runtime.py: setup_get, get,   *)
(* _get_at_address, _read_manufacturer_code, _run_get_batches; and          *)
(* get_batch_policy.py).  A call splits the EPCs it wants into batches that *)
(* respect the policy of the manufacturer and the limit of the device, and  *)
(* a setup call finds that limit out by halving unanswered batches.         *)
(*                                                                         *)
(* All calls here are for one device object of a node.  They share its      *)
(* _GetCapability.  The node may move, once, and another node, the rival,   *)
(* take its address.  If the rival announces itself first, the table drops  *)
(* the object; if the node is first to announce itself, at its new address, *)
(* the object stays.  Calls that are on their way go on at the old address. *)
(* A step is what a call does between sending one request and the next.     *)
(* How a request travels is RequestQueue; here it is answered by a device   *)
(* of a given kind, or not answered, or not sent.                           *)
(***************************************************************************)
EXTENDS Integers, Sequences, FiniteSets, SequencesExt

CONSTANTS Calls,       \* calls of setup_get, get and request_get
          Probing,     \* those of setup_get
          Unsplit,     \* those of request_get
          EPCs,        \* all EPCs
          Maker,       \* EPC.MANUFACTURER_CODE
          NoLimit,     \* None, for a batch size
          Scenarios    \* what the calls are to read, from what device

Devices == [kind : {"silent", "partial", "empty", "wild"},
            capable : Nat \ {0}, supported : SUBSET EPCs]

(* wanted: the distinct EPCs each call is to read; classHasPolicy:          *)
(* has_get_batch_policy_for_class of the object's class; hasPolicy: there   *)
(* is a policy for the class and the manufacturer, with these incompatible  *)
(* pairs and this max_batch_size; device: how many EPCs the device answers  *)
(* at once (capable), what it does with a longer request (kind), which EPCs *)
(* it has; rival: the device that takes its address, if moves, of the same  *)
(* class and manufacturer (where nobody takes it, requests to the old       *)
(* address are lost); maxLosses: a bound on the requests that are lost.     *)
ASSUME GetAssumption ==
    /\ Probing \subseteq Calls /\ Unsplit \subseteq Calls \ Probing
    /\ Maker \in EPCs /\ IsFiniteSet(EPCs)
    /\ NoLimit \notin Nat
    /\ \A s \in Scenarios :
         /\ DOMAIN s.wanted \subseteq Calls
         /\ \A c \in DOMAIN s.wanted :
              s.wanted[c] \in Seq(EPCs) \ {<<>>} /\ IsInjective(s.wanted[c])
         /\ s.classHasPolicy \in BOOLEAN /\ s.hasPolicy \in BOOLEAN
         /\ s.hasPolicy => s.classHasPolicy
         /\ \A p \in s.pairs : p \subseteq EPCs /\ Cardinality(p) = 2
         /\ s.maxBatch \in (Nat \ {0}) \cup {NoLimit}
         /\ s.device \in Devices /\ s.rival \in Devices
         /\ s.moves \in BOOLEAN /\ s.maxLosses \in Nat

VARIABLES
    scenario,   \* one of Scenarios
    home,       \* where the node is for the client: at its old address, which
                \* the rival has meanwhile "taken"; nowhere, as the rival has
                \* announced itself there ("displaced"); at a "new" address
                \* since then; or "moved" there before the rival was announced
    capacity,   \* observed_batch_capacity of an object, or NoLimit
    identified, \* manufacturer_code of an object is known
    object,     \* the _GetCapability that a call holds
    address,    \* the address it read as it began
    pc,         \* where a call is
    queue,      \* the EPCs of the call that are not in its current batch
    batch,      \* the EPCs of its request
    limit,      \* observed_batch_capacity when that request was planned
    probeSize,  \* probe_size, or NoLimit
    received,   \* the EPCs read with a value
    losses,     \* requests lost so far
    settled,    \* history: the EPCs a response has settled for a call
    sends,      \* history: batches sent by a call
    halvings,   \* history: how often a call halved its batch
    misled      \* history: the rival has answered a setup

history == <<settled, sends, halvings, misled>>
world == <<scenario, home>>
vars == <<world, capacity, identified, object, address, pc, queue, batch, limit,
          probeSize, received, losses, history>>

Sizes == 1..Cardinality(EPCs)
Objects == {1, 2}
Ended == {"done", "aborted", "stopped"}
Active == DOMAIN scenario.wanted

TypeOK ==
    /\ scenario \in Scenarios
    /\ home \in {"old", "taken", "displaced", "new", "moved"}
    /\ capacity \in [Objects -> Sizes \cup {NoLimit}]
    /\ identified \in [Objects -> BOOLEAN]
    /\ object \in [Calls -> Objects]
    /\ address \in [Calls -> {"old", "new"}]
    /\ pc \in [Calls -> {"new", "identifying", "reading", "asking"} \cup Ended]
    /\ queue \in [Calls -> Seq(EPCs)] /\ batch \in [Calls -> Seq(EPCs)]
    /\ limit \in [Calls -> Sizes \cup {NoLimit}]
    /\ probeSize \in [Calls -> Sizes \cup {NoLimit}]
    /\ received \in [Calls -> SUBSET EPCs]
    /\ losses \in 0..scenario.maxLosses
    /\ settled \in [Calls -> SUBSET EPCs]
    /\ sends \in [Calls -> Nat] /\ halvings \in [Calls -> Nat]
    /\ misled \in BOOLEAN

Init ==
    /\ scenario \in Scenarios
    /\ home = "old"
    /\ capacity = [o \in Objects |-> NoLimit]
    /\ identified = [o \in Objects |-> FALSE]
    /\ object = [c \in Calls |-> 1]
    /\ address = [c \in Calls |-> "old"]
    /\ pc = [c \in Calls |-> "new"]
    /\ queue = [c \in Calls |-> <<>>]
    /\ batch = [c \in Calls |-> <<>>]
    /\ limit = [c \in Calls |-> NoLimit]
    /\ probeSize = [c \in Calls |-> NoLimit]
    /\ received = [c \in Calls |-> {}]
    /\ losses = 0
    /\ settled = [c \in Calls |-> {}]
    /\ sends = [c \in Calls |-> 0]
    /\ halvings = [c \in Calls |-> 0]
    /\ misled = FALSE

-----------------------------------------------------------------------------
(* The node and its address.                                                *)

(* Mutant of TableObject: the object outlives the loss of the address. *)
TableObjectKept == 1

(* The object in _get_capabilities.  It is dropped when another node        *)
(* announces itself at the address its node is known at, not when the node  *)
(* announces itself somewhere else.                                         *)
TableObject == IF home = "new" THEN 2 ELSE 1

(* The address _device_addresses has for the node, when it has one. *)
KnownAddress == IF home \in {"new", "moved"} THEN "new" ELSE "old"

(* The requests of c go to an address that is no longer its node's. *)
Strayed(c) == address[c] = "old" /\ home # "old"

Answerer(c) == IF Strayed(c) THEN scenario.rival ELSE scenario.device

Take ==
    /\ scenario.moves /\ home = "old"
    /\ home' = "taken"

(* The rival's 0x83 arrives from the address: the node that was known there *)
(* loses it, and its objects are dropped.                                   *)
Displace ==
    /\ home = "taken"
    /\ home' = "displaced"

(* The node's 0x83 arrives from its new address.  Nobody is known there, so *)
(* nothing is dropped; if the node still had its old address, forceput      *)
(* forgets that, and the rival, which is announced later, is new there too. *)
Reappear ==
    \/ home = "displaced" /\ home' = "new"
    \/ home = "taken" /\ home' = "moved"

Move ==
    /\ Take \/ Displace \/ Reappear
    /\ UNCHANGED <<scenario, capacity, identified, object, address, pc, queue, batch,
                   limit, probeSize, received, losses, history>>

-----------------------------------------------------------------------------
(* Planning: take_first_batch.                                              *)

Smaller(m, n) == IF m = NoLimit THEN n
                 ELSE IF n = NoLimit THEN m
                 ELSE IF m < n THEN m ELSE n

(* known: the manufacturer is known, so that the policy, if any, applies. *)
CanAdd(chosen, epc, known) ==
    scenario.hasPolicy /\ known =>
        \A p \in scenario.pairs : epc \in p => (p \ {epc}) \cap ToSet(chosen) = {}

PolicySize(known) == IF scenario.hasPolicy /\ known THEN scenario.maxBatch ELSE NoLimit

(* Mutant of TakeFirstBatch: what is left out of a batch is dropped. *)
TakeFirstBatchDropping(epcs, size, known) ==
    LET cap == Smaller(size, PolicySize(known))
        Put(acc, epc) ==
            IF cap # NoLimit /\ Len(acc.batch) >= cap
            THEN [acc EXCEPT !.rest = Append(@, epc)]
            ELSE IF ~CanAdd(acc.batch, epc, known) THEN acc
            ELSE [acc EXCEPT !.batch = Append(@, epc)]
        taken[i \in 0..Len(epcs)] ==
            IF i = 0 THEN [batch |-> <<>>, rest |-> <<>>] ELSE Put(taken[i - 1], epcs[i])
    IN  taken[Len(epcs)]

(* Mutant of TakeFirstBatch: the policy's size overrides the device's limit. *)
TakeFirstBatchOverriding(epcs, size, known) ==
    LET cap == IF PolicySize(known) # NoLimit THEN PolicySize(known) ELSE size
        Put(acc, epc) ==
            IF \/ cap # NoLimit /\ Len(acc.batch) >= cap
               \/ ~CanAdd(acc.batch, epc, known)
            THEN [acc EXCEPT !.rest = Append(@, epc)]
            ELSE [acc EXCEPT !.batch = Append(@, epc)]
        taken[i \in 0..Len(epcs)] ==
            IF i = 0 THEN [batch |-> <<>>, rest |-> <<>>] ELSE Put(taken[i - 1], epcs[i])
    IN  taken[Len(epcs)]

(* Each EPC in turn joins the batch unless the batch is full or holds an    *)
(* EPC it is incompatible with; the others remain, in order.                *)
TakeFirstBatch(epcs, size, known) ==
    LET cap == Smaller(size, PolicySize(known))
        Put(acc, epc) ==
            IF \/ cap # NoLimit /\ Len(acc.batch) >= cap
               \/ ~CanAdd(acc.batch, epc, known)
            THEN [acc EXCEPT !.rest = Append(@, epc)]
            ELSE [acc EXCEPT !.batch = Append(@, epc)]
        taken[i \in 0..Len(epcs)] ==
            IF i = 0 THEN [batch |-> <<>>, rest |-> <<>>] ELSE Put(taken[i - 1], epcs[i])
    IN  taken[Len(epcs)]

(* The EPCs that are not in S, in order. *)
Without(epcs, S) ==
    LET left[i \in 0..Len(epcs)] ==
            IF i = 0 THEN <<>>
            ELSE IF epcs[i] \in S THEN left[i - 1] ELSE Append(left[i - 1], epcs[i])
    IN  left[Len(epcs)]

(* The head of the loop: c has epcs left to read and a batch size it probes *)
(* with.  It sends the next batch or is done.                               *)
Plan(c, epcs, probing) ==
    /\ probeSize' = [probeSize EXCEPT ![c] = probing]
    /\ IF epcs = <<>>
         THEN /\ pc' = [pc EXCEPT ![c] = "done"]
              /\ queue' = [queue EXCEPT ![c] = <<>>]
              /\ batch' = [batch EXCEPT ![c] = <<>>]
              /\ UNCHANGED <<limit, sends>>
         ELSE LET first == TakeFirstBatch(epcs, Smaller(capacity'[object'[c]], probing),
                                      identified'[object'[c]]) IN
              /\ pc' = [pc EXCEPT ![c] = "reading"]
              /\ queue' = [queue EXCEPT ![c] = first.rest]
              /\ batch' = [batch EXCEPT ![c] = first.batch]
              /\ limit' = [limit EXCEPT ![c] = capacity'[object'[c]]]
              /\ sends' = [sends EXCEPT ![c] = @ + 1]

-----------------------------------------------------------------------------
(* The manufacturer code is read on its own first: always by setup_get, by  *)
(* get only for classes that have a policy.                                 *)
Begin(c) ==
    /\ pc[c] = "new" /\ c \notin Unsplit /\ home # "displaced"
    /\ object' = [object EXCEPT ![c] = TableObject]
    /\ address' = [address EXCEPT ![c] = KnownAddress]
    /\ UNCHANGED <<world, capacity, identified, received, losses, settled, halvings, misled>>
    /\ IF ~identified[TableObject] /\ (c \in Probing \/ scenario.classHasPolicy)
         THEN /\ pc' = [pc EXCEPT ![c] = "identifying"]
              /\ UNCHANGED <<queue, batch, limit, probeSize, sends>>
         ELSE Plan(c, scenario.wanted[c], NoLimit)

(* request_get sends its EPCs as they are, and knows no object.             *)
BeginUnsplit(c) ==
    /\ pc[c] = "new" /\ c \in Unsplit /\ home # "displaced"
    /\ pc' = [pc EXCEPT ![c] = "asking"]
    /\ object' = [object EXCEPT ![c] = TableObject]
    /\ address' = [address EXCEPT ![c] = KnownAddress]
    /\ batch' = [batch EXCEPT ![c] = scenario.wanted[c]]
    /\ UNCHANGED <<world, capacity, identified, queue, limit, probeSize, received,
                   losses, history>>

(* No address is known: setup_get raises, the others return nothing.        *)
Unaddressed(c) ==
    /\ pc[c] = "new" /\ home = "displaced"
    /\ pc' = [pc EXCEPT ![c] = "aborted"]
    /\ UNCHANGED <<world, capacity, identified, object, address, queue, batch, limit,
                   probeSize, received, losses, history>>

(* It was answered with a value. *)
Identify(c) ==
    /\ pc[c] = "identifying"
    /\ Maker \in Answerer(c).supported
    /\ identified' = [identified EXCEPT ![object[c]] = TRUE]
    /\ received' = [received EXCEPT
         ![c] = IF c \in Probing THEN {Maker} ELSE {Maker} \cap ToSet(scenario.wanted[c])]
    /\ settled' = [settled EXCEPT ![c] = {Maker} \cap ToSet(scenario.wanted[c])]
    /\ UNCHANGED <<world, capacity, object, address, losses, halvings, misled>>
    /\ Plan(c, Without(scenario.wanted[c], {Maker}), NoLimit)

(* It was not answered, or without a value: setup_get raises, get returns.  *)
Unidentified(c) ==
    /\ pc[c] = "identifying"
    /\ \/ Maker \notin Answerer(c).supported /\ UNCHANGED losses
       \/ losses < scenario.maxLosses /\ losses' = losses + 1
    /\ pc' = [pc EXCEPT ![c] = "aborted"]
    /\ UNCHANGED <<world, capacity, identified, object, address, queue, batch, limit,
                   probeSize, received, history>>

-----------------------------------------------------------------------------
(* The body of the loop, by what came back.                                 *)

(* What the device may answer to the batch of c: which of the EPCs are in   *)
(* the response, and which of these have a value.  (Responses with no EPC   *)
(* of the request count as none.)                                           *)
Answers(c) ==
    LET device == Answerer(c)
        asked == ToSet(batch[c])
        n == Len(batch[c])
        Answer(epcs) == [matched |-> epcs, valued |-> epcs \cap device.supported]
    IN  IF device.kind = "wild"
        THEN {[matched |-> m, valued |-> v \cap m] : m, v \in SUBSET asked}
        ELSE IF n <= device.capable THEN {Answer(asked)}
        ELSE IF device.kind = "partial" THEN {Answer(ToSet(SubSeq(batch[c], 1, device.capable)))}
        ELSE IF device.kind = "empty" THEN {[matched |-> asked, valued |-> {}]}
        ELSE {[matched |-> {}, valued |-> {}]}

(* Mutant of Fixed: the last value is kept. *)
FixedToLast(c, n) == n

(* Mutant of Fixed: one less than what was answered. *)
FixedBelow(c, n) == Smaller(capacity[object[c]], n - 1)

(* _fix_batch_capacity: the smallest value is kept. *)
Fixed(c, n) == Smaller(capacity[object[c]], n)

(* The limit of the object that c holds becomes n, if probing decides it.   *)
Learn(c, decides, n) ==
    capacity' = IF decides THEN [capacity EXCEPT ![object[c]] = Fixed(c, n)] ELSE capacity

(* Mutant of Half: a batch of two is never split. *)
HalfTooBig(n) == n \div 2 + 1

Half(n) == (n + 1) \div 2

(* Nothing usable came back: split in half while probing, else give up. *)
Unanswered(c) ==
    LET n == Len(batch[c]) IN
    IF c \in Probing /\ n > 1
    THEN /\ Plan(c, batch[c] \o queue[c], Half(n))
         /\ halvings' = [halvings EXCEPT ![c] = @ + 1]
    ELSE /\ pc' = [pc EXCEPT ![c] = "aborted"]
         /\ UNCHANGED <<queue, batch, limit, probeSize, sends, halvings>>

(* Mutant of Partial: the EPCs left out count as read. *)
PartialSettlesAll(c, matched) ==
    /\ Learn(c, c \in Probing, Cardinality(matched))
    /\ Plan(c, queue[c], IF c \in Probing THEN NoLimit ELSE probeSize[c])

(* A response that leaves out some EPCs: they are requested again first. *)
Partial(c, matched) ==
    /\ Learn(c, c \in Probing, Cardinality(matched))
    /\ Plan(c, Without(batch[c], matched) \o queue[c],
            IF c \in Probing THEN NoLimit ELSE probeSize[c])

(* Mutant of Complete: every batch of a setup fixes the limit. *)
CompleteFixesAlways(c) ==
    /\ Learn(c, c \in Probing, Len(batch[c]))
    /\ Plan(c, queue[c], IF c \in Probing THEN NoLimit ELSE probeSize[c])

(* A response with every EPC.  It fixes the limit if the limit is what the  *)
(* call wants to know.                                                      *)
Complete(c) ==
    LET n == Len(batch[c])
        fixes == /\ c \in Probing
                 /\ \/ probeSize[c] # NoLimit
                    \/ limit[c] = NoLimit /\ n > 1
    IN  /\ Learn(c, fixes, n)
        /\ Plan(c, queue[c], IF fixes THEN NoLimit ELSE probeSize[c])

(* ADR-0001: a device may answer every EPC empty when there are too many. *)
Overloaded(c, answer) ==
    /\ c \in Probing
    /\ answer.valued = {}
    /\ limit[c] = NoLimit
    /\ Len(batch[c]) > 1

(* answer: the EPCs of the batch that are in the response, matched, and     *)
(* those of them that have a value, valued.                                 *)
Respond(c, answer) ==
    /\ pc[c] = "reading"
    /\ UNCHANGED <<world, identified, object, address>>
    /\ IF answer.matched = {} \/ (answer.matched = ToSet(batch[c]) /\ Overloaded(c, answer))
         THEN /\ UNCHANGED <<capacity, received, settled>>
              /\ Unanswered(c)
         ELSE /\ received' = [received EXCEPT ![c] = @ \cup answer.valued]
              /\ settled' = [settled EXCEPT ![c] = @ \cup answer.matched]
              /\ UNCHANGED halvings
              /\ IF answer.matched = ToSet(batch[c]) THEN Complete(c)
                                                     ELSE Partial(c, answer.matched)

Answered(c) ==
    /\ \E answer \in Answers(c) : Respond(c, answer)
    /\ misled' = (misled \/ (c \in Probing /\ Strayed(c)))
    /\ UNCHANGED losses

Lost(c) ==
    /\ losses < scenario.maxLosses
    /\ losses' = losses + 1
    /\ Respond(c, [matched |-> {}, valued |-> {}])
    /\ UNCHANGED misled

(* request_get returns whatever came back, without learning from it.        *)
AnsweredUnsplit(c) ==
    /\ pc[c] = "asking"
    /\ \E answer \in Answers(c) :
         /\ pc' = [pc EXCEPT ![c] = IF answer.matched = {} THEN "aborted" ELSE "done"]
         /\ received' = [received EXCEPT ![c] = answer.valued]
    /\ UNCHANGED <<world, capacity, identified, object, address, queue, batch, limit,
                   probeSize, losses, history>>

(* The request could not be sent, or the client was stopped. *)
Interrupted(c) ==
    /\ pc[c] \in {"identifying", "reading", "asking"}
    /\ pc' = [pc EXCEPT ![c] = "stopped"]
    /\ UNCHANGED <<world, capacity, identified, object, address, queue, batch, limit,
                   probeSize, received, losses, history>>

Next ==
    \/ Move
    \/ \E c \in Active :
         \/ Begin(c) \/ BeginUnsplit(c) \/ Unaddressed(c)
         \/ Identify(c) \/ Unidentified(c)
         \/ Answered(c) \/ Lost(c) \/ AnsweredUnsplit(c) \/ Interrupted(c)

Spec == Init /\ [][Next]_vars

-----------------------------------------------------------------------------
(* Properties.                                                              *)

Reading(c) == pc[c] = "reading"

(* A read EPC is one that a response covered.  While a call is reading, the *)
(* EPCs no response has covered are exactly those of its batch and of its   *)
(* queue, each of them once; a call is done only when none is left.  (The   *)
(* queue is rebuilt three ways in _run_get_batches, and each time an EPC    *)
(* could be dropped or requested twice.)                                    *)
NothingForgotten ==
    \A c \in Active \ Unsplit :
        /\ Reading(c) =>
             /\ batch[c] # <<>>
             /\ IsInjective(batch[c] \o queue[c])
             /\ ToSet(batch[c] \o queue[c]) = ToSet(scenario.wanted[c]) \ settled[c]
        /\ pc[c] = "done" => settled[c] = ToSet(scenario.wanted[c])

(* No request breaks the policy of the device's manufacturer or asks for    *)
(* more than the limit that was known when it was planned, however a batch  *)
(* was split, requested again or mixed with what remained.                  *)
BatchAllowed ==
    \A c \in Active : Reading(c) =>
        /\ scenario.hasPolicy => \A p \in scenario.pairs : ~(p \subseteq ToSet(batch[c]))
        /\ \A n \in {limit[c], PolicySize(TRUE)} : n # NoLimit => Len(batch[c]) <= n

(* The limit of a device only ever shrinks, though several calls learn it   *)
(* at once from batches they planned with different limits.                 *)
CapacityShrinks ==
    [][\A o \in Objects : capacity[o] # NoLimit =>
           capacity'[o] # NoLimit /\ capacity'[o] <= capacity[o]]_capacity

PowersOfTwo[n \in Nat] == IF n = 0 THEN 1 ELSE 2 * PowersOfTwo[n - 1]

(* Probing is cheap (ADR-0004): a call halves its batches at most about     *)
(* log2 N times in all, and otherwise each request but the last settles an  *)
(* EPC, whatever the device answers and whichever requests are lost.  So    *)
(* every call ends.                                                         *)
RequestsBounded ==
    \A c \in Active :
        /\ halvings[c] > 0 => PowersOfTwo[halvings[c] - 1] < Len(scenario.wanted[c])
        /\ sends[c] <= Len(scenario.wanted[c]) + halvings[c]

Honest == scenario.device.kind # "wild"

(* A device that answers no more EPCs than it is capable of is never taken  *)
(* to be capable of more.  What a setup learns from the rival does not      *)
(* reach the limit in force once the rival has announced itself before the  *)
(* node did: the setup holds the object that was dropped then.              *)
LearnedLimitHonest ==
    Honest /\ (misled => home = "new") /\ capacity[TableObject] # NoLimit
        => capacity[TableObject] <= scenario.device.capable

(* ADR-0001: the limit is kept per device object, that is per node ID and   *)
(* EOJ, and a valid response of this device decides it: wherever the client *)
(* knows the node to be, the limit it plans with is one this device has     *)
(* shown.                                                                   *)
LimitIsPerNode ==
    Honest /\ home \in {"old", "new", "moved"} /\ capacity[TableObject] # NoLimit
        => capacity[TableObject] <= scenario.device.capable

(* One setup of a device that has the EPCs and answers every request it is  *)
(* able to answer learns more than half of what the device is capable of.   *)
LimitNotTooSmall ==
    \A c \in Probing \cap Active :
        LET wanted == ToSet(scenario.wanted[c]) IN
        /\ Active = {c} /\ Honest /\ losses = 0 /\ home = "old"
        /\ wanted \subseteq scenario.device.supported
        /\ ~scenario.hasPolicy /\ capacity[1] # NoLimit
        => 2 * capacity[1] > Smaller(scenario.device.capable, Cardinality(wanted \ {Maker}))

(* A setup that ends without an error has read every EPC the device has:    *)
(* a response that is empty because the request was too big is not taken    *)
(* for a device without these EPCs.  (Unless its requests went astray, or   *)
(* the object it shares was taught by one whose requests did.)              *)
NothingMissed ==
    \A c \in Probing \cap Active :
        Honest /\ pc[c] = "done" /\ ~Strayed(c) /\ (misled => object[c] = 2) =>
            LET wanted == ToSet(scenario.wanted[c]) IN
            wanted \cap received[c] = wanted \cap scenario.device.supported
=============================================================================
