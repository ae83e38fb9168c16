# Verification of pyhems

This directory specifies parts of pyhems, an asyncio client library for ECHONET
Lite, in TLA+. TLC checks the specifications on small instances; TLAPS proves
the safety properties of the request pipeline, GET batching, the discovery of
nodes, the jobs and the cache of the device manager and the poller for every
instance.
`PROJECT.json` lists the runs, the mutants each property is known to catch, the
source lines every definition stands for, the hazards and the theorems.

Run, in this directory:

    tlc -config QueueSafety.cfg MCRequestQueue.tla     # and the other .cfg files
    tlapm RequestQueueProofs.tla                       # and the other *Proofs.tla

## The system

pyhems runs in one asyncio event loop. Between two `await`s a task runs
undisturbed, so a step of a specification is what one task does between two
awaits, or one callback of the loop (a datagram, a timer, a done callback).
What makes the code hard is everything that happens *between* these steps:
requests of several callers to one node, cancellation of any task at any await,
timeouts racing answers, late and duplicated datagrams, and `stop()` at any time.

| Component | State | Operations | Correct when |
|---|---|---|---|
| Request pipeline (`runtime.py`: `_send_request`, `_NodeRequestQueue`, `_process_frame`) | `_node_queues` (per address: `_busy`, heap of waiters), `_pending` by transaction ID (TID), `_tid_counter`, `_protocol` | send a request and await its answer, match a response, time out, cancel, stop, start | one outstanding request per node (ADR-0011), admitted by priority and arrival; no slot or wakeup is lost; an answer reaches the request it belongs to; every call ends (but see `ProbeSpins`) |
| GET batching (`runtime.py`: `setup_get`, `get`, `_run_get_batches`; `get_batch_policy.py`) | `_GetCapability` per object (limit, manufacturer); per call: queue, batch, probe size, values read | read the manufacturer code, plan a batch, halve it, take a partial answer, learn the limit | every EPC is read or reported; policy and limit hold for every batch; the limit is neither too large nor needlessly small; the number of requests is bounded |
| Address map and discovery (`runtime.py`: `_handle_node_profile`, `_queue_unknown_frame`, `_discover_address`; `discovery.py`) | address ↔ node ID map, frames of unknown addresses, discovery tasks | learn or move a node, queue, discover, replay | frames of an unknown node are replayed in order after its instances, at most once; limits that outlive a change of address were not learned from another device (violated: `BatchingMoved`) |
| Client lifecycle (`runtime.py`: `start`, `stop`, `_discovery_loop`) | protocol, discovery loop task | start, stop, probe, transport error | stop ends everything and can be repeated; a failed start leaves nothing open |
| SetC and INF_REQ (`runtime.py`: `set_properties`, `request_notifications`) | none of its own | classify EPCs of a response | every requested EPC is accepted, rejected or unanswered, and accepted and rejected are disjoint, but for an EPC the answer names twice |
| Device manager, events and jobs (`device_manager.py`) | event queue, per-node job queues and workers, deferred frames, pending setups | consume an event, run a job, set up a device, stop | jobs of a node run in order, one at a time; nothing runs on after `async_stop()`; frames received during a setup are applied after it |
| Device manager, cache (`device_manager.py`: `_apply_frame`, `set_properties`, range recovery) | `NodeState.properties` | apply a frame, an accepted Set, a read-back | the cache ends at the last value the device reported; each change is announced once |
| Subscriptions and poll EPCs (`device_manager.py`) | subscription counters, `poll_epcs`, `fast_poll_epcs` | subscribe, unsubscribe, recompute | an EPC is polled iff it is monitored, readable, not notified and wanted |
| Property poller (`poller.py`) | per device: last poll times, latency, failures, cycle task | tick, start a cycle, back off, stop | one cycle per device; back-off within its bounds |
| Codecs (`frame.py`, `eoj.py`, `codecs.py`, `installation_location.py`, property maps) | none | encode, decode | decoding inverts encoding; limits of the length fields |
| Transport (`transport.py`) | socket | send, receive | (environment) |
| Definitions (`definitions.py`, generated data) | immutable | choose the codec of a property | the lookups are modelled, the data is not |
| Generator scripts | none at run time | generate the definitions offline | (not modelled) |

They interact as follows. Callers (the device manager's setup jobs, Sets and
refreshes, the poller's cycles, applications) call GET batching, `set_properties`
or `request_notifications`; each of these sends its requests through the request
pipeline. The transport hands each datagram to `_process_frame`, which completes
the matching pending request *and* dispatches the frame as an event; the device
manager queues the events and its consumer applies them to the cache. Instance
lists become setup jobs of a per-node worker. `stop()` fails everything that waits.

### Hard behaviours

- *Interleaving and cancellation.* A waiter may be cancelled after it was given
  the slot and before it runs; a cancelled waiter stays in the heap.
- *Timeouts.* The timer and the response may come in the same turn of the loop.
- *Unreliable delivery.* UDP: no answer, a late one, the same one twice, under a
  TID that may be in use again.
- *Stop and restart.* `stop()` removes the queues while requests still hold
  their slots; a request that ends later finds another queue, or none.
- *Stale state.* Limits and addresses are read before an await and used after it.
- *Addresses that change owner.* Nodes are known by the address they were last
  heard at; another node may be there by the time an answer comes.
- *Values at their edges.* Codecs, frame lengths, property maps and list pages
  have boundaries at which one off means another value.
- *Devices that misbehave.* They ignore requests that are too long, answer the
  first few EPCs, or answer every EPC empty (ADR-0001, ADR-0004).

`PROJECT.json` lists each hazard at its line, with the properties that cover it, or
the reason why none does.

## Modules

### NodeSlots: what the queues promise

The abstract specification, from ADR-0011 and the docstring of `RequestPriority`.
Each address has one slot (`holder`), a set of waiting requests and the order of
their arrival. A request takes a free slot (`Take`) or waits (`Join`); one that
waits may give up (`Withdraw`); a holder that leaves passes the slot to the first
waiter by priority and arrival (`Leave`); `stop()` turns everyone away
(`TurnAway`). It knows nothing of tasks, futures, heaps or TIDs.

### RequestQueue: the request pipeline

A request is one call of `_send_request`. Its `pc` is `new`, `queued` (in
`acquire()`), `awaiting` (in `wait_for(shield(future))`) or its outcome.

| Specification | Code |
|---|---|
| `nodeQueues`, `queueOf` | `_node_queues`; the local `queue`. A queue object is named after the request that created it |
| `busy`, `waiters`, `sequence`, `ticket`, `slot` | `_busy`, `_waiters`, `_sequence`, the sequence number and the future in the heap entry |
| `pending`, `reply` | `_pending`; the future of `_PendingRequest` |
| `tidCounter`, `tid` | `_tid_counter`; the local `tid` |
| `cancelling`, `fired` | the task was cancelled / the timeout expired, and it has not run since |
| `open` | `_protocol is not None` |
| `CallAndSend`, `CallAndFail`, `CallAndWait` | `_send_request` up to its first suspension, by whether the slot is free and the datagram goes out |
| `ResumeAndSend`, `ResumeAndFail`, `ResumeStopped`, `ResumeCancelled` | a waiter resumes in `acquire()` |
| `FinishAnswered`, `FinishStopped`, `FinishTimeout`, `FinishCancelled` | it resumes from `wait_for`, with the whole `finally` (`Finish`, `Leave`, `Release`) |
| `TimerFires`, `CancelTask` | the event loop's timer; cancellation by the task's owner |
| `Receive`, `Notify` | the matching in `_process_frame`: a response to any request ever sent (late, repeated, never); an INF that a node sends by itself under an arbitrary TID |
| `Stop`, `Start`, `Probe` | `stop()` after its awaits; `start()` with its first probe; a multicast probe, which draws a TID without registering it |
| `ProbeSpins`, `stuck`, `Running` | a probe that finds every TID pending: `_next_transaction_id` raises, and `_discovery_loop` catches it and probes again without reaching its `sleep`. It is one step of one task that never ends, so no other step is taken (`Running`) |

Abstractions. Frames are reduced to what matching looks at: address, TID, and one
value (`ServiceOf`) for the EOJs and response ESVs. A request that goes out may be
answered at any later time; a refused datagram is `FailToSend`. The heap is a
set, popped in the order `Before`. `Start` waits until every task `stop()` failed
has resumed: creating the socket takes turns of the loop, in which they run. And
a TID is not handed out again in the turn or two between the completion of a
future and the resumption of its request (`NotComeRound`); with 65535 TIDs the
counter cannot come round in that time, with the two of a run it could.

### GetBatching: reading one device object

The calls of `setup_get` (`Probing`), `get` and `request_get` (`Unsplit`) for one
device object share its `_GetCapability` (`capacity`, `identified`). A step is
what a call does between sending one request and the next: `Begin`, reading EPC
0x8A on its own, then a response or none until the queue is empty. A response
follows the body of the loop of `_run_get_batches`: `Unanswered` (halve, or
abort), `Partial`, `Overloaded` (every EPC empty while the limit is unknown:
ADR-0001) and `Complete`; each ends with the head of the loop and
`take_first_batch`. A request may also not be sent, or be failed by a stop.

What is read, the policy and the device are a `scenario`. A device is a record:
how many EPCs it answers at once (`capable`), what it does with more (`silent`,
`partial`, `empty`), which EPCs it has; a `wild` device answers any subset with
any values. When the scenario `moves`, the node goes to another address and another node
(`rival`, of the same class and manufacturer) takes the old one. A call keeps the
`address` it read as it began, so it may go on asking the old one (`Strayed`).
Either of the two nodes may announce itself first, and `home` says how far that has
got:

| `home` | Announced | What `_handle_node_profile` has done |
|---|---|---|
| `taken` | neither | nothing: new calls ask the old address, too |
| `displaced`, then `new` | the rival first, then the node | the node's learned limits are dropped and it has no address until it is announced; whoever begins then gets a fresh object (`TableObject`), running calls keep theirs (`object`) |
| `moved` | the node first | nothing is dropped; `forceput` replaces its old address, and the rival, announced later, is new there. Calls at both addresses share one object |

`settled`, `sends`, `halvings` and `misled` (the rival answered a setup) are history
variables. Left out: EPCs a device returns unasked (the code drops them), duplicate
EPCs in a call (it removes them first), and a node that moves twice.

### NodeJobs: the device manager's events and jobs

The client's events go into `queue` (`_event_queue`), of which the consumer takes
one after the other without suspending (`Take`: `consumer` is `running` until the
queue is empty). An instance list becomes items of the `todo` of the node's
worker (`Enqueue`), which is created if the node has none `registered`
(`_node_workers`, and `_node_jobs` with it); frames go to the cache or are
deferred. A worker goes from one await to the next: `Begin`, then for each object
that is not known `reading` (all requests of `_setup_device`), `read`, `Register`
(into `data`, with the deferred frames), `notifying` (range recovery and INF_REQ)
and `SetupDone`; a range that a frame shows to be unset later is `recovering`.
`Continue` is the way from one await to the next, past the items that need
nothing, or to the `finally` of `_run_node_jobs` (`End`). `async_stop()` is
`Stop` up to its first await, `StopWorkersEnded` and `StopRefreshesEnded` after
its two gathers.

| Specification | Code |
|---|---|
| `registered`, `todo`, `home` | `_node_workers`, the deque of the worker, its `node_id` |
| `pendingSetups`, `deferred`, `data` | `_pending_setups`, `_deferred_frames`, `data` |
| `cache`, `current` | one value for the properties of an object; the value on the device |
| `attempted` | `range_recovery_attempted_epcs` covers every range of the object |
| `gathered`, `cancelled` | the snapshot `workers` in `async_stop()`; a task was cancelled and has not run since |
| `subscribed`, `consumer`, `refreshing` | `_unsubscribe_runtime`, `_event_consumer_task`, `_refresh_tasks` |

A value counts the changes of the device, and notifications arrive in order. The
order in which asyncio runs what is ready matters in four places, and is part of
the model: a worker begins before the consumer is woken again; an event queued
before `async_stop()` is consumed before a cancelled worker ends; a response is
consumed as an event before its caller resumes (the caller is woken through
`shield`, one turn later); and the gathers return turns after the queue is empty.
Refreshes that begin while `async_stop()` waits for refreshes are left out.

### NodeDiscovery: addresses, unknown nodes and the life cycle

| Specification | Code |
|---|---|
| `nodeAt`, `queued`, `registered`, `learned` | `_device_addresses`, `_pending_frames`, `_address_discovery_tasks`, the nodes with something in `_get_capabilities` |
| `pc`, `at`, `left`, `reply` of a task | `_discover_address`: where it is, its address, the EPCs it still has to read, the EPCs in the response it was sent |
| `open`, `loop`, `stopping`, `snapshot` | `_protocol`, `_discovery_task`, where `stop()` is, the tasks it gathers |
| `position` | the address a node really has |
| `ReceiveFrame`, `QueueUnknown`, `Room` | `_process_frame` for a frame of a device object, `_queue_unknown_frame` |
| `ReceiveProfile`, `Answer`, `Profile` | `_handle_node_profile` for a notification, or for the answer to a discovery: `Known` is the `forceput`, `Forgotten` clears the learned limits of the node that was there, `Announce` dispatches the list and then the queued frames |
| `TaskBegins`, `TaskAnswered`, `TaskGivesUp`, `TaskNeverBegins`, `Callback` | the steps of a discovery task, its `finally` (`Discard`), and its done callback a turn later |
| `Stop`, `StopTasksEnded`, `StopLoopEnded`, `Start` | `stop()` with its two awaits; `start()`, whose first probe may fail |
| `Learn`, `Move` | a GET learns something about a node; a node changes address |

A frame is its number in the order of reception. A task has a name until
its callback has run; on the instance of the run, an address without a task
always finds a name free.
Nodes send any of their identification number and instance list. The two constants of the queue are
small here (2 frames of 1 address; 16 and 32 in the code).

### PropertyPoller: polls and subscriptions

One device: its schedule depends on no other. `state` is the poller's
`_DeviceScheduleState`, with *ages* instead of times (how long ago each tier was
polled, capped where it makes no difference), `cycles` the poll cycles that are
not done, `node` the part of the device manager's `NodeState` that matters,
`counts` and `confirmed` its subscription tables. `Wake` is one pass of
`_schedule_polls`: it merges the tiers that are due (`EffectiveInterval`,
`EffectiveFastInterval`: latency, back-off, cap) into one cycle of the EPCs
wanted (`EffectiveEpcs`); `CycleBegins`, `CycleAnswered` and `CycleUnanswered`
are the steps of `_run_cycle` with `poll_device` in it; `Start`, `Stop` and
`CleanUp` the life cycle. `Appear`, `Notified` and `Vanish` are the device:
nothing in the device manager removes a device, but `data` is public.
`skipped` counts, for each EPC that consumers are owed, the wakes with no cycle
in progress that left it out. An EPC in a later chunk of a cycle whose first
chunk is never answered counts as taken up by that cycle, although it is not
read: a device that does not answer is retried from its first chunk.

### PropertyCache: cached values against the device

One device object after its setup. Sets, polls and read-backs wait in `sets`,
`reads` and `refreshes`; one request is `outstanding` at a time (that is
RequestQueue); datagrams travel in order through `requests` and `answers`, and
may be lost or come after the timeout. The device accepts any part of a Set,
settles on any value and may notify it before or after it answers
(`DeviceSets`), and changes on its own. `ReceiveValues` is `_apply_frame`,
`ReceiveSetAnswer` is the rest of `set_properties` (`Accepted`, `Applied`,
`ToRefresh`). The caller and the event consumer both run before the socket is
read again: asyncio reads a datagram in one turn and the waiters it wakes run
in the turns that follow before the selector is asked for the next one, so an
accepted value is written before a later notification. `unsure` are the EPCs
whose latest news was lost or ignored.

### ValueCodecs, StructuredValues, Frames, Conversions, Values: the pure functions

`ValueCodecs` has the codecs of `codecs.py` and `installation_location.py`
(numbers with a scale, enumerations, numeric values, times, dates, durations,
locations) and the choice of one (`GetCodecForEpc`, from `definitions.py`);
`StructuredValues` objects, arrays, one-of, collections, pages, and the range
recovery of the device manager; `Frames` the codec of frames and EOJs, property
maps, node profiles and the results of SetC and INF_REQ; `Bytes` what they
share. `Conversions` has one variable, the `call` made: an action for each function,
which calls it once with arguments of its constant sets; `Values` adds the
functions of StructuredValues. `MCValues` gives bytes
and values at and beside the boundaries of each field, frames cut at every length
and with a wrong byte at every position, property maps of every critical size.
The properties compare the result with the other direction of the conversion, or
with a definition by sets. Floating-point values are exact fractions, so the
rounding of floats is left out. TLC's integers have 32 bits, so the instances have
formats of one and two bytes; the proofs cover those of four as well.
Decoding refuses the empty EDT, as the code does (a
Get_SNA carries it for what a device does not have).

The definitions are constants. `RegistryAssumption` is what is assumed of them, and
every entity of `_definitions_generated.py` keeps to it: in one definition no two
states and no two numbers of a table have an EDT or a value in common (or the codec's
two dictionaries would not be inverse), no state of a temporal property has the
EDT of a date or a time, scales are positive, and the size of a temporal property is
one that `__post_init__` takes.

## Runs

| Run | Instance | Shows |
|---|---|---|
| `QueueSafety` | a SetC, a setup GET and a poll GET to one node, 4 TIDs and the counter about to wrap, one restart | `OneOutstanding`, `SlotHasOwner`, `NoLostWakeup`, `AnswerIsOwn` (late and repeated answers), and `ImplementsSlots`: the pipeline implements `NodeSlots` |
| `QueueTids` | two GETs to one node, an INF_REQ to another, 1 TID, one probe, `FairSpec` | `TypeOK`, `PendingMatchesOutstanding`, `AnswerIsDelivered`, `EveryRequestEnds`, also of requests that find no TID left, but not once a probe does |
| `Batching` | one setup of five EPCs on every silent, partial or empty device, two losses; two setups and a get at once on honest devices, one loss; the same under a policy on a device that answers anything; two setups and a `request_get` while the node moves, announced before or after the rival | `RequestsBounded` (ADR-0004 computes 5 + 27 requests for 27 EPCs), `LimitNotTooSmall`, `LearnedLimitHonest`, `NothingMissed`, `NothingForgotten`, `BatchAllowed`, `CapacityShrinks`, `TypeOK` |
| `Jobs` | two nodes, three instance lists, a change of a value, refreshes, a stop and a restart, `FairSpec` | `CacheIsCurrent`, `DeferredIsTransient`, `NodeIsSerial`, `SetupIsExclusive`, `AnnouncedOnce`, `ListedIsTried`, `TypeOK` |
| `Discovery` | two nodes, two addresses; a stop and a restart, or a change of address with frames, profiles and discoveries under way | `AddressBook`, `QueuedIsSought`, `InOrder`, `ReplayFollowsList`, `TypeOK` |
| `Poller` | an EPC of each tier and one that cannot be read, two consumers, intervals 1, 2 and a cap of 4, a late loop | `OneCycle`, `AvailabilityHonest`, `NeverNeglected`, `PollsOnlyWanted`, `TypeOK` |
| `Cache` | an EPC that can be read and one that cannot, two values; two Sets with a loss or a change, or a Set, a poll, a change and a loss | `CacheSettles`, `TypeOK` |
| `Values` | 38 thousand calls | `EncodedIsDecoded`, `DecodedIsEncoded`, `NothingInvented`, `PagesAreTheirBytes` |
| `BatchingMoved` | the node that moves, as in `Batching` | *violated*: `LimitIsPerNode` |
| `JobsStop` | two nodes, one stop | *violated*: `StopEndsWorkers` |
| `JobsDeferred` | one object, room for one deferred frame | *violated*: `CacheIsCurrent` |
| `DiscoveryTaken` | as `Discovery` | *violated*: `ListIsOwn` |

The last four show disagreements of the code with its documentation:

- `BatchingMoved`. Learned limits are discarded when a node announces itself at the
  address of another one. A node that is announced at its new address *before* its
  rival at the old one keeps them, and nothing is discarded when the rival follows. A
  setup that read the old address and is still running fixes the limit of the moved
  node from the rival's answers, although ADR-0001 keeps limits per node ID and EOJ.
  If that limit is too large, an answer that is empty because the request was too
  long counts as complete, and a setup misses EPCs. `LearnedLimitHonest` and
  `NothingMissed` except this case: the first holds after a setup was `misled` only if
  the rival was announced first, the second only of calls that hold the fresh object.
- `JobsStop`. `async_stop()` cancels a snapshot of the workers and awaits them
  while the consumer still runs. An instance list of another node that was
  queued just before makes the consumer create a worker that is not in the
  snapshot; `_node_workers.clear()` then forgets it, and its setup goes on after
  `async_stop()` has returned (and, after a restart, beside a second worker of its
  node, although ADR-0011 has the jobs of a node run serially; the requests stay
  serialized by the request pipeline). The history variable `leaked` remembers
  this; `Jobs` checks the properties it breaks wherever it did not happen, and
  `SetupIsExclusive`, `AnnouncedOnce` and `ListedIsTried` even where it did.
- `JobsDeferred`. When `_MAX_DEFERRED_FRAMES` frames are kept, newer ones are
  dropped, also the responses to the setup's own GETs; the older frames are then
  applied over what the setup read. With room enough `CacheIsCurrent` holds
  (`Jobs`, and `CacheStaysCurrent` for every instance).
- `DiscoveryTaken`. The recurring probe asks for the instance list alone, since
  known addresses are mapped to nodes. When another node has got a known address,
  its list is announced as that of the earlier node, and nothing asks it for its
  identification number. (When it does send the number, everything is put right:
  `AddressBook`.)

Two more are known and not runs of their own. An `EnumCodec` looks up a single byte
(codecs.py:266), while the states of Fault description (0x89) and of EPC 0xC5 of class
0x02A4 take two: `00 01` is read as "no fault", `03 E9` as "set incorrectly", and the
states above 255 cannot be encoded, although its docstring (codecs.py:181) has bytes
that are no valid value decode to `None`. And the discovery loop spins once a probe
finds every TID pending (runtime.py:1321 to 1328): `ProbeSpins` is in `QueueTids`, and
`EveryRequestEnds` says `\/ stuck` because of it. It takes 65535 pending requests, each to
another node. A waiting request would then wait for ever, although ADR-0011 (line 54)
has it wait its own timeout at most.

`CHECK_DEADLOCK FALSE` is set everywhere: a system whose calls have all ended
stops, and that is right.

Bounds. Three requests to one node are a holder and two waiters that compete, one
of which may be a cancelled entry in the heap; a fourth adds only longer waits.
One restart suffices for a request of the old life to meet a queue of the new.
In `QueueSafety` there is a TID for every draw, since an answer that is 65535
requests late is beyond what TIDs can tell apart, and the property says so; in
`QueueTids` there is one, so that it is reused at once and found taken. That the
counter *skips* pending TIDs, for any number of them, is part of what the proofs
cover. `MaxProbes` bounds the TIDs drawn by probes, `maxLosses` the requests a
device would have answered but did not. Five EPCs are halved up to three times
(5, 3, 2, 1). In `Jobs` an instance list that comes again makes a job wait behind
one that fails; `MaxDeferred` is as large as the frames of the run need (except
where its limit is the point), and `Workers` are names that are used again,
enough for those alive at a time; so are `Tasks` in `Discovery` and `CycleNames`
in `Poller`. `MCLimits` of `Discovery` and `MCBudgets` of `Cache` are the
combinations of what the environment may do, each with enough to reach the
hazards: three frames fill a queue of two and drop one; one move makes one node
turn up at the address of the other. In `Poller` two steps of back-off reach the
cap, and latencies lie under and at it. The proofs do not depend on bounds.

Fairness. `FairSpec` of RequestQueue assumes weak fairness of `Resume(r)` (asyncio
runs every task whose future is done) and of `TimerFires(r)` (`request_timeout` is
finite), as long as the loop does not spin (`Running`). Nothing is assumed of answers, and no fairness of the owner who cancels.
Each call is made once in a run; a stream of SETs that never ends would
starve lower priorities, by design of the priorities. GetBatching has no liveness
property: `RequestsBounded` bounds the requests of every call, and each ends by
`EveryRequestEnds`. `FairSpec` of NodeJobs assumes weak fairness of the event
loop, which runs on while the consumer or a worker can run, but not of the
answers to a setup: that a worker's request ends is `EveryRequestEnds` again.
What must happen in time is a safety property where the code has a bound for it:
`NeverNeglected` (max_interval) and `QueuedIsSought` (somebody is at it). Two of these
are weaker than one might wish. `QueuedIsSought` excepts frames that come in the turn
between the end of a discovery and its done callback (`late`): there is indeed no
discovery for them until the next frame of their address, and the property only says
that this is the one gap. `NeverNeglected` bounds both tiers, but does not say that the
fast one is never the slower of the two.

## Proofs

`RequestQueueProofs` proves, from the assumptions `RequestsAssumption` and
`BoundsAssumption` alone (requests have an address and a priority, `None` is
neither a request nor an address, `MaxTid` is positive):

- `TypeCorrect`: `Spec => []TypeOK`.
- `Invariant`: `Spec => []IInv`.
- from it `OneOutstandingPerNode`, `NoSlotIsLost`, `NoWakeupIsLost` and
  `PendingIsOutstanding`; and, with a second small invariant (`DeliveryInv`: a
  request that was not sent has no answer), `AcceptedIsDelivered`.
- with the assumption `TidsSuffice` (there is a TID for every draw: one for each
  request, restart and probe), `AnswersAreOwn`: `Spec => []AnswerIsOwn`.

None of the properties is inductive by itself. `OneOutstanding` needs to know that
an outstanding request holds the slot of the queue *registered* at its address
(`OutstandingHolds`), which needs that a registered queue is busy exactly while
it has one holder (`OneHolder`). That survives `Release` only because whoever is in
a heap is waiting or cancelled there and nowhere else (`WaitersWait`), because a
slot is granted only in a queue that stays registered until `stop()` (`SlotStates`),
and because queue objects are fresh and serve one address (`Untouched`,
`QueuesStayHome`). After `stop()` requests may still hold slots of queues that are
not registered any more; that is why these parts speak of registered queues and
why `Stop` must fail every outstanding request and every waiter at once.
`PendingInv` adds that a request awaiting its response is registered under its own
TID exactly until its future is done. `HandOver` is the central lemma: what is
true when any request ends and `release()` runs. `InvStep` goes through the
actions one by one.

`AnswersAreOwn` is about a TID that is used again: since answers may come at any
later time, a request whose TID was given to another one before could be handed
the answer to that one. The counter only goes forward, so the TIDs drawn lie
behind it, each less than `Draws` behind (`TidsInv`), and the next one has never been
drawn (`NextTidIsFresh`). Without `TidsSuffice` the property is false, and rightly so: an
answer that is 65535 draws late cannot be told from a new one.

Its last part proves `QueuesImplementSlots`: `Spec => ImplementsSlots`, the
refinement mapping of RequestQueue onto NodeSlots. The mapped holder of an
address is the request that holds the slot of the queue registered there, so that a
step is either one of NodeSlots or leaves all mapped variables alone
(`SlotsStep`, action by action). `IInv` alone is not enough: the order of arrival
that NodeSlots keeps must be the order of the tickets, so every waiter's ticket is
below the counter of its queue and no two are equal (`TicketInv`), and `Leave` must
hand over to exactly the request that `Release` pops (`LeaveRefines`).

`GetBatchingProofs` proves, from `GetAssumption` (the scenarios are well formed and
the EPCs finitely many; calls, policies and devices are arbitrary, also how many
there are), all properties of the `Batching` run: `NothingForgotten`,
`BatchAllowed`, `RequestsBounded`, `LearnedLimitHonest`, `LimitNotTooSmall`,
`NothingMissed`, `TypeOK` and the action property `CapacityShrinks`. `BatchingInv`
says of each call what it has settled at each stage (`Stages`); that its batch and
its queue together are the EPCs left, each once, in a batch the policy and every
known limit allow (`Batches`); that the bound on a batch, less one, times
`2^halvings` stays below the number of EPCs, and that every request settled an EPC
or was a halving (`Probes`); that the limits it holds are true of its device and
what it settled is what the device has (`Learns`); and, for a setup on its own, that it
never probes with less than half of what would do (`LearnsAlone`); which object
it can hold at which stage of the move (`Placed`); beside these, that a limit is true of
the device as long as no setup that went astray could have taught it: that of a fresh
object always, that of the first one until a setup is `misled` (`CapacityHonest`). What a
call learns or settles is claimed only while it is one of `Ours`: its requests go to
the device and its object is such an object. None of the properties is inductive:
`RequestsBounded` needs `Probes`, since a count of requests says nothing of the next one,
and `LearnedLimitHonest` needs `Placed`: calls that stray hold the first object, so what
they teach does not reach a fresh one.

These proofs rest on what two loops over a sequence compute, `TakeFirstBatch` and the
selection of EPCs left (`Without`), and on powers of two. The model writes them as
recursive functions, and `DataInduction` proves what is needed of such functions by
an induction that is a fact about sets (`Counting`: a set of numbers with 0 and
the successor of each member has them all, from the least element of its
complement), with the existence of the function a recursion defines as its own lemma
(`Recursion`, `NatRecursion`), since a recursive function is otherwise only chosen.
`TakeFirstBatchFacts` and `WithoutFacts` say what the loops return for sequences of any
length: no EPC is lost or comes twice, and the batch keeps to its limits.

`NodeDiscoveryProofs` proves, from `DiscoveryAssumption` (finite, disjoint names;
positive limits), `TypeOK` (both limits of the queue of unknown frames),
`AddressBook`, `QueuedIsSought`, `InOrder` and `ReplayFollowsList`. The
inductive invariant is `DiscoveryInv`. `QueuedIsSought` needs to know whose
task is registered where and that nobody but `stop()` cancels tasks
(`TasksInv`): otherwise a cancelled task could leave its frames behind.
`InOrder` is about a single step, but holds only because whatever is queued is
newer than what was dispatched of that address, in order, and because a known
address has nothing queued (`QueuedAre`, with the `lone` addresses of the
finding as the only exception).

`PropertyPollerProofs` proves, from `PollerAssumption` and `NoneAssumption`
(finite sets of EPCs and consumers, positive intervals; the latencies and the
capacities that devices report are arbitrary), `TypeOK`, `OneCycle`, `AvailabilityHonest`,
`NeverNeglected` and `PollsOnlyWanted`. The inductive invariant `PollerInv` adds
that the counter of an EPC is the number of live subscriptions to it
(`SubsInv`), that the tiers of a device are those of the EPCs it does not notify
(`EpcsInv`), and that an EPC that was skipped `k` times is owed and its tier is at least
`k` fast intervals old (`SkipInv`). With `NotDueFacts` (whatever the latency and the
back-off, a tier that is not due is younger than `max_interval`) that bounds the number
of times it is skipped. `OneCycle` lets a cycle
that goes on find its own state again, so that failures and availability
change together.

`NodeJobsProofs` proves, from `JobsAssumption` (every object is in the instance
list of exactly one node), `TypeOK`, `SetupIsExclusive`, `AnnouncedOnce`, `NodeIsSerial`,
`DeferredIsTransient` and, under a condition, `CacheIsCurrent`. The inductive invariant `JobsInv` adds what the tables say of
a worker at each of its awaits: it has a node and an object (`WorkersInv`); the object
is not in `data` until it is registered, and then it is and was not announced
(`SetupInv`); unless `async_stop()` left one behind, a worker is the one
registered for its node (`RegisteredInv`). `SetupIsExclusive` is kept when
a worker goes on because only its own object leaves `_pending_setups` then: what
remains is exactly what the other workers set up (`LeftBy`, `ExclusiveAgain`).

`CacheStaysCurrent` is `Spec /\ [][RoomIsLeft]_vars => []CacheIsCurrent`: as long as no
step drops a frame of a node with a worker because `MaxDeferred` are kept already.
`JobsDeferred` shows that the condition is needed; every step of `Jobs` satisfies it.
Its invariants say that nothing the consumer has seen, or will see, is newer than the
device (`SeenInv`); that the last frame deferred for an object is the last one seen
(`DeferredInv`); and that what a setup has read is as new as what was seen, unless
frames were deferred since (`ReadInv`). `DeferredInv` and `ReadInv` are kept when *another*
worker ends and drops the frames of its node only because workers of one node are
one and their jobs are about its own objects (`TodoInv`), and a frame that comes
while an object is read is deferred only because its reader is the registered worker
of its node, and whoever is registered lives or is waited for by `async_stop()`
(`GatheredInv`).

`PropertyCacheProofs` proves, from `CacheAssumption` alone, `TypeOK` and
`CacheSettles`. `CacheSettles` speaks only of quiet states; the inductive invariant
`CacheInv` says of every state where the right value of an EPC is: in the cache, in a
datagram on its way, or still to be read (`NewsComes`). A value on its way is the right one
only if no later datagram is about the same EPC (`Latest`); that the device sends news
of all it changes, in order, is what keeps it (`SentFacts`), and an accepted Set,
whose cached value may be wrong, is covered by the read-back of `ReceiveSetAnswer`.

`ConversionsProofs` proves `EncodedIsDecoded`, `DecodedIsEncoded` and `NothingInvented`,
as invariants of `ConversionSpec`, from `NoneAssumption`, `FrameAssumption` and
`ValuesAssumption` (`None` is none of the sequences, frames, numbers and values),
`RegistryAssumption`, and `ConversionsAssumption` (the arguments are of the types of the
functions). A call is made once, so nothing is inductive here; what is to be proved is that
the functions are right for arguments of any length:

- Frames. `CutOrWhole`: a datagram that agrees with an encoded frame as far as both
  go is decoded to that frame, or refused if it is shorter. `DecodedBegins`: whatever
  decodes is a frame whose bytes the datagram begins with. Both are inductions over the
  properties: the first `i` turns of the loop of `Frame.decode` have read the first `i`
  properties, and the offset is where the bytes of the next one begin
  (`ReadsProperties`, `HoldsProperties`). The second shows that a wrong byte can only
  turn a frame into another well-formed one.
- Property maps. `MapsAreRead`: any set of EPCs is read from its map, whichever form it
  has. For the list the EPCs in their order are all of them (`Ordering`, by
  the number of smaller ones); for the bitmap the bits of a sum of powers of
  two are its summands (`BitsRead`).
- Values. `CodecIsLawful` says what a regular registry makes of the codec of any field
  at the start of its EDT without coefficients, the fields that are written.
  `DecodedStays` and `EncodedTells` are the two directions for all of them, kind
  by kind. For numbers the raw integer is recovered from bytes of one, two or four
  places, signed or not (`BytesToNumber` to `SignedToBytes`), and a scale is taken off by
  `round()`: exactly for a multiple (`MultiplesRound`), to half a step otherwise
  (`RoundedIsNear`). For dates and times each part fits its byte and the kinds are
  not taken for one another. States come before dates and times, which is harmless only
  because the registry keeps them apart (`TemporalOrStateStays`, `TemporalOrStateTells`).
- Readings. `InstancesListed`, `TextsAreBytes`, `ScalesAreKnown`, `SetsAreHonest` and
  `NotificationsAreHonest` are the parts of `NothingInvented`.

Recursion over bytes and sequences is again written as recursive functions or folds, for
which `DataInduction` gives existence and induction.

The inductive invariants were checked by TLC on the instances of the runs before
they were proved.

Only model-checked: `EveryRequestEnds` and `ListedIsTried` (liveness under fairness is
out of the prover's reach); `PagesAreTheirBytes`, since `StructuredValues` follows the
nesting of definitions with recursive operators, which the prover cannot take (that is
also why the theorems above are about `ConversionSpec`: `Values` adds to it the calls of
these functions, of which the three properties say nothing); and the properties the
documentation promises and the code does not keep, `StopEndsWorkers`, `ListIsOwn` and
`LimitIsPerNode`.

## Not modelled

- The UDP sockets (`transport.py`): they are in the other modules by their effect
  on datagrams, which are lost, late, repeated, or refused with `OSError`.
- The generated definitions. Definitions of each shape are in `MCValues`; that
  each of the two thousand lines is right is a matter of the MRA data. In a few
  of them the definition and its codec do not fit one another: the states of two
  bytes above.
- The scripts that generate them: one sequential pass over input files.
- Two concurrent calls of `start()`, or of `stop()`. No doc or test allows them;
  the hazards name what would happen.
- The rounding of floats; logging.
