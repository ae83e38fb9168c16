------------------------------- MODULE NodeJobs -------------------------------
(***************************************************************************)
(* The event processing of DeviceManager (device_manager.py): the queue of  *)
(* runtime events and its consumer, the job task ("worker") of each node,   *)
(* the setup of device objects, the frames deferred meanwhile, and          *)
(* async_start() and async_stop().                                          *)
(*                                                                         *)
(* A step is what one task does between two awaits.  A value of a device    *)
(* object is the number of times it has changed; a frame carries one.       *)
(* A worker has a name while it lives; the deque of its jobs is its todo,   *)
(* with an instance list spelled out as one setup item for each instance.   *)
(***************************************************************************)
EXTENDS Integers, Sequences, FiniteSets, SequencesExt

CONSTANTS Nodes, Objects,
          InstancesOf,  \* [Nodes -> Seq(Objects)]: the instance list of a node
          RangeObjects, \* objects with a collection range that may be unset
          Workers,      \* names for the worker tasks, numbers; bounds the live ones
          MaxDeferred,  \* _MAX_DEFERRED_FRAMES (64 in the code)
          MaxLists,     \* bound on the instance lists that arrive
          MaxChanges,   \* bound on the changes of values
          MaxStops,     \* bound on the calls of async_stop()
          Refreshing,   \* whether Sets schedule refreshes
          None          \* no worker, no object

ASSUME JobsAssumption ==
    /\ InstancesOf \in [Nodes -> Seq(Objects)]
    /\ \A o \in Objects : \E n \in Nodes : o \in ToSet(InstancesOf[n])
    /\ \A m, n \in Nodes :
         ToSet(InstancesOf[m]) \cap ToSet(InstancesOf[n]) # {} => m = n
    /\ RangeObjects \subseteq Objects
    /\ MaxDeferred \in Nat /\ MaxLists \in Nat /\ MaxChanges \in Nat /\ MaxStops \in Nat
    /\ Workers \subseteq Nat /\ Refreshing \in BOOLEAN
    /\ None \notin Workers /\ None \notin Objects

VARIABLES
    subscribed,  \* _unsubscribe_runtime is not None
    consumer,    \* _event_consumer_task: none, waiting in get(), or running
    stopping,    \* where async_stop() is
    stops,       \* how often it was called
    gathered,    \* the workers it has cancelled and waits for
    queue,       \* _event_queue
    registered,  \* _node_workers and _node_jobs: the worker of a node, or None
    home,        \* the node_id of a worker
    pc,          \* where a worker is
    cancelled,   \* it was cancelled and has not run since
    job,         \* the object its current job is about
    todo,        \* the items of its jobs that it has not begun
    value,       \* what the GETs of its setup have read
    pendingSetups, \* _pending_setups
    deferred,    \* _deferred_frames
    data,        \* the objects in data
    cache,       \* the cached value of an object
    attempted,   \* the objects whose range_recovery_attempted_epcs are complete
    refreshing,  \* _refresh_tasks is not empty
    current,     \* the value of an object on the device
    lists,       \* how many instance lists have arrived
    seen,        \* history: the value in the last frame the consumer took
    listed,      \* history: objects of the instance lists the consumer took
                 \* whose setup has not begun since
    announced,   \* history: how often DeviceAdded was emitted for an object
    leaked       \* history: async_stop() forgot or left behind a live worker

stopVars == <<subscribed, stopping, stops, gathered, refreshing, leaked>>
taskVars == <<registered, home, pc, cancelled, job, todo, value, pendingSetups, listed>>
dataVars == <<deferred, data, cache, attempted, seen, announced>>
envVars == <<current, lists>>
vars == <<stopVars, taskVars, dataVars, envVars, queue, consumer>>

NodeOf(o) == CHOOSE n \in Nodes : o \in ToSet(InstancesOf[n])

ListEvent(n) == [kind |-> "list", node |-> n]
FrameEvent(o, v) == [kind |-> "frame", object |-> o, value |-> v]
Setup(o) == [kind |-> "setup", object |-> o]
Recover(o) == [kind |-> "recover", object |-> o]

Values == 0..MaxChanges
Events == {ListEvent(n) : n \in Nodes} \cup {FrameEvent(o, v) : o \in Objects, v \in Values}
Items == {Setup(o) : o \in Objects} \cup {Recover(o) : o \in RangeObjects}

TypeOK ==
    /\ subscribed \in BOOLEAN /\ refreshing \in BOOLEAN /\ leaked \in BOOLEAN
    /\ consumer \in {"none", "waiting", "running"}
    /\ stopping \in {"no", "workers", "refreshes"}
    /\ stops \in 0..MaxStops /\ gathered \subseteq Workers
    /\ queue \in Seq(Events)
    /\ registered \in [Nodes -> Workers \cup {None}]
    /\ pc \in [Workers -> {"none", "ready", "reading", "read", "notifying",
                           "recovering"}]
    /\ home \in [Workers -> Nodes \cup {None}]
    /\ cancelled \in [Workers -> BOOLEAN]
    /\ job \in [Workers -> Objects \cup {None}]
    /\ todo \in [Workers -> Seq(Items)]
    /\ value \in [Workers -> Values]
    /\ pendingSetups \subseteq Objects
    /\ deferred \in [Objects -> Seq(Values)]
    /\ \A o \in Objects : Len(deferred[o]) <= MaxDeferred
    /\ data \subseteq Objects /\ attempted \subseteq RangeObjects
    /\ cache \in [Objects -> Values] /\ current \in [Objects -> Values]
    /\ seen \in [Objects -> Values] /\ listed \subseteq Objects
    /\ announced \in [Objects -> Nat] /\ lists \in 0..MaxLists

(* A manager that async_start() has started, and that knows no device yet. *)
Init ==
    /\ subscribed = TRUE /\ consumer = "waiting" /\ refreshing = FALSE
    /\ stopping = "no" /\ stops = 0 /\ gathered = {} /\ leaked = FALSE
    /\ queue = <<>>
    /\ registered = [n \in Nodes |-> None]
    /\ pc = [w \in Workers |-> "none"]
    /\ home = [w \in Workers |-> None]
    /\ cancelled = [w \in Workers |-> FALSE]
    /\ job = [w \in Workers |-> None]
    /\ todo = [w \in Workers |-> <<>>]
    /\ value = [w \in Workers |-> 0]
    /\ pendingSetups = {}
    /\ deferred = [o \in Objects |-> <<>>]
    /\ data = {} /\ attempted = {}
    /\ cache = [o \in Objects |-> 0] /\ current = [o \in Objects |-> 0]
    /\ seen = [o \in Objects |-> 0] /\ listed = {}
    /\ announced = [o \in Objects |-> 0] /\ lists = 0

-----------------------------------------------------------------------------
(* Runtime events: _handle_runtime_event, once the client dispatches them.  *)

Post(event) == queue' = IF subscribed THEN Append(queue, event) ELSE queue

InstanceListArrives(n) ==
    /\ lists < MaxLists
    /\ lists' = lists + 1
    /\ Post(ListEvent(n))
    /\ UNCHANGED <<stopVars, taskVars, dataVars, current, consumer>>

(* A device changes a value and notifies it. *)
ValueChanges(o) ==
    /\ current[o] < MaxChanges
    /\ current' = [current EXCEPT ![o] = @ + 1]
    /\ Post(FrameEvent(o, current[o] + 1))
    /\ UNCHANGED <<stopVars, taskVars, dataVars, lists, consumer>>

-----------------------------------------------------------------------------
(* The consumer: _consume_runtime_events.                                   *)

(* Names for a new worker; async_stop() still holds those it waits for. *)
Free == {w \in Workers : pc[w] = "none" /\ w \notin gathered}

(* Mutant of Enqueue: the job of a busy node is forgotten. *)
EnqueueForgetting(n, items) ==
    IF registered[n] # None
    THEN UNCHANGED <<registered, home, pc, todo>>
    ELSE \E w \in Workers :
           /\ w \in Free /\ \A u \in Free : w <= u
           /\ registered' = [registered EXCEPT ![n] = w]
           /\ home' = [home EXCEPT ![w] = n]
           /\ pc' = [pc EXCEPT ![w] = "ready"]
           /\ todo' = [todo EXCEPT ![w] = items]

(* Mutant of Enqueue: every job gets a worker. *)
EnqueueAlone(n, items) ==
    \E w \in Workers :
      /\ w \in Free /\ \A u \in Free : w <= u
      /\ registered' = [registered EXCEPT ![n] = w]
      /\ home' = [home EXCEPT ![w] = n]
      /\ pc' = [pc EXCEPT ![w] = "ready"]
      /\ todo' = [todo EXCEPT ![w] = items]

(* _enqueue_node_job: a worker is created if the node has none. *)
Enqueue(n, items) ==
    IF registered[n] # None
    THEN /\ todo' = [todo EXCEPT ![registered[n]] = @ \o items]
         /\ UNCHANGED <<registered, home, pc>>
    ELSE \E w \in Workers :
           /\ w \in Free /\ \A u \in Free : w <= u
           /\ registered' = [registered EXCEPT ![n] = w]
           /\ home' = [home EXCEPT ![w] = n]
           /\ pc' = [pc EXCEPT ![w] = "ready"]
           /\ todo' = [todo EXCEPT ![w] = items]

(* The consumer takes the next event; it runs on until the queue is empty.  *)
(* The workers it creates begin before it is woken again.                   *)
Take(event) ==
    /\ consumer # "none" /\ queue # <<>>
    /\ consumer = "waiting" => \A w \in Workers : pc[w] # "ready"
    /\ Head(queue) = event
    /\ queue' = Tail(queue)
    /\ consumer' = IF Tail(queue) = <<>> THEN "waiting" ELSE "running"

ConsumeList(n) ==
    /\ Take(ListEvent(n))
    /\ Enqueue(n, [i \in DOMAIN InstancesOf[n] |-> Setup(InstancesOf[n][i])])
    /\ listed' = listed \cup ToSet(InstancesOf[n])
    /\ UNCHANGED <<stopVars, cancelled, job, value, pendingSetups, dataVars, envVars>>

(* Mutant of ConsumeFrame: a range is set of objects that have none. *)
ConsumeFrameAnyRange(o, v) ==
    /\ Take(FrameEvent(o, v))
    /\ o \in data
    /\ cache' = [cache EXCEPT ![o] = v]
    /\ seen' = [seen EXCEPT ![o] = v]
    /\ \/ UNCHANGED <<registered, home, pc, todo>>
       \/ o \notin attempted /\ Enqueue(NodeOf(o), <<Recover(o)>>)
    /\ UNCHANGED <<stopVars, cancelled, job, value, pendingSetups, listed,
                   deferred, data, attempted, announced, envVars>>

(* process_frame_event of a known object.  A frame that shows an unset      *)
(* collection range for the first time enqueues a job that sets it.         *)
ConsumeFrame(o, v) ==
    /\ Take(FrameEvent(o, v))
    /\ o \in data
    /\ cache' = [cache EXCEPT ![o] = v]
    /\ seen' = [seen EXCEPT ![o] = v]
    /\ \/ UNCHANGED <<registered, home, pc, todo>>
       \/ o \in RangeObjects \ attempted /\ Enqueue(NodeOf(o), <<Recover(o)>>)
    /\ UNCHANGED <<stopVars, cancelled, job, value, pendingSetups, listed,
                   deferred, data, attempted, announced, envVars>>

(* Of an object that is not known: the frame is deferred if a worker runs   *)
(* for the node and there is room.                                          *)
DeferFrame(o, v) ==
    /\ Take(FrameEvent(o, v))
    /\ o \notin data
    /\ seen' = [seen EXCEPT ![o] = v]
    /\ deferred' = IF registered[NodeOf(o)] # None /\ Len(deferred[o]) < MaxDeferred
                   THEN [deferred EXCEPT ![o] = Append(@, v)] ELSE deferred
    /\ UNCHANGED <<stopVars, taskVars, data, cache, attempted, announced, envVars>>

-----------------------------------------------------------------------------
(* The workers: _run_node_jobs, process_instance_list_event, setup_device.  *)

(* Mutant of Needed: known objects are set up again. *)
NeededThoughKnown(item, pending) ==
    IF item.kind = "setup" THEN item.object \notin pending
                           ELSE item.object \notin attempted

(* Mutant of Needed: objects whose setup is pending are set up again. *)
NeededThoughPending(item, pending) ==
    IF item.kind = "setup" THEN item.object \notin data
                           ELSE item.object \notin attempted

(* An item that makes its worker wait; other items are passed over. *)
Needed(item, pending) ==
    IF item.kind = "setup" THEN item.object \notin data \cup pending
                           ELSE item.object \notin attempted

(* Mutant of DropDeferred: frames of objects that were not set up remain. *)
DropDeferredNot(n) == deferred

(* The finally of _run_node_jobs: frames of objects that were not set up. *)
DropDeferred(n) ==
    [o \in Objects |-> IF NodeOf(o) = n /\ o \notin data THEN <<>> ELSE deferred[o]]

(* w ends; whichever worker is registered for its node is unregistered. *)
End(w) ==
    /\ pc' = [pc EXCEPT ![w] = "none"]
    /\ registered' = [registered EXCEPT ![home[w]] = None]
    /\ home' = [home EXCEPT ![w] = None]
    /\ todo' = [todo EXCEPT ![w] = <<>>]
    /\ job' = [job EXCEPT ![w] = None]
    /\ value' = [value EXCEPT ![w] = 0]
    /\ deferred' = DropDeferred(home[w])

(* w goes on to the next item it has to wait for, or ends. *)
Continue(w, pending) ==
    LET needed == {i \in DOMAIN todo[w] : Needed(todo[w][i], pending)} IN
    \/ /\ needed = {}
       /\ End(w)
       /\ pendingSetups' = pending
       /\ UNCHANGED <<attempted, listed>>
    \/ \E i \in needed :
         LET item == todo[w][i]
             o == item.object
         IN  /\ \A k \in needed : i <= k
             /\ job' = [job EXCEPT ![w] = o]
             /\ todo' = [todo EXCEPT ![w] = SubSeq(@, i + 1, Len(@))]
             /\ value' = [value EXCEPT ![w] = 0]
             /\ IF item.kind = "setup"
                  THEN /\ pc' = [pc EXCEPT ![w] = "reading"]
                       /\ pendingSetups' = pending \cup {o}
                       /\ listed' = listed \ {o}
                       /\ UNCHANGED attempted
                  ELSE /\ pc' = [pc EXCEPT ![w] = "recovering"]
                       /\ pendingSetups' = pending
                       /\ attempted' = attempted \cup {o}
                       /\ UNCHANGED listed
             /\ UNCHANGED <<registered, home, deferred>>

(* The first step of a worker. *)
Begin(w) ==
    /\ pc[w] = "ready" /\ ~cancelled[w] /\ registered[home[w]] = w
    /\ Continue(w, pendingSetups)
    /\ UNCHANGED <<stopVars, cancelled, data, cache, seen, announced, envVars, queue, consumer>>

(* A task that ends before its first line was reached, so without finally.  *)
Vanish(w) ==
    /\ pc' = [pc EXCEPT ![w] = "none"]
    /\ home' = [home EXCEPT ![w] = None]
    /\ todo' = [todo EXCEPT ![w] = <<>>]
    /\ UNCHANGED <<registered, job, value, pendingSetups, deferred>>

(* Its queue is gone (KeyError): a worker that outlived async_stop() ended  *)
(* and removed what was registered for the node.                            *)
BeginForgotten(w) ==
    /\ pc[w] = "ready" /\ ~cancelled[w] /\ registered[home[w]] # w
    /\ Vanish(w)
    /\ UNCHANGED <<stopVars, cancelled, listed, data, cache, attempted, seen, announced,
                   envVars, queue, consumer>>

(* The last response to the GETs of a setup arrives.  It is dispatched as   *)
(* an event as well.                                                        *)
SetupAnswered(w) ==
    /\ pc[w] = "reading" /\ ~cancelled[w]
    /\ pc' = [pc EXCEPT ![w] = "read"]
    /\ value' = [value EXCEPT ![w] = current[job[w]]]
    /\ Post(FrameEvent(job[w], current[job[w]]))
    /\ UNCHANGED <<stopVars, registered, home, cancelled, job, todo, pendingSetups, listed,
                   dataVars, envVars, consumer>>

(* Mutant of Register: the deferred frames are dropped. *)
RegisterDropping(w) ==
    LET o == job[w] IN
    /\ pc[w] = "read" /\ ~cancelled[w]
    /\ consumer # "none" => \A v \in Values : v <= value[w] => ~Contains(queue, FrameEvent(o, v))
    /\ data' = data \cup {o}
    /\ cache' = [cache EXCEPT ![o] = value[w]]
    /\ deferred' = [deferred EXCEPT ![o] = <<>>]
    /\ \E now \in {{}, {o} \cap RangeObjects} : attempted' = attempted \cup now
    /\ pc' = [pc EXCEPT ![w] = "notifying"]
    /\ UNCHANGED <<stopVars, registered, home, cancelled, job, todo, value, pendingSetups,
                   listed, seen, announced, envVars, queue, consumer>>

(* The setup resumes with valid property maps: the object is registered,    *)
(* the deferred frames are applied in order, and its range may be set.  The *)
(* event of a response is processed before its caller resumes, since the    *)
(* caller is woken through one more future than the consumer.               *)
Register(w) ==
    LET o == job[w] IN
    /\ pc[w] = "read" /\ ~cancelled[w]
    /\ consumer # "none" => \A v \in Values : v <= value[w] => ~Contains(queue, FrameEvent(o, v))
    /\ data' = data \cup {o}
    /\ cache' = [cache EXCEPT ![o] = IF deferred[o] = <<>> THEN value[w]
                                                            ELSE Last(deferred[o])]
    /\ deferred' = [deferred EXCEPT ![o] = <<>>]
    /\ \E now \in {{}, {o} \cap RangeObjects} : attempted' = attempted \cup now
    /\ pc' = [pc EXCEPT ![w] = "notifying"]
    /\ UNCHANGED <<stopVars, registered, home, cancelled, job, todo, value, pendingSetups,
                   listed, seen, announced, envVars, queue, consumer>>

(* A GET was not answered, the client stopped, or a map is invalid. *)
SetupFails(w) ==
    /\ pc[w] \in {"reading", "read"} /\ ~cancelled[w]
    /\ Continue(w, pendingSetups \ {job[w]})
    /\ UNCHANGED <<stopVars, cancelled, data, cache, seen, announced, envVars, queue, consumer>>

(* The SetC for the range and the INF_REQ are done: DeviceAdded. *)
SetupDone(w) ==
    /\ pc[w] = "notifying" /\ ~cancelled[w]
    /\ announced' = [announced EXCEPT ![job[w]] = @ + 1]
    /\ Continue(w, pendingSetups \ {job[w]})
    /\ UNCHANGED <<stopVars, cancelled, data, cache, seen, envVars, queue, consumer>>

(* The INF_REQ raises (the client stopped): the object stays in data but    *)
(* is not announced.                                                        *)
NotifyFails(w) ==
    /\ pc[w] = "notifying" /\ ~cancelled[w]
    /\ Continue(w, pendingSetups \ {job[w]})
    /\ UNCHANGED <<stopVars, cancelled, data, cache, seen, announced, envVars, queue, consumer>>

RecoveryDone(w) ==
    /\ pc[w] = "recovering" /\ ~cancelled[w]
    /\ Continue(w, pendingSetups)
    /\ UNCHANGED <<stopVars, cancelled, data, cache, seen, announced, envVars, queue, consumer>>

(* A cancelled worker ends.  One that never ran does so without its finally. *)
(* The consumer, woken before async_stop() ran, is ahead of it.             *)
CancelledEnds(w) ==
    /\ cancelled[w] /\ pc[w] # "none"
    /\ pc[w] # "ready" /\ consumer # "none" => queue = <<>>
    /\ cancelled' = [cancelled EXCEPT ![w] = FALSE]
    /\ IF pc[w] = "ready"
         THEN Vanish(w)
         ELSE /\ End(w)
              /\ pendingSetups' = IF pc[w] = "recovering" THEN pendingSetups
                                  ELSE pendingSetups \ {job[w]}
    /\ UNCHANGED <<stopVars, listed, data, cache, attempted, seen, announced,
                   envVars, queue, consumer>>

-----------------------------------------------------------------------------
(* async_stop() and async_start().                                          *)

Live(w) == pc[w] # "none"

(* Its end: the consumer is cancelled and its events are thrown away. *)
StopConsumer ==
    /\ stopping' = "no"
    /\ consumer' = "none"
    /\ queue' = <<>>
    /\ refreshing' = FALSE

(* After the workers: the tables are cleared, the refreshes cancelled. *)
StopRefreshes ==
    /\ registered' = [n \in Nodes |-> None]
    /\ deferred' = [o \in Objects |-> <<>>]
    /\ leaked' = (leaked \/ \E w \in Workers : Live(w))
    /\ IF refreshing
         THEN stopping' = "refreshes" /\ UNCHANGED <<consumer, queue, refreshing>>
         ELSE StopConsumer

(* async_stop() up to its first await. *)
Stop ==
    /\ consumer # "none" /\ stopping = "no" /\ stops < MaxStops
    /\ stops' = stops + 1
    /\ subscribed' = FALSE
    /\ gathered' = {registered[n] : n \in Nodes} \ {None}
    /\ cancelled' = [w \in Workers |-> cancelled[w] \/ w \in gathered']
    /\ IF gathered' # {}
         THEN /\ stopping' = "workers"
              /\ UNCHANGED <<consumer, queue, refreshing, registered, deferred, leaked>>
         ELSE StopRefreshes
    /\ UNCHANGED <<home, pc, job, todo, value, pendingSetups, listed, data, cache,
                   attempted, seen, announced, envVars>>

(* The gather of the workers returns.  By then the consumer has processed   *)
(* what was in its queue and the workers it created have begun.             *)
StopWorkersEnded ==
    /\ stopping = "workers"
    /\ \A w \in gathered : pc[w] = "none"
    /\ queue = <<>>
    /\ \A w \in Workers : pc[w] # "ready"
    /\ gathered' = {}
    /\ StopRefreshes
    /\ UNCHANGED <<subscribed, stops, home, pc, cancelled, job, todo, value, pendingSetups,
                   listed, data, cache, attempted, seen, announced, envVars>>

(* The gather of the refreshes returns. *)
StopRefreshesEnded ==
    /\ stopping = "refreshes"
    /\ queue = <<>>
    /\ \A w \in Workers : pc[w] # "ready"
    /\ StopConsumer
    /\ leaked' = (leaked \/ \E w \in Workers : Live(w))
    /\ UNCHANGED <<subscribed, stops, gathered, taskVars, dataVars, envVars>>

Start ==
    /\ consumer = "none" /\ stopping = "no"
    /\ subscribed' = TRUE /\ consumer' = "waiting"
    /\ UNCHANGED <<stopping, stops, gathered, refreshing, leaked, taskVars, dataVars, envVars,
                   queue>>

(* A SetC with refresh=True schedules a read-back; it ends by itself. *)
Refresh ==
    /\ Refreshing /\ (refreshing \/ data # {})
    /\ stopping # "refreshes"
    /\ refreshing' = ~refreshing
    /\ UNCHANGED <<subscribed, stopping, stops, gathered, leaked, taskVars, dataVars,
                   envVars, queue, consumer>>

-----------------------------------------------------------------------------
Consume ==
    \/ \E n \in Nodes : ConsumeList(n)
    \/ \E o \in Objects, v \in Values : ConsumeFrame(o, v) \/ DeferFrame(o, v)

(* The consumer does not suspend while it runs. *)
Suspended == consumer # "running"

Work(w) ==
    /\ Suspended
    /\ \/ Begin(w) \/ BeginForgotten(w) \/ Register(w) \/ SetupFails(w) \/ SetupDone(w) \/ NotifyFails(w)
       \/ RecoveryDone(w) \/ CancelledEnds(w)

StopGoesOn == Suspended /\ (StopWorkersEnded \/ StopRefreshesEnded)

Next ==
    \/ Consume
    \/ \E w \in Workers : Work(w)
    \/ StopGoesOn
    \/ /\ Suspended
       /\ \/ \E n \in Nodes : InstanceListArrives(n)
          \/ \E o \in Objects : ValueChanges(o)
          \/ \E w \in Workers : SetupAnswered(w)
          \/ Stop \/ Start \/ Refresh

Spec == Init /\ [][Next]_vars

(* The event loop runs on while some task can run, and every request that a *)
(* worker awaits ends (EveryRequestEnds of RequestQueue).                   *)
FairSpec == Spec /\ WF_vars(Consume \/ (\E w \in Workers : Work(w)) \/ StopGoesOn)

-----------------------------------------------------------------------------
(* Properties.                                                              *)

SettingUp(w) == pc[w] \in {"reading", "read", "notifying"}

(* The cache of a registered object is never older than the last frame the  *)
(* consumer took (the values of a device only grow): no frame received      *)
(* during its setup is lost, or overtaken by what the setup read earlier    *)
(* (process_frame_event, _apply_deferred_frames).  Frames that arrive while *)
(* a worker that async_stop() left behind sets up an object are not kept.   *)
CacheIsCurrent == ~leaked => \A o \in data : cache[o] >= seen[o]

(* Frames are kept only for an object whose node has a worker, and not once *)
(* it is registered: none is left over for a later setup to apply (the      *)
(* finally of _run_node_jobs), even when workers survive async_stop().      *)
DeferredIsTransient ==
    \A o \in Objects : deferred[o] # <<>> => o \notin data /\ registered[NodeOf(o)] # None

(* An object is set up by one worker at a time (_pending_setups), and is    *)
(* marked exactly while it is, even when workers survive async_stop().      *)
SetupIsExclusive ==
    /\ \A w, u \in Workers : SettingUp(w) /\ SettingUp(u) /\ job[w] = job[u] => w = u
    /\ pendingSetups = {job[w] : w \in {u \in Workers : SettingUp(u)}}

(* DeviceAdded is emitted at most once for an object, and only for one that *)
(* is in data (process_instance_list_event).                                *)
AnnouncedOnce == \A o \in Objects : announced[o] <= IF o \in data THEN 1 ELSE 0

(* ADR-0011: the jobs of one node run one after the other, through every    *)
(* stop and restart that leaves no worker behind.                           *)
NodeIsSerial ==
    ~leaked => \A w, u \in Workers : Live(w) /\ Live(u) /\ home[w] = home[u] => w = u

(* "Stopping the manager cancels setup still in progress": once             *)
(* async_stop() is done no worker is left (test_async_stop_cancels_node_jobs).*)
StopEndsWorkers == ~consumer # "none" => \A w \in Workers : ~Live(w)

(* Every object of an instance list that the consumer took is set up or at  *)
(* least tried, whatever failed before it in its node, unless the manager   *)
(* is stopped (_run_node_jobs, process_instance_list_event).                *)
ListedIsTried ==
    \A o \in Objects : o \in listed ~> o \notin listed \/ o \in data \/ stops > 0
=============================================================================
