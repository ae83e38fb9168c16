---------------------------- MODULE NodeDiscovery ----------------------------
(***************************************************************************)
(* How the client knows which node is at an address (runtime.py):           *)
(* _process_frame and _handle_node_profile, the frames queued for unknown   *)
(* addresses and the discovery task of such an address, and the life cycle  *)
(* of the client, start() and stop(), with its recurring probe.             *)
(*                                                                         *)
(* A step is what a task, or the handler of one datagram, does between two  *)
(* awaits.  Nodes answer the recurring probe, discoveries and nobody in     *)
(* particular, with any of their identification number (0x83, "id") and     *)
(* instance list (0xD6 or 0xD5, "list").  A frame of a device object is its *)
(* number in the order of reception, and the address it came from.          *)
(***************************************************************************)
EXTENDS Integers, Sequences, FiniteSets, SequencesExt

CONSTANTS Nodes, Addresses,
          Tasks,                \* names for the live discovery tasks, numbers
          MaxFramesPerAddress,  \* _MAX_PENDING_FRAMES_PER_ADDRESS (16)
          MaxPendingAddresses,  \* _MAX_PENDING_ADDRESSES (32)
          Limits,               \* bounds: how many frames of device objects,
                                \* profile frames nobody asked for, changes of
                                \* address, nodes learned about, and stop()s
          None

ASSUME DiscoveryAssumption ==
    /\ None \notin Nodes /\ None \notin Tasks /\ None \notin Addresses
    /\ Tasks \subseteq Nat /\ IsFiniteSet(Addresses)
    /\ MaxFramesPerAddress \in Nat \ {0} /\ MaxPendingAddresses \in Nat \ {0}
    /\ \A l \in Limits :
         l \in [frames : Nat, profiles : Nat, moves : Nat, learned : Nat, stops : Nat]

VARIABLES
    open,       \* _protocol is not None
    loop,       \* _discovery_task is not None
    stopping,   \* where stop() is
    snapshot,   \* the discovery tasks it waits for
    stops,      \* how often it was called
    nodeAt,     \* _device_addresses: the node known at an address, or None
    queued,     \* _pending_frames; an address without an entry has none
    registered, \* _address_discovery_tasks: the task of an address, or None
    learned,    \* nodes with a limit or a manufacturer in _get_capabilities
    pc,         \* where a discovery task is
    at,         \* its address
    left,       \* the EPCs it has not read
    reply,      \* the EPCs in the response it was sent, or {}
    cancelled,  \* it was cancelled and has not run since
    position,   \* the address a node really has, or None
    limits,     \* one of Limits
    frames, profiles, moves, \* counters of what the environment did
    out,        \* history: the events dispatched in the last step
    last,       \* history: the last frame dispatched of an address
    late,       \* history: addresses with a frame queued after their discovery
                \* ended and before its callback ran
    lone        \* history: addresses identified without an instance list
                \* while frames were queued

taskVars == <<registered, pc, at, left>>
answerVars == <<reply, cancelled>>
lifeVars == <<open, loop, stopping, snapshot, stops>>
envVars == <<limits, position, frames, profiles, moves>>
history == <<out, last, late, lone>>
vars == <<lifeVars, taskVars, answerVars, nodeAt, queued, learned, envVars, history>>

EPCs == {"id", "list"}
Frames == [no : 1..limits.frames, at : Addresses]
ListEvent(n, m) == [kind |-> "list", node |-> n, instances |-> m]
FrameEvent(n, f) == [kind |-> "frame", node |-> n, frame |-> f]
Events == {ListEvent(n, m) : n, m \in Nodes} \cup {FrameEvent(n, f) : n \in Nodes, f \in Frames}

TypeOK ==
    /\ open \in BOOLEAN /\ loop \in BOOLEAN
    /\ stopping \in {"no", "tasks", "loop"}
    /\ snapshot \subseteq Tasks /\ stops \in 0..limits.stops
    /\ nodeAt \in [Addresses -> Nodes \cup {None}]
    /\ queued \in [Addresses -> Seq(Frames)]
    /\ \A a \in Addresses : Len(queued[a]) <= MaxFramesPerAddress
    /\ Cardinality({a \in Addresses : queued[a] # <<>>}) <= MaxPendingAddresses
    /\ registered \in [Addresses -> Tasks \cup {None}]
    /\ learned \subseteq Nodes
    /\ pc \in [Tasks -> {"none", "new", "asking", "ended"}]
    /\ at \in [Tasks -> Addresses \cup {None}]
    /\ left \in [Tasks -> SUBSET EPCs] /\ reply \in [Tasks -> SUBSET EPCs]
    /\ cancelled \in [Tasks -> BOOLEAN]
    /\ position \in [Nodes -> Addresses \cup {None}]
    /\ limits \in Limits
    /\ frames \in 0..limits.frames /\ profiles \in 0..limits.profiles /\ moves \in 0..limits.moves
    /\ out \in Seq(Events)
    /\ last \in [Addresses -> 0..limits.frames]
    /\ late \subseteq Addresses /\ lone \subseteq Addresses

Init ==
    /\ open = FALSE /\ loop = FALSE
    /\ stopping = "no" /\ snapshot = {} /\ stops = 0
    /\ nodeAt = [a \in Addresses |-> None]
    /\ queued = [a \in Addresses |-> <<>>]
    /\ registered = [a \in Addresses |-> None]
    /\ learned = {}
    /\ pc = [t \in Tasks |-> "none"]
    /\ at = [t \in Tasks |-> None]
    /\ left = [t \in Tasks |-> {}] /\ reply = [t \in Tasks |-> {}]
    /\ cancelled = [t \in Tasks |-> FALSE]
    /\ position \in [Nodes -> Addresses \cup {None}]
    /\ \A m, n \in Nodes : position[m] = position[n] /\ position[m] # None => m = n
    /\ limits \in Limits
    /\ frames = 0 /\ profiles = 0 /\ moves = 0
    /\ out = <<>> /\ last = [a \in Addresses |-> 0]
    /\ late = {} /\ lone = {}

-----------------------------------------------------------------------------
(* Frames.                                                                  *)

Live(t) == pc[t] \in {"new", "asking"}

(* Events that a datagram from address a gives rise to; the frames in them  *)
(* are of that address.                                                     *)
Dispatch(events, a) ==
    LET e == events[Len(events)] IN
    /\ out' = events
    /\ last' = [last EXCEPT ![a] = IF e.kind = "frame" THEN e.frame.no ELSE @]

Silent == out' = <<>> /\ last' = last

(* At most one task is registered for an address; a new one gets the first  *)
(* name that is not in use.                                                 *)
Unused(t) == pc[t] = "none" /\ \A s \in Tasks : s < t => pc[s] # "none"

Schedule(a) ==
    IF registered[a] # None THEN UNCHANGED taskVars
    ELSE \E t \in Tasks :
         /\ Unused(t)
         /\ registered' = [registered EXCEPT ![a] = t]
         /\ pc' = [pc EXCEPT ![t] = "new"]
         /\ at' = [at EXCEPT ![t] = a]
         /\ left' = [left EXCEPT ![t] = EPCs]

(* Mutant of Room: one frame too many. *)
RoomForOneMore(frameSeq) ==
    IF Len(frameSeq) > MaxFramesPerAddress THEN Tail(frameSeq) ELSE frameSeq

(* The oldest frame goes when the newest has no room. *)
Room(frameSeq) ==
    IF Len(frameSeq) >= MaxFramesPerAddress THEN Tail(frameSeq) ELSE frameSeq

(* A new address is turned away when there are too many; of an address, the *)
(* oldest frame is dropped.                                                 *)
QueueUnknown(f, a) ==
    LET waiting == {b \in Addresses : queued[b] # <<>>} IN
    IF a \notin waiting /\ Cardinality(waiting) >= MaxPendingAddresses
    THEN UNCHANGED <<queued, taskVars, late>>
    ELSE /\ queued' = [queued EXCEPT ![a] = Append(Room(@), f)]
         /\ Schedule(a)
         /\ late' = IF registered[a] # None /\ ~Live(registered[a])
                    THEN late \cup {a} ELSE late \ {a}

(* A notification or response of a device object of n.  (Whether it answers *)
(* a pending request is RequestQueue; an INFC is confirmed as well, which   *)
(* changes nothing here; requests of others are ignored.)                   *)
ReceiveFrame(n) ==
    LET a == position[n]
        f == [no |-> frames + 1, at |-> a]
    IN
    /\ open /\ a # None /\ frames < limits.frames
    /\ frames' = frames + 1
    /\ IF nodeAt[a] = None
         THEN QueueUnknown(f, a) /\ Silent
         ELSE Dispatch(<<FrameEvent(nodeAt[a], f)>>, a) /\ UNCHANGED <<queued, taskVars, late>>
    /\ UNCHANGED <<lifeVars, answerVars, nodeAt, learned, limits, position,
                   profiles, moves, lone>>

(* forceput: neither the node nor the address keeps another partner.        *)
Known(n, a, epcs) ==
    IF "id" \in epcs
    THEN [b \in Addresses |-> IF b = a THEN n ELSE IF nodeAt[b] = n THEN None ELSE nodeAt[b]]
    ELSE nodeAt

(* Mutant of Forgotten: the learned limits stay. *)
ForgottenNot(n, a, epcs) == learned

(* The node that was known at the address loses what was learned about it.  *)
Forgotten(n, a, epcs) ==
    IF "id" \in epcs /\ nodeAt[a] # n THEN learned \ {nodeAt[a]} ELSE learned

(* Mutant of Taken: the frames are read and not taken out. *)
TakenNot(a) == queued

Taken(a) == [queued EXCEPT ![a] = <<>>]

Replay(n, a) == [i \in DOMAIN queued[a] |-> FrameEvent(n, queued[a][i])]

(* Mutant of Announce: the queued frames come first. *)
AnnounceLast(n, a, m) == Append(Replay(n, a), ListEvent(n, m))

(* The queued frames follow the list, that of m, which goes to node n.      *)
Announce(n, a, m) == <<ListEvent(n, m)>> \o Replay(n, a)

(* _handle_node_profile, for a frame of n with values for these EPCs; the   *)
(* pending frames stay if it is identified without an instance list.        *)
Profile(n, epcs) ==
    LET a == position[n]
        node == Known(n, a, epcs)[a]
    IN
    /\ nodeAt' = Known(n, a, epcs)
    /\ learned' = Forgotten(n, a, epcs)
    /\ IF node = None
         THEN Schedule(a) /\ Silent /\ UNCHANGED <<queued, lone, late>>
       ELSE IF "list" \notin epcs
         THEN /\ UNCHANGED <<queued, taskVars, late>>
              /\ Silent
              /\ lone' = IF queued[a] # <<>> THEN lone \cup {a} ELSE lone
       ELSE /\ Dispatch(Announce(node, a, n), a)
            /\ queued' = Taken(a)
            /\ lone' = lone \ {a} /\ late' = late \ {a}
            /\ UNCHANGED taskVars

(* A node reports by itself or answers a probe.                             *)
ReceiveProfile(n) ==
    /\ open /\ position[n] # None /\ profiles < limits.profiles
    /\ profiles' = profiles + 1
    /\ \E epcs \in SUBSET EPCs : Profile(n, epcs)
    /\ UNCHANGED <<lifeVars, answerVars, limits, position, frames, moves>>

(* A node answers the request of a discovery task: matched EPCs are in the  *)
(* response, valued ones have a value.                                      *)
Answer(t) ==
    /\ open /\ pc[t] = "asking" /\ reply[t] = {}
    /\ \E n \in Nodes, matched \in (SUBSET left[t]) \ {{}} : \E valued \in SUBSET matched :
         /\ position[n] = at[t]
         /\ Profile(n, valued)
         /\ reply' = [reply EXCEPT ![t] = matched]
    /\ UNCHANGED <<lifeVars, cancelled, envVars>>

-----------------------------------------------------------------------------
(* Discovery tasks: _discover_address and its done callback.                *)

(* The finally: frames of an address that is still unknown are dropped.     *)
Discard(a) ==
    IF nodeAt[a] = None
    THEN /\ queued' = Taken(a)
         /\ late' = late \ {a} /\ lone' = lone \ {a}
    ELSE UNCHANGED <<queued, late, lone>>

End(t) ==
    /\ pc' = [pc EXCEPT ![t] = "ended"]
    /\ reply' = [reply EXCEPT ![t] = {}]
    /\ Discard(at[t])
    /\ UNCHANGED left

TaskFrame(t) ==
    /\ Silent
    /\ UNCHANGED <<lifeVars, registered, at, cancelled, nodeAt, learned, envVars>>

(* It asks for what is left; a closed client sends nothing.                 *)
Ask(t) ==
    IF open THEN pc' = [pc EXCEPT ![t] = "asking"] /\ UNCHANGED <<queued, late, lone>>
            ELSE pc' = [pc EXCEPT ![t] = "ended"] /\ Discard(at[t])

TaskBegins(t) ==
    /\ pc[t] = "new" /\ ~cancelled[t]
    /\ Ask(t)
    /\ UNCHANGED <<left, reply>>
    /\ TaskFrame(t)

(* What the response left out is asked for again (_run_get_batches).        *)
TaskAnswered(t) ==
    /\ pc[t] = "asking" /\ reply[t] # {} /\ ~cancelled[t]
    /\ IF reply[t] = left[t]
         THEN End(t)
         ELSE /\ left' = [left EXCEPT ![t] = @ \ reply[t]]
              /\ reply' = [reply EXCEPT ![t] = {}]
              /\ Ask(t)
    /\ TaskFrame(t)

(* The request could not be sent, timed out or was failed by stop(), or the *)
(* task was cancelled.                                                      *)
TaskGivesUp(t) ==
    /\ pc[t] = "asking"
    /\ reply[t] = {} \/ cancelled[t]
    /\ End(t)
    /\ TaskFrame(t)

(* Cancelled before it began: its try and its finally are never entered.    *)
TaskNeverBegins(t) ==
    /\ pc[t] = "new" /\ cancelled[t]
    /\ pc' = [pc EXCEPT ![t] = "ended"]
    /\ UNCHANGED <<queued, late, lone, left, reply>>
    /\ TaskFrame(t)

(* Mutant of Callback: whichever task is registered is removed. *)
CallbackAnyway(t) ==
    /\ pc[t] = "ended"
    /\ pc' = [pc EXCEPT ![t] = "none"]
    /\ registered' = [registered EXCEPT ![at[t]] = None]
    /\ at' = [at EXCEPT ![t] = None]
    /\ left' = [left EXCEPT ![t] = {}]
    /\ snapshot' = snapshot \ {t}
    /\ cancelled' = [cancelled EXCEPT ![t] = FALSE]
    /\ Silent
    /\ UNCHANGED <<open, loop, stopping, stops, reply, nodeAt, queued, learned, envVars,
                   late, lone>>

(* done_callback, a turn of the event loop later; stop() may wait for it.   *)
Callback(t) ==
    /\ pc[t] = "ended"
    /\ pc' = [pc EXCEPT ![t] = "none"]
    /\ registered' = [registered EXCEPT ![at[t]] = IF @ = t THEN None ELSE @]
    /\ at' = [at EXCEPT ![t] = None]
    /\ left' = [left EXCEPT ![t] = {}]
    /\ snapshot' = snapshot \ {t}
    /\ cancelled' = [cancelled EXCEPT ![t] = FALSE]
    /\ Silent
    /\ UNCHANGED <<open, loop, stopping, stops, reply, nodeAt, queued, learned, envVars,
                   late, lone>>

-----------------------------------------------------------------------------
(* Life cycle.                                                              *)

(* The requests that have no response fail (RequestQueue), so that the tasks *)
(* waiting for one give up.                                                 *)
Close == open' = FALSE /\ stopping' = "no"

ClearTables ==
    /\ registered' = [a \in Addresses |-> None]
    /\ queued' = [a \in Addresses |-> <<>>]
    /\ learned' = {}
    /\ late' = {} /\ lone' = {}

(* The tables are cleared; then a running loop is cancelled and awaited.    *)
Clear ==
    /\ ClearTables
    /\ IF open /\ loop
         THEN stopping' = "loop" /\ UNCHANGED open
         ELSE Close
    /\ Silent
    /\ UNCHANGED <<loop, nodeAt, pc, at, left, reply, envVars>>

(* stop() waits for the tasks that are registered, or clears at once.       *)
Stop ==
    LET mine == {registered[a] : a \in Addresses} \ {None} IN
    /\ stopping = "no" /\ stops < limits.stops
    /\ stops' = stops + 1
    /\ IF mine = {} THEN Clear /\ UNCHANGED <<snapshot, cancelled>>
       ELSE /\ stopping' = "tasks"
            /\ snapshot' = mine
            /\ cancelled' = [t \in Tasks |-> cancelled[t] \/ (t \in mine /\ Live(t))]
            /\ Silent
            /\ UNCHANGED <<open, loop, registered, pc, at, left, reply, nodeAt, queued,
                           learned, envVars, late, lone>>

StopTasksEnded ==
    /\ stopping = "tasks" /\ snapshot = {}
    /\ Clear
    /\ UNCHANGED <<snapshot, stops, cancelled>>

StopLoopEnded ==
    /\ stopping = "loop"
    /\ loop' = FALSE
    /\ Close
    /\ Silent
    /\ UNCHANGED <<snapshot, stops, registered, pc, at, left, reply, cancelled, nodeAt,
                   queued, learned, envVars, late, lone>>

(* start(): the socket is created, which takes turns in which whatever      *)
(* stop() failed comes to its end; when the first probe cannot be sent, it  *)
(* stops again, without anything to wait for.                               *)
Start ==
    /\ ~open /\ stopping = "no" /\ \A t \in Tasks : pc[t] = "none"
    /\ \/ open' = TRUE /\ loop' = TRUE /\ UNCHANGED <<registered, queued, learned, late, lone>>
       \/ ClearTables /\ UNCHANGED <<open, loop>>
    /\ Silent
    /\ UNCHANGED <<stopping, snapshot, stops, pc, at, left, answerVars, nodeAt, envVars>>

-----------------------------------------------------------------------------
(* Other requests, and the network.                                         *)

(* A GET or setup of a node with an address learns something about it.      *)
Learn(n) ==
    /\ open /\ \E a \in Addresses : nodeAt[a] = n
    /\ n \notin learned /\ Cardinality(learned) < limits.learned
    /\ learned' = learned \cup {n}
    /\ Silent
    /\ UNCHANGED <<lifeVars, taskVars, answerVars, nodeAt, queued, envVars, late, lone>>

(* A node leaves, or gets an address, that of another node possibly, which  *)
(* then has none.                                                           *)
Move(n) ==
    /\ moves < limits.moves
    /\ moves' = moves + 1
    /\ \E a \in Addresses \cup {None} :
         /\ a # position[n]
         /\ position' = [m \in Nodes |->
              IF m = n THEN a ELSE IF position[m] = a THEN None ELSE position[m]]
    /\ Silent
    /\ UNCHANGED <<lifeVars, taskVars, answerVars, nodeAt, queued, learned, limits, frames,
                   profiles, late, lone>>

TaskStep(t) ==
    \/ TaskBegins(t) \/ TaskAnswered(t) \/ TaskGivesUp(t) \/ TaskNeverBegins(t)
    \/ Callback(t)

Next ==
    \/ \E n \in Nodes : ReceiveFrame(n) \/ ReceiveProfile(n) \/ Learn(n) \/ Move(n)
    \/ \E t \in Tasks : Answer(t) \/ TaskStep(t)
    \/ Stop \/ StopTasksEnded \/ StopLoopEnded \/ Start

Spec == Init /\ [][Next]_vars

-----------------------------------------------------------------------------
(* Properties.                                                              *)

(* The address map stays one to one, and what was learned about a node is   *)
(* kept only as long as the node has an address: when another node turns up *)
(* at its address, a limit learned there is not taken for that of a node    *)
(* that may come back with another firmware or as another device.           *)
AddressBook ==
    /\ \A a, b \in Addresses : nodeAt[a] = nodeAt[b] /\ nodeAt[a] # None => a = b
    /\ \A n \in learned : \E a \in Addresses : nodeAt[a] = n

(* Frames queued for an unknown address are being looked after: a discovery *)
(* of the address is registered and alive, so that they are replayed or     *)
(* discarded.  The exceptions are a frame that came between the end of a    *)
(* discovery and its callback, and frames of an address that was identified *)
(* without its instance list and lost again.                                *)
QueuedIsSought ==
    \A a \in Addresses :
        /\ queued[a] # <<>> /\ nodeAt[a] = None /\ stopping # "tasks"
        /\ a \notin late \cup lone
        => registered[a] # None /\ Live(registered[a]) /\ at[registered[a]] = a

(* The frames from an address are dispatched in the order of reception, and *)
(* none twice, queued or not; unless its node was identified without the    *)
(* instance list, when the queued frames follow later ones.                 *)
InOrder ==
    [][\A i \in DOMAIN out' :
         out'[i].kind = "frame" /\ out'[i].frame.at \notin lone =>
            /\ out'[i].frame.no > last[out'[i].frame.at]
            /\ \A j \in 1..(i - 1) :
                 out'[j].kind = "frame" => out'[j].frame.no < out'[i].frame.no]_<<out, last>>

(* A frame that was queued is dispatched only behind an instance list of    *)
(* its node, from which its device object is registered.                    *)
ReplayFollowsList ==
    [][\A i \in DOMAIN out' :
         /\ out'[i].kind = "frame"
         /\ \E a \in Addresses : out'[i].frame \in ToSet(queued[a])
         => \E j \in 1..(i - 1) :
              out'[j].kind = "list" /\ out'[j].node = out'[i].node]_out

(* An instance list is announced as that of the node that sent it.          *)
ListIsOwn ==
    \A i \in DOMAIN out : out[i].kind = "list" => out[i].instances = out[i].node
=============================================================================
