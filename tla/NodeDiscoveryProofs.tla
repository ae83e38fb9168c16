-------------------------- MODULE NodeDiscoveryProofs --------------------------
(***************************************************************************)
(* Theorems about NodeDiscovery for any number of nodes, addresses, tasks   *)
(* and frames.                                                              *)
(***************************************************************************)
EXTENDS NodeDiscovery, FiniteSetTheorems, SequenceTheorems, TLAPS

(* The task registered for an address is one of that address; only stop()   *)
(* cancels tasks, and it waits for those it cancelled.                      *)
TasksInv ==
    /\ \A a \in Addresses : registered[a] # None =>
         at[registered[a]] = a /\ pc[registered[a]] # "none"
    /\ \A t \in Tasks : pc[t] # "none" => at[t] # None
    /\ \A t \in Tasks : cancelled[t] => t \in snapshot /\ stopping = "tasks"

(* The frames queued for an address are its own, in the order in which they *)
(* came, behind those that were dispatched, and of a known address there    *)
(* are none, with the one exception.                                        *)
QueuedAre(a) ==
    /\ nodeAt[a] # None /\ queued[a] # <<>> => a \in lone
    /\ \A i \in 1..Len(queued[a]) :
         /\ queued[a][i].at = a
         /\ queued[a][i].no <= frames
         /\ a \notin lone => last[a] < queued[a][i].no
         /\ \A j \in 1..(i - 1) : queued[a][j].no < queued[a][i].no

FramesInv == \A a \in Addresses : last[a] <= frames /\ QueuedAre(a)

DiscoveryInv == TypeOK /\ TasksInv /\ AddressBook /\ FramesInv /\ QueuedIsSought

-----------------------------------------------------------------------------
(* Scheduling: an address has one task afterwards, and no other task is     *)
(* affected.                                                                *)
LEMMA ScheduleFacts ==
    ASSUME TypeOK, TasksInv, NEW a \in Addresses, Schedule(a)
    PROVE  /\ registered' \in [Addresses -> Tasks \cup {None}]
           /\ pc' \in [Tasks -> {"none", "new", "asking", "ended"}]
           /\ at' \in [Tasks -> Addresses \cup {None}]
           /\ left' \in [Tasks -> SUBSET EPCs]
           /\ registered'[a] # None
           /\ \A b \in Addresses : registered[b] # None => registered'[b] = registered[b]
           /\ \A b \in Addresses \ {a} : registered'[b] = registered[b]
           /\ registered[a] = None => pc'[registered'[a]] = "new"
           /\ \A t \in Tasks : pc[t] # "none" => pc'[t] = pc[t] /\ at'[t] = at[t]
           /\ \A b \in Addresses : registered'[b] # None =>
                at'[registered'[b]] = b /\ pc'[registered'[b]] # "none"
           /\ \A t \in Tasks : pc'[t] # "none" => at'[t] # None
  <1>1. CASE registered[a] # None
    BY <1>1 DEF Schedule, TypeOK, TasksInv, taskVars
  <1>2. CASE registered[a] = None
    <2>1. PICK t \in Tasks :
            /\ pc[t] = "none"
            /\ registered' = [registered EXCEPT ![a] = t]
            /\ pc' = [pc EXCEPT ![t] = "new"]
            /\ at' = [at EXCEPT ![t] = a]
            /\ left' = [left EXCEPT ![t] = EPCs]
      BY <1>2 DEF Schedule, Unused
    <2>2. t # None /\ a # None
      BY DiscoveryAssumption
    <2>3. /\ registered' \in [Addresses -> Tasks \cup {None}]
          /\ pc' \in [Tasks -> {"none", "new", "asking", "ended"}]
          /\ at' \in [Tasks -> Addresses \cup {None}]
          /\ left' \in [Tasks -> SUBSET EPCs]
      BY <2>1 DEF TypeOK
    <2>4. /\ registered'[a] = t /\ pc'[t] = "new" /\ at'[t] = a
          /\ \A b \in Addresses \ {a} : registered'[b] = registered[b]
          /\ \A s \in Tasks \ {t} : pc'[s] = pc[s] /\ at'[s] = at[s]
      BY <2>1 DEF TypeOK
    <2>5. \A b \in Addresses \ {a} : registered'[b] # None =>
            at'[registered'[b]] = b /\ pc'[registered'[b]] # "none"
      <3> SUFFICES ASSUME NEW b \in Addresses \ {a}, registered'[b] # None
                   PROVE  at'[registered'[b]] = b /\ pc'[registered'[b]] # "none"
        OBVIOUS
      <3>1. registered[b] \in Tasks /\ at[registered[b]] = b /\ pc[registered[b]] # "none"
        BY <2>4 DEF TypeOK, TasksInv
      <3>2. registered[b] # t
        BY <2>1, <3>1
      <3> QED BY <2>4, <3>1, <3>2
    <2>6. \A s \in Tasks : pc'[s] # "none" => at'[s] # None
      BY <2>2, <2>4 DEF TasksInv
    <2> QED BY <1>2, <2>1, <2>2, <2>3, <2>4, <2>5, <2>6
  <1> QED BY <1>1, <1>2

(* An address whose task is scheduled is sought, the others as before.      *)
LEMMA ScheduledIsSought ==
    ASSUME TypeOK, TasksInv, QueuedIsSought, NEW a \in Addresses, Schedule(a),
           \A b \in Addresses \ {a} : queued'[b] = queued[b],
           late \subseteq late' \cup {a}, lone \subseteq lone' \cup {a},
           registered[a] # None /\ ~Live(registered[a]) =>
             a \in late' \cup lone' \/ queued'[a] = <<>> \/ stopping = "tasks",
           UNCHANGED <<nodeAt, stopping>>
    PROVE  QueuedIsSought'
  <1> SUFFICES ASSUME NEW b \in Addresses,
                      queued'[b] # <<>>, nodeAt'[b] = None, stopping' # "tasks",
                      b \notin late' \cup lone'
               PROVE  registered'[b] # None /\ Live(registered[b])' /\ at'[registered'[b]] = b
    BY DEF QueuedIsSought, Live
  <1>1. ASSUME registered[b] # None, Live(registered[b])
        PROVE  registered'[b] # None /\ Live(registered[b])' /\ at'[registered'[b]] = b
    <2>1. registered'[b] = registered[b] /\ registered[b] \in Tasks
      BY <1>1, ScheduleFacts DEF TypeOK
    <2>2. at'[registered'[b]] = b /\ pc'[registered[b]] = pc[registered[b]]
      BY <1>1, <2>1, ScheduleFacts DEF Live
    <2> QED BY <1>1, <2>1, <2>2 DEF Live
  <1>2. CASE b # a
    BY <1>1, <1>2 DEF QueuedIsSought
  <1>3. CASE b = a /\ registered[a] # None
    BY <1>1, <1>3
  <1>4. CASE b = a /\ registered[a] = None
    BY <1>4, ScheduleFacts DEF Live
  <1> QED BY <1>2, <1>3, <1>4

(* A frame that is queued comes last, and both limits are kept.             *)
LEMMA QueueFacts ==
    ASSUME TypeOK, NEW f \in Frames, NEW a \in Addresses,
           a \in {b \in Addresses : queued[b] # <<>>}
           \/ Cardinality({b \in Addresses : queued[b] # <<>>}) < MaxPendingAddresses,
           queued' = [queued EXCEPT ![a] = Append(Room(@), f)], UNCHANGED limits
    PROVE  /\ queued' \in [Addresses -> Seq(Frames)]
           /\ \A b \in Addresses : Len(queued'[b]) <= MaxFramesPerAddress
           /\ Cardinality({b \in Addresses : queued'[b] # <<>>}) <= MaxPendingAddresses
           /\ \A b \in Addresses \ {a} : queued'[b] = queued[b]
           /\ queued'[a] = Append(Room(queued[a]), f)
           /\ queued'[a] # <<>>
  <1> DEFINE waiting == {b \in Addresses : queued[b] # <<>>}
  <1>1. queued[a] \in Seq(Frames) /\ Len(queued[a]) <= MaxFramesPerAddress
        /\ MaxFramesPerAddress \in Nat \ {0}
    BY DiscoveryAssumption DEF TypeOK
  <1>2. Room(queued[a]) \in Seq(Frames) /\ Len(Room(queued[a])) <= MaxFramesPerAddress - 1
    <2>1. CASE Len(queued[a]) >= MaxFramesPerAddress
      <3>1. queued[a] # <<>>
        BY <1>1, <2>1
      <3> QED BY <1>1, <2>1, <3>1, HeadTailProperties DEF Room
    <2>2. CASE ~(Len(queued[a]) >= MaxFramesPerAddress)
      BY <1>1, <2>2, LenProperties DEF Room
    <2> QED BY <2>1, <2>2
  <1>3. /\ queued'[a] = Append(Room(queued[a]), f)
        /\ \A b \in Addresses \ {a} : queued'[b] = queued[b]
        /\ DOMAIN queued' = Addresses /\ queued' = [b \in Addresses |-> queued'[b]]
    BY DEF TypeOK
  <1>4. /\ queued'[a] \in Seq(Frames) /\ queued'[a] # <<>>
        /\ Len(queued'[a]) <= MaxFramesPerAddress
    BY <1>1, <1>2, <1>3
  <1>5. queued' \in [Addresses -> Seq(Frames)]
    BY <1>3, <1>4 DEF TypeOK
  <1>6. \A b \in Addresses : Len(queued'[b]) <= MaxFramesPerAddress
    BY <1>3, <1>4 DEF TypeOK
  <1>7. Cardinality({b \in Addresses : queued'[b] # <<>>}) <= MaxPendingAddresses
    <2>1. {b \in Addresses : queued'[b] # <<>>} = waiting \cup {a}
      BY <1>3, <1>4
    <2>2. IsFiniteSet(waiting)
      BY DiscoveryAssumption, FS_Subset
    <2>3. Cardinality(waiting) \in Nat /\ Cardinality(waiting) <= MaxPendingAddresses
          /\ MaxPendingAddresses \in Nat
      BY <2>2, FS_CardinalityType, DiscoveryAssumption DEF TypeOK
    <2>4. Cardinality(waiting \cup {a}) =
            IF a \in waiting THEN Cardinality(waiting) ELSE Cardinality(waiting) + 1
      BY <2>2, FS_AddElement
    <2>5. a \in waiting \/ Cardinality(waiting) < MaxPendingAddresses
      OBVIOUS
    <2>6. Cardinality(waiting \cup {a}) <= MaxPendingAddresses
      <3> HIDE DEF waiting
      <3> QED BY <2>3, <2>4, <2>5
    <2> QED BY <2>1, <2>6
  <1> QED BY <1>3, <1>4, <1>5, <1>6, <1>7

(* Queues that are emptied keep the limits.                                 *)
LEMMA EmptiedFacts ==
    ASSUME TypeOK, UNCHANGED limits, DOMAIN queued' = Addresses,
           queued' = [a \in Addresses |-> queued'[a]],
           \A a \in Addresses : queued'[a] = queued[a] \/ queued'[a] = <<>>
    PROVE  /\ queued' \in [Addresses -> Seq(Frames)]
           /\ \A a \in Addresses : Len(queued'[a]) <= MaxFramesPerAddress
           /\ Cardinality({a \in Addresses : queued'[a] # <<>>}) <= MaxPendingAddresses
  <1> DEFINE waiting == {b \in Addresses : queued[b] # <<>>}
             waitingN == {b \in Addresses : queued'[b] # <<>>}
  <1>0. <<>> \in Seq(Frames) /\ Len(<<>>) = 0 /\ 0 <= MaxFramesPerAddress
    BY DiscoveryAssumption, EmptySeq
  <1>1. \A a \in Addresses : queued'[a] \in Seq(Frames)
                             /\ Len(queued'[a]) <= MaxFramesPerAddress
    BY <1>0 DEF TypeOK
  <1>2. queued' \in [Addresses -> Seq(Frames)]
    BY <1>1
  <1>3. waitingN \subseteq waiting
    OBVIOUS
  <1>4. IsFiniteSet(waiting)
    BY DiscoveryAssumption, FS_Subset
  <1>5. Cardinality(waitingN) <= Cardinality(waiting) /\ Cardinality(waiting) \in Nat
        /\ Cardinality(waitingN) \in Nat
    BY <1>3, <1>4, FS_Subset, FS_CardinalityType
  <1> QED BY <1>1, <1>2, <1>5, DiscoveryAssumption DEF TypeOK

(* The instance list comes first, then the queued frames in their order.    *)
LEMMA AnnounceFacts ==
    ASSUME TypeOK, NEW n \in Nodes, NEW m \in Nodes, NEW a \in Addresses
    PROVE  /\ Announce(n, a, m) \in Seq(Events)
           /\ Len(Announce(n, a, m)) = 1 + Len(queued[a])
           /\ Announce(n, a, m)[1] = ListEvent(n, m)
           /\ \A i \in 1..Len(queued[a]) :
                Announce(n, a, m)[i + 1] = FrameEvent(n, queued[a][i])
  <1> DEFINE list == <<ListEvent(n, m)>>
  <1>1. /\ Len(queued[a]) \in Nat /\ DOMAIN queued[a] = 1..Len(queued[a])
        /\ \A i \in 1..Len(queued[a]) : queued[a][i] \in Frames
    BY LenProperties, ElementOfSeq DEF TypeOK
  <1>2. Replay(n, a) \in [1..Len(queued[a]) -> Events]
    BY <1>1 DEF Replay, Events
  <1>3. Replay(n, a) \in Seq(Events)
    BY <1>1, <1>2, SeqDef
  <1>4. Len(Replay(n, a)) = Len(queued[a])
    BY <1>1, <1>2, <1>3, LenProperties
  <1>5. list \in Seq(Events) /\ Len(list) = 1 /\ list[1] = ListEvent(n, m)
    <2>1. ListEvent(n, m) \in Events
      BY DEF Events
    <2> QED BY <2>1
  <1>6. /\ list \o Replay(n, a) \in Seq(Events)
        /\ Len(list \o Replay(n, a)) = 1 + Len(queued[a])
        /\ \A i \in 1..(1 + Len(queued[a])) : (list \o Replay(n, a))[i] =
             IF i <= 1 THEN list[i] ELSE Replay(n, a)[i - 1]
    <2> HIDE DEF list
    <2> QED BY <1>3, <1>4, <1>5, ConcatProperties
  <1>7. \A i \in 1..Len(queued[a]) : Replay(n, a)[i] = FrameEvent(n, queued[a][i])
    BY <1>1 DEF Replay
  <1>8. (list \o Replay(n, a))[1] = ListEvent(n, m)
    BY <1>1, <1>5, <1>6
  <1>9. \A i \in 1..Len(queued[a]) :
          (list \o Replay(n, a))[i + 1] = FrameEvent(n, queued[a][i])
    <2> SUFFICES ASSUME NEW i \in 1..Len(queued[a])
                 PROVE  (list \o Replay(n, a))[i + 1] = FrameEvent(n, queued[a][i])
      OBVIOUS
    <2>1. i + 1 \in 1..(1 + Len(queued[a])) /\ ~(i + 1 <= 1) /\ (i + 1) - 1 = i
      BY <1>1
    <2> HIDE DEF list
    <2> QED BY <1>6, <1>7, <2>1
  <1> QED BY <1>6, <1>8, <1>9 DEF Announce

(* What a profile frame makes of the address map.                           *)
LEMMA KnownFacts ==
    ASSUME TypeOK, NEW n \in Nodes, NEW a \in Addresses, NEW epcs \in SUBSET EPCs,
           nodeAt' = Known(n, a, epcs)
    PROVE  /\ nodeAt' \in [Addresses -> Nodes \cup {None}]
           /\ nodeAt' # nodeAt => nodeAt'[a] = n
           /\ nodeAt[a] # None => nodeAt'[a] # None
           /\ "id" \in epcs => nodeAt'[a] = n
           /\ \A b \in Addresses \ {a} :
                \/ nodeAt'[b] = nodeAt[b] /\ ("id" \in epcs => nodeAt[b] # n)
                \/ nodeAt'[b] = None /\ nodeAt[b] = n
           /\ "id" \notin epcs => nodeAt' = nodeAt
  BY DiscoveryAssumption DEF Known, TypeOK

(* The address map stays one to one, and nothing is known about nodes       *)
(* outside it.                                                              *)
LEMMA ProfileBook ==
    ASSUME TypeOK, AddressBook, NEW n \in Nodes, NEW a \in Addresses,
           NEW epcs \in SUBSET EPCs,
           nodeAt' = Known(n, a, epcs), learned' = Forgotten(n, a, epcs)
    PROVE  AddressBook' /\ learned' \subseteq Nodes
  <1>1. CASE "id" \notin epcs
    BY <1>1 DEF Known, Forgotten, AddressBook, TypeOK
  <1>2. CASE "id" \in epcs
    <2>1. /\ nodeAt'[a] = n
          /\ \A b \in Addresses \ {a} :
               \/ nodeAt'[b] = nodeAt[b] /\ nodeAt[b] # n
               \/ nodeAt'[b] = None
      BY <1>2, KnownFacts
    <2>2. \A b, c \in Addresses : nodeAt'[b] = nodeAt'[c] /\ nodeAt'[b] # None => b = c
      BY <2>1 DEF AddressBook
    <2>3. ASSUME NEW m \in learned' PROVE m \in Nodes /\ \E b \in Addresses : nodeAt'[b] = m
      <3>1. m \in learned /\ (nodeAt[a] # n => m # nodeAt[a])
        BY <1>2, <2>3 DEF Forgotten
      <3>2. PICK b \in Addresses : nodeAt[b] = m
        BY <3>1 DEF AddressBook
      <3>3. m \in Nodes
        BY <3>1 DEF TypeOK
      <3>4. CASE m = n
        BY <2>1, <3>3, <3>4
      <3>5. CASE m # n
        <4>1. b # a
          BY <3>1, <3>2, <3>5
        <4>2. nodeAt'[b] = m
          BY <1>2, <3>2, <3>5, <4>1 DEF Known
        <4> QED BY <3>3, <4>2
      <3> QED BY <3>4, <3>5
    <2> QED BY <2>2, <2>3 DEF AddressBook
  <1> QED BY <1>1, <1>2

-----------------------------------------------------------------------------
(* A profile frame, whoever asked for it.                                   *)
LEMMA ProfileInv ==
    ASSUME DiscoveryInv, NEW n \in Nodes, NEW epcs \in SUBSET EPCs,
           position[n] # None, Profile(n, epcs),
           UNCHANGED <<lifeVars, cancelled, limits, position, frames, moves>>,
           profiles' \in 0..limits.profiles, reply' \in [Tasks -> SUBSET EPCs]
    PROVE  DiscoveryInv'
  <1> DEFINE a == position[n]
             node == Known(n, a, epcs)[a]
  <1>0. TypeOK /\ TasksInv /\ AddressBook /\ FramesInv /\ QueuedIsSought
    BY DEF DiscoveryInv
  <1>1. a \in Addresses /\ n # None
    BY <1>0, DiscoveryAssumption DEF TypeOK
  <1>2. nodeAt' = Known(n, a, epcs) /\ learned' = Forgotten(n, a, epcs) /\ node = nodeAt'[a]
    BY DEF Profile
  <1>3. /\ nodeAt' \in [Addresses -> Nodes \cup {None}]
        /\ nodeAt[a] # None => nodeAt'[a] # None
        /\ \A b \in Addresses \ {a} :
             nodeAt'[b] = nodeAt[b] \/ (nodeAt'[b] = None /\ nodeAt[b] # None)
        /\ nodeAt'[a] = None => nodeAt' = nodeAt
    BY <1>0, <1>1, <1>2, KnownFacts
  <1>4. AddressBook' /\ learned' \subseteq Nodes
    BY <1>0, <1>1, <1>2, ProfileBook
  <1>5. UNCHANGED <<open, loop, stopping, snapshot, stops>>
    BY DEF lifeVars
  <1>f. Frames' = Frames /\ Events' = Events /\ limits' \in Limits /\ limits'.frames \in Nat
    <2>1. limits' = limits
      OBVIOUS
    <2>2. Frames' = Frames
      BY <2>1 DEF Frames
    <2>3. limits \in Limits /\ limits.frames \in Nat
      BY <1>0, DiscoveryAssumption DEF TypeOK
    <2> QED BY <2>1, <2>2, <2>3 DEF Events
  <1>6. CASE node = None
    <2>1. Schedule(a) /\ Silent /\ UNCHANGED <<queued, lone, late>> /\ nodeAt' = nodeAt
      BY <1>2, <1>3, <1>6 DEF Profile
    <2>2. TypeOK'
      BY <1>0, <1>1, <1>3, <1>4, <1>5, <1>f, <2>1, ScheduleFacts, EmptySeq DEF TypeOK, Silent
    <2>3. TasksInv'
      BY <1>0, <1>1, <1>5, <2>1, ScheduleFacts DEF TasksInv
    <2>4. FramesInv'
      BY <1>0, <2>1 DEF FramesInv, QueuedAre, Silent
    <2>5. QueuedIsSought'
      <3>1. registered[a] # None /\ ~Live(registered[a]) =>
              a \in late' \cup lone' \/ queued'[a] = <<>> \/ stopping = "tasks"
        BY <1>0, <1>1, <1>3, <1>6, <1>2, <2>1 DEF QueuedIsSought
      <3>2. \A b \in Addresses \ {a} : queued'[b] = queued[b]
        BY <2>1
      <3> QED BY <1>0, <1>1, <1>5, <2>1, <3>1, <3>2, ScheduledIsSought
    <2> QED BY <1>4, <2>2, <2>3, <2>4, <2>5 DEF DiscoveryInv
  <1>7. CASE node # None
    <2>1. UNCHANGED taskVars
      BY <1>2, <1>7 DEF Profile
    <2>2. TasksInv'
      BY <1>0, <1>5, <2>1 DEF TasksInv, taskVars
    <2>3. CASE "list" \notin epcs
      <3>1. /\ UNCHANGED <<queued, late>> /\ Silent
            /\ lone' = IF queued[a] # <<>> THEN lone \cup {a} ELSE lone
        BY <1>2, <1>7, <2>3 DEF Profile
      <3>2. TypeOK'
        BY <1>0, <1>1, <1>3, <1>4, <1>5, <1>f, <2>1, <3>1, EmptySeq
        DEF TypeOK, Silent, taskVars
      <3>3. FramesInv'
        BY <1>0, <1>1, <1>3, <3>1 DEF FramesInv, QueuedAre, Silent
      <3>4. QueuedIsSought'
        BY <1>0, <1>1, <1>2, <1>3, <1>5, <1>7, <2>1, <3>1
        DEF QueuedIsSought, FramesInv, QueuedAre, taskVars, Live
      <3> QED BY <1>4, <2>2, <3>2, <3>3, <3>4 DEF DiscoveryInv
    <2>4. CASE "list" \in epcs
      <3>1. /\ Dispatch(Announce(node, a, n), a) /\ queued' = Taken(a)
            /\ lone' = lone \ {a} /\ late' = late \ {a}
        BY <1>2, <1>7, <2>4 DEF Profile
      <3>2. /\ queued'[a] = <<>>
            /\ \A b \in Addresses \ {a} : queued'[b] = queued[b]
            /\ DOMAIN queued' = Addresses /\ queued' = [b \in Addresses |-> queued'[b]]
        BY <1>0, <1>1, <3>1 DEF Taken, TypeOK
      <3>3. /\ queued' \in [Addresses -> Seq(Frames)]
            /\ \A b \in Addresses : Len(queued'[b]) <= MaxFramesPerAddress
            /\ Cardinality({b \in Addresses : queued'[b] # <<>>}) <= MaxPendingAddresses
        BY <1>0, <3>2, EmptiedFacts
      <3>4. node \in Nodes
        BY <1>1, <1>2, <1>3, <1>7
      <3>5. out' \in Seq(Events)
        BY <1>0, <1>1, <3>1, <3>4, AnnounceFacts DEF Dispatch
      <3>6. \/ last' = last
            \/ /\ queued[a] # <<>>
               /\ last' = [last EXCEPT ![a] = queued[a][Len(queued[a])].no]
        <4> DEFINE e == Announce(node, a, n)
        <4>1. /\ Len(e) = 1 + Len(queued[a]) /\ Len(queued[a]) \in Nat
              /\ e[1] = ListEvent(node, n)
              /\ \A i \in 1..Len(queued[a]) : e[i + 1] = FrameEvent(node, queued[a][i])
          BY <1>0, <1>1, <3>4, AnnounceFacts, LenProperties DEF TypeOK
        <4>2. CASE Len(queued[a]) = 0
          <5>1. e[Len(e)].kind = "list"
            BY <4>1, <4>2 DEF ListEvent
          <5>2. last' = [last EXCEPT ![a] = last[a]]
            BY <3>1, <5>1 DEF Dispatch
          <5> QED BY <1>0, <1>1, <5>2 DEF TypeOK
        <4>3. CASE Len(queued[a]) > 0
          <5>1. e[Len(e)] = FrameEvent(node, queued[a][Len(queued[a])])
            BY <4>1, <4>3
          <5>2. /\ e[Len(e)].kind = "frame"
                /\ e[Len(e)].frame.no = queued[a][Len(queued[a])].no
            BY <5>1 DEF FrameEvent
          <5>3. last' = [last EXCEPT ![a] = queued[a][Len(queued[a])].no]
            BY <3>1, <5>2 DEF Dispatch
          <5>4. queued[a] # <<>>
            BY <4>3
          <5> QED BY <5>3, <5>4
        <4> QED BY <4>1, <4>2, <4>3
      <3>7. queued[a] # <<>> =>
              /\ Len(queued[a]) \in 1..Len(queued[a])
              /\ queued[a][Len(queued[a])] \in Frames
              /\ queued[a][Len(queued[a])].no \in 0..limits.frames
              /\ queued[a][Len(queued[a])].no <= frames
        <4> SUFFICES ASSUME queued[a] # <<>>
                     PROVE  /\ Len(queued[a]) \in 1..Len(queued[a])
                            /\ queued[a][Len(queued[a])] \in Frames
                            /\ queued[a][Len(queued[a])].no \in 0..limits.frames
                            /\ queued[a][Len(queued[a])].no <= frames
          OBVIOUS
        <4>1. queued[a] \in Seq(Frames) /\ Len(queued[a]) \in 1..Len(queued[a])
          BY <1>0, <1>1, EmptySeq DEF TypeOK
        <4>2. queued[a][Len(queued[a])] \in Frames
          BY <4>1, ElementOfSeq
        <4> QED BY <1>0, <1>1, <4>1, <4>2 DEF Frames, FramesInv, QueuedAre
      <3>8. /\ last' \in [Addresses -> 0..limits.frames]
            /\ \A b \in Addresses : last'[b] <= frames
            /\ \A b \in Addresses \ {a} : last'[b] = last[b]
        BY <1>0, <1>1, <3>6, <3>7 DEF TypeOK, FramesInv
      <3>9. TypeOK'
        BY <1>0, <1>3, <1>4, <1>5, <1>f, <2>1, <3>1, <3>3, <3>5, <3>8 DEF TypeOK, taskVars
      <3>10. FramesInv'
        <4>1. QueuedAre(a)'
          BY <3>2, EmptySeq DEF QueuedAre
        <4>2. \A b \in Addresses \ {a} : QueuedAre(b)'
          BY <1>0, <1>3, <3>1, <3>2, <3>8 DEF FramesInv, QueuedAre
        <4> QED BY <3>8, <4>1, <4>2 DEF FramesInv
      <3>11. QueuedIsSought'
        BY <1>0, <1>3, <1>5, <2>1, <3>1, <3>2
        DEF QueuedIsSought, FramesInv, QueuedAre, taskVars, Live
      <3> QED BY <1>4, <2>2, <3>9, <3>10, <3>11 DEF DiscoveryInv
    <2> QED BY <2>3, <2>4
  <1> QED BY <1>6, <1>7

(* A queue that is left alone stays in order.                               *)
LEMMA QueuedStay ==
    ASSUME TypeOK, NEW b \in Addresses, QueuedAre(b),
           queued'[b] = queued[b], b \in lone => b \in lone',
           nodeAt'[b] # None /\ queued[b] # <<>> => nodeAt[b] # None,
           last'[b] = last[b] \/ queued[b] = <<>> \/ b \in lone',
           frames' \in {frames, frames + 1}
    PROVE  QueuedAre(b)'
  <1>1. queued[b] \in Seq(Frames) /\ Len(queued[b]) \in Nat
    BY LenProperties DEF TypeOK
  <1>2. frames \in Nat /\ \A i \in 1..Len(queued[b]) : queued[b][i].no \in Nat
    <2>1. \A i \in 1..Len(queued[b]) : queued[b][i] \in Frames
      BY <1>1, ElementOfSeq
    <2>2. frames \in 0..limits.frames /\ limits.frames \in Nat
      BY DiscoveryAssumption DEF TypeOK
    <2> QED BY <2>1, <2>2 DEF Frames
  <1> SUFFICES ASSUME NEW i \in 1..Len(queued[b])
               PROVE  /\ queued[b][i].at = b
                      /\ queued[b][i].no <= frames'
                      /\ b \notin lone' => last'[b] < queued[b][i].no
                      /\ \A j \in 1..(i - 1) : queued[b][j].no < queued[b][i].no
    BY DEF QueuedAre
  <1>3. /\ queued[b][i].at = b
        /\ queued[b][i].no <= frames
        /\ b \notin lone => last[b] < queued[b][i].no
        /\ \A j \in 1..(i - 1) : queued[b][j].no < queued[b][i].no
    BY DEF QueuedAre
  <1>4. queued[b][i].no <= frames'
    BY <1>2, <1>3
  <1>5. queued[b] # <<>>
    BY <1>1
  <1> QED BY <1>3, <1>4, <1>5

(* A frame of a device object, from a known address or an unknown one.      *)
LEMMA ReceiveFrameInv ==
    ASSUME DiscoveryInv, NEW n \in Nodes, ReceiveFrame(n)
    PROVE  DiscoveryInv'
  <1> DEFINE a == position[n]
             f == [no |-> frames + 1, at |-> a]
  <1>0. TypeOK /\ TasksInv /\ AddressBook /\ FramesInv /\ QueuedIsSought
    BY DEF DiscoveryInv
  <1>1. a \in Addresses /\ frames < limits.frames /\ frames' = frames + 1
    BY <1>0 DEF ReceiveFrame, TypeOK
  <1>2. UNCHANGED <<open, loop, stopping, snapshot, stops, reply, cancelled, nodeAt, learned,
                    limits, position, profiles, moves, lone>>
    BY DEF ReceiveFrame, lifeVars, answerVars
  <1>3. limits.frames \in Nat /\ frames \in Nat /\ frames + 1 \in 1..limits.frames
    BY <1>0, <1>1, DiscoveryAssumption DEF TypeOK
  <1>4. f \in Frames /\ f.no = frames + 1 /\ f.at = a
    BY <1>1, <1>3 DEF Frames
  <1>5. Frames' = Frames /\ Events' = Events
    <2>1. Frames' = Frames
      BY <1>2 DEF Frames
    <2> QED BY <2>1 DEF Events
  <1>6. frames' \in 0..limits.frames
    BY <1>1, <1>3
  <1>7. AddressBook'
    BY <1>0, <1>2 DEF AddressBook
  <1>8. \A b \in Addresses : last[b] <= frames /\ last[b] \in Nat
    BY <1>0, <1>3 DEF FramesInv, TypeOK
  <1>9. CASE nodeAt[a] # None
    <2> DEFINE e == FrameEvent(nodeAt[a], f)
    <2>1. Dispatch(<<e>>, a) /\ UNCHANGED <<queued, taskVars, late>>
      BY <1>9 DEF ReceiveFrame
    <2>2. out' = <<e>> /\ last' = [last EXCEPT ![a] = frames + 1] /\ out' \in Seq(Events)
      <3>1. e \in Events /\ e.kind = "frame" /\ e.frame.no = frames + 1
        BY <1>0, <1>1, <1>4, <1>9 DEF Events, FrameEvent, TypeOK
      <3>2. <<e>> \in Seq(Events) /\ <<e>>[Len(<<e>>)] = e
        BY <3>1
      <3> HIDE DEF e
      <3> QED BY <2>1, <3>1, <3>2 DEF Dispatch
    <2>3. /\ last' \in [Addresses -> 0..limits.frames]
          /\ last'[a] = frames + 1 /\ \A b \in Addresses \ {a} : last'[b] = last[b]
      BY <1>0, <1>1, <1>3, <2>2 DEF TypeOK
    <2>4. TypeOK'
      BY <1>0, <1>2, <1>5, <1>6, <2>1, <2>2, <2>3 DEF TypeOK, taskVars
    <2>5. TasksInv'
      BY <1>0, <1>2, <2>1 DEF TasksInv, taskVars
    <2>6. FramesInv'
      <3> SUFFICES ASSUME NEW b \in Addresses PROVE (last[b] <= frames)' /\ QueuedAre(b)'
        BY DEF FramesInv
      <3>1. last'[b] <= frames'
        BY <1>1, <1>3, <1>8, <2>3
      <3>2. QueuedAre(b) /\ QueuedAre(a)
        BY <1>0, <1>1 DEF FramesInv
      <3>3. b = a => queued[b] = <<>> \/ b \in lone
        BY <1>9, <3>2 DEF QueuedAre
      <3>4. QueuedAre(b)'
        BY <1>0, <1>1, <1>2, <2>1, <2>3, <3>2, <3>3, QueuedStay
      <3> QED BY <3>1, <3>4
    <2>7. QueuedIsSought'
      BY <1>0, <1>2, <2>1 DEF QueuedIsSought, taskVars, Live
    <2> QED BY <1>7, <2>4, <2>5, <2>6, <2>7 DEF DiscoveryInv
  <1>10. CASE nodeAt[a] = None
    <2> DEFINE waiting == {b \in Addresses : queued[b] # <<>>}
    <2>1. QueueUnknown(f, a) /\ Silent
      BY <1>10 DEF ReceiveFrame
    <2>2. out' \in Seq(Events) /\ last' = last
      BY <2>1, EmptySeq DEF Silent
    <2>3. \A b \in Addresses : \A i \in 1..Len(queued[b]) : queued[b][i].no \in Nat
      <3>1. \A b \in Addresses : queued[b] \in Seq(Frames)
        BY <1>0 DEF TypeOK
      <3>2. \A b \in Addresses : \A i \in 1..Len(queued[b]) : queued[b][i] \in Frames
        BY <3>1, ElementOfSeq
      <3> QED BY <3>2 DEF Frames
    <2>4. CASE a \notin waiting /\ Cardinality(waiting) >= MaxPendingAddresses
      <3>1. UNCHANGED <<queued, taskVars, late>>
        BY <2>1, <2>4 DEF QueueUnknown
      <3>2. TypeOK'
        BY <1>0, <1>2, <1>5, <1>6, <2>2, <3>1 DEF TypeOK, taskVars
      <3>3. TasksInv'
        BY <1>0, <1>2, <3>1 DEF TasksInv, taskVars
      <3>4. FramesInv'
        BY <1>0, <1>1, <1>2, <1>3, <1>8, <2>2, <2>3, <3>1 DEF FramesInv, QueuedAre
      <3>5. QueuedIsSought'
        BY <1>0, <1>2, <3>1 DEF QueuedIsSought, taskVars, Live
      <3> QED BY <1>7, <3>2, <3>3, <3>4, <3>5 DEF DiscoveryInv
    <2>5. CASE ~(a \notin waiting /\ Cardinality(waiting) >= MaxPendingAddresses)
      <3>1. /\ queued' = [queued EXCEPT ![a] = Append(Room(@), f)]
            /\ Schedule(a)
            /\ late' = IF registered[a] # None /\ ~Live(registered[a])
                       THEN late \cup {a} ELSE late \ {a}
        BY <2>1, <2>5 DEF QueueUnknown
      <3>2. a \in waiting \/ Cardinality(waiting) < MaxPendingAddresses
        <4>1. Cardinality(waiting) \in Nat /\ MaxPendingAddresses \in Nat
          BY DiscoveryAssumption, FS_Subset, FS_CardinalityType
        <4> QED BY <2>5, <4>1
      <3>3. /\ queued' \in [Addresses -> Seq(Frames)]
            /\ \A b \in Addresses : Len(queued'[b]) <= MaxFramesPerAddress
            /\ Cardinality({b \in Addresses : queued'[b] # <<>>}) <= MaxPendingAddresses
            /\ \A b \in Addresses \ {a} : queued'[b] = queued[b]
            /\ queued'[a] = Append(Room(queued[a]), f)
        BY <1>0, <1>1, <1>2, <1>4, <3>1, <3>2, QueueFacts
      <3>4. TypeOK'
        BY <1>0, <1>1, <1>2, <1>5, <1>6, <2>2, <3>1, <3>3, ScheduleFacts DEF TypeOK
      <3>5. TasksInv'
        BY <1>0, <1>1, <1>2, <3>1, ScheduleFacts DEF TasksInv
      <3>6. FramesInv'
        <4> DEFINE q == Room(queued[a])
        <4>1. /\ q \in Seq(Frames) /\ queued[a] \in Seq(Frames) /\ Len(queued[a]) \in Nat
              /\ \/ q = queued[a]
                 \/ /\ Len(q) = Len(queued[a]) - 1
                    /\ \A i \in 1..Len(q) : q[i] = queued[a][i + 1]
          <5>1. queued[a] \in Seq(Frames) /\ Len(queued[a]) \in Nat
            BY <1>0, <1>1, LenProperties DEF TypeOK
          <5>2. CASE Len(queued[a]) >= MaxFramesPerAddress
            <6>1. queued[a] # <<>>
              BY <5>1, <5>2, DiscoveryAssumption
            <6> QED BY <5>1, <5>2, <6>1, HeadTailProperties DEF Room
          <5>3. CASE ~(Len(queued[a]) >= MaxFramesPerAddress)
            BY <5>1, <5>3 DEF Room
          <5> QED BY <5>1, <5>2, <5>3
        <4>2. Len(q) \in Nat
          BY <4>1, LenProperties
        <4>3. \A i \in 1..Len(q) :
                /\ q[i].at = a /\ q[i].no <= frames /\ q[i].no \in Nat
                /\ a \notin lone => last[a] < q[i].no
                /\ \A j \in 1..(i - 1) : q[j].no < q[i].no
          <5> SUFFICES ASSUME NEW i \in 1..Len(q)
                       PROVE  /\ q[i].at = a /\ q[i].no <= frames /\ q[i].no \in Nat
                              /\ a \notin lone => last[a] < q[i].no
                              /\ \A j \in 1..(i - 1) : q[j].no < q[i].no
            OBVIOUS
          <5>1. \A k \in 1..Len(queued[a]) :
                  /\ queued[a][k].at = a /\ queued[a][k].no <= frames
                  /\ a \notin lone => last[a] < queued[a][k].no
                  /\ \A j \in 1..(k - 1) : queued[a][j].no < queued[a][k].no
            BY <1>0, <1>1 DEF FramesInv, QueuedAre
          <5>2. CASE q = queued[a]
            BY <1>1, <2>3, <5>1, <5>2
          <5>3. CASE Len(q) = Len(queued[a]) - 1
                     /\ \A k \in 1..Len(q) : q[k] = queued[a][k + 1]
            <6>1. i + 1 \in 1..Len(queued[a]) /\ q[i] = queued[a][i + 1]
              BY <4>1, <4>2, <5>3
            <6>2. \A j \in 1..(i - 1) :
                    q[j] = queued[a][j + 1] /\ j + 1 \in 1..((i + 1) - 1)
              BY <4>2, <5>3
            <6> HIDE DEF q
            <6> QED BY <1>1, <2>3, <5>1, <6>1, <6>2
          <5> QED BY <4>1, <5>2, <5>3
        <4>4. /\ Len(queued'[a]) = Len(q) + 1
              /\ queued'[a][Len(q) + 1] = f
              /\ \A i \in 1..Len(q) : queued'[a][i] = q[i]
          BY <1>4, <3>3, <4>1
        <4>5. QueuedAre(a)'
          <5> SUFFICES ASSUME NEW i \in 1..Len(queued'[a])
                       PROVE  /\ queued'[a][i].at = a
                              /\ queued'[a][i].no <= frames'
                              /\ a \notin lone' => last'[a] < queued'[a][i].no
                              /\ \A j \in 1..(i - 1) : queued'[a][j].no < queued'[a][i].no
            BY <1>2, <1>10 DEF QueuedAre
          <5>1. CASE i = Len(q) + 1
            <6>1. \A j \in 1..(i - 1) : j \in 1..Len(q)
              BY <4>2, <5>1
            <6> HIDE DEF q
            <6> QED BY <1>1, <1>3, <1>4, <1>8, <2>2, <4>3, <4>4, <5>1, <6>1
          <5>2. CASE i # Len(q) + 1
            <6>1. i \in 1..Len(q) /\ \A j \in 1..(i - 1) : j \in 1..Len(q)
              BY <4>2, <4>4, <5>2
            <6>2. q[i].no <= frames + 1
              BY <1>3, <4>3, <6>1
            <6> HIDE DEF q
            <6> QED BY <1>1, <1>2, <2>2, <4>3, <4>4, <6>1, <6>2
          <5> QED BY <5>1, <5>2
        <4>6. \A b \in Addresses \ {a} : QueuedAre(b)'
          BY <1>0, <1>1, <1>2, <2>2, <3>3, QueuedStay DEF FramesInv
        <4>7. \A b \in Addresses : last'[b] <= frames'
          BY <1>1, <1>3, <1>8, <2>2
        <4>8. \A b \in Addresses : QueuedAre(b)'
          BY <1>1, <1>2, <4>5, <4>6
        <4> QED BY <4>7, <4>8 DEF FramesInv
      <3>7. QueuedIsSought'
        <4>1. late \subseteq late' \cup {a} /\ lone \subseteq lone' \cup {a}
          BY <1>2, <3>1
        <4>2. registered[a] # None /\ ~Live(registered[a]) =>
                a \in late' \cup lone' \/ queued'[a] = <<>> \/ stopping = "tasks"
          BY <3>1
        <4> QED BY <1>0, <1>1, <1>2, <3>1, <3>3, <4>1, <4>2, ScheduledIsSought
      <3> QED BY <1>7, <3>4, <3>5, <3>6, <3>7 DEF DiscoveryInv
    <2> QED BY <2>4, <2>5
  <1> QED BY <1>9, <1>10

-----------------------------------------------------------------------------
(* Steps that leave the frames alone or empty some queues keep them in      *)
(* order.                                                                   *)
LEMMA QueuesKeepOrder ==
    ASSUME TypeOK, FramesInv, UNCHANGED <<nodeAt, last, frames>>,
           \A a \in Addresses :
              \/ queued'[a] = queued[a] /\ (a \in lone => a \in lone')
              \/ queued'[a] = <<>>
    PROVE  FramesInv'
  <1>1. \A a \in Addresses : last'[a] <= frames'
    BY DEF FramesInv
  <1>2. ASSUME NEW a \in Addresses, queued'[a] = <<>> PROVE QueuedAre(a)'
    BY <1>2 DEF QueuedAre
  <1>3. ASSUME NEW a \in Addresses, queued'[a] = queued[a], a \in lone => a \in lone'
        PROVE  QueuedAre(a)'
    BY <1>3, QueuedStay DEF FramesInv, QueuedAre
  <1>4. \A a \in Addresses : QueuedAre(a)'
    BY <1>2, <1>3
  <1> QED BY <1>1, <1>4 DEF FramesInv

(* A discovery task goes on, ends with its finally, or never began.         *)
LEMMA TaskMovesInv ==
    ASSUME DiscoveryInv, NEW t \in Tasks, TaskFrame(t),
           pc[t] \in {"new", "asking"}, NEW p \in {"asking", "ended"},
           pc' = [pc EXCEPT ![t] = p],
           left' \in [Tasks -> SUBSET EPCs], reply' \in [Tasks -> SUBSET EPCs],
           \/ p = "ended" /\ Discard(at[t])
           \/ (p = "asking" \/ cancelled[t]) /\ UNCHANGED <<queued, late, lone>>
    PROVE  DiscoveryInv'
  <1>0. TypeOK /\ TasksInv /\ AddressBook /\ FramesInv /\ QueuedIsSought
    BY DEF DiscoveryInv
  <1>1. /\ UNCHANGED <<open, loop, stopping, snapshot, stops, registered, at, cancelled, nodeAt,
                       learned, limits, position, frames, profiles, moves, last>>
        /\ out' = <<>>
    BY DEF TaskFrame, Silent, lifeVars, envVars
  <1>2. pc'[t] = p /\ \A s \in Tasks \ {t} : pc'[s] = pc[s]
    BY <1>0 DEF TypeOK
  <1>3. at[t] \in Addresses
    BY <1>0 DEF TypeOK, TasksInv
  <1>4. /\ \A a \in Addresses :
             \/ queued'[a] = queued[a] /\ (a \in lone <=> a \in lone') /\ (a \in late <=> a \in late')
             \/ queued'[a] = <<>>
        /\ p = "ended" /\ nodeAt[at[t]] = None /\ ~cancelled[t] => queued'[at[t]] = <<>>
        /\ DOMAIN queued' = Addresses /\ queued' = [a \in Addresses |-> queued'[a]]
        /\ late' \subseteq late /\ lone' \subseteq lone
    BY <1>0, <1>3 DEF Discard, Taken, TypeOK
  <1>5. TypeOK'
    <2>1. /\ queued' \in [Addresses -> Seq(Frames)]
          /\ \A a \in Addresses : Len(queued'[a]) <= MaxFramesPerAddress
          /\ Cardinality({a \in Addresses : queued'[a] # <<>>}) <= MaxPendingAddresses
      BY <1>0, <1>1, <1>4, EmptiedFacts
    <2>2. Frames' = Frames
      BY <1>1 DEF Frames
    <2>3. pc' \in [Tasks -> {"none", "new", "asking", "ended"}]
      BY <1>0 DEF TypeOK
    <2> QED BY <1>0, <1>1, <1>4, <2>1, <2>2, <2>3, EmptySeq DEF TypeOK
  <1>6. TasksInv'
    <2>1. \A s \in Tasks : pc'[s] # "none" <=> pc[s] # "none"
      BY <1>2
    <2> QED BY <1>0, <1>1, <2>1 DEF TasksInv, TypeOK
  <1>7. AddressBook'
    BY <1>0, <1>1 DEF AddressBook
  <1>8. FramesInv'
    BY <1>0, <1>1, <1>4, QueuesKeepOrder
  <1>9. QueuedIsSought'
    <2> SUFFICES ASSUME NEW b \in Addresses, queued'[b] # <<>>, nodeAt[b] = None,
                        stopping # "tasks", b \notin late' \cup lone'
                 PROVE  registered[b] # None /\ pc'[registered[b]] \in {"new", "asking"}
                        /\ at[registered[b]] = b
      BY <1>1 DEF QueuedIsSought, Live
    <2>1. queued[b] # <<>> /\ b \notin late \cup lone
      BY <1>4
    <2>2. /\ registered[b] \in Tasks /\ registered[b] # None
          /\ pc[registered[b]] \in {"new", "asking"} /\ at[registered[b]] = b
      BY <1>0, <2>1 DEF QueuedIsSought, Live, TypeOK
    <2>3. CASE registered[b] = t
      <3>1. ~cancelled[t]
        BY <1>0 DEF TasksInv
      <3> QED BY <1>2, <1>4, <2>2, <2>3, <3>1
    <2>4. CASE registered[b] # t
      BY <1>2, <2>2, <2>4
    <2> QED BY <2>3, <2>4
  <1> QED BY <1>5, <1>6, <1>7, <1>8, <1>9 DEF DiscoveryInv

(* The steps of a discovery task.                                           *)
LEMMA TaskStepInv ==
    ASSUME DiscoveryInv, NEW t \in Tasks,
           TaskBegins(t) \/ TaskAnswered(t) \/ TaskGivesUp(t) \/ TaskNeverBegins(t)
    PROVE  DiscoveryInv'
  <1>0. TypeOK
    BY DEF DiscoveryInv
  <1>1. CASE TaskBegins(t)
    BY <1>0, <1>1, TaskMovesInv DEF TaskBegins, Ask, TypeOK
  <1>2. ASSUME End(t), TaskFrame(t), pc[t] = "asking" PROVE DiscoveryInv'
    <2>1. reply' \in [Tasks -> SUBSET EPCs] /\ left' \in [Tasks -> SUBSET EPCs]
      BY <1>0, <1>2 DEF End, TypeOK
    <2> QED BY <1>2, <2>1, TaskMovesInv DEF End
  <1>3. CASE TaskAnswered(t)
    <2>1. CASE reply[t] = left[t]
      BY <1>2, <1>3, <2>1 DEF TaskAnswered
    <2>2. CASE reply[t] # left[t]
      <3>1. /\ left' = [left EXCEPT ![t] = @ \ reply[t]]
            /\ reply' = [reply EXCEPT ![t] = {}]
            /\ Ask(t) /\ pc[t] = "asking" /\ TaskFrame(t)
        BY <1>3, <2>2 DEF TaskAnswered
      <3>2. left' \in [Tasks -> SUBSET EPCs] /\ reply' \in [Tasks -> SUBSET EPCs]
        BY <1>0, <3>1 DEF TypeOK
      <3> QED BY <3>1, <3>2, TaskMovesInv DEF Ask
    <2> QED BY <2>1, <2>2
  <1>4. CASE TaskGivesUp(t)
    BY <1>2, <1>4 DEF TaskGivesUp
  <1>5. CASE TaskNeverBegins(t)
    BY <1>0, <1>5, TaskMovesInv DEF TaskNeverBegins, TypeOK
  <1> QED BY <1>1, <1>3, <1>4, <1>5

(* The callback of a task gives up its address only.                        *)
LEMMA CallbackInv ==
    ASSUME DiscoveryInv, NEW t \in Tasks, Callback(t)
    PROVE  DiscoveryInv'
  <1>0. TypeOK /\ TasksInv /\ AddressBook /\ FramesInv /\ QueuedIsSought
    BY DEF DiscoveryInv
  <1>1. /\ UNCHANGED <<open, loop, stopping, stops, reply, nodeAt, queued, learned, limits,
                       position, frames, profiles, moves, late, lone, last>>
        /\ out' = <<>> /\ pc[t] = "ended" /\ snapshot' = snapshot \ {t}
    BY DEF Callback, Silent, envVars
  <1>2. at[t] \in Addresses
    BY <1>0, <1>1 DEF TypeOK, TasksInv
  <1>3. /\ pc'[t] = "none" /\ \A s \in Tasks \ {t} : pc'[s] = pc[s]
        /\ at'[t] = None /\ \A s \in Tasks \ {t} : at'[s] = at[s]
        /\ cancelled'[t] = FALSE /\ \A s \in Tasks \ {t} : cancelled'[s] = cancelled[s]
        /\ registered'[at[t]] = IF registered[at[t]] = t THEN None ELSE registered[at[t]]
        /\ \A a \in Addresses \ {at[t]} : registered'[a] = registered[a]
    BY <1>0, <1>2 DEF Callback, TypeOK
  <1>4. \A a \in Addresses : registered[a] = t => a = at[t]
    BY <1>0, DiscoveryAssumption DEF TasksInv
  <1>5. \A a \in Addresses : registered'[a] # None => registered'[a] = registered[a]
                                                       /\ registered[a] # t
    BY <1>2, <1>3, <1>4
  <1>6. TypeOK'
    <2>1. /\ pc' \in [Tasks -> {"none", "new", "asking", "ended"}]
          /\ registered' \in [Addresses -> Tasks \cup {None}]
          /\ at' \in [Tasks -> Addresses \cup {None}] /\ left' \in [Tasks -> SUBSET EPCs]
          /\ cancelled' \in [Tasks -> BOOLEAN] /\ snapshot' \subseteq Tasks
      BY <1>0, <1>2 DEF Callback, TypeOK
    <2>2. Frames' = Frames
      BY <1>1 DEF Frames
    <2> QED BY <1>0, <1>1, <2>1, <2>2, EmptySeq DEF TypeOK
  <1>7. TasksInv'
    <2>1. \A a \in Addresses : registered'[a] # None =>
            at'[registered'[a]] = a /\ pc'[registered'[a]] # "none"
      <3> SUFFICES ASSUME NEW a \in Addresses, registered'[a] # None
                   PROVE  at'[registered'[a]] = a /\ pc'[registered'[a]] # "none"
        OBVIOUS
      <3>1. registered'[a] \in Tasks \ {t} /\ registered'[a] = registered[a]
        BY <1>0, <1>5 DEF TypeOK
      <3> QED BY <1>0, <1>3, <3>1 DEF TasksInv
    <2>2. \A s \in Tasks : pc'[s] # "none" => at'[s] # None
      BY <1>0, <1>3 DEF TasksInv
    <2>3. \A s \in Tasks : cancelled'[s] => s \in snapshot' /\ stopping' = "tasks"
      BY <1>0, <1>1, <1>3 DEF TasksInv
    <2> QED BY <2>1, <2>2, <2>3 DEF TasksInv
  <1>8. AddressBook'
    BY <1>0, <1>1 DEF AddressBook
  <1>9. FramesInv'
    BY <1>0, <1>1, QueuesKeepOrder
  <1>10. QueuedIsSought'
    <2> SUFFICES ASSUME NEW b \in Addresses, queued[b] # <<>>, nodeAt[b] = None,
                        stopping # "tasks", b \notin late \cup lone
                 PROVE  registered'[b] # None /\ pc'[registered'[b]] \in {"new", "asking"}
                        /\ at'[registered'[b]] = b
      BY <1>1 DEF QueuedIsSought, Live
    <2>1. /\ registered[b] \in Tasks /\ registered[b] # None
          /\ pc[registered[b]] \in {"new", "asking"} /\ at[registered[b]] = b
      BY <1>0 DEF QueuedIsSought, Live, TypeOK
    <2>2. registered[b] # t
      BY <1>1, <2>1
    <2>3. registered'[b] = registered[b]
      BY <1>2, <1>3, <2>2
    <2> QED BY <1>3, <2>1, <2>2, <2>3
  <1> QED BY <1>6, <1>7, <1>8, <1>9, <1>10 DEF DiscoveryInv

-----------------------------------------------------------------------------
(* Cleared tables keep the invariant, provided that no task is cancelled.   *)
LEMMA ClearInv ==
    ASSUME DiscoveryInv, ClearTables, Silent, \A t \in Tasks : ~cancelled[t],
           open' \in BOOLEAN, loop' \in BOOLEAN, stopping' \in {"no", "tasks", "loop"},
           stops' \in 0..limits.stops,
           UNCHANGED <<snapshot, cancelled, nodeAt, pc, at, left, reply, envVars>>
    PROVE  DiscoveryInv'
  <1>0. TypeOK /\ TasksInv /\ AddressBook /\ FramesInv /\ QueuedIsSought
    BY DEF DiscoveryInv
  <1>1. /\ UNCHANGED <<snapshot, cancelled, nodeAt, pc, at, left, reply, limits, position,
                       frames, profiles, moves, last>>
        /\ out' = <<>> /\ learned' = {} /\ late' = {} /\ lone' = {}
        /\ registered' = [a \in Addresses |-> None]
        /\ queued' = [a \in Addresses |-> <<>>]
    BY DEF ClearTables, Silent, envVars
  <1>2. \A a \in Addresses : queued'[a] = <<>> /\ registered'[a] = None
    BY <1>1
  <1>3. TypeOK'
    <2>1. /\ queued' \in [Addresses -> Seq(Frames)]
          /\ \A a \in Addresses : Len(queued'[a]) <= MaxFramesPerAddress
          /\ Cardinality({a \in Addresses : queued'[a] # <<>>}) <= MaxPendingAddresses
      BY <1>0, <1>1, <1>2, EmptiedFacts
    <2>2. Frames' = Frames
      BY <1>1 DEF Frames
    <2> QED BY <1>0, <1>1, <2>1, <2>2, EmptySeq DEF TypeOK
  <1>4. TasksInv'
    BY <1>0, <1>1, <1>2 DEF TasksInv
  <1>5. AddressBook'
    BY <1>0, <1>1 DEF AddressBook
  <1>6. FramesInv'
    BY <1>0, <1>1, <1>2, QueuesKeepOrder
  <1>7. QueuedIsSought'
    BY <1>2 DEF QueuedIsSought
  <1> QED BY <1>3, <1>4, <1>5, <1>6, <1>7 DEF DiscoveryInv

(* Steps that change neither the frames nor the tasks.                      *)
LEMMA QuietDiscoveryInv ==
    ASSUME DiscoveryInv, AddressBook', Silent \/ UNCHANGED <<out, last>>,
           UNCHANGED <<taskVars, answerVars, snapshot, nodeAt, queued, limits, frames, late,
                       lone>>,
           stopping = "tasks" <=> stopping' = "tasks",
           open' \in BOOLEAN, loop' \in BOOLEAN, stopping' \in {"no", "tasks", "loop"},
           stops' \in 0..limits.stops, learned' \subseteq Nodes,
           position' \in [Nodes -> Addresses \cup {None}],
           profiles' \in 0..limits.profiles, moves' \in 0..limits.moves
    PROVE  DiscoveryInv'
  <1>0. TypeOK /\ TasksInv /\ AddressBook /\ FramesInv /\ QueuedIsSought
    BY DEF DiscoveryInv
  <1>1. /\ UNCHANGED <<registered, pc, at, left, reply, cancelled, last>>
        /\ out' \in Seq(Events)
    BY <1>0, EmptySeq DEF taskVars, answerVars, Silent, TypeOK
  <1>2. Frames' = Frames
    BY DEF Frames
  <1>3. TypeOK'
    BY <1>0, <1>1, <1>2 DEF TypeOK, Events
  <1>4. TasksInv'
    BY <1>0, <1>1 DEF TasksInv
  <1>5. FramesInv'
    BY <1>0, <1>1, QueuesKeepOrder
  <1>6. QueuedIsSought'
    BY <1>0, <1>1 DEF QueuedIsSought, Live
  <1> QED BY <1>3, <1>4, <1>5, <1>6 DEF DiscoveryInv

(* stop() that has nothing to wait for, or waited for its tasks.            *)
LEMMA ClearStepInv ==
    ASSUME DiscoveryInv, Clear, \A t \in Tasks : ~cancelled[t],
           stops' \in 0..limits.stops, UNCHANGED <<snapshot, cancelled>>
    PROVE  DiscoveryInv'
  <1>1. open' \in BOOLEAN /\ loop' \in BOOLEAN /\ stopping' \in {"no", "tasks", "loop"}
    BY DEF Clear, Close, DiscoveryInv, TypeOK
  <1> QED BY <1>1, ClearInv DEF Clear

(* stop() cancels the registered tasks and waits for them.                  *)
LEMMA StopInv ==
    ASSUME DiscoveryInv, Stop
    PROVE  DiscoveryInv'
  <1> DEFINE mine == {registered[a] : a \in Addresses} \ {None}
  <1>0. TypeOK /\ TasksInv /\ AddressBook /\ FramesInv /\ QueuedIsSought
    BY DEF DiscoveryInv
  <1>1. stopping = "no" /\ stops' = stops + 1 /\ stops < limits.stops
    BY DEF Stop
  <1>2. \A t \in Tasks : ~cancelled[t]
    BY <1>0, <1>1 DEF TasksInv
  <1>3. stops' \in 0..limits.stops
    BY <1>0, <1>1, DiscoveryAssumption DEF TypeOK
  <1>4. CASE mine = {}
    BY <1>2, <1>3, <1>4, ClearStepInv DEF Stop
  <1>5. CASE mine # {}
    <2>1. /\ stopping' = "tasks" /\ snapshot' = mine /\ out' = <<>>
          /\ cancelled' = [t \in Tasks |-> cancelled[t] \/ (t \in mine /\ Live(t))]
          /\ UNCHANGED <<open, loop, registered, pc, at, left, reply, nodeAt, queued, learned,
                         limits, position, frames, profiles, moves, late, lone, last>>
      BY <1>5 DEF Stop, Silent, envVars
    <2>2. mine \subseteq Tasks
      BY <1>0 DEF TypeOK
    <2>3. TypeOK'
      <3>1. cancelled' \in [Tasks -> BOOLEAN]
        BY <1>2, <2>1 DEF Live
      <3>2. Frames' = Frames
        BY <2>1 DEF Frames
      <3> QED BY <1>0, <1>3, <2>1, <2>2, <3>1, <3>2, EmptySeq DEF TypeOK
    <2>4. TasksInv'
      <3>1. \A t \in Tasks : cancelled'[t] => t \in mine
        BY <1>2, <2>1
      <3> QED BY <1>0, <2>1, <3>1 DEF TasksInv
    <2>5. AddressBook'
      BY <1>0, <2>1 DEF AddressBook
    <2>6. FramesInv'
      BY <1>0, <2>1, QueuesKeepOrder
    <2>7. QueuedIsSought'
      BY <2>1 DEF QueuedIsSought
    <2> QED BY <2>3, <2>4, <2>5, <2>6, <2>7 DEF DiscoveryInv
  <1> QED BY <1>4, <1>5

(* A step of the client, its tasks or its environment keeps the invariant.  *)
LEMMA DiscoveryStep ==
    ASSUME DiscoveryInv, [Next]_vars
    PROVE  DiscoveryInv'
  <1>0. TypeOK /\ TasksInv /\ AddressBook /\ FramesInv /\ QueuedIsSought
    BY DEF DiscoveryInv
  <1>l. limits \in Limits /\ limits \in [frames : Nat, profiles : Nat, moves : Nat,
                                         learned : Nat, stops : Nat]
    BY <1>0, DiscoveryAssumption DEF TypeOK
  <1>1. ASSUME NEW n \in Nodes, ReceiveFrame(n) PROVE DiscoveryInv'
    BY <1>1, ReceiveFrameInv
  <1>2. ASSUME NEW n \in Nodes, ReceiveProfile(n) PROVE DiscoveryInv'
    <2>1. PICK epcs \in SUBSET EPCs : Profile(n, epcs)
      BY <1>2 DEF ReceiveProfile
    <2>2. /\ position[n] # None /\ profiles < limits.profiles /\ profiles' = profiles + 1
          /\ UNCHANGED <<lifeVars, reply, cancelled, limits, position, frames, moves>>
      BY <1>2 DEF ReceiveProfile, answerVars
    <2>3. profiles' \in 0..limits.profiles /\ reply' \in [Tasks -> SUBSET EPCs]
      BY <1>0, <1>l, <2>2 DEF TypeOK
    <2> QED BY <2>1, <2>2, <2>3, ProfileInv
  <1>3. ASSUME NEW t \in Tasks, Answer(t) PROVE DiscoveryInv'
    <2>1. PICK n \in Nodes, matched \in (SUBSET left[t]) \ {{}} :
            \E valued \in SUBSET matched :
               /\ position[n] = at[t]
               /\ Profile(n, valued)
               /\ reply' = [reply EXCEPT ![t] = matched]
      BY <1>3 DEF Answer
    <2>2. PICK valued \in SUBSET matched :
               /\ position[n] = at[t]
               /\ Profile(n, valued)
               /\ reply' = [reply EXCEPT ![t] = matched]
      BY <2>1
    <2>3. left[t] \subseteq EPCs /\ valued \subseteq EPCs /\ matched \subseteq EPCs
      BY <1>0 DEF TypeOK
    <2>4. position[n] # None
      BY <1>0, <1>3, <2>2 DEF Answer, TasksInv
    <2>5. reply' \in [Tasks -> SUBSET EPCs] /\ profiles' \in 0..limits.profiles
      BY <1>0, <1>3, <2>2, <2>3 DEF Answer, envVars, TypeOK
    <2>6. UNCHANGED <<lifeVars, cancelled, limits, position, frames, moves>>
      BY <1>3 DEF Answer, envVars
    <2> QED BY <2>2, <2>3, <2>4, <2>5, <2>6, ProfileInv
  <1>4. ASSUME NEW t \in Tasks, TaskStep(t) PROVE DiscoveryInv'
    BY <1>4, TaskStepInv, CallbackInv DEF TaskStep
  <1>5. CASE Stop
    BY <1>5, StopInv
  <1>6. CASE StopTasksEnded
    <2>1. \A t \in Tasks : ~cancelled[t]
      BY <1>0, <1>6 DEF StopTasksEnded, TasksInv
    <2> QED BY <1>0, <1>6, <2>1, ClearStepInv DEF StopTasksEnded, TypeOK
  <1>7. CASE StopLoopEnded
    BY <1>0, <1>7, QuietDiscoveryInv
    DEF StopLoopEnded, Close, taskVars, answerVars, envVars, AddressBook, TypeOK
  <1>8. CASE Start
    <2>1. CASE open' = TRUE /\ loop' = TRUE /\ UNCHANGED <<registered, queued, learned, late, lone>>
      BY <1>0, <1>8, <2>1, QuietDiscoveryInv
      DEF Start, taskVars, answerVars, envVars, AddressBook, TypeOK
    <2>2. CASE ClearTables /\ UNCHANGED <<open, loop>>
      <3>1. \A t \in Tasks : ~cancelled[t]
        BY <1>0, <1>8 DEF Start, TasksInv
      <3> QED BY <1>0, <1>8, <2>2, <3>1, ClearInv DEF Start, answerVars, TypeOK
    <2> QED BY <1>8, <2>1, <2>2 DEF Start
  <1>9. ASSUME NEW n \in Nodes, Learn(n) PROVE DiscoveryInv'
    <2>1. AddressBook' /\ learned' \subseteq Nodes
      BY <1>0, <1>9 DEF Learn, AddressBook, TypeOK
    <2> QED BY <1>0, <1>9, <2>1, QuietDiscoveryInv DEF Learn, lifeVars, envVars, TypeOK
  <1>10. ASSUME NEW n \in Nodes, Move(n) PROVE DiscoveryInv'
    <2>1. PICK a \in Addresses \cup {None} :
            position' = [m \in Nodes |->
               IF m = n THEN a ELSE IF position[m] = a THEN None ELSE position[m]]
      BY <1>10 DEF Move
    <2>2. position' \in [Nodes -> Addresses \cup {None}]
      BY <1>0, <2>1 DEF TypeOK
    <2>3. moves' \in 0..limits.moves
      BY <1>0, <1>l, <1>10 DEF Move, TypeOK
    <2>4. AddressBook'
      BY <1>0, <1>10 DEF Move, AddressBook
    <2> QED BY <1>0, <1>10, <2>2, <2>3, <2>4, QuietDiscoveryInv DEF Move, lifeVars, TypeOK
  <1>11. CASE UNCHANGED vars
    <2>1. AddressBook'
      BY <1>0, <1>11 DEF vars, AddressBook
    <2> QED BY <1>0, <1>11, <2>1, QuietDiscoveryInv
            DEF vars, lifeVars, envVars, history, TypeOK
  <1> QED
    BY <1>1, <1>2, <1>3, <1>4, <1>5, <1>6, <1>7, <1>8, <1>9, <1>10, <1>11 DEF Next

(* A client that was not started satisfies the invariant. *)
LEMMA DiscoveryInit == Init => DiscoveryInv
  <1> SUFFICES ASSUME Init PROVE DiscoveryInv
    OBVIOUS
  <1>1. \A a \in Addresses : queued[a] = <<>> /\ Len(queued[a]) = 0
    BY DEF Init
  <1>2. limits \in Limits /\ limits \in [frames : Nat, profiles : Nat, moves : Nat,
                                         learned : Nat, stops : Nat]
    BY DiscoveryAssumption DEF Init
  <1>3. queued \in [Addresses -> Seq(Frames)] /\ out \in Seq(Events)
    BY EmptySeq DEF Init
  <1>4. Cardinality({a \in Addresses : queued[a] # <<>>}) <= MaxPendingAddresses
    <2> DEFINE waiting == {a \in Addresses : queued[a] # <<>>}
    <2>1. waiting = {}
      BY <1>1
    <2>2. Cardinality({}) = 0
      BY FS_EmptySet
    <2>3. Cardinality(waiting) = 0
      BY <2>1, <2>2
    <2>4. 0 <= MaxPendingAddresses
      BY DiscoveryAssumption
    <2> HIDE DEF waiting
    <2>5. Cardinality(waiting) <= MaxPendingAddresses
      BY <2>3, <2>4
    <2> QED BY <2>5 DEF waiting
  <1>5. TypeOK
    <2>1. /\ 0 \in 0..limits.frames /\ 0 \in 0..limits.profiles
          /\ 0 \in 0..limits.moves /\ 0 \in 0..limits.stops
      BY <1>2
    <2>2. \A a \in Addresses : Len(queued[a]) <= MaxFramesPerAddress
      BY <1>1, DiscoveryAssumption
    <2> QED BY <1>2, <1>3, <1>4, <2>1, <2>2 DEF Init, TypeOK
  <1>6. TasksInv /\ AddressBook
    BY DEF Init, TasksInv, AddressBook
  <1>7. FramesInv /\ QueuedIsSought
    BY <1>1 DEF Init, FramesInv, QueuedAre, QueuedIsSought
  <1> QED BY <1>5, <1>6, <1>7 DEF DiscoveryInv

(* The inductive invariant holds in every behaviour. *)
THEOREM DiscoveryInvariant == Spec => []DiscoveryInv
  BY DiscoveryInit, DiscoveryStep, PTL DEF Spec

(* Every variable keeps its type; in particular the queues of unknown       *)
(* addresses keep both limits, _MAX_PENDING_FRAMES_PER_ADDRESS and          *)
(* _MAX_PENDING_ADDRESSES.                                                  *)
THEOREM QueuesAreBounded == Spec => []TypeOK
  <1>1. DiscoveryInv => TypeOK
    BY DEF DiscoveryInv
  <1> QED BY <1>1, DiscoveryInvariant, PTL

(* _device_addresses is one to one and no limit is kept for a node that has *)
(* no address in it.                                                        *)
THEOREM AddressesAreOneToOne == Spec => []AddressBook
  <1>1. DiscoveryInv => AddressBook
    BY DEF DiscoveryInv
  <1> QED BY <1>1, DiscoveryInvariant, PTL

(* The frames in _pending_frames are looked after by a discovery task, with *)
(* the two exceptions that QueuedIsSought names.                            *)
THEOREM QueuedFramesAreSought == Spec => []QueuedIsSought
  <1>1. DiscoveryInv => QueuedIsSought
    BY DEF DiscoveryInv
  <1> QED BY <1>1, DiscoveryInvariant, PTL

-----------------------------------------------------------------------------
(* What a step dispatches: nothing, the frame that just came from a known   *)
(* address, or an instance list and the frames queued for its address.      *)
DispatchesNow(n, a) ==
    /\ queued[a] # <<>> => a \in lone
    /\ out' = <<FrameEvent(n, [no |-> frames + 1, at |-> a])>>

LEMMA Dispatched ==
    ASSUME DiscoveryInv, Next
    PROVE  \/ out' = <<>>
           \/ \E n \in Nodes, a \in Addresses : DispatchesNow(n, a)
           \/ \E n, m \in Nodes, a \in Addresses : out' = Announce(n, a, m)
  <1> DEFINE Goal ==
        \/ out' = <<>>
        \/ \E n \in Nodes, a \in Addresses : DispatchesNow(n, a)
        \/ \E n, m \in Nodes, a \in Addresses : out' = Announce(n, a, m)
  <1>0. TypeOK /\ TasksInv /\ FramesInv
    BY DEF DiscoveryInv
  <1>1. ASSUME Silent PROVE Goal
    BY <1>1 DEF Silent
  <1>2. ASSUME NEW n \in Nodes, ReceiveFrame(n) PROVE Goal
    <2> DEFINE a == position[n]
               f == [no |-> frames + 1, at |-> a]
    <2>1. a \in Addresses
      BY <1>0, <1>2 DEF ReceiveFrame, TypeOK
    <2>2. CASE nodeAt[a] = None
      BY <1>1, <1>2, <2>2 DEF ReceiveFrame
    <2>3. CASE nodeAt[a] # None
      <3>1. out' = <<FrameEvent(nodeAt[a], f)>>
        BY <1>2, <2>3 DEF ReceiveFrame, Dispatch
      <3>2. nodeAt[a] \in Nodes /\ (queued[a] # <<>> => a \in lone)
        BY <1>0, <2>1, <2>3 DEF FramesInv, QueuedAre, TypeOK
      <3> QED BY <2>1, <3>1, <3>2 DEF DispatchesNow
    <2> QED BY <2>2, <2>3
  <1>3. ASSUME NEW n \in Nodes, NEW epcs \in SUBSET EPCs, position[n] # None, Profile(n, epcs)
        PROVE  Goal
    <2> DEFINE a == position[n]
               node == Known(n, a, epcs)[a]
    <2>1. a \in Addresses
      BY <1>0, <1>3 DEF TypeOK
    <2>2. CASE node = None \/ "list" \notin epcs
      BY <1>1, <1>3, <2>2 DEF Profile
    <2>3. CASE node # None /\ "list" \in epcs
      <3>1. out' = Announce(node, a, n)
        BY <1>3, <2>3 DEF Profile, Dispatch
      <3>2. node \in Nodes
        BY <1>0, <2>1, <2>3 DEF Known, TypeOK
      <3> QED BY <2>1, <3>1, <3>2
    <2> QED BY <2>2, <2>3
  <1>4. ASSUME NEW n \in Nodes, ReceiveProfile(n) PROVE Goal
    BY <1>3, <1>4 DEF ReceiveProfile
  <1>5. ASSUME NEW t \in Tasks, Answer(t) PROVE Goal
    <2>1. PICK n \in Nodes, matched \in (SUBSET left[t]) \ {{}} :
            \E valued \in SUBSET matched : position[n] = at[t] /\ Profile(n, valued)
      BY <1>5 DEF Answer
    <2>2. PICK valued \in SUBSET matched : position[n] = at[t] /\ Profile(n, valued)
      BY <2>1
    <2>3. valued \subseteq EPCs /\ position[n] # None
      BY <1>0, <1>5, <2>2 DEF Answer, TypeOK, TasksInv
    <2> QED BY <1>3, <2>2, <2>3
  <1>6. ASSUME NEW t \in Tasks, TaskStep(t) PROVE Goal
    <2>1. Silent
      BY <1>6 DEF TaskStep, TaskBegins, TaskAnswered, TaskGivesUp, TaskNeverBegins, Callback,
                  TaskFrame
    <2> QED BY <1>1, <2>1
  <1>7. ASSUME Stop \/ StopTasksEnded \/ StopLoopEnded \/ Start PROVE Goal
    <2>1. Silent
      BY <1>7 DEF Stop, StopTasksEnded, StopLoopEnded, Start, Clear
    <2> QED BY <1>1, <2>1
  <1>8. ASSUME NEW n \in Nodes, Learn(n) \/ Move(n) PROVE Goal
    BY <1>1, <1>8 DEF Learn, Move
  <1> QED BY <1>2, <1>4, <1>5, <1>6, <1>7, <1>8 DEF Next

(* What an announcement is made of.                                         *)
LEMMA Announced ==
    ASSUME DiscoveryInv, NEW n \in Nodes, NEW m \in Nodes, NEW a \in Addresses,
           out' = Announce(n, a, m), NEW i \in DOMAIN out'
    PROVE  /\ i \in 1..(1 + Len(queued[a])) /\ Len(queued[a]) \in Nat
           /\ i = 1 => out'[i] = ListEvent(n, m)
           /\ i # 1 => i - 1 \in 1..Len(queued[a])
                       /\ out'[i] = FrameEvent(n, queued[a][i - 1])
  <1>1. /\ out' \in Seq(Events) /\ Len(out') = 1 + Len(queued[a])
        /\ out'[1] = ListEvent(n, m)
        /\ \A k \in 1..Len(queued[a]) : out'[k + 1] = FrameEvent(n, queued[a][k])
    BY AnnounceFacts DEF DiscoveryInv
  <1>2. Len(queued[a]) \in Nat
    BY LenProperties DEF DiscoveryInv, TypeOK
  <1>3. i \in 1..(1 + Len(queued[a]))
    BY <1>1, LenProperties
  <1>4. i # 1 => i - 1 \in 1..Len(queued[a]) /\ (i - 1) + 1 = i
    BY <1>2, <1>3
  <1> QED BY <1>1, <1>2, <1>3, <1>4

(* Frames are dispatched in the order in which they were received, whether  *)
(* they were queued in between or not.                                      *)
THEOREM FramesStayInOrder == Spec => InOrder
  <1> DEFINE Ordered(i) ==
        out'[i].kind = "frame" /\ out'[i].frame.at \notin lone =>
           /\ out'[i].frame.no > last[out'[i].frame.at]
           /\ \A j \in 1..(i - 1) :
                out'[j].kind = "frame" => out'[j].frame.no < out'[i].frame.no
  <1>1. ASSUME DiscoveryInv, Next, NEW i \in DOMAIN out' PROVE Ordered(i)
    <2>0. TypeOK /\ FramesInv
      BY <1>1 DEF DiscoveryInv
    <2>1. CASE out' = <<>>
      BY <1>1, <2>1
    <2>2. ASSUME NEW n \in Nodes, NEW a \in Addresses, DispatchesNow(n, a) PROVE Ordered(i)
      <3> DEFINE f == [no |-> frames + 1, at |-> a]
      <3>1. i = 1 /\ out'[1] = FrameEvent(n, f)
        BY <1>1, <2>2 DEF DispatchesNow
      <3>2. out'[i].frame.no = frames + 1 /\ out'[i].frame.at = a /\ 1..(i - 1) = {}
        BY <3>1 DEF FrameEvent
      <3>3. frames \in Nat /\ last[a] \in Nat /\ last[a] <= frames
        <4>1. limits.frames \in Nat
          BY <2>0, DiscoveryAssumption DEF TypeOK
        <4> QED BY <2>0, <4>1 DEF TypeOK, FramesInv
      <3> QED BY <3>2, <3>3
    <2>3. ASSUME NEW n \in Nodes, NEW m \in Nodes, NEW a \in Addresses,
                 out' = Announce(n, a, m)
          PROVE  Ordered(i)
      <3>1. CASE i = 1
        BY <1>1, <2>3, <3>1, Announced DEF ListEvent
      <3>2. CASE i # 1
        <4>1. /\ i \in Int /\ i - 1 \in 1..Len(queued[a]) /\ Len(queued[a]) \in Nat
              /\ out'[i] = FrameEvent(n, queued[a][i - 1])
          BY <1>1, <2>3, <3>2, Announced
        <4>2. /\ queued[a][i - 1].at = a
              /\ a \notin lone => last[a] < queued[a][i - 1].no
              /\ \A k \in 1..((i - 1) - 1) : queued[a][k].no < queued[a][i - 1].no
          BY <2>0, <4>1 DEF FramesInv, QueuedAre
        <4>3. out'[i].frame.no = queued[a][i - 1].no /\ out'[i].frame.at = a
          BY <4>1, <4>2 DEF FrameEvent
        <4>4. a \notin lone => queued[a][i - 1].no > last[a]
          <5>1. queued[a] \in Seq(Frames)
            BY <2>0 DEF TypeOK
          <5>2. queued[a][i - 1] \in Frames
            BY <4>1, <5>1, ElementOfSeq
          <5>3. queued[a][i - 1].no \in Int /\ last[a] \in Int
            BY <2>0, <5>2 DEF Frames, TypeOK
          <5> QED BY <4>2, <5>3
        <4>5. ASSUME NEW j \in 1..(i - 1), out'[j].kind = "frame"
              PROVE  out'[j].frame.no < out'[i].frame.no
          <5>1. j \in DOMAIN out'
            <6>1. DOMAIN out' = 1..(1 + Len(queued[a]))
              BY <1>1, <2>0, <2>3, AnnounceFacts, LenProperties
            <6> QED BY <4>1, <6>1
          <5>2. j # 1
            BY <1>1, <2>3, <4>5, <5>1, Announced DEF ListEvent
          <5>3. out'[j] = FrameEvent(n, queued[a][j - 1])
            BY <1>1, <2>3, <5>1, <5>2, Announced
          <5>4. j - 1 \in 1..((i - 1) - 1)
            BY <4>1, <5>2
          <5> QED BY <4>2, <4>3, <5>3, <5>4 DEF FrameEvent
        <4> QED BY <4>3, <4>4, <4>5
      <3> QED BY <3>1, <3>2
    <2> QED BY <1>1, <2>1, <2>2, <2>3, Dispatched
  <1>2. DiscoveryInv /\ [Next]_vars => [\A i \in DOMAIN out' : Ordered(i)]_<<out, last>>
    BY <1>1 DEF vars, history
  <1> QED BY <1>2, DiscoveryInvariant, PTL DEF Spec, InOrder

(* Queued frames are dispatched only behind an instance list of the node    *)
(* they are dispatched for.                                                 *)
THEOREM ReplayIsBehindList == Spec => ReplayFollowsList
  <1> DEFINE Behind(i) ==
        /\ out'[i].kind = "frame"
        /\ \E a \in Addresses : out'[i].frame \in ToSet(queued[a])
        => \E j \in 1..(i - 1) :
             out'[j].kind = "list" /\ out'[j].node = out'[i].node
  <1>1. ASSUME DiscoveryInv, Next, NEW i \in DOMAIN out' PROVE Behind(i)
    <2>0. TypeOK /\ FramesInv
      BY <1>1 DEF DiscoveryInv
    <2>1. CASE out' = <<>>
      BY <1>1, <2>1
    <2>2. ASSUME NEW n \in Nodes, NEW a \in Addresses, DispatchesNow(n, a) PROVE Behind(i)
      <3> DEFINE f == [no |-> frames + 1, at |-> a]
      <3>1. i = 1 /\ out'[1] = FrameEvent(n, f)
        BY <1>1, <2>2 DEF DispatchesNow
      <3>2. out'[i].frame = f /\ f.no = frames + 1
        BY <3>1 DEF FrameEvent
      <3>3. frames \in Nat
        <4>1. limits.frames \in Nat
          BY <2>0, DiscoveryAssumption DEF TypeOK
        <4> QED BY <2>0, <4>1 DEF TypeOK
      <3>4. ASSUME NEW b \in Addresses, f \in ToSet(queued[b]) PROVE FALSE
        <4>1. PICK k \in DOMAIN queued[b] : queued[b][k] = f
          BY <3>4 DEF ToSet
        <4>2. queued[b] \in Seq(Frames)
          BY <2>0 DEF TypeOK
        <4>3. k \in 1..Len(queued[b])
          BY <4>1, <4>2, LenProperties
        <4>4. f.no <= frames
          BY <2>0, <4>1, <4>3 DEF FramesInv, QueuedAre
        <4> QED BY <3>2, <3>3, <4>4
      <3> QED BY <3>2, <3>4
    <2>3. ASSUME NEW n \in Nodes, NEW m \in Nodes, NEW a \in Addresses,
                 out' = Announce(n, a, m)
          PROVE  Behind(i)
      <3>1. CASE i = 1
        BY <1>1, <2>3, <3>1, Announced DEF ListEvent
      <3>2. CASE i # 1
        <4>1. /\ i - 1 \in 1..Len(queued[a]) /\ Len(queued[a]) \in Nat /\ i \in Int
              /\ out'[i] = FrameEvent(n, queued[a][i - 1])
          BY <1>1, <2>3, <3>2, Announced
        <4>2. out'[1] = ListEvent(n, m)
          BY <2>0, <2>3, AnnounceFacts
        <4>3. 1 \in 1..(i - 1)
          BY <4>1
        <4> QED BY <4>1, <4>2, <4>3 DEF ListEvent, FrameEvent
      <3> QED BY <3>1, <3>2
    <2> QED BY <1>1, <2>1, <2>2, <2>3, Dispatched
  <1>2. DiscoveryInv /\ [Next]_vars => [\A i \in DOMAIN out' : Behind(i)]_out
    BY <1>1 DEF vars, history
  <1> QED BY <1>2, DiscoveryInvariant, PTL DEF Spec, ReplayFollowsList
=============================================================================
