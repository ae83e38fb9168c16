---------------------------- MODULE NodeJobsProofs ----------------------------
(***************************************************************************)
(* Theorems about NodeJobs for any nodes, objects, workers and bounds.      *)
(***************************************************************************)
EXTENDS NodeJobs, SequenceTheorems, TLAPS

(* A worker has a node while it lives, and an object while it waits.        *)
WorkersInv ==
    \A w \in Workers :
      /\ Live(w) => home[w] \in Nodes
      /\ pc[w] \notin {"none", "ready"} => job[w] \in Objects

(* Until it is registered, an object that is set up is not in data; then it *)
(* is, and not announced.                                                   *)
SetupInv ==
    \A w \in Workers :
      /\ pc[w] \in {"reading", "read"} => job[w] \notin data
      /\ pc[w] = "notifying" => job[w] \in data /\ announced[job[w]] = 0

(* Unless async_stop() left one behind, a worker is the one of its node.    *)
RegisteredInv == ~leaked => \A w \in Workers : Live(w) => registered[home[w]] = w

JobsInv ==
    /\ TypeOK /\ WorkersInv /\ SetupInv /\ RegisteredInv
    /\ SetupIsExclusive /\ AnnouncedOnce /\ DeferredIsTransient

-----------------------------------------------------------------------------
(* An object belongs to the node whose instance list has it.                *)
LEMMA NodeOfFacts == ASSUME NEW o \in Objects PROVE NodeOf(o) \in Nodes
  BY JobsAssumption DEF NodeOf

LEMMA NoneFacts == None \notin Workers /\ None \notin Objects
  BY JobsAssumption

(* The names of the places a worker can be at.                              *)
Places == {"none", "ready", "reading", "read", "notifying", "recovering"}

(* A posted event goes to the end of the queue.                             *)
LEMMA PostFacts ==
    ASSUME TypeOK, NEW e \in Events, Post(e)
    PROVE  queue' \in Seq(Events)
  BY DEF TypeOK, Post

(* Enqueueing a job: only the worker of the node is affected, and it has    *)
(* one afterwards.                                                          *)
LEMMA EnqueueFacts ==
    ASSUME TypeOK, WorkersInv, RegisteredInv, NEW n \in Nodes, NEW items \in Seq(Items),
           Enqueue(n, items), UNCHANGED <<job, leaked>>
    PROVE  /\ registered' \in [Nodes -> Workers \cup {None}]
           /\ pc' \in [Workers -> Places]
           /\ home' \in [Workers -> Nodes \cup {None}]
           /\ todo' \in [Workers -> Seq(Items)]
           /\ WorkersInv' /\ RegisteredInv'
           /\ \A w \in Workers : pc'[w] = pc[w] \/ (pc[w] = "none" /\ pc'[w] = "ready")
           /\ \A m \in Nodes : registered[m] # None => registered'[m] # None
  <1>1. CASE registered[n] # None
    <2>1. /\ UNCHANGED <<registered, home, pc>>
          /\ todo' = [todo EXCEPT ![registered[n]] = @ \o items]
      BY <1>1 DEF Enqueue
    <2>2. registered[n] \in Workers /\ todo[registered[n]] \o items \in Seq(Items)
      <3>1. registered[n] \in Workers
        BY <1>1 DEF TypeOK
      <3>2. todo[registered[n]] \in Seq(Items)
        BY <3>1 DEF TypeOK
      <3> QED BY <3>1, <3>2, ConcatProperties
    <2>3. todo' \in [Workers -> Seq(Items)]
      BY <2>1, <2>2 DEF TypeOK
    <2> QED BY <2>1, <2>3 DEF TypeOK, Places, WorkersInv, RegisteredInv, Live
  <1>2. CASE registered[n] = None
    <2>1. PICK w \in Workers :
            /\ pc[w] = "none"
            /\ registered' = [registered EXCEPT ![n] = w]
            /\ home' = [home EXCEPT ![w] = n]
            /\ pc' = [pc EXCEPT ![w] = "ready"]
            /\ todo' = [todo EXCEPT ![w] = items]
      BY <1>2 DEF Enqueue, Free
    <2>2. /\ registered' \in [Nodes -> Workers \cup {None}]
          /\ pc' \in [Workers -> Places]
          /\ home' \in [Workers -> Nodes \cup {None}]
          /\ todo' \in [Workers -> Seq(Items)]
      BY <2>1 DEF TypeOK, Places
    <2>3. /\ pc'[w] = "ready" /\ home'[w] = n /\ registered'[n] = w /\ w # None
          /\ \A u \in Workers \ {w} : pc'[u] = pc[u] /\ home'[u] = home[u]
          /\ \A m \in Nodes \ {n} : registered'[m] = registered[m]
      BY <2>1, NoneFacts DEF TypeOK
    <2>4. WorkersInv'
      BY <2>3 DEF WorkersInv, Live
    <2>5. RegisteredInv'
      <3> SUFFICES ASSUME ~leaked, NEW u \in Workers, pc'[u] # "none"
                   PROVE  registered'[home'[u]] = u
        BY DEF RegisteredInv, Live
      <3>1. CASE u = w
        BY <2>3, <3>1
      <3>2. CASE u # w
        <4>1. /\ home'[u] = home[u] /\ home[u] \in Nodes /\ registered[home[u]] = u
              /\ u # None
          BY <2>3, <3>2, NoneFacts DEF WorkersInv, RegisteredInv, Live
        <4> QED BY <1>2, <2>3, <4>1
      <3> QED BY <3>1, <3>2
    <2> QED BY <1>2, <2>1, <2>2, <2>3, <2>4, <2>5
  <1> QED BY <1>1, <1>2

(* The items of a job are objects, those to recover with a range.           *)
LEMMA ItemFacts ==
    ASSUME NEW item \in Items
    PROVE  /\ item.object \in Objects
           /\ item.kind # "setup" => item.object \in RangeObjects
  <1>1. CASE \E o \in Objects : item = Setup(o)
    BY <1>1 DEF Setup
  <1>2. CASE \E o \in RangeObjects : item = Recover(o)
    BY <1>2, JobsAssumption DEF Recover
  <1> QED BY <1>1, <1>2 DEF Items

-----------------------------------------------------------------------------
(* A worker ends: its node has no worker and no deferred frames then.       *)
LEMMA EndFacts ==
    ASSUME JobsInv, NEW w \in Workers, Live(w), End(w), UNCHANGED <<data, leaked>>
    PROVE  /\ pc' \in [Workers -> Places]
           /\ registered' \in [Nodes -> Workers \cup {None}]
           /\ home' \in [Workers -> Nodes \cup {None}]
           /\ todo' \in [Workers -> Seq(Items)]
           /\ job' \in [Workers -> Objects \cup {None}]
           /\ value' \in [Workers -> Values]
           /\ deferred' \in [Objects -> Seq(Values)]
           /\ \A o \in Objects : Len(deferred'[o]) <= MaxDeferred
           /\ pc'[w] = "none"
           /\ \A u \in Workers \ {w} : pc'[u] = pc[u] /\ job'[u] = job[u]
           /\ WorkersInv' /\ RegisteredInv' /\ DeferredIsTransient'
  <1>1. TypeOK /\ home[w] \in Nodes
    BY DEF JobsInv, WorkersInv
  <1>2. /\ pc' \in [Workers -> Places]
        /\ registered' \in [Nodes -> Workers \cup {None}]
        /\ home' \in [Workers -> Nodes \cup {None}]
        /\ job' \in [Workers -> Objects \cup {None}]
    BY <1>1 DEF TypeOK, End, Places
  <1>3. todo' \in [Workers -> Seq(Items)] /\ value' \in [Workers -> Values]
    <2>1. <<>> \in Seq(Items) /\ 0 \in Values
      BY JobsAssumption DEF Values
    <2> QED BY <1>1, <2>1 DEF TypeOK, End
  <1>4. /\ pc'[w] = "none" /\ registered'[home[w]] = None
        /\ \A u \in Workers \ {w} : pc'[u] = pc[u] /\ job'[u] = job[u] /\ home'[u] = home[u]
        /\ \A n \in Nodes \ {home[w]} : registered'[n] = registered[n]
    BY <1>1 DEF TypeOK, End
  <1>5. deferred' = DropDeferred(home[w])
    BY DEF End
  <1>6. /\ deferred' \in [Objects -> Seq(Values)]
        /\ \A o \in Objects : Len(deferred'[o]) <= MaxDeferred
    <2>1. \A o \in Objects : deferred'[o] = <<>> \/ deferred'[o] = deferred[o]
      BY <1>5 DEF DropDeferred
    <2>2. <<>> \in Seq(Values) /\ Len(<<>>) = 0 /\ MaxDeferred \in Nat
      BY JobsAssumption
    <2>3. \A o \in Objects : deferred[o] \in Seq(Values) /\ Len(deferred[o]) <= MaxDeferred
      BY <1>1 DEF TypeOK
    <2>4. \A o \in Objects : deferred'[o] \in Seq(Values) /\ Len(deferred'[o]) <= MaxDeferred
      <3> SUFFICES ASSUME NEW o \in Objects
                   PROVE  deferred'[o] \in Seq(Values) /\ Len(deferred'[o]) <= MaxDeferred
        OBVIOUS
      <3>1. CASE deferred'[o] = <<>>
        BY <2>2, <3>1
      <3>2. CASE deferred'[o] = deferred[o]
        BY <2>3, <3>2
      <3> QED BY <2>1, <3>1, <3>2
    <2> QED BY <1>5, <2>4 DEF DropDeferred
  <1>7. WorkersInv'
    BY <1>4 DEF JobsInv, WorkersInv, Live
  <1>8. RegisteredInv'
    <2> SUFFICES ASSUME ~leaked, NEW u \in Workers, pc'[u] # "none"
                 PROVE  registered'[home'[u]] = u
      BY DEF RegisteredInv, Live
    <2>1. u # w /\ home'[u] = home[u] /\ home[u] \in Nodes
      BY <1>4 DEF JobsInv, WorkersInv, Live
    <2>2. registered[home[u]] = u /\ registered[home[w]] = w
      BY <1>4, <2>1 DEF JobsInv, RegisteredInv, Live
    <2> QED BY <1>4, <2>1, <2>2
  <1>9. DeferredIsTransient'
    <2> SUFFICES ASSUME NEW o \in Objects, deferred'[o] # <<>>
                 PROVE  o \notin data /\ registered'[NodeOf(o)] # None
      BY DEF DeferredIsTransient, NodeOf
    <2>1. deferred'[o] = IF NodeOf(o) = home[w] /\ o \notin data THEN <<>> ELSE deferred[o]
      BY <1>5 DEF DropDeferred
    <2>2. deferred[o] # <<>> /\ ~(NodeOf(o) = home[w] /\ o \notin data)
      BY <2>1
    <2>3. o \notin data /\ registered[NodeOf(o)] # None
      BY <2>2 DEF JobsInv, DeferredIsTransient
    <2> QED BY <1>4, <2>2, <2>3, NodeOfFacts
  <1> QED BY <1>2, <1>3, <1>4, <1>6, <1>7, <1>8, <1>9

(* The object of a worker that leaves off is taken from the pending ones;   *)
(* those of the other workers remain.                                       *)
LeftBy(w) == {job[u] : u \in {x \in Workers \ {w} : SettingUp(x)}}

LEMMA LeftFacts ==
    ASSUME SetupIsExclusive, NEW w \in Workers
    PROVE  (IF SettingUp(w) THEN pendingSetups \ {job[w]} ELSE pendingSetups) = LeftBy(w)
  <1>1. pendingSetups = {job[u] : u \in {x \in Workers : SettingUp(x)}}
    BY DEF SetupIsExclusive
  <1>2. CASE SettingUp(w)
    <2>1. pendingSetups = LeftBy(w) \cup {job[w]}
      BY <1>1, <1>2 DEF LeftBy
    <2>2. \A u \in Workers \ {w} : SettingUp(u) => job[u] # job[w]
      BY <1>2 DEF SetupIsExclusive
    <2>3. job[w] \notin LeftBy(w)
      BY <2>2 DEF LeftBy
    <2> QED BY <1>2, <2>1, <2>3
  <1>3. CASE ~SettingUp(w)
    BY <1>1, <1>3 DEF LeftBy
  <1> QED BY <1>2, <1>3

(* The setups are exclusive again when only w changes, and is not setting   *)
(* up, or an object that was not pending.                                   *)
LEMMA ExclusiveAgain ==
    ASSUME SetupIsExclusive, NEW w \in Workers,
           \A u \in Workers \ {w} : pc'[u] = pc[u] /\ job'[u] = job[u],
           \/ ~SettingUp(w)' /\ pendingSetups' = LeftBy(w)
           \/ /\ SettingUp(w)' /\ job'[w] \notin LeftBy(w)
              /\ pendingSetups' = LeftBy(w) \cup {job'[w]}
    PROVE  SetupIsExclusive'
  <1>1. \A u \in Workers \ {w} : SettingUp(u)' <=> SettingUp(u)
    BY DEF SettingUp
  <1>2. LeftBy(w) = {job'[u] : u \in {x \in Workers \ {w} : SettingUp(x)'}}
    BY <1>1 DEF LeftBy
  <1>3. \A u \in Workers \ {w} : SettingUp(u)' => job'[u] \in LeftBy(w)
    BY <1>1 DEF LeftBy
  <1>4. \A v, u \in Workers : SettingUp(v)' /\ SettingUp(u)' /\ job'[v] = job'[u] => v = u
    BY <1>1, <1>3 DEF SetupIsExclusive
  <1>5. pendingSetups' = {job'[u] : u \in {x \in Workers : SettingUp(x)'}}
    <2>1. CASE ~SettingUp(w)'
      BY <1>2, <2>1
    <2>2. CASE SettingUp(w)'
      BY <1>2, <2>2
    <2> QED BY <2>1, <2>2
  <1> QED BY <1>4, <1>5 DEF SetupIsExclusive

-----------------------------------------------------------------------------
(* A worker goes on: to its end, to the setup of an object that is neither  *)
(* known nor pending, or to a recovery.                                     *)
LEMMA ContinueFacts ==
    ASSUME JobsInv, NEW w \in Workers, Live(w), NEW pending, Continue(w, pending),
           pending = IF SettingUp(w) THEN pendingSetups \ {job[w]} ELSE pendingSetups,
           UNCHANGED <<data, leaked>>,
           \A o \in Objects : announced'[o] = announced[o] \/ (SettingUp(w) /\ o = job[w])
    PROVE  /\ pc' \in [Workers -> Places]
           /\ registered' \in [Nodes -> Workers \cup {None}]
           /\ home' \in [Workers -> Nodes \cup {None}]
           /\ todo' \in [Workers -> Seq(Items)]
           /\ job' \in [Workers -> Objects \cup {None}]
           /\ value' \in [Workers -> Values]
           /\ deferred' \in [Objects -> Seq(Values)]
           /\ \A o \in Objects : Len(deferred'[o]) <= MaxDeferred
           /\ pendingSetups' \subseteq Objects /\ attempted' \subseteq RangeObjects
           /\ listed' \subseteq Objects
           /\ WorkersInv' /\ RegisteredInv' /\ DeferredIsTransient'
           /\ SetupIsExclusive' /\ SetupInv'
  <1>1. TypeOK /\ SetupIsExclusive /\ pending = LeftBy(w)
    BY LeftFacts DEF JobsInv
  <1>2. pending \subseteq Objects
    BY DEF JobsInv, TypeOK
  <1>3. ASSUME \A u \in Workers \ {w} : pc'[u] = pc[u] /\ job'[u] = job[u],
               /\ pc'[w] \in {"reading", "read"} => job'[w] \notin data
               /\ pc'[w] # "notifying"
        PROVE  SetupInv'
    <2> SUFFICES ASSUME NEW u \in Workers
                 PROVE  /\ pc'[u] \in {"reading", "read"} => job'[u] \notin data
                        /\ pc'[u] = "notifying" =>
                             job'[u] \in data /\ announced'[job'[u]] = 0
      BY DEF SetupInv
    <2>1. CASE u = w
      BY <1>3, <2>1
    <2>2. CASE u # w
      <3>1. pc'[u] = pc[u] /\ job'[u] = job[u]
        BY <1>3, <2>2
      <3>2. pc[u] = "notifying" => ~(SettingUp(w) /\ job[u] = job[w])
        BY <1>1, <2>2 DEF SetupIsExclusive, SettingUp
      <3>3. pc[u] = "notifying" => job[u] \in Objects
        BY DEF JobsInv, WorkersInv
      <3> QED BY <3>1, <3>2, <3>3 DEF JobsInv, SetupInv
    <2> QED BY <2>1, <2>2
  <1>4. CASE End(w) /\ pendingSetups' = pending /\ UNCHANGED <<attempted, listed>>
    <2>1. /\ pc' \in [Workers -> Places]
          /\ registered' \in [Nodes -> Workers \cup {None}]
          /\ home' \in [Workers -> Nodes \cup {None}]
          /\ todo' \in [Workers -> Seq(Items)]
          /\ job' \in [Workers -> Objects \cup {None}]
          /\ value' \in [Workers -> Values]
          /\ deferred' \in [Objects -> Seq(Values)]
          /\ \A o \in Objects : Len(deferred'[o]) <= MaxDeferred
          /\ pc'[w] = "none"
          /\ \A u \in Workers \ {w} : pc'[u] = pc[u] /\ job'[u] = job[u]
          /\ WorkersInv' /\ RegisteredInv' /\ DeferredIsTransient'
      BY <1>4, EndFacts
    <2>2. SetupIsExclusive'
      <3>1. ~SettingUp(w)' /\ pendingSetups' = LeftBy(w)
        BY <1>1, <1>4, <2>1 DEF SettingUp
      <3> QED BY <1>1, <2>1, <3>1, ExclusiveAgain
    <2>3. SetupInv'
      BY <1>3, <2>1
    <2>4. attempted' \subseteq RangeObjects /\ listed' \subseteq Objects
      BY <1>1, <1>4 DEF TypeOK
    <2> QED BY <1>2, <1>4, <2>1, <2>2, <2>3, <2>4
  <1>5. ASSUME NEW i \in DOMAIN todo[w], Needed(todo[w][i], pending),
               job' = [job EXCEPT ![w] = todo[w][i].object],
               todo' = [todo EXCEPT ![w] = SubSeq(@, i + 1, Len(@))],
               value' = [value EXCEPT ![w] = 0],
               IF todo[w][i].kind = "setup"
                 THEN /\ pc' = [pc EXCEPT ![w] = "reading"]
                      /\ pendingSetups' = pending \cup {todo[w][i].object}
                      /\ listed' = listed \ {todo[w][i].object}
                      /\ UNCHANGED attempted
                 ELSE /\ pc' = [pc EXCEPT ![w] = "recovering"]
                      /\ pendingSetups' = pending
                      /\ attempted' = attempted \cup {todo[w][i].object}
                      /\ UNCHANGED listed,
               UNCHANGED <<registered, home, deferred>>
        PROVE  /\ pc' \in [Workers -> Places]
               /\ todo' \in [Workers -> Seq(Items)]
               /\ job' \in [Workers -> Objects \cup {None}]
               /\ value' \in [Workers -> Values]
               /\ pendingSetups' \subseteq Objects /\ attempted' \subseteq RangeObjects
               /\ listed' \subseteq Objects
               /\ WorkersInv' /\ RegisteredInv' /\ DeferredIsTransient'
               /\ SetupIsExclusive' /\ SetupInv'
    <2> DEFINE o == todo[w][i].object
    <2>1. todo[w] \in Seq(Items) /\ i \in 1..Len(todo[w]) /\ todo[w][i] \in Items
      BY <1>1 DEF TypeOK
    <2>2. o \in Objects /\ (todo[w][i].kind # "setup" => o \in RangeObjects)
      BY <2>1, ItemFacts
    <2>3. SubSeq(todo[w], i + 1, Len(todo[w])) \in Seq(Items)
      BY <2>1, SubSeqProperties
    <2>4. todo' \in [Workers -> Seq(Items)] /\ value' \in [Workers -> Values]
      <3>1. 0 \in Values
        BY JobsAssumption DEF Values
      <3> QED BY <1>1, <1>5, <2>3, <3>1 DEF TypeOK
    <2>5. /\ pc' \in [Workers -> Places]
          /\ job' \in [Workers -> Objects \cup {None}]
          /\ job'[w] = o /\ pc'[w] = IF todo[w][i].kind = "setup" THEN "reading"
                                     ELSE "recovering"
          /\ \A u \in Workers \ {w} : pc'[u] = pc[u] /\ job'[u] = job[u]
      BY <1>1, <1>5, <2>2 DEF TypeOK, Places
    <2>6. /\ pendingSetups' \subseteq Objects /\ attempted' \subseteq RangeObjects
          /\ listed' \subseteq Objects
      BY <1>1, <1>2, <1>5, <2>2 DEF TypeOK
    <2>7. WorkersInv' /\ RegisteredInv' /\ DeferredIsTransient'
      <3>1. \A u \in Workers : pc'[u] # "none" => pc[u] # "none"
        BY <2>5 DEF Live
      <3>2. WorkersInv'
        BY <1>5, <2>2, <2>5, <3>1 DEF JobsInv, WorkersInv, Live
      <3>3. RegisteredInv'
        BY <1>5, <3>1 DEF JobsInv, RegisteredInv, Live
      <3>4. DeferredIsTransient'
        BY <1>5 DEF JobsInv, DeferredIsTransient, NodeOf
      <3> QED BY <3>2, <3>3, <3>4
    <2>8. SetupIsExclusive'
      <3>1. CASE todo[w][i].kind = "setup"
        <4>1. SettingUp(w)' /\ job'[w] \notin LeftBy(w)
          BY <1>1, <1>5, <2>5, <3>1 DEF Needed, SettingUp
        <4>2. pendingSetups' = LeftBy(w) \cup {job'[w]}
          BY <1>1, <1>5, <2>5, <3>1
        <4> QED BY <1>1, <2>5, <4>1, <4>2, ExclusiveAgain
      <3>2. CASE todo[w][i].kind # "setup"
        <4>1. ~SettingUp(w)' /\ pendingSetups' = LeftBy(w)
          BY <1>1, <1>5, <2>5, <3>2 DEF SettingUp
        <4> QED BY <1>1, <2>5, <4>1, ExclusiveAgain
      <3> QED BY <3>1, <3>2
    <2>9. SetupInv'
      <3>1. pc'[w] \in {"reading", "read"} => job'[w] \notin data
        BY <1>5, <2>5 DEF Needed
      <3> QED BY <1>3, <2>5, <3>1
    <2> QED BY <2>4, <2>5, <2>6, <2>7, <2>8, <2>9
  <1>6. \/ End(w) /\ pendingSetups' = pending /\ UNCHANGED <<attempted, listed>>
        \/ \E i \in DOMAIN todo[w] :
             /\ Needed(todo[w][i], pending)
             /\ job' = [job EXCEPT ![w] = todo[w][i].object]
             /\ todo' = [todo EXCEPT ![w] = SubSeq(@, i + 1, Len(@))]
             /\ value' = [value EXCEPT ![w] = 0]
             /\ IF todo[w][i].kind = "setup"
                  THEN /\ pc' = [pc EXCEPT ![w] = "reading"]
                       /\ pendingSetups' = pending \cup {todo[w][i].object}
                       /\ listed' = listed \ {todo[w][i].object}
                       /\ UNCHANGED attempted
                  ELSE /\ pc' = [pc EXCEPT ![w] = "recovering"]
                       /\ pendingSetups' = pending
                       /\ attempted' = attempted \cup {todo[w][i].object}
                       /\ UNCHANGED listed
             /\ UNCHANGED <<registered, home, deferred>>
    BY Zenon DEF Continue
  <1>7. UNCHANGED <<registered, home, deferred>> =>
          /\ registered' \in [Nodes -> Workers \cup {None}]
          /\ home' \in [Workers -> Nodes \cup {None}]
          /\ deferred' \in [Objects -> Seq(Values)]
          /\ \A o \in Objects : Len(deferred'[o]) <= MaxDeferred
    BY <1>1 DEF TypeOK
  <1> QED BY <1>4, <1>5, <1>6, <1>7

-----------------------------------------------------------------------------
(* The runtime and the consumer.                                            *)

(* What only concerns the queue and the device leaves the workers alone.    *)
LEMMA WorkersAlone ==
    ASSUME JobsInv, UNCHANGED <<taskVars, deferred, data, announced, leaked>>
    PROVE  /\ WorkersInv' /\ SetupInv' /\ RegisteredInv'
           /\ SetupIsExclusive' /\ AnnouncedOnce' /\ DeferredIsTransient'
  <1>1. UNCHANGED <<registered, home, pc, job, pendingSetups>>
    BY DEF taskVars
  <1>2. WorkersInv' /\ SetupInv' /\ RegisteredInv'
    BY <1>1 DEF JobsInv, WorkersInv, SetupInv, RegisteredInv, Live
  <1>3. SetupIsExclusive'
    BY <1>1 DEF JobsInv, SetupIsExclusive, SettingUp
  <1>4. AnnouncedOnce' /\ DeferredIsTransient'
    BY <1>1 DEF JobsInv, AnnouncedOnce, DeferredIsTransient, NodeOf
  <1> QED BY <1>2, <1>3, <1>4

LEMMA InstanceListArrivesStep ==
    ASSUME JobsInv, NEW n \in Nodes, InstanceListArrives(n) PROVE JobsInv'
  <1>1. queue' \in Seq(Events)
    <2>1. ListEvent(n) \in Events
      BY DEF Events
    <2> QED BY <2>1, PostFacts DEF InstanceListArrives, JobsInv
  <1>2. lists' \in 0..MaxLists
    BY JobsAssumption DEF InstanceListArrives, JobsInv, TypeOK
  <1>3. TypeOK'
    BY <1>1, <1>2 DEF InstanceListArrives, JobsInv, TypeOK, stopVars, taskVars, dataVars
  <1>4. UNCHANGED <<taskVars, deferred, data, announced, leaked>>
    BY DEF InstanceListArrives, stopVars, dataVars
  <1> QED BY <1>3, <1>4, WorkersAlone DEF JobsInv

LEMMA ValueChangesStep ==
    ASSUME JobsInv, NEW o \in Objects, ValueChanges(o) PROVE JobsInv'
  <1>1. current[o] + 1 \in Values /\ current[o] \in Values
    BY JobsAssumption DEF ValueChanges, JobsInv, TypeOK, Values
  <1>2. queue' \in Seq(Events)
    <2>1. FrameEvent(o, current[o] + 1) \in Events
      BY <1>1 DEF Events
    <2> QED BY <2>1, PostFacts DEF ValueChanges, JobsInv
  <1>3. current' \in [Objects -> Values]
    BY <1>1 DEF ValueChanges, JobsInv, TypeOK
  <1>4. TypeOK'
    BY <1>2, <1>3 DEF ValueChanges, JobsInv, TypeOK, stopVars, taskVars, dataVars
  <1>5. UNCHANGED <<taskVars, deferred, data, announced, leaked>>
    BY DEF ValueChanges, stopVars, dataVars
  <1> QED BY <1>4, <1>5, WorkersAlone DEF JobsInv

(* An event that is taken leaves a queue of events.                         *)
LEMMA TakeFacts ==
    ASSUME TypeOK, NEW e, Take(e)
    PROVE  queue' \in Seq(Events) /\ consumer' \in {"waiting", "running"}
  <1>1. queue \in Seq(Events) /\ queue # <<>>
    BY DEF TypeOK, Take
  <1>2. Tail(queue) \in Seq(Events)
    BY <1>1, HeadTailProperties
  <1> QED BY <1>2 DEF Take

(* A new or longer job changes nothing of the setups in progress.           *)
LEMMA EnqueuedStep ==
    ASSUME JobsInv, NEW n \in Nodes, NEW items \in Seq(Items), Enqueue(n, items),
           UNCHANGED <<stopVars, cancelled, job, value, pendingSetups, deferred, data,
                       attempted, announced, envVars>>,
           queue' \in Seq(Events), consumer' \in {"waiting", "running"},
           cache' \in [Objects -> Values], seen' \in [Objects -> Values],
           listed' \subseteq Objects
    PROVE  JobsInv'
  <1>1. UNCHANGED <<subscribed, stopping, stops, gathered, refreshing, leaked, current, lists>>
    BY DEF stopVars, envVars
  <1>2. /\ registered' \in [Nodes -> Workers \cup {None}]
        /\ pc' \in [Workers -> Places]
        /\ home' \in [Workers -> Nodes \cup {None}]
        /\ todo' \in [Workers -> Seq(Items)]
        /\ WorkersInv' /\ RegisteredInv'
        /\ \A w \in Workers : pc'[w] = pc[w] \/ (pc[w] = "none" /\ pc'[w] = "ready")
        /\ \A m \in Nodes : registered[m] # None => registered'[m] # None
    BY <1>1, EnqueueFacts DEF JobsInv
  <1>3. TypeOK'
    BY <1>1, <1>2 DEF JobsInv, TypeOK, Places
  <1>4. SetupInv'
    BY <1>2 DEF JobsInv, SetupInv
  <1>5. \A w \in Workers : SettingUp(w)' <=> SettingUp(w)
    BY <1>2 DEF SettingUp
  <1>6. SetupIsExclusive'
    BY <1>5 DEF JobsInv, SetupIsExclusive
  <1>7. AnnouncedOnce'
    BY DEF JobsInv, AnnouncedOnce
  <1>8. DeferredIsTransient'
    BY <1>2, NodeOfFacts DEF JobsInv, DeferredIsTransient, NodeOf
  <1> QED BY <1>2, <1>3, <1>4, <1>6, <1>7, <1>8 DEF JobsInv

(* The setups an instance list asks for.                                    *)
LEMMA ListItems ==
    ASSUME NEW n \in Nodes
    PROVE  [i \in DOMAIN InstancesOf[n] |-> Setup(InstancesOf[n][i])] \in Seq(Items)
  <1> DEFINE items == [i \in DOMAIN InstancesOf[n] |-> Setup(InstancesOf[n][i])]
  <1>1. InstancesOf[n] \in Seq(Objects)
    BY JobsAssumption
  <1>2. DOMAIN InstancesOf[n] = 1..Len(InstancesOf[n]) /\ Len(InstancesOf[n]) \in Nat
    BY <1>1, LenProperties
  <1>3. \A i \in 1..Len(InstancesOf[n]) : InstancesOf[n][i] \in Objects
    BY <1>1, ElementOfSeq
  <1>4. \A i \in 1..Len(InstancesOf[n]) : Setup(InstancesOf[n][i]) \in Items
    BY <1>3 DEF Items
  <1>5. items \in [1..Len(InstancesOf[n]) -> Items]
    BY <1>2, <1>4
  <1> QED BY <1>2, <1>5, IsASeq

LEMMA ConsumeListStep ==
    ASSUME JobsInv, NEW n \in Nodes, ConsumeList(n) PROVE JobsInv'
  <1> DEFINE items == [i \in DOMAIN InstancesOf[n] |-> Setup(InstancesOf[n][i])]
  <1>1. InstancesOf[n] \in Seq(Objects)
    BY JobsAssumption
  <1>2. items \in Seq(Items)
    BY ListItems
  <1>3. listed' \subseteq Objects
    <2>1. ToSet(InstancesOf[n]) \subseteq Objects
      BY <1>1, LenProperties, ElementOfSeq DEF ToSet
    <2> QED BY <2>1 DEF ConsumeList, JobsInv, TypeOK
  <1>4. queue' \in Seq(Events) /\ consumer' \in {"waiting", "running"}
    BY TakeFacts DEF ConsumeList, JobsInv
  <1>5. UNCHANGED <<stopVars, cancelled, job, value, pendingSetups, deferred, data, cache,
                    attempted, seen, announced, envVars>>
    BY DEF ConsumeList, dataVars
  <1>6. Enqueue(n, items)
    BY DEF ConsumeList
  <1>7. cache' \in [Objects -> Values] /\ seen' \in [Objects -> Values]
    BY <1>5 DEF JobsInv, TypeOK
  <1> HIDE DEF items
  <1> QED BY <1>2, <1>3, <1>4, <1>5, <1>6, <1>7, EnqueuedStep

LEMMA ConsumeFrameStep ==
    ASSUME JobsInv, NEW o \in Objects, NEW v \in Values, ConsumeFrame(o, v) PROVE JobsInv'
  <1>1. queue' \in Seq(Events) /\ consumer' \in {"waiting", "running"}
    BY TakeFacts DEF ConsumeFrame, JobsInv
  <1>2. cache' \in [Objects -> Values] /\ seen' \in [Objects -> Values]
    BY DEF ConsumeFrame, JobsInv, TypeOK
  <1>3. UNCHANGED <<stopVars, cancelled, job, value, pendingSetups, listed,
                    deferred, data, attempted, announced, envVars>>
    BY DEF ConsumeFrame
  <1>4. CASE UNCHANGED <<registered, home, pc, todo>>
    <2>1. UNCHANGED <<taskVars, deferred, data, announced, leaked>>
      BY <1>3, <1>4 DEF taskVars, stopVars
    <2>2. TypeOK'
      BY <1>1, <1>2, <1>3, <1>4 DEF JobsInv, TypeOK, stopVars, envVars
    <2> QED BY <2>1, <2>2, WorkersAlone DEF JobsInv
  <1>5. CASE o \in RangeObjects \ attempted /\ Enqueue(NodeOf(o), <<Recover(o)>>)
    <2>1. <<Recover(o)>> \in Seq(Items)
      BY <1>5 DEF Items
    <2>2. listed' \subseteq Objects
      BY <1>3 DEF JobsInv, TypeOK
    <2> QED BY <1>1, <1>2, <1>3, <1>5, <2>1, <2>2, NodeOfFacts, EnqueuedStep
  <1> QED BY <1>4, <1>5 DEF ConsumeFrame

LEMMA DeferFrameStep ==
    ASSUME JobsInv, NEW o \in Objects, NEW v \in Values, DeferFrame(o, v) PROVE JobsInv'
  <1>1. /\ queue' \in Seq(Events) /\ consumer' \in {"waiting", "running"}
        /\ UNCHANGED <<stopVars, taskVars, data, cache, attempted, announced, envVars>>
    BY TakeFacts DEF DeferFrame, JobsInv
  <1>2. seen' \in [Objects -> Values]
    BY DEF DeferFrame, JobsInv, TypeOK
  <1>3. UNCHANGED <<subscribed, stopping, stops, gathered, refreshing, leaked, registered, home,
                    pc, cancelled, job, todo, value, pendingSetups, listed, current, lists>>
    BY <1>1 DEF stopVars, taskVars, envVars
  <1>4. \A p \in Objects : deferred[p] \in Seq(Values) /\ Len(deferred[p]) <= MaxDeferred
    BY DEF JobsInv, TypeOK
  <1>5. CASE registered[NodeOf(o)] # None /\ Len(deferred[o]) < MaxDeferred
    <2>1. deferred' = [deferred EXCEPT ![o] = Append(@, v)]
      BY <1>5 DEF DeferFrame
    <2>2. /\ Append(deferred[o], v) \in Seq(Values)
          /\ Len(Append(deferred[o], v)) <= MaxDeferred
      BY <1>4, <1>5, AppendProperties, JobsAssumption
    <2>3. /\ deferred' \in [Objects -> Seq(Values)]
          /\ deferred'[o] = Append(deferred[o], v)
          /\ \A p \in Objects \ {o} : deferred'[p] = deferred[p]
      BY <2>1, <2>2 DEF JobsInv, TypeOK
    <2>4. \A p \in Objects : Len(deferred'[p]) <= MaxDeferred
      BY <1>4, <2>2, <2>3
    <2>5. TypeOK'
      BY <1>1, <1>2, <1>3, <2>3, <2>4 DEF JobsInv, TypeOK
    <2>6. DeferredIsTransient'
      BY <1>1, <1>3, <1>5, <2>3 DEF DeferFrame, JobsInv, DeferredIsTransient, NodeOf
    <2>7. WorkersInv' /\ SetupInv' /\ RegisteredInv'
      BY <1>1, <1>3 DEF JobsInv, WorkersInv, SetupInv, RegisteredInv, Live
    <2>8. SetupIsExclusive' /\ AnnouncedOnce'
      BY <1>1, <1>3 DEF JobsInv, SetupIsExclusive, SettingUp, AnnouncedOnce
    <2> QED BY <2>5, <2>6, <2>7, <2>8 DEF JobsInv
  <1>6. CASE ~(registered[NodeOf(o)] # None /\ Len(deferred[o]) < MaxDeferred)
    <2>1. UNCHANGED deferred
      BY <1>6 DEF DeferFrame
    <2>2. TypeOK'
      BY <1>1, <1>2, <1>3, <2>1 DEF JobsInv, TypeOK
    <2> QED BY <1>1, <1>3, <2>1, <2>2, WorkersAlone DEF JobsInv
  <1> QED BY <1>5, <1>6

-----------------------------------------------------------------------------
(* The workers.                                                             *)

(* A worker goes on to its next await: the common part of its steps.        *)
LEMMA GoesOnStep ==
    ASSUME JobsInv, NEW w \in Workers, Live(w), NEW pending, Continue(w, pending),
           pending = IF SettingUp(w) THEN pendingSetups \ {job[w]} ELSE pendingSetups,
           UNCHANGED <<stopVars, cancelled, data, cache, seen, envVars, queue, consumer>>,
           \A o \in Objects : announced'[o] = announced[o] \/ (SettingUp(w) /\ o = job[w]),
           announced' \in [Objects -> Nat], AnnouncedOnce'
    PROVE  JobsInv'
  <1>1. UNCHANGED <<subscribed, stopping, stops, gathered, refreshing, leaked, current, lists>>
    BY DEF stopVars, envVars
  <1>2. /\ pc' \in [Workers -> Places]
        /\ registered' \in [Nodes -> Workers \cup {None}]
        /\ home' \in [Workers -> Nodes \cup {None}]
        /\ todo' \in [Workers -> Seq(Items)]
        /\ job' \in [Workers -> Objects \cup {None}]
        /\ value' \in [Workers -> Values]
        /\ deferred' \in [Objects -> Seq(Values)]
        /\ \A o \in Objects : Len(deferred'[o]) <= MaxDeferred
        /\ pendingSetups' \subseteq Objects /\ attempted' \subseteq RangeObjects
        /\ listed' \subseteq Objects
        /\ WorkersInv' /\ RegisteredInv' /\ DeferredIsTransient'
        /\ SetupIsExclusive' /\ SetupInv'
    BY <1>1, ContinueFacts
  <1>3. TypeOK'
    BY <1>1, <1>2 DEF JobsInv, TypeOK, Places
  <1> QED BY <1>2, <1>3 DEF JobsInv

(* The same when nothing is announced.                                      *)
LEMMA GoesOnSilently ==
    ASSUME JobsInv, NEW w \in Workers, Live(w), NEW pending, Continue(w, pending),
           pending = IF SettingUp(w) THEN pendingSetups \ {job[w]} ELSE pendingSetups,
           UNCHANGED <<stopVars, cancelled, data, cache, seen, announced, envVars, queue,
                       consumer>>
    PROVE  JobsInv'
  <1>1. announced' \in [Objects -> Nat] /\ AnnouncedOnce'
    BY DEF JobsInv, TypeOK, AnnouncedOnce
  <1> QED BY <1>1, GoesOnStep

LEMMA BeginStep == ASSUME JobsInv, NEW w \in Workers, Begin(w) PROVE JobsInv'
  <1>1. Live(w) /\ ~SettingUp(w)
    BY DEF Begin, Live, SettingUp
  <1> QED BY <1>1, GoesOnSilently DEF Begin

LEMMA RecoveryDoneStep == ASSUME JobsInv, NEW w \in Workers, RecoveryDone(w) PROVE JobsInv'
  <1>1. Live(w) /\ ~SettingUp(w)
    BY DEF RecoveryDone, Live, SettingUp
  <1> QED BY <1>1, GoesOnSilently DEF RecoveryDone

LEMMA SetupFailsStep == ASSUME JobsInv, NEW w \in Workers, SetupFails(w) PROVE JobsInv'
  <1>1. Live(w) /\ SettingUp(w)
    BY DEF SetupFails, Live, SettingUp
  <1> QED BY <1>1, GoesOnSilently DEF SetupFails

LEMMA NotifyFailsStep == ASSUME JobsInv, NEW w \in Workers, NotifyFails(w) PROVE JobsInv'
  <1>1. Live(w) /\ SettingUp(w)
    BY DEF NotifyFails, Live, SettingUp
  <1> QED BY <1>1, GoesOnSilently DEF NotifyFails

LEMMA SetupDoneStep == ASSUME JobsInv, NEW w \in Workers, SetupDone(w) PROVE JobsInv'
  <1>1. Live(w) /\ SettingUp(w) /\ pc[w] = "notifying"
    BY DEF SetupDone, Live, SettingUp
  <1>2. /\ job[w] \in Objects /\ job[w] \in data /\ announced[job[w]] = 0
        /\ announced \in [Objects -> Nat]
    BY <1>1 DEF JobsInv, WorkersInv, SetupInv, TypeOK
  <1>3. announced' = [announced EXCEPT ![job[w]] = @ + 1] /\ UNCHANGED data
    BY DEF SetupDone
  <1>4. /\ announced' \in [Objects -> Nat] /\ announced'[job[w]] = 1
        /\ \A o \in Objects \ {job[w]} : announced'[o] = announced[o]
    BY <1>2, <1>3
  <1>5. AnnouncedOnce'
    BY <1>2, <1>3, <1>4 DEF JobsInv, AnnouncedOnce
  <1> QED BY <1>1, <1>4, <1>5, GoesOnStep DEF SetupDone

(* A worker that never ran is gone; its node keeps the entry.               *)
LEMMA VanishFacts ==
    ASSUME JobsInv, NEW w \in Workers, pc[w] = "ready", Vanish(w),
           UNCHANGED <<stopVars, listed, data, cache, attempted, seen, announced, envVars,
                       queue, consumer>>,
           cancelled' \in [Workers -> BOOLEAN]
    PROVE  JobsInv'
  <1>1. UNCHANGED <<subscribed, stopping, stops, gathered, refreshing, leaked, current, lists>>
    BY DEF stopVars, envVars
  <1>2. /\ UNCHANGED <<registered, job, value, pendingSetups, deferred>>
        /\ pc' \in [Workers -> Places]
        /\ home' \in [Workers -> Nodes \cup {None}]
        /\ pc'[w] = "none"
        /\ \A u \in Workers \ {w} : pc'[u] = pc[u] /\ home'[u] = home[u]
    BY DEF Vanish, JobsInv, TypeOK, Places
  <1>3. todo' \in [Workers -> Seq(Items)]
    <2>1. <<>> \in Seq(Items)
      OBVIOUS
    <2> QED BY <2>1 DEF Vanish, JobsInv, TypeOK
  <1>4. TypeOK'
    BY <1>1, <1>2, <1>3 DEF JobsInv, TypeOK, Places
  <1>5. WorkersInv' /\ RegisteredInv'
    BY <1>1, <1>2 DEF JobsInv, WorkersInv, RegisteredInv, Live
  <1>6. SetupInv'
    BY <1>2 DEF JobsInv, SetupInv
  <1>7. \A u \in Workers : SettingUp(u)' <=> SettingUp(u)
    BY <1>2 DEF SettingUp
  <1>8. SetupIsExclusive'
    BY <1>2, <1>7 DEF JobsInv, SetupIsExclusive
  <1>9. AnnouncedOnce' /\ DeferredIsTransient'
    BY <1>2 DEF JobsInv, AnnouncedOnce, DeferredIsTransient, NodeOf
  <1> QED BY <1>4, <1>5, <1>6, <1>8, <1>9 DEF JobsInv

LEMMA BeginForgottenStep ==
    ASSUME JobsInv, NEW w \in Workers, BeginForgotten(w) PROVE JobsInv'
  <1>1. cancelled' \in [Workers -> BOOLEAN]
    BY DEF BeginForgotten, JobsInv, TypeOK
  <1> QED BY <1>1, VanishFacts DEF BeginForgotten

LEMMA CancelledEndsStep ==
    ASSUME JobsInv, NEW w \in Workers, CancelledEnds(w) PROVE JobsInv'
  <1>1. /\ cancelled' \in [Workers -> BOOLEAN]
        /\ UNCHANGED <<stopVars, listed, data, cache, attempted, seen, announced,
                       envVars, queue, consumer>>
    BY DEF CancelledEnds, JobsInv, TypeOK
  <1>2. CASE pc[w] = "ready"
    BY <1>1, <1>2, VanishFacts DEF CancelledEnds
  <1>3. CASE pc[w] # "ready"
    <2>1. /\ Live(w) /\ End(w)
          /\ pendingSetups' = IF pc[w] = "recovering" THEN pendingSetups
                              ELSE pendingSetups \ {job[w]}
      BY <1>3 DEF CancelledEnds, Live
    <2>2. UNCHANGED <<subscribed, stopping, stops, gathered, refreshing, leaked, current, lists>>
      BY <1>1 DEF stopVars, envVars
    <2>3. /\ pc' \in [Workers -> Places]
          /\ registered' \in [Nodes -> Workers \cup {None}]
          /\ home' \in [Workers -> Nodes \cup {None}]
          /\ todo' \in [Workers -> Seq(Items)]
          /\ job' \in [Workers -> Objects \cup {None}]
          /\ value' \in [Workers -> Values]
          /\ deferred' \in [Objects -> Seq(Values)]
          /\ \A o \in Objects : Len(deferred'[o]) <= MaxDeferred
          /\ pc'[w] = "none"
          /\ \A u \in Workers \ {w} : pc'[u] = pc[u] /\ job'[u] = job[u]
          /\ WorkersInv' /\ RegisteredInv' /\ DeferredIsTransient'
      BY <1>1, <2>1, <2>2, EndFacts
    <2>4. SettingUp(w) <=> pc[w] # "recovering"
      BY <1>3, <2>1 DEF Live, SettingUp, JobsInv, TypeOK
    <2>5. pendingSetups' = LeftBy(w)
      BY <2>1, <2>4, LeftFacts DEF JobsInv
    <2>6. SetupIsExclusive'
      <3>1. ~SettingUp(w)'
        BY <2>3 DEF SettingUp
      <3> QED BY <2>3, <2>5, <3>1, ExclusiveAgain DEF JobsInv
    <2>7. SetupInv'
      BY <1>1, <2>3 DEF JobsInv, SetupInv
    <2>8. AnnouncedOnce'
      BY <1>1 DEF JobsInv, AnnouncedOnce
    <2>9. TypeOK'
      <3>1. pendingSetups' \subseteq Objects
        BY <2>1 DEF JobsInv, TypeOK
      <3> QED BY <1>1, <2>2, <2>3, <3>1 DEF JobsInv, TypeOK, Places
    <2> QED BY <2>3, <2>6, <2>7, <2>8, <2>9 DEF JobsInv
  <1> QED BY <1>2, <1>3

LEMMA SetupAnsweredStep ==
    ASSUME JobsInv, NEW w \in Workers, SetupAnswered(w) PROVE JobsInv'
  <1>1. /\ pc[w] = "reading" /\ job[w] \in Objects /\ current[job[w]] \in Values
        /\ UNCHANGED <<registered, home, cancelled, job, todo, pendingSetups, listed,
                       subscribed, stopping, stops, gathered, refreshing, leaked,
                       deferred, data, cache, attempted, seen, announced,
                       current, lists, consumer>>
    BY DEF SetupAnswered, JobsInv, WorkersInv, TypeOK, stopVars, dataVars, envVars
  <1>2. queue' \in Seq(Events)
    <2>1. FrameEvent(job[w], current[job[w]]) \in Events
      BY <1>1 DEF Events
    <2> QED BY <2>1, PostFacts DEF SetupAnswered, JobsInv
  <1>3. /\ pc' \in [Workers -> Places] /\ pc'[w] = "read"
        /\ \A u \in Workers \ {w} : pc'[u] = pc[u]
        /\ value' \in [Workers -> Values]
    BY <1>1 DEF SetupAnswered, JobsInv, TypeOK, Places
  <1>4. TypeOK'
    BY <1>1, <1>2, <1>3 DEF JobsInv, TypeOK, Places
  <1>5. WorkersInv' /\ SetupInv' /\ RegisteredInv'
    BY <1>1, <1>3 DEF JobsInv, WorkersInv, SetupInv, RegisteredInv, Live
  <1>6. \A u \in Workers : SettingUp(u)' <=> SettingUp(u)
    BY <1>1, <1>3 DEF SettingUp
  <1>7. SetupIsExclusive'
    BY <1>1, <1>6 DEF JobsInv, SetupIsExclusive
  <1>8. AnnouncedOnce' /\ DeferredIsTransient'
    BY <1>1 DEF JobsInv, AnnouncedOnce, DeferredIsTransient, NodeOf
  <1> QED BY <1>4, <1>5, <1>7, <1>8 DEF JobsInv

LEMMA RegisterStep == ASSUME JobsInv, NEW w \in Workers, Register(w) PROVE JobsInv'
  <1> DEFINE o == job[w]
  <1>1. /\ pc[w] = "read" /\ o \in Objects /\ o \notin data
        /\ UNCHANGED <<registered, home, cancelled, job, todo, value, pendingSetups, listed,
                       subscribed, stopping, stops, gathered, refreshing, leaked,
                       seen, announced, current, lists, queue, consumer>>
        /\ data' = data \cup {o}
        /\ deferred' = [deferred EXCEPT ![o] = <<>>]
    BY DEF Register, JobsInv, WorkersInv, SetupInv, stopVars, envVars
  <1>2. /\ pc' \in [Workers -> Places] /\ pc'[w] = "notifying"
        /\ \A u \in Workers \ {w} : pc'[u] = pc[u]
    BY DEF Register, JobsInv, TypeOK, Places
  <1>3. attempted' \subseteq RangeObjects
    <2>1. PICK now \in {{}, {o} \cap RangeObjects} : attempted' = attempted \cup now
      BY DEF Register
    <2> QED BY <2>1 DEF JobsInv, TypeOK
  <1>4. /\ deferred' \in [Objects -> Seq(Values)] /\ deferred'[o] = <<>>
        /\ \A p \in Objects \ {o} : deferred'[p] = deferred[p]
        /\ \A p \in Objects : Len(deferred'[p]) <= MaxDeferred
    <2>1. <<>> \in Seq(Values) /\ Len(<<>>) = 0 /\ 0 <= MaxDeferred
      BY JobsAssumption
    <2>2. /\ deferred' \in [Objects -> Seq(Values)] /\ deferred'[o] = <<>>
          /\ \A p \in Objects \ {o} : deferred'[p] = deferred[p]
      BY <1>1, <2>1 DEF JobsInv, TypeOK
    <2>3. \A p \in Objects : Len(deferred[p]) <= MaxDeferred
      BY DEF JobsInv, TypeOK
    <2>4. \A p \in Objects : Len(deferred'[p]) <= MaxDeferred
      <3> SUFFICES ASSUME NEW p \in Objects PROVE Len(deferred'[p]) <= MaxDeferred
        OBVIOUS
      <3>1. CASE p = o
        BY <2>1, <2>2, <3>1
      <3>2. CASE p # o
        BY <2>2, <2>3, <3>2
      <3> QED BY <3>1, <3>2
    <2> QED BY <2>2, <2>4
  <1>5. cache' \in [Objects -> Values]
    <2>1. deferred[o] # <<>> => Last(deferred[o]) \in Values
      <3> SUFFICES ASSUME deferred[o] # <<>> PROVE Last(deferred[o]) \in Values
        OBVIOUS
      <3>1. deferred[o] \in Seq(Values)
        BY <1>1 DEF JobsInv, TypeOK
      <3>2. Len(deferred[o]) \in 1..Len(deferred[o])
        BY <3>1, EmptySeq, LenProperties
      <3> QED BY <3>1, <3>2, ElementOfSeq DEF Last
    <2>2. value[w] \in Values
      BY DEF JobsInv, TypeOK
    <2> QED BY <2>1, <2>2 DEF Register, JobsInv, TypeOK
  <1>6. TypeOK'
    BY <1>1, <1>2, <1>3, <1>4, <1>5 DEF JobsInv, TypeOK, Places
  <1>7. WorkersInv' /\ RegisteredInv'
    BY <1>1, <1>2 DEF JobsInv, WorkersInv, RegisteredInv, Live
  <1>8. announced[o] = 0
    <2>1. announced[o] \in Nat /\ announced[o] <= 0
      BY <1>1 DEF JobsInv, TypeOK, AnnouncedOnce
    <2> QED BY <2>1
  <1>9. SetupInv'
    <2> SUFFICES ASSUME NEW u \in Workers
                 PROVE  /\ pc'[u] \in {"reading", "read"} => job[u] \notin data'
                        /\ pc'[u] = "notifying" => job[u] \in data' /\ announced[job[u]] = 0
      BY <1>1 DEF SetupInv
    <2>1. CASE u = w
      BY <1>1, <1>2, <1>8, <2>1
    <2>2. CASE u # w
      <3>1. pc'[u] \in {"reading", "read"} => job[u] # o
        BY <1>1, <1>2, <2>2 DEF JobsInv, SetupIsExclusive, SettingUp
      <3> QED BY <1>1, <1>2, <2>2, <3>1 DEF JobsInv, SetupInv
    <2> QED BY <2>1, <2>2
  <1>10. \A u \in Workers : SettingUp(u)' <=> SettingUp(u)
    BY <1>1, <1>2 DEF SettingUp
  <1>11. SetupIsExclusive'
    BY <1>1, <1>10 DEF JobsInv, SetupIsExclusive
  <1>12. AnnouncedOnce'
    BY <1>1, <1>8 DEF JobsInv, AnnouncedOnce
  <1>13. DeferredIsTransient'
    BY <1>1, <1>4 DEF JobsInv, DeferredIsTransient, NodeOf
  <1> QED BY <1>6, <1>7, <1>9, <1>11, <1>12, <1>13 DEF JobsInv

-----------------------------------------------------------------------------
(* async_stop() and async_start().                                          *)

(* After the workers: the tables are empty, and whoever lives is left over. *)
LEMMA StopRefreshesFacts ==
    ASSUME JobsInv, StopRefreshes,
           UNCHANGED <<home, pc, job, pendingSetups, data, announced>>
    PROVE  /\ WorkersInv' /\ SetupInv' /\ RegisteredInv'
           /\ SetupIsExclusive' /\ AnnouncedOnce' /\ DeferredIsTransient'
           /\ registered' \in [Nodes -> Workers \cup {None}]
           /\ deferred' \in [Objects -> Seq(Values)]
           /\ \A o \in Objects : Len(deferred'[o]) <= MaxDeferred
           /\ leaked' \in BOOLEAN /\ refreshing' \in BOOLEAN
           /\ stopping' \in {"no", "refreshes"}
           /\ consumer' \in {"none", "waiting", "running"} /\ queue' \in Seq(Events)
  <1>1. /\ registered' = [n \in Nodes |-> None] /\ deferred' = [o \in Objects |-> <<>>]
        /\ leaked' = (leaked \/ \E w \in Workers : Live(w))
    BY DEF StopRefreshes
  <1>2. /\ stopping' \in {"no", "refreshes"} /\ refreshing' \in BOOLEAN
        /\ consumer' \in {"none", "waiting", "running"} /\ queue' \in Seq(Events)
    <2>1. CASE refreshing
      <3>1. stopping' = "refreshes" /\ UNCHANGED <<consumer, queue, refreshing>>
        BY <2>1 DEF StopRefreshes
      <3> QED BY <3>1 DEF JobsInv, TypeOK
    <2>2. CASE ~refreshing
      <3>1. stopping' = "no" /\ consumer' = "none" /\ queue' = <<>> /\ refreshing' = FALSE
        BY <2>2 DEF StopRefreshes, StopConsumer
      <3>2. queue' \in Seq(Events)
        <4>1. <<>> \in Seq(Events)
          OBVIOUS
        <4> QED BY <4>1, <3>1
      <3>3. refreshing' \in BOOLEAN
        BY <3>1
      <3>4. stopping' \in {"no", "refreshes"} /\ consumer' \in {"none", "waiting", "running"}
        BY <3>1
      <3> QED BY <3>2, <3>3, <3>4
    <2> QED BY <2>1, <2>2
  <1>3. /\ deferred' \in [Objects -> Seq(Values)]
        /\ \A o \in Objects : Len(deferred'[o]) <= MaxDeferred
    <2>1. <<>> \in Seq(Values) /\ Len(<<>>) = 0 /\ 0 <= MaxDeferred
      BY JobsAssumption
    <2>2. \A o \in Objects : deferred'[o] = <<>>
      BY <1>1
    <2> QED BY <1>1, <2>1, <2>2
  <1>4. RegisteredInv'
    BY <1>1 DEF RegisteredInv, Live
  <1>5. WorkersInv' /\ SetupInv'
    BY DEF JobsInv, WorkersInv, SetupInv, Live
  <1>6. SetupIsExclusive' /\ AnnouncedOnce'
    BY DEF JobsInv, SetupIsExclusive, SettingUp, AnnouncedOnce
  <1>7. DeferredIsTransient'
    BY <1>1 DEF DeferredIsTransient
  <1> QED BY <1>1, <1>2, <1>3, <1>4, <1>5, <1>6, <1>7

LEMMA StopStep == ASSUME JobsInv, Stop PROVE JobsInv'
  <1>1. /\ subscribed' \in BOOLEAN /\ stops' \in 0..MaxStops
        /\ UNCHANGED <<home, pc, job, todo, value, pendingSetups, listed, data, cache,
                       attempted, seen, announced, current, lists>>
    <2>1. stops \in 0..MaxStops /\ MaxStops \in Nat
      BY JobsAssumption DEF JobsInv, TypeOK
    <2>2. stops < MaxStops /\ stops' = stops + 1 /\ subscribed' = FALSE
      BY DEF Stop
    <2>3. UNCHANGED <<home, pc, job, todo, value, pendingSetups, listed, data, cache,
                      attempted, seen, announced, current, lists>>
      BY DEF Stop, envVars
    <2>4. subscribed' \in BOOLEAN
      BY <2>2
    <2>5. stops' \in 0..MaxStops
      BY <2>1, <2>2
    <2> QED BY <2>3, <2>4, <2>5
  <1>2. gathered' \subseteq Workers /\ cancelled' \in [Workers -> BOOLEAN]
    <2>1. gathered' = {registered[n] : n \in Nodes} \ {None}
      BY DEF Stop
    <2>2. \A n \in Nodes : registered[n] \in Workers \cup {None}
      BY DEF JobsInv, TypeOK
    <2>3. \A w \in Workers : cancelled[w] \in BOOLEAN
      BY DEF JobsInv, TypeOK
    <2>4. cancelled' = [w \in Workers |-> cancelled[w] \/ w \in gathered']
      BY DEF Stop
    <2> QED BY <2>1, <2>2, <2>3, <2>4
  <1>3. CASE gathered' # {}
    <2>1. /\ stopping' = "workers"
          /\ UNCHANGED <<consumer, queue, refreshing, registered, deferred, leaked>>
      BY <1>3 DEF Stop
    <2>2. TypeOK'
      BY <1>1, <1>2, <2>1 DEF JobsInv, TypeOK
    <2>3. WorkersInv' /\ SetupInv' /\ RegisteredInv'
      BY <1>1, <2>1 DEF JobsInv, WorkersInv, SetupInv, RegisteredInv, Live
    <2>4. SetupIsExclusive' /\ AnnouncedOnce' /\ DeferredIsTransient'
      BY <1>1, <2>1
        DEF JobsInv, SetupIsExclusive, SettingUp, AnnouncedOnce, DeferredIsTransient, NodeOf
    <2> QED BY <2>2, <2>3, <2>4 DEF JobsInv
  <1>4. CASE ~(gathered' # {})
    <2>1. StopRefreshes
      BY <1>4 DEF Stop
    <2> QED BY <1>1, <1>2, <2>1, StopRefreshesFacts DEF JobsInv, TypeOK
  <1> QED BY <1>3, <1>4

LEMMA StopWorkersEndedStep == ASSUME JobsInv, StopWorkersEnded PROVE JobsInv'
  <1>1. /\ StopRefreshes /\ gathered' = {}
        /\ UNCHANGED <<subscribed, stops, home, pc, cancelled, job, todo, value, pendingSetups,
                       listed, data, cache, attempted, seen, announced, current, lists>>
    BY DEF StopWorkersEnded, envVars
  <1> QED BY <1>1, StopRefreshesFacts DEF JobsInv, TypeOK

LEMMA StopRefreshesEndedStep == ASSUME JobsInv, StopRefreshesEnded PROVE JobsInv'
  <1>1. /\ stopping' = "no" /\ consumer' = "none" /\ queue' = <<>> /\ refreshing' = FALSE
        /\ leaked' = (leaked \/ \E w \in Workers : Live(w))
        /\ UNCHANGED <<subscribed, stops, gathered, registered, home, pc, cancelled, job, todo,
                       value, pendingSetups, listed, deferred, data, cache, attempted, seen,
                       announced, current, lists>>
    BY DEF StopRefreshesEnded, StopConsumer, taskVars, dataVars, envVars
  <1>2. TypeOK'
    <2>1. <<>> \in Seq(Events) /\ leaked' \in BOOLEAN
      BY <1>1
    <2> QED BY <1>1, <2>1 DEF JobsInv, TypeOK
  <1>3. WorkersInv' /\ SetupInv' /\ RegisteredInv'
    BY <1>1 DEF JobsInv, WorkersInv, SetupInv, RegisteredInv, Live
  <1>4. SetupIsExclusive' /\ AnnouncedOnce' /\ DeferredIsTransient'
    BY <1>1 DEF JobsInv, SetupIsExclusive, SettingUp, AnnouncedOnce, DeferredIsTransient, NodeOf
  <1> QED BY <1>2, <1>3, <1>4 DEF JobsInv

LEMMA StartStep == ASSUME JobsInv, Start PROVE JobsInv'
  <1>1. /\ subscribed' = TRUE /\ consumer' = "waiting"
        /\ UNCHANGED <<stopping, stops, gathered, refreshing, leaked, taskVars, dataVars, envVars,
                       queue>>
    BY DEF Start
  <1>2. TypeOK'
    BY <1>1 DEF JobsInv, TypeOK, taskVars, dataVars, envVars
  <1>3. UNCHANGED <<taskVars, deferred, data, announced, leaked>>
    BY <1>1 DEF dataVars
  <1> QED BY <1>2, <1>3, WorkersAlone DEF JobsInv

LEMMA RefreshStep == ASSUME JobsInv, Refresh PROVE JobsInv'
  <1>1. /\ refreshing' = ~refreshing
        /\ UNCHANGED <<subscribed, stopping, stops, gathered, leaked, taskVars, dataVars,
                       envVars, queue, consumer>>
    BY DEF Refresh
  <1>2. TypeOK'
    BY <1>1 DEF JobsInv, TypeOK, taskVars, dataVars, envVars
  <1>3. UNCHANGED <<taskVars, deferred, data, announced, leaked>>
    BY <1>1 DEF dataVars
  <1> QED BY <1>2, <1>3, WorkersAlone DEF JobsInv

-----------------------------------------------------------------------------
LEMMA JobsStep == JobsInv /\ [Next]_vars => JobsInv'
  <1> SUFFICES ASSUME JobsInv, [Next]_vars PROVE JobsInv'
    OBVIOUS
  <1>1. ASSUME NEW n \in Nodes, ConsumeList(n) PROVE JobsInv'
    BY <1>1, ConsumeListStep
  <1>2. ASSUME NEW o \in Objects, NEW v \in Values, ConsumeFrame(o, v) \/ DeferFrame(o, v)
        PROVE  JobsInv'
    BY <1>2, ConsumeFrameStep, DeferFrameStep
  <1>3. ASSUME NEW w \in Workers, Work(w) PROVE JobsInv'
    BY <1>3, BeginStep, BeginForgottenStep, RegisterStep, SetupFailsStep, SetupDoneStep,
       NotifyFailsStep, RecoveryDoneStep, CancelledEndsStep DEF Work
  <1>4. CASE StopGoesOn
    BY <1>4, StopWorkersEndedStep, StopRefreshesEndedStep DEF StopGoesOn
  <1>5. ASSUME NEW n \in Nodes, InstanceListArrives(n) PROVE JobsInv'
    BY <1>5, InstanceListArrivesStep
  <1>6. ASSUME NEW o \in Objects, ValueChanges(o) PROVE JobsInv'
    BY <1>6, ValueChangesStep
  <1>7. ASSUME NEW w \in Workers, SetupAnswered(w) PROVE JobsInv'
    BY <1>7, SetupAnsweredStep
  <1>8. CASE Stop \/ Start \/ Refresh
    BY <1>8, StopStep, StartStep, RefreshStep
  <1>9. CASE UNCHANGED vars
    <2>1. UNCHANGED <<stopVars, taskVars, dataVars, envVars, queue, consumer>>
      BY <1>9 DEF vars
    <2>2. TypeOK'
      BY <2>1 DEF JobsInv, TypeOK, stopVars, taskVars, dataVars, envVars
    <2>3. UNCHANGED <<taskVars, deferred, data, announced, leaked>>
      BY <2>1 DEF dataVars, stopVars
    <2> QED BY <2>2, <2>3, WorkersAlone DEF JobsInv
  <1> QED BY <1>1, <1>2, <1>3, <1>4, <1>5, <1>6, <1>7, <1>8, <1>9 DEF Next, Consume

LEMMA JobsInit == Init => JobsInv
  <1> SUFFICES ASSUME Init PROVE JobsInv
    OBVIOUS
  <1>1. /\ 0 \in Values /\ 0 \in 0..MaxStops /\ 0 \in 0..MaxLists /\ 0 <= MaxDeferred
        /\ <<>> \in Seq(Events) /\ <<>> \in Seq(Items) /\ <<>> \in Seq(Values)
        /\ Len(<<>>) = 0
    BY JobsAssumption DEF Values
  <1>2. TypeOK
    BY <1>1 DEF Init, TypeOK
  <1>3. WorkersInv /\ SetupInv /\ RegisteredInv
    BY DEF Init, WorkersInv, SetupInv, RegisteredInv, Live
  <1>4. SetupIsExclusive
    BY DEF Init, SetupIsExclusive, SettingUp
  <1>5. AnnouncedOnce /\ DeferredIsTransient
    BY DEF Init, AnnouncedOnce, DeferredIsTransient
  <1> QED BY <1>2, <1>3, <1>4, <1>5 DEF JobsInv

(* The inductive invariant: what the tables of the device manager say of a  *)
(* worker, at every await.                                                  *)
THEOREM JobsInvariant == Spec => []JobsInv
  BY JobsInit, JobsStep, PTL DEF Spec

(* The state stays well formed, and never more than MaxDeferred frames are  *)
(* deferred for an object.                                                  *)
THEOREM JobsAreTyped == Spec => []TypeOK
  <1>1. JobsInv => TypeOK
    BY DEF JobsInv
  <1> QED BY <1>1, JobsInvariant, PTL

(* _pending_setups keeps two workers from setting up one object, through    *)
(* stops, restarts and workers that survive them.                           *)
THEOREM SetupsAreExclusive == Spec => []SetupIsExclusive
  <1>1. JobsInv => SetupIsExclusive
    BY DEF JobsInv
  <1> QED BY <1>1, JobsInvariant, PTL

(* No device is announced twice, or without being in data.                  *)
THEOREM DevicesAreAnnouncedOnce == Spec => []AnnouncedOnce
  <1>1. JobsInv => AnnouncedOnce
    BY DEF JobsInv
  <1> QED BY <1>1, JobsInvariant, PTL

(* A node has one worker as long as async_stop() left none behind.          *)
THEOREM NodesAreSerial == Spec => []NodeIsSerial
  <1>1. JobsInv => NodeIsSerial
    BY DEF JobsInv, RegisteredInv, NodeIsSerial
  <1> QED BY <1>1, JobsInvariant, PTL

(* Deferred frames go when the worker of their node ends, or to the object  *)
(* when it is registered.                                                   *)
THEOREM DeferredFramesAreTransient == Spec => []DeferredIsTransient
  <1>1. JobsInv => DeferredIsTransient
    BY DEF JobsInv
  <1> QED BY <1>1, JobsInvariant, PTL
-----------------------------------------------------------------------------
(* The cache.  Who is registered for a node works for it, unless it never   *)
(* ran and async_stop() waits for it; only these are cancelled.             *)
GatheredInv ==
    /\ stopping # "workers" => gathered = {}
    /\ \A w \in Workers : cancelled[w] => Live(w) /\ w \in gathered
    /\ \A n \in Nodes : registered[n] # None =>
         \/ Live(registered[n]) /\ home[registered[n]] = n
         \/ ~Live(registered[n]) /\ registered[n] \in gathered

(* The jobs of a worker are about objects of its node.                      *)
TodoInv ==
    \A w \in Workers :
      /\ Live(w) => \A i \in DOMAIN todo[w] : NodeOf(todo[w][i].object) = home[w]
      /\ pc[w] \notin {"none", "ready"} => NodeOf(job[w]) = home[w]

HomesInv == GatheredInv /\ TodoInv

LEMMA InstancesHome ==
    ASSUME NEW n \in Nodes, NEW o \in ToSet(InstancesOf[n])
    PROVE  NodeOf(o) = n
  <1>1. o \in Objects
    BY JobsAssumption, LenProperties, ElementOfSeq DEF ToSet
  <1>2. NodeOf(o) \in Nodes /\ o \in ToSet(InstancesOf[NodeOf(o)])
    BY <1>1, JobsAssumption DEF NodeOf
  <1>3. ToSet(InstancesOf[NodeOf(o)]) \cap ToSet(InstancesOf[n]) # {}
    BY <1>2
  <1> QED BY <1>2, <1>3, JobsAssumption

LEMMA HomesAlone ==
    ASSUME HomesInv, UNCHANGED <<gathered, cancelled, pc, registered, home, todo, job>>,
           stopping' # "workers" => stopping # "workers"
    PROVE  HomesInv'
  <1>1. GatheredInv'
    BY DEF HomesInv, GatheredInv, Live
  <1>2. TodoInv'
    BY DEF HomesInv, TodoInv, Live, NodeOf
  <1> QED BY <1>1, <1>2 DEF HomesInv

LEMMA EnqueueHomes ==
    ASSUME JobsInv, HomesInv, NEW n \in Nodes, NEW items \in Seq(Items),
           \A i \in DOMAIN items : NodeOf(items[i].object) = n,
           Enqueue(n, items), UNCHANGED <<job, stopping, gathered, cancelled>>
    PROVE  HomesInv'
  <1>1. CASE registered[n] # None
    <2> DEFINE w == registered[n]
    <2>1. /\ UNCHANGED <<registered, home, pc>>
          /\ todo' = [todo EXCEPT ![w] = @ \o items]
      BY <1>1 DEF Enqueue
    <2>2. w \in Workers /\ todo[w] \in Seq(Items)
      BY <1>1 DEF JobsInv, TypeOK
    <2>3. GatheredInv'
      BY <2>1 DEF HomesInv, GatheredInv, Live
    <2>4. ASSUME NEW u \in Workers, Live(u), NEW i \in DOMAIN todo'[u]
          PROVE  NodeOf(todo'[u][i].object) = home[u]
      <3>1. CASE u # w
        <4>1. todo'[u] = todo[u]
          BY <2>1, <3>1 DEF JobsInv, TypeOK
        <4> QED BY <2>4, <4>1 DEF HomesInv, TodoInv
      <3>2. CASE u = w
        <4>1. home[w] = n
          BY <1>1, <2>4, <3>2 DEF HomesInv, GatheredInv
        <4>2. todo'[w] = todo[w] \o items
          BY <2>1, <2>2 DEF JobsInv, TypeOK
        <4>3. \/ i \in DOMAIN todo[w] /\ todo'[w][i] = todo[w][i]
              \/ \E k \in DOMAIN items : todo'[w][i] = items[k]
          <5>1. /\ DOMAIN todo'[w] = 1..Len(todo[w]) + Len(items)
                /\ Len(todo[w]) \in Nat /\ Len(items) \in Nat
                /\ DOMAIN todo[w] = 1..Len(todo[w]) /\ DOMAIN items = 1..Len(items)
                /\ todo'[w][i] = IF i <= Len(todo[w]) THEN todo[w][i]
                                                     ELSE items[i - Len(todo[w])]
            BY <2>2, <2>4, <3>2, <4>2, ConcatProperties, LenProperties
          <5> QED BY <2>4, <3>2, <5>1
        <4> QED BY <2>2, <2>4, <3>2, <4>1, <4>3 DEF HomesInv, TodoInv
      <3> QED BY <3>1, <3>2
    <2>5. TodoInv'
      BY <2>1, <2>4 DEF HomesInv, TodoInv, Live, NodeOf
    <2> QED BY <2>3, <2>5 DEF HomesInv
  <1>2. CASE registered[n] = None
    <2>1. PICK w \in Workers :
            /\ pc[w] = "none" /\ w \notin gathered
            /\ registered' = [registered EXCEPT ![n] = w]
            /\ home' = [home EXCEPT ![w] = n]
            /\ pc' = [pc EXCEPT ![w] = "ready"]
            /\ todo' = [todo EXCEPT ![w] = items]
      BY <1>2 DEF Enqueue, Free
    <2>2. /\ pc'[w] = "ready" /\ home'[w] = n /\ registered'[n] = w /\ todo'[w] = items
          /\ \A u \in Workers \ {w} : pc'[u] = pc[u] /\ home'[u] = home[u] /\ todo'[u] = todo[u]
          /\ \A m \in Nodes \ {n} : registered'[m] = registered[m]
      BY <2>1 DEF JobsInv, TypeOK
    <2>3. GatheredInv'
      <3>1. \A u \in Workers : cancelled[u] => pc'[u] # "none" /\ u \in gathered
        BY <2>1, <2>2 DEF HomesInv, GatheredInv, Live
      <3>2. ASSUME NEW m \in Nodes, registered'[m] # None
            PROVE  \/ pc'[registered'[m]] # "none" /\ home'[registered'[m]] = m
                   \/ pc'[registered'[m]] = "none" /\ registered'[m] \in gathered
        <4>1. CASE m = n
          BY <2>2, <4>1
        <4>2. CASE m # n
          <5>1. registered'[m] = registered[m] /\ registered[m] \in Workers
            BY <2>2, <3>2, <4>2 DEF JobsInv, TypeOK
          <5>2. registered[m] # w
            BY <2>1, <3>2, <5>1 DEF HomesInv, GatheredInv, Live
          <5> QED BY <2>2, <3>2, <5>1, <5>2 DEF HomesInv, GatheredInv, Live
        <4> QED BY <4>1, <4>2
      <3> QED BY <3>1, <3>2 DEF HomesInv, GatheredInv, Live
    <2>4. TodoInv'
      BY <2>2 DEF HomesInv, TodoInv, Live, NodeOf
    <2> QED BY <2>3, <2>4 DEF HomesInv
  <1> QED BY <1>1, <1>2

LEMMA EndHomes ==
    ASSUME JobsInv, HomesInv, NEW w \in Workers, Live(w), End(w),
           UNCHANGED <<stopping, gathered>>,
           \A u \in Workers : cancelled'[u] => cancelled[u] /\ u # w
    PROVE  HomesInv'
  <1>1. home[w] \in Nodes
    BY DEF JobsInv, WorkersInv
  <1>2. /\ pc'[w] = "none" /\ registered'[home[w]] = None
        /\ \A u \in Workers \ {w} : /\ pc'[u] = pc[u] /\ job'[u] = job[u] /\ home'[u] = home[u]
                                    /\ todo'[u] = todo[u]
        /\ \A n \in Nodes \ {home[w]} : registered'[n] = registered[n]
    BY <1>1 DEF JobsInv, TypeOK, End
  <1>3. \A n \in Nodes \ {home[w]} : registered[n] # w
    BY NoneFacts DEF HomesInv, GatheredInv
  <1>4. \A n \in Nodes : registered'[n] # None => /\ registered'[n] = registered[n]
                                                  /\ registered[n] \in Workers \ {w}
    BY <1>1, <1>2, <1>3 DEF JobsInv, TypeOK
  <1>5. GatheredInv'
    BY <1>2, <1>4 DEF HomesInv, GatheredInv, Live
  <1>6. TodoInv'
    BY <1>2 DEF HomesInv, TodoInv, Live, NodeOf
  <1> QED BY <1>5, <1>6 DEF HomesInv

LEMMA ContinueHomes ==
    ASSUME JobsInv, HomesInv, NEW w \in Workers, Live(w), ~cancelled[w],
           NEW pending, Continue(w, pending), UNCHANGED <<stopping, gathered, cancelled>>
    PROVE  HomesInv'
  <1>1. CASE End(w)
    BY <1>1, EndHomes
  <1>2. ASSUME NEW i \in DOMAIN todo[w],
               job' = [job EXCEPT ![w] = todo[w][i].object],
               todo' = [todo EXCEPT ![w] = SubSeq(@, i + 1, Len(@))],
               \/ pc' = [pc EXCEPT ![w] = "reading"]
               \/ pc' = [pc EXCEPT ![w] = "recovering"],
               UNCHANGED <<registered, home>>
        PROVE  HomesInv'
    <2>1. /\ todo[w] \in Seq(Items) /\ i \in 1..Len(todo[w]) /\ Len(todo[w]) \in Nat
          /\ DOMAIN todo[w] = 1..Len(todo[w])
      BY <1>2 DEF JobsInv, TypeOK
    <2>2. /\ job'[w] = todo[w][i].object /\ todo'[w] = SubSeq(todo[w], i + 1, Len(todo[w]))
          /\ pc'[w] \in {"reading", "recovering"}
          /\ \A u \in Workers \ {w} : pc'[u] = pc[u] /\ job'[u] = job[u] /\ todo'[u] = todo[u]
      BY <1>2 DEF JobsInv, TypeOK
    <2>3. GatheredInv'
      <3>1. \A u \in Workers : pc'[u] = "none" <=> pc[u] = "none"
        BY <2>2 DEF Live
      <3>2. \A n \in Nodes : registered[n] # None => registered[n] \in Workers
        BY DEF JobsInv, TypeOK
      <3> QED BY <1>2, <3>1, <3>2 DEF HomesInv, GatheredInv, Live
    <2>4. \A k \in DOMAIN todo[w] : NodeOf(todo[w][k].object) = home[w]
      BY DEF HomesInv, TodoInv
    <2>5. \A k \in DOMAIN todo'[w] : NodeOf(todo'[w][k].object) = home[w]
      <3> SUFFICES ASSUME NEW k \in DOMAIN todo'[w]
                   PROVE  NodeOf(todo'[w][k].object) = home[w]
        OBVIOUS
      <3>1. k + i \in DOMAIN todo[w] /\ todo'[w][k] = todo[w][k + i]
        <4> DEFINE n == Len(todo[w])
        <4>1. todo'[w] = SubSeq(todo[w], i + 1, n) /\ n \in Nat /\ i \in 1..n
          BY <2>1, <2>2
        <4>2. \A l \in i + 1..n : todo[w][l] \in Items
          BY <2>1, <4>1, ElementOfSeq
        <4>3. /\ SubSeq(todo[w], i + 1, n) \in Seq(Items)
              /\ Len(SubSeq(todo[w], i + 1, n)) = IF i + 1 <= n THEN n - (i + 1) + 1 ELSE 0
              /\ \A l \in 1..n - (i + 1) + 1 :
                   SubSeq(todo[w], i + 1, n)[l] = todo[w][i + 1 + l - 1]
          <5> HIDE DEF n
          <5>1. i + 1 \in Int /\ n \in Int
            BY <4>1
          <5> QED BY <4>2, <5>1, SubSeqProperties
        <4> HIDE DEF n
        <4>4. k \in 1..n - i
          BY <4>1, <4>3, LenProperties
        <4>5. todo'[w][k] = todo[w][i + 1 + k - 1] /\ i + 1 + k - 1 = k + i /\ k + i \in 1..n
          BY <4>1, <4>3, <4>4
        <4> QED BY <2>1, <4>5 DEF n
      <3> QED BY <2>4, <3>1
    <2>6. TodoInv'
      <3>1. NodeOf(job'[w]) = home[w]
        BY <2>2, <2>4
      <3>2. ASSUME NEW u \in Workers
            PROVE  /\ pc'[u] # "none" =>
                        \A k \in DOMAIN todo'[u] : NodeOf(todo'[u][k].object) = home'[u]
                   /\ pc'[u] \notin {"none", "ready"} => NodeOf(job'[u]) = home'[u]
        <4>1. CASE u = w
          BY <1>2, <2>5, <3>1, <4>1
        <4>2. CASE u # w
          BY <1>2, <2>2, <4>2 DEF HomesInv, TodoInv, Live
        <4> QED BY <4>1, <4>2
      <3> QED BY <3>2 DEF TodoInv, Live, NodeOf
    <2> QED BY <2>3, <2>6 DEF HomesInv
  <1>3. \/ End(w)
        \/ \E i \in DOMAIN todo[w] :
             /\ job' = [job EXCEPT ![w] = todo[w][i].object]
             /\ todo' = [todo EXCEPT ![w] = SubSeq(@, i + 1, Len(@))]
             /\ \/ pc' = [pc EXCEPT ![w] = "reading"]
                \/ pc' = [pc EXCEPT ![w] = "recovering"]
             /\ UNCHANGED <<registered, home>>
    BY Zenon DEF Continue
  <1> QED BY <1>1, <1>2, <1>3

(* w goes on with the same job.                                             *)
LEMMA SameJobHomes ==
    ASSUME JobsInv, HomesInv, NEW w \in Workers, NEW p, pc' = [pc EXCEPT ![w] = p],
           pc[w] \notin {"none", "ready"}, p # "none",
           UNCHANGED <<stopping, gathered, cancelled, registered, home, todo, job>>
    PROVE  HomesInv'
  <1>1. /\ pc'[w] = p /\ \A u \in Workers \ {w} : pc'[u] = pc[u]
        /\ \A n \in Nodes : registered[n] # None => registered[n] \in Workers
    BY DEF JobsInv, TypeOK
  <1>2. GatheredInv'
    BY <1>1 DEF HomesInv, GatheredInv, Live
  <1>3. TodoInv'
    BY <1>1 DEF HomesInv, TodoInv, Live, NodeOf
  <1> QED BY <1>2, <1>3 DEF HomesInv

LEMMA VanishHomes ==
    ASSUME JobsInv, HomesInv, NEW w \in Workers, Live(w), Vanish(w),
           UNCHANGED <<stopping, gathered>>,
           \A u \in Workers : cancelled'[u] => cancelled[u] /\ u # w,
           registered[home[w]] = w => w \in gathered
    PROVE  HomesInv'
  <1>1. /\ pc'[w] = "none" /\ UNCHANGED <<registered, job>>
        /\ \A u \in Workers \ {w} : pc'[u] = pc[u] /\ home'[u] = home[u] /\ todo'[u] = todo[u]
    BY DEF JobsInv, TypeOK, Vanish
  <1>2. GatheredInv'
    <2>1. \A u \in Workers : cancelled'[u] => pc'[u] # "none" /\ u \in gathered
      BY <1>1 DEF HomesInv, GatheredInv, Live
    <2>2. ASSUME NEW n \in Nodes, registered[n] # None
          PROVE  \/ pc'[registered[n]] # "none" /\ home'[registered[n]] = n
                 \/ pc'[registered[n]] = "none" /\ registered[n] \in gathered
      <3>1. registered[n] \in Workers
        BY <2>2 DEF JobsInv, TypeOK
      <3>2. CASE registered[n] = w
        <4>1. home[w] = n
          BY <2>2, <3>2 DEF HomesInv, GatheredInv
        <4> QED BY <1>1, <3>2, <4>1
      <3>3. CASE registered[n] # w
        BY <1>1, <2>2, <3>1, <3>3 DEF HomesInv, GatheredInv, Live
      <3> QED BY <3>2, <3>3
    <2> QED BY <1>1, <2>1, <2>2 DEF HomesInv, GatheredInv, Live
  <1>3. TodoInv'
    BY <1>1 DEF HomesInv, TodoInv, Live, NodeOf
  <1> QED BY <1>2, <1>3 DEF HomesInv

LEMMA StopHomes == ASSUME JobsInv, HomesInv, Stop PROVE HomesInv'
  <1>1. /\ stopping = "no" /\ gathered = {}
        /\ \A w \in Workers : ~cancelled[w]
        /\ \A n \in Nodes : registered[n] # None => /\ Live(registered[n])
                                                    /\ home[registered[n]] = n
    BY DEF Stop, HomesInv, GatheredInv
  <1>2. /\ gathered' = {registered[n] : n \in Nodes} \ {None}
        /\ cancelled' = [w \in Workers |-> cancelled[w] \/ w \in gathered']
        /\ UNCHANGED <<home, pc, job, todo>>
    BY DEF Stop
  <1>3. TodoInv'
    BY <1>2 DEF HomesInv, TodoInv, Live, NodeOf
  <1>4. CASE gathered' # {}
    <2>1. stopping' = "workers" /\ UNCHANGED registered
      BY <1>4 DEF Stop
    <2>2. \A w \in Workers : cancelled'[w] => Live(w) /\ w \in gathered'
      BY <1>1, <1>2
    <2> QED BY <1>1, <1>2, <1>3, <2>1, <2>2 DEF HomesInv, GatheredInv, Live
  <1>5. CASE ~(gathered' # {})
    <2>1. registered' = [n \in Nodes |-> None]
      BY <1>5 DEF Stop, StopRefreshes
    <2>2. \A w \in Workers : ~cancelled'[w]
      BY <1>1, <1>2, <1>5
    <2> QED BY <1>3, <1>5, <2>1, <2>2 DEF HomesInv, GatheredInv
  <1> QED BY <1>4, <1>5

LEMMA StopWorkersEndedHomes == ASSUME JobsInv, HomesInv, StopWorkersEnded PROVE HomesInv'
  <1>1. /\ gathered' = {} /\ registered' = [n \in Nodes |-> None]
        /\ UNCHANGED <<home, pc, cancelled, job, todo>>
        /\ \A w \in gathered : pc[w] = "none"
    BY DEF StopWorkersEnded, StopRefreshes
  <1>2. \A w \in Workers : ~cancelled[w]
    BY <1>1 DEF HomesInv, GatheredInv, Live
  <1>3. TodoInv'
    BY <1>1 DEF HomesInv, TodoInv, Live, NodeOf
  <1> QED BY <1>1, <1>2, <1>3 DEF HomesInv, GatheredInv

LEMMA HomesStep ==
    ASSUME JobsInv, HomesInv, [Next]_vars
    PROVE  HomesInv'
  <1>1. ASSUME NEW n \in Nodes, ConsumeList(n) PROVE HomesInv'
    <2> DEFINE items == [i \in DOMAIN InstancesOf[n] |-> Setup(InstancesOf[n][i])]
    <2>1. items \in Seq(Items) /\ \A i \in DOMAIN items : NodeOf(items[i].object) = n
      <3>1. \A i \in DOMAIN items : items[i].object \in ToSet(InstancesOf[n])
        BY DEF Setup, ToSet
      <3> QED BY <3>1, InstancesHome, ListItems
    <2>2. Enqueue(n, items) /\ UNCHANGED <<job, stopping, gathered, cancelled>>
      BY <1>1 DEF ConsumeList, stopVars
    <2> HIDE DEF items
    <2> QED BY <2>1, <2>2, EnqueueHomes
  <1>2. ASSUME NEW o \in Objects, NEW v \in Values, ConsumeFrame(o, v) PROVE HomesInv'
    <2>1. UNCHANGED <<job, stopping, gathered, cancelled>>
      BY <1>2 DEF ConsumeFrame, stopVars
    <2>2. CASE UNCHANGED <<registered, home, pc, todo>>
      BY <2>1, <2>2, HomesAlone
    <2>3. CASE o \in RangeObjects \ attempted /\ Enqueue(NodeOf(o), <<Recover(o)>>)
      <3> DEFINE items == <<Recover(o)>>
      <3>1. items \in Seq(Items) /\ \A i \in DOMAIN items : items[i].object = o
        BY <2>3 DEF Items, Recover
      <3> HIDE DEF items
      <3> QED BY <2>1, <2>3, <3>1, NodeOfFacts, EnqueueHomes DEF items
    <2> QED BY <1>2, <2>2, <2>3 DEF ConsumeFrame
  <1>3. ASSUME NEW o \in Objects, NEW v \in Values, DeferFrame(o, v) PROVE HomesInv'
    BY <1>3, HomesAlone DEF DeferFrame, stopVars, taskVars
  <1>4. ASSUME NEW w \in Workers, Begin(w) \/ RecoveryDone(w) PROVE HomesInv'
    BY <1>4, ContinueHomes DEF Begin, RecoveryDone, Live, stopVars
  <1>5. ASSUME NEW w \in Workers, SetupFails(w) \/ SetupDone(w) \/ NotifyFails(w) PROVE HomesInv'
    BY <1>5, ContinueHomes DEF SetupFails, SetupDone, NotifyFails, Live, stopVars
  <1>6. ASSUME NEW w \in Workers, SetupAnswered(w) \/ Register(w) PROVE HomesInv'
    <2>1. /\ pc[w] \notin {"none", "ready"}
          /\ \/ pc' = [pc EXCEPT ![w] = "read"]
             \/ pc' = [pc EXCEPT ![w] = "notifying"]
          /\ UNCHANGED <<stopping, gathered, cancelled, registered, home, todo, job>>
      BY <1>6 DEF SetupAnswered, Register, stopVars
    <2> QED BY <2>1, SameJobHomes
  <1>7. ASSUME NEW w \in Workers, BeginForgotten(w) PROVE HomesInv'
    <2>1. /\ Live(w) /\ Vanish(w) /\ registered[home[w]] # w /\ ~cancelled[w]
          /\ UNCHANGED <<stopping, gathered, cancelled>>
      BY <1>7 DEF BeginForgotten, Live, stopVars
    <2>2. \A u \in Workers : cancelled'[u] => cancelled[u] /\ u # w
      BY <2>1
    <2> QED BY <2>1, <2>2, VanishHomes
  <1>8. ASSUME NEW w \in Workers, CancelledEnds(w) PROVE HomesInv'
    <2>1. /\ Live(w) /\ cancelled' = [cancelled EXCEPT ![w] = FALSE]
          /\ UNCHANGED <<stopping, gathered>>
          /\ Vanish(w) \/ End(w)
      BY <1>8 DEF CancelledEnds, Live, stopVars
    <2>2. \A u \in Workers : cancelled'[u] => cancelled[u] /\ u # w
      BY <2>1 DEF JobsInv, TypeOK
    <2>3. w \in gathered
      BY <1>8 DEF CancelledEnds, HomesInv, GatheredInv
    <2> QED BY <2>1, <2>2, <2>3, EndHomes, VanishHomes
  <1>9. ASSUME NEW w \in Workers, Work(w) PROVE HomesInv'
    BY <1>4, <1>5, <1>6, <1>7, <1>8, <1>9 DEF Work
  <1>10. CASE StopGoesOn
    <2>1. CASE StopRefreshesEnded
      BY <2>1, HomesAlone DEF StopRefreshesEnded, StopConsumer, taskVars
    <2> QED BY <1>10, <2>1, StopWorkersEndedHomes DEF StopGoesOn
  <1>11. ASSUME NEW n \in Nodes, InstanceListArrives(n) PROVE HomesInv'
    BY <1>11, HomesAlone DEF InstanceListArrives, stopVars, taskVars
  <1>12. ASSUME NEW o \in Objects, ValueChanges(o) PROVE HomesInv'
    BY <1>12, HomesAlone DEF ValueChanges, stopVars, taskVars
  <1>13. CASE Start \/ Refresh
    BY <1>13, HomesAlone DEF Start, Refresh, taskVars
  <1>14. CASE UNCHANGED vars
    BY <1>14, HomesAlone DEF vars, stopVars, taskVars
  <1> QED BY <1>1, <1>2, <1>3, <1>6, <1>9, <1>10, <1>11, <1>12, <1>13, <1>14, StopHomes
          DEF Next, Consume

LEMMA HomesInit == Init => HomesInv
  BY NoneFacts DEF Init, HomesInv, GatheredInv, TodoInv, Live

-----------------------------------------------------------------------------
(* No value is seen, or on its way, that the device does not have yet.      *)
SeenInv ==
    /\ \A o \in Objects : seen[o] <= current[o]
    /\ \A i \in DOMAIN queue :
         queue[i].kind = "frame" => queue[i].value <= current[queue[i].object]

(* What was deferred for an object ends with the last frame of it.          *)
DeferredInv == \A o \in Objects : deferred[o] # <<>> => Last(deferred[o]) = seen[o]

(* What a setup read is the latest, unless frames were deferred since.      *)
ReadInv ==
    ~leaked => \A w \in Workers :
        pc[w] = "read" /\ deferred[job[w]] = <<>> => seen[job[w]] <= value[w]

(* No frame is dropped for want of room while its node is set up.           *)
RoomIsLeft ==
    \A o \in Objects, v \in Values :
        DeferFrame(o, v) /\ registered[NodeOf(o)] # None => Len(deferred[o]) < MaxDeferred

LEMMA EventFacts ==
    /\ \A n \in Nodes : ListEvent(n).kind = "list"
    /\ \A o \in Objects, v \in Values :
         /\ FrameEvent(o, v).kind = "frame" /\ FrameEvent(o, v).object = o
         /\ FrameEvent(o, v).value = v
  BY DEF ListEvent, FrameEvent

LEMMA SeenAfterPost ==
    ASSUME JobsInv, SeenInv, NEW e \in Events, Post(e), UNCHANGED seen,
           \A o \in Objects : current'[o] \in Nat /\ current[o] <= current'[o],
           e.kind = "frame" => e.value <= current'[e.object]
    PROVE  SeenInv'
  <1>1. /\ queue \in Seq(Events) /\ \A o \in Objects : seen[o] \in Nat /\ current[o] \in Nat
    BY JobsAssumption DEF JobsInv, TypeOK, Values
  <1>2. \A o \in Objects : seen'[o] <= current'[o]
    BY <1>1 DEF SeenInv
  <1>3. \A i \in DOMAIN queue : queue[i].kind = "frame" =>
            queue[i].value <= current'[queue[i].object]
    <2> SUFFICES ASSUME NEW i \in DOMAIN queue, queue[i].kind = "frame"
                 PROVE  queue[i].value <= current'[queue[i].object]
      OBVIOUS
    <2>1. queue[i] \in Events
      BY <1>1, ElementOfSeq, LenProperties
    <2>2. queue[i].object \in Objects /\ queue[i].value \in Nat
      <3>1. PICK o \in Objects, v \in Values : queue[i] = FrameEvent(o, v)
        BY <2>1, EventFacts DEF Events
      <3> QED BY <3>1, JobsAssumption DEF FrameEvent, Values
    <2> QED BY <1>1, <2>2 DEF SeenInv
  <1>4. \A i \in DOMAIN queue' : queue'[i] = e \/ (i \in DOMAIN queue /\ queue'[i] = queue[i])
    <2>1. CASE queue' = Append(queue, e)
      BY <1>1, <2>1, AppendProperties, LenProperties
    <2>2. CASE queue' = queue
      BY <2>2
    <2> QED BY <2>1, <2>2 DEF Post
  <1> QED BY <1>2, <1>3, <1>4 DEF SeenInv

LEMMA SeenAfterTake ==
    ASSUME JobsInv, SeenInv, NEW e, Take(e), UNCHANGED current,
           \A o \in Objects : \/ seen'[o] = seen[o]
                              \/ e.kind = "frame" /\ e.object = o /\ seen'[o] = e.value
    PROVE  SeenInv'
  <1>1. queue \in Seq(Events) /\ queue # <<>> /\ e = Head(queue) /\ queue' = Tail(queue)
    BY DEF JobsInv, TypeOK, Take
  <1>2. 1 \in DOMAIN queue /\ e = queue[1]
    BY <1>1, EmptySeq, LenProperties
  <1>3. \A i \in DOMAIN queue' : i + 1 \in DOMAIN queue /\ queue'[i] = queue[i + 1]
    BY <1>1, HeadTailProperties, LenProperties
  <1>4. \A o \in Objects : seen'[o] <= current'[o]
    BY <1>2 DEF SeenInv
  <1> QED BY <1>3, <1>4 DEF SeenInv

LEMMA SeenAlone ==
    ASSUME SeenInv, UNCHANGED <<seen, current>>, queue' \in {queue, <<>>}
    PROVE  SeenInv'
  <1>1. CASE queue' = queue
    BY <1>1 DEF SeenInv
  <1>2. CASE queue' = <<>>
    <2>1. DOMAIN queue' = {}
      BY <1>2
    <2> QED BY <2>1 DEF SeenInv
  <1> QED BY <1>1, <1>2

LEMMA SeenStep ==
    ASSUME JobsInv, SeenInv, [Next]_vars
    PROVE  SeenInv'
  <1>0. \A o \in Objects : current[o] \in Nat /\ current[o] <= current[o]
    BY JobsAssumption DEF JobsInv, TypeOK, Values
  <1>1. ASSUME NEW n \in Nodes, ConsumeList(n) PROVE SeenInv'
    BY <1>1, SeenAfterTake DEF ConsumeList, dataVars, envVars
  <1>2. ASSUME NEW o \in Objects, NEW v \in Values, ConsumeFrame(o, v) \/ DeferFrame(o, v)
        PROVE  SeenInv'
    <2>1. /\ Take(FrameEvent(o, v)) /\ UNCHANGED current
          /\ seen'[o] = v /\ \A p \in Objects \ {o} : seen'[p] = seen[p]
      BY <1>2 DEF ConsumeFrame, DeferFrame, envVars, JobsInv, TypeOK
    <2> QED BY <2>1, EventFacts, SeenAfterTake
  <1>3. ASSUME NEW w \in Workers, Work(w) PROVE SeenInv'
    BY <1>3, SeenAlone
       DEF Work, Begin, BeginForgotten, Register, SetupFails, SetupDone, NotifyFails,
           RecoveryDone, CancelledEnds, envVars
  <1>4. CASE StopGoesOn \/ Stop \/ Start \/ Refresh
    BY <1>4, SeenAlone
       DEF StopGoesOn, StopWorkersEnded, StopRefreshesEnded, Stop, StopRefreshes, StopConsumer,
           Start, Refresh, dataVars, envVars
  <1>5. ASSUME NEW n \in Nodes, InstanceListArrives(n) PROVE SeenInv'
    <2>1. /\ Post(ListEvent(n)) /\ UNCHANGED <<seen, current>> /\ ListEvent(n) \in Events
          /\ ListEvent(n).kind = "list"
      BY <1>5, EventFacts DEF InstanceListArrives, dataVars, Events
    <2> QED BY <1>0, <2>1, SeenAfterPost
  <1>6. ASSUME NEW o \in Objects, ValueChanges(o) PROVE SeenInv'
    <2>1. current[o] \in Nat /\ current[o] + 1 \in Values
      BY <1>6, JobsAssumption DEF ValueChanges, JobsInv, TypeOK, Values
    <2> DEFINE e == FrameEvent(o, current[o] + 1)
    <2>2. /\ e \in Events /\ e.kind = "frame" /\ e.object = o /\ e.value = current[o] + 1
      BY <2>1, EventFacts DEF Events
    <2>3. /\ Post(e) /\ UNCHANGED seen
          /\ current'[o] = current[o] + 1 /\ \A p \in Objects \ {o} : current'[p] = current[p]
      BY <1>6 DEF ValueChanges, dataVars, JobsInv, TypeOK
    <2> HIDE DEF e
    <2>4. \A p \in Objects : current'[p] \in Nat /\ current[p] <= current'[p]
      BY <1>0, <2>1, <2>3
    <2>5. e.value <= current'[e.object]
      BY <2>1, <2>2, <2>3
    <2> QED BY <2>2, <2>3, <2>4, <2>5, SeenAfterPost
  <1>7. ASSUME NEW w \in Workers, SetupAnswered(w) PROVE SeenInv'
    <2> DEFINE e == FrameEvent(job[w], current[job[w]])
    <2>1. job[w] \in Objects /\ current[job[w]] \in Values
      BY <1>7 DEF SetupAnswered, JobsInv, WorkersInv, TypeOK
    <2>2. /\ e \in Events /\ e.kind = "frame" /\ e.object = job[w]
          /\ e.value = current[job[w]]
      BY <2>1, EventFacts DEF Events
    <2>3. Post(e) /\ UNCHANGED <<seen, current>>
      BY <1>7 DEF SetupAnswered, dataVars, envVars
    <2> HIDE DEF e
    <2>4. e.value <= current'[e.object]
      BY <1>0, <2>1, <2>2, <2>3
    <2> QED BY <1>0, <2>2, <2>3, <2>4, SeenAfterPost
  <1>8. CASE UNCHANGED vars
    BY <1>8, SeenAlone DEF vars, dataVars, envVars
  <1> QED BY <1>1, <1>2, <1>3, <1>4, <1>5, <1>6, <1>7, <1>8 DEF Next, Consume

-----------------------------------------------------------------------------
(* What the values and the frames kept say of each other.                   *)
CurrentInv == DeferredInv /\ ReadInv /\ CacheIsCurrent

(* A step that touches no value keeps them, if it brings nobody to "read".  *)
LEMMA ValuesAlone ==
    ASSUME CurrentInv, UNCHANGED <<seen, deferred, data, cache, value, job>>,
           leaked => leaked', \A w \in Workers : pc'[w] = "read" => pc[w] = "read"
    PROVE  CurrentInv'
  BY DEF CurrentInv, DeferredInv, ReadInv, CacheIsCurrent

(* Neither does a worker that leaves an object: the frames it drops are     *)
(* those of its own node.                                                   *)
LEMMA LeavesOff ==
    ASSUME JobsInv, HomesInv, CurrentInv, NEW w \in Workers, Live(w),
           UNCHANGED <<seen, data, cache, leaked>>, pc'[w] # "read",
           \A u \in Workers \ {w} : pc'[u] = pc[u] /\ job'[u] = job[u] /\ value'[u] = value[u],
           deferred' = deferred \/ deferred' = DropDeferred(home[w])
    PROVE  CurrentInv'
  <1>1. \A o \in Objects : deferred'[o] = <<>> \/ deferred'[o] = deferred[o]
    BY DEF DropDeferred
  <1>2. DeferredInv'
    BY <1>1 DEF CurrentInv, DeferredInv
  <1>3. CacheIsCurrent'
    BY DEF CurrentInv, CacheIsCurrent
  <1>4. ReadInv'
    <2> SUFFICES ASSUME ~leaked, NEW u \in Workers, pc'[u] = "read", deferred'[job'[u]] = <<>>
                 PROVE  seen[job'[u]] <= value'[u]
      BY DEF ReadInv
    <2>1. u # w /\ pc[u] = "read" /\ job'[u] = job[u] /\ value'[u] = value[u]
      OBVIOUS
    <2>2. job[u] \in Objects /\ NodeOf(job[u]) = home[u]
      BY <2>1 DEF JobsInv, WorkersInv, HomesInv, TodoInv
    <2>3. registered[home[u]] = u /\ registered[home[w]] = w
      BY <2>1 DEF JobsInv, RegisteredInv, Live
    <2>4. deferred'[job[u]] = deferred[job[u]]
      BY <2>1, <2>2, <2>3 DEF DropDeferred
    <2> QED BY <2>1, <2>4 DEF CurrentInv, ReadInv
  <1> QED BY <1>2, <1>3, <1>4 DEF CurrentInv

LEMMA ContinueFrames ==
    ASSUME JobsInv, HomesInv, CurrentInv, NEW w \in Workers, Live(w), NEW pending,
           Continue(w, pending), UNCHANGED <<seen, data, cache, leaked>>
    PROVE  CurrentInv'
  <1>1. \/ End(w)
        \/ \E o : /\ job' = [job EXCEPT ![w] = o]
                  /\ value' = [value EXCEPT ![w] = 0]
                  /\ \/ pc' = [pc EXCEPT ![w] = "reading"]
                     \/ pc' = [pc EXCEPT ![w] = "recovering"]
                  /\ UNCHANGED deferred
    BY Zenon DEF Continue
  <1>2. CASE End(w)
    <2>1. /\ pc'[w] # "read" /\ deferred' = DropDeferred(home[w])
          /\ \A u \in Workers \ {w} : /\ pc'[u] = pc[u] /\ job'[u] = job[u]
                                      /\ value'[u] = value[u]
      BY <1>2 DEF End, JobsInv, TypeOK
    <2> QED BY <2>1, LeavesOff
  <1>3. CASE ~End(w)
    <2>1. /\ pc'[w] # "read" /\ deferred' = deferred
          /\ \A u \in Workers \ {w} : /\ pc'[u] = pc[u] /\ job'[u] = job[u]
                                      /\ value'[u] = value[u]
      BY <1>1, <1>3 DEF JobsInv, TypeOK
    <2> QED BY <2>1, LeavesOff
  <1> QED BY <1>2, <1>3

LEMMA CancelledEndsFrames ==
    ASSUME JobsInv, HomesInv, CurrentInv, NEW w \in Workers, CancelledEnds(w)
    PROVE  CurrentInv'
  <1>1. Live(w) /\ UNCHANGED <<seen, data, cache, leaked>>
    BY DEF CancelledEnds, Live, stopVars
  <1>2. /\ pc'[w] # "read"
        /\ deferred' = deferred \/ deferred' = DropDeferred(home[w])
        /\ \A u \in Workers \ {w} : /\ pc'[u] = pc[u] /\ job'[u] = job[u]
                                    /\ value'[u] = value[u]
    <2>1. CASE pc[w] = "ready"
      BY <2>1 DEF CancelledEnds, Vanish, JobsInv, TypeOK
    <2>2. CASE pc[w] # "ready"
      BY <2>2 DEF CancelledEnds, End, JobsInv, TypeOK
    <2> QED BY <2>1, <2>2
  <1> QED BY <1>1, <1>2, LeavesOff

(* What the device answers is the latest: no frame can be newer.            *)
LEMMA SetupAnsweredFrames ==
    ASSUME JobsInv, SeenInv, CurrentInv, NEW w \in Workers, SetupAnswered(w)
    PROVE  CurrentInv'
  <1>1. /\ UNCHANGED <<seen, deferred, data, cache, job, leaked>>
        /\ value'[w] = current[job[w]]
        /\ \A u \in Workers \ {w} : pc'[u] = pc[u] /\ value'[u] = value[u]
    BY DEF SetupAnswered, stopVars, dataVars, JobsInv, TypeOK
  <1>2. job[w] \in Objects
    BY DEF SetupAnswered, JobsInv, WorkersInv
  <1> QED BY <1>1, <1>2
          DEF SeenInv, CurrentInv, DeferredInv, ReadInv, CacheIsCurrent

(* The object that is registered gets what was read, or the last frame that *)
(* was deferred; no other worker is setting it up.                          *)
LEMMA RegisterFrames ==
    ASSUME JobsInv, CurrentInv, NEW w \in Workers, Register(w)
    PROVE  CurrentInv'
  <1> DEFINE o == job[w]
  <1>1. /\ o \in Objects /\ pc[w] = "read"
        /\ cache'[o] = IF deferred[o] = <<>> THEN value[w] ELSE Last(deferred[o])
        /\ \A p \in Objects \ {o} : cache'[p] = cache[p] /\ deferred'[p] = deferred[p]
        /\ deferred'[o] = <<>> /\ data' = data \cup {o}
        /\ UNCHANGED <<seen, value, job, leaked>>
        /\ pc'[w] # "read" /\ \A u \in Workers \ {w} : pc'[u] = pc[u]
    BY DEF Register, stopVars, JobsInv, TypeOK, WorkersInv
  <1>2. \A u \in Workers \ {w} : pc[u] = "read" => job[u] \in Objects /\ job[u] # o
    BY <1>1 DEF JobsInv, SetupIsExclusive, SettingUp, WorkersInv
  <1>3. seen[o] \in Nat
    BY <1>1, JobsAssumption DEF JobsInv, TypeOK, Values
  <1>4. DeferredInv'
    BY <1>1 DEF CurrentInv, DeferredInv
  <1>5. ReadInv'
    BY <1>1, <1>2 DEF CurrentInv, ReadInv
  <1>6. CacheIsCurrent'
    <2>1. ~leaked => cache'[o] >= seen[o]
      BY <1>1, <1>3 DEF CurrentInv, DeferredInv, ReadInv
    <2>2. data \subseteq Objects
      BY DEF JobsInv, TypeOK
    <2> QED BY <1>1, <2>1, <2>2 DEF CurrentInv, CacheIsCurrent
  <1> QED BY <1>4, <1>5, <1>6 DEF CurrentInv

(* A frame of an object in data goes to its cache; nothing is deferred for  *)
(* it, and nobody is reading it.                                            *)
LEMMA ConsumeFrameFrames ==
    ASSUME JobsInv, CurrentInv, NEW o \in Objects, NEW v \in Values, ConsumeFrame(o, v)
    PROVE  CurrentInv'
  <1>1. /\ o \in data /\ UNCHANGED <<deferred, data, job, value, leaked>>
        /\ cache'[o] = v /\ seen'[o] = v
        /\ \A p \in Objects \ {o} : cache'[p] = cache[p] /\ seen'[p] = seen[p]
    BY DEF ConsumeFrame, stopVars, JobsInv, TypeOK
  <1>2. \A w \in Workers : pc'[w] = "read" => pc[w] = "read"
    <2>1. CASE UNCHANGED pc
      BY <2>1
    <2>2. CASE Enqueue(NodeOf(o), <<Recover(o)>>)
      BY <2>2 DEF Enqueue, JobsInv, TypeOK
    <2> QED BY <2>1, <2>2 DEF ConsumeFrame
  <1>3. deferred[o] = <<>>
    BY <1>1 DEF JobsInv, DeferredIsTransient
  <1>4. \A w \in Workers : pc[w] = "read" => job[w] \in Objects /\ job[w] # o
    BY <1>1 DEF JobsInv, SetupInv, WorkersInv
  <1>5. DeferredInv'
    BY <1>1, <1>3 DEF CurrentInv, DeferredInv
  <1>6. ReadInv'
    BY <1>1, <1>2, <1>4 DEF CurrentInv, ReadInv
  <1>7. CacheIsCurrent'
    <2>1. v <= v /\ data \subseteq Objects
      BY JobsAssumption DEF Values, JobsInv, TypeOK
    <2> QED BY <1>1, <2>1 DEF CurrentInv, CacheIsCurrent
  <1> QED BY <1>5, <1>6, <1>7 DEF CurrentInv

(* A frame of another object is the last one deferred for it, as long as    *)
(* there is room; while one reads it, its node has a worker.                *)
LEMMA DeferFrameFrames ==
    ASSUME JobsInv, HomesInv, CurrentInv, NEW o \in Objects, NEW v \in Values,
           DeferFrame(o, v), RoomIsLeft
    PROVE  CurrentInv'
  <1>1. /\ o \notin data /\ UNCHANGED <<data, cache, pc, job, value, leaked>>
        /\ seen'[o] = v /\ \A p \in Objects \ {o} : seen'[p] = seen[p]
    BY DEF DeferFrame, stopVars, taskVars, JobsInv, TypeOK
  <1>2. \A p \in Objects \ {o} : deferred'[p] = deferred[p]
    BY DEF DeferFrame, JobsInv, TypeOK
  <1>3. CASE registered[NodeOf(o)] # None
    <2>1. deferred'[o] = Append(deferred[o], v) /\ deferred[o] \in Seq(Values)
      BY <1>3 DEF RoomIsLeft, DeferFrame, JobsInv, TypeOK
    <2>2. deferred'[o] # <<>> /\ Last(deferred'[o]) = v
      <3> DEFINE n == Len(deferred[o])
      <3>1. n \in Nat /\ Len(deferred'[o]) = n + 1 /\ deferred'[o][n + 1] = v
        BY <2>1, LenProperties, AppendProperties
      <3>2. deferred'[o] # <<>>
        BY <2>1, AppendProperties
      <3> HIDE DEF n
      <3> QED BY <3>1, <3>2 DEF Last
    <2>3. DeferredInv'
      BY <1>1, <1>2, <2>2 DEF CurrentInv, DeferredInv
    <2>4. ReadInv'
      BY <1>1, <1>2, <2>2 DEF CurrentInv, ReadInv, JobsInv, WorkersInv
    <2>5. CacheIsCurrent'
      BY <1>1 DEF CurrentInv, CacheIsCurrent, JobsInv, TypeOK
    <2> QED BY <2>3, <2>4, <2>5 DEF CurrentInv
  <1>4. CASE registered[NodeOf(o)] = None
    <2>1. deferred'[o] = deferred[o] /\ deferred[o] = <<>>
      BY <1>4 DEF DeferFrame, JobsInv, DeferredIsTransient
    <2>2. \A w \in Workers : ~leaked /\ pc[w] = "read" => job[w] \in Objects /\ job[w] # o
      BY <1>4, NoneFacts
         DEF JobsInv, WorkersInv, RegisteredInv, HomesInv, TodoInv, Live
    <2>3. DeferredInv'
      BY <1>1, <1>2, <2>1 DEF CurrentInv, DeferredInv
    <2>4. ReadInv'
      BY <1>1, <1>2, <2>2 DEF CurrentInv, ReadInv
    <2>5. CacheIsCurrent'
      BY <1>1 DEF CurrentInv, CacheIsCurrent, JobsInv, TypeOK
    <2> QED BY <2>3, <2>4, <2>5 DEF CurrentInv
  <1> QED BY <1>3, <1>4

(* The tables are cleared: whoever still reads then was left behind.        *)
LEMMA StopRefreshesFrames ==
    ASSUME CurrentInv, StopRefreshes, UNCHANGED <<seen, data, cache, pc>>
    PROVE  CurrentInv'
  <1>1. /\ \A o \in Objects : deferred'[o] = <<>>
        /\ ~leaked' => ~leaked /\ \A w \in Workers : pc[w] = "none"
    BY DEF StopRefreshes, Live
  <1>2. DeferredInv'
    BY <1>1 DEF DeferredInv
  <1>3. ReadInv'
    BY <1>1 DEF ReadInv
  <1>4. CacheIsCurrent'
    BY <1>1 DEF CurrentInv, CacheIsCurrent
  <1> QED BY <1>2, <1>3, <1>4 DEF CurrentInv

LEMMA CurrentStep ==
    ASSUME JobsInv, HomesInv, SeenInv, CurrentInv, [Next]_vars, [RoomIsLeft]_vars
    PROVE  CurrentInv'
  <1>1. ASSUME NEW n \in Nodes, ConsumeList(n) PROVE CurrentInv'
    <2> DEFINE items == [i \in DOMAIN InstancesOf[n] |-> Setup(InstancesOf[n][i])]
    <2>1. Enqueue(n, items) /\ UNCHANGED <<seen, deferred, data, cache, value, job, leaked>>
      BY <1>1 DEF ConsumeList, stopVars, dataVars
    <2> HIDE DEF items
    <2>2. \A w \in Workers : pc'[w] = "read" => pc[w] = "read"
      BY <2>1 DEF Enqueue, JobsInv, TypeOK
    <2> QED BY <2>1, <2>2, ValuesAlone
  <1>2. ASSUME NEW o \in Objects, NEW v \in Values, ConsumeFrame(o, v) PROVE CurrentInv'
    BY <1>2, ConsumeFrameFrames
  <1>3. ASSUME NEW o \in Objects, NEW v \in Values, DeferFrame(o, v) PROVE CurrentInv'
    <2>1. queue' # queue
      <3>1. queue \in Seq(Events) /\ queue # <<>> /\ queue' = Tail(queue)
        BY <1>3 DEF DeferFrame, Take, JobsInv, TypeOK
      <3>2. Len(queue) \in Nat /\ Len(queue') = Len(queue) - 1
        BY <3>1, HeadTailProperties, LenProperties
      <3> QED BY <3>2
    <2>2. RoomIsLeft
      BY <2>1 DEF vars
    <2> QED BY <1>3, <2>2, DeferFrameFrames
  <1>4. ASSUME NEW w \in Workers, Begin(w) \/ SetupFails(w) \/ SetupDone(w) \/ NotifyFails(w)
                                  \/ RecoveryDone(w)
        PROVE  CurrentInv'
    <2>1. /\ Live(w) /\ UNCHANGED <<seen, data, cache, leaked>>
          /\ \E pending : Continue(w, pending)
      BY <1>4
         DEF Begin, SetupFails, SetupDone, NotifyFails, RecoveryDone, Live, stopVars
    <2> QED BY <2>1, ContinueFrames
  <1>5. ASSUME NEW w \in Workers, Work(w) PROVE CurrentInv'
    <2>1. CASE BeginForgotten(w)
      <3>1. /\ UNCHANGED <<seen, deferred, data, cache, value, job, leaked>>
            /\ \A u \in Workers : pc'[u] = "read" => pc[u] = "read"
        BY <2>1 DEF BeginForgotten, Vanish, stopVars, JobsInv, TypeOK
      <3> QED BY <3>1, ValuesAlone
    <2> QED BY <1>4, <1>5, <2>1, RegisterFrames, CancelledEndsFrames DEF Work
  <1>6. CASE StopGoesOn
    <2>1. CASE StopWorkersEnded
      BY <2>1, StopRefreshesFrames DEF StopWorkersEnded
    <2>2. CASE StopRefreshesEnded
      <3>1. UNCHANGED <<seen, deferred, data, cache, value, job, pc>>
        BY <2>2 DEF StopRefreshesEnded, taskVars, dataVars
      <3>2. leaked => leaked'
        BY <2>2 DEF StopRefreshesEnded
      <3> QED BY <3>1, <3>2, ValuesAlone
    <2> QED BY <1>6, <2>1, <2>2 DEF StopGoesOn
  <1>7. CASE Stop
    <2>1. CASE gathered' # {}
      <3>1. UNCHANGED <<seen, deferred, data, cache, value, job, pc, leaked>>
        BY <1>7, <2>1 DEF Stop
      <3> QED BY <3>1, ValuesAlone
    <2>2. CASE gathered' = {}
      BY <1>7, <2>2, StopRefreshesFrames DEF Stop
    <2> QED BY <2>1, <2>2
  <1>8. ASSUME UNCHANGED <<seen, deferred, data, cache, value, job, pc, leaked>>
        PROVE  CurrentInv'
    BY <1>8, ValuesAlone
  <1>9. ASSUME NEW n \in Nodes, InstanceListArrives(n) PROVE CurrentInv'
    BY <1>8, <1>9 DEF InstanceListArrives, stopVars, taskVars, dataVars
  <1>10. ASSUME NEW o \in Objects, ValueChanges(o) PROVE CurrentInv'
    BY <1>8, <1>10 DEF ValueChanges, stopVars, taskVars, dataVars
  <1>11. CASE Start \/ Refresh \/ UNCHANGED vars
    BY <1>8, <1>11 DEF Start, Refresh, vars, stopVars, taskVars, dataVars
  <1>12. ASSUME NEW w \in Workers, SetupAnswered(w) PROVE CurrentInv'
    BY <1>12, SetupAnsweredFrames
  <1> QED BY <1>1, <1>2, <1>3, <1>5, <1>6, <1>7, <1>9, <1>10, <1>11, <1>12 DEF Next, Consume

LEMMA FramesInit == Init => SeenInv /\ CurrentInv
  BY DEF Init, SeenInv, CurrentInv, DeferredInv, ReadInv, CacheIsCurrent

(* The cache of a device is never older than the last frame the consumer    *)
(* took, in every behaviour in which _MAX_DEFERRED_FRAMES leaves room for   *)
(* the frames of an object that is set up: the next one would be dropped by *)
(* process_frame_event, and the newest of all with it.                      *)
THEOREM CacheStaysCurrent == Spec /\ [][RoomIsLeft]_vars => []CacheIsCurrent
  <1>1. Init => HomesInv /\ SeenInv /\ CurrentInv
    BY HomesInit, FramesInit
  <1>2. JobsInv /\ HomesInv /\ SeenInv /\ CurrentInv /\ [Next]_vars /\ [RoomIsLeft]_vars
          => (HomesInv /\ SeenInv /\ CurrentInv)'
    BY HomesStep, SeenStep, CurrentStep
  <1>3. CurrentInv => CacheIsCurrent
    BY DEF CurrentInv
  <1> QED BY <1>1, <1>2, <1>3, JobsInvariant, PTL DEF Spec
=============================================================================
