------------------------- MODULE PropertyPollerProofs -------------------------
(***************************************************************************)
(* Theorems about PropertyPoller for any EPCs, consumers, intervals and     *)
(* latencies.                                                               *)
(***************************************************************************)
EXTENDS PropertyPoller, FiniteSetTheorems, SequenceTheorems, TLAPS

(* The consumers whose subscription asks for e.                             *)
Wanting(e) == {c \in Consumers : subs[c] # None /\ subs[c].live /\ e \in subs[c].epcs}

(* The counter counts them, and a device is confirmed from the first on.    *)
SubsInv ==
    /\ confirmed <=> \E c \in Consumers : subs[c] # None
    /\ \A e \in Monitored : counts[e] = Cardinality(Wanting(e))

(* The tiers of a device are those of the EPCs it does not notify.          *)
EpcsInv ==
    node # None => /\ node.poll = ComputePollEpcs(node.notified).poll
                   /\ node.fast = ComputePollEpcs(node.notified).fast

(* How long ago the tier of e was polled.                                   *)
AgeOf(s, e) == IF e \in FastCandidates THEN s.fastAge ELSE s.age

(* Whatever was skipped is owed, and its tier has not been polled since.    *)
SkipInv ==
    \A e \in Monitored : skipped[e] > 0 =>
        /\ e \in Owed
        /\ state # None
        /\ AgeOf(state, e) # None
        /\ skipped[e] * FastInterval <= AgeOf(state, e)

PollerInv ==
    /\ TypeOK /\ OneCycle /\ AvailabilityHonest
    /\ SubsInv /\ EpcsInv /\ SkipInv /\ NeverNeglected

-----------------------------------------------------------------------------
LEMMA NoneFacts ==
    /\ None \notin Nat /\ None \notin CycleNames /\ None \notin Ages
    /\ None # TRUE /\ None # FALSE /\ TRUE # FALSE
    /\ None \notin PollStates /\ None \notin DeviceData /\ None \notin Subscriptions
    /\ MaxInterval \in Nat \ {0}
  <1>1. None \notin PollStates /\ None \notin DeviceData /\ None \notin Subscriptions
    BY NoneAssumption
  <1>2. None \notin Nat /\ MaxInterval \in Nat \ {0}
    BY PollerAssumption
  <1>3. CycleNames \subseteq Nat /\ Ages \subseteq Nat
    BY PollerAssumption DEF Ages
  <1>4. None \notin BOOLEAN
    BY PollerAssumption
  <1> QED BY <1>1, <1>2, <1>3, <1>4

LEMMA NoPollsFacts == NoPolls \in PollStates
  BY PollerAssumption DEF NoPolls, PollStates

LEMMA PowerIsInt == \A n \in Nat : 2 ^ n \in Int
  BY Z3

(* No tier waits longer than MaxInterval.                                   *)
LEMMA IntervalFacts ==
    ASSUME NEW s \in {None} \cup PollStates, NEW base \in Nat
    PROVE  TierInterval(s, base) \in Int /\ TierInterval(s, base) <= MaxInterval
  <1>1. base \in Int /\ MaxInterval \in Int
    BY PollerAssumption
  <1>2. CASE s = None
    BY <1>1, <1>2 DEF TierInterval, Least, Most
  <1>3. CASE s # None
    <2>1. s.failures \in Nat /\ s.ewma \in Nat \cup {None}
      BY <1>3, PollerAssumption DEF PollStates, Smoothed
    <2>2. 2 ^ s.failures \in Int
      BY <2>1, PowerIsInt
    <2> DEFINE longer == base * 2 ^ s.failures
               usual == IF s.ewma = None THEN base ELSE s.ewma
    <2>3. longer \in Int /\ usual \in Int
      BY <1>1, <2>1, <2>2
    <2>4. TierInterval(s, base) = Least(Most(base, Most(usual, longer)), MaxInterval)
      BY <1>3 DEF TierInterval
    <2> HIDE DEF longer, usual
    <2> QED BY <1>1, <2>3, <2>4 DEF Least, Most
  <1> QED BY <1>2, <1>3

(* So a tier that is not due was polled less than MaxInterval ago.          *)
LEMMA NotDueFacts ==
    ASSUME NEW s \in PollStates
    PROVE  /\ ~Due(s.age, EffectiveInterval(s)) => s.age \in Nat /\ s.age < MaxInterval
           /\ ~Due(s.fastAge, EffectiveFastInterval(s)) =>
                s.fastAge \in Nat /\ s.fastAge < MaxInterval
  <1>1. /\ EffectiveInterval(s) \in Int /\ EffectiveInterval(s) <= MaxInterval
        /\ TierInterval(s, FastInterval) \in Int
        /\ TierInterval(s, FastInterval) <= MaxInterval
    BY IntervalFacts, PollerAssumption DEF EffectiveInterval
  <1>2. EffectiveFastInterval(s) \in Int /\ EffectiveFastInterval(s) <= MaxInterval
    BY <1>1 DEF EffectiveFastInterval, Least
  <1>3. /\ s.age # None => s.age \in Nat
        /\ s.fastAge # None => s.fastAge \in Nat
        /\ MaxInterval \in Nat
    BY PollerAssumption DEF PollStates, Ages
  <1> QED BY <1>1, <1>2, <1>3 DEF Due

(* Time passes for both tiers, and nothing else changes.                    *)
LEMMA AgedFacts ==
    ASSUME NEW s \in PollStates, NEW elapsed \in Nat
    PROVE  /\ Aged(s, elapsed) \in PollStates
           /\ Aged(s, elapsed).cycle = s.cycle /\ Aged(s, elapsed).ewma = s.ewma
           /\ Aged(s, elapsed).failures = s.failures
           /\ \A e : AgeOf(s, e) # None =>
                /\ AgeOf(s, e) \in Nat /\ AgeOf(Aged(s, elapsed), e) \in Nat
                /\ AgeOf(Aged(s, elapsed), e) >= AgeOf(s, e)
                /\ AgeOf(Aged(s, elapsed), e) < MaxInterval =>
                      AgeOf(Aged(s, elapsed), e) = AgeOf(s, e) + elapsed
           /\ \A e : AgeOf(s, e) = None => AgeOf(Aged(s, elapsed), e) = None
  <1> DEFINE Older(a) == IF a = None THEN None ELSE Least(a + elapsed, MaxInterval)
  <1>1. ASSUME NEW a \in Ages \cup {None}
        PROVE  /\ Older(a) \in Ages \cup {None}
               /\ a # None => /\ a \in Nat /\ Older(a) \in Nat /\ Older(a) >= a
                              /\ Older(a) < MaxInterval => Older(a) = a + elapsed
               /\ a = None => Older(a) = None
    BY PollerAssumption DEF Ages, Least
  <1>2. s.age \in Ages \cup {None} /\ s.fastAge \in Ages \cup {None}
    BY DEF PollStates
  <1>3. Aged(s, elapsed) = [s EXCEPT !.age = Older(s.age), !.fastAge = Older(s.fastAge)]
    BY DEF Aged, PollStates
  <1> HIDE DEF Older
  <1>4. Older(s.age) \in Ages \cup {None} /\ Older(s.fastAge) \in Ages \cup {None}
    BY <1>1, <1>2
  <1>5. /\ Aged(s, elapsed) \in PollStates
        /\ Aged(s, elapsed).age = Older(s.age) /\ Aged(s, elapsed).fastAge = Older(s.fastAge)
        /\ Aged(s, elapsed).cycle = s.cycle /\ Aged(s, elapsed).ewma = s.ewma
        /\ Aged(s, elapsed).failures = s.failures
    BY <1>3, <1>4 DEF PollStates
  <1>6. ASSUME NEW e
        PROVE  /\ AgeOf(s, e) \in Ages \cup {None}
               /\ AgeOf(Aged(s, elapsed), e) = Older(AgeOf(s, e))
    BY <1>2, <1>5 DEF AgeOf
  <1> QED BY <1>1, <1>5, <1>6

(* The sorted EPCs are EPCs of the set.                                     *)
LEMMA AscendingFacts ==
    ASSUME NEW epcs \in SUBSET Monitored, NEW s \in Ascending(epcs)
    PROVE  s \in EpcSeqs /\ ToSet(s) \subseteq epcs
  <1>1. /\ IsFiniteSet(epcs) /\ Cardinality(epcs) \in Nat
        /\ Cardinality(Monitored) \in Nat
        /\ Cardinality(epcs) <= Cardinality(Monitored)
    BY PollerAssumption, FS_Subset, FS_CardinalityType
  <1>2. s \in [1 .. Cardinality(epcs) -> epcs]
    BY DEF Ascending
  <1>3. s \in [1 .. Cardinality(epcs) -> Monitored]
    BY <1>2
  <1>4. Cardinality(epcs) \in 0 .. Cardinality(Monitored)
    BY <1>1
  <1> QED BY <1>2, <1>3, <1>4 DEF EpcSeqs, ToSet

(* Both parts of a divided sequence are sequences of EPCs.                  *)
LEMMA BatchFacts ==
    ASSUME NEW s \in EpcSeqs, NEW capacity \in Capacities
    PROVE  FirstBatch(s, capacity).batch \in EpcSeqs /\ FirstBatch(s, capacity).rest \in EpcSeqs
  <1>1. Cardinality(Monitored) \in Nat
    BY PollerAssumption, FS_CardinalityType
  <1>2. s \in Seq(Monitored) /\ Len(s) \in 0 .. Cardinality(Monitored)
    BY <1>1 DEF EpcSeqs
  <1>3. ASSUME NEW m \in Nat, NEW n \in Nat, m >= 1, n <= Len(s), m <= n + 1
        PROVE  SubSeq(s, m, n) \in EpcSeqs
    <2>1. SubSeq(s, m, n) \in Seq(Monitored) /\ Len(SubSeq(s, m, n)) = n - m + 1
      BY <1>2, <1>3, SubSeqProperties
    <2>2. SubSeq(s, m, n) \in [1 .. (n - m + 1) -> Monitored]
      BY <2>1, LenProperties
    <2>3. n - m + 1 \in 0 .. Cardinality(Monitored)
      BY <1>1, <1>2, <1>3
    <2> QED BY <2>2, <2>3 DEF EpcSeqs
  <1>4. CASE capacity = None
    <2>1. <<>> \in [1 .. 0 -> Monitored]
      OBVIOUS
    <2>2. <<>> \in EpcSeqs
      BY <1>1, <2>1 DEF EpcSeqs
    <2> QED BY <1>4, <2>2 DEF FirstBatch
  <1>5. CASE capacity # None
    <2> DEFINE n == Least(capacity, Len(s))
    <2>1. n \in Nat /\ n <= Len(s) /\ Len(s) \in Nat
      BY <1>2, <1>5, PollerAssumption DEF Least
    <2>2. SubSeq(s, 1, n) \in EpcSeqs /\ SubSeq(s, n + 1, Len(s)) \in EpcSeqs
      BY <1>3, <2>1
    <2> QED BY <1>5, <2>2 DEF FirstBatch
  <1> QED BY <1>4, <1>5

-----------------------------------------------------------------------------
(* Subscriptions.                                                           *)
LEMMA CountFacts ==
    ASSUME NEW S \in SUBSET Consumers
    PROVE  /\ IsFiniteSet(S) /\ Cardinality(S) \in 0 .. Cardinality(Consumers)
           /\ Cardinality(S) > 0 <=> S # {}
           /\ \A c \in Consumers : c \notin S => Cardinality(S \cup {c}) = Cardinality(S) + 1
           /\ \A c \in S : Cardinality(S \ {c}) = Cardinality(S) - 1
  <1>1. IsFiniteSet(Consumers)
    BY PollerAssumption
  <1>2. IsFiniteSet(S) /\ Cardinality(S) <= Cardinality(Consumers)
    BY <1>1, FS_Subset
  <1>3. Cardinality(S) \in Nat /\ Cardinality(Consumers) \in Nat
    BY <1>1, <1>2, FS_CardinalityType
  <1>4. Cardinality(S) = 0 <=> S = {}
    BY <1>2, FS_EmptySet
  <1>5. \A c \in Consumers : c \notin S => Cardinality(S \cup {c}) = Cardinality(S) + 1
    BY <1>2, FS_AddElement
  <1>6. \A c \in S : Cardinality(S \ {c}) = Cardinality(S) - 1
    BY <1>2, FS_RemoveElement
  <1> QED BY <1>2, <1>3, <1>4, <1>5, <1>6

(* An EPC is counted exactly when a live subscription asks for it.          *)
LEMMA CountedIsWanted ==
    ASSUME SubsInv, NEW e \in Monitored
    PROVE  e \in Subscribed <=> \E c \in Consumers : subs[c] # None /\ subs[c].live /\ e \in subs[c].epcs
  <1>1. Wanting(e) \in SUBSET Consumers
    BY DEF Wanting
  <1>2. counts[e] > 0 <=> Wanting(e) # {}
    BY <1>1, CountFacts DEF SubsInv
  <1> QED BY <1>2 DEF Subscribed, Wanting

(* What is owed is what the tiers poll for.                                 *)
LEMMA OwedByTier ==
    ASSUME SubsInv, EpcsInv, node # None
    PROVE  /\ Owed = EffectiveEpcs(node.poll) \cup EffectiveEpcs(node.fast)
           /\ \A e \in Owed : IF e \in FastCandidates
                              THEN e \in EffectiveEpcs(node.fast)
                              ELSE e \in EffectiveEpcs(node.poll)
           /\ Owed \subseteq Monitored
  <1> DEFINE pollable == (Monitored \cap Gettable) \ node.notified
  <1>1. node.poll = pollable \ FastCandidates /\ node.fast = pollable \cap FastCandidates
    BY DEF EpcsInv, ComputePollEpcs
  <1>2. ASSUME NEW e
        PROVE  e \in Owed <=> e \in pollable /\ (confirmed => e \in Subscribed)
    <2>1. e \in Owed <=>
            /\ e \in pollable
            /\ confirmed => \E c \in Consumers :
                 subs[c] # None /\ subs[c].live /\ e \in subs[c].epcs
      BY DEF Owed, SubsInv
    <2>2. CASE e \in pollable
      <3>1. e \in Monitored
        BY <2>2
      <3> QED BY <2>1, <2>2, <3>1, CountedIsWanted
    <2> QED BY <2>1, <2>2
  <1>3. ASSUME NEW e, NEW S
        PROVE  e \in EffectiveEpcs(S) <=> e \in S /\ (confirmed => e \in Subscribed)
    BY DEF EffectiveEpcs
  <1> HIDE DEF pollable
  <1>4. \A e : e \in Owed => e \in pollable
    BY <1>2
  <1> QED BY <1>1, <1>2, <1>3, <1>4 DEF pollable

(* A new subscription is counted once for each of its EPCs.                 *)
LEMMA SubscribeFacts ==
    ASSUME TypeOK, SubsInv, NEW c \in Consumers, Subscribe(c)
    PROVE  /\ SubsInv' /\ confirmed' \in BOOLEAN
           /\ counts' \in [Monitored -> 0 .. Cardinality(Consumers)]
           /\ subs' \in [Consumers -> {None} \cup Subscriptions]
  <1>1. PICK epcs \in Bundles :
          /\ subs' = [subs EXCEPT ![c] = [epcs |-> epcs, live |-> TRUE]]
          /\ counts' = [e \in Monitored |->
                          IF e \in epcs THEN counts[e] + 1 ELSE counts[e]]
    BY DEF Subscribe
  <1> DEFINE new == [epcs |-> epcs, live |-> TRUE]
  <1>2. new \in Subscriptions /\ new # None /\ new.epcs = epcs /\ new.live = TRUE
    <2>1. new \in Subscriptions
      BY DEF Subscriptions
    <2> QED BY <2>1, NoneFacts
  <1>3. /\ subs' \in [Consumers -> {None} \cup Subscriptions]
        /\ subs'[c] = new /\ \A d \in Consumers \ {c} : subs'[d] = subs[d]
    BY <1>1, <1>2 DEF TypeOK
  <1>4. ASSUME NEW e \in Monitored
        PROVE  counts'[e] = Cardinality(Wanting(e)') /\ Wanting(e)' \in SUBSET Consumers
    <2>1. Wanting(e)' = IF e \in epcs THEN Wanting(e) \cup {c} ELSE Wanting(e)
      BY <1>2, <1>3 DEF Wanting, Subscribe
    <2>2. Wanting(e) \in SUBSET Consumers /\ c \notin Wanting(e)
      BY DEF Wanting, Subscribe
    <2>3. counts[e] = Cardinality(Wanting(e))
      BY DEF SubsInv
    <2> QED BY <1>1, <2>1, <2>2, <2>3, CountFacts
  <1>5. SubsInv'
    BY <1>2, <1>3, <1>4 DEF SubsInv, Subscribe
  <1>6. counts' \in [Monitored -> 0 .. Cardinality(Consumers)]
    <2>1. \A e \in Monitored : counts'[e] \in 0 .. Cardinality(Consumers)
      BY <1>4, CountFacts
    <2> QED BY <1>1, <2>1
  <1> QED BY <1>3, <1>5, <1>6 DEF Subscribe

(* One that ends is taken off the counts once, and confirms the device      *)
(* still.                                                                   *)
LEMMA UnsubscribeFacts ==
    ASSUME TypeOK, SubsInv, NEW c \in Consumers, Unsubscribe(c)
    PROVE  /\ SubsInv'
           /\ counts' \in [Monitored -> 0 .. Cardinality(Consumers)]
           /\ subs' \in [Consumers -> {None} \cup Subscriptions]
  <1>1. /\ subs[c] \in Subscriptions /\ subs[c].live
        /\ subs' = [subs EXCEPT ![c].live = FALSE]
        /\ counts' = [e \in Monitored |->
               IF e \in subs[c].epcs THEN Most(counts[e] - 1, 0) ELSE counts[e]]
    BY DEF Unsubscribe, Without, TypeOK
  <1> DEFINE ended == [subs[c] EXCEPT !.live = FALSE]
  <1>2. ended \in Subscriptions /\ ended # None /\ ended.epcs = subs[c].epcs /\ ~ended.live
    BY <1>1, NoneFacts DEF Subscriptions
  <1>3. /\ subs' \in [Consumers -> {None} \cup Subscriptions]
        /\ subs'[c] = ended /\ \A d \in Consumers \ {c} : subs'[d] = subs[d]
    BY <1>1, <1>2 DEF TypeOK
  <1>4. ASSUME NEW e \in Monitored
        PROVE  counts'[e] = Cardinality(Wanting(e)') /\ Wanting(e)' \in SUBSET Consumers
    <2>1. Wanting(e)' = Wanting(e) \ {c}
      BY <1>2, <1>3 DEF Wanting
    <2>2. Wanting(e) \in SUBSET Consumers /\ (c \in Wanting(e) <=> e \in subs[c].epcs)
      BY <1>1 DEF Wanting, Unsubscribe
    <2>3. counts[e] = Cardinality(Wanting(e)) /\ Cardinality(Wanting(e)) \in Nat
      BY <2>2, CountFacts DEF SubsInv
    <2>4. CASE e \in subs[c].epcs
      <3>1. /\ Cardinality(Wanting(e) \ {c}) = Cardinality(Wanting(e)) - 1
            /\ Cardinality(Wanting(e)) > 0
        BY <2>2, <2>4, CountFacts
      <3>2. counts'[e] = counts[e] - 1
        BY <1>1, <2>3, <2>4, <3>1 DEF Most
      <3> QED BY <2>1, <2>2, <2>3, <3>1, <3>2
    <2>5. CASE e \notin subs[c].epcs
      <3>1. Wanting(e)' = Wanting(e)
        BY <2>1, <2>2, <2>5
      <3> QED BY <1>1, <2>2, <2>3, <2>5, <3>1
    <2> QED BY <2>4, <2>5
  <1>5. SubsInv'
    <2>1. \A d \in Consumers : subs'[d] # None <=> subs[d] # None
      BY <1>2, <1>3 DEF Unsubscribe
    <2> QED BY <1>4, <2>1 DEF SubsInv, Unsubscribe
  <1>6. counts' \in [Monitored -> 0 .. Cardinality(Consumers)]
    <2>1. \A e \in Monitored : counts'[e] \in 0 .. Cardinality(Consumers)
      BY <1>4, CountFacts
    <2> QED BY <1>1, <2>1
  <1> QED BY <1>3, <1>5, <1>6

-----------------------------------------------------------------------------
(* The history.                                                             *)

(* What is no longer owed is forgotten, and the schedule goes on.           *)
LEMMA StillOwedKeeps ==
    ASSUME TypeOK, SkipInv, NeverNeglected, skipped' = StillOwed, UNCHANGED state
    PROVE  skipped' \in [Monitored -> Nat] /\ SkipInv' /\ NeverNeglected'
  <1>1. \A e \in Monitored :
           skipped[e] \in Nat /\ skipped'[e] = IF e \in Owed' THEN skipped[e] ELSE 0
    BY DEF StillOwed, TypeOK
  <1>2. FastInterval \in Nat /\ MaxInterval \in Nat \ {0}
    BY PollerAssumption
  <1>3. skipped' \in [Monitored -> Nat]
    BY <1>1 DEF StillOwed
  <1>4. SkipInv'
    BY <1>1 DEF SkipInv, AgeOf
  <1>5. NeverNeglected'
    BY <1>1, <1>2 DEF NeverNeglected
  <1> QED BY <1>3, <1>4, <1>5

(* As long as no tier is polled, the ages only grow.                        *)
LEMMA SkipKeeps ==
    ASSUME TypeOK, SkipInv, NeverNeglected, UNCHANGED skipped, Owed' = Owed,
           state # None => state' # None,
           state # None => \A e \in Monitored : AgeOf(state, e) # None =>
               /\ AgeOf(state, e) \in Nat /\ AgeOf(state', e) \in Nat
               /\ AgeOf(state', e) >= AgeOf(state, e)
    PROVE  skipped' \in [Monitored -> Nat] /\ SkipInv' /\ NeverNeglected'
  <1>1. \A e \in Monitored : skipped[e] * FastInterval \in Nat
    BY PollerAssumption DEF TypeOK
  <1>2. SkipInv'
    <2> SUFFICES ASSUME NEW e \in Monitored, skipped[e] > 0
                 PROVE  /\ e \in Owed /\ state' # None /\ AgeOf(state', e) # None
                        /\ skipped[e] * FastInterval <= AgeOf(state', e)
      BY DEF SkipInv, AgeOf
    <2>1. /\ e \in Owed /\ state # None /\ AgeOf(state, e) # None
          /\ skipped[e] * FastInterval <= AgeOf(state, e)
      BY DEF SkipInv
    <2>2. /\ AgeOf(state, e) \in Nat /\ AgeOf(state', e) \in Nat /\ state' # None
          /\ AgeOf(state', e) >= AgeOf(state, e)
      BY <2>1
    <2> QED BY <1>1, <2>1, <2>2, NoneFacts
  <1> QED BY <1>2 DEF TypeOK, NeverNeglected

(* The device answering or not makes no difference to what is owed.         *)
LEMMA OwedOfAvailable ==
    ASSUME TypeOK, NEW a \in BOOLEAN, node' = Available(a), UNCHANGED subs
    PROVE  Owed' = Owed
  <1>1. CASE node = None
    BY <1>1 DEF Available, Owed
  <1>2. CASE node # None
    <2>1. node \in DeviceData /\ node' = [node EXCEPT !.available = a]
      BY <1>2 DEF Available, TypeOK
    <2>2. node' \in DeviceData /\ node'.notified = node.notified
      BY <2>1 DEF DeviceData
    <2> QED BY <1>2, <2>2, NoneFacts DEF Owed
  <1> QED BY <1>1, <1>2

-----------------------------------------------------------------------------
(* The tiers of a device are EPCs it monitors.                              *)
LEMMA TierFacts ==
    ASSUME NEW notified
    PROVE  /\ ComputePollEpcs(notified).poll \in SUBSET Monitored
           /\ ComputePollEpcs(notified).fast \in SUBSET Monitored
  BY DEF ComputePollEpcs

LEMMA AppearStep == ASSUME PollerInv, Appear PROVE PollerInv'
  <1> DEFINE tiers == ComputePollEpcs({})
  <1>1. /\ node' = [poll |-> tiers.poll, fast |-> tiers.fast, notified |-> {},
                    asked |-> InfRequested = {}, available |-> None]
        /\ UNCHANGED <<running, state, cycles, counts, confirmed, subs>>
        /\ skipped' = StillOwed
    BY DEF Appear, pollVars, subVars
  <1>2. tiers.poll \in SUBSET Monitored /\ tiers.fast \in SUBSET Monitored
    BY TierFacts
  <1>3. node' \in DeviceData /\ node'.available = None
    <2> DEFINE asked == InfRequested = {}
    <2>1. asked \in BOOLEAN
      OBVIOUS
    <2> HIDE DEF tiers, asked
    <2>2. node' = [poll |-> tiers.poll, fast |-> tiers.fast, notified |-> {},
                   asked |-> asked, available |-> None]
      BY <1>1 DEF tiers, asked
    <2> QED BY <1>2, <2>1, <2>2 DEF DeviceData
  <1>4. /\ node'.poll = ComputePollEpcs(node'.notified).poll
        /\ node'.fast = ComputePollEpcs(node'.notified).fast
    BY <1>1
  <1>5. skipped' \in [Monitored -> Nat] /\ SkipInv' /\ NeverNeglected'
    BY <1>1, StillOwedKeeps DEF PollerInv
  <1>6. TypeOK'
    BY <1>1, <1>3, <1>5 DEF PollerInv, TypeOK
  <1>7. OneCycle' /\ SubsInv' /\ EpcsInv'
    BY <1>1, <1>4 DEF PollerInv, OneCycle, SubsInv, Wanting, EpcsInv
  <1>8. AvailabilityHonest'
    BY <1>3, NoneFacts DEF AvailabilityHonest
  <1> QED BY <1>5, <1>6, <1>7, <1>8 DEF PollerInv

LEMMA VanishStep == ASSUME PollerInv, Vanish PROVE PollerInv'
  <1>1. /\ node' = None /\ skipped' = StillOwed
        /\ UNCHANGED <<running, state, cycles, counts, confirmed, subs>>
    BY DEF Vanish, pollVars, subVars
  <1>2. skipped' \in [Monitored -> Nat] /\ SkipInv' /\ NeverNeglected'
    BY <1>1, StillOwedKeeps DEF PollerInv
  <1>3. TypeOK'
    BY <1>1, <1>2 DEF PollerInv, TypeOK
  <1>4. OneCycle' /\ SubsInv' /\ EpcsInv' /\ AvailabilityHonest'
    BY <1>1 DEF PollerInv, OneCycle, SubsInv, Wanting, EpcsInv, AvailabilityHonest
  <1> QED BY <1>2, <1>3, <1>4 DEF PollerInv

LEMMA NotifiedStep == ASSUME PollerInv, Notified PROVE PollerInv'
  <1>1. PICK notified \in SUBSET InfRequested :
          node' = [node EXCEPT !.asked = TRUE, !.notified = notified,
                               !.poll = ComputePollEpcs(notified).poll,
                               !.fast = ComputePollEpcs(notified).fast]
    BY DEF Notified
  <1>2. /\ node \in DeviceData /\ skipped' = StillOwed
        /\ UNCHANGED <<running, state, cycles, counts, confirmed, subs>>
    BY DEF Notified, pollVars, subVars, PollerInv, TypeOK
  <1>3. /\ ComputePollEpcs(notified).poll \in SUBSET Monitored
        /\ ComputePollEpcs(notified).fast \in SUBSET Monitored
    BY TierFacts
  <1>4. /\ node' \in DeviceData /\ node'.available = node.available
        /\ node'.poll = ComputePollEpcs(node'.notified).poll
        /\ node'.fast = ComputePollEpcs(node'.notified).fast
    BY <1>1, <1>2, <1>3 DEF DeviceData
  <1>5. skipped' \in [Monitored -> Nat] /\ SkipInv' /\ NeverNeglected'
    BY <1>2, StillOwedKeeps DEF PollerInv
  <1>6. TypeOK'
    BY <1>2, <1>4, <1>5 DEF PollerInv, TypeOK
  <1>7. OneCycle' /\ SubsInv' /\ EpcsInv'
    BY <1>2, <1>4 DEF PollerInv, OneCycle, SubsInv, Wanting, EpcsInv
  <1>8. AvailabilityHonest'
    BY <1>2, <1>4, NoneFacts DEF PollerInv, AvailabilityHonest
  <1> QED BY <1>5, <1>6, <1>7, <1>8 DEF PollerInv

LEMMA SubscriptionStep ==
    ASSUME PollerInv, NEW c \in Consumers, Subscribe(c) \/ Unsubscribe(c)
    PROVE  PollerInv'
  <1>1. UNCHANGED <<running, state, cycles, node>> /\ skipped' = StillOwed
    BY DEF Subscribe, Unsubscribe, pollVars
  <1>2. /\ SubsInv' /\ confirmed' \in BOOLEAN
        /\ counts' \in [Monitored -> 0 .. Cardinality(Consumers)]
        /\ subs' \in [Consumers -> {None} \cup Subscriptions]
    <2>1. CASE Subscribe(c)
      BY <2>1, SubscribeFacts DEF PollerInv
    <2>2. CASE Unsubscribe(c)
      <3>1. confirmed' \in BOOLEAN
        BY <2>2 DEF Unsubscribe, PollerInv, TypeOK
      <3> QED BY <2>2, <3>1, UnsubscribeFacts DEF PollerInv
    <2> QED BY <2>1, <2>2
  <1>3. skipped' \in [Monitored -> Nat] /\ SkipInv' /\ NeverNeglected'
    BY <1>1, StillOwedKeeps DEF PollerInv
  <1>4. TypeOK'
    BY <1>1, <1>2, <1>3 DEF PollerInv, TypeOK
  <1>5. OneCycle' /\ EpcsInv' /\ AvailabilityHonest'
    BY <1>1 DEF PollerInv, OneCycle, EpcsInv, AvailabilityHonest
  <1> QED BY <1>2, <1>3, <1>4, <1>5 DEF PollerInv

-----------------------------------------------------------------------------
LEMMA StartStep == ASSUME PollerInv, Start PROVE PollerInv'
  <1>1. UNCHANGED <<state, cycles, node, counts, confirmed, subs, skipped>> /\ running' = TRUE
    BY DEF Start, subVars
  <1>2. TypeOK'
    BY <1>1 DEF PollerInv, TypeOK
  <1>3. OneCycle' /\ SubsInv' /\ EpcsInv' /\ AvailabilityHonest'
    BY <1>1 DEF PollerInv, OneCycle, SubsInv, Wanting, EpcsInv, AvailabilityHonest
  <1>4. SkipInv' /\ NeverNeglected'
    BY <1>1 DEF PollerInv, SkipInv, Owed, AgeOf, NeverNeglected
  <1> QED BY <1>2, <1>3, <1>4 DEF PollerInv

(* The only cycle there can be is the one that is cancelled.                *)
LEMMA CancelledFacts ==
    ASSUME TypeOK, OneCycle, cycles' = Cancelled, state' = None
    PROVE  OneCycle' /\ cycles' = [c \in CycleNames |-> None]
  <1>1. CASE state = None \/ state.cycle = None
    <2>1. \A c \in CycleNames : cycles[c] = None
      BY <1>1, NoneFacts DEF OneCycle
    <2>2. cycles' = [c \in CycleNames |-> cycles[c]]
      BY <1>1 DEF Cancelled, TypeOK
    <2> QED BY <2>1, <2>2 DEF OneCycle
  <1>2. CASE ~(state = None \/ state.cycle = None)
    <2>1. cycles' = [cycles EXCEPT ![state.cycle] = None]
      BY <1>2 DEF Cancelled
    <2>2. \A c \in CycleNames : c # state.cycle => cycles[c] = None
      BY <1>2 DEF OneCycle
    <2>3. cycles' = [c \in CycleNames |-> None]
      BY <2>1, <2>2 DEF TypeOK
    <2> QED BY <2>3 DEF OneCycle
  <1> QED BY <1>1, <1>2

LEMMA StopStep == ASSUME PollerInv, Stop PROVE PollerInv'
  <1>1. /\ UNCHANGED <<node, counts, confirmed, subs>> /\ running' = FALSE
        /\ cycles' = Cancelled /\ state' = None
        /\ skipped' = [e \in Monitored |-> 0]
    BY DEF Stop, subVars
  <1>2. OneCycle' /\ cycles' = [c \in CycleNames |-> None]
    BY <1>1, CancelledFacts DEF PollerInv
  <1>3. TypeOK'
    BY <1>1, <1>2 DEF PollerInv, TypeOK
  <1>4. SubsInv' /\ EpcsInv' /\ AvailabilityHonest'
    BY <1>1 DEF PollerInv, SubsInv, Wanting, EpcsInv, AvailabilityHonest
  <1>5. SkipInv' /\ NeverNeglected'
    BY <1>1, PollerAssumption DEF SkipInv, NeverNeglected
  <1> QED BY <1>2, <1>3, <1>4, <1>5 DEF PollerInv

LEMMA CleanUpStep == ASSUME PollerInv, CleanUp PROVE PollerInv'
  <1>1. /\ UNCHANGED <<running, node, counts, confirmed, subs, skipped>>
        /\ cycles' = Cancelled /\ state' = None /\ node = None
    BY DEF CleanUp, subVars
  <1>2. OneCycle' /\ cycles' = [c \in CycleNames |-> None]
    BY <1>1, CancelledFacts DEF PollerInv
  <1>3. TypeOK'
    BY <1>1, <1>2 DEF PollerInv, TypeOK
  <1>4. SubsInv' /\ EpcsInv' /\ AvailabilityHonest'
    BY <1>1 DEF PollerInv, SubsInv, Wanting, EpcsInv, AvailabilityHonest
  <1>5. \A e \in Monitored : ~(skipped[e] > 0)
    BY <1>1 DEF PollerInv, SkipInv, Owed
  <1>6. SkipInv' /\ NeverNeglected'
    BY <1>1, <1>5 DEF PollerInv, SkipInv, NeverNeglected
  <1> QED BY <1>2, <1>3, <1>4, <1>6 DEF PollerInv

LEMMA WakePollingStep == ASSUME PollerInv, WakePolling PROVE PollerInv'
  <1>1. PICK elapsed \in FastInterval .. FastInterval + Lateness : state' = Aged(state, elapsed)
    BY DEF WakePolling
  <1>2. /\ UNCHANGED <<running, cycles, node, counts, confirmed, subs, skipped>>
        /\ state \in PollStates /\ elapsed \in Nat
    BY PollerAssumption DEF WakePolling, subVars, Polling, PollerInv, TypeOK
  <1>3. /\ state' \in PollStates /\ state' # None
        /\ state'.cycle = state.cycle /\ state'.ewma = state.ewma
        /\ state'.failures = state.failures
        /\ \A e : AgeOf(state, e) # None =>
             /\ AgeOf(state, e) \in Nat /\ AgeOf(state', e) \in Nat
             /\ AgeOf(state', e) >= AgeOf(state, e)
    BY <1>1, <1>2, AgedFacts, NoneFacts
  <1>4. Owed' = Owed
    BY <1>2 DEF Owed
  <1>5. skipped' \in [Monitored -> Nat] /\ SkipInv' /\ NeverNeglected'
    BY <1>2, <1>3, <1>4, SkipKeeps DEF PollerInv
  <1>6. TypeOK'
    BY <1>2, <1>3, <1>5 DEF PollerInv, TypeOK
  <1>7. OneCycle' /\ SubsInv' /\ EpcsInv' /\ AvailabilityHonest'
    BY <1>2, <1>3, NoneFacts
      DEF PollerInv, OneCycle, SubsInv, Wanting, EpcsInv, AvailabilityHonest
  <1> QED BY <1>5, <1>6, <1>7 DEF PollerInv

-----------------------------------------------------------------------------
(* A wake: the state of the device with the time that passed, the tiers     *)
(* that are due, and what is polled for them.                               *)
AgedState(elapsed) == IF state = None THEN NoPolls ELSE Aged(state, elapsed)
NormalDue(s) == node.poll # {} /\ Due(s.age, EffectiveInterval(s))
FastDue(s) == node.fast # {} /\ Due(s.fastAge, EffectiveFastInterval(s))
DueEpcs(s) ==
    (IF NormalDue(s) THEN EffectiveEpcs(node.poll) ELSE {})
      \cup (IF FastDue(s) THEN EffectiveEpcs(node.fast) ELSE {})

LEMMA WakeIs ==
    ASSUME Wake
    PROVE  \E elapsed \in FastInterval .. FastInterval + Lateness :
             LET aged == AgedState(elapsed) IN
             /\ skipped' = [e \in Monitored |->
                              IF e \in Owed \ DueEpcs(aged) THEN skipped[e] + 1 ELSE 0]
             /\ IF DueEpcs(aged) = {}
                THEN /\ state' = IF state = None THEN None ELSE aged
                     /\ UNCHANGED cycles
                ELSE \E c \in CycleNames, rest \in Ascending(DueEpcs(aged)) :
                     /\ FirstFree(c)
                     /\ state' = [PolledNow(aged, NormalDue(aged), FastDue(aged))
                                    EXCEPT !.cycle = c]
                     /\ cycles' = [cycles EXCEPT ![c] =
                          [begun |-> FALSE, asked |-> <<>>, rest |-> rest]]
  BY Zenon DEF Wake, AgedState, NormalDue, FastDue, DueEpcs

(* Whatever is polled is owed, and whatever is owed and not polled is in a  *)
(* tier that is not due.                                                    *)
LEMMA DueFacts ==
    ASSUME SubsInv, EpcsInv, node # None, NEW s \in PollStates
    PROVE  /\ DueEpcs(s) \subseteq Owed /\ DueEpcs(s) \in SUBSET Monitored
           /\ \A e \in Owed \ DueEpcs(s) :
                /\ AgeOf(s, e) \in Nat /\ AgeOf(s, e) < MaxInterval
                /\ IF e \in FastCandidates THEN ~FastDue(s) ELSE ~NormalDue(s)
  <1>1. DueEpcs(s) \subseteq Owed /\ DueEpcs(s) \in SUBSET Monitored
    BY OwedByTier DEF DueEpcs
  <1>2. ASSUME NEW e \in Owed \ DueEpcs(s), e \in FastCandidates
        PROVE  ~FastDue(s) /\ AgeOf(s, e) \in Nat /\ AgeOf(s, e) < MaxInterval
    <2>1. e \in EffectiveEpcs(node.fast)
      BY <1>2, OwedByTier
    <2>2. ~FastDue(s)
      BY <1>2, <2>1 DEF DueEpcs
    <2>3. node.fast # {}
      BY <2>1 DEF EffectiveEpcs
    <2> QED BY <1>2, <2>2, <2>3, NotDueFacts DEF FastDue, AgeOf
  <1>3. ASSUME NEW e \in Owed \ DueEpcs(s), e \notin FastCandidates
        PROVE  ~NormalDue(s) /\ AgeOf(s, e) \in Nat /\ AgeOf(s, e) < MaxInterval
    <2>1. e \in EffectiveEpcs(node.poll)
      BY <1>3, OwedByTier
    <2>2. ~NormalDue(s)
      BY <1>3, <2>1 DEF DueEpcs
    <2>3. node.poll # {}
      BY <2>1 DEF EffectiveEpcs
    <2> QED BY <1>3, <2>2, <2>3, NotDueFacts DEF NormalDue, AgeOf
  <1> QED BY <1>1, <1>2, <1>3

LEMMA WakeStep == ASSUME PollerInv, Wake PROVE PollerInv'
  <1>1. PICK elapsed \in FastInterval .. FastInterval + Lateness :
          LET aged == AgedState(elapsed) IN
          /\ skipped' = [e \in Monitored |->
                           IF e \in Owed \ DueEpcs(aged) THEN skipped[e] + 1 ELSE 0]
          /\ IF DueEpcs(aged) = {}
             THEN /\ state' = IF state = None THEN None ELSE aged
                  /\ UNCHANGED cycles
             ELSE \E c \in CycleNames, rest \in Ascending(DueEpcs(aged)) :
                  /\ FirstFree(c)
                  /\ state' = [PolledNow(aged, NormalDue(aged), FastDue(aged))
                                 EXCEPT !.cycle = c]
                  /\ cycles' = [cycles EXCEPT ![c] =
                       [begun |-> FALSE, asked |-> <<>>, rest |-> rest]]
    BY WakeIs
  <1> DEFINE aged == AgedState(elapsed)
  <1>2. /\ UNCHANGED <<running, node, counts, confirmed, subs>>
        /\ node # None /\ ~Polling /\ elapsed \in Nat /\ elapsed >= FastInterval
        /\ state \in {None} \cup PollStates
    BY PollerAssumption DEF Wake, subVars, PollerInv, TypeOK
  <1>3. /\ aged \in PollStates
        /\ state = None => aged = NoPolls
        /\ state # None => /\ aged.cycle = state.cycle /\ aged.ewma = state.ewma
                           /\ aged.failures = state.failures
    BY <1>2, AgedFacts, NoPollsFacts DEF AgedState
  <1>4. /\ skipped' = [e \in Monitored |->
                         IF e \in Owed \ DueEpcs(aged) THEN skipped[e] + 1 ELSE 0]
        /\ DueEpcs(aged) = {} => /\ state' = IF state = None THEN None ELSE aged
                                 /\ UNCHANGED cycles
        /\ DueEpcs(aged) # {} =>
             \E c \in CycleNames, rest \in Ascending(DueEpcs(aged)) :
               /\ state' = [PolledNow(aged, NormalDue(aged), FastDue(aged)) EXCEPT !.cycle = c]
               /\ cycles' = [cycles EXCEPT ![c] =
                    [begun |-> FALSE, asked |-> <<>>, rest |-> rest]]
    BY <1>1
  <1>5. ASSUME NEW c \in CycleNames, NEW normal, NEW fast,
               state' = [PolledNow(aged, normal, fast) EXCEPT !.cycle = c]
        PROVE  /\ state' \in PollStates /\ state'.cycle = c
               /\ state'.ewma = aged.ewma /\ state'.failures = aged.failures
               /\ ~fast => state'.fastAge = aged.fastAge
               /\ ~normal => state'.age = aged.age
    <2>1. 0 \in Ages
      BY PollerAssumption DEF Ages
    <2>2. PolledNow(aged, normal, fast) =
            [aged EXCEPT !.age = IF normal THEN 0 ELSE aged.age,
                         !.fastAge = IF fast THEN 0 ELSE aged.fastAge]
      BY <1>3 DEF PolledNow, PollStates
    <2> DEFINE age == IF normal THEN 0 ELSE aged.age
               fastAge == IF fast THEN 0 ELSE aged.fastAge
    <2>3. age \in Ages \cup {None} /\ fastAge \in Ages \cup {None}
      BY <1>3, <2>1 DEF PollStates
    <2>4. /\ ~fast => fastAge = aged.fastAge
          /\ ~normal => age = aged.age
      OBVIOUS
    <2> HIDE DEF age, fastAge, aged
    <2>5. PolledNow(aged, normal, fast) = [aged EXCEPT !.age = age, !.fastAge = fastAge]
      BY <2>2 DEF age, fastAge
    <2> QED BY <1>3, <1>5, <2>3, <2>4, <2>5 DEF PollStates
  <1> HIDE DEF aged
  <1>6. \A c \in CycleNames : cycles[c] = None
    BY <1>2, NoneFacts DEF PollerInv, OneCycle, Polling
  <1>7. Owed' = Owed
    BY <1>2 DEF Owed
  <1>8. /\ DueEpcs(aged) \subseteq Owed /\ DueEpcs(aged) \in SUBSET Monitored
        /\ \A e \in Owed \ DueEpcs(aged) :
             /\ AgeOf(aged, e) \in Nat /\ AgeOf(aged, e) < MaxInterval
             /\ IF e \in FastCandidates THEN ~FastDue(aged) ELSE ~NormalDue(aged)
    BY <1>2, <1>3, DueFacts DEF PollerInv
  <1>9. ASSUME NEW e \in Owed \ DueEpcs(aged)
        PROVE  /\ state # None /\ state' # None
               /\ AgeOf(state', e) = AgeOf(aged, e)
               /\ (skipped[e] + 1) * FastInterval <= AgeOf(aged, e)
    <2>1. AgeOf(aged, e) \in Nat /\ AgeOf(aged, e) < MaxInterval
      BY <1>8
    <2>2. state \in PollStates
      BY <1>2, <1>3, <2>1, NoneFacts DEF NoPolls, AgeOf
    <2>3. state # None /\ aged = Aged(state, elapsed)
      BY <2>2, NoneFacts DEF AgedState, aged
    <2>4. AgeOf(state, e) # None
      BY <1>2, <2>1, <2>2, <2>3, AgedFacts, NoneFacts
    <2>5. AgeOf(state, e) \in Nat /\ AgeOf(aged, e) = AgeOf(state, e) + elapsed
      BY <1>2, <2>1, <2>2, <2>3, <2>4, AgedFacts
    <2>6. e \in Monitored /\ skipped[e] \in Nat /\ FastInterval \in Nat
      BY <1>2, PollerAssumption, OwedByTier DEF PollerInv, TypeOK
    <2>7. skipped[e] * FastInterval <= AgeOf(state, e)
      BY <2>5, <2>6 DEF PollerInv, SkipInv
    <2>8. (skipped[e] + 1) * FastInterval = skipped[e] * FastInterval + FastInterval
          /\ skipped[e] * FastInterval \in Nat
      BY <2>6
    <2>9. (skipped[e] + 1) * FastInterval <= AgeOf(aged, e)
      BY <1>2, <2>5, <2>6, <2>7, <2>8
    <2>10. CASE DueEpcs(aged) = {}
      BY <1>3, <1>4, <2>3, <2>9, <2>10, NoneFacts
    <2>11. CASE DueEpcs(aged) # {}
      <3>1. PICK c \in CycleNames :
              state' = [PolledNow(aged, NormalDue(aged), FastDue(aged)) EXCEPT !.cycle = c]
        BY <1>4, <2>11
      <3>2. /\ state' \in PollStates
            /\ ~FastDue(aged) => state'.fastAge = aged.fastAge
            /\ ~NormalDue(aged) => state'.age = aged.age
        BY <3>1, <1>5
      <3>3. IF e \in FastCandidates THEN ~FastDue(aged) ELSE ~NormalDue(aged)
        BY <1>8
      <3>4. AgeOf(state', e) = AgeOf(aged, e)
        BY <3>2, <3>3 DEF AgeOf
      <3> QED BY <2>3, <2>9, <3>2, <3>4, NoneFacts
    <2> QED BY <2>10, <2>11
  <1>10. /\ state' \in {None} \cup PollStates /\ OneCycle' /\ AvailabilityHonest'
        /\ cycles' \in [CycleNames ->
             {None} \cup [begun : BOOLEAN, asked : EpcSeqs, rest : EpcSeqs]]
    <2>1. CASE DueEpcs(aged) = {}
      <3>1. UNCHANGED cycles /\ state' = IF state = None THEN None ELSE aged
        BY <1>4, <2>1
      <3>2. OneCycle'
        BY <1>6, <3>1 DEF OneCycle
      <3>3. AvailabilityHonest'
        BY <1>2, <1>3, <3>1 DEF PollerInv, AvailabilityHonest
      <3> QED BY <1>3, <3>1, <3>2, <3>3 DEF PollerInv, TypeOK
    <2>2. CASE DueEpcs(aged) # {}
      <3>1. PICK c \in CycleNames, rest \in Ascending(DueEpcs(aged)) :
              /\ state' = [PolledNow(aged, NormalDue(aged), FastDue(aged)) EXCEPT !.cycle = c]
              /\ cycles' = [cycles EXCEPT ![c] =
                   [begun |-> FALSE, asked |-> <<>>, rest |-> rest]]
        BY <1>4, <2>2
      <3>2. rest \in EpcSeqs /\ <<>> \in EpcSeqs
        <4>1. <<>> \in [1 .. 0 -> Monitored] /\ Cardinality(Monitored) \in Nat
          BY PollerAssumption, FS_CardinalityType
        <4>2. <<>> \in EpcSeqs
          BY <4>1 DEF EpcSeqs
        <4> QED BY <1>8, <4>2, AscendingFacts
      <3>3. /\ state' \in PollStates /\ state'.cycle = c
            /\ state'.ewma = aged.ewma /\ state'.failures = aged.failures
        BY <1>5, <3>1
      <3>4. /\ cycles' \in [CycleNames ->
                 {None} \cup [begun : BOOLEAN, asked : EpcSeqs, rest : EpcSeqs]]
            /\ \A d \in CycleNames \ {c} : cycles'[d] = None
        BY <1>6, <3>1, <3>2 DEF PollerInv, TypeOK
      <3>5. OneCycle'
        BY <3>3, <3>4, NoneFacts DEF OneCycle
      <3>6. AvailabilityHonest'
        <4>1. CASE state = None
          <5>1. aged.ewma = None /\ aged.failures = 0
            BY <1>3, <4>1 DEF NoPolls
          <5>2. ~(state'.failures > 0) /\ state'.ewma = None
            BY <3>3, <5>1
          <5> QED BY <5>2 DEF AvailabilityHonest
        <4>2. CASE state # None
          BY <1>2, <1>3, <3>3, <4>2 DEF PollerInv, AvailabilityHonest
        <4> QED BY <4>1, <4>2
      <3> QED BY <3>3, <3>4, <3>5, <3>6
    <2> QED BY <2>1, <2>2
  <1>11. \A e \in Monitored :
          /\ skipped[e] \in Nat
          /\ skipped'[e] = IF e \in Owed \ DueEpcs(aged) THEN skipped[e] + 1 ELSE 0
    BY <1>4 DEF PollerInv, TypeOK
  <1>12. skipped' \in [Monitored -> Nat]
    BY <1>11, <1>4
  <1>13. SkipInv'
    <2> SUFFICES ASSUME NEW e \in Monitored, skipped'[e] > 0
                 PROVE  /\ e \in Owed' /\ state' # None /\ AgeOf(state', e) # None
                        /\ skipped'[e] * FastInterval <= AgeOf(state', e)
      BY DEF SkipInv, AgeOf
    <2>1. e \in Owed \ DueEpcs(aged) /\ skipped'[e] = skipped[e] + 1
      BY <1>11
    <2> QED BY <1>7, <1>8, <1>9, <2>1, NoneFacts
  <1>14. NeverNeglected'
    <2> SUFFICES ASSUME NEW e \in Monitored
                 PROVE  skipped'[e] * FastInterval < MaxInterval
      BY DEF NeverNeglected
    <2>1. CASE e \in Owed \ DueEpcs(aged)
      <3>1. /\ skipped'[e] \in Nat /\ skipped'[e] = skipped[e] + 1
            /\ (skipped[e] + 1) * FastInterval <= AgeOf(aged, e)
            /\ AgeOf(aged, e) \in Nat /\ AgeOf(aged, e) < MaxInterval
        BY <1>8, <1>9, <1>11, <2>1
      <3>2. skipped'[e] * FastInterval \in Nat /\ MaxInterval \in Nat
        BY <3>1, PollerAssumption
      <3> QED BY <3>1, <3>2
    <2>2. CASE e \notin Owed \ DueEpcs(aged)
      BY <1>11, <2>2, PollerAssumption
    <2> QED BY <2>1, <2>2
  <1>15. TypeOK'
    BY <1>2, <1>10, <1>12 DEF PollerInv, TypeOK
  <1>16. SubsInv' /\ EpcsInv'
    BY <1>2 DEF PollerInv, SubsInv, Wanting, EpcsInv
  <1> QED BY <1>10, <1>13, <1>14, <1>15, <1>16 DEF PollerInv

-----------------------------------------------------------------------------
(* A cycle that asks for its next chunk or ends: nothing but the cycle of   *)
(* the device changes in its state, and there is no other.                  *)
CycleData == [begun : BOOLEAN, asked : EpcSeqs, rest : EpcSeqs]

LEMMA OnlyCycle ==
    ASSUME TypeOK, OneCycle, NEW c \in CycleNames, cycles[c] # None
    PROVE  /\ state \in PollStates /\ state # None /\ state.cycle = c
           /\ cycles[c] \in CycleData
           /\ \A d \in CycleNames \ {c} : cycles[d] = None
  <1>1. state # None /\ state.cycle = c
    BY DEF OneCycle
  <1>2. \A d \in CycleNames \ {c} : cycles[d] = None
    BY <1>1 DEF OneCycle
  <1> QED BY <1>1, <1>2 DEF TypeOK, CycleData

(* The end of a cycle.                                                      *)
LEMMA CycleEnds ==
    ASSUME TypeOK, OneCycle, NEW c \in CycleNames, cycles[c] # None,
           cycles' = [cycles EXCEPT ![c] = None]
    PROVE  cycles' \in [CycleNames -> {None} \cup CycleData] /\ OneCycle'
  <1>1. \A d \in CycleNames \ {c} : cycles[d] = None
    BY OnlyCycle
  <1>2. cycles' \in [CycleNames -> {None} \cup CycleData]
    BY DEF TypeOK, CycleData
  <1>3. \A d \in CycleNames : cycles'[d] = None
    BY <1>1 DEF TypeOK
  <1> QED BY <1>2, <1>3 DEF OneCycle

LEMMA ProceedsFacts ==
    ASSUME TypeOK, OneCycle, NEW c \in CycleNames, cycles[c] # None,
           NEW s \in PollStates, s.cycle = c, Proceeds(c, s)
    PROVE  /\ cycles' \in [CycleNames -> {None} \cup CycleData] /\ OneCycle'
           /\ state' \in PollStates /\ state' # None
           /\ state'.age = s.age /\ state'.fastAge = s.fastAge
           /\ state'.ewma = s.ewma /\ state'.failures = s.failures
  <1>1. s # None
    BY NoneFacts
  <1>2. CASE cycles[c].rest = <<>> \/ node = None
    <2>1. cycles' = [cycles EXCEPT ![c] = None] /\ state' = [s EXCEPT !.cycle = None]
      BY <1>1, <1>2 DEF Proceeds
    <2>2. cycles' \in [CycleNames -> {None} \cup CycleData] /\ OneCycle'
      BY <2>1, CycleEnds
    <2>3. /\ state' \in PollStates
          /\ state'.age = s.age /\ state'.fastAge = s.fastAge
          /\ state'.ewma = s.ewma /\ state'.failures = s.failures
      BY <2>1 DEF PollStates
    <2> QED BY <2>2, <2>3, NoneFacts
  <1>3. CASE ~(cycles[c].rest = <<>> \/ node = None)
    <2>1. /\ state' = s
          /\ \E capacity \in Capacities :
               cycles' = [cycles EXCEPT ![c] =
                 [begun |-> TRUE, asked |-> FirstBatch(cycles[c].rest, capacity).batch,
                  rest |-> FirstBatch(cycles[c].rest, capacity).rest]]
      BY <1>3 DEF Proceeds
    <2>2. PICK capacity \in Capacities :
            cycles' = [cycles EXCEPT ![c] =
              [begun |-> TRUE, asked |-> FirstBatch(cycles[c].rest, capacity).batch,
               rest |-> FirstBatch(cycles[c].rest, capacity).rest]]
      BY <2>1
    <2>3. cycles[c].rest \in EpcSeqs /\ \A d \in CycleNames \ {c} : cycles[d] = None
      BY OnlyCycle DEF CycleData
    <2>4. /\ FirstBatch(cycles[c].rest, capacity).batch \in EpcSeqs
          /\ FirstBatch(cycles[c].rest, capacity).rest \in EpcSeqs
      BY <2>3, BatchFacts
    <2>5. /\ cycles' \in [CycleNames -> {None} \cup CycleData]
          /\ \A d \in CycleNames \ {c} : cycles'[d] = None
      BY <2>2, <2>3, <2>4 DEF TypeOK, CycleData
    <2>6. OneCycle'
      BY <1>1, <2>1, <2>5 DEF OneCycle
    <2> QED BY <1>1, <2>1, <2>5, <2>6
  <1> QED BY <1>2, <1>3

(* Neither the ages nor what is owed changes while a cycle goes on.         *)
LEMMA CycleKeeps ==
    ASSUME PollerInv, state # None, state' \in PollStates, state' # None,
           state'.age = state.age, state'.fastAge = state.fastAge,
           UNCHANGED <<counts, confirmed, subs, skipped>>,
           node' = node \/ \E a \in BOOLEAN : node' = Available(a)
    PROVE  /\ skipped' \in [Monitored -> Nat] /\ SkipInv' /\ NeverNeglected'
           /\ SubsInv' /\ EpcsInv' /\ node' \in {None} \cup DeviceData
  <1>1. Owed' = Owed
    <2>1. CASE node' = node
      BY <2>1 DEF Owed
    <2>2. CASE \E a \in BOOLEAN : node' = Available(a)
      BY <2>2, OwedOfAvailable DEF PollerInv
    <2> QED BY <2>1, <2>2
  <1>2. state \in PollStates /\ Ages \subseteq Nat
    BY PollerAssumption DEF PollerInv, TypeOK, Ages
  <1>3. \A e : AgeOf(state, e) # None =>
          /\ AgeOf(state, e) \in Nat /\ AgeOf(state', e) \in Nat
          /\ AgeOf(state', e) >= AgeOf(state, e)
    <2>1. /\ state.age # None => state.age \in Nat
          /\ state.fastAge # None => state.fastAge \in Nat
      BY <1>2 DEF PollStates
    <2>2. \A n \in Nat : n >= n
      OBVIOUS
    <2> QED BY <2>1, <2>2 DEF AgeOf
  <1>4. skipped' \in [Monitored -> Nat] /\ SkipInv' /\ NeverNeglected'
    BY <1>1, <1>3, SkipKeeps DEF PollerInv
  <1>5. SubsInv'
    BY DEF PollerInv, SubsInv, Wanting
  <1>6. EpcsInv' /\ node' \in {None} \cup DeviceData
    <2>1. CASE node' = node
      BY <2>1 DEF PollerInv, EpcsInv, TypeOK
    <2>2. CASE node = None /\ \E a \in BOOLEAN : node' = Available(a)
      BY <2>2 DEF Available, EpcsInv
    <2>3. CASE node # None /\ \E a \in BOOLEAN : node' = Available(a)
      <3>1. PICK a \in BOOLEAN : node' = [node EXCEPT !.available = a]
        BY <2>3 DEF Available
      <3>2. node \in DeviceData
        BY <2>3 DEF PollerInv, TypeOK
      <3>3. /\ node' \in DeviceData /\ node'.poll = node.poll /\ node'.fast = node.fast
            /\ node'.notified = node.notified
        BY <3>1, <3>2 DEF DeviceData
      <3> QED BY <2>3, <3>3 DEF PollerInv, EpcsInv
    <2> QED BY <2>1, <2>2, <2>3
  <1> QED BY <1>4, <1>5, <1>6

(* What the device manager shows once it is told.                           *)
LEMMA AvailableFacts ==
    ASSUME TypeOK, NEW a \in BOOLEAN, node' = Available(a), node' # None
    PROVE  node'.available = a
  BY DEF TypeOK, Available, DeviceData

LEMMA CycleBeginsStep ==
    ASSUME PollerInv, NEW c \in CycleNames, CycleBegins(c)
    PROVE  PollerInv'
  <1>1. /\ cycles[c] # None /\ Proceeds(c, state)
        /\ UNCHANGED <<running, node, counts, confirmed, subs, skipped>>
    BY DEF CycleBegins, subVars
  <1>2. state \in PollStates /\ state # None /\ state.cycle = c
    BY <1>1, OnlyCycle DEF PollerInv
  <1>3. /\ cycles' \in [CycleNames -> {None} \cup CycleData] /\ OneCycle'
        /\ state' \in PollStates /\ state' # None
        /\ state'.age = state.age /\ state'.fastAge = state.fastAge
        /\ state'.ewma = state.ewma /\ state'.failures = state.failures
    BY <1>1, <1>2, ProceedsFacts DEF PollerInv
  <1>4. /\ skipped' \in [Monitored -> Nat] /\ SkipInv' /\ NeverNeglected'
        /\ SubsInv' /\ EpcsInv' /\ node' \in {None} \cup DeviceData
    BY <1>1, <1>2, <1>3, CycleKeeps
  <1>5. TypeOK'
    BY <1>1, <1>3, <1>4 DEF PollerInv, TypeOK, CycleData
  <1>6. AvailabilityHonest'
    BY <1>1, <1>2, <1>3 DEF PollerInv, AvailabilityHonest
  <1> QED BY <1>3, <1>4, <1>5, <1>6 DEF PollerInv

LEMMA CycleAnsweredStep ==
    ASSUME PollerInv, NEW c \in CycleNames, CycleAnswered(c)
    PROVE  PollerInv'
  <1>1. /\ cycles[c] # None /\ node' = Available(TRUE)
        /\ UNCHANGED <<running, counts, confirmed, subs, skipped>>
    BY DEF CycleAnswered, subVars
  <1>2. state \in PollStates /\ state # None /\ state.cycle = c
    BY <1>1, OnlyCycle DEF PollerInv
  <1>3. PICK pace \in Paces : \E ewma \in Averages(state, pace) :
          Proceeds(c, [state EXCEPT !.ewma = ewma, !.failures = 0])
    BY <1>2 DEF CycleAnswered, Records
  <1>4. PICK ewma \in Averages(state, pace) :
          Proceeds(c, [state EXCEPT !.ewma = ewma, !.failures = 0])
    BY <1>3
  <1>5. ewma \in Smoothed
    <2>1. pace \in Nat /\ pace \in Smoothed
      BY PollerAssumption DEF Smoothed
    <2>2. CASE state.ewma = None
      BY <2>1, <2>2, <1>4 DEF Averages
    <2>3. CASE state.ewma # None
      <3>1. PICK q, r \in Paces : state.ewma \in Nat /\ q <= state.ewma /\ state.ewma <= r
        BY <1>2, <2>3 DEF PollStates, Smoothed
      <3>2. ewma \in Least(state.ewma, pace) .. Most(state.ewma, pace)
        BY <1>4, <2>3 DEF Averages
      <3>3. q \in Nat /\ r \in Nat
        BY PollerAssumption
      <3>4. CASE state.ewma <= pace
        <4>1. ewma \in state.ewma .. pace
          BY <3>2, <3>4 DEF Least, Most
        <4>2. ewma \in Nat /\ q <= ewma /\ ewma <= pace
          BY <2>1, <3>1, <3>3, <4>1
        <4> QED BY <4>2 DEF Smoothed
      <3>5. CASE ~(state.ewma <= pace)
        <4>1. ewma \in pace .. state.ewma
          BY <3>2, <3>5 DEF Least, Most
        <4>2. ewma \in Nat /\ pace <= ewma /\ ewma <= r
          BY <2>1, <3>1, <3>3, <4>1
        <4> QED BY <4>2 DEF Smoothed
      <3> QED BY <3>4, <3>5
    <2> QED BY <2>2, <2>3
  <1> DEFINE s == [state EXCEPT !.ewma = ewma, !.failures = 0]
  <1>6. /\ s \in PollStates /\ s.cycle = c /\ s.failures = 0
        /\ s.age = state.age /\ s.fastAge = state.fastAge
    <2>1. 0 \in 0 .. MaxExponent
      BY PollerAssumption
    <2> QED BY <1>2, <1>5, <2>1 DEF PollStates
  <1> HIDE DEF s
  <1>7. Proceeds(c, s)
    BY <1>4 DEF s
  <1>8. /\ cycles' \in [CycleNames -> {None} \cup CycleData] /\ OneCycle'
        /\ state' \in PollStates /\ state' # None
        /\ state'.age = state.age /\ state'.fastAge = state.fastAge
        /\ state'.failures = 0
    BY <1>1, <1>6, <1>7, ProceedsFacts DEF PollerInv
  <1>9. /\ skipped' \in [Monitored -> Nat] /\ SkipInv' /\ NeverNeglected'
        /\ SubsInv' /\ EpcsInv' /\ node' \in {None} \cup DeviceData
    BY <1>1, <1>2, <1>8, CycleKeeps
  <1>10. TypeOK'
    BY <1>1, <1>8, <1>9 DEF PollerInv, TypeOK, CycleData
  <1>11. AvailabilityHonest'
    <2>1. node' # None => node'.available = TRUE
      BY <1>1, AvailableFacts DEF PollerInv
    <2>2. ~(state'.failures > 0)
      BY <1>8
    <2> QED BY <2>1, <2>2, NoneFacts DEF AvailabilityHonest
  <1> QED BY <1>8, <1>9, <1>10, <1>11 DEF PollerInv

LEMMA CycleUnansweredStep ==
    ASSUME PollerInv, NEW c \in CycleNames, CycleUnanswered(c)
    PROVE  PollerInv'
  <1>1. /\ cycles[c] # None /\ node' = Available(FALSE)
        /\ cycles' = [cycles EXCEPT ![c] = None]
        /\ UNCHANGED <<running, counts, confirmed, subs, skipped>>
    BY DEF CycleUnanswered, subVars
  <1>2. state \in PollStates /\ state # None /\ state.cycle = c
    BY <1>1, OnlyCycle DEF PollerInv
  <1>3. state' = [Failed(state) EXCEPT !.cycle = None]
    BY <1>2 DEF CycleUnanswered, Records
  <1>4. /\ state' \in PollStates /\ state' # None
        /\ state'.age = state.age /\ state'.fastAge = state.fastAge
        /\ state'.failures > 0
    <2> DEFINE n == Least(state.failures + 1, MaxExponent)
    <2>1. n \in 0 .. MaxExponent /\ n > 0
      BY <1>2, PollerAssumption DEF PollStates, Least
    <2>2. Failed(state) = [state EXCEPT !.failures = n]
      BY <1>2 DEF Failed, PollStates
    <2> HIDE DEF n
    <2>3. /\ state' \in PollStates
          /\ state'.age = state.age /\ state'.fastAge = state.fastAge
          /\ state'.failures = n
      BY <1>2, <1>3, <2>1, <2>2 DEF PollStates
    <2> QED BY <2>1, <2>3, NoneFacts
  <1>5. cycles' \in [CycleNames -> {None} \cup CycleData] /\ OneCycle'
    BY <1>1, CycleEnds DEF PollerInv
  <1>6. /\ skipped' \in [Monitored -> Nat] /\ SkipInv' /\ NeverNeglected'
        /\ SubsInv' /\ EpcsInv' /\ node' \in {None} \cup DeviceData
    BY <1>1, <1>2, <1>4, CycleKeeps
  <1>7. TypeOK'
    BY <1>1, <1>4, <1>5, <1>6 DEF PollerInv, TypeOK, CycleData
  <1>8. AvailabilityHonest'
    <2>1. node' # None => node'.available = FALSE
      BY <1>1, AvailableFacts DEF PollerInv
    <2>2. state'.failures # 0
      BY <1>4
    <2> QED BY <2>1, <2>2, NoneFacts DEF AvailabilityHonest
  <1> QED BY <1>5, <1>6, <1>7, <1>8 DEF PollerInv

-----------------------------------------------------------------------------
LEMMA PollerStep == PollerInv /\ [Next]_vars => PollerInv'
  <1> SUFFICES ASSUME PollerInv, [Next]_vars PROVE PollerInv'
    OBVIOUS
  <1>1. CASE Appear
    BY <1>1, AppearStep
  <1>2. CASE Vanish
    BY <1>2, VanishStep
  <1>3. CASE Notified
    BY <1>3, NotifiedStep
  <1>4. CASE \E c \in Consumers : Subscribe(c) \/ Unsubscribe(c)
    BY <1>4, SubscriptionStep
  <1>5. CASE Start
    BY <1>5, StartStep
  <1>6. CASE Stop
    BY <1>6, StopStep
  <1>7. CASE CleanUp
    BY <1>7, CleanUpStep
  <1>8. CASE WakePolling
    BY <1>8, WakePollingStep
  <1>9. CASE Wake
    BY <1>9, WakeStep
  <1>10. ASSUME NEW c \in CycleNames, CycleBegins(c) PROVE PollerInv'
    BY <1>10, CycleBeginsStep
  <1>11. ASSUME NEW c \in CycleNames, CycleAnswered(c) PROVE PollerInv'
    BY <1>11, CycleAnsweredStep
  <1>12. ASSUME NEW c \in CycleNames, CycleUnanswered(c) PROVE PollerInv'
    BY <1>12, CycleUnansweredStep
  <1>13. CASE UNCHANGED vars
    <2>1. UNCHANGED <<running, state, cycles, node, counts, confirmed, subs, skipped>>
      BY <1>13 DEF vars, pollVars, subVars
    <2>2. TypeOK' /\ OneCycle' /\ AvailabilityHonest' /\ EpcsInv' /\ NeverNeglected'
      BY <2>1 DEF PollerInv, TypeOK, OneCycle, AvailabilityHonest, EpcsInv, NeverNeglected
    <2>3. SubsInv' /\ SkipInv'
      BY <2>1 DEF PollerInv, SubsInv, Wanting, SkipInv, Owed, AgeOf
    <2> QED BY <2>2, <2>3 DEF PollerInv
  <1> QED BY <1>1, <1>2, <1>3, <1>4, <1>5, <1>6, <1>7, <1>8, <1>9, <1>10, <1>11, <1>12,
             <1>13 DEF Next

LEMMA PollerInit == Init => PollerInv
  <1> SUFFICES ASSUME Init PROVE PollerInv
    OBVIOUS
  <1>1. \A e \in Monitored : Wanting(e) = {}
    BY DEF Init, Wanting
  <1>2. Cardinality({}) = 0 /\ 0 \in 0 .. Cardinality(Consumers)
    BY FS_EmptySet, FS_CardinalityType, PollerAssumption
  <1>3. TypeOK
    BY <1>2 DEF Init, TypeOK
  <1>4. OneCycle /\ AvailabilityHonest /\ EpcsInv
    BY DEF Init, OneCycle, AvailabilityHonest, EpcsInv
  <1>5. SubsInv
    BY <1>1, <1>2 DEF Init, SubsInv
  <1>6. SkipInv /\ NeverNeglected
    BY PollerAssumption DEF Init, SkipInv, NeverNeglected
  <1> QED BY <1>3, <1>4, <1>5, <1>6 DEF PollerInv

(* The inductive invariant: what the device manager counts is what the      *)
(* consumers subscribed to, and what is skipped is younger than its age.    *)
THEOREM PollerInvariant == Spec => []PollerInv
  BY PollerInit, PollerStep, PTL DEF Spec

(* The state stays well formed, with any EPCs, consumers and latencies.     *)
THEOREM PollerIsTyped == Spec => []TypeOK
  <1>1. PollerInv => TypeOK
    BY DEF PollerInv
  <1> QED BY <1>1, PollerInvariant, PTL

(* Wakes, slow answers, devices that go and come back, stop() and start()   *)
(* never leave a device with two poll cycles.                               *)
THEOREM CyclesDoNotOverlap == Spec => []OneCycle
  <1>1. PollerInv => OneCycle
    BY DEF PollerInv
  <1> QED BY <1>1, PollerInvariant, PTL

(* polling_available of the device manager agrees with the failures the     *)
(* poller backs off for.                                                    *)
THEOREM AvailabilityIsHonest == Spec => []AvailabilityHonest
  <1>1. PollerInv => AvailabilityHonest
    BY DEF PollerInv
  <1> QED BY <1>1, PollerInvariant, PTL

(* However long a device takes and however often it fails, an owed EPC is   *)
(* in a cycle again before the free wakes add up to max_interval.           *)
THEOREM NoEpcIsNeglected == Spec => []NeverNeglected
  <1>1. PollerInv => NeverNeglected
    BY DEF PollerInv
  <1> QED BY <1>1, PollerInvariant, PTL

(* A new cycle requests only EPCs that are owed when it starts.             *)
THEOREM OnlyWantedIsPolled == Spec => PollsOnlyWanted
  <1> DEFINE Wants(c) ==
        cycles[c] = None /\ cycles'[c] # None => ToSet(cycles'[c].rest) \subseteq Owed
  <1>1. ASSUME PollerInv, Next, NEW c \in CycleNames PROVE Wants(c)
    <2> SUFFICES ASSUME cycles[c] = None, cycles'[c] # None
                 PROVE  ToSet(cycles'[c].rest) \subseteq Owed
      OBVIOUS
    <2>1. cycles \in [CycleNames -> {None} \cup CycleData]
      BY <1>1 DEF PollerInv, TypeOK, CycleData
    <2>2. cycles' # cycles
      OBVIOUS
    <2>3. cycles' # Cancelled
      BY <2>1 DEF Cancelled
    <2>4. ASSUME NEW d \in CycleNames, CycleBegins(d) \/ CycleAnswered(d) \/ CycleUnanswered(d)
          PROVE  FALSE
      <3>1. cycles[d] # None /\ d # c
        BY <2>4 DEF CycleBegins, CycleAnswered, CycleUnanswered
      <3>2. \E x : cycles' = [cycles EXCEPT ![d] = x]
        BY <2>4, Zenon DEF CycleBegins, CycleAnswered, CycleUnanswered, Proceeds
      <3> QED BY <2>1, <3>1, <3>2
    <2>5. Wake
      BY <1>1, <2>2, <2>3, <2>4
        DEF Next, Appear, Vanish, Notified, Subscribe, Unsubscribe, Start, Stop, CleanUp,
            WakePolling, pollVars
    <2>6. PICK elapsed \in FastInterval .. FastInterval + Lateness :
            \E d \in CycleNames, rest \in Ascending(DueEpcs(AgedState(elapsed))) :
              cycles' = [cycles EXCEPT ![d] =
                [begun |-> FALSE, asked |-> <<>>, rest |-> rest]]
      BY <2>2, <2>5, WakeIs
    <2>7. PICK d \in CycleNames, rest \in Ascending(DueEpcs(AgedState(elapsed))) :
            cycles' = [cycles EXCEPT ![d] = [begun |-> FALSE, asked |-> <<>>, rest |-> rest]]
      BY <2>6
    <2>8. cycles'[c].rest = rest
      BY <2>1, <2>7
    <2>9. AgedState(elapsed) \in PollStates /\ node # None
      BY <1>1, <2>5, PollerAssumption, AgedFacts, NoPollsFacts
        DEF AgedState, Wake, PollerInv, TypeOK
    <2>10. /\ DueEpcs(AgedState(elapsed)) \subseteq Owed
           /\ DueEpcs(AgedState(elapsed)) \in SUBSET Monitored
      BY <1>1, <2>9, DueFacts DEF PollerInv
    <2>11. ToSet(rest) \subseteq DueEpcs(AgedState(elapsed))
      BY <2>7, <2>10, AscendingFacts
    <2> QED BY <2>8, <2>10, <2>11
  <1>2. PollerInv /\ [Next]_vars => [\A c \in CycleNames : Wants(c)]_vars
    BY <1>1
  <1> QED BY <1>2, PollerInvariant, PTL DEF Spec, PollsOnlyWanted
=============================================================================
