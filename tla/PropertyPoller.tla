---------------------------- MODULE PropertyPoller ----------------------------
(***************************************************************************)
(* The property poller (poller.py) and the part of the device manager it    *)
(* polls for: the poll EPCs of a device, the subscriptions that narrow      *)
(* them, and whether the device answers its polls.                          *)
(*                                                                         *)
(* The schedule of a device depends on no other device, so the model        *)
(* follows one.  Time is relative: how long ago each tier was polled, in    *)
(* units of which the intervals are multiples.  A poll takes any time.      *)
(* Time that passes while the loop is stopped, or between its wakes, makes  *)
(* no difference.                                                           *)
(***************************************************************************)
EXTENDS Integers, Sequences, FiniteSets, SequencesExt

CONSTANTS
    Monitored, Gettable,  \* EPCs of the device: monitored_epcs, get_epcs,
    FastCandidates,       \* fast_candidate_epcs and
    InfRequested,         \* inf_request_epcs
    FastInterval, PollInterval, MaxInterval,
    MaxExponent,          \* _MAX_BACKOFF_EXPONENT (10)
    Lateness,             \* bound: how late the loop may wake
    Paces,                \* bound: latencies times safety_factor
    Capacities,           \* what get_observed_batch_capacity may say
    Bundles,              \* bound: sets of EPCs a consumer subscribes to
    Consumers, CycleNames, None

ASSUME PollerAssumption ==
    /\ Monitored \subseteq Nat /\ IsFiniteSet(Monitored) /\ IsFiniteSet(Consumers)
    /\ FastInterval \in Nat \ {0} /\ PollInterval \in Nat \ {0}
    /\ MaxInterval \in Nat /\ MaxInterval >= PollInterval
    /\ MaxExponent \in Nat \ {0} /\ Lateness \in Nat
    /\ Paces \subseteq Nat /\ CycleNames \subseteq Nat
    /\ Capacities \subseteq (Nat \ {0}) \cup {None}
    /\ Bundles \subseteq SUBSET Monitored
    /\ None \notin Nat \cup BOOLEAN

VARIABLES
    running,   \* _task is not None
    state,     \* _state of the device, or None
    cycles,    \* the poll cycles that are not done, or None
    node,      \* data of the device, or None
    counts,    \* _subscribed_epcs: how many subscriptions an EPC has
    confirmed, \* the device is in _subscription_confirmed
    subs,      \* the subscription of a consumer: its EPCs and if it is live
    skipped    \* history: free wakes since an owed EPC was last polled

pollVars == <<running, state, cycles>>
subVars == <<counts, confirmed, subs>>
vars == <<pollVars, node, subVars, skipped>>

Least(a, b) == IF a <= b THEN a ELSE b
Most(a, b) == IF a <= b THEN b ELSE a

Ages == 0 .. MaxInterval

(* The values a smoothed latency can take. *)
Smoothed == {p \in Nat : \E q, r \in Paces : q <= p /\ p <= r}

PollStates == [cycle : CycleNames \cup {None}, age : Ages \cup {None},
               fastAge : Ages \cup {None}, ewma : Smoothed \cup {None},
               failures : 0 .. MaxExponent]
DeviceData == [poll : SUBSET Monitored, fast : SUBSET Monitored,
               notified : SUBSET InfRequested, asked : BOOLEAN,
               available : BOOLEAN \cup {None}]
Subscriptions == [epcs : Bundles, live : BOOLEAN]

ASSUME NoneAssumption == None \notin PollStates \cup DeviceData \cup Subscriptions

NoPolls == [cycle |-> None, age |-> None, fastAge |-> None, ewma |-> None,
            failures |-> 0]

(***************************************************************************)
(* Intervals.  A count of failures beyond MaxExponent makes no difference,  *)
(* nor does an age beyond MaxInterval.                                      *)
(***************************************************************************)

(* One tier on its own, with the state `s` of the device or None. *)
TierInterval(s, base) ==
    LET adapted == IF s = None THEN base
                   ELSE Most(IF s.ewma = None THEN base ELSE s.ewma,
                             base * 2 ^ s.failures)
    IN  Least(Most(base, adapted), MaxInterval)

EffectiveInterval(s) == TierInterval(s, PollInterval)

(* The fast tier is folded back into the normal one. *)
EffectiveFastInterval(s) ==
    Least(TierInterval(s, FastInterval), EffectiveInterval(s))

Due(age, interval) == age = None \/ age >= interval

Aged(s, elapsed) ==
    LET Older(a) == IF a = None THEN None ELSE Least(a + elapsed, MaxInterval)
    IN  [s EXCEPT !.age = Older(@), !.fastAge = Older(@)]

(***************************************************************************)
(* The EPCs to poll.                                                        *)
(***************************************************************************)

ComputePollEpcs(notified) ==
    LET pollable == (Monitored \cap Gettable) \ notified
    IN  [poll |-> pollable \ FastCandidates, fast |-> pollable \cap FastCandidates]

Subscribed == {e \in Monitored : counts[e] > 0}

(* Mutant of EffectiveEpcs: a device nobody subscribes to any more is       *)
(* polled as one nobody has subscribed to yet.                              *)
EffectiveEpcsUnconfirmed(candidates) ==
    IF Subscribed = {} THEN candidates ELSE candidates \cap Subscribed

EffectiveEpcs(candidates) ==
    IF confirmed THEN candidates \cap Subscribed ELSE candidates

(* What the consumers want polled: the monitored, readable EPCs the device *)
(* does not notify of its own, of those the live subscriptions name once   *)
(* there was a subscription.                                               *)
Owed ==
    LET wanted == UNION {subs[c].epcs : c \in {d \in Consumers :
                                            subs[d] # None /\ subs[d].live}}
    IN  IF node = None THEN {}
        ELSE {e \in (Monitored \cap Gettable) \ node.notified :
                (\E c \in Consumers : subs[c] # None) => e \in wanted}

(* history: an EPC nobody waits for has not been skipped. *)
StillOwed == [e \in Monitored |-> IF e \in Owed' THEN skipped[e] ELSE 0]

-----------------------------------------------------------------------------
(* The device and its consumers. *)

(* _setup_device puts the device into data, polled for everything until    *)
(* the result of its INF_REQ is known.                                     *)
Appear ==
    /\ node = None
    /\ LET tiers == ComputePollEpcs({}) IN
         node' = [poll |-> tiers.poll, fast |-> tiers.fast, notified |-> {},
                  asked |-> InfRequested = {}, available |-> None]
    /\ UNCHANGED <<pollVars, subVars>>
    /\ skipped' = StillOwed

(* data is public: a consumer may drop a device. *)
Vanish ==
    /\ node # None
    /\ node' = None
    /\ UNCHANGED <<pollVars, subVars>>
    /\ skipped' = StillOwed

(* _send_initial_notification gets its result. *)
Notified ==
    /\ node # None /\ ~node.asked
    /\ \E notified \in SUBSET InfRequested :
         LET tiers == ComputePollEpcs(notified) IN
         node' = [node EXCEPT !.asked = TRUE, !.notified = notified,
                              !.poll = tiers.poll, !.fast = tiers.fast]
    /\ UNCHANGED <<pollVars, subVars>>
    /\ skipped' = StillOwed

Subscribe(c) ==
    /\ subs[c] = None
    /\ \E epcs \in Bundles :
         /\ subs' = [subs EXCEPT ![c] = [epcs |-> epcs, live |-> TRUE]]
         /\ counts' = [e \in Monitored |->
                         IF e \in epcs THEN counts[e] + 1 ELSE counts[e]]
    /\ confirmed' = TRUE
    /\ UNCHANGED <<pollVars, node>>
    /\ skipped' = StillOwed

(* The counter without one of the subscriptions; entries go at zero. *)
Without(epcs) == [e \in Monitored |->
                    IF e \in epcs THEN Most(counts[e] - 1, 0) ELSE counts[e]]

(* The function subscribe_epcs returned; only its first call counts. *)
Unsubscribe(c) ==
    /\ subs[c] # None /\ subs[c].live
    /\ subs' = [subs EXCEPT ![c].live = FALSE]
    /\ counts' = Without(subs[c].epcs)
    /\ UNCHANGED <<pollVars, node, confirmed>>
    /\ skipped' = StillOwed

-----------------------------------------------------------------------------
(* The loop. *)

Start ==
    /\ ~running
    /\ running' = TRUE
    /\ UNCHANGED <<state, cycles, node, subVars, skipped>>

(* The cycle in progress, if the state knows one, is cancelled.  It does   *)
(* nothing more: every await in it passes the cancellation on.             *)
Cancelled == IF state = None \/ state.cycle = None THEN cycles
             ELSE [cycles EXCEPT ![state.cycle] = None]

(* Mutant of Stop: only the loop is cancelled. *)
StopLoopOnly ==
    /\ running
    /\ running' = FALSE
    /\ state' = None
    /\ skipped' = [e \in Monitored |-> 0]
    /\ UNCHANGED <<cycles, node, subVars>>

Stop ==
    /\ running
    /\ running' = FALSE
    /\ cycles' = Cancelled
    /\ state' = None
    /\ skipped' = [e \in Monitored |-> 0]
    /\ UNCHANGED <<node, subVars>>

(* Mutant of CleanUp: the cycle of a device that has gone runs on. *)
CleanUpStateOnly ==
    /\ running /\ node = None
    /\ state' = None
    /\ UNCHANGED <<running, cycles, node, subVars, skipped>>

(* _cleanup_stale: the device has gone. *)
CleanUp ==
    /\ running /\ node = None
    /\ cycles' = Cancelled
    /\ state' = None
    /\ UNCHANGED <<running, node, subVars, skipped>>

Polling == state # None /\ state.cycle # None

(* A wake of the loop while a cycle of the device is in progress. *)
WakePolling ==
    /\ running /\ node # None /\ Polling
    /\ \E elapsed \in FastInterval .. FastInterval + Lateness :
         state' = Aged(state, elapsed)
    /\ UNCHANGED <<running, cycles, node, subVars, skipped>>

(* Mutant of PolledNow: a poll of either tier restarts both. *)
PolledBoth(s, normal, fast) == [s EXCEPT !.age = 0, !.fastAge = 0]

(* The state of the device once the tiers that are due are polled. *)
PolledNow(s, normal, fast) ==
    [s EXCEPT !.age = IF normal THEN 0 ELSE @,
              !.fastAge = IF fast THEN 0 ELSE @]

FirstFree(c) ==
    cycles[c] = None /\ \A d \in CycleNames : d < c => cycles[d] # None

(* The EPCs of a set, sorted. *)
Ascending(epcs) ==
    {s \in [1 .. Cardinality(epcs) -> epcs] :
        \A i, j \in 1 .. Cardinality(epcs) : i < j => s[i] < s[j]}

(* A wake of the loop while no cycle of the device is in progress: the     *)
(* tiers that are due are merged into one cycle, unless no EPC of theirs   *)
(* is wanted.                                                              *)
Wake ==
    /\ running /\ node # None /\ ~Polling
    /\ \E elapsed \in FastInterval .. FastInterval + Lateness :
       LET aged == IF state = None THEN NoPolls ELSE Aged(state, elapsed)
           normal == node.poll # {} /\ Due(aged.age, EffectiveInterval(aged))
           fast == node.fast # {} /\ Due(aged.fastAge, EffectiveFastInterval(aged))
           epcs == (IF normal THEN EffectiveEpcs(node.poll) ELSE {})
                     \cup (IF fast THEN EffectiveEpcs(node.fast) ELSE {})
       IN  /\ skipped' = [e \in Monitored |->
                            IF e \in Owed \ epcs THEN skipped[e] + 1 ELSE 0]
           /\ IF epcs = {}
              THEN /\ state' = IF state = None THEN None ELSE aged
                   /\ UNCHANGED cycles
              ELSE \E c \in CycleNames, rest \in Ascending(epcs) :
                   /\ FirstFree(c)
                   /\ state' = [PolledNow(aged, normal, fast) EXCEPT !.cycle = c]
                   /\ cycles' = [cycles EXCEPT ![c] =
                        [begun |-> FALSE, asked |-> <<>>, rest |-> rest]]
    /\ UNCHANGED <<running, node, subVars>>

-----------------------------------------------------------------------------
(* A poll cycle. *)

(* take_first_batch for a device without a policy. *)
FirstBatch(epcs, capacity) ==
    IF capacity = None THEN [batch |-> epcs, rest |-> <<>>]
    ELSE LET n == Least(capacity, Len(epcs))
         IN  [batch |-> SubSeq(epcs, 1, n), rest |-> SubSeq(epcs, n + 1, Len(epcs))]

(* The cycle asks for its next chunk, or is done; `s` is the state of the  *)
(* device, of which the cycle may be the current one.                      *)
Proceeds(c, s) ==
    IF cycles[c].rest = <<>> \/ node = None
    THEN /\ cycles' = [cycles EXCEPT ![c] = None]
         /\ state' = IF s # None /\ s.cycle = c THEN [s EXCEPT !.cycle = None] ELSE s
    ELSE /\ \E capacity \in Capacities :
              LET first == FirstBatch(cycles[c].rest, capacity) IN
              cycles' = [cycles EXCEPT ![c] = [begun |-> TRUE, asked |-> first.batch,
                                               rest |-> first.rest]]
         /\ state' = s

CycleBegins(c) ==
    /\ cycles[c] # None /\ ~cycles[c].begun
    /\ Proceeds(c, state)
    /\ UNCHANGED <<running, node, subVars, skipped>>

(* A cycle writes to the state it was started with: if the device has      *)
(* another by now, the write is lost.                                      *)
Records(c, s) == IF state = None \/ state.cycle # c THEN state ELSE s

(* The exponential average is somewhere between the old value and the new. *)
Averages(s, pace) ==
    IF s.ewma = None THEN {pace}
    ELSE Least(s.ewma, pace) .. Most(s.ewma, pace)

Available(a) == IF node = None THEN None ELSE [node EXCEPT !.available = a]

(* The chunk is answered, with 0x72 or 0x52. *)
CycleAnswered(c) ==
    /\ cycles[c] # None /\ cycles[c].begun
    /\ IF state = None THEN Proceeds(c, state)
       ELSE \E pace \in Paces : \E ewma \in Averages(state, pace) :
              Proceeds(c, Records(c, [state EXCEPT !.ewma = ewma, !.failures = 0]))
    /\ node' = Available(TRUE)
    /\ UNCHANGED <<running, subVars, skipped>>

(* Mutant of Failed: the cap on the exponent is forgotten. *)
FailedUncapped(s) == [s EXCEPT !.failures = @ + 1]

Failed(s) == [s EXCEPT !.failures = Least(@ + 1, MaxExponent)]

(* The chunk is not answered in time, could not be sent, or the device is  *)
(* no longer known; that ends the cycle.                                   *)
CycleUnanswered(c) ==
    /\ cycles[c] # None /\ cycles[c].begun
    /\ cycles' = [cycles EXCEPT ![c] = None]
    /\ state' = IF state = None THEN None
                ELSE Records(c, [Failed(state) EXCEPT !.cycle = None])
    /\ node' = Available(FALSE)
    /\ UNCHANGED <<running, subVars, skipped>>

-----------------------------------------------------------------------------
Init ==
    /\ running = FALSE /\ state = None
    /\ cycles = [c \in CycleNames |-> None]
    /\ node = None
    /\ counts = [e \in Monitored |-> 0] /\ confirmed = FALSE
    /\ subs = [c \in Consumers |-> None]
    /\ skipped = [e \in Monitored |-> 0]

Next ==
    \/ Appear \/ Vanish \/ Notified
    \/ \E c \in Consumers : Subscribe(c) \/ Unsubscribe(c)
    \/ Start \/ Stop \/ CleanUp \/ WakePolling \/ Wake
    \/ \E c \in CycleNames : CycleBegins(c) \/ CycleAnswered(c) \/ CycleUnanswered(c)

Spec == Init /\ [][Next]_vars

-----------------------------------------------------------------------------
EpcSeqs == UNION {[1 .. n -> Monitored] : n \in 0 .. Cardinality(Monitored)}

(* The state is well formed; the counter of subscriptions never counts     *)
(* more than there are consumers.                                          *)
TypeOK ==
    /\ running \in BOOLEAN /\ confirmed \in BOOLEAN
    /\ state \in {None} \cup PollStates
    /\ cycles \in [CycleNames ->
                      {None} \cup [begun : BOOLEAN, asked : EpcSeqs, rest : EpcSeqs]]
    /\ node \in {None} \cup DeviceData
    /\ counts \in [Monitored -> 0 .. Cardinality(Consumers)]
    /\ subs \in [Consumers -> {None} \cup Subscriptions]
    /\ skipped \in [Monitored -> Nat]

(* "A device is never sent a new poll cycle while a previous one is still   *)
(* in progress" (PropertyPoller), whatever the order of wakes, slow answers,*)
(* a device that goes and comes back, stop() and start(): a cycle that can  *)
(* still run is the one the schedule of the device knows.                   *)
OneCycle ==
    \A c \in CycleNames : cycles[c] # None => state # None /\ state.cycle = c

(* The device manager's polling_available and the failures the poller backs *)
(* off for agree: a device that is backed off does not show as answering,   *)
(* and one that answered its last poll does not show as unavailable.        *)
AvailabilityHonest ==
    node # None /\ state # None =>
        /\ state.failures > 0 => node.available # TRUE
        /\ state.failures = 0 /\ state.ewma # None => node.available # FALSE

(* However slow the device, however many polls it left unanswered and       *)
(* whichever tier was polled in between, an EPC that is owed is in a cycle  *)
(* again once the wakes that could have started one add up to max_interval. *)
NeverNeglected == \A e \in Monitored : skipped[e] * FastInterval < MaxInterval

(* A cycle is only started for EPCs that are owed: after the last live      *)
(* subscription of an EPC ends, and after the device notified it, no new    *)
(* cycle requests it ("those EPCs stop being polled", subscribe_epcs).      *)
PollsOnlyWanted ==
    [][\A c \in CycleNames :
         cycles[c] = None /\ cycles'[c] # None => ToSet(cycles'[c].rest) \subseteq Owed]_vars
=============================================================================
