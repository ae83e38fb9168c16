---------------------------- MODULE PropertyCache ----------------------------
(***************************************************************************)
(* The cached property values of one device object (device_manager.py,      *)
(* set_properties to _refresh and _apply_frame) against the values the      *)
(* device really has.                                                       *)
(*                                                                         *)
(* A consumer sets properties, polls and refreshes read them, and the       *)
(* device changes them on its own.  Requests of a node go out one at a time *)
(* (RequestQueue); what is waiting is sent in any order, which allows every *)
(* order the priorities do.  Datagrams keep their order, may be lost, and   *)
(* may arrive after the request they answer has timed out.  The client      *)
(* handles a datagram before the next: the caller of a SetC and the event   *)
(* consumer both run before the socket is read again.                       *)
(***************************************************************************)
EXTENDS Integers, Sequences, FiniteSets, SequencesExt

CONSTANTS
    Epcs,     \* the EPCs of the device that a consumer sets
    Readable, \* those in get_epcs
    Values, Default,
    Budgets, \* bounds: how many Sets, polls, changes of the device of its own
             \* and losses of a datagram there are
    None

ASSUME CacheAssumption ==
    /\ Readable \subseteq Epcs /\ Default \in Values
    /\ None \notin Values
    /\ Budgets \subseteq [{"set", "poll", "change", "loss"} -> Nat]

VARIABLES
    device,      \* the values on the device
    cache,       \* properties of the NodeState
    sets,        \* SetCs waiting to be sent
    reads,       \* GETs waiting to be sent: polls and refreshes that slept
    refreshes,   \* _refresh_tasks that sleep
    outstanding, \* the request sent last, or None once it ended
    requests,    \* datagrams on their way to the device
    answers,     \* datagrams on their way to the client
    budget,      \* what is left of one of Budgets
    unsure       \* history: EPCs the latest news of which was lost or ignored,
                 \* or that were set without a refresh

vars == <<device, cache, sets, reads, refreshes, outstanding, requests, answers,
          budget, unsure>>
clientVars == <<cache, sets, reads, refreshes, outstanding, unsure>>

(* Values of some of the EPCs. *)
Partial(S) == UNION {[E -> S] : E \in (SUBSET Epcs) \ {{}}}

Updated(all, some) ==
    [e \in Epcs |-> IF e \in DOMAIN some THEN some[e] ELSE all[e]]

Spend(what) == budget[what] > 0 /\ budget' = [budget EXCEPT ![what] = @ - 1]

SetRequest(values, refresh) ==
    [kind |-> "set", values |-> values, refresh |-> refresh, id |-> budget["set"]]
GetRequest(epcs) == [kind |-> "get", epcs |-> epcs]

(* The datagrams of the device: values, and the answer to a SetC, with the *)
(* EPCs it accepted (SET_RES if that is all of them, else SETC_SNA).       *)
ValuesOf(epcs) == [kind |-> "values", values |-> [e \in epcs |-> device'[e]]]
SetAnswer(request, accepted) ==
    [kind |-> "set", request |-> request, accepted |-> accepted]

-----------------------------------------------------------------------------
(* The client sends. *)

SetProperties ==
    /\ Spend("set")
    /\ \E values \in Partial(Values), refresh \in BOOLEAN :
         sets' = Append(sets, SetRequest(values, refresh))
    /\ UNCHANGED <<device, cache, reads, refreshes, outstanding, requests, answers,
                   unsure>>

(* poll_device, for some of the readable EPCs. *)
PollDevice ==
    /\ Spend("poll")
    /\ \E epcs \in (SUBSET Readable) \ {{}} : reads' = Append(reads, epcs)
    /\ UNCHANGED <<device, cache, sets, refreshes, outstanding, requests, answers,
                   unsure>>

(* _refresh has slept for _REFRESH_DELAY. *)
RefreshReads ==
    /\ refreshes # <<>>
    /\ reads' = Append(reads, Head(refreshes))
    /\ refreshes' = Tail(refreshes)
    /\ UNCHANGED <<device, cache, sets, outstanding, requests, answers, budget, unsure>>

Send(request) ==
    /\ outstanding = None
    /\ outstanding' = request
    /\ requests' = Append(requests, request)
    /\ UNCHANGED <<device, cache, refreshes, answers, budget, unsure>>

SendSet ==
    /\ sets # <<>>
    /\ Send(Head(sets))
    /\ sets' = Tail(sets)
    /\ UNCHANGED reads

SendGet ==
    /\ reads # <<>>
    /\ Send(GetRequest(Head(reads)))
    /\ reads' = Tail(reads)
    /\ UNCHANGED sets

(* The response timeout; set_properties then reports every EPC unanswered. *)
TimesOut ==
    /\ outstanding # None
    /\ outstanding' = None
    /\ UNCHANGED <<device, cache, sets, reads, refreshes, requests, answers, budget,
                   unsure>>

-----------------------------------------------------------------------------
(* The device. *)

(* It accepts some EPCs of a SetC, and may settle on other values than the *)
(* requested ones.  It may notify the new values, before or after it       *)
(* answers.                                                                *)
DeviceSets ==
    /\ requests # <<>> /\ Head(requests).kind = "set"
    /\ requests' = Tail(requests)
    /\ LET request == Head(requests) IN
       \E accepted \in SUBSET DOMAIN request.values :
       \E settled \in [accepted -> Values] :
       LET answer == SetAnswer(request, accepted) IN
       /\ device' = Updated(device, settled)
       /\ \/ answers' = Append(answers, answer)
          \/ /\ accepted # {}
             /\ \/ answers' = answers \o <<ValuesOf(accepted), answer>>
                \/ answers' = answers \o <<answer, ValuesOf(accepted)>>
    /\ UNCHANGED <<clientVars, budget>>

DeviceAnswers ==
    /\ requests # <<>> /\ Head(requests).kind = "get"
    /\ requests' = Tail(requests)
    /\ device' = device
    /\ answers' = Append(answers, ValuesOf(Head(requests).epcs))
    /\ UNCHANGED <<clientVars, budget>>

(* It changes a value on its own, and notifies it. *)
DeviceChanges ==
    /\ Spend("change")
    /\ \E e \in Epcs : \E v \in Values \ {device[e]} :
         device' = [device EXCEPT ![e] = v]
    /\ answers' = Append(answers,
                         ValuesOf({e \in Epcs : device'[e] # device[e]}))
    /\ UNCHANGED <<clientVars, requests>>

(* The network loses a request, and with a GET the news it would have     *)
(* brought, or a datagram of the device.                                   *)
RequestLost ==
    /\ Spend("loss")
    /\ requests # <<>>
    /\ requests' = Tail(requests)
    /\ unsure' = IF Head(requests).kind = "get" THEN unsure \cup Head(requests).epcs
                 ELSE unsure
    /\ UNCHANGED <<device, cache, sets, reads, refreshes, outstanding, answers>>

NewsOf(datagram) == IF datagram.kind = "set" THEN datagram.accepted
                    ELSE DOMAIN datagram.values

AnswerLost ==
    /\ Spend("loss")
    /\ answers # <<>>
    /\ answers' = Tail(answers)
    /\ unsure' = unsure \cup NewsOf(Head(answers))
    /\ UNCHANGED <<device, cache, sets, reads, refreshes, outstanding, requests>>

-----------------------------------------------------------------------------
(* The client receives. *)

(* A response or notification with values: _apply_frame.  The response to  *)
(* a GET ends the request it answers.                                      *)
ReceiveValues ==
    /\ answers # <<>> /\ Head(answers).kind = "values"
    /\ LET values == Head(answers).values IN
       /\ cache' = Updated(cache, values)
       /\ unsure' = unsure \ DOMAIN values
       /\ outstanding' \in
            {outstanding} \cup IF outstanding # None /\ outstanding.kind = "get"
                                  /\ outstanding.epcs = DOMAIN values
                               THEN {None} ELSE {}
    /\ answers' = Tail(answers)
    /\ UNCHANGED <<device, sets, reads, refreshes, requests, budget>>

(* Mutant of Accepted: one EPC that is accepted stands for them all. *)
AcceptedAll(answer) ==
    IF answer.accepted = {} THEN {} ELSE DOMAIN answer.request.values

(* accepted_epcs of the SetRequestResult. *)
Accepted(answer) == answer.accepted

(* _apply_accepted_properties *)
Applied(answer) ==
    Updated(cache, [e \in Accepted(answer) |-> answer.request.values[e]])

(* Mutant of ToRefresh: EPCs the device cannot read back are read. *)
ToRefreshAll(answer) == Accepted(answer)

(* The EPCs _schedule_refresh reads back. *)
ToRefresh(answer) == Accepted(answer) \cap Readable

ReceiveSetAnswer ==
    /\ answers # <<>> /\ Head(answers).kind = "set"
    /\ LET answer == Head(answers)
           late == outstanding # answer.request
       IN  IF late
           THEN /\ unsure' = unsure \cup NewsOf(answer)
                /\ UNCHANGED <<cache, refreshes, outstanding>>
           ELSE /\ outstanding' = None
                /\ cache' = Applied(answer)
                /\ unsure' = IF answer.request.refresh THEN unsure
                             ELSE unsure \cup NewsOf(answer)
                /\ refreshes' = IF answer.request.refresh /\ ToRefresh(answer) # {}
                                THEN Append(refreshes, ToRefresh(answer))
                                ELSE refreshes
    /\ answers' = Tail(answers)
    /\ UNCHANGED <<device, sets, reads, requests, budget>>

-----------------------------------------------------------------------------
(* A device that has been set up. *)
Init ==
    /\ device = [e \in Epcs |-> Default] /\ cache = device
    /\ sets = <<>> /\ reads = <<>> /\ refreshes = <<>> /\ outstanding = None
    /\ requests = <<>> /\ answers = <<>>
    /\ budget \in Budgets
    /\ unsure = {}

Next ==
    \/ SetProperties \/ PollDevice \/ RefreshReads \/ SendSet \/ SendGet \/ TimesOut
    \/ DeviceSets \/ DeviceAnswers \/ DeviceChanges
    \/ RequestLost \/ AnswerLost \/ ReceiveValues \/ ReceiveSetAnswer

Spec == Init /\ [][Next]_vars

-----------------------------------------------------------------------------
(* What is read at once, by a poll or a refresh: only what is in get_epcs. *)
ReadSets == (SUBSET Readable) \ {{}}

SetRequests == [kind : {"set"}, values : Partial(Values), refresh : BOOLEAN, id : Nat]
GetRequests == [kind : {"get"}, epcs : ReadSets]
Requests == SetRequests \cup GetRequests

Datagrams ==
    [kind : {"values"}, values : Partial(Values)]
        \cup {d \in [kind : {"set"}, request : SetRequests, accepted : SUBSET Epcs] :
                d.accepted \subseteq DOMAIN d.request.values}

(* Every request, datagram and read-back is of EPCs of the device, and only *)
(* what is in get_epcs is read.                                            *)
TypeOK ==
    /\ device \in [Epcs -> Values] /\ cache \in [Epcs -> Values]
    /\ sets \in Seq(SetRequests)
    /\ reads \in Seq(ReadSets) /\ refreshes \in Seq(ReadSets)
    /\ outstanding \in Requests \cup {None}
    /\ requests \in Seq(Requests) /\ answers \in Seq(Datagrams)
    /\ budget \in [{"set", "poll", "change", "loss"} -> Nat]
    /\ unsure \subseteq Epcs

Quiet ==
    /\ sets = <<>> /\ reads = <<>> /\ refreshes = <<>>
    /\ outstanding = None /\ requests = <<>> /\ answers = <<>>

(* "Read the accepted, readable EPCs back from the device shortly           *)
(* afterwards, so the cache reflects the device state" (set_properties):    *)
(* when everything is done, a readable EPC has the cached value it has on   *)
(* the device, whatever the device made of the values it was sent, whether  *)
(* it notified them before it answered, and however Sets, refreshes, polls  *)
(* and notifications overlapped, unless the latest news of it was lost, or  *)
(* ignored as an answer to a request that had timed out.                    *)
CacheSettles == Quiet => \A e \in Readable \ unsure : cache[e] = device[e]
=============================================================================
