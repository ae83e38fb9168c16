-------------------------- MODULE PropertyCacheProofs --------------------------
(***************************************************************************)
(* Theorems about PropertyCache for any EPCs, values and budgets.           *)
(***************************************************************************)
EXTENDS PropertyCache, SequenceTheorems, TLAPS

(* A datagram on its way to the client has news of e.                       *)
Reported(s, e) == \E i \in DOMAIN s : e \in NewsOf(s[i])

(* The last news of an EPC, if it is a value, is the one on the device.     *)
Latest(s, values) ==
    \A e \in Epcs, i \in DOMAIN s :
        /\ s[i].kind = "values" /\ e \in DOMAIN s[i].values
        /\ \A j \in DOMAIN s : j > i => e \notin NewsOf(s[j])
        => s[i].values[e] = values[e]

Has(s, e) == \E i \in DOMAIN s : e \in s[i]
Asked(s, e) == \E i \in DOMAIN s : s[i].kind = "get" /\ e \in s[i].epcs

(* A GET of e has not reached the device yet.                               *)
ToBeRead(e) == Has(refreshes, e) \/ Has(reads, e) \/ Asked(requests, e)

(* The value of a readable EPC is right, or news of it is on its way, or    *)
(* it is going to be read, unless it is unsure.                             *)
NewsComes ==
    \A e \in Readable \ unsure :
        cache[e] = device[e] \/ Reported(answers, e) \/ ToBeRead(e)

CacheInv == TypeOK /\ Latest(answers, device) /\ NewsComes

-----------------------------------------------------------------------------
(* Sequences, from either end.                                              *)
LEMMA AppendFacts ==
    ASSUME NEW S, NEW s \in Seq(S), NEW x \in S
    PROVE  /\ Append(s, x) \in Seq(S)
           /\ DOMAIN Append(s, x) = DOMAIN s \cup {Len(s) + 1}
           /\ \A i \in DOMAIN s : Append(s, x)[i] = s[i] /\ i \in Nat /\ i < Len(s) + 1
           /\ Append(s, x)[Len(s) + 1] = x
  <1>1. /\ Append(s, x) \in Seq(S) /\ Len(Append(s, x)) = Len(s) + 1
        /\ \A i \in 1..Len(s) : Append(s, x)[i] = s[i]
        /\ Append(s, x)[Len(s) + 1] = x
    BY AppendProperties
  <1>2. DOMAIN s = 1..Len(s) /\ Len(s) \in Nat /\ DOMAIN Append(s, x) = 1..(Len(s) + 1)
    BY <1>1, LenProperties
  <1> QED BY <1>1, <1>2

LEMMA TailFacts ==
    ASSUME NEW S, NEW s \in Seq(S), s # <<>>
    PROVE  /\ Head(s) \in S /\ Tail(s) \in Seq(S) /\ Head(s) = s[1]
           /\ \A i \in DOMAIN s : i \in Nat /\ (i = 1 \/ (i - 1 \in DOMAIN Tail(s) /\ Tail(s)[i - 1] = s[i]))
           /\ \A i \in DOMAIN Tail(s) : i \in Nat /\ i + 1 \in DOMAIN s /\ Tail(s)[i] = s[i + 1]
  <1>1. /\ Head(s) \in S /\ Tail(s) \in Seq(S) /\ Len(Tail(s)) = Len(s) - 1
        /\ \A i \in 1..Len(Tail(s)) : Tail(s)[i] = s[i + 1]
    BY HeadTailProperties
  <1>2. DOMAIN s = 1..Len(s) /\ Len(s) \in Nat /\ DOMAIN Tail(s) = 1..Len(Tail(s))
    BY <1>1, LenProperties
  <1>3. Head(s) = s[1]
    OBVIOUS
  <1> QED BY <1>1, <1>2, <1>3

LEMMA HasFacts ==
    ASSUME NEW S, NEW s \in Seq(S), NEW e
    PROVE  /\ \A x \in S : Has(Append(s, x), e) <=> Has(s, e) \/ e \in x
           /\ s # <<>> /\ Has(s, e) => e \in Head(s) \/ Has(Tail(s), e)
  <1>1. ASSUME NEW x \in S PROVE Has(Append(s, x), e) <=> Has(s, e) \/ e \in x
    BY AppendFacts DEF Has
  <1>2. ASSUME s # <<>>, Has(s, e) PROVE e \in Head(s) \/ Has(Tail(s), e)
    BY <1>2, TailFacts DEF Has
  <1> QED BY <1>1, <1>2

LEMMA AskedFacts ==
    ASSUME NEW S, NEW s \in Seq(S), NEW e
    PROVE  /\ \A x \in S : Asked(Append(s, x), e) <=> Asked(s, e) \/ (x.kind = "get" /\ e \in x.epcs)
           /\ s # <<>> /\ Asked(s, e) =>
                (Head(s).kind = "get" /\ e \in Head(s).epcs) \/ Asked(Tail(s), e)
  <1>1. ASSUME NEW x \in S
        PROVE  Asked(Append(s, x), e) <=> Asked(s, e) \/ (x.kind = "get" /\ e \in x.epcs)
    BY AppendFacts DEF Asked
  <1>2. ASSUME s # <<>>, Asked(s, e)
        PROVE  (Head(s).kind = "get" /\ e \in Head(s).epcs) \/ Asked(Tail(s), e)
    <2>1. PICK i \in DOMAIN s : s[i].kind = "get" /\ e \in s[i].epcs
      BY <1>2 DEF Asked
    <2>2. /\ Head(s) = s[1]
          /\ i = 1 \/ (i - 1 \in DOMAIN Tail(s) /\ Tail(s)[i - 1] = s[i])
      BY <1>2, TailFacts
    <2>3. CASE i = 1
      BY <2>1, <2>2, <2>3
    <2>4. CASE i - 1 \in DOMAIN Tail(s) /\ Tail(s)[i - 1] = s[i]
      BY <2>1, <2>4 DEF Asked
    <2> QED BY <2>2, <2>3, <2>4
  <1> QED BY <1>1, <1>2

(* The values of a datagram are these.                                      *)
Current(d, values) == d.kind = "values" => \A e \in DOMAIN d.values : d.values[e] = values[e]

(* What is reported, and that the last news is right, when the device sends *)
(* news of all that it changes ...                                          *)
LEMMA SentFacts ==
    ASSUME NEW s \in Seq(Datagrams), NEW old, NEW new, Latest(s, old), NEW d \in Datagrams,
           \A e \in Epcs \ NewsOf(d) : new[e] = old[e],
           Current(d, new)
    PROVE  /\ Append(s, d) \in Seq(Datagrams) /\ Latest(Append(s, d), new)
           /\ \A e \in Epcs : Reported(s, e) \/ e \in NewsOf(d) => Reported(Append(s, d), e)
  <1>1. Append(s, d) \in Seq(Datagrams)
    BY AppendFacts
  <1>2. ASSUME NEW e \in Epcs, Reported(s, e) \/ e \in NewsOf(d)
        PROVE  Reported(Append(s, d), e)
    BY <1>2, AppendFacts DEF Reported
  <1>3. ASSUME NEW e \in Epcs, NEW i \in DOMAIN Append(s, d),
               Append(s, d)[i].kind = "values", e \in DOMAIN Append(s, d)[i].values,
               \A j \in DOMAIN Append(s, d) : j > i => e \notin NewsOf(Append(s, d)[j])
        PROVE  Append(s, d)[i].values[e] = new[e]
    <2>1. CASE i = Len(s) + 1
      BY <1>3, <2>1, AppendFacts DEF Current
    <2>2. CASE i # Len(s) + 1
      <3>1. i \in DOMAIN s /\ Append(s, d)[i] = s[i] /\ Len(s) + 1 > i
        BY <2>2, AppendFacts
      <3>2. e \notin NewsOf(d) /\ \A j \in DOMAIN s : j > i => e \notin NewsOf(s[j])
        BY <1>3, <3>1, AppendFacts
      <3>3. s[i].values[e] = old[e]
        BY <1>3, <3>1, <3>2 DEF Latest
      <3> QED BY <3>1, <3>2, <3>3
    <2> QED BY <2>1, <2>2
  <1> QED BY <1>1, <1>2, <1>3 DEF Latest

(* ... and when the first datagram arrives, or is lost.                     *)
LEMMA ArrivedFacts ==
    ASSUME NEW s \in Seq(Datagrams), s # <<>>, NEW values, Latest(s, values)
    PROVE  /\ Head(s) \in Datagrams /\ Tail(s) \in Seq(Datagrams) /\ Latest(Tail(s), values)
           /\ \A e \in Epcs : Reported(s, e) => e \in NewsOf(Head(s)) \/ Reported(Tail(s), e)
           /\ \A e \in Epcs :
                Head(s).kind = "values" /\ e \in DOMAIN Head(s).values
                => Head(s).values[e] = values[e] \/ Reported(Tail(s), e)
  <1>1. Head(s) \in Datagrams /\ Tail(s) \in Seq(Datagrams)
    BY TailFacts
  <1>2. ASSUME NEW e \in Epcs, Reported(s, e)
        PROVE  e \in NewsOf(Head(s)) \/ Reported(Tail(s), e)
    BY <1>2, TailFacts DEF Reported
  <1>3. ASSUME NEW e \in Epcs, NEW i \in DOMAIN Tail(s),
               Tail(s)[i].kind = "values", e \in DOMAIN Tail(s)[i].values,
               \A j \in DOMAIN Tail(s) : j > i => e \notin NewsOf(Tail(s)[j])
        PROVE  Tail(s)[i].values[e] = values[e]
    <2>1. i \in Nat /\ i + 1 \in DOMAIN s /\ Tail(s)[i] = s[i + 1]
      BY TailFacts
    <2>2. ASSUME NEW j \in DOMAIN s, j > i + 1 PROVE e \notin NewsOf(s[j])
      <3>1. j - 1 \in DOMAIN Tail(s) /\ Tail(s)[j - 1] = s[j] /\ j - 1 > i
        BY <2>1, <2>2, TailFacts
      <3> QED BY <1>3, <3>1
    <2> QED BY <1>3, <2>1, <2>2 DEF Latest
  <1>4. ASSUME NEW e \in Epcs, Head(s).kind = "values", e \in DOMAIN Head(s).values,
               ~Reported(Tail(s), e)
        PROVE  Head(s).values[e] = values[e]
    <2>1. ASSUME NEW j \in DOMAIN s, j > 1 PROVE e \notin NewsOf(s[j])
      <3>1. j - 1 \in DOMAIN Tail(s) /\ Tail(s)[j - 1] = s[j]
        BY <2>1, TailFacts
      <3> QED BY <1>4, <3>1 DEF Reported
    <2>2. 1 \in DOMAIN s /\ Head(s) = s[1]
      BY TailFacts, EmptySeq, LenProperties
    <2> QED BY <1>4, <2>1, <2>2 DEF Latest
  <1> QED BY <1>1, <1>2, <1>3, <1>4 DEF Latest

-----------------------------------------------------------------------------
(* The client sends.                                                        *)

LEMMA SpendFacts ==
    ASSUME TypeOK, NEW what \in {"set", "poll", "change", "loss"}, Spend(what)
    PROVE  budget' \in [{"set", "poll", "change", "loss"} -> Nat]
  <1>1. budget[what] - 1 \in Nat
    BY DEF TypeOK, Spend
  <1> QED BY <1>1 DEF TypeOK, Spend

LEMMA RequestFacts ==
    /\ \A r \in Requests : r.kind = "get" => r \in GetRequests
    /\ \A r \in Requests : r.kind = "set" => r \in SetRequests
    /\ \A epcs \in ReadSets :
         GetRequest(epcs) \in GetRequests /\ GetRequest(epcs).kind = "get"
         /\ GetRequest(epcs).epcs = epcs
  BY DEF Requests, GetRequests, SetRequests, GetRequest

LEMMA SetPropertiesStep == ASSUME CacheInv, SetProperties PROVE CacheInv'
  <1>1. TypeOK /\ budget' \in [{"set", "poll", "change", "loss"} -> Nat]
    BY SpendFacts DEF CacheInv, SetProperties
  <1>2. sets' \in Seq(SetRequests)
    <2>1. PICK values \in Partial(Values), refresh \in BOOLEAN :
            sets' = Append(sets, SetRequest(values, refresh))
      BY DEF SetProperties
    <2>2. SetRequest(values, refresh) \in SetRequests
      BY <1>1 DEF SetRequest, SetRequests, TypeOK
    <2> QED BY <1>1, <2>1, <2>2, AppendFacts DEF TypeOK
  <1> QED BY <1>1, <1>2
      DEF CacheInv, SetProperties, TypeOK, NewsComes, ToBeRead

LEMMA PollDeviceStep == ASSUME CacheInv, PollDevice PROVE CacheInv'
  <1>1. TypeOK /\ budget' \in [{"set", "poll", "change", "loss"} -> Nat]
    BY SpendFacts DEF CacheInv, PollDevice
  <1>2. PICK epcs \in ReadSets : reads' = Append(reads, epcs)
    BY DEF PollDevice, ReadSets
  <1>3. reads' \in Seq(ReadSets) /\ \A e \in Epcs : Has(reads, e) => Has(reads', e)
    <2>1. reads \in Seq(ReadSets)
      BY <1>1 DEF TypeOK
    <2>2. reads' \in Seq(ReadSets)
      BY <1>2, <2>1, AppendFacts
    <2> QED BY <1>2, <2>1, <2>2, HasFacts
  <1>4. NewsComes'
    BY <1>3, CacheAssumption DEF CacheInv, PollDevice, NewsComes, ToBeRead
  <1> QED BY <1>1, <1>3, <1>4 DEF CacheInv, PollDevice, TypeOK

LEMMA RefreshReadsStep == ASSUME CacheInv, RefreshReads PROVE CacheInv'
  <1>1. TypeOK /\ refreshes # <<>> /\ reads' = Append(reads, Head(refreshes)) /\ refreshes' = Tail(refreshes)
    BY DEF CacheInv, RefreshReads
  <1>2. Head(refreshes) \in ReadSets /\ refreshes' \in Seq(ReadSets)
    BY <1>1, TailFacts DEF TypeOK
  <1>3. /\ reads' \in Seq(ReadSets)
        /\ \A e \in Epcs : Has(reads, e) \/ Has(refreshes, e) => Has(reads', e) \/ Has(refreshes', e)
    <2>1. reads \in Seq(ReadSets) /\ refreshes \in Seq(ReadSets)
      BY <1>1 DEF TypeOK
    <2>2. reads' \in Seq(ReadSets)
      BY <1>1, <1>2, <2>1, AppendFacts
    <2>3. ASSUME NEW e \in Epcs, Has(reads, e) \/ Has(refreshes, e)
          PROVE  Has(reads', e) \/ Has(refreshes', e)
      <3>1. Has(reads', e) <=> Has(reads, e) \/ e \in Head(refreshes)
        BY <1>1, <1>2, <2>1, HasFacts
      <3>2. Has(refreshes, e) => e \in Head(refreshes) \/ Has(refreshes', e)
        BY <1>1, <2>1, HasFacts
      <3> QED BY <2>3, <3>1, <3>2
    <2> QED BY <2>2, <2>3
  <1>4. NewsComes'
    BY <1>3, CacheAssumption DEF CacheInv, RefreshReads, NewsComes, ToBeRead
  <1> QED BY <1>1, <1>2, <1>3, <1>4 DEF CacheInv, RefreshReads, TypeOK

LEMMA SendSetStep == ASSUME CacheInv, SendSet PROVE CacheInv'
  <1>1. /\ TypeOK /\ sets # <<>> /\ sets' = Tail(sets)
        /\ outstanding' = Head(sets) /\ requests' = Append(requests, Head(sets))
    BY DEF CacheInv, SendSet, Send
  <1>2. Head(sets) \in SetRequests /\ Head(sets) \in Requests /\ sets' \in Seq(SetRequests)
    BY <1>1, TailFacts DEF TypeOK, Requests
  <1>3. requests' \in Seq(Requests) /\ \A e \in Epcs : Asked(requests, e) => Asked(requests', e)
    BY <1>1, <1>2, AppendFacts, AskedFacts DEF TypeOK
  <1>4. NewsComes'
    BY <1>3, CacheAssumption DEF CacheInv, SendSet, Send, NewsComes, ToBeRead
  <1> QED BY <1>1, <1>2, <1>3, <1>4 DEF CacheInv, SendSet, Send, TypeOK

LEMMA SendGetStep == ASSUME CacheInv, SendGet PROVE CacheInv'
  <1>1. /\ TypeOK /\ reads # <<>> /\ reads' = Tail(reads)
        /\ outstanding' = GetRequest(Head(reads))
        /\ requests' = Append(requests, GetRequest(Head(reads)))
    BY DEF CacheInv, SendGet, Send
  <1>2. /\ Head(reads) \in ReadSets /\ reads' \in Seq(ReadSets)
    BY <1>1, TailFacts DEF TypeOK
  <1>3. /\ GetRequest(Head(reads)) \in Requests
        /\ GetRequest(Head(reads)).kind = "get" /\ GetRequest(Head(reads)).epcs = Head(reads)
    BY <1>2, RequestFacts DEF Requests
  <1>4. /\ requests' \in Seq(Requests)
        /\ \A e \in Epcs : Asked(requests, e) \/ e \in Head(reads) => Asked(requests', e)
    BY <1>1, <1>3, AppendFacts, AskedFacts DEF TypeOK
  <1>5. \A e \in Epcs : Has(reads, e) => e \in Head(reads) \/ Has(reads', e)
    BY <1>1, HasFacts DEF TypeOK
  <1>6. NewsComes'
    BY <1>4, <1>5, CacheAssumption DEF CacheInv, SendGet, Send, NewsComes, ToBeRead
  <1> QED BY <1>1, <1>2, <1>3, <1>4, <1>6 DEF CacheInv, SendGet, Send, TypeOK

LEMMA TimesOutStep == ASSUME CacheInv, TimesOut PROVE CacheInv'
  BY DEF CacheInv, TimesOut, TypeOK, NewsComes, ToBeRead

-----------------------------------------------------------------------------
(* The device, and the network.                                             *)

(* Values that the device sends are those it has then.                      *)
LEMMA ValuesOfFacts ==
    ASSUME NEW epcs, epcs \subseteq Epcs, epcs # {}, device' \in [Epcs -> Values]
    PROVE  /\ ValuesOf(epcs) \in Datagrams /\ NewsOf(ValuesOf(epcs)) = epcs
           /\ Current(ValuesOf(epcs), device')
  <1>1. [e \in epcs |-> device'[e]] \in Partial(Values)
    BY DEF Partial
  <1> QED BY <1>1 DEF ValuesOf, Datagrams, NewsOf, Current

LEMMA DeviceSetsStep == ASSUME CacheInv, DeviceSets PROVE CacheInv'
  <1>1. TypeOK /\ Latest(answers, device) /\ NewsComes /\ answers \in Seq(Datagrams)
    BY DEF CacheInv, TypeOK
  <1>2. requests # <<>> /\ Head(requests).kind = "set" /\ requests' = Tail(requests)
    BY DEF DeviceSets
  <1>3. Head(requests) \in SetRequests /\ requests' \in Seq(Requests)
    BY <1>1, <1>2, TailFacts, RequestFacts DEF TypeOK
  <1>4. \A e \in Epcs : Asked(requests, e) => Asked(requests', e)
    <2>1. Head(requests).kind # "get"
      BY <1>2
    <2> QED BY <1>1, <1>2, <2>1, AskedFacts DEF TypeOK
  <1> DEFINE request == Head(requests)
  <1>5. PICK accepted \in SUBSET DOMAIN request.values :
          /\ \E given \in [accepted -> Values] : device' = Updated(device, given)
          /\ \/ answers' = Append(answers, SetAnswer(request, accepted))
             \/ /\ accepted # {}
                /\ \/ answers' = answers \o <<ValuesOf(accepted), SetAnswer(request, accepted)>>
                   \/ answers' = answers \o <<SetAnswer(request, accepted), ValuesOf(accepted)>>
    BY DEF DeviceSets
  <1>6. accepted \subseteq Epcs
    <2>1. request.values \in Partial(Values)
      BY <1>3 DEF SetRequests
    <2>2. DOMAIN request.values \subseteq Epcs
      BY <2>1 DEF Partial
    <2> QED BY <2>2
  <1>7. device' \in [Epcs -> Values] /\ \A e \in Epcs \ accepted : device'[e] = device[e]
    BY <1>1, <1>5 DEF Updated, TypeOK
  <1> DEFINE answer == SetAnswer(request, accepted)
  <1>8. answer \in Datagrams /\ NewsOf(answer) = accepted /\ Current(answer, device')
    BY <1>3, <1>6 DEF SetAnswer, Datagrams, NewsOf, Current
  <1>9. /\ answers' \in Seq(Datagrams) /\ Latest(answers', device')
        /\ \A e \in Epcs : Reported(answers, e) \/ e \in accepted => Reported(answers', e)
    <2> HIDE DEF answer
    <2>1. CASE answers' = Append(answers, answer)
      BY <1>1, <1>7, <1>8, <2>1, SentFacts
    <2>2. CASE accepted # {} /\ answers' = answers \o <<ValuesOf(accepted), answer>>
      <3> DEFINE values == ValuesOf(accepted)
      <3>1. values \in Datagrams /\ NewsOf(values) = accepted /\ Current(values, device')
        BY <1>6, <1>7, <2>2, ValuesOfFacts
      <3> HIDE DEF values
      <3>2. /\ Append(answers, values) \in Seq(Datagrams) /\ Latest(Append(answers, values), device')
            /\ \A e \in Epcs : Reported(answers, e) \/ e \in accepted
                              => Reported(Append(answers, values), e)
        BY <1>1, <1>7, <3>1, SentFacts
      <3>3. answers' = Append(Append(answers, values), answer)
        BY <1>1, <1>8, <2>2, <3>1 DEF values
      <3> QED BY <1>8, <3>2, <3>3, SentFacts
    <2>3. CASE accepted # {} /\ answers' = answers \o <<answer, ValuesOf(accepted)>>
      <3> DEFINE values == ValuesOf(accepted)
      <3>1. values \in Datagrams /\ NewsOf(values) = accepted /\ Current(values, device')
        BY <1>6, <1>7, <2>3, ValuesOfFacts
      <3> HIDE DEF values
      <3>2. /\ Append(answers, answer) \in Seq(Datagrams) /\ Latest(Append(answers, answer), device')
            /\ \A e \in Epcs : Reported(answers, e) \/ e \in accepted
                              => Reported(Append(answers, answer), e)
        BY <1>1, <1>7, <1>8, SentFacts
      <3>3. answers' = Append(Append(answers, answer), values)
        BY <1>1, <1>8, <2>3, <3>1 DEF values
      <3> QED BY <3>1, <3>2, <3>3, SentFacts
    <2> QED BY <1>5, <2>1, <2>2, <2>3 DEF answer
  <1>10. NewsComes'
    BY <1>1, <1>4, <1>7, <1>9, CacheAssumption DEF DeviceSets, clientVars, NewsComes, ToBeRead
  <1> QED BY <1>1, <1>3, <1>7, <1>9, <1>10 DEF CacheInv, DeviceSets, clientVars, TypeOK

LEMMA DeviceAnswersStep == ASSUME CacheInv, DeviceAnswers PROVE CacheInv'
  <1>1. TypeOK /\ Latest(answers, device) /\ NewsComes /\ answers \in Seq(Datagrams)
    BY DEF CacheInv, TypeOK
  <1>2. /\ requests # <<>> /\ Head(requests).kind = "get" /\ requests' = Tail(requests)
        /\ device' = device /\ answers' = Append(answers, ValuesOf(Head(requests).epcs))
    BY DEF DeviceAnswers
  <1>3. Head(requests) \in GetRequests /\ requests' \in Seq(Requests)
    BY <1>1, <1>2, TailFacts, RequestFacts DEF TypeOK
  <1> DEFINE epcs == Head(requests).epcs
  <1>4. epcs \subseteq Epcs /\ epcs # {}
    BY <1>3, CacheAssumption DEF GetRequests, ReadSets
  <1>5. \A e \in Epcs : Asked(requests, e) => e \in epcs \/ Asked(requests', e)
    BY <1>1, <1>2, AskedFacts DEF TypeOK
  <1>6. /\ ValuesOf(epcs) \in Datagrams /\ NewsOf(ValuesOf(epcs)) = epcs
        /\ Current(ValuesOf(epcs), device')
    BY <1>1, <1>2, <1>4, ValuesOfFacts DEF TypeOK
  <1>7. /\ answers' \in Seq(Datagrams) /\ Latest(answers', device')
        /\ \A e \in Epcs : Reported(answers, e) \/ e \in epcs => Reported(answers', e)
    <2> DEFINE sent == ValuesOf(epcs)
    <2>1. answers' = Append(answers, sent) /\ \A e \in Epcs \ NewsOf(sent) : device'[e] = device[e]
      BY <1>2
    <2>2. sent \in Datagrams /\ Current(sent, device') /\ NewsOf(sent) = epcs
      BY <1>6
    <2> HIDE DEF sent, epcs
    <2> QED BY <1>1, <2>1, <2>2, SentFacts
  <1>8. NewsComes'
    BY <1>1, <1>2, <1>5, <1>7, CacheAssumption
    DEF DeviceAnswers, clientVars, NewsComes, ToBeRead
  <1> QED BY <1>1, <1>2, <1>3, <1>7, <1>8 DEF CacheInv, DeviceAnswers, clientVars, TypeOK

LEMMA DeviceChangesStep == ASSUME CacheInv, DeviceChanges PROVE CacheInv'
  <1>1. TypeOK /\ Latest(answers, device) /\ NewsComes /\ answers \in Seq(Datagrams)
    BY DEF CacheInv, TypeOK
  <1>2. budget' \in [{"set", "poll", "change", "loss"} -> Nat]
    BY <1>1, SpendFacts DEF DeviceChanges
  <1> DEFINE epcs == {e \in Epcs : device'[e] # device[e]}
  <1>3. answers' = Append(answers, ValuesOf(epcs))
    BY DEF DeviceChanges
  <1>4. device' \in [Epcs -> Values] /\ epcs \subseteq Epcs /\ epcs # {}
    <2>1. PICK e \in Epcs : \E v \in Values \ {device[e]} : device' = [device EXCEPT ![e] = v]
      BY DEF DeviceChanges
    <2>2. device'[e] # device[e] /\ device' \in [Epcs -> Values]
      BY <1>1, <2>1 DEF TypeOK
    <2> QED BY <2>2
  <1>5. /\ ValuesOf(epcs) \in Datagrams /\ NewsOf(ValuesOf(epcs)) = epcs
        /\ Current(ValuesOf(epcs), device')
    BY <1>4, ValuesOfFacts
  <1>6. /\ answers' \in Seq(Datagrams) /\ Latest(answers', device')
        /\ \A e \in Epcs : Reported(answers, e) \/ e \in epcs => Reported(answers', e)
    BY <1>1, <1>3, <1>5, SentFacts
  <1>7. NewsComes'
    BY <1>1, <1>6, CacheAssumption DEF DeviceChanges, clientVars, NewsComes, ToBeRead
  <1> QED BY <1>1, <1>2, <1>4, <1>6, <1>7 DEF CacheInv, DeviceChanges, clientVars, TypeOK

LEMMA RequestLostStep == ASSUME CacheInv, RequestLost PROVE CacheInv'
  <1>1. TypeOK /\ NewsComes /\ budget' \in [{"set", "poll", "change", "loss"} -> Nat]
    BY SpendFacts DEF CacheInv, RequestLost
  <1>2. requests # <<>> /\ requests' = Tail(requests)
    BY DEF RequestLost
  <1>3. Head(requests) \in Requests /\ requests' \in Seq(Requests)
    BY <1>1, <1>2, TailFacts DEF TypeOK
  <1>4. /\ unsure \subseteq unsure' /\ unsure' \subseteq Epcs
        /\ Head(requests).kind = "get" => Head(requests).epcs \subseteq unsure'
    <2>1. CASE Head(requests).kind = "get"
      <3>1. unsure' = unsure \cup Head(requests).epcs
        BY <2>1 DEF RequestLost
      <3>2. Head(requests).epcs \subseteq Epcs
        BY <1>3, <2>1, RequestFacts, CacheAssumption DEF GetRequests, ReadSets
      <3> QED BY <1>1, <3>1, <3>2 DEF TypeOK
    <2>2. CASE Head(requests).kind # "get"
      BY <1>1, <2>2 DEF RequestLost, TypeOK
    <2> QED BY <2>1, <2>2
  <1>5. \A e \in Epcs \ unsure' : Asked(requests, e) => Asked(requests', e)
    BY <1>1, <1>2, <1>4, AskedFacts DEF TypeOK
  <1>6. NewsComes'
    BY <1>1, <1>4, <1>5, CacheAssumption DEF RequestLost, NewsComes, ToBeRead
  <1> QED BY <1>1, <1>3, <1>4, <1>6 DEF CacheInv, RequestLost, TypeOK

(* Datagrams are about EPCs of the device.                                  *)
LEMMA NewsFacts ==
    ASSUME NEW d \in Datagrams
    PROVE  /\ NewsOf(d) \subseteq Epcs
           /\ d.kind = "values" => d.values \in Partial(Values) /\ NewsOf(d) = DOMAIN d.values
           /\ d.kind = "set" => /\ d.request \in SetRequests /\ NewsOf(d) = d.accepted
                                /\ d.accepted \subseteq DOMAIN d.request.values
  <1>1. CASE d \in [kind : {"values"}, values : Partial(Values)]
    BY <1>1 DEF NewsOf, Partial
  <1>2. CASE /\ d \in [kind : {"set"}, request : SetRequests, accepted : SUBSET Epcs]
             /\ d.accepted \subseteq DOMAIN d.request.values
    BY <1>2 DEF NewsOf
  <1> QED BY <1>1, <1>2 DEF Datagrams

LEMMA AnswerLostStep == ASSUME CacheInv, AnswerLost PROVE CacheInv'
  <1>1. /\ TypeOK /\ NewsComes /\ budget' \in [{"set", "poll", "change", "loss"} -> Nat]
        /\ answers \in Seq(Datagrams) /\ Latest(answers, device)
    BY SpendFacts DEF CacheInv, AnswerLost, TypeOK
  <1>2. /\ answers # <<>> /\ answers' = Tail(answers) /\ device' = device
        /\ unsure' = unsure \cup NewsOf(Head(answers))
    BY DEF AnswerLost
  <1>3. /\ Head(answers) \in Datagrams /\ answers' \in Seq(Datagrams) /\ Latest(answers', device')
        /\ \A e \in Epcs : Reported(answers, e) =>
                e \in NewsOf(Head(answers)) \/ Reported(answers', e)
    BY <1>1, <1>2, ArrivedFacts
  <1>4. unsure' \subseteq Epcs
    BY <1>1, <1>2, <1>3, NewsFacts DEF TypeOK
  <1>5. NewsComes'
    BY <1>1, <1>2, <1>3, CacheAssumption DEF AnswerLost, NewsComes, ToBeRead
  <1> QED BY <1>1, <1>3, <1>4, <1>5 DEF CacheInv, AnswerLost, TypeOK

-----------------------------------------------------------------------------
(* The client receives.                                                     *)

LEMMA UpdatedFacts ==
    ASSUME NEW all \in [Epcs -> Values], NEW S \in SUBSET Epcs, NEW some \in [S -> Values]
    PROVE  /\ Updated(all, some) \in [Epcs -> Values]
           /\ \A e \in S : Updated(all, some)[e] = some[e]
           /\ \A e \in Epcs \ S : Updated(all, some)[e] = all[e]
  BY DEF Updated

LEMMA ReceiveValuesStep == ASSUME CacheInv, ReceiveValues PROVE CacheInv'
  <1>1. /\ TypeOK /\ NewsComes /\ answers \in Seq(Datagrams) /\ Latest(answers, device)
    BY DEF CacheInv, TypeOK
  <1> DEFINE values == Head(answers).values
  <1>2. /\ answers # <<>> /\ Head(answers).kind = "values" /\ answers' = Tail(answers)
        /\ cache' = Updated(cache, values) /\ unsure' = unsure \ DOMAIN values
        /\ device' = device
    BY DEF ReceiveValues
  <1>3. /\ Head(answers) \in Datagrams /\ answers' \in Seq(Datagrams) /\ Latest(answers', device')
        /\ \A e \in Epcs : Reported(answers, e) =>
                e \in NewsOf(Head(answers)) \/ Reported(answers', e)
        /\ \A e \in Epcs : e \in DOMAIN values => values[e] = device[e] \/ Reported(answers', e)
    BY <1>1, <1>2, ArrivedFacts
  <1>4. values \in Partial(Values) /\ NewsOf(Head(answers)) = DOMAIN values
    BY <1>2, <1>3, NewsFacts
  <1>5. DOMAIN values \subseteq Epcs /\ values \in [DOMAIN values -> Values]
    BY <1>4 DEF Partial
  <1>6. /\ cache' \in [Epcs -> Values]
        /\ \A e \in DOMAIN values : cache'[e] = values[e]
        /\ \A e \in Epcs \ DOMAIN values : cache'[e] = cache[e]
    <2> HIDE DEF values
    <2>1. cache \in [Epcs -> Values] /\ DOMAIN values \in SUBSET Epcs
      BY <1>1, <1>5 DEF TypeOK
    <2> QED BY <1>2, <1>5, <2>1, UpdatedFacts
  <1>7. outstanding' \in Requests \cup {None} /\ unsure' \subseteq Epcs
    BY <1>1, <1>2 DEF ReceiveValues, TypeOK
  <1>8. NewsComes'
    <2> SUFFICES ASSUME NEW e \in Readable \ unsure', ~Reported(answers', e), ~ToBeRead(e)
                 PROVE  cache'[e] = device[e]
      BY <1>2 DEF NewsComes, ToBeRead, ReceiveValues
    <2>1. CASE e \in DOMAIN values
      BY <1>3, <1>5, <1>6, <2>1
    <2>2. CASE e \notin DOMAIN values
      BY <1>1, <1>2, <1>3, <1>4, <1>6, <2>2, CacheAssumption DEF NewsComes
    <2> QED BY <2>1, <2>2
  <1> QED BY <1>1, <1>2, <1>3, <1>6, <1>7, <1>8 DEF CacheInv, ReceiveValues, TypeOK

LEMMA ReceiveSetAnswerStep == ASSUME CacheInv, ReceiveSetAnswer PROVE CacheInv'
  <1>1. /\ TypeOK /\ NewsComes /\ answers \in Seq(Datagrams) /\ Latest(answers, device)
    BY DEF CacheInv, TypeOK
  <1> DEFINE answer == Head(answers)
  <1>2. /\ answers # <<>> /\ answer.kind = "set" /\ answers' = Tail(answers)
        /\ UNCHANGED <<device, sets, reads, requests, budget>>
    BY DEF ReceiveSetAnswer
  <1>3. /\ answer \in Datagrams /\ answers' \in Seq(Datagrams) /\ Latest(answers', device')
        /\ \A e \in Epcs : Reported(answers, e) => e \in NewsOf(answer) \/ Reported(answers', e)
    BY <1>1, <1>2, ArrivedFacts
  <1>4. /\ answer.request \in SetRequests /\ NewsOf(answer) = answer.accepted
        /\ answer.accepted \subseteq DOMAIN answer.request.values /\ answer.accepted \subseteq Epcs
    BY <1>2, <1>3, NewsFacts
  <1> HIDE DEF answer
  <1>5. CASE outstanding # answer.request
    <2>1. /\ unsure' = unsure \cup NewsOf(answer)
          /\ UNCHANGED <<cache, refreshes, outstanding>>
      BY <1>5 DEF ReceiveSetAnswer, answer
    <2>2. NewsComes'
      BY <1>1, <1>2, <1>3, <2>1, CacheAssumption DEF NewsComes, ToBeRead
    <2> QED BY <1>1, <1>2, <1>3, <1>4, <2>1, <2>2 DEF CacheInv, TypeOK
  <1>6. CASE outstanding = answer.request
    <2>1. /\ outstanding' = None /\ cache' = Applied(answer)
          /\ unsure' = IF answer.request.refresh THEN unsure ELSE unsure \cup NewsOf(answer)
          /\ refreshes' = IF answer.request.refresh /\ ToRefresh(answer) # {}
                          THEN Append(refreshes, ToRefresh(answer)) ELSE refreshes
      BY <1>6 DEF ReceiveSetAnswer, answer
    <2>2. unsure' \subseteq Epcs /\ unsure \subseteq unsure'
      BY <1>1, <1>4, <2>1 DEF TypeOK
    <2>3. /\ cache' \in [Epcs -> Values]
          /\ \A e \in Epcs \ answer.accepted : cache'[e] = cache[e]
      <3>1. answer.request.values \in [DOMAIN answer.request.values -> Values]
        BY <1>4 DEF SetRequests, Partial
      <3>2. [e \in answer.accepted |-> answer.request.values[e]] \in [answer.accepted -> Values]
        BY <1>4, <3>1
      <3> DEFINE applied == [e \in answer.accepted |-> answer.request.values[e]]
      <3>3. cache' = Updated(cache, applied)
        BY <2>1 DEF Applied, Accepted
      <3>4. cache \in [Epcs -> Values] /\ answer.accepted \in SUBSET Epcs
        BY <1>1, <1>4 DEF TypeOK
      <3> HIDE DEF applied
      <3>5. applied \in [answer.accepted -> Values]
        BY <3>2 DEF applied
      <3> QED BY <3>3, <3>4, <3>5, UpdatedFacts
    <2>4. /\ refreshes' \in Seq(ReadSets)
          /\ \A e \in Epcs : Has(refreshes, e) => Has(refreshes', e)
          /\ \A e \in Readable \ unsure' : e \in answer.accepted => Has(refreshes', e)
      <3>1. CASE answer.request.refresh /\ ToRefresh(answer) # {}
        <4>1. /\ ToRefresh(answer) \in ReadSets
              /\ refreshes' = Append(refreshes, ToRefresh(answer))
          <5>1. ToRefresh(answer) \subseteq Readable /\ ToRefresh(answer) # {}
            BY <3>1 DEF ToRefresh
          <5>2. refreshes' = Append(refreshes, ToRefresh(answer))
            BY <2>1, <3>1
          <5> QED BY <5>1, <5>2 DEF ReadSets
        <4>2. refreshes' \in Seq(ReadSets)
          BY <1>1, <4>1, AppendFacts DEF TypeOK
        <4>3. \A e \in Epcs : Has(refreshes, e) \/ e \in ToRefresh(answer) => Has(refreshes', e)
          BY <1>1, <4>1, HasFacts DEF TypeOK
        <4>4. \A e \in Readable : e \in answer.accepted => e \in ToRefresh(answer) /\ e \in Epcs
          BY CacheAssumption DEF ToRefresh, Accepted
        <4> QED BY <4>2, <4>3, <4>4
      <3>2. CASE ~(answer.request.refresh /\ ToRefresh(answer) # {})
        <4>1. refreshes' = refreshes
          BY <2>1, <3>2
        <4>2. \A e \in Readable \ unsure' : e \notin answer.accepted
          BY <1>4, <2>1, <3>2 DEF ToRefresh, Accepted
        <4> QED BY <1>1, <4>1, <4>2 DEF TypeOK
      <3> QED BY <3>1, <3>2
    <2>5. NewsComes'
      <3> SUFFICES ASSUME NEW e \in Readable \ unsure', ~Reported(answers', e), ~ToBeRead(e)'
                   PROVE  cache'[e] = device[e]
        BY <1>2 DEF NewsComes
      <3>1. e \in Epcs \ answer.accepted /\ e \notin unsure
        BY <2>2, <2>4, CacheAssumption DEF ToBeRead
      <3>2. ~ToBeRead(e)
        BY <1>2, <2>4, <3>1 DEF ToBeRead
      <3>3. ~Reported(answers, e)
        BY <1>3, <1>4, <3>1
      <3> QED BY <1>1, <2>3, <3>1, <3>2, <3>3 DEF NewsComes
    <2> QED BY <1>1, <1>2, <1>3, <2>1, <2>2, <2>3, <2>4, <2>5 DEF CacheInv, TypeOK
  <1> QED BY <1>5, <1>6

-----------------------------------------------------------------------------
LEMMA CacheStep == CacheInv /\ [Next]_vars => CacheInv'
  <1> SUFFICES ASSUME CacheInv, [Next]_vars PROVE CacheInv'
    OBVIOUS
  <1>1. CASE UNCHANGED vars
    BY <1>1 DEF CacheInv, TypeOK, NewsComes, ToBeRead, vars
  <1>2. CASE Next
    BY <1>2, SetPropertiesStep, PollDeviceStep, RefreshReadsStep, SendSetStep, SendGetStep,
       TimesOutStep, DeviceSetsStep, DeviceAnswersStep, DeviceChangesStep, RequestLostStep,
       AnswerLostStep, ReceiveValuesStep, ReceiveSetAnswerStep
    DEF Next
  <1> QED BY <1>1, <1>2

LEMMA CacheInit == Init => CacheInv
  <1> SUFFICES ASSUME Init PROVE CacheInv
    OBVIOUS
  <1>1. /\ <<>> \in Seq(SetRequests) /\ <<>> \in Seq(Requests) /\ <<>> \in Seq(Datagrams)
        /\ <<>> \in Seq(ReadSets)
    BY EmptySeq
  <1>2. TypeOK
    BY <1>1, CacheAssumption DEF Init, TypeOK
  <1>3. Latest(answers, device) /\ NewsComes
    BY CacheAssumption DEF Init, Latest, NewsComes
  <1> QED BY <1>2, <1>3 DEF CacheInv

(* The inductive invariant: an EPC of which nothing is known to be lost has *)
(* the cached value of the device, or news of it comes.                     *)
THEOREM CacheInvariant == Spec => []CacheInv
  BY CacheInit, CacheStep, PTL DEF Spec

(* Polls and refreshes read only what is in get_epcs, and everything that   *)
(* is sent is well formed.                                                  *)
THEOREM CacheIsTyped == Spec => []TypeOK
  <1>1. CacheInv => TypeOK
    BY DEF CacheInv
  <1> QED BY <1>1, CacheInvariant, PTL

(* Once everything is done, the cache has the values the device has, unless *)
(* the latest news was lost or ignored.                                     *)
THEOREM CacheSettlesAlways == Spec => []CacheSettles
  <1>1. CacheInv => CacheSettles
    <2> SUFFICES ASSUME CacheInv, Quiet, NEW e \in Readable \ unsure PROVE cache[e] = device[e]
      BY DEF CacheSettles
    <2>1. ~Reported(answers, e) /\ ~ToBeRead(e)
      BY DEF Quiet, Reported, ToBeRead, Has, Asked
    <2> QED BY <2>1 DEF CacheInv, NewsComes
  <1> QED BY <1>1, CacheInvariant, PTL
================================================================================
