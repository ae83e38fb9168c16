-------------------------- MODULE GetBatchingProofs --------------------------
(***************************************************************************)
(* Theorems about GetBatching for any calls, EPCs, devices and policies.    *)
(***************************************************************************)
EXTENDS GetBatching, DataInduction

-----------------------------------------------------------------------------
(* The constants.                                                           *)
Limits == (Nat \ {0}) \cup {NoLimit}

LEMMA ScenarioFacts ==
    ASSUME scenario \in Scenarios
    PROVE  /\ \A c \in Active : /\ c \in Calls
                                /\ scenario.wanted[c] \in Seq(EPCs)
                                /\ scenario.wanted[c] # <<>>
                                /\ IsInjective(scenario.wanted[c])
           /\ scenario.hasPolicy \in BOOLEAN
           /\ scenario.hasPolicy => scenario.classHasPolicy
           /\ \A p \in scenario.pairs : p \subseteq EPCs /\ Cardinality(p) = 2
           /\ scenario.maxBatch \in Limits
           /\ scenario.device \in Devices /\ scenario.rival \in Devices
           /\ scenario.maxLosses \in Nat
  BY GetAssumption DEF Active, Limits

LEMMA SmallerFacts ==
    ASSUME NEW m \in Limits, NEW n \in Limits
    PROVE  /\ Smaller(m, n) \in Limits
           /\ Smaller(m, n) = NoLimit <=> m = NoLimit /\ n = NoLimit
           /\ m # NoLimit => Smaller(m, n) <= m
           /\ n # NoLimit => Smaller(m, n) <= n
           /\ Smaller(m, n) \in {m, n}
  BY GetAssumption DEF Smaller, Limits

LEMMA PolicySizeFacts ==
    ASSUME scenario \in Scenarios, NEW known \in BOOLEAN
    PROVE  PolicySize(known) \in Limits
  BY ScenarioFacts DEF PolicySize, Limits

LEMMA PowersOfTwoFacts ==
    /\ PowersOfTwo[0] = 1
    /\ \A n \in Nat : PowersOfTwo[n] \in Nat \ {0} /\ PowersOfTwo[n + 1] = 2 * PowersOfTwo[n]
  <1> DEFINE V == Nat \ {0}
             step == [x \in V \X (Nat \ {0}) |-> 2 * x[1]]
             P(f) == f = [n \in Nat |-> IF n = 0 THEN 1 ELSE 2 * f[n - 1]]
  <1>1. 1 \in V /\ step \in [V \X (Nat \ {0}) -> V]
    OBVIOUS
  <1>2. \A v \in V, i \in Nat \ {0} : step[<<v, i>>] = 2 * v
    OBVIOUS
  <1> HIDE DEF step
  <1>3. PICK f \in [Nat -> V] : \A n \in Nat : Follows(f, 1, n, step)
    <2> HIDE DEF V
    <2> QED BY <1>1, NatRecursion
  <1>4. f[0] = 1 /\ \A n \in Nat \ {0} : f[n] = 2 * f[n - 1]
    <2>1. f[0] = 1
      BY <1>3 DEF Follows
    <2>2. ASSUME NEW n \in Nat \ {0} PROVE f[n] = 2 * f[n - 1]
      <3>1. n \in 1..n /\ n - 1 \in Nat
        OBVIOUS
      <3>2. f[n] = step[<<f[n - 1], n>>]
        BY <1>3, <3>1 DEF Follows
      <3> QED BY <1>2, <1>3, <3>1, <3>2
    <2> QED BY <2>1, <2>2
  <1>5. P(f)
    <2>1. f = [n \in Nat |-> f[n]]
      BY <1>3
    <2> QED BY <1>4, <2>1
  <1>6. P(PowersOfTwo)
    <2>1. \E g : P(g)
      <3> HIDE DEF P
      <3> QED BY <1>5
    <2> QED BY <2>1 DEF PowersOfTwo
  <1>7. PowersOfTwo[0] = 1 /\ \A n \in Nat : PowersOfTwo[n + 1] = 2 * PowersOfTwo[n]
    <2>1. \A n \in Nat : n + 1 \in Nat /\ n + 1 # 0 /\ (n + 1) - 1 = n
      OBVIOUS
    <2> HIDE DEF P
    <2>2. \A n \in Nat : PowersOfTwo[n] = IF n = 0 THEN 1 ELSE 2 * PowersOfTwo[n - 1]
      BY <1>6 DEF P
    <2> QED BY <2>1, <2>2
  <1>8. \A n \in Nat : PowersOfTwo[n] \in V
    <2> DEFINE T == {n \in Nat : PowersOfTwo[n] \in V}
    <2>1. T \subseteq Nat /\ 0 \in T
      BY <1>7
    <2>2. ASSUME NEW n \in T PROVE n + 1 \in T
      BY <1>7
    <2>3. T = Nat
      <3> HIDE DEF T
      <3> QED BY <2>1, <2>2, Counting
    <2> QED BY <2>3
  <1> QED BY <1>7, <1>8

-----------------------------------------------------------------------------
(* Splitting: what TakeFirstBatch and Without return.                       *)

Splits == [batch : Seq(EPCs), rest : Seq(EPCs)]

First(epcs, i) == {epcs[k] : k \in 1..i}

(* The first i of the EPCs are split into acc by a batch size of cap.       *)
SplitUpto(acc, epcs, cap, known, i) ==
    /\ acc \in Splits
    /\ ToSet(acc.batch) \cup ToSet(acc.rest) = First(epcs, i)
    /\ ToSet(acc.batch) \cap ToSet(acc.rest) = {}
    /\ IsInjective(acc.batch) /\ IsInjective(acc.rest)
    /\ Len(acc.batch) + Len(acc.rest) = i
    /\ cap # NoLimit => Len(acc.batch) <= cap
    /\ i > 0 => acc.batch # <<>>
    /\ scenario.hasPolicy /\ known =>
         \A p \in scenario.pairs : ~(p \subseteq ToSet(acc.batch))
    /\ ~(scenario.hasPolicy /\ known) =>
         Len(acc.batch) = IF cap = NoLimit \/ i <= cap THEN i ELSE cap

(* One turn of the loop of take_first_batch. *)
PutNext(acc, epc, cap, known) ==
    IF \/ cap # NoLimit /\ Len(acc.batch) >= cap
       \/ ~CanAdd(acc.batch, epc, known)
    THEN [acc EXCEPT !.rest = Append(@, epc)]
    ELSE [acc EXCEPT !.batch = Append(@, epc)]

LEMMA FirstFacts ==
    ASSUME NEW epcs \in Seq(EPCs), IsInjective(epcs), NEW i \in 1..Len(epcs)
    PROVE  /\ epcs[i] \in EPCs
           /\ First(epcs, i) = First(epcs, i - 1) \cup {epcs[i]}
           /\ epcs[i] \notin First(epcs, i - 1)
           /\ First(epcs, 0) = {} /\ First(epcs, Len(epcs)) = ToSet(epcs)
  <1>1. DOMAIN epcs = 1..Len(epcs) /\ i \in Nat /\ Len(epcs) \in Nat /\ epcs[i] \in EPCs
    OBVIOUS
  <1>2. 1..i = (1..(i - 1)) \cup {i} /\ i \notin 1..(i - 1) /\ 1..(i - 1) \subseteq 1..Len(epcs)
    BY <1>1
  <1>3. 1..0 = {}
    OBVIOUS
  <1> QED BY <1>1, <1>2, <1>3 DEF First, ToSet, IsInjective

LEMMA CanAddFacts ==
    ASSUME scenario \in Scenarios, NEW chosen \in Seq(EPCs), NEW epc \in EPCs, NEW known,
           scenario.hasPolicy, known,
           \A p \in scenario.pairs : ~(p \subseteq ToSet(chosen)),
           CanAdd(chosen, epc, known), NEW q \in scenario.pairs
    PROVE  ~(q \subseteq ToSet(chosen) \cup {epc})
  <1> SUFFICES ASSUME q \subseteq ToSet(chosen) \cup {epc} PROVE FALSE
    OBVIOUS
  <1>1. epc \in q
    OBVIOUS
  <1>2. (q \ {epc}) \cap ToSet(chosen) = {}
    BY <1>1 DEF CanAdd
  <1>3. q = {epc}
    BY <1>1, <1>2
  <1>4. Cardinality(q) = 2
    BY ScenarioFacts
  <1>5. Cardinality({epc}) = 1
    BY FS_Singleton
  <1> QED BY <1>3, <1>4, <1>5

LEMMA PutNextSplits ==
    ASSUME scenario \in Scenarios, NEW epcs \in Seq(EPCs), IsInjective(epcs),
           NEW cap \in Limits, NEW known, NEW i \in 1..Len(epcs), NEW acc,
           SplitUpto(acc, epcs, cap, known, i - 1)
    PROVE  SplitUpto(PutNext(acc, epcs[i], cap, known), epcs, cap, known, i)
  <1> DEFINE e == epcs[i]
             next == PutNext(acc, e, cap, known)
  <1>1. /\ e \in EPCs /\ i \in Nat \ {0}
        /\ First(epcs, i) = First(epcs, i - 1) \cup {e} /\ e \notin First(epcs, i - 1)
    BY FirstFacts
  <1>2. acc \in Splits /\ acc.batch \in Seq(EPCs) /\ acc.rest \in Seq(EPCs)
    BY DEF SplitUpto, Splits
  <1>3. e \notin ToSet(acc.batch) /\ e \notin ToSet(acc.rest)
    BY <1>1 DEF SplitUpto
  <1>4. /\ Len(acc.batch) \in Nat /\ Len(acc.rest) \in Nat
        /\ acc.batch # <<>> <=> Len(acc.batch) > 0
        /\ Len(acc.batch) + Len(acc.rest) = i - 1
    BY <1>2, ElementsOf DEF SplitUpto
  <1>5. cap # NoLimit => cap \in Nat /\ cap >= 1
    BY DEF Limits
  <1>6. CASE (cap # NoLimit /\ Len(acc.batch) >= cap) \/ ~CanAdd(acc.batch, e, known)
    <2>1. next = [acc EXCEPT !.rest = Append(@, e)]
      BY <1>6 DEF PutNext
    <2>2. /\ Append(acc.rest, e) \in Seq(EPCs) /\ Len(Append(acc.rest, e)) = Len(acc.rest) + 1
          /\ ToSet(Append(acc.rest, e)) = ToSet(acc.rest) \cup {e}
          /\ IsInjective(Append(acc.rest, e))
      BY <1>1, <1>2, <1>3, ElementsOfAppend DEF SplitUpto
    <2>3. next \in Splits /\ next.batch = acc.batch /\ next.rest = Append(acc.rest, e)
      BY <1>2, <2>1, <2>2 DEF Splits
    <2>4. acc.batch # <<>>
      <3>1. CASE cap # NoLimit /\ Len(acc.batch) >= cap
        BY <1>4, <1>5, <3>1
      <3>2. CASE ~CanAdd(acc.batch, e, known)
        BY <3>2, EmptySequence DEF CanAdd
      <3> QED BY <1>6, <3>1, <3>2
    <2>5. ~(scenario.hasPolicy /\ known) =>
            Len(acc.batch) = IF cap = NoLimit \/ i <= cap THEN i ELSE cap
      <3> SUFFICES ASSUME ~(scenario.hasPolicy /\ known)
                   PROVE  Len(acc.batch) = IF cap = NoLimit \/ i <= cap THEN i ELSE cap
        OBVIOUS
      <3>1. cap # NoLimit /\ Len(acc.batch) >= cap
        BY <1>6 DEF CanAdd
      <3> QED BY <1>1, <1>4, <1>5, <3>1 DEF SplitUpto
    <2>6. Len(next.batch) + Len(next.rest) = i
      <3> DEFINE m == Len(acc.batch)
                 k == Len(acc.rest)
      <3>1. m \in Nat /\ k \in Nat /\ i \in Nat /\ m + k = i - 1
        BY <1>1, <1>4
      <3> HIDE DEF next, e
      <3>2. Len(next.batch) = m /\ Len(next.rest) = k + 1
        BY <2>2, <2>3
      <3> HIDE DEF m, k
      <3>3. m + (k + 1) = i
        BY <3>1
      <3> QED BY <3>2, <3>3
    <2> HIDE DEF next, e
    <2>7. /\ ToSet(next.batch) \cup ToSet(next.rest) = First(epcs, i)
          /\ ToSet(next.batch) \cap ToSet(next.rest) = {}
      BY <1>1, <1>3, <2>2, <2>3 DEF SplitUpto
    <2>8. SplitUpto(next, epcs, cap, known, i)
      BY <2>2, <2>3, <2>4, <2>5, <2>6, <2>7 DEF SplitUpto
    <2> QED BY <2>8 DEF next, e
  <1>7. CASE ~(cap # NoLimit /\ Len(acc.batch) >= cap) /\ CanAdd(acc.batch, e, known)
    <2>1. next = [acc EXCEPT !.batch = Append(@, e)]
      BY <1>7 DEF PutNext
    <2>2. /\ Append(acc.batch, e) \in Seq(EPCs) /\ Len(Append(acc.batch, e)) = Len(acc.batch) + 1
          /\ ToSet(Append(acc.batch, e)) = ToSet(acc.batch) \cup {e}
          /\ IsInjective(Append(acc.batch, e))
      BY <1>1, <1>2, <1>3, ElementsOfAppend DEF SplitUpto
    <2>3. next \in Splits /\ next.rest = acc.rest /\ next.batch = Append(acc.batch, e)
      BY <1>2, <2>1, <2>2 DEF Splits
    <2>4. next.batch # <<>>
      BY <1>4, <2>2, <2>3, ElementsOf
    <2>5. cap # NoLimit => Len(next.batch) <= cap
      BY <1>4, <1>5, <1>7, <2>2, <2>3
    <2>6. ~(scenario.hasPolicy /\ known) =>
            Len(next.batch) = IF cap = NoLimit \/ i <= cap THEN i ELSE cap
      BY <1>1, <1>4, <1>5, <1>7, <2>2, <2>3 DEF SplitUpto
    <2>7. Len(next.batch) + Len(next.rest) = i
      <3> DEFINE m == Len(acc.batch)
                 k == Len(acc.rest)
      <3>1. m \in Nat /\ k \in Nat /\ i \in Nat /\ m + k = i - 1
        BY <1>1, <1>4
      <3> HIDE DEF next, e
      <3>2. Len(next.batch) = m + 1 /\ Len(next.rest) = k
        BY <2>2, <2>3
      <3> HIDE DEF m, k
      <3>3. m + 1 + k = i
        BY <3>1
      <3> QED BY <3>2, <3>3
    <2>8. scenario.hasPolicy /\ known =>
            \A p \in scenario.pairs : ~(p \subseteq ToSet(next.batch))
      <3> SUFFICES ASSUME scenario.hasPolicy, known, NEW p \in scenario.pairs
                   PROVE  ~(p \subseteq ToSet(acc.batch) \cup {e})
        BY <2>2, <2>3
      <3>1. \A q \in scenario.pairs : ~(q \subseteq ToSet(acc.batch))
        BY DEF SplitUpto
      <3> HIDE DEF e
      <3> QED BY <1>1, <1>2, <1>7, <3>1, CanAddFacts
    <2> HIDE DEF next, e
    <2>9. /\ ToSet(next.batch) \cup ToSet(next.rest) = First(epcs, i)
          /\ ToSet(next.batch) \cap ToSet(next.rest) = {}
      BY <1>1, <1>3, <2>2, <2>3 DEF SplitUpto
    <2>10. SplitUpto(next, epcs, cap, known, i)
      BY <2>2, <2>3, <2>4, <2>5, <2>6, <2>7, <2>8, <2>9 DEF SplitUpto
    <2> QED BY <2>10 DEF next, e
  <1> QED BY <1>6, <1>7

LEMMA TakeFirstBatchSplits ==
    ASSUME scenario \in Scenarios, NEW epcs \in Seq(EPCs), IsInjective(epcs),
           NEW size \in Limits, NEW known \in BOOLEAN
    PROVE  SplitUpto(TakeFirstBatch(epcs, size, known), epcs,
                     Smaller(size, PolicySize(known)), known, Len(epcs))
  <1> DEFINE cap == Smaller(size, PolicySize(known))
             n == Len(epcs)
             none == [batch |-> <<>>, rest |-> <<>>]
             step == [x \in Splits \X (1..n) |-> PutNext(x[1], epcs[x[2]], cap, known)]
             P(f) == f = [i \in 0..n |-> IF i = 0 THEN none
                                          ELSE PutNext(f[i - 1], epcs[i], cap, known)]
             taken == CHOOSE f : P(f)
  <1>1. cap \in Limits /\ n \in Nat /\ \A i \in 1..n : epcs[i] \in EPCs
    BY SmallerFacts, PolicySizeFacts
  <1>2. TakeFirstBatch(epcs, size, known) = taken[n]
    BY DEF TakeFirstBatch, PutNext
  <1> HIDE DEF cap, taken
  <1>3. ASSUME NEW acc \in Splits, NEW e \in EPCs
        PROVE  PutNext(acc, e, cap, known) \in Splits
    <2>1. acc.batch \in Seq(EPCs) /\ acc.rest \in Seq(EPCs)
      BY DEF Splits
    <2>2. Append(acc.batch, e) \in Seq(EPCs) /\ Append(acc.rest, e) \in Seq(EPCs)
      BY <2>1
    <2> QED BY <2>2 DEF PutNext, Splits
  <1>4. /\ none \in Splits /\ step \in [Splits \X (1..n) -> Splits]
        /\ \A acc \in Splits, i \in 1..n : step[<<acc, i>>] = PutNext(acc, epcs[i], cap, known)
    <2>1. none \in Splits
      BY DEF Splits
    <2> QED BY <1>1, <1>3, <2>1
  <1> HIDE DEF step
  <1>5. PICK f \in [0..n -> Splits] : Follows(f, none, n, step)
    <2> HIDE DEF none, n
    <2> QED BY <1>1, <1>4, Recursion
  <1>6. P(f)
    <2>1. ASSUME NEW i \in 1..n PROVE f[i] = PutNext(f[i - 1], epcs[i], cap, known)
      <3>1. i - 1 \in 0..n
        BY <1>1
      <3> QED BY <1>4, <1>5, <3>1 DEF Follows
    <2>2. f[0] = none
      BY <1>5 DEF Follows
    <2>3. f = [i \in 0..n |-> f[i]]
      BY <1>5
    <2>4. \A i \in 0..n : i # 0 => i \in 1..n
      BY <1>1
    <2> HIDE DEF none
    <2> QED BY <2>1, <2>2, <2>3, <2>4
  <1>7. P(taken)
    <2>1. \E g : P(g)
      <3> HIDE DEF P
      <3> QED BY <1>6
    <2> QED BY <2>1 DEF taken
  <1>8. taken[0] = none /\ \A i \in 1..n : taken[i] = PutNext(taken[i - 1], epcs[i], cap, known)
    <2>1. 0 \in 0..n /\ \A i \in 1..n : i \in 0..n /\ i # 0
      BY <1>1
    <2> HIDE DEF none
    <2> QED BY <1>7, <2>1
  <1>9. SplitUpto(taken[0], epcs, cap, known, 0)
    <2>1. First(epcs, 0) = {}
      BY DEF First
    <2>2. none \in Splits
      BY <1>4
    <2>3. \A x \in Limits : x # NoLimit => 0 <= x
      BY DEF Limits
    <2>4. taken[0].batch = <<>> /\ taken[0].rest = <<>>
      BY <1>8
    <2>5. \A p \in scenario.pairs : ~(p \subseteq {})
      <3> SUFFICES ASSUME NEW p \in scenario.pairs, p = {} PROVE FALSE
        OBVIOUS
      <3>1. Cardinality(p) = 2
        BY ScenarioFacts
      <3> QED BY <3>1, FS_EmptySet
    <2>6. cap # NoLimit => 0 <= cap
      BY <1>1, <2>3
    <2> HIDE DEF none
    <2> QED BY <1>8, <2>1, <2>2, <2>4, <2>5, <2>6, EmptySequence DEF SplitUpto
  <1>10. ASSUME NEW i \in 1..n, SplitUpto(taken[i - 1], epcs, cap, known, i - 1)
         PROVE  SplitUpto(taken[i], epcs, cap, known, i)
    BY <1>1, <1>8, <1>10, PutNextSplits
  <1>11. SplitUpto(taken[n], epcs, cap, known, n)
    <2> DEFINE T == {i \in 0..n : SplitUpto(taken[i], epcs, cap, known, i)}
    <2> HIDE DEF P, none
    <2>1. T \subseteq 0..n /\ 0 \in T
      BY <1>1, <1>9
    <2>2. ASSUME NEW i \in T, i < n PROVE i + 1 \in T
      <3>1. i + 1 \in 1..n /\ (i + 1) - 1 = i /\ i + 1 \in 0..n
        BY <1>1, <2>2
      <3> QED BY <1>10, <3>1
    <2>3. T = 0..n
      <3> HIDE DEF T
      <3> QED BY <1>1, <2>1, <2>2, CountingUpto
    <2>4. n \in 0..n
      BY <1>1
    <2> QED BY <2>3, <2>4
  <1> QED BY <1>2, <1>11 DEF cap

(* What the proofs use of a batch. *)
LEMMA TakeFirstBatchFacts ==
    ASSUME scenario \in Scenarios, NEW epcs \in Seq(EPCs), IsInjective(epcs), epcs # <<>>,
           NEW size \in Limits, NEW known \in BOOLEAN, NEW first,
           first = TakeFirstBatch(epcs, size, known)
    PROVE  /\ first.batch \in Seq(EPCs) /\ first.rest \in Seq(EPCs)
           /\ first.batch # <<>>
           /\ IsInjective(first.batch \o first.rest)
           /\ ToSet(first.batch \o first.rest) = ToSet(epcs)
           /\ \A m \in {size, PolicySize(known)} : m # NoLimit => Len(first.batch) <= m
           /\ scenario.hasPolicy /\ known =>
                \A p \in scenario.pairs : ~(p \subseteq ToSet(first.batch))
           /\ ~scenario.hasPolicy =>
                IF size = NoLimit \/ Len(epcs) <= size
                THEN Len(first.batch) = Len(epcs) /\ first.rest = <<>>
                ELSE Len(first.batch) = size
  <1> DEFINE cap == Smaller(size, PolicySize(known))
  <1>1. SplitUpto(first, epcs, cap, known, Len(epcs))
    BY TakeFirstBatchSplits
  <1>2. first.batch \in Seq(EPCs) /\ first.rest \in Seq(EPCs)
    BY <1>1 DEF SplitUpto, Splits
  <1>3. Len(epcs) \in Nat /\ Len(epcs) > 0
    OBVIOUS
  <1>4. first.batch # <<>>
    BY <1>1, <1>3 DEF SplitUpto
  <1>5. First(epcs, Len(epcs)) = ToSet(epcs)
    BY DEF First, ToSet
  <1>6. /\ IsInjective(first.batch \o first.rest)
        /\ ToSet(first.batch \o first.rest) = ToSet(epcs)
    BY <1>1, <1>2, <1>5, ElementsOfConcat DEF SplitUpto
  <1>7. PolicySize(known) \in Limits /\ cap \in Limits
    BY PolicySizeFacts, SmallerFacts
  <1>8. \A m \in {size, PolicySize(known)} : m # NoLimit => Len(first.batch) <= m
    <2> SUFFICES ASSUME NEW m \in {size, PolicySize(known)}, m # NoLimit
                 PROVE  Len(first.batch) <= m
      OBVIOUS
    <2>1. cap # NoLimit /\ cap <= m
      BY <1>7, SmallerFacts
    <2>2. cap \in Nat /\ m \in Nat /\ Len(first.batch) \in Nat
      BY <1>2, <1>7, <2>1 DEF Limits
    <2>3. Len(first.batch) <= cap
      BY <1>1, <2>1 DEF SplitUpto
    <2> QED BY <2>1, <2>2, <2>3
  <1>9. scenario.hasPolicy /\ known =>
          \A p \in scenario.pairs : ~(p \subseteq ToSet(first.batch))
    BY <1>1 DEF SplitUpto
  <1>10. ASSUME ~scenario.hasPolicy
         PROVE  IF size = NoLimit \/ Len(epcs) <= size
                THEN Len(first.batch) = Len(epcs) /\ first.rest = <<>>
                ELSE Len(first.batch) = size
    <2>1. cap = size
      BY <1>10 DEF PolicySize, Smaller
    <2>2. /\ Len(first.batch) + Len(first.rest) = Len(epcs)
          /\ Len(first.batch) = IF size = NoLimit \/ Len(epcs) <= size THEN Len(epcs) ELSE size
      BY <1>1, <1>10, <2>1 DEF SplitUpto
    <2>3. /\ Len(first.rest) \in Nat /\ Len(first.batch) \in Nat
          /\ first.rest = <<>> <=> Len(first.rest) = 0
      BY <1>2
    <2> QED BY <1>3, <2>2, <2>3
  <1> QED BY <1>2, <1>4, <1>6, <1>8, <1>9, <1>10

LEMMA WithoutFacts ==
    ASSUME NEW epcs \in Seq(EPCs), IsInjective(epcs), NEW S
    PROVE  /\ Without(epcs, S) \in Seq(EPCs)
           /\ ToSet(Without(epcs, S)) = ToSet(epcs) \ S
           /\ IsInjective(Without(epcs, S))
  <1> DEFINE n == Len(epcs)
             Leave(s, i) == IF epcs[i] \in S THEN s ELSE Append(s, epcs[i])
             step == [x \in Seq(EPCs) \X (1..n) |-> Leave(x[1], x[2])]
             P(f) == f = [i \in 0..n |-> IF i = 0 THEN <<>>
                                          ELSE IF epcs[i] \in S THEN f[i - 1]
                                               ELSE Append(f[i - 1], epcs[i])]
             left == CHOOSE f : P(f)
  <1>1. n \in Nat /\ \A i \in 1..n : epcs[i] \in EPCs
    OBVIOUS
  <1>2. Without(epcs, S) = left[n]
    BY DEF Without
  <1> HIDE DEF left
  <1>3. ASSUME NEW s \in Seq(EPCs), NEW i \in 1..n PROVE Leave(s, i) \in Seq(EPCs)
    BY <1>1
  <1>4. /\ <<>> \in Seq(EPCs) /\ step \in [Seq(EPCs) \X (1..n) -> Seq(EPCs)]
        /\ \A s \in Seq(EPCs), i \in 1..n : step[<<s, i>>] = Leave(s, i)
    <2> HIDE DEF Leave
    <2> QED BY <1>3
  <1> HIDE DEF step
  <1>5. PICK f \in [0..n -> Seq(EPCs)] : Follows(f, <<>>, n, step)
    <2> DEFINE none == <<>>
               V == Seq(EPCs)
    <2>1. none \in V /\ n \in Nat /\ step \in [V \X (1..n) -> V]
      BY <1>1, <1>4
    <2> HIDE DEF n, none, V
    <2>2. \E f \in [0..n -> V] : Follows(f, none, n, step)
      BY <2>1, Recursion
    <2> QED BY <2>2 DEF none, V
  <1>6. P(f)
    <2>1. ASSUME NEW i \in 1..n PROVE f[i] = Leave(f[i - 1], i)
      <3>1. i - 1 \in 0..n
        BY <1>1
      <3> HIDE DEF Leave
      <3> QED BY <1>4, <1>5, <3>1 DEF Follows
    <2>2. f[0] = <<>>
      BY <1>5 DEF Follows
    <2>3. f = [i \in 0..n |-> f[i]]
      BY <1>5
    <2>4. \A i \in 0..n : i # 0 => i \in 1..n
      BY <1>1
    <2> QED BY <2>1, <2>2, <2>3, <2>4
  <1>7. P(left)
    <2>1. \E g : P(g)
      <3> HIDE DEF P
      <3> QED BY <1>6
    <2> QED BY <2>1 DEF left
  <1>8. left[0] = <<>> /\ \A i \in 1..n : left[i] = Leave(left[i - 1], i)
    <2>1. 0 \in 0..n /\ \A i \in 1..n : i \in 0..n /\ i # 0
      BY <1>1
    <2> QED BY <1>7, <2>1
  <1> DEFINE Good(i) == /\ left[i] \in Seq(EPCs) /\ IsInjective(left[i])
                        /\ ToSet(left[i]) = First(epcs, i) \ S
  <1>9. Good(0)
    <2>1. First(epcs, 0) = {} /\ <<>> \in Seq(EPCs)
      BY DEF First
    <2> HIDE DEF P
    <2> QED BY <1>8, <2>1, EmptySequence
  <1>10. ASSUME NEW i \in 1..n, Good(i - 1) PROVE Good(i)
    <2>1. /\ epcs[i] \in EPCs /\ First(epcs, i) = First(epcs, i - 1) \cup {epcs[i]}
          /\ epcs[i] \notin First(epcs, i - 1)
      BY FirstFacts
    <2> DEFINE s == left[i - 1]
    <2>2. s \in Seq(EPCs) /\ IsInjective(s) /\ ToSet(s) = First(epcs, i - 1) \ S
      BY <1>10
    <2> HIDE DEF s, P
    <2>3. CASE epcs[i] \in S
      <3>1. left[i] = s
        BY <1>8, <2>3 DEF s
      <3> QED BY <2>1, <2>2, <2>3, <3>1
    <2>4. CASE epcs[i] \notin S
      <3>1. left[i] = Append(s, epcs[i])
        BY <1>8, <2>4 DEF s
      <3>2. /\ Append(s, epcs[i]) \in Seq(EPCs)
            /\ ToSet(Append(s, epcs[i])) = ToSet(s) \cup {epcs[i]}
            /\ IsInjective(Append(s, epcs[i]))
        BY <2>1, <2>2, ElementsOfAppend
      <3> QED BY <2>1, <2>2, <2>4, <3>1, <3>2
    <2> QED BY <2>3, <2>4
  <1>11. Good(n)
    <2> DEFINE T == {i \in 0..n : Good(i)}
    <2> HIDE DEF P, Good, Leave
    <2>1. T \subseteq 0..n /\ 0 \in T
      BY <1>1, <1>9
    <2>2. ASSUME NEW i \in T, i < n PROVE i + 1 \in T
      <3>1. i + 1 \in 1..n /\ (i + 1) - 1 = i /\ i + 1 \in 0..n
        BY <1>1, <2>2
      <3> QED BY <1>10, <3>1
    <2>3. T = 0..n
      <3> HIDE DEF T
      <3> QED BY <1>1, <2>1, <2>2, CountingUpto
    <2>4. n \in 0..n
      BY <1>1
    <2> QED BY <2>3, <2>4
  <1>12. First(epcs, n) = ToSet(epcs)
    BY DEF First, ToSet
  <1> HIDE DEF n
  <1> QED BY <1>2, <1>11, <1>12

-----------------------------------------------------------------------------
(* The inductive invariant.                                                 *)
Wanted(c) == ToSet(scenario.wanted[c])

(* The node answers c, and no other has taught the object it holds.         *)
Ours(c) == ~Strayed(c) /\ (misled => object[c] = 2)

(* The object that follows a dropped one is held by calls that go to the    *)
(* new address.                                                             *)
Placed(c) == object[c] = 2 => home = "new" /\ address[c] = "new"

(* No batch of c is larger, and while it probes the bound halves.           *)
Bound(c) == Smaller(limit[c], probeSize[c])

(* What a call has read and sent at each of its stages.                     *)
Stages(c) ==
    /\ c \in Unsplit => pc[c] \notin {"identifying", "reading"}
    /\ c \notin Unsplit => pc[c] # "asking"
    /\ Placed(c)
    /\ pc[c] \in {"new", "identifying"} =>
         settled[c] = {} /\ received[c] = {} /\ sends[c] = 0 /\ halvings[c] = 0
    /\ settled[c] \subseteq Wanted(c)
    /\ c \notin Probing => halvings[c] = 0
    /\ sends[c] <= Len(scenario.wanted[c]) + halvings[c]
    /\ halvings[c] > 0 => PowersOfTwo[halvings[c] - 1] < Len(scenario.wanted[c])
    /\ pc[c] = "done" /\ c \notin Unsplit => settled[c] = Wanted(c)

(* Its batch and its queue are what is left, and the batch keeps to the      *)
(* policy and to all the limits it was planned with.                        *)
Batches(c) ==
    /\ batch[c] # <<>>
    /\ IsInjective(batch[c] \o queue[c])
    /\ ToSet(batch[c] \o queue[c]) = Wanted(c) \ settled[c]
    /\ scenario.hasPolicy => /\ identified[object[c]]
                             /\ \A p \in scenario.pairs : ~(p \subseteq ToSet(batch[c]))
    /\ \A n \in {limit[c], PolicySize(TRUE), probeSize[c]} : n # NoLimit => Len(batch[c]) <= n
    /\ limit[c] # NoLimit => capacity[object[c]] # NoLimit /\ capacity[object[c]] <= limit[c]

(* Each halving halves the bound on its batches; a request that is not       *)
(* answered in full was a halving.                                          *)
Probes(c) ==
    /\ halvings[c] > 0 =>
         /\ Bound(c) # NoLimit
         /\ (Bound(c) - 1) * PowersOfTwo[halvings[c]] < Len(scenario.wanted[c])
    /\ sends[c] <= Cardinality(settled[c]) + halvings[c] + 1

(* What it learned from a device that is not wild is true of the device.     *)
Learns(c) ==
    Honest /\ Ours(c) =>
        /\ Reading(c) /\ limit[c] # NoLimit => limit[c] <= scenario.device.capable
        /\ c \in Probing /\ pc[c] \in {"reading", "done"} =>
             Wanted(c) \cap received[c] = settled[c] \cap scenario.device.supported

(* What LimitNotTooSmall is about.                                          *)
Alone(c) ==
    /\ c \in Probing /\ Active = {c} /\ Honest /\ losses = 0 /\ home = "old"
    /\ Wanted(c) \subseteq scenario.device.supported /\ ~scenario.hasPolicy

Goal(c) == Smaller(scenario.device.capable, Cardinality(Wanted(c) \ {Maker}))

(* On its own it probes with what could not be answered, never with less     *)
(* than half of it.                                                         *)
LearnsAlone(c) ==
    Alone(c) =>
        /\ capacity[1] # NoLimit => 2 * capacity[1] > Goal(c)
        /\ pc[c] \in {"new", "identifying"} => capacity[1] = NoLimit
        /\ Reading(c) =>
             /\ capacity[1] # NoLimit => probeSize[c] = NoLimit /\ limit[c] # NoLimit
             /\ capacity[1] = NoLimit /\ probeSize[c] # NoLimit =>
                  Len(batch[c]) = probeSize[c] /\ 2 * probeSize[c] > Goal(c)
             /\ capacity[1] = NoLimit /\ probeSize[c] = NoLimit =>
                  queue[c] = <<>> /\ Len(batch[c]) >= Goal(c)

(* All of it for one call.                                                  *)
CallInv(c) ==
    /\ Stages(c)
    /\ Reading(c) => Batches(c) /\ Probes(c)
    /\ Learns(c)
    /\ LearnsAlone(c)

(* The shared limits are true of the device they are kept for, the first    *)
(* of them until the rival has answered a setup that holds it.              *)
CapacityHonest ==
    /\ misled => home # "old"
    /\ Honest =>
        /\ ~misled /\ capacity[1] # NoLimit => capacity[1] <= scenario.device.capable
        /\ capacity[2] # NoLimit => capacity[2] <= scenario.device.capable

BatchingInv == TypeOK /\ CapacityHonest /\ \A c \in Active : CallInv(c)

-----------------------------------------------------------------------------
LEMMA SizesFacts ==
    /\ Cardinality(EPCs) \in Nat /\ Sizes \subseteq Nat \ {0}
    /\ Sizes \cup {NoLimit} \subseteq Limits
    /\ \A n \in Nat \ {0} : n <= Cardinality(EPCs) => n \in Sizes
    /\ \A n \in Sizes, m \in Nat \ {0} : m <= n => m \in Sizes
    /\ NoLimit \notin Sizes
  <1>1. Cardinality(EPCs) \in Nat
    BY GetAssumption, FS_CardinalityType
  <1> QED BY <1>1, GetAssumption DEF Sizes, Limits

LEMMA WantedFacts ==
    ASSUME scenario \in Scenarios, NEW c \in Active
    PROVE  /\ c \in Calls /\ Wanted(c) \subseteq EPCs
           /\ IsFiniteSet(Wanted(c)) /\ Cardinality(Wanted(c)) = Len(scenario.wanted[c])
           /\ Len(scenario.wanted[c]) \in Nat \ {0}
           /\ \A T : T \subseteq Wanted(c) =>
                /\ IsFiniteSet(T) /\ Cardinality(T) \in Nat
                /\ Cardinality(T) <= Len(scenario.wanted[c])
                /\ T # Wanted(c) => Cardinality(T) < Len(scenario.wanted[c])
  <1> DEFINE w == scenario.wanted[c]
  <1>1. c \in Calls /\ w \in Seq(EPCs) /\ w # <<>> /\ IsInjective(w)
    BY ScenarioFacts
  <1> HIDE DEF w
  <1>2. /\ IsFiniteSet(ToSet(w)) /\ Cardinality(ToSet(w)) = Len(w)
        /\ ToSet(w) \subseteq EPCs /\ Len(w) \in Nat \ {0}
    BY <1>1, ElementsCounted, ElementsOf
  <1>3. ASSUME NEW T, T \subseteq ToSet(w)
        PROVE  /\ IsFiniteSet(T) /\ Cardinality(T) \in Nat /\ Cardinality(T) <= Len(w)
               /\ T # ToSet(w) => Cardinality(T) < Len(w)
    <2>1. /\ IsFiniteSet(T) /\ Cardinality(T) <= Len(w)
          /\ Cardinality(T) = Len(w) => T = ToSet(w)
      BY <1>2, <1>3, FS_Subset
    <2>2. Cardinality(T) \in Nat
      BY <2>1, FS_CardinalityType
    <2> QED BY <1>2, <2>1, <2>2
  <1> QED BY <1>1, <1>2, <1>3 DEF w, Wanted

LEMMA HalfFacts ==
    ASSUME NEW n \in Nat, n > 1
    PROVE  /\ Half(n) \in Nat \ {0} /\ Half(n) < n /\ 2 * Half(n) >= n
           /\ 2 * (Half(n) - 1) <= n - 1
  BY DEF Half

LEMMA ProductGrows ==
    ASSUME NEW a \in Nat, NEW b \in Nat, a <= b, NEW p \in Nat
    PROVE  a * p <= b * p
  <1> DEFINE T == {k \in Nat : a * k <= b * k}
  <1>1. T \subseteq Nat /\ 0 \in T
    OBVIOUS
  <1>2. ASSUME NEW k \in T PROVE k + 1 \in T
    <2>1. a * (k + 1) = a * k + a /\ b * (k + 1) = b * k + b
      OBVIOUS
    <2>2. a * k \in Nat /\ b * k \in Nat /\ a * k <= b * k
      OBVIOUS
    <2> QED BY <2>1, <2>2
  <1>3. T = Nat
    <2> HIDE DEF T
    <2> QED BY <1>1, <1>2, Counting
  <1> QED BY <1>3

LEMMA HalvedProduct ==
    ASSUME NEW a \in Nat, NEW b \in Nat, 2 * a <= b, NEW p \in Nat
    PROVE  a * (2 * p) <= b * p
  <1>1. (2 * a) * p <= b * p
    BY ProductGrows
  <1>2. a * (2 * p) = (2 * a) * p
    OBVIOUS
  <1> QED BY <1>1, <1>2

LEMMA TypeFacts ==
    ASSUME TypeOK, NEW c \in Calls
    PROVE  /\ object[c] \in Objects
           /\ capacity[object[c]] \in Sizes \cup {NoLimit}
           /\ identified[object[c]] \in BOOLEAN
           /\ queue[c] \in Seq(EPCs) /\ batch[c] \in Seq(EPCs)
           /\ limit[c] \in Sizes \cup {NoLimit} /\ probeSize[c] \in Sizes \cup {NoLimit}
           /\ received[c] \subseteq EPCs /\ settled[c] \subseteq EPCs
           /\ sends[c] \in Nat /\ halvings[c] \in Nat
  BY DEF TypeOK

-----------------------------------------------------------------------------
(* Planning the next batch.                                                 *)
LEMMA PlanTyped ==
    ASSUME TypeOK, scenario' = scenario, NEW c \in Active,
           NEW epcs \in Seq(EPCs), IsInjective(epcs), NEW probing \in Sizes \cup {NoLimit},
           capacity'[object'[c]] \in Sizes \cup {NoLimit},
           identified'[object'[c]] \in BOOLEAN,
           Plan(c, epcs, probing)
    PROVE  /\ pc' \in [Calls -> {"new", "identifying", "reading", "asking"} \cup Ended]
           /\ queue' \in [Calls -> Seq(EPCs)] /\ batch' \in [Calls -> Seq(EPCs)]
           /\ limit' \in [Calls -> Sizes \cup {NoLimit}]
           /\ probeSize' \in [Calls -> Sizes \cup {NoLimit}]
           /\ sends' \in [Calls -> Nat]
           /\ \A d \in Calls \ {c} :
                /\ pc'[d] = pc[d] /\ queue'[d] = queue[d] /\ batch'[d] = batch[d]
                /\ limit'[d] = limit[d] /\ probeSize'[d] = probeSize[d] /\ sends'[d] = sends[d]
           /\ probeSize'[c] = probing
  <1>1. c \in Calls
    BY ScenarioFacts DEF TypeOK
  <1>2. CASE epcs = <<>>
    BY <1>1, <1>2 DEF Plan, TypeOK, Ended
  <1>3. CASE epcs # <<>>
    <2> DEFINE size == Smaller(capacity'[object'[c]], probing)
               first == TakeFirstBatch(epcs, size, identified'[object'[c]])
    <2>1. size \in Limits
      BY SizesFacts, SmallerFacts
    <2>2. first.batch \in Seq(EPCs) /\ first.rest \in Seq(EPCs)
      <3> HIDE DEF size
      <3> QED BY <1>3, <2>1, TakeFirstBatchFacts DEF TypeOK
    <2>3. /\ probeSize' = [probeSize EXCEPT ![c] = probing]
          /\ pc' = [pc EXCEPT ![c] = "reading"]
          /\ queue' = [queue EXCEPT ![c] = first.rest]
          /\ batch' = [batch EXCEPT ![c] = first.batch]
          /\ limit' = [limit EXCEPT ![c] = capacity'[object'[c]]]
          /\ sends' = [sends EXCEPT ![c] = @ + 1]
      BY <1>3 DEF Plan
    <2> HIDE DEF first
    <2> QED BY <1>1, <2>2, <2>3 DEF TypeOK, Ended
  <1> QED BY <1>2, <1>3

LEMMA PlanDone ==
    ASSUME TypeOK, NEW c \in Active, NEW probing, Plan(c, <<>>, probing)
    PROVE  pc'[c] = "done" /\ sends' = sends
  BY ScenarioFacts DEF Plan, TypeOK

LEMMA PlanReads ==
    ASSUME TypeOK, scenario' = scenario, NEW c \in Active,
           NEW epcs \in Seq(EPCs), IsInjective(epcs), epcs # <<>>,
           NEW probing \in Sizes \cup {NoLimit},
           capacity'[object'[c]] \in Sizes \cup {NoLimit},
           identified'[object'[c]] \in BOOLEAN,
           scenario.hasPolicy => identified'[object'[c]],
           Plan(c, epcs, probing)
    PROVE  /\ pc'[c] = "reading" /\ sends'[c] = sends[c] + 1
           /\ limit'[c] = capacity'[object'[c]]
           /\ batch'[c] # <<>> /\ batch'[c] \in Seq(EPCs)
           /\ IsInjective(batch'[c] \o queue'[c])
           /\ ToSet(batch'[c] \o queue'[c]) = ToSet(epcs)
           /\ scenario.hasPolicy => \A p \in scenario.pairs : ~(p \subseteq ToSet(batch'[c]))
           /\ \A n \in {limit'[c], PolicySize(TRUE), probing} : n # NoLimit => Len(batch'[c]) <= n
           /\ ~scenario.hasPolicy =>
                IF limit'[c] = NoLimit /\ probing = NoLimit
                THEN Len(batch'[c]) = Len(epcs) /\ queue'[c] = <<>>
                ELSE limit'[c] = NoLimit /\ Len(epcs) >= probing => Len(batch'[c]) = probing
  <1> DEFINE size == Smaller(capacity'[object'[c]], probing)
             known == identified'[object'[c]]
             first == TakeFirstBatch(epcs, size, known)
  <1>0. scenario \in Scenarios /\ c \in Calls
    BY ScenarioFacts DEF TypeOK
  <1>1. /\ pc'[c] = "reading" /\ sends'[c] = sends[c] + 1 /\ limit'[c] = capacity'[object'[c]]
        /\ batch'[c] = first.batch /\ queue'[c] = first.rest
    BY <1>0 DEF Plan, TypeOK
  <1>2. /\ size \in Limits
        /\ limit'[c] \in Limits /\ probing \in Limits
        /\ size = NoLimit <=> limit'[c] = NoLimit /\ probing = NoLimit
        /\ \A n \in {limit'[c], probing} : n # NoLimit => size # NoLimit /\ size <= n
    BY <1>1, SizesFacts, SmallerFacts
  <1>3. limit'[c] = NoLimit => size = probing
    BY <1>1 DEF Smaller
  <1>4. PolicySize(TRUE) # NoLimit => known /\ PolicySize(known) = PolicySize(TRUE)
    BY DEF PolicySize
  <1> HIDE DEF size, known, first
  <1>5. known \in BOOLEAN
    BY DEF known
  <1>6. /\ first.batch \in Seq(EPCs) /\ first.rest \in Seq(EPCs)
        /\ first.batch # <<>>
        /\ IsInjective(first.batch \o first.rest)
        /\ ToSet(first.batch \o first.rest) = ToSet(epcs)
        /\ \A m \in {size, PolicySize(known)} : m # NoLimit => Len(first.batch) <= m
        /\ scenario.hasPolicy /\ known =>
             \A p \in scenario.pairs : ~(p \subseteq ToSet(first.batch))
        /\ ~scenario.hasPolicy =>
             IF size = NoLimit \/ Len(epcs) <= size
             THEN Len(first.batch) = Len(epcs) /\ first.rest = <<>>
             ELSE Len(first.batch) = size
    BY <1>0, <1>2, <1>5, TakeFirstBatchFacts DEF first
  <1>7. scenario.hasPolicy => known
    BY DEF known
  <1>8. ASSUME NEW n \in {limit'[c], PolicySize(TRUE), probing}, n # NoLimit
        PROVE  Len(batch'[c]) <= n
    <2>1. Len(first.batch) \in Nat
      BY <1>6
    <2>2. CASE n \in {limit'[c], probing}
      <3>1. size # NoLimit /\ size <= n
        BY <1>2, <1>8, <2>2
      <3>2. size \in Nat /\ n \in Nat
        BY <1>2, <1>8, <2>2, <3>1 DEF Limits
      <3>3. Len(first.batch) <= size
        BY <1>6, <3>1
      <3> QED BY <1>1, <2>1, <3>1, <3>2, <3>3
    <2>3. CASE n = PolicySize(TRUE)
      BY <1>1, <1>4, <1>6, <1>8, <2>3
    <2> QED BY <1>8, <2>2, <2>3
  <1>9. ASSUME ~scenario.hasPolicy
        PROVE  IF limit'[c] = NoLimit /\ probing = NoLimit
               THEN Len(batch'[c]) = Len(epcs) /\ queue'[c] = <<>>
               ELSE limit'[c] = NoLimit /\ Len(epcs) >= probing => Len(batch'[c]) = probing
    <2>1. CASE limit'[c] = NoLimit /\ probing = NoLimit
      BY <1>1, <1>2, <1>6, <1>9, <2>1
    <2>2. ASSUME limit'[c] = NoLimit, probing # NoLimit, Len(epcs) >= probing
          PROVE  Len(batch'[c]) = probing
      <3>1. size = probing /\ probing \in Nat /\ Len(epcs) \in Nat
        BY <1>2, <1>3, <2>2 DEF Limits
      <3> QED BY <1>1, <1>6, <1>9, <2>2, <3>1
    <2> QED BY <2>1, <2>2
  <1> QED BY <1>1, <1>6, <1>7, <1>8, <1>9

-----------------------------------------------------------------------------
(* Answers.                                                                 *)
LEMMA AnswersFacts ==
    ASSUME TypeOK, NEW c \in Active, NEW answer \in Answers(c)
    PROVE  answer.matched \subseteq ToSet(batch[c]) /\ answer.valued \subseteq answer.matched
  <1> DEFINE device == Answerer(c)
  <1>1. c \in Calls /\ batch[c] \in Seq(EPCs) /\ device \in Devices
    BY ScenarioFacts DEF TypeOK, Answerer
  <1>2. device.capable \in Nat \ {0}
    BY <1>1 DEF Devices
  <1> HIDE DEF device
  <1>3. ASSUME ~(Len(batch[c]) <= device.capable)
        PROVE  ToSet(SubSeq(batch[c], 1, device.capable)) \subseteq ToSet(batch[c])
    BY <1>1, <1>2, <1>3 DEF ToSet
  <1> QED BY <1>3 DEF Answers, device

LEMMA StartOf ==
    ASSUME NEW s \in Seq(EPCs), IsInjective(s), NEW k \in Nat \ {0}, k < Len(s)
    PROVE  Cardinality(ToSet(SubSeq(s, 1, k))) = k
  <1> DEFINE t == SubSeq(s, 1, k)
  <1>1. t \in Seq(EPCs) /\ Len(t) = k /\ DOMAIN t = 1..k /\ DOMAIN s = 1..Len(s) /\ Len(s) \in Nat
    OBVIOUS
  <1>2. \A i \in 1..k : t[i] = s[i] /\ i \in 1..Len(s)
    BY <1>1
  <1> HIDE DEF t
  <1>3. IsInjective(t)
    BY <1>1, <1>2 DEF IsInjective
  <1> QED BY <1>1, <1>3, ElementsCounted DEF t

(* A device that is not wild answers no more EPCs than it is capable of,    *)
(* with the values it has, or all of a longer request without a value.      *)
LEMMA HonestAnswers ==
    ASSUME TypeOK, NEW c \in Active, NEW answer \in Answers(c), Honest, Ours(c),
           IsInjective(batch[c])
    PROVE  LET n == Len(batch[c])
               capable == scenario.device.capable
           IN  /\ n <= capable => answer.matched = ToSet(batch[c])
               /\ n <= capable \/ answer.matched # ToSet(batch[c]) =>
                    answer.valued = answer.matched \cap scenario.device.supported
               /\ n > capable /\ answer.matched # {} /\ answer.matched # ToSet(batch[c]) =>
                    Cardinality(answer.matched) = capable
               /\ n > capable /\ answer.matched = ToSet(batch[c]) => answer.valued = {}
  <1> DEFINE device == scenario.device
             n == Len(batch[c])
  <1>1. c \in Calls /\ batch[c] \in Seq(EPCs) /\ device \in Devices /\ n \in Nat
    BY ScenarioFacts DEF TypeOK
  <1>2. /\ device.capable \in Nat \ {0} /\ device.kind \in {"silent", "partial", "empty"}
        /\ Answerer(c) = device
    BY <1>1 DEF Devices, Honest, Ours, Answerer
  <1>3. n > device.capable =>
          Cardinality(ToSet(SubSeq(batch[c], 1, device.capable))) = device.capable
    BY <1>1, <1>2, StartOf
  <1>4. n > device.capable => n # device.capable /\ batch[c] # <<>> /\ ToSet(batch[c]) # {}
    BY <1>1, <1>2, ElementsOf
  <1>5. Cardinality(ToSet(batch[c])) = n
    BY <1>1, ElementsCounted
  <1> QED BY <1>1, <1>2, <1>3, <1>4, <1>5 DEF Answers

-----------------------------------------------------------------------------
LEMMA LimitIsNumber == \A x \in Sizes \cup {NoLimit} : x # NoLimit => x \in Nat \ {0}
  BY SizesFacts

(* What a step of c leaves to the other calls.                              *)
Same(d) ==
    /\ object'[d] = object[d] /\ address'[d] = address[d]
    /\ pc'[d] = pc[d] /\ queue'[d] = queue[d] /\ batch'[d] = batch[d]
    /\ limit'[d] = limit[d] /\ probeSize'[d] = probeSize[d] /\ received'[d] = received[d]
    /\ settled'[d] = settled[d] /\ sends'[d] = sends[d] /\ halvings'[d] = halvings[d]

CapacityKept ==
    \A o \in Objects : capacity[o] # NoLimit =>
        capacity'[o] # NoLimit /\ capacity'[o] <= capacity[o]

StepOf(c) ==
    /\ scenario' = scenario /\ home' = home
    /\ \A d \in Calls \ {c} : Same(d)
    /\ CapacityKept
    /\ \A o \in Objects : identified[o] => identified'[o]
    /\ misled => misled'

(* What the rival says, and where c goes, can only take c away.             *)
LEMMA OursBefore ==
    ASSUME NEW c, home' = home, object'[c] = object[c], address'[c] = address[c],
           misled => misled', Ours(c)'
    PROVE  Ours(c)
  BY DEF Ours, Strayed

LEMMA OthersKept ==
    ASSUME BatchingInv, TypeOK', NEW c \in Active, StepOf(c), NEW d \in Active, d # c
    PROVE  CallInv(d)'
  <1>1. /\ Same(d) /\ d \in Calls /\ scenario' = scenario /\ home' = home
        /\ CapacityKept /\ \A o \in Objects : identified[o] => identified'[o]
        /\ misled => misled'
    BY ScenarioFacts DEF StepOf, BatchingInv, TypeOK
  <1>2. object[d] \in Objects /\ CallInv(d)
    BY <1>1, TypeFacts DEF BatchingInv
  <1>3. Stages(d)'
    BY <1>1, <1>2 DEF Stages, CallInv, Same, Wanted, Placed
  <1>4. ASSUME Reading(d)' PROVE Batches(d)' /\ Probes(d)'
    <2>1. Batches(d) /\ Probes(d)
      BY <1>1, <1>2, <1>4 DEF CallInv, Reading, Same
    <2>2. Batches(d)'
      <3>1. /\ batch'[d] # <<>>
            /\ IsInjective(batch'[d] \o queue'[d])
            /\ ToSet(batch'[d] \o queue'[d]) = Wanted(d)' \ settled'[d]
        BY <1>1, <2>1 DEF Batches, Same, Wanted
      <3>2. scenario'.hasPolicy =>
              /\ identified'[object'[d]]
              /\ \A p \in scenario'.pairs : ~(p \subseteq ToSet(batch'[d]))
        BY <1>1, <1>2, <2>1 DEF Batches, Same
      <3>3. PolicySize(TRUE)' = PolicySize(TRUE)
        BY <1>1 DEF PolicySize
      <3>4. \A n \in {limit'[d], PolicySize(TRUE)', probeSize'[d]} :
               n # NoLimit => Len(batch'[d]) <= n
        BY <1>1, <2>1, <3>3 DEF Batches, Same
      <3>5. ASSUME limit[d] # NoLimit
            PROVE  capacity'[object[d]] # NoLimit /\ capacity'[object[d]] <= limit[d]
        <4>1. capacity[object[d]] # NoLimit /\ capacity[object[d]] <= limit[d]
          BY <2>1, <3>5 DEF Batches
        <4>2. capacity'[object[d]] # NoLimit /\ capacity'[object[d]] <= capacity[object[d]]
          BY <1>1, <1>2, <4>1 DEF CapacityKept
        <4>3. capacity[object[d]] \in Nat /\ capacity'[object[d]] \in Nat /\ limit[d] \in Nat
          <5>1. capacity[object[d]] \in Sizes \cup {NoLimit} /\ limit[d] \in Sizes \cup {NoLimit}
            BY <1>1, TypeFacts DEF BatchingInv
          <5>2. capacity'[object[d]] \in Sizes \cup {NoLimit}
            BY <1>2 DEF TypeOK
          <5> QED BY <3>5, <4>1, <4>2, <5>1, <5>2, LimitIsNumber
        <4> QED BY <4>1, <4>2, <4>3
      <3> QED BY <1>1, <3>1, <3>2, <3>4, <3>5 DEF Batches, Same
    <2>3. Probes(d)'
      BY <1>1, <2>1 DEF Probes, Same, Bound
    <2> QED BY <2>2, <2>3
  <1>5. Learns(d)'
    <2>1. Ours(d)' => Ours(d)
      BY <1>1, OursBefore DEF Same
    <2> QED BY <1>1, <1>2, <2>1 DEF Learns, CallInv, Same, Wanted, Reading, Honest
  <1>6. LearnsAlone(d)'
    <2>1. Active' = Active
      BY <1>1 DEF Active
    <2>2. Active # {d}
      OBVIOUS
    <2> QED BY <2>1, <2>2 DEF LearnsAlone, Alone
  <1> QED BY <1>3, <1>4, <1>5, <1>6 DEF CallInv

(* A step of c keeps the invariant if it keeps what it says of c.           *)
LEMMA StepKeeps ==
    ASSUME BatchingInv, TypeOK', NEW c \in Active, StepOf(c), CallInv(c)', CapacityHonest'
    PROVE  BatchingInv'
  <1>1. Active' = Active
    BY DEF StepOf, Active
  <1>2. \A d \in Active : CallInv(d)'
    BY OthersKept
  <1> QED BY <1>1, <1>2 DEF BatchingInv

LEMMA CapacitySteady ==
    ASSUME TypeOK, capacity' = capacity
    PROVE  CapacityKept
  <1>1. \A o \in Objects : capacity[o] # NoLimit => capacity[o] \in Nat
    BY LimitIsNumber DEF TypeOK
  <1> QED BY <1>1 DEF CapacityKept

-----------------------------------------------------------------------------
(* A call goes on to its next batch.                                        *)
LEMMA PlanNext ==
    ASSUME BatchingInv, scenario' = scenario, NEW c \in Active, c \notin Unsplit,
           object'[c] \in Objects, Placed(c)',
           capacity'[object'[c]] \in Sizes \cup {NoLimit},
           identified'[object'[c]] \in BOOLEAN,
           scenario.hasPolicy => identified'[object'[c]],
           NEW epcs \in Seq(EPCs), IsInjective(epcs), NEW probing \in Sizes \cup {NoLimit},
           Plan(c, epcs, probing),
           settled'[c] \subseteq Wanted(c), ToSet(epcs) = Wanted(c) \ settled'[c],
           halvings'[c] \in Nat, c \notin Probing => halvings'[c] = 0,
           sends[c] <= Cardinality(settled'[c]) + halvings'[c],
           halvings'[c] > 0 =>
             LET b == Smaller(capacity'[object'[c]], probing) IN
             /\ PowersOfTwo[halvings'[c] - 1] < Len(scenario.wanted[c])
             /\ b # NoLimit /\ (b - 1) * PowersOfTwo[halvings'[c]] < Len(scenario.wanted[c])
    PROVE  Stages(c)' /\ (Reading(c)' => Batches(c)' /\ Probes(c)')
  <1> DEFINE N == Len(scenario.wanted[c])
  <1>1. /\ TypeOK /\ scenario \in Scenarios
        /\ Wanted(c)' = Wanted(c) /\ PolicySize(TRUE)' = PolicySize(TRUE)
    BY DEF BatchingInv, TypeOK, Wanted, PolicySize
  <1>2. c \in Calls /\ N \in Nat /\ sends[c] \in Nat /\ Cardinality(settled'[c]) \in Nat
    BY <1>1, WantedFacts, TypeFacts
  <1>3. Cardinality(settled'[c]) <= N /\ (settled'[c] # Wanted(c) => Cardinality(settled'[c]) < N)
    BY <1>1, WantedFacts
  <1> HIDE DEF N
  <1>4. CASE epcs = <<>>
    <2>1. pc'[c] = "done" /\ sends' = sends
      BY <1>1, <1>4, PlanDone
    <2>2. settled'[c] = Wanted(c)
      BY <1>4, EmptySequence
    <2>3. sends'[c] <= N + halvings'[c]
      BY <1>2, <1>3, <2>1
    <2>4. Stages(c)'
      BY <1>1, <2>1, <2>2, <2>3 DEF Stages, N
    <2> QED BY <2>1, <2>4 DEF Reading
  <1>5. CASE epcs # <<>>
    <2>1. /\ pc'[c] = "reading" /\ sends'[c] = sends[c] + 1
          /\ limit'[c] = capacity'[object'[c]]
          /\ batch'[c] # <<>>
          /\ IsInjective(batch'[c] \o queue'[c])
          /\ ToSet(batch'[c] \o queue'[c]) = ToSet(epcs)
          /\ scenario.hasPolicy => \A p \in scenario.pairs : ~(p \subseteq ToSet(batch'[c]))
          /\ \A n \in {limit'[c], PolicySize(TRUE), probing} : n # NoLimit => Len(batch'[c]) <= n
      BY <1>1, <1>5, PlanReads
    <2>2. probeSize'[c] = probing
      BY <1>1, PlanTyped
    <2>3. settled'[c] # Wanted(c)
      BY <1>5, ElementsOf
    <2>4. sends'[c] <= N + halvings'[c] /\ sends'[c] <= Cardinality(settled'[c]) + halvings'[c] + 1
      BY <1>2, <1>3, <2>1, <2>3
    <2>5. Stages(c)'
      BY <1>1, <2>1, <2>4 DEF Stages, N
    <2>6. limit'[c] # NoLimit => capacity'[object'[c]] <= limit'[c]
      BY <2>1, LimitIsNumber
    <2>7. Batches(c)'
      BY <1>1, <2>1, <2>2, <2>6 DEF Batches
    <2>8. Bound(c)' = Smaller(capacity'[object'[c]], probing)
      BY <2>1, <2>2 DEF Bound, Smaller
    <2>9. Probes(c)'
      BY <2>4, <2>8 DEF Probes
    <2> QED BY <2>5, <2>7, <2>9
  <1> QED BY <1>4, <1>5

(* The objects the calls of the node hold have honest limits.               *)
LEMMA OursHonest ==
    ASSUME BatchingInv, NEW c \in Active, Honest, Ours(c), capacity[object[c]] # NoLimit
    PROVE  capacity[object[c]] <= scenario.device.capable
  <1>1. c \in Calls /\ CallInv(c)
    BY ScenarioFacts DEF BatchingInv, TypeOK
  <1>2. object[c] \in {1, 2}
    BY <1>1, TypeFacts DEF BatchingInv, Objects
  <1> QED BY <1>2 DEF BatchingInv, CapacityHonest, Ours

(* While the node has its address, the node answers.                        *)
LEMMA OursAlone ==
    ASSUME BatchingInv, NEW c \in Active, Alone(c)
    PROVE  c \in Probing /\ Honest /\ Ours(c) /\ object[c] = 1 /\ home = "old"
  <1>1. object[c] \in {1, 2} /\ Placed(c) /\ home = "old" /\ ~misled
    BY ScenarioFacts, TypeFacts
    DEF BatchingInv, CallInv, Stages, CapacityHonest, Alone, TypeOK, Objects
  <1> QED BY <1>1 DEF Alone, Ours, Strayed, Placed

LEMMA GoalFacts ==
    ASSUME scenario \in Scenarios, NEW c \in Active
    PROVE  /\ Goal(c) \in Nat /\ scenario.device.capable \in Nat \ {0}
           /\ Goal(c) <= scenario.device.capable
           /\ Goal(c) <= Cardinality(Wanted(c) \ {Maker})
           /\ Goal(c) <= Len(scenario.wanted[c])
  <1> DEFINE m == scenario.device.capable
             n == Cardinality(Wanted(c) \ {Maker})
  <1>1. m \in Nat \ {0}
    BY ScenarioFacts DEF Devices
  <1>2. n \in Nat /\ n <= Len(scenario.wanted[c]) /\ Len(scenario.wanted[c]) \in Nat
    BY WantedFacts
  <1>3. m # NoLimit /\ n # NoLimit
    BY <1>1, <1>2, GetAssumption
  <1>4. Goal(c) = IF m < n THEN m ELSE n
    BY <1>3 DEF Goal, Smaller
  <1> HIDE DEF m, n
  <1>5. Goal(c) \in Nat /\ Goal(c) <= m /\ Goal(c) <= n
    BY <1>1, <1>2, <1>4
  <1>6. Goal(c) <= Len(scenario.wanted[c])
    BY <1>2, <1>5
  <1> QED BY <1>1, <1>5, <1>6 DEF m, n

LEMMA BeginStep ==
    ASSUME BatchingInv, NEW c \in Active, Begin(c)
    PROVE  BatchingInv'
  <1>1. /\ TypeOK /\ scenario \in Scenarios /\ c \in Calls /\ CallInv(c) /\ CapacityHonest
        /\ pc[c] = "new" /\ c \notin Unsplit /\ home # "displaced"
        /\ object' = [object EXCEPT ![c] = TableObject]
        /\ scenario' = scenario /\ home' = home /\ capacity' = capacity /\ identified' = identified
        /\ received' = received /\ losses' = losses /\ settled' = settled /\ halvings' = halvings
        /\ misled' = misled /\ address' = [address EXCEPT ![c] = KnownAddress]
    BY ScenarioFacts DEF BatchingInv, TypeOK, Begin, world
  <1>2. /\ TableObject \in Objects /\ object'[c] = TableObject
        /\ TableObject = 2 <=> home = "new"
        /\ Placed(c)'
    BY <1>1 DEF TableObject, Objects, TypeOK, KnownAddress, Placed
  <1>3. /\ settled[c] = {} /\ received[c] = {} /\ sends[c] = 0 /\ halvings[c] = 0
        /\ c \notin Unsplit => pc[c] # "asking"
    BY <1>1 DEF CallInv, Stages
  <1>4. CapacityHonest' /\ Wanted(c)' = Wanted(c) /\ Goal(c)' = Goal(c) /\ Alone(c)' = Alone(c)
    BY <1>1 DEF CapacityHonest, Honest, Wanted, Goal, Alone, Active
  <1>5. CapacityKept
    BY <1>1, CapacitySteady
  <1>6. /\ object' \in [Calls -> Objects] /\ address' \in [Calls -> {"old", "new"}]
        /\ \A d \in Calls \ {c} : object'[d] = object[d] /\ address'[d] = address[d]
    BY <1>1, <1>2 DEF TypeOK, KnownAddress
  <1>7. CASE ~identified[TableObject] /\ (c \in Probing \/ scenario.classHasPolicy)
    <2>1. /\ pc' = [pc EXCEPT ![c] = "identifying"] /\ queue' = queue /\ batch' = batch
          /\ limit' = limit /\ probeSize' = probeSize /\ sends' = sends
      BY <1>7 DEF Begin
    <2>2. TypeOK'
      BY <1>1, <1>6, <2>1 DEF TypeOK
    <2>3. StepOf(c)
      BY <1>1, <1>5, <1>6, <2>1 DEF StepOf, Same, TypeOK
    <2>4. pc'[c] = "identifying"
      BY <1>1, <2>1 DEF TypeOK
    <2>5. Stages(c)'
      BY <1>1, <1>2, <1>3, <1>4, <2>1, <2>4 DEF CallInv, Stages
    <2>6. Learns(c)' /\ ~Reading(c)'
      BY <2>4 DEF Learns, Reading
    <2>7. LearnsAlone(c)'
      BY <1>1, <1>4, <2>4 DEF LearnsAlone, CallInv, Reading
    <2>8. CallInv(c)'
      BY <2>5, <2>6, <2>7 DEF CallInv
    <2> QED BY <1>4, <2>2, <2>3, <2>8, StepKeeps
  <1>8. CASE ~(~identified[TableObject] /\ (c \in Probing \/ scenario.classHasPolicy))
    <2> DEFINE epcs == scenario.wanted[c]
    <2>1. Plan(c, epcs, NoLimit)
      BY <1>8 DEF Begin
    <2>2. epcs \in Seq(EPCs) /\ epcs # <<>> /\ IsInjective(epcs) /\ ToSet(epcs) = Wanted(c)
      BY <1>1, ScenarioFacts DEF Wanted
    <2>3. /\ capacity'[object'[c]] \in Sizes \cup {NoLimit}
          /\ identified'[object'[c]] \in BOOLEAN /\ NoLimit \in Sizes \cup {NoLimit}
      BY <1>1, <1>2 DEF TypeOK
    <2>4. scenario.hasPolicy => identified'[object'[c]]
      BY <1>1, <1>2, <1>8, ScenarioFacts
    <2> HIDE DEF epcs
    <2>5. /\ pc'[c] = "reading" /\ limit'[c] = capacity'[object'[c]]
          /\ ~scenario.hasPolicy =>
                IF limit'[c] = NoLimit /\ NoLimit = NoLimit
                THEN Len(batch'[c]) = Len(epcs) /\ queue'[c] = <<>>
                ELSE limit'[c] = NoLimit /\ Len(epcs) >= NoLimit => Len(batch'[c]) = NoLimit
      BY <1>1, <2>1, <2>2, <2>3, <2>4, PlanReads
    <2>6. /\ pc' \in [Calls -> {"new", "identifying", "reading", "asking"} \cup Ended]
          /\ queue' \in [Calls -> Seq(EPCs)] /\ batch' \in [Calls -> Seq(EPCs)]
          /\ limit' \in [Calls -> Sizes \cup {NoLimit}]
          /\ probeSize' \in [Calls -> Sizes \cup {NoLimit}]
          /\ sends' \in [Calls -> Nat]
          /\ \A d \in Calls \ {c} :
               /\ pc'[d] = pc[d] /\ queue'[d] = queue[d] /\ batch'[d] = batch[d]
               /\ limit'[d] = limit[d] /\ probeSize'[d] = probeSize[d] /\ sends'[d] = sends[d]
          /\ probeSize'[c] = NoLimit
      BY <1>1, <2>1, <2>2, <2>3, PlanTyped
    <2>7. TypeOK'
      BY <1>1, <1>6, <2>6 DEF TypeOK
    <2>8. StepOf(c)
      BY <1>1, <1>5, <1>6, <2>6 DEF StepOf, Same
    <2>9. Stages(c)' /\ (Reading(c)' => Batches(c)' /\ Probes(c)')
      <3>1. settled'[c] = {} /\ halvings'[c] = 0 /\ sends[c] = 0 /\ Cardinality({}) = 0
        BY <1>1, <1>3, FS_EmptySet
      <3>2. /\ settled'[c] \subseteq Wanted(c) /\ ToSet(epcs) = Wanted(c) \ settled'[c]
            /\ halvings'[c] \in Nat /\ ~(halvings'[c] > 0)
            /\ sends[c] <= Cardinality(settled'[c]) + halvings'[c]
        BY <2>2, <3>1
      <3>3. object'[c] \in Objects /\ Placed(c)'
        BY <1>2
      <3> QED BY <1>1, <2>1, <2>2, <2>3, <2>4, <3>1, <3>2, <3>3, PlanNext
    <2>10. Learns(c)'
      <3> SUFFICES ASSUME Honest, Ours(c)'
                   PROVE  /\ limit'[c] # NoLimit => limit'[c] <= scenario.device.capable
                          /\ Wanted(c) \cap received'[c] = settled'[c] \cap scenario.device.supported
        BY <1>1, <1>4, <2>5 DEF Learns, Honest
      <3>1. misled => TableObject = 2
        BY <1>1, <1>2 DEF Ours
      <3>2. limit'[c] # NoLimit => limit'[c] <= scenario.device.capable
        BY <1>1, <1>2, <2>5, <3>1 DEF CapacityHonest, Objects
      <3> QED BY <1>1, <1>3, <3>2
    <2>11. LearnsAlone(c)'
      <3> SUFFICES ASSUME Alone(c)
                   PROVE  /\ capacity[1] = NoLimit /\ probeSize'[c] = NoLimit
                          /\ queue'[c] = <<>> /\ Len(batch'[c]) >= Goal(c)
        BY <1>1, <1>4, <2>5 DEF LearnsAlone
      <3>1. capacity[1] = NoLimit /\ home = "old" /\ ~scenario.hasPolicy
        BY <1>1 DEF CallInv, LearnsAlone, Alone
      <3>2. limit'[c] = NoLimit
        BY <1>1, <1>2, <2>5, <3>1 DEF TableObject
      <3>3. Len(batch'[c]) = Len(epcs) /\ queue'[c] = <<>>
        BY <2>5, <3>1, <3>2
      <3>4. Goal(c) <= Len(epcs) /\ Goal(c) \in Nat /\ Len(epcs) \in Nat
        BY <1>1, GoalFacts, WantedFacts DEF epcs
      <3> QED BY <2>6, <3>1, <3>3, <3>4
    <2>12. CallInv(c)'
      BY <2>9, <2>10, <2>11 DEF CallInv
    <2> QED BY <1>4, <2>7, <2>8, <2>12, StepKeeps
  <1> QED BY <1>7, <1>8

(* Steps of c that end it, or only ask.                                     *)
LEMMA CapacityHonestSteady ==
    ASSUME CapacityHonest, scenario' = scenario, home' = home, capacity' = capacity,
           misled => misled', misled' => misled \/ home # "old"
    PROVE  CapacityHonest'
  BY DEF CapacityHonest, Honest

(* A call that stops, or one that is not split, has little to keep.         *)
LEMMA QuietStep ==
    ASSUME BatchingInv, NEW c \in Active, scenario' = scenario, home' = home,
           capacity' = capacity, identified' = identified, queue' = queue, limit' = limit,
           probeSize' = probeSize, settled' = settled, sends' = sends, halvings' = halvings,
           misled' \in BOOLEAN, misled => misled', misled' => misled \/ home # "old",
           object' \in [Calls -> Objects], address' \in [Calls -> {"old", "new"}],
           batch' \in [Calls -> Seq(EPCs)], received' \in [Calls -> SUBSET EPCs],
           \A d \in Calls \ {c} : /\ object'[d] = object[d] /\ address'[d] = address[d]
                                  /\ batch'[d] = batch[d] /\ received'[d] = received[d],
           losses' \in 0..scenario.maxLosses, losses' >= losses,
           NEW stage \in {"asking"} \cup Ended, pc' = [pc EXCEPT ![c] = stage],
           c \in Unsplit \/ stage \in {"aborted", "stopped"},
           Placed(c)'
    PROVE  BatchingInv'
  <1>1. /\ TypeOK /\ c \in Calls /\ CallInv(c) /\ CapacityHonest
    BY ScenarioFacts DEF BatchingInv, TypeOK
  <1>2. TypeOK'
    BY <1>1 DEF TypeOK, Ended
  <1>3. CapacityHonest'
    BY <1>1, CapacityHonestSteady
  <1>4. StepOf(c)
    <2>1. \A d \in Calls \ {c} : Same(d)
      BY <1>1 DEF Same, TypeOK
    <2> QED BY <1>1, <2>1, CapacitySteady DEF StepOf
  <1>5. pc'[c] = stage /\ Wanted(c)' = Wanted(c) /\ Goal(c)' = Goal(c) /\ Active' = Active
    BY <1>1 DEF TypeOK, Wanted, Goal, Active
  <1>6. Probing \cap Unsplit = {}
    BY GetAssumption
  <1>7. Stages(c)'
    <2>1. c \notin Unsplit => stage # "asking" /\ stage # "done"
      OBVIOUS
    <2> QED BY <1>1, <1>5, <2>1 DEF CallInv, Stages, Ended
  <1>8. ~Reading(c)'
    BY <1>5 DEF Reading, Ended
  <1>9. Learns(c)'
    BY <1>1, <1>5, <1>6, <1>8 DEF Learns, Ended
  <1>10. LearnsAlone(c)'
    <2>1. losses' = 0 => losses = 0
      BY <1>1 DEF TypeOK
    <2>2. Alone(c)' => Alone(c)
      BY <1>5, <2>1 DEF Alone, Honest
    <2>3. Alone(c) => (capacity[1] # NoLimit => 2 * capacity[1] > Goal(c))
      BY <1>1 DEF CallInv, LearnsAlone
    <2> QED BY <1>5, <1>8, <2>2, <2>3 DEF LearnsAlone, Ended
  <1>11. CallInv(c)'
    BY <1>7, <1>8, <1>9, <1>10 DEF CallInv
  <1> QED BY <1>2, <1>3, <1>4, <1>11, StepKeeps

LEMMA QuietSteps ==
    ASSUME BatchingInv, NEW c \in Active,
           \/ BeginUnsplit(c) \/ Unaddressed(c) \/ Unidentified(c)
           \/ AnsweredUnsplit(c) \/ Interrupted(c)
    PROVE  BatchingInv'
  <1>1. /\ TypeOK /\ scenario \in Scenarios /\ c \in Calls /\ CallInv(c)
        /\ object \in [Calls -> Objects] /\ batch \in [Calls -> Seq(EPCs)]
        /\ received \in [Calls -> SUBSET EPCs]
        /\ pc \in [Calls -> {"new", "identifying", "reading", "asking"} \cup Ended]
        /\ losses \in 0..scenario.maxLosses /\ scenario.maxLosses \in Nat
        /\ address \in [Calls -> {"old", "new"}] /\ misled \in BOOLEAN
    BY ScenarioFacts DEF BatchingInv, TypeOK
  <1>2. /\ Placed(c)
        /\ pc[c] = "asking" => c \in Unsplit
    BY <1>1 DEF CallInv, Stages
  <1>3. losses <= losses /\ losses + 1 >= losses
    BY <1>1
  <1>4. CASE BeginUnsplit(c)
    <2>1. /\ scenario' = scenario /\ home' = home /\ capacity' = capacity
          /\ identified' = identified /\ queue' = queue /\ limit' = limit
          /\ probeSize' = probeSize /\ received' = received /\ losses' = losses
          /\ settled' = settled /\ sends' = sends /\ halvings' = halvings /\ misled' = misled
          /\ c \in Unsplit /\ pc' = [pc EXCEPT ![c] = "asking"]
          /\ object' = [object EXCEPT ![c] = TableObject]
          /\ address' = [address EXCEPT ![c] = KnownAddress]
          /\ batch' = [batch EXCEPT ![c] = scenario.wanted[c]]
      BY <1>4 DEF BeginUnsplit, world, history
    <2>2. TableObject \in Objects /\ KnownAddress \in {"old", "new"}
          /\ (TableObject = 2 => home = "new" /\ KnownAddress = "new")
      BY DEF TableObject, Objects, KnownAddress
    <2>3. scenario.wanted[c] \in Seq(EPCs)
      BY <1>1, ScenarioFacts
    <2>4. /\ object' \in [Calls -> Objects] /\ batch' \in [Calls -> Seq(EPCs)]
          /\ address' \in [Calls -> {"old", "new"}]
          /\ \A d \in Calls \ {c} : /\ object'[d] = object[d] /\ batch'[d] = batch[d]
                                 /\ address'[d] = address[d]
      BY <1>1, <2>1, <2>2, <2>3
    <2>5. Placed(c)'
      BY <1>1, <2>1, <2>2 DEF Placed
    <2> QED BY <1>1, <1>3, <2>1, <2>4, <2>5, QuietStep
  <1>5. CASE Unaddressed(c)
    <2>1. /\ scenario' = scenario /\ home' = home /\ capacity' = capacity
          /\ identified' = identified /\ queue' = queue /\ limit' = limit
          /\ probeSize' = probeSize /\ received' = received /\ losses' = losses
          /\ settled' = settled /\ sends' = sends /\ halvings' = halvings /\ misled' = misled
          /\ pc' = [pc EXCEPT ![c] = "aborted"]
          /\ object' = object /\ address' = address /\ batch' = batch
      BY <1>5 DEF Unaddressed, world, history
    <2>2. "aborted" \in {"asking"} \cup Ended
      BY DEF Ended
    <2>3. Placed(c)'
      BY <1>2, <2>1 DEF Placed
    <2> QED BY <1>1, <1>2, <1>3, <2>1, <2>2, <2>3, QuietStep
  <1>6. CASE Unidentified(c)
    <2>1. /\ scenario' = scenario /\ home' = home /\ capacity' = capacity
          /\ identified' = identified /\ queue' = queue /\ limit' = limit
          /\ probeSize' = probeSize /\ received' = received
          /\ settled' = settled /\ sends' = sends /\ halvings' = halvings /\ misled' = misled
          /\ pc' = [pc EXCEPT ![c] = "aborted"]
          /\ object' = object /\ address' = address /\ batch' = batch
          /\ losses' = losses \/ (losses < scenario.maxLosses /\ losses' = losses + 1)
      BY <1>6 DEF Unidentified, world, history
    <2>2. "aborted" \in {"asking"} \cup Ended
      BY DEF Ended
    <2>3. losses' \in 0..scenario.maxLosses /\ losses' >= losses
      BY <1>1, <2>1
    <2>4. Placed(c)'
      BY <1>2, <2>1 DEF Placed
    <2> QED BY <1>1, <1>2, <2>1, <2>2, <2>3, <2>4, QuietStep
  <1>7. CASE AnsweredUnsplit(c)
    <2>1. PICK answer \in Answers(c) :
            /\ pc' = [pc EXCEPT ![c] = IF answer.matched = {} THEN "aborted" ELSE "done"]
            /\ received' = [received EXCEPT ![c] = answer.valued]
      BY <1>7 DEF AnsweredUnsplit
    <2>2. /\ scenario' = scenario /\ home' = home /\ capacity' = capacity
          /\ identified' = identified /\ queue' = queue /\ limit' = limit
          /\ probeSize' = probeSize /\ losses' = losses
          /\ settled' = settled /\ sends' = sends /\ halvings' = halvings /\ misled' = misled
          /\ object' = object /\ address' = address /\ batch' = batch /\ pc[c] = "asking"
      BY <1>7 DEF AnsweredUnsplit, world, history
    <2> DEFINE stage == IF answer.matched = {} THEN "aborted" ELSE "done"
    <2>3. stage \in {"asking"} \cup Ended
      BY DEF Ended
    <2>4. answer.valued \subseteq EPCs
      BY <1>1, AnswersFacts, ElementsOf
    <2>5. /\ received' \in [Calls -> SUBSET EPCs]
          /\ \A d \in Calls \ {c} : received'[d] = received[d]
      BY <1>1, <2>1, <2>4
    <2>6. pc' = [pc EXCEPT ![c] = stage]
      BY <2>1
    <2> HIDE DEF stage
    <2>7. Placed(c)'
      BY <1>2, <2>2 DEF Placed
    <2> QED BY <1>1, <1>2, <1>3, <2>2, <2>3, <2>5, <2>6, <2>7, QuietStep
  <1>8. CASE Interrupted(c)
    <2>1. /\ scenario' = scenario /\ home' = home /\ capacity' = capacity
          /\ identified' = identified /\ queue' = queue /\ limit' = limit
          /\ probeSize' = probeSize /\ received' = received /\ losses' = losses
          /\ settled' = settled /\ sends' = sends /\ halvings' = halvings /\ misled' = misled
          /\ pc' = [pc EXCEPT ![c] = "stopped"]
          /\ object' = object /\ address' = address /\ batch' = batch
      BY <1>8 DEF Interrupted, world, history
    <2>2. "stopped" \in {"asking"} \cup Ended
      BY DEF Ended
    <2>3. Placed(c)'
      BY <1>2, <2>1 DEF Placed
    <2> QED BY <1>1, <1>2, <1>3, <2>1, <2>2, <2>3, QuietStep
  <1> QED BY <1>4, <1>5, <1>6, <1>7, <1>8

LEMMA MoveStep ==
    ASSUME BatchingInv, Move
    PROVE  BatchingInv'
  <1>1. /\ scenario' = scenario /\ capacity' = capacity /\ identified' = identified
        /\ object' = object /\ pc' = pc /\ queue' = queue /\ batch' = batch /\ limit' = limit
        /\ probeSize' = probeSize /\ received' = received /\ losses' = losses
        /\ settled' = settled /\ sends' = sends /\ halvings' = halvings
        /\ misled' = misled /\ address' = address
        /\ home # "new" /\ home' # "old" /\ home' \in {"taken", "displaced", "new", "moved"}
    BY DEF Move, Take, Displace, Reappear, history
  <1>2. TypeOK'
    BY <1>1 DEF BatchingInv, TypeOK
  <1>3. CapacityHonest'
    BY <1>1 DEF BatchingInv, CapacityHonest, Honest
  <1>4. ASSUME NEW c \in Active PROVE CallInv(c)'
    <2>1. CallInv(c)
      BY DEF BatchingInv
    <2>2. Stages(c)'
      BY <1>1, <2>1 DEF CallInv, Stages, Wanted, Placed
    <2>3. Reading(c)' => Batches(c)' /\ Probes(c)'
      BY <1>1, <2>1 DEF CallInv, Reading, Batches, Probes, Wanted, Bound, PolicySize
    <2>4. Learns(c)'
      <3>1. address \in [Calls -> {"old", "new"}] /\ c \in Calls
        BY ScenarioFacts DEF BatchingInv, TypeOK
      <3>2. Ours(c)' => Ours(c)
        BY <1>1, <3>1 DEF Ours, Strayed
      <3> QED BY <1>1, <2>1, <3>2 DEF CallInv, Learns, Honest, Wanted, Reading
    <2>5. LearnsAlone(c)'
      BY <1>1 DEF LearnsAlone, Alone
    <2> QED BY <2>2, <2>3, <2>4, <2>5 DEF CallInv
  <1>5. Active' = Active
    BY <1>1 DEF Active
  <1> QED BY <1>2, <1>3, <1>4, <1>5 DEF BatchingInv

LEMMA IdentifyStep ==
    ASSUME BatchingInv, NEW c \in Active, Identify(c)
    PROVE  BatchingInv'
  <1> DEFINE w == scenario.wanted[c]
             epcs == Without(w, {Maker})
  <1>1. /\ TypeOK /\ scenario \in Scenarios /\ c \in Calls /\ CallInv(c) /\ CapacityHonest
        /\ pc[c] = "identifying" /\ Maker \in Answerer(c).supported
        /\ identified' = [identified EXCEPT ![object[c]] = TRUE]
        /\ received' = [received EXCEPT
             ![c] = IF c \in Probing THEN {Maker} ELSE {Maker} \cap ToSet(w)]
        /\ settled' = [settled EXCEPT ![c] = {Maker} \cap ToSet(w)]
        /\ scenario' = scenario /\ home' = home /\ capacity' = capacity /\ object' = object
        /\ losses' = losses /\ halvings' = halvings /\ misled' = misled /\ address' = address
        /\ Plan(c, epcs, NoLimit)
    BY ScenarioFacts DEF BatchingInv, TypeOK, Identify, world
  <1>2. w \in Seq(EPCs) /\ IsInjective(w) /\ ToSet(w) = Wanted(c) /\ Maker \in EPCs
    BY <1>1, ScenarioFacts, GetAssumption DEF Wanted
  <1> HIDE DEF w
  <1>3. epcs \in Seq(EPCs) /\ IsInjective(epcs) /\ ToSet(epcs) = Wanted(c) \ {Maker}
    BY <1>2, WithoutFacts
  <1> HIDE DEF epcs
  <1>4. /\ sends[c] = 0 /\ halvings[c] = 0 /\ c \notin Unsplit
        /\ Placed(c)
    BY <1>1 DEF CallInv, Stages
  <1>5. /\ settled'[c] = {Maker} \cap Wanted(c)
        /\ received'[c] = IF c \in Probing THEN {Maker} ELSE {Maker} \cap Wanted(c)
        /\ received' \in [Calls -> SUBSET EPCs] /\ settled' \in [Calls -> SUBSET EPCs]
        /\ \A d \in Calls \ {c} : received'[d] = received[d] /\ settled'[d] = settled[d]
    BY <1>1, <1>2 DEF TypeOK
  <1>6. /\ object'[c] \in Objects /\ object[c] \in Objects
        /\ capacity'[object'[c]] \in Sizes \cup {NoLimit}
        /\ NoLimit \in Sizes \cup {NoLimit}
    BY <1>1 DEF TypeOK
  <1>7. /\ identified' \in [Objects -> BOOLEAN] /\ identified'[object'[c]]
        /\ identified'[object'[c]] \in BOOLEAN
        /\ \A o \in Objects : identified[o] => identified'[o]
    BY <1>1, <1>6 DEF TypeOK
  <1>8. /\ pc' \in [Calls -> {"new", "identifying", "reading", "asking"} \cup Ended]
        /\ queue' \in [Calls -> Seq(EPCs)] /\ batch' \in [Calls -> Seq(EPCs)]
        /\ limit' \in [Calls -> Sizes \cup {NoLimit}]
        /\ probeSize' \in [Calls -> Sizes \cup {NoLimit}]
        /\ sends' \in [Calls -> Nat]
        /\ \A d \in Calls \ {c} :
             /\ pc'[d] = pc[d] /\ queue'[d] = queue[d] /\ batch'[d] = batch[d]
             /\ limit'[d] = limit[d] /\ probeSize'[d] = probeSize[d] /\ sends'[d] = sends[d]
        /\ probeSize'[c] = NoLimit
    <2>1. TypeOK /\ scenario' = scenario /\ Plan(c, epcs, NoLimit)
      BY <1>1
    <2>2. identified'[object'[c]] \in BOOLEAN
      BY <1>7
    <2> QED BY <1>3, <1>6, <2>1, <2>2, PlanTyped
  <1>9. TypeOK'
    BY <1>1, <1>5, <1>7, <1>8 DEF TypeOK
  <1>10. StepOf(c)
    BY <1>1, <1>5, <1>7, <1>8, CapacitySteady DEF StepOf, Same
  <1>11. CapacityHonest'
    BY <1>1, CapacityHonestSteady
  <1>12. Stages(c)' /\ (Reading(c)' => Batches(c)' /\ Probes(c)')
    <2>1. /\ settled'[c] \subseteq Wanted(c) /\ ToSet(epcs) = Wanted(c) \ settled'[c]
          /\ halvings'[c] \in Nat /\ ~(halvings'[c] > 0) /\ halvings'[c] = 0
      BY <1>1, <1>3, <1>4, <1>5
    <2>2. Cardinality(settled'[c]) \in Nat
      BY <1>1, <2>1, WantedFacts
    <2>3. sends[c] <= Cardinality(settled'[c]) + halvings'[c]
      BY <1>4, <2>1, <2>2
    <2>4. Placed(c)'
      BY <1>1, <1>4 DEF Placed
    <2> QED BY <1>1, <1>3, <1>4, <1>6, <1>7, <2>1, <2>3, <2>4, PlanNext
  <1>13. Wanted(c)' = Wanted(c) /\ Goal(c)' = Goal(c) /\ Alone(c)' = Alone(c)
    BY <1>1 DEF Wanted, Goal, Alone, Active, Honest
  <1>14. epcs # <<>> =>
           /\ pc'[c] = "reading" /\ limit'[c] = capacity'[object'[c]]
           /\ ~scenario.hasPolicy =>
                IF limit'[c] = NoLimit /\ NoLimit = NoLimit
                THEN Len(batch'[c]) = Len(epcs) /\ queue'[c] = <<>>
                ELSE limit'[c] = NoLimit /\ Len(epcs) >= NoLimit => Len(batch'[c]) = NoLimit
    BY <1>1, <1>3, <1>6, <1>7, PlanReads
  <1>15. epcs = <<>> => pc'[c] = "done"
    BY <1>1, PlanDone
  <1>16. Learns(c)'
    <2> SUFFICES ASSUME Honest, Ours(c)
                 PROVE  /\ Reading(c)' /\ limit'[c] # NoLimit => limit'[c] <= scenario.device.capable
                        /\ c \in Probing =>
                             Wanted(c) \cap received'[c] = settled'[c] \cap scenario.device.supported
      BY <1>1, <1>13, OursBefore DEF Learns, Honest
    <2>1. limit'[c] # NoLimit /\ Reading(c)' => limit'[c] <= scenario.device.capable
      BY <1>1, <1>14, <1>15, OursHonest DEF Reading
    <2>2. Maker \in scenario.device.supported
      BY <1>1 DEF Answerer, Ours
    <2> QED BY <1>5, <2>1, <2>2
  <1>17. LearnsAlone(c)'
    <2> SUFFICES ASSUME Alone(c)
                 PROVE  /\ capacity[1] = NoLimit /\ probeSize'[c] = NoLimit
                        /\ pc'[c] \notin {"new", "identifying"}
                        /\ Reading(c)' => queue'[c] = <<>> /\ Len(batch'[c]) >= Goal(c)
      BY <1>1, <1>13 DEF LearnsAlone, Reading
    <2>1. capacity[1] = NoLimit /\ ~scenario.hasPolicy
      BY <1>1 DEF CallInv, LearnsAlone, Alone
    <2>2. object[c] = 1
      BY OursAlone
    <2>3. ASSUME epcs # <<>> PROVE queue'[c] = <<>> /\ Len(batch'[c]) >= Goal(c)
      <3>1. Len(batch'[c]) = Len(epcs) /\ queue'[c] = <<>>
        BY <1>1, <1>14, <2>1, <2>2, <2>3
      <3>2. Len(epcs) = Cardinality(Wanted(c) \ {Maker})
        BY <1>3, ElementsCounted
      <3>3. Goal(c) <= Len(epcs) /\ Goal(c) \in Nat /\ Len(epcs) \in Nat
        BY <1>1, <1>3, <3>2, GoalFacts
      <3> QED BY <3>1, <3>3
    <2> QED BY <1>8, <1>14, <1>15, <2>1, <2>3 DEF Reading
  <1>18. CallInv(c)'
    BY <1>12, <1>16, <1>17 DEF CallInv
  <1> QED BY <1>9, <1>10, <1>11, <1>18, StepKeeps

-----------------------------------------------------------------------------
(* Reading.                                                                 *)
LEMMA ReadingFacts ==
    ASSUME BatchingInv, NEW c \in Active, Reading(c)
    PROVE  /\ TypeOK /\ scenario \in Scenarios /\ c \in Calls /\ c \notin Unsplit
           /\ CallInv(c) /\ CapacityHonest /\ Batches(c) /\ Probes(c)
           /\ batch[c] \in Seq(EPCs) /\ queue[c] \in Seq(EPCs)
           /\ IsInjective(batch[c]) /\ IsInjective(queue[c])
           /\ ToSet(batch[c]) \cap ToSet(queue[c]) = {}
           /\ ToSet(batch[c]) \cup ToSet(queue[c]) = Wanted(c) \ settled[c]
           /\ ToSet(batch[c]) # {} /\ settled[c] \subseteq Wanted(c)
           /\ object[c] \in Objects /\ Placed(c)
           /\ scenario.hasPolicy => identified[object[c]]
           /\ halvings[c] \in Nat /\ (c \notin Probing => halvings[c] = 0)
           /\ sends[c] \in Nat /\ Len(scenario.wanted[c]) \in Nat
           /\ halvings[c] > 0 => PowersOfTwo[halvings[c] - 1] < Len(scenario.wanted[c])
  <1>1. /\ TypeOK /\ CallInv(c) /\ CapacityHonest /\ scenario \in Scenarios /\ c \in Calls
        /\ Batches(c) /\ Probes(c) /\ Stages(c)
    BY ScenarioFacts DEF BatchingInv, CallInv, TypeOK
  <1>2. /\ batch[c] \in Seq(EPCs) /\ queue[c] \in Seq(EPCs) /\ object[c] \in Objects
        /\ halvings[c] \in Nat /\ sends[c] \in Nat
    BY <1>1, TypeFacts
  <1>3. /\ IsInjective(batch[c]) /\ IsInjective(queue[c])
        /\ ToSet(batch[c]) \cap ToSet(queue[c]) = {}
        /\ ToSet(batch[c]) \cup ToSet(queue[c]) = Wanted(c) \ settled[c]
        /\ ToSet(batch[c]) # {}
    BY <1>1, <1>2, ElementsOfConcat, ElementsOf DEF Batches
  <1>4. Len(scenario.wanted[c]) \in Nat
    BY <1>1, WantedFacts
  <1> QED BY <1>1, <1>2, <1>3, <1>4 DEF Stages, Reading, Batches

LEMMA BatchSize ==
    ASSUME BatchingInv, NEW c \in Active, Reading(c)
    PROVE  /\ Len(batch[c]) \in Sizes /\ Len(batch[c]) \in Nat \ {0}
           /\ Cardinality(ToSet(batch[c])) = Len(batch[c])
           /\ Len(batch[c]) <= Len(scenario.wanted[c])
           /\ limit[c] \in Limits /\ probeSize[c] \in Limits /\ Bound(c) \in Limits
           /\ Bound(c) # NoLimit => Bound(c) \in Nat \ {0} /\ Len(batch[c]) <= Bound(c)
           /\ \A m \in ((SUBSET ToSet(batch[c])) \ {{}}) :
                /\ Cardinality(m) \in Sizes
                /\ Cardinality(m) <= Len(batch[c])
                /\ Cardinality(settled[c] \cup m) \in Nat
                /\ Cardinality(settled[c] \cup m) >= Cardinality(settled[c]) + 1
           /\ Cardinality(settled[c]) \in Nat
  <1> DEFINE n == Len(batch[c])
             asked == ToSet(batch[c])
  <1>1. /\ TypeOK /\ scenario \in Scenarios /\ c \in Calls /\ Batches(c)
        /\ batch[c] \in Seq(EPCs) /\ IsInjective(batch[c]) /\ asked # {}
        /\ asked \subseteq Wanted(c) \ settled[c] /\ settled[c] \subseteq Wanted(c)
    BY ReadingFacts
  <1>2. IsFiniteSet(asked) /\ Cardinality(asked) = n /\ n \in Nat \ {0} /\ asked \subseteq EPCs
    BY <1>1, ElementsCounted, ElementsOf
  <1>3. n \in Sizes
    <2>1. Cardinality(asked) <= Cardinality(EPCs)
      BY <1>2, GetAssumption, FS_Subset
    <2> QED BY <1>2, <2>1, SizesFacts
  <1>4. n <= Len(scenario.wanted[c])
    BY <1>1, <1>2, WantedFacts
  <1>5. /\ limit[c] \in Limits /\ probeSize[c] \in Limits /\ Bound(c) \in Limits
        /\ Bound(c) \in {limit[c], probeSize[c]}
    BY <1>1, TypeFacts, SizesFacts, SmallerFacts DEF Bound
  <1>6. Bound(c) # NoLimit => Bound(c) \in Nat \ {0} /\ n <= Bound(c)
    BY <1>1, <1>5 DEF Limits, Batches
  <1>7. IsFiniteSet(settled[c]) /\ Cardinality(settled[c]) \in Nat
    BY <1>1, WantedFacts
  <1>8. ASSUME NEW m \in ((SUBSET asked) \ {{}})
        PROVE  /\ Cardinality(m) \in Sizes
               /\ Cardinality(m) <= n
               /\ Cardinality(settled[c] \cup m) \in Nat
               /\ Cardinality(settled[c] \cup m) >= Cardinality(settled[c]) + 1
    <2>1. IsFiniteSet(m) /\ Cardinality(m) <= n
      BY <1>2, FS_Subset
    <2>2. Cardinality(m) \in Nat /\ Cardinality(m) # 0
      BY <2>1, FS_CardinalityType, FS_EmptySet
    <2>3. settled[c] \cap m = {} /\ Cardinality({}) = 0
      BY <1>1, FS_EmptySet
    <2>4. Cardinality(settled[c] \cup m) =
            Cardinality(settled[c]) + Cardinality(m) - Cardinality(settled[c] \cap m)
      BY <1>7, <2>1, FS_Union
    <2>5. Cardinality(m) \in Sizes
      BY <1>2, <1>3, <2>1, <2>2, SizesFacts
    <2>6. Cardinality(settled[c] \cup m) = Cardinality(settled[c]) + Cardinality(m)
      BY <1>7, <2>2, <2>3, <2>4
    <2>7. \A x \in Nat, y \in Nat : y # 0 => x + y \in Nat /\ x + y >= x + 1
      OBVIOUS
    <2> QED BY <1>7, <2>1, <2>2, <2>5, <2>6, <2>7
  <1> QED BY <1>2, <1>3, <1>4, <1>5, <1>6, <1>7, <1>8

LEMMA LearnFacts ==
    ASSUME TypeOK, NEW c \in Calls, NEW decides, NEW k \in Sizes, Learn(c, decides, k)
    PROVE  /\ capacity' \in [Objects -> Sizes \cup {NoLimit}]
           /\ CapacityKept
           /\ decides => /\ capacity'[object[c]] # NoLimit
                         /\ capacity'[object[c]] <= k
                         /\ capacity'[object[c]] \in {capacity[object[c]], k}
           /\ ~decides => capacity' = capacity
           /\ \A o \in Objects \ {object[c]} : capacity'[o] = capacity[o]
  <1>1. object[c] \in Objects /\ capacity \in [Objects -> Sizes \cup {NoLimit}]
    BY DEF TypeOK
  <1>2. CASE ~decides
    BY <1>1, <1>2, CapacitySteady DEF Learn
  <1>3. CASE decides
    <2> DEFINE old == capacity[object[c]]
               new == Smaller(old, k)
    <2>1. old \in Sizes \cup {NoLimit}
      BY <1>1
    <2>2. old \in Limits /\ k \in Limits /\ k # NoLimit
      BY <2>1, SizesFacts
    <2>3. /\ new \in {old, k} /\ new # NoLimit /\ new <= k
          /\ old # NoLimit => new <= old
      BY <2>2, SmallerFacts
    <2> HIDE DEF new
    <2>4. capacity' = [capacity EXCEPT ![object[c]] = new]
      BY <1>3 DEF Learn, Fixed, new
    <2>5. /\ capacity' \in [Objects -> Sizes \cup {NoLimit}] /\ capacity'[object[c]] = new
          /\ \A o \in Objects \ {object[c]} : capacity'[o] = capacity[o]
      BY <1>1, <2>1, <2>3, <2>4
    <2>6. CapacityKept
      <3> SUFFICES ASSUME NEW o \in Objects, capacity[o] # NoLimit
                   PROVE  capacity'[o] # NoLimit /\ capacity'[o] <= capacity[o]
        BY DEF CapacityKept
      <3>1. CASE o = object[c]
        BY <2>3, <2>5, <3>1
      <3>2. CASE o # object[c]
        <4>1. capacity[o] \in Nat
          BY <1>1, LimitIsNumber
        <4> QED BY <2>5, <3>2, <4>1
      <3> QED BY <3>1, <3>2
    <2> QED BY <1>3, <2>3, <2>5, <2>6
  <1> QED BY <1>2, <1>3

LEMMA BoundShrinks ==
    ASSUME NEW b \in Nat \ {0}, NEW a \in Nat \ {0}, a <= b, NEW p \in Nat, NEW n \in Nat,
           (b - 1) * p < n
    PROVE  (a - 1) * p < n
  <1>1. a - 1 \in Nat /\ b - 1 \in Nat /\ a - 1 <= b - 1
    OBVIOUS
  <1>2. (a - 1) * p <= (b - 1) * p
    BY <1>1, ProductGrows
  <1>3. (a - 1) * p \in Int /\ (b - 1) * p \in Int
    OBVIOUS
  <1> QED BY <1>2, <1>3

(* A batch that was not answered is halved.                                 *)
LEMMA HalveStep ==
    ASSUME BatchingInv, NEW c \in Active, Reading(c),
           scenario' = scenario, home' = home, identified' = identified, object' = object,
           address' = address, misled' \in BOOLEAN,
           misled => misled', misled' => misled \/ home # "old",
           capacity' = capacity, received' = received, settled' = settled,
           losses' \in 0..scenario.maxLosses, losses' >= losses,
           c \in Probing, Len(batch[c]) > 1,
           Plan(c, batch[c] \o queue[c], Half(Len(batch[c]))),
           halvings' = [halvings EXCEPT ![c] = @ + 1],
           Alone(c) /\ losses' = 0 => Len(batch[c]) > scenario.device.capable
    PROVE  BatchingInv'
  <1> DEFINE n == Len(batch[c])
             half == Half(n)
             epcs == batch[c] \o queue[c]
             N == Len(scenario.wanted[c])
             h == halvings[c]
  <1>1. /\ TypeOK /\ scenario \in Scenarios /\ c \in Calls /\ c \notin Unsplit
        /\ CallInv(c) /\ CapacityHonest /\ Batches(c) /\ Probes(c)
        /\ batch[c] \in Seq(EPCs) /\ queue[c] \in Seq(EPCs)
        /\ settled[c] \subseteq Wanted(c)
        /\ object[c] \in Objects /\ Placed(c)' /\ misled \in BOOLEAN
        /\ scenario.hasPolicy => identified[object[c]]
        /\ h \in Nat /\ sends[c] \in Nat /\ N \in Nat
    BY ReadingFacts DEF Placed, TypeOK
  <1>2. /\ epcs \in Seq(EPCs) /\ IsInjective(epcs) /\ ToSet(epcs) = Wanted(c) \ settled[c]
        /\ Len(epcs) >= n /\ Len(epcs) \in Nat
    <2>1. epcs \in Seq(EPCs) /\ Len(epcs) = n + Len(queue[c])
      BY <1>1, ElementsOfConcat
    <2>2. n \in Nat /\ Len(queue[c]) \in Nat
      BY <1>1
    <2>3. Len(epcs) >= n /\ Len(epcs) \in Nat
      <3>1. \A x, y \in Nat : x + y \in Nat /\ x + y >= x
        OBVIOUS
      <3> HIDE DEF epcs, n
      <3> QED BY <2>1, <2>2, <3>1
    <2> QED BY <1>1, <2>1, <2>3 DEF Batches
  <1>3. n \in Nat /\ n > 1 /\ n \in Sizes /\ n <= N
    BY BatchSize
  <1>4. half \in Nat \ {0} /\ half < n /\ 2 * half >= n /\ 2 * (half - 1) <= n - 1
    BY <1>3, HalfFacts
  <1>5. half \in Sizes /\ half \in Sizes \cup {NoLimit} /\ half # NoLimit /\ half \in Limits
    BY <1>3, <1>4, SizesFacts
  <1>6. /\ capacity'[object'[c]] \in Sizes \cup {NoLimit} /\ identified'[object'[c]] \in BOOLEAN
        /\ capacity[object[c]] \in Limits
    BY <1>1, TypeFacts, SizesFacts
  <1>7. epcs # <<>>
    BY <1>2, <1>3
  <1> HIDE DEF n, half, epcs, N, h
  <1>8. Plan(c, epcs, half)
    BY DEF n, half, epcs
  <1>9. /\ pc' \in [Calls -> {"new", "identifying", "reading", "asking"} \cup Ended]
        /\ queue' \in [Calls -> Seq(EPCs)] /\ batch' \in [Calls -> Seq(EPCs)]
        /\ limit' \in [Calls -> Sizes \cup {NoLimit}]
        /\ probeSize' \in [Calls -> Sizes \cup {NoLimit}]
        /\ sends' \in [Calls -> Nat]
        /\ \A d \in Calls \ {c} :
             /\ pc'[d] = pc[d] /\ queue'[d] = queue[d] /\ batch'[d] = batch[d]
             /\ limit'[d] = limit[d] /\ probeSize'[d] = probeSize[d] /\ sends'[d] = sends[d]
        /\ probeSize'[c] = half
    BY <1>1, <1>2, <1>5, <1>6, <1>8, PlanTyped
  <1>10. /\ pc'[c] = "reading"
         /\ limit'[c] = capacity'[object'[c]]
         /\ ~scenario.hasPolicy =>
              IF limit'[c] = NoLimit /\ half = NoLimit
              THEN Len(batch'[c]) = Len(epcs) /\ queue'[c] = <<>>
              ELSE limit'[c] = NoLimit /\ Len(epcs) >= half => Len(batch'[c]) = half
    <2>1. scenario.hasPolicy => identified'[object'[c]]
      BY <1>1
    <2>2. TypeOK /\ scenario' = scenario
      BY <1>1
    <2> QED BY <1>2, <1>5, <1>6, <1>7, <1>8, <2>1, <2>2, PlanReads
  <1>11. /\ halvings' \in [Calls -> Nat] /\ halvings'[c] = h + 1
         /\ \A d \in Calls \ {c} : halvings'[d] = halvings[d]
    BY <1>1 DEF TypeOK, h
  <1>12. TypeOK'
    BY <1>1, <1>9, <1>11 DEF TypeOK
  <1>13. StepOf(c)
    BY <1>1, <1>9, <1>11, CapacitySteady DEF StepOf, Same
  <1>14. CapacityHonest'
    BY <1>1, CapacityHonestSteady
  <1>15. Stages(c)' /\ (Reading(c)' => Batches(c)' /\ Probes(c)')
    <2> DEFINE b == Smaller(capacity'[object'[c]], half)
    <2>1. b \in Limits /\ b # NoLimit /\ b <= half
      BY <1>5, <1>6, SmallerFacts
    <2>2. b \in Nat \ {0}
      BY <2>1 DEF Limits
    <2> HIDE DEF b
    <2>3. 2 * (b - 1) <= n - 1 /\ b - 1 \in Nat /\ n - 1 \in Nat
      BY <1>3, <1>4, <2>1, <2>2
    <2>4. /\ PowersOfTwo[h] \in Nat \ {0} /\ PowersOfTwo[h + 1] = 2 * PowersOfTwo[h]
          /\ PowersOfTwo[0] = 1
      BY <1>1, PowersOfTwoFacts DEF h
    <2>5. (n - 1) * PowersOfTwo[h] < N
      <3>1. CASE h = 0
        BY <1>1, <1>3, <2>4, <3>1 DEF N
      <3>2. CASE h > 0
        <4>1. /\ Bound(c) # NoLimit /\ (Bound(c) - 1) * PowersOfTwo[h] < N
          BY <1>1, <3>2 DEF Probes, h, N
        <4>2. Bound(c) \in Nat \ {0} /\ n <= Bound(c)
          BY <4>1, BatchSize DEF n
        <4>3. n \in Nat \ {0} /\ PowersOfTwo[h] \in Nat /\ N \in Nat
          BY <1>1, <1>3, <2>4 DEF N
        <4> QED BY <4>1, <4>2, <4>3, BoundShrinks
      <3> QED BY <1>1, <3>1, <3>2 DEF h
    <2>6. (b - 1) * PowersOfTwo[h + 1] < N
      <3> DEFINE p == PowersOfTwo[h]
                 a == b - 1
                 k == n - 1
      <3>1. a \in Nat /\ k \in Nat /\ p \in Nat /\ 2 * a <= k /\ k * p < N /\ PowersOfTwo[h + 1] = 2 * p
        BY <2>3, <2>4, <2>5
      <3> HIDE DEF p, a, k
      <3>2. a * (2 * p) <= k * p
        BY <3>1, HalvedProduct
      <3>3. a * (2 * p) \in Int /\ k * p \in Int /\ N \in Int
        BY <1>1, <3>1 DEF N
      <3>4. a * (2 * p) < N
        BY <3>1, <3>2, <3>3
      <3>5. a * PowersOfTwo[h + 1] < N
        BY <3>1, <3>4
      <3> QED BY <3>5 DEF a
    <2>7. PowersOfTwo[h] < N
      <3>1. 1 <= n - 1
        BY <1>3
      <3>2. 1 * PowersOfTwo[h] <= (n - 1) * PowersOfTwo[h]
        BY <2>3, <2>4, <3>1, ProductGrows
      <3>3. 1 * PowersOfTwo[h] = PowersOfTwo[h] /\ (n - 1) * PowersOfTwo[h] \in Int /\ N \in Int
        BY <1>1, <2>3, <2>4 DEF N
      <3> QED BY <2>4, <2>5, <3>2, <3>3
    <2>8. (h + 1) - 1 = h /\ h + 1 \in Nat /\ h \in Nat
      BY <1>1 DEF h
    <2>9. sends[c] <= Cardinality(settled[c]) + h + 1
      BY <1>1 DEF Probes, h
    <2>10. sends[c] <= Cardinality(settled'[c]) + halvings'[c]
      <3>1. Cardinality(settled[c]) \in Nat
        BY BatchSize
      <3> QED BY <1>1, <1>11, <2>8, <2>9, <3>1
    <2>11. /\ PowersOfTwo[halvings'[c] - 1] < N
           /\ b # NoLimit /\ (b - 1) * PowersOfTwo[halvings'[c]] < N
      BY <1>11, <2>1, <2>6, <2>7, <2>8
    <2>12. /\ settled'[c] \subseteq Wanted(c) /\ ToSet(epcs) = Wanted(c) \ settled'[c]
           /\ halvings'[c] \in Nat /\ object'[c] \in Objects /\ Placed(c)'
           /\ scenario.hasPolicy => identified'[object'[c]]
      BY <1>1, <1>2, <1>11, <2>8
    <2> QED BY <1>1, <1>2, <1>5, <1>6, <1>8, <2>10, <2>11, <2>12, PlanNext DEF b, N
  <1>16. Wanted(c)' = Wanted(c) /\ Goal(c)' = Goal(c) /\ (Alone(c)' => Alone(c))
    BY <1>1 DEF Wanted, Goal, Alone, Active, Honest, TypeOK
  <1>17. Learns(c)'
    <2> SUFFICES ASSUME Honest, Ours(c)
                 PROVE  /\ limit'[c] # NoLimit => limit'[c] <= scenario.device.capable
                        /\ Wanted(c) \cap received[c] = settled[c] \cap scenario.device.supported
      BY <1>10, <1>16, OursBefore DEF Learns, Honest
    <2> QED BY <1>1, <1>10, OursHonest DEF CallInv, Learns, Reading
  <1>18. LearnsAlone(c)'
    <2> SUFFICES ASSUME Alone(c), losses' = 0
                 PROVE  /\ capacity[1] = NoLimit /\ probeSize'[c] # NoLimit
                        /\ Len(batch'[c]) = probeSize'[c] /\ 2 * probeSize'[c] > Goal(c)
      BY <1>10, <1>16 DEF LearnsAlone, Alone
    <2>1. Honest /\ Ours(c) /\ object[c] = 1 /\ ~scenario.hasPolicy
      BY OursAlone DEF Alone
    <2>2. n > scenario.device.capable /\ scenario.device.capable \in Nat
      BY <1>1, <2>1, GoalFacts DEF n
    <2>3. limit[c] = NoLimit
      <3> SUFFICES ASSUME limit[c] # NoLimit PROVE FALSE
        OBVIOUS
      <3>1. limit[c] <= scenario.device.capable
        BY <1>1, <2>1 DEF CallInv, Learns
      <3>2. n <= limit[c]
        BY <1>1 DEF Batches, n
      <3>3. limit[c] \in Nat
        BY BatchSize DEF Limits
      <3> QED BY <1>3, <2>2, <3>1, <3>2, <3>3
    <2>4. capacity[1] = NoLimit
      BY <1>1, <2>3 DEF CallInv, LearnsAlone
    <2>6. limit'[c] = NoLimit
      BY <1>1, <1>10, <2>1, <2>4
    <2>7. Len(batch'[c]) = half
      <3>1. Len(epcs) >= half
        BY <1>2, <1>3, <1>4
      <3> QED BY <1>5, <1>10, <2>1, <2>6, <3>1
    <2>8. Goal(c) <= scenario.device.capable /\ Goal(c) \in Nat
      BY <1>1, GoalFacts
    <2>9. 2 * half > Goal(c)
      BY <1>3, <1>4, <2>2, <2>8
    <2> QED BY <1>5, <1>9, <2>4, <2>7, <2>9
  <1>19. CallInv(c)'
    BY <1>15, <1>17, <1>18 DEF CallInv
  <1> QED BY <1>12, <1>13, <1>14, <1>19, StepKeeps

(* A response that leaves out some EPCs of the batch.                       *)
LEMMA PartialStep ==
    ASSUME BatchingInv, NEW c \in Active, Reading(c),
           scenario' = scenario, home' = home, identified' = identified, object' = object,
           address' = address, misled' \in BOOLEAN,
           misled => misled', misled' => misled \/ home # "old",
           c \in Probing /\ Strayed(c) => misled',
           losses' = losses, NEW answer \in Answers(c),
           answer.matched # {}, answer.matched # ToSet(batch[c]),
           received' = [received EXCEPT ![c] = @ \cup answer.valued],
           settled' = [settled EXCEPT ![c] = @ \cup answer.matched],
           halvings' = halvings, Partial(c, answer.matched)
    PROVE  BatchingInv'
  <1> DEFINE n == Len(batch[c])
             matched == answer.matched
             k == Cardinality(matched)
             left == Without(batch[c], matched)
             epcs == left \o queue[c]
             probing == IF c \in Probing THEN NoLimit ELSE probeSize[c]
             N == Len(scenario.wanted[c])
             h == halvings[c]
  <1>1. /\ TypeOK /\ scenario \in Scenarios /\ c \in Calls /\ c \notin Unsplit
        /\ CallInv(c) /\ CapacityHonest /\ Batches(c) /\ Probes(c)
        /\ batch[c] \in Seq(EPCs) /\ queue[c] \in Seq(EPCs)
        /\ IsInjective(batch[c]) /\ IsInjective(queue[c])
        /\ ToSet(batch[c]) \cap ToSet(queue[c]) = {}
        /\ ToSet(batch[c]) \cup ToSet(queue[c]) = Wanted(c) \ settled[c]
        /\ settled[c] \subseteq Wanted(c)
        /\ object[c] \in Objects /\ Placed(c)' /\ misled \in BOOLEAN
        /\ scenario.hasPolicy => identified[object[c]]
        /\ h \in Nat /\ (c \notin Probing => h = 0)
        /\ sends[c] \in Nat /\ N \in Nat
        /\ h > 0 => PowersOfTwo[h - 1] < N
    BY ReadingFacts DEF Placed, TypeOK
  <1>2. /\ matched \subseteq ToSet(batch[c]) /\ answer.valued \subseteq matched
        /\ ToSet(batch[c]) \subseteq EPCs
    BY <1>1, AnswersFacts, ElementsOf
  <1>3. left \in Seq(EPCs) /\ IsInjective(left) /\ ToSet(left) = ToSet(batch[c]) \ matched
    BY <1>1, WithoutFacts
  <1>4. /\ epcs \in Seq(EPCs) /\ IsInjective(epcs)
        /\ ToSet(epcs) = ToSet(left) \cup ToSet(queue[c])
    <2> HIDE DEF left
    <2> QED BY <1>1, <1>3, ElementsOfConcat
  <1>5. Learn(c, c \in Probing, k) /\ Plan(c, epcs, probing)
    BY DEF Partial
  <1>6. /\ matched \in (SUBSET ToSet(batch[c])) \ {{}}
        /\ settled[c] \cup matched \subseteq Wanted(c)
        /\ (settled \in [Calls -> SUBSET EPCs]) /\ (received \in [Calls -> SUBSET EPCs])
    BY <1>1, <1>2 DEF TypeOK
  <1>7. /\ k \in Sizes /\ k <= n /\ n \in Nat \ {0} /\ k \in Nat \ {0}
        /\ Cardinality(settled[c]) \in Nat /\ Cardinality(settled[c] \cup matched) \in Nat
        /\ Cardinality(settled[c] \cup matched) >= Cardinality(settled[c]) + 1
        /\ Bound(c) # NoLimit => Bound(c) \in Nat \ {0} /\ n <= Bound(c)
    BY <1>6, BatchSize, SizesFacts
  <1> HIDE DEF n, k, matched, left, epcs, N, h
  <1>8. /\ settled' \in [Calls -> SUBSET EPCs] /\ settled'[c] = settled[c] \cup matched
        /\ received' \in [Calls -> SUBSET EPCs] /\ received'[c] = received[c] \cup answer.valued
        /\ \A d \in Calls \ {c} : received'[d] = received[d] /\ settled'[d] = settled[d]
    BY <1>1, <1>2, <1>6 DEF matched
  <1>9. /\ ToSet(epcs) = Wanted(c) \ settled'[c] /\ epcs # <<>>
    <2>1. ToSet(epcs) = Wanted(c) \ settled'[c]
      BY <1>1, <1>2, <1>3, <1>4, <1>8
    <2>2. ToSet(epcs) # {}
      BY <1>2, <1>3, <1>4 DEF matched
    <2> QED BY <1>4, <2>1, <2>2, EmptySequence
  <1>10. /\ capacity' \in [Objects -> Sizes \cup {NoLimit}] /\ CapacityKept
         /\ c \in Probing => /\ capacity'[object[c]] # NoLimit
                             /\ capacity'[object[c]] <= k
                             /\ capacity'[object[c]] \in {capacity[object[c]], k}
         /\ c \notin Probing => capacity' = capacity
         /\ \A o \in Objects \ {object[c]} : capacity'[o] = capacity[o]
    <2> DEFINE decides == c \in Probing
    <2>1. TypeOK /\ c \in Calls /\ Learn(c, decides, k) /\ k \in Sizes
      BY <1>1, <1>5, <1>7
    <2> HIDE DEF decides
    <2>2. /\ capacity' \in [Objects -> Sizes \cup {NoLimit}] /\ CapacityKept
          /\ decides => /\ capacity'[object[c]] # NoLimit
                        /\ capacity'[object[c]] <= k
                        /\ capacity'[object[c]] \in {capacity[object[c]], k}
          /\ ~decides => capacity' = capacity
          /\ \A o \in Objects \ {object[c]} : capacity'[o] = capacity[o]
      BY <2>1, LearnFacts
    <2> QED BY <2>2 DEF decides
  <1>11. /\ capacity'[object'[c]] \in Sizes \cup {NoLimit} /\ identified'[object'[c]] \in BOOLEAN
         /\ probing \in Sizes \cup {NoLimit} /\ (c \in Probing => probing = NoLimit)
    <2>1. capacity'[object'[c]] \in Sizes \cup {NoLimit}
      BY <1>1, <1>10
    <2>2. identified'[object'[c]] \in BOOLEAN /\ probing \in Sizes \cup {NoLimit}
      BY <1>1, TypeFacts
    <2> QED BY <2>1, <2>2
  <1> HIDE DEF probing
  <1>12. /\ pc' \in [Calls -> {"new", "identifying", "reading", "asking"} \cup Ended]
         /\ queue' \in [Calls -> Seq(EPCs)] /\ batch' \in [Calls -> Seq(EPCs)]
         /\ limit' \in [Calls -> Sizes \cup {NoLimit}]
         /\ probeSize' \in [Calls -> Sizes \cup {NoLimit}]
         /\ sends' \in [Calls -> Nat]
         /\ \A d \in Calls \ {c} :
              /\ pc'[d] = pc[d] /\ queue'[d] = queue[d] /\ batch'[d] = batch[d]
              /\ limit'[d] = limit[d] /\ probeSize'[d] = probeSize[d] /\ sends'[d] = sends[d]
         /\ probeSize'[c] = probing
    BY <1>1, <1>4, <1>5, <1>11, PlanTyped
  <1>13. scenario.hasPolicy => identified'[object'[c]]
    BY <1>1
  <1>14. pc'[c] = "reading" /\ limit'[c] = capacity'[object'[c]]
    <2>1. TypeOK /\ scenario' = scenario
      BY <1>1
    <2> QED BY <1>4, <1>5, <1>9, <1>11, <1>13, <2>1, PlanReads
  <1>15. TypeOK'
    BY <1>1, <1>8, <1>10, <1>12 DEF TypeOK
  <1>16. StepOf(c)
    BY <1>1, <1>8, <1>10, <1>12 DEF StepOf, Same
  <1>17. Stages(c)' /\ (Reading(c)' => Batches(c)' /\ Probes(c)')
    <2> DEFINE b == Smaller(capacity'[object'[c]], probing)
    <2>1. ASSUME h > 0
          PROVE  PowersOfTwo[h - 1] < N /\ b # NoLimit /\ (b - 1) * PowersOfTwo[h] < N
      <3>1. c \in Probing /\ PowersOfTwo[h - 1] < N
        BY <1>1, <2>1
      <3>2. b = capacity'[object[c]] /\ b # NoLimit /\ b <= k /\ b \in Sizes \cup {NoLimit}
        BY <1>1, <1>10, <1>11, <3>1 DEF Smaller
      <3> HIDE DEF b
      <3>3. Bound(c) # NoLimit /\ (Bound(c) - 1) * PowersOfTwo[h] < N
        BY <1>1, <2>1 DEF Probes, h, N
      <3>4. b \in Nat \ {0} /\ Bound(c) \in Nat \ {0} /\ b <= Bound(c)
        <4>1. b \in Nat \ {0} /\ Bound(c) \in Nat \ {0} /\ n <= Bound(c)
          BY <1>7, <3>2, <3>3, LimitIsNumber
        <4> QED BY <1>7, <3>2, <4>1
      <3>5. PowersOfTwo[h] \in Nat
        BY <1>1, PowersOfTwoFacts
      <3>6. (b - 1) * PowersOfTwo[h] < N
        BY <1>1, <3>3, <3>4, <3>5, BoundShrinks
      <3> QED BY <3>1, <3>2, <3>6
    <2> HIDE DEF b
    <2>2. sends[c] <= Cardinality(settled[c]) + h + 1
      BY <1>1 DEF Probes, h
    <2>3. halvings'[c] = h
      BY DEF h
    <2>4. sends[c] <= Cardinality(settled'[c]) + halvings'[c]
      <3>1. \A x, y, z, r \in Nat : r <= x + z + 1 /\ y >= x + 1 => r <= y + z
        OBVIOUS
      <3> QED BY <1>1, <1>7, <1>8, <2>2, <2>3, <3>1
    <2>5. /\ settled'[c] \subseteq Wanted(c) /\ halvings'[c] \in Nat
          /\ (c \notin Probing => halvings'[c] = 0)
          /\ object'[c] \in Objects /\ Placed(c)'
      BY <1>1, <1>6, <1>8, <2>3
    <2> QED BY <1>1, <1>4, <1>5, <1>9, <1>11, <1>13, <2>1, <2>3, <2>4, <2>5, PlanNext DEF b, N
  <1>18. Wanted(c)' = Wanted(c) /\ Goal(c)' = Goal(c) /\ Alone(c)' = Alone(c)
    BY <1>1 DEF Wanted, Goal, Alone, Active, Honest
  <1>19. scenario.device.capable \in Nat \ {0} /\ Goal(c) \in Nat /\ Goal(c) <= scenario.device.capable
    BY <1>1, GoalFacts
  <1>20. ASSUME Honest, Ours(c)
         PROVE  /\ answer.valued = matched \cap scenario.device.supported
                /\ k = scenario.device.capable
    <2>1. /\ n <= scenario.device.capable => matched = ToSet(batch[c])
          /\ n <= scenario.device.capable \/ matched # ToSet(batch[c]) =>
               answer.valued = matched \cap scenario.device.supported
          /\ n > scenario.device.capable /\ matched # {} /\ matched # ToSet(batch[c]) =>
               k = scenario.device.capable
      BY <1>1, <1>20, HonestAnswers DEF n, k, matched
    <2>2. matched # {} /\ matched # ToSet(batch[c])
      BY DEF matched
    <2>3. n > scenario.device.capable
      BY <1>7, <1>19, <2>1, <2>2
    <2> QED BY <2>1, <2>2, <2>3
  <1>21. ASSUME Honest, Ours(c), capacity'[object[c]] # NoLimit
         PROVE  capacity'[object[c]] <= scenario.device.capable
    <2>1. CASE capacity'[object[c]] = capacity[object[c]]
      BY <1>21, <2>1, OursHonest
    <2>2. CASE capacity'[object[c]] = k
      BY <1>19, <1>20, <1>21, <2>2
    <2> QED BY <1>10, <2>1, <2>2
  <1>22. CapacityHonest'
    <2>1. misled' => home' # "old"
      BY <1>1 DEF CapacityHonest
    <2>2. ASSUME Honest, NEW o \in Objects, o = 1 => ~misled', capacity'[o] # NoLimit
          PROVE  capacity'[o] <= scenario.device.capable
      <3>1. CASE capacity' = capacity
        BY <1>1, <2>2, <3>1 DEF CapacityHonest, Objects
      <3>2. CASE o = object[c] /\ c \in Probing
        <4>1. ~Strayed(c)
          BY <1>1, <2>2, <3>2 DEF Strayed, Placed, Objects
        <4>2. Ours(c)
          BY <2>2, <3>2, <4>1 DEF Ours, Objects
        <4> QED BY <1>21, <2>2, <3>2, <4>2
      <3>3. CASE o # object[c]
        BY <1>1, <1>10, <2>2, <3>3 DEF CapacityHonest, Objects
      <3> QED BY <1>10, <3>1, <3>2, <3>3
    <2> QED BY <2>1, <2>2 DEF CapacityHonest, Honest, Objects
  <1>23. Learns(c)'
    <2> SUFFICES ASSUME Honest, Ours(c)
                 PROVE  /\ limit'[c] # NoLimit => limit'[c] <= scenario.device.capable
                        /\ c \in Probing =>
                             Wanted(c) \cap received'[c] = settled'[c] \cap scenario.device.supported
      BY <1>14, <1>18, OursBefore DEF Learns, Honest
    <2>1. c \in Probing => Wanted(c) \cap received[c] = settled[c] \cap scenario.device.supported
      BY <1>1 DEF CallInv, Learns, Reading
    <2>2. answer.valued = matched \cap scenario.device.supported /\ matched \subseteq Wanted(c)
      BY <1>6, <1>20
    <2> QED BY <1>8, <1>14, <1>21, <2>1, <2>2
  <1>24. LearnsAlone(c)'
    <2> SUFFICES ASSUME Alone(c)
                 PROVE  /\ 2 * capacity'[1] > Goal(c) /\ capacity'[1] # NoLimit
                        /\ probeSize'[c] = NoLimit /\ limit'[c] # NoLimit
      BY <1>14, <1>18 DEF LearnsAlone
    <2>1. c \in Probing /\ Honest /\ Ours(c) /\ object[c] = 1
      BY OursAlone
    <2>2. capacity[1] # NoLimit => 2 * capacity[1] > Goal(c)
      BY <1>1 DEF CallInv, LearnsAlone
    <2>3. k = scenario.device.capable
      BY <1>20, <2>1
    <2>4. 2 * k > Goal(c)
      BY <1>19, <2>3
    <2> QED BY <1>10, <1>11, <1>12, <1>14, <2>1, <2>2, <2>4
  <1>25. CallInv(c)'
    BY <1>17, <1>23, <1>24 DEF CallInv
  <1> QED BY <1>15, <1>16, <1>22, <1>25, StepKeeps

(* A response with every EPC of the batch.                                  *)
LEMMA CompleteStep ==
    ASSUME BatchingInv, NEW c \in Active, Reading(c),
           scenario' = scenario, home' = home, identified' = identified, object' = object,
           address' = address, misled' \in BOOLEAN,
           misled => misled', misled' => misled \/ home # "old",
           c \in Probing /\ Strayed(c) => misled',
           losses' = losses, NEW answer \in Answers(c),
           answer.matched = ToSet(batch[c]), ~Overloaded(c, answer),
           received' = [received EXCEPT ![c] = @ \cup answer.valued],
           settled' = [settled EXCEPT ![c] = @ \cup answer.matched],
           halvings' = halvings, Complete(c)
    PROVE  BatchingInv'
  <1> DEFINE n == Len(batch[c])
             asked == ToSet(batch[c])
             fixes == /\ c \in Probing
                      /\ \/ probeSize[c] # NoLimit
                         \/ limit[c] = NoLimit /\ n > 1
             epcs == queue[c]
             probing == IF fixes THEN NoLimit ELSE probeSize[c]
             N == Len(scenario.wanted[c])
             h == halvings[c]
  <1>1. /\ TypeOK /\ scenario \in Scenarios /\ c \in Calls /\ c \notin Unsplit
        /\ CallInv(c) /\ CapacityHonest /\ Batches(c) /\ Probes(c)
        /\ batch[c] \in Seq(EPCs) /\ epcs \in Seq(EPCs)
        /\ IsInjective(batch[c]) /\ IsInjective(epcs)
        /\ asked \cap ToSet(epcs) = {} /\ asked # {}
        /\ asked \cup ToSet(epcs) = Wanted(c) \ settled[c]
        /\ settled[c] \subseteq Wanted(c)
        /\ object[c] \in Objects /\ Placed(c)' /\ misled \in BOOLEAN
        /\ scenario.hasPolicy => identified[object[c]]
        /\ h \in Nat /\ (c \notin Probing => h = 0)
        /\ sends[c] \in Nat /\ N \in Nat
        /\ h > 0 => PowersOfTwo[h - 1] < N
    BY ReadingFacts DEF Placed, TypeOK
  <1>2. answer.valued \subseteq asked /\ asked \subseteq EPCs
    BY <1>1, AnswersFacts, ElementsOf
  <1>3. Learn(c, fixes, n) /\ Plan(c, epcs, probing)
    BY DEF Complete
  <1>4. /\ asked \in (SUBSET ToSet(batch[c])) \ {{}}
        /\ settled[c] \cup asked \subseteq Wanted(c)
        /\ (settled \in [Calls -> SUBSET EPCs]) /\ (received \in [Calls -> SUBSET EPCs])
    BY <1>1, <1>2 DEF TypeOK
  <1>5. /\ n \in Sizes /\ n \in Nat \ {0}
        /\ Cardinality(settled[c]) \in Nat /\ Cardinality(settled[c] \cup asked) \in Nat
        /\ Cardinality(settled[c] \cup asked) >= Cardinality(settled[c]) + 1
        /\ limit[c] \in Limits /\ probeSize[c] \in Limits /\ Bound(c) \in Limits
        /\ Bound(c) # NoLimit => Bound(c) \in Nat \ {0} /\ n <= Bound(c)
    BY <1>4, BatchSize
  <1> HIDE DEF n, asked, epcs, N, h
  <1>6. /\ settled' \in [Calls -> SUBSET EPCs] /\ settled'[c] = settled[c] \cup asked
        /\ received' \in [Calls -> SUBSET EPCs] /\ received'[c] = received[c] \cup answer.valued
        /\ \A d \in Calls \ {c} : received'[d] = received[d] /\ settled'[d] = settled[d]
    BY <1>1, <1>2, <1>4 DEF asked
  <1>7. ToSet(epcs) = Wanted(c) \ settled'[c]
    BY <1>1, <1>6
  <1> HIDE DEF fixes
  <1>8. /\ capacity' \in [Objects -> Sizes \cup {NoLimit}] /\ CapacityKept
        /\ fixes => /\ capacity'[object[c]] # NoLimit
                    /\ capacity'[object[c]] <= n
                    /\ capacity'[object[c]] \in {capacity[object[c]], n}
        /\ ~fixes => capacity' = capacity
        /\ \A o \in Objects \ {object[c]} : capacity'[o] = capacity[o]
    BY <1>1, <1>3, <1>5, LearnFacts
  <1>9. /\ capacity'[object'[c]] \in Sizes \cup {NoLimit} /\ identified'[object'[c]] \in BOOLEAN
        /\ probing \in Sizes \cup {NoLimit}
        /\ (fixes => probing = NoLimit) /\ (~fixes => probing = probeSize[c])
    <2>1. capacity'[object'[c]] \in Sizes \cup {NoLimit}
      BY <1>1, <1>8
    <2>2. identified'[object'[c]] \in BOOLEAN /\ probeSize[c] \in Sizes \cup {NoLimit}
      BY <1>1, TypeFacts
    <2> QED BY <2>1, <2>2
  <1> HIDE DEF probing
  <1>10. /\ pc' \in [Calls -> {"new", "identifying", "reading", "asking"} \cup Ended]
         /\ queue' \in [Calls -> Seq(EPCs)] /\ batch' \in [Calls -> Seq(EPCs)]
         /\ limit' \in [Calls -> Sizes \cup {NoLimit}]
         /\ probeSize' \in [Calls -> Sizes \cup {NoLimit}]
         /\ sends' \in [Calls -> Nat]
         /\ \A d \in Calls \ {c} :
              /\ pc'[d] = pc[d] /\ queue'[d] = queue[d] /\ batch'[d] = batch[d]
              /\ limit'[d] = limit[d] /\ probeSize'[d] = probeSize[d] /\ sends'[d] = sends[d]
         /\ probeSize'[c] = probing
    BY <1>1, <1>3, <1>9, PlanTyped
  <1>11. scenario.hasPolicy => identified'[object'[c]]
    BY <1>1
  <1>12. epcs # <<>> => pc'[c] = "reading" /\ limit'[c] = capacity'[object'[c]]
    <2>1. TypeOK /\ scenario' = scenario /\ epcs \in Seq(EPCs) /\ IsInjective(epcs)
      BY <1>1
    <2> QED BY <1>3, <1>9, <1>11, <2>1, PlanReads
  <1>13. epcs = <<>> => pc'[c] = "done"
    BY <1>1, <1>3, PlanDone
  <1>14. TypeOK'
    BY <1>1, <1>6, <1>8, <1>10 DEF TypeOK
  <1>15. StepOf(c)
    BY <1>1, <1>6, <1>8, <1>10 DEF StepOf, Same
  <1>16. Stages(c)' /\ (Reading(c)' => Batches(c)' /\ Probes(c)')
    <2> DEFINE b == Smaller(capacity'[object'[c]], probing)
    <2>1. ASSUME h > 0
          PROVE  PowersOfTwo[h - 1] < N /\ b # NoLimit /\ (b - 1) * PowersOfTwo[h] < N
      <3>1. PowersOfTwo[h - 1] < N
        BY <1>1, <2>1
      <3>2. Bound(c) # NoLimit /\ (Bound(c) - 1) * PowersOfTwo[h] < N
        BY <1>1, <2>1 DEF Probes, h, N
      <3>3. Bound(c) \in Nat \ {0} /\ n <= Bound(c)
        BY <1>5, <3>2
      <3>4. /\ b \in Limits
            /\ b = NoLimit <=> capacity'[object'[c]] = NoLimit /\ probing = NoLimit
            /\ capacity'[object'[c]] # NoLimit => b <= capacity'[object'[c]]
            /\ probing # NoLimit => b <= probing
        BY <1>9, SizesFacts, SmallerFacts
      <3>5. b # NoLimit /\ b <= Bound(c)
        <4>1. CASE fixes
          <5>1. b = capacity'[object[c]] /\ b # NoLimit /\ b <= n
            BY <1>8, <1>9, <4>1 DEF Smaller
          <5>2. b \in Nat
            BY <3>4, <5>1 DEF Limits
          <5> HIDE DEF b
          <5> QED BY <1>5, <3>3, <5>1, <5>2
        <4>2. CASE ~fixes
          <5>1. capacity' = capacity /\ probing = probeSize[c]
            BY <1>8, <1>9, <4>2
          <5>2. limit[c] # NoLimit => capacity[object[c]] # NoLimit /\ capacity[object[c]] <= limit[c]
            BY <1>1 DEF Batches
          <5>3. Bound(c) \in {limit[c], probeSize[c]}
            BY <1>5, SmallerFacts DEF Bound
          <5> HIDE DEF b
          <5>4. CASE Bound(c) = probeSize[c]
            BY <3>2, <3>4, <5>1, <5>4
          <5>5. CASE Bound(c) = limit[c]
            <6>1. /\ capacity[object[c]] # NoLimit /\ capacity[object[c]] <= limit[c]
                  /\ b <= capacity[object[c]] /\ b # NoLimit
              BY <3>2, <3>4, <5>1, <5>2, <5>5
            <6>2. capacity[object[c]] \in Nat /\ b \in Nat /\ limit[c] \in Nat
              BY <1>1, <3>3, <3>4, <5>5, <6>1, TypeFacts, LimitIsNumber DEF Limits
            <6> QED BY <5>5, <6>1, <6>2
          <5> QED BY <5>3, <5>4, <5>5
        <4> QED BY <4>1, <4>2
      <3> HIDE DEF b
      <3>6. b \in Nat \ {0} /\ PowersOfTwo[h] \in Nat
        BY <1>1, <3>4, <3>5, PowersOfTwoFacts DEF Limits
      <3>7. (b - 1) * PowersOfTwo[h] < N
        BY <1>1, <3>2, <3>3, <3>5, <3>6, BoundShrinks
      <3> QED BY <3>1, <3>5, <3>7
    <2> HIDE DEF b
    <2>2. sends[c] <= Cardinality(settled[c]) + h + 1
      BY <1>1 DEF Probes, h
    <2>3. halvings'[c] = h
      BY DEF h
    <2>4. sends[c] <= Cardinality(settled'[c]) + halvings'[c]
      <3>1. \A x, y, z, r \in Nat : r <= x + z + 1 /\ y >= x + 1 => r <= y + z
        OBVIOUS
      <3> QED BY <1>1, <1>5, <1>6, <2>2, <2>3, <3>1
    <2>5. /\ settled'[c] \subseteq Wanted(c) /\ halvings'[c] \in Nat
          /\ (c \notin Probing => halvings'[c] = 0)
          /\ object'[c] \in Objects /\ Placed(c)'
      BY <1>1, <1>4, <1>6, <2>3
    <2> QED BY <1>1, <1>3, <1>7, <1>9, <1>11, <2>1, <2>3, <2>4, <2>5, PlanNext DEF b, N
  <1>17. Wanted(c)' = Wanted(c) /\ Goal(c)' = Goal(c) /\ Alone(c)' = Alone(c)
    BY <1>1 DEF Wanted, Goal, Alone, Active, Honest
  <1>18. /\ scenario.device.capable \in Nat \ {0} /\ Goal(c) \in Nat
         /\ Goal(c) <= scenario.device.capable /\ Goal(c) <= N
    BY <1>1, GoalFacts DEF N
  <1>19. ASSUME Honest, Ours(c), c \in Probing
         PROVE  /\ n <= scenario.device.capable
                /\ answer.valued = asked \cap scenario.device.supported
    <2>1. /\ n <= scenario.device.capable => answer.valued = asked \cap scenario.device.supported
          /\ n > scenario.device.capable => answer.valued = {}
      BY <1>1, <1>19, HonestAnswers DEF n, asked
    <2>2. ASSUME n > scenario.device.capable PROVE FALSE
      <3>1. answer.valued = {} /\ n > 1
        BY <1>5, <1>18, <2>1, <2>2
      <3>2. limit[c] # NoLimit
        BY <1>19, <3>1 DEF Overloaded, n
      <3>3. limit[c] <= scenario.device.capable
        BY <1>1, <1>19, <3>2 DEF CallInv, Learns
      <3>4. n <= limit[c] /\ limit[c] \in Nat
        BY <1>1, <1>5, <3>2 DEF Batches, n, Limits
      <3> QED BY <1>5, <1>18, <2>2, <3>3, <3>4
    <2>3. n <= scenario.device.capable
      BY <1>5, <1>18, <2>2
    <2> QED BY <2>1, <2>3
  <1>20. ASSUME Honest, Ours(c), capacity'[object[c]] # NoLimit
         PROVE  capacity'[object[c]] <= scenario.device.capable
    <2>1. CASE capacity'[object[c]] = capacity[object[c]]
      BY <1>20, <2>1, OursHonest
    <2>2. CASE fixes /\ capacity'[object[c]] = n
      BY <1>19, <1>20, <2>2 DEF fixes
    <2> QED BY <1>8, <2>1, <2>2
  <1>21. CapacityHonest'
    <2>1. misled' => home' # "old"
      BY <1>1 DEF CapacityHonest
    <2>2. ASSUME Honest, NEW o \in Objects, o = 1 => ~misled', capacity'[o] # NoLimit
          PROVE  capacity'[o] <= scenario.device.capable
      <3>1. CASE capacity' = capacity
        BY <1>1, <2>2, <3>1 DEF CapacityHonest, Objects
      <3>2. CASE o = object[c] /\ c \in Probing
        <4>1. ~Strayed(c)
          BY <1>1, <2>2, <3>2 DEF Strayed, Placed, Objects
        <4>2. Ours(c)
          BY <2>2, <3>2, <4>1 DEF Ours, Objects
        <4> QED BY <1>20, <2>2, <3>2, <4>2
      <3>3. CASE o # object[c]
        BY <1>1, <1>8, <2>2, <3>3 DEF CapacityHonest, Objects
      <3> QED BY <1>8, <3>1, <3>2, <3>3 DEF fixes
    <2> QED BY <2>1, <2>2 DEF CapacityHonest, Honest, Objects
  <1>22. Learns(c)'
    <2> SUFFICES ASSUME Honest, Ours(c)
                 PROVE  /\ Reading(c)' /\ limit'[c] # NoLimit => limit'[c] <= scenario.device.capable
                        /\ c \in Probing =>
                             Wanted(c) \cap received'[c] = settled'[c] \cap scenario.device.supported
      BY <1>17, OursBefore DEF Learns, Honest
    <2>1. c \in Probing => Wanted(c) \cap received[c] = settled[c] \cap scenario.device.supported
      BY <1>1 DEF CallInv, Learns, Reading
    <2>2. /\ c \in Probing => answer.valued = asked \cap scenario.device.supported
          /\ asked \subseteq Wanted(c)
      BY <1>4, <1>19
    <2>3. ASSUME Reading(c)', limit'[c] # NoLimit PROVE limit'[c] <= scenario.device.capable
      <3>1. limit'[c] = capacity'[object[c]]
        BY <1>12, <1>13, <2>3 DEF Reading
      <3> QED BY <1>20, <2>3, <3>1
    <2>4. c \in Probing => Wanted(c) \cap received'[c] = settled'[c] \cap scenario.device.supported
      BY <1>6, <2>1, <2>2
    <2> QED BY <2>3, <2>4
  <1>23. LearnsAlone(c)'
    <2> SUFFICES ASSUME Alone(c)
                 PROVE  /\ capacity'[1] # NoLimit => 2 * capacity'[1] > Goal(c)
                        /\ pc'[c] \notin {"new", "identifying"}
                        /\ Reading(c)' => capacity'[1] # NoLimit /\ probeSize'[c] = NoLimit
                                          /\ limit'[c] # NoLimit
      BY <1>17 DEF LearnsAlone
    <2>1. c \in Probing /\ Honest /\ Ours(c) /\ object[c] = 1
      BY OursAlone
    <2>2. /\ capacity[1] # NoLimit => /\ 2 * capacity[1] > Goal(c)
                                      /\ probeSize[c] = NoLimit /\ limit[c] # NoLimit
          /\ capacity[1] = NoLimit /\ probeSize[c] # NoLimit => n = probeSize[c] /\ 2 * n > Goal(c)
          /\ capacity[1] = NoLimit /\ probeSize[c] = NoLimit => epcs = <<>> /\ n >= Goal(c)
      BY <1>1 DEF CallInv, LearnsAlone, n, epcs
    <2>3. pc'[c] \notin {"new", "identifying"} /\ (Reading(c)' => epcs # <<>> /\ limit'[c] = capacity'[1])
      BY <1>12, <1>13, <2>1 DEF Reading
    <2>4. CASE capacity[1] # NoLimit
      <3>1. ~fixes
        BY <2>2, <2>4 DEF fixes
      <3>2. capacity' = capacity /\ probing = NoLimit
        BY <1>8, <1>9, <2>2, <2>4, <3>1
      <3> QED BY <1>10, <2>2, <2>3, <2>4, <3>2
    <2>5. CASE capacity[1] = NoLimit /\ probeSize[c] # NoLimit
      <3>1. fixes
        BY <2>1, <2>5 DEF fixes
      <3>2. capacity'[1] # NoLimit /\ capacity'[1] = n /\ probing = NoLimit
        BY <1>8, <1>9, <2>1, <2>5, <3>1
      <3> QED BY <1>10, <2>2, <2>3, <2>5, <3>2
    <2>6. CASE capacity[1] = NoLimit /\ probeSize[c] = NoLimit
      <3>1. epcs = <<>> /\ n >= Goal(c)
        BY <2>2, <2>6
      <3>2. capacity'[1] # NoLimit => capacity'[1] = n
        BY <1>8, <2>1, <2>6
      <3>3. 2 * n > Goal(c)
        BY <1>5, <1>18, <3>1
      <3> QED BY <2>3, <3>1, <3>2, <3>3
    <2> QED BY <2>4, <2>5, <2>6
  <1>24. CallInv(c)'
    BY <1>16, <1>22, <1>23 DEF CallInv
  <1> QED BY <1>14, <1>15, <1>21, <1>24, StepKeeps

(* A response, or none.                                                     *)
LEMMA UnansweredStep ==
    ASSUME BatchingInv, NEW c \in Active, Reading(c),
           scenario' = scenario, home' = home, identified' = identified, object' = object,
           address' = address, misled' \in BOOLEAN,
           misled => misled', misled' => misled \/ home # "old",
           capacity' = capacity, received' = received, settled' = settled,
           losses' \in 0..scenario.maxLosses, losses' >= losses, Unanswered(c),
           Alone(c) /\ losses' = 0 => Len(batch[c]) > scenario.device.capable
    PROVE  BatchingInv'
  <1>1. CASE c \in Probing /\ Len(batch[c]) > 1
    BY <1>1, HalveStep DEF Unanswered
  <1>2. CASE ~(c \in Probing /\ Len(batch[c]) > 1)
    <2>1. /\ pc' = [pc EXCEPT ![c] = "aborted"] /\ queue' = queue /\ batch' = batch
          /\ limit' = limit /\ probeSize' = probeSize
          /\ sends' = sends /\ halvings' = halvings
      BY <1>2 DEF Unanswered
    <2>2. /\ object' \in [Calls -> Objects] /\ batch' \in [Calls -> Seq(EPCs)]
          /\ received' \in [Calls -> SUBSET EPCs] /\ address' \in [Calls -> {"old", "new"}]
          /\ Placed(c)'
      BY <2>1, ReadingFacts DEF BatchingInv, TypeOK, Placed
    <2>3. "aborted" \in {"asking"} \cup Ended
      BY DEF Ended
    <2> QED BY <2>1, <2>2, <2>3, QuietStep
  <1> QED BY <1>1, <1>2

LEMMA AnsweredStep ==
    ASSUME BatchingInv, NEW c \in Active, Answered(c)
    PROVE  BatchingInv'
  <1>1. PICK answer \in Answers(c) : Respond(c, answer)
    BY DEF Answered
  <1>2. /\ Reading(c) /\ scenario' = scenario /\ home' = home /\ identified' = identified
        /\ object' = object /\ address' = address /\ losses' = losses
        /\ misled' = (misled \/ (c \in Probing /\ Strayed(c)))
    BY <1>1 DEF Answered, Respond, Reading, world
  <1>3. /\ TypeOK /\ losses \in 0..scenario.maxLosses /\ scenario.maxLosses \in Nat
        /\ IsInjective(batch[c]) /\ scenario \in Scenarios
    BY <1>2, ReadingFacts, ScenarioFacts DEF TypeOK
  <1>4. /\ misled' \in BOOLEAN /\ (misled => misled') /\ (misled' => misled \/ home # "old")
        /\ c \in Probing /\ Strayed(c) => misled'
    BY <1>2, <1>3 DEF TypeOK, Strayed
  <1>5. CASE answer.matched = {} \/ (answer.matched = ToSet(batch[c]) /\ Overloaded(c, answer))
    <2>1. capacity' = capacity /\ received' = received /\ settled' = settled /\ Unanswered(c)
      BY <1>1, <1>5 DEF Respond
    <2>2. ASSUME Alone(c) PROVE Len(batch[c]) > scenario.device.capable
      <3>1. Honest /\ Ours(c) /\ Wanted(c) \subseteq scenario.device.supported
        BY <2>2, OursAlone DEF Alone
      <3>2. /\ Len(batch[c]) <= scenario.device.capable =>
                 /\ answer.matched = ToSet(batch[c])
                 /\ answer.valued = answer.matched \cap scenario.device.supported
            /\ Len(batch[c]) \in Nat /\ scenario.device.capable \in Nat
        BY <1>2, <1>3, <3>1, HonestAnswers, BatchSize, GoalFacts
      <3>3. ToSet(batch[c]) # {} /\ ToSet(batch[c]) \subseteq Wanted(c)
        BY <1>2, ReadingFacts
      <3>4. answer.matched = {} \/ answer.valued = {}
        BY <1>5 DEF Overloaded
      <3> QED BY <3>1, <3>2, <3>3, <3>4
    <2>3. losses' \in 0..scenario.maxLosses /\ losses' >= losses
      BY <1>2, <1>3
    <2> QED BY <1>2, <1>4, <2>1, <2>2, <2>3, UnansweredStep
  <1>6. CASE ~(answer.matched = {} \/ (answer.matched = ToSet(batch[c]) /\ Overloaded(c, answer)))
    <2>1. /\ received' = [received EXCEPT ![c] = @ \cup answer.valued]
          /\ settled' = [settled EXCEPT ![c] = @ \cup answer.matched]
          /\ halvings' = halvings
          /\ IF answer.matched = ToSet(batch[c]) THEN Complete(c) ELSE Partial(c, answer.matched)
      BY <1>1, <1>6 DEF Respond
    <2>2. CASE answer.matched = ToSet(batch[c])
      BY <1>2, <1>4, <1>6, <2>1, <2>2, CompleteStep
    <2>3. CASE answer.matched # ToSet(batch[c])
      BY <1>2, <1>4, <1>6, <2>1, <2>3, PartialStep
    <2> QED BY <2>2, <2>3
  <1> QED BY <1>5, <1>6

LEMMA LostStep ==
    ASSUME BatchingInv, NEW c \in Active, Lost(c)
    PROVE  BatchingInv'
  <1> DEFINE none == [matched |-> {}, valued |-> {}]
  <1>1. losses < scenario.maxLosses /\ losses' = losses + 1 /\ Respond(c, none)
    BY DEF Lost
  <1>2. /\ Reading(c) /\ scenario' = scenario /\ home' = home /\ identified' = identified
        /\ object' = object /\ capacity' = capacity /\ received' = received
        /\ settled' = settled /\ Unanswered(c) /\ address' = address /\ misled' = misled
    BY <1>1 DEF Lost, Respond, Reading, world
  <1>3. /\ losses \in 0..scenario.maxLosses /\ scenario.maxLosses \in Nat
        /\ misled \in BOOLEAN
    BY ScenarioFacts DEF BatchingInv, TypeOK
  <1>4. losses' \in 0..scenario.maxLosses /\ losses' >= losses /\ losses' # 0
    BY <1>1, <1>3
  <1> QED BY <1>2, <1>3, <1>4, UnansweredStep

-----------------------------------------------------------------------------
LEMMA BatchingInit == Init => BatchingInv
  <1> SUFFICES ASSUME Init PROVE BatchingInv
    OBVIOUS
  <1>1. scenario \in Scenarios /\ scenario.maxLosses \in Nat
    BY ScenarioFacts DEF Init
  <1>2. TypeOK
    <2>1. misled \in BOOLEAN
      BY Zenon DEF Init
    <2> QED BY <1>1, <2>1 DEF Init, TypeOK, Objects
  <1>3. CapacityHonest
    BY DEF Init, CapacityHonest, Objects
  <1>4. ASSUME NEW c \in Active PROVE CallInv(c)
    <2>1. c \in Calls /\ Len(scenario.wanted[c]) \in Nat
      BY <1>1, ScenarioFacts, WantedFacts
    <2>2. /\ object[c] = 1 /\ pc[c] = "new" /\ settled[c] = {} /\ received[c] = {}
          /\ sends[c] = 0 /\ halvings[c] = 0 /\ home = "old" /\ capacity[1] = NoLimit
      BY <2>1 DEF Init, Objects
    <2>3. Stages(c)
      BY <2>1, <2>2 DEF Stages, Placed
    <2> QED BY <2>2, <2>3 DEF CallInv, Reading, Learns, LearnsAlone
  <1> QED BY <1>2, <1>3, <1>4 DEF BatchingInv

LEMMA BatchingStep == BatchingInv /\ [Next]_vars => BatchingInv'
  <1> SUFFICES ASSUME BatchingInv, [Next]_vars PROVE BatchingInv'
    OBVIOUS
  <1>1. CASE Move
    BY <1>1, MoveStep
  <1>2. ASSUME NEW c \in Active,
               \/ Begin(c) \/ BeginUnsplit(c) \/ Unaddressed(c)
               \/ Identify(c) \/ Unidentified(c)
               \/ Answered(c) \/ Lost(c) \/ AnsweredUnsplit(c) \/ Interrupted(c)
        PROVE  BatchingInv'
    BY <1>2, BeginStep, IdentifyStep, AnsweredStep, LostStep, QuietSteps
  <1>3. CASE UNCHANGED vars
    <2>1. /\ TypeOK' /\ CapacityHonest' /\ Active' = Active
      BY <1>3 DEF BatchingInv, vars, world, history, TypeOK, CapacityHonest, Honest, Active
    <2>2. ASSUME NEW c \in Active PROVE CallInv(c)'
      <3>1. CallInv(c)
        BY DEF BatchingInv
      <3> QED BY <1>3, <3>1 DEF vars, world, history, CallInv, Stages, Batches, Probes, Learns,
                   LearnsAlone, Alone, Goal, Wanted, Bound, Reading, Honest, Ours, Placed, Strayed,
                   Active, PolicySize
    <2> QED BY <2>1, <2>2 DEF BatchingInv
  <1> QED BY <1>1, <1>2, <1>3 DEF Next

(* BatchingInv is an invariant of every behaviour. *)
THEOREM BatchingInvariant == Spec => []BatchingInv
  <1> QED BY BatchingInit, BatchingStep, PTL DEF Spec

(* The calls and the objects they share only ever hold values of their     *)
(* types: in particular a limit is between one and the number of EPCs.      *)
THEOREM BatchingIsTyped == Spec => []TypeOK
  <1>1. BatchingInv => TypeOK
    BY DEF BatchingInv
  <1> QED BY <1>1, BatchingInvariant, PTL

(* _run_get_batches neither drops an EPC nor requests one that is settled:  *)
(* while a call reads, its batch and its queue are what is left, each EPC   *)
(* once, and a call that is done has settled every EPC.                     *)
THEOREM NothingForgottenAlways == Spec => []NothingForgotten
  <1>1. BatchingInv => NothingForgotten
    <2> SUFFICES ASSUME BatchingInv, NEW c \in Active \ Unsplit
                 PROVE  /\ Reading(c) =>
                             /\ batch[c] # <<>>
                             /\ IsInjective(batch[c] \o queue[c])
                             /\ ToSet(batch[c] \o queue[c]) = ToSet(scenario.wanted[c]) \ settled[c]
                        /\ pc[c] = "done" => settled[c] = ToSet(scenario.wanted[c])
      BY DEF NothingForgotten
    <2>1. CallInv(c)
      BY DEF BatchingInv
    <2> QED BY <2>1 DEF CallInv, Batches, Stages, Wanted
  <1> QED BY <1>1, BatchingInvariant, PTL

(* No request breaks the policy or asks for more than the limit that was    *)
(* known when it was planned, whatever its batch was rebuilt from.          *)
THEOREM BatchAllowedAlways == Spec => []BatchAllowed
  <1>1. BatchingInv => BatchAllowed
    <2> SUFFICES ASSUME BatchingInv, NEW c \in Active, Reading(c)
                 PROVE  /\ scenario.hasPolicy =>
                             \A p \in scenario.pairs : ~(p \subseteq ToSet(batch[c]))
                        /\ \A n \in {limit[c], PolicySize(TRUE)} :
                             n # NoLimit => Len(batch[c]) <= n
      BY DEF BatchAllowed
    <2>1. Batches(c)
      BY DEF BatchingInv, CallInv
    <2> QED BY <2>1 DEF Batches
  <1> QED BY <1>1, BatchingInvariant, PTL

(* Reading N EPCs takes at most N requests and one for each time a batch    *)
(* was halved, and that happens about log2 N times, whatever is lost and    *)
(* whatever the device answers.                                             *)
THEOREM RequestsBoundedAlways == Spec => []RequestsBounded
  <1>1. BatchingInv => RequestsBounded
    <2> SUFFICES ASSUME BatchingInv, NEW c \in Active
                 PROVE  /\ halvings[c] > 0 =>
                             PowersOfTwo[halvings[c] - 1] < Len(scenario.wanted[c])
                        /\ sends[c] <= Len(scenario.wanted[c]) + halvings[c]
      BY DEF RequestsBounded
    <2>1. Stages(c)
      BY DEF BatchingInv, CallInv
    <2> QED BY <2>1 DEF Stages
  <1> QED BY <1>1, BatchingInvariant, PTL

(* What the object in _get_capabilities has learned of a device that is not *)
(* wild is no more than the device is capable of, as long as the rival has  *)
(* not answered a setup; and even then if the rival was announced before    *)
(* the node was, at its new address (_handle_node_profile drops the object  *)
(* in that order, and in no other).                                         *)
THEOREM LearnedLimitHonestAlways == Spec => []LearnedLimitHonest
  <1>1. BatchingInv => LearnedLimitHonest
    BY DEF BatchingInv, CapacityHonest, LearnedLimitHonest, TableObject
  <1> QED BY <1>1, BatchingInvariant, PTL

(* A setup on its own, of which no request is lost, learns more than half   *)
(* of what the device is capable of or of what the setup asked for.         *)
THEOREM LimitNotTooSmallAlways == Spec => []LimitNotTooSmall
  <1>1. BatchingInv => LimitNotTooSmall
    <2> SUFFICES ASSUME BatchingInv, NEW c \in Probing \cap Active,
                        Active = {c}, Honest, losses = 0, home = "old",
                        Wanted(c) \subseteq scenario.device.supported,
                        ~scenario.hasPolicy, capacity[1] # NoLimit
                 PROVE  2 * capacity[1] > Goal(c)
      BY DEF LimitNotTooSmall, Goal, Wanted
    <2>1. LearnsAlone(c) /\ Alone(c)
      BY DEF BatchingInv, CallInv, Alone
    <2> QED BY <2>1 DEF LearnsAlone
  <1> QED BY <1>1, BatchingInvariant, PTL

(* A setup that is done has read every EPC it wanted that the device has,   *)
(* if its requests went to the node and no setup that went to the rival has *)
(* taught the object it holds.                                              *)
THEOREM NothingMissedAlways == Spec => []NothingMissed
  <1>1. BatchingInv => NothingMissed
    <2> SUFFICES ASSUME BatchingInv, NEW c \in Probing \cap Active, Honest, pc[c] = "done",
                        Ours(c)
                 PROVE  Wanted(c) \cap received[c] = Wanted(c) \cap scenario.device.supported
      BY DEF NothingMissed, Wanted, Ours
    <2>1. Learns(c) /\ Stages(c) /\ c \notin Unsplit
      BY GetAssumption DEF BatchingInv, CallInv
    <2> QED BY <2>1 DEF Learns, Stages
  <1> QED BY <1>1, BatchingInvariant, PTL

LEMMA CapacityStep ==
    ASSUME BatchingInv, [Next]_vars
    PROVE  CapacityKept
  <1>0. TypeOK
    BY DEF BatchingInv
  <1>1. CASE capacity' = capacity
    BY <1>0, <1>1, CapacitySteady
  <1>2. ASSUME NEW c \in Active, NEW answer \in Answers(c), Respond(c, answer),
               capacity' # capacity
        PROVE  CapacityKept
    <2>1. Reading(c) /\ c \in Calls
      BY <1>0, <1>2, ScenarioFacts DEF Respond, Reading, TypeOK
    <2>2. answer.matched # {} /\ (answer.matched = ToSet(batch[c]) => Complete(c))
          /\ (answer.matched # ToSet(batch[c]) => Partial(c, answer.matched))
      BY <1>2 DEF Respond
    <2>3. answer.matched \in (SUBSET ToSet(batch[c])) \ {{}}
      BY <1>0, <2>2, AnswersFacts
    <2>4. Cardinality(answer.matched) \in Sizes /\ Len(batch[c]) \in Sizes
      BY <2>1, <2>3, BatchSize
    <2>5. CASE answer.matched = ToSet(batch[c])
      <3> DEFINE decides == /\ c \in Probing
                            /\ \/ probeSize[c] # NoLimit
                               \/ limit[c] = NoLimit /\ Len(batch[c]) > 1
      <3>1. Learn(c, decides, Len(batch[c]))
        BY <2>2, <2>5 DEF Complete
      <3> HIDE DEF decides
      <3> QED BY <1>0, <2>1, <2>4, <3>1, LearnFacts
    <2>6. CASE answer.matched # ToSet(batch[c])
      <3> DEFINE decides == c \in Probing
      <3>1. Learn(c, decides, Cardinality(answer.matched))
        BY <2>2, <2>6 DEF Partial
      <3> HIDE DEF decides
      <3> QED BY <1>0, <2>1, <2>4, <3>1, LearnFacts
    <2> QED BY <2>5, <2>6
  <1>3. CASE Move
    BY <1>1, <1>3 DEF Move
  <1>4. ASSUME NEW c \in Active, Answered(c) PROVE CapacityKept
    BY <1>1, <1>2, <1>4 DEF Answered
  <1>5. ASSUME NEW c \in Active, Lost(c) PROVE CapacityKept
    BY <1>1, <1>5 DEF Lost, Respond
  <1>6. ASSUME NEW c \in Active,
               \/ Begin(c) \/ BeginUnsplit(c) \/ Unaddressed(c) \/ Identify(c)
               \/ Unidentified(c) \/ AnsweredUnsplit(c) \/ Interrupted(c)
        PROVE  CapacityKept
    BY <1>1, <1>6 DEF Begin, BeginUnsplit, Unaddressed, Identify, Unidentified, AnsweredUnsplit,
       Interrupted
  <1>7. CASE UNCHANGED vars
    BY <1>1, <1>7 DEF vars
  <1> QED BY <1>3, <1>4, <1>5, <1>6, <1>7 DEF Next

(* observed_batch_capacity only ever shrinks, whichever call learns it.     *)
THEOREM CapacityShrinksAlways == Spec => CapacityShrinks
  <1>1. BatchingInv /\ [Next]_vars =>
          [\A o \in Objects : capacity[o] # NoLimit =>
             capacity'[o] # NoLimit /\ capacity'[o] <= capacity[o]]_capacity
    BY CapacityStep DEF CapacityKept
  <1> QED BY <1>1, BatchingInvariant, PTL DEF Spec, CapacityShrinks
=============================================================================
