---------------------------- MODULE DataInduction ----------------------------
(***************************************************************************)
(* What the proofs about sequences need: induction over the natural         *)
(* numbers as a fact about sets, that functions defined by recursion exist, *)
(* and the elements of a sequence.  The lemmas have no operator parameters, *)
(* so that every prover can instantiate them.                               *)
(***************************************************************************)
EXTENDS Integers, Sequences, FiniteSets, SequencesExt, WellFoundedInduction,
        FiniteSetTheorems, SequenceTheorems, TLAPS

(* Every non-empty set of natural numbers has a least element. *)
LEMMA Least ==
    ASSUME NEW T, T \subseteq Nat, T # {}
    PROVE  \E x \in T : \A y \in T : x <= y
  <1> DEFINE Before == {ss \in Nat \X Nat : ss[1] < ss[2]}
  <1>1. IsWellFoundedOn(Before, Nat)
    BY NatLessThanWellFounded DEF OpToRel
  <1>2. \A x, y \in T : <<y, x>> \notin Before => x <= y
    OBVIOUS
  <1> HIDE DEF Before
  <1>3. PICK x \in T : \A y \in T : <<y, x>> \notin Before
    BY <1>1, WFMin
  <1> QED BY <1>2, <1>3

(* Induction: a set of natural numbers with 0 and with the successor of     *)
(* each of its members has them all.                                        *)
LEMMA Counting ==
    ASSUME NEW T, T \subseteq Nat, 0 \in T, \A i \in T : i + 1 \in T
    PROVE  T = Nat
  <1> DEFINE U == Nat \ T
  <1> SUFFICES ASSUME U # {} PROVE FALSE
    OBVIOUS
  <1>1. U \subseteq Nat
    OBVIOUS
  <1> HIDE DEF U
  <1>2. PICK x \in U : \A y \in U : x <= y
    BY <1>1, Least
  <1>3. x # 0 /\ x - 1 \in Nat /\ x - 1 \notin U
    BY <1>1, <1>2 DEF U
  <1>4. x - 1 \in T /\ x = (x - 1) + 1
    BY <1>1, <1>2, <1>3 DEF U
  <1> QED BY <1>2, <1>4 DEF U

(* The same up to a bound. *)
LEMMA CountingUpto ==
    ASSUME NEW n \in Nat, NEW T, T \subseteq 0..n, 0 \in T,
           \A i \in T : i < n => i + 1 \in T
    PROVE  T = 0..n
  <1> DEFINE U == {i \in Nat : i <= n => i \in T}
  <1>1. U \subseteq Nat /\ 0 \in U /\ \A i \in U : i + 1 \in U
    OBVIOUS
  <1>2. U = Nat
    <2> HIDE DEF U
    <2> QED BY <1>1, Counting
  <1>3. \A i \in 0..n : i \in U /\ i <= n
    BY <1>2
  <1> QED BY <1>3

(* f starts with base and gets to i from i - 1 by step, up to n.            *)
Follows(f, base, n, step) ==
    f[0] = base /\ \A i \in 1..n : f[i] = step[<<f[i - 1], i>>]

(* There is a function that a recursion over 0..n defines. *)
LEMMA Recursion ==
    ASSUME NEW V, NEW base \in V, NEW n \in Nat, NEW step \in [V \X (1..n) -> V]
    PROVE  \E f \in [0..n -> V] : Follows(f, base, n, step)
  <1> DEFINE Upto(k) == \E f \in [0..k -> V] :
                          f[0] = base /\ \A i \in 1..k : f[i] = step[<<f[i - 1], i>>]
             T == {k \in 0..n : Upto(k)}
  <1>1. Upto(0)
    <2> DEFINE f == [i \in 0..0 |-> base]
    <2>1. f \in [0..0 -> V] /\ f[0] = base
      OBVIOUS
    <2>2. \A i \in 1..0 : f[i] = step[<<f[i - 1], i>>]
      OBVIOUS
    <2> HIDE DEF f
    <2> QED BY <2>1, <2>2
  <1>2. ASSUME NEW k \in Nat, k + 1 <= n, Upto(k) PROVE Upto(k + 1)
    <2>1. PICK f \in [0..k -> V] : f[0] = base /\ \A i \in 1..k : f[i] = step[<<f[i - 1], i>>]
      BY <1>2
    <2> DEFINE g == [i \in 0..(k + 1) |-> IF i = k + 1 THEN step[<<f[k], k + 1>>] ELSE f[i]]
    <2>2. step[<<f[k], k + 1>>] \in V
      BY <1>2, <2>1
    <2>3. g \in [0..(k + 1) -> V]
      BY <2>1, <2>2
    <2>4. g[0] = base
      BY <2>1
    <2>5. ASSUME NEW i \in 1..(k + 1) PROVE g[i] = step[<<g[i - 1], i>>]
      <3>1. i - 1 \in 0..k /\ g[i - 1] = f[i - 1]
        BY <2>1
      <3>2. CASE i = k + 1
        <4>1. g[i] = step[<<f[k], k + 1>>] /\ g[i - 1] = f[k]
          BY <3>1, <3>2
        <4> QED BY <3>2, <4>1
      <3>3. CASE i # k + 1
        <4>1. i \in 1..k /\ g[i] = f[i]
          BY <3>3
        <4> QED BY <2>1, <3>1, <4>1
      <3> QED BY <3>2, <3>3
    <2> HIDE DEF g
    <2> QED BY <2>3, <2>4, <2>5
  <1> HIDE DEF Upto
  <1>3. T = 0..n
    <2>1. T \subseteq 0..n /\ 0 \in T /\ \A k \in T : k < n => k + 1 \in T
      BY <1>1, <1>2
    <2> HIDE DEF T
    <2> QED BY <2>1, CountingUpto
  <1>4. n \in T
    BY <1>3
  <1> QED BY <1>4 DEF Upto, Follows

(* Two functions of the same recursion agree as far as both go. *)
LEMMA RecursionAgrees ==
    ASSUME NEW f, NEW g, NEW base, NEW step, NEW n \in Nat, NEW m \in Nat, n <= m,
           Follows(f, base, n, step), Follows(g, base, m, step)
    PROVE  \A i \in 0..n : f[i] = g[i]
  <1> DEFINE T == {i \in 0..n : f[i] = g[i]}
  <1>1. T \subseteq 0..n /\ 0 \in T
    BY DEF Follows
  <1>2. ASSUME NEW i \in T, i < n PROVE i + 1 \in T
    <2>1. i + 1 \in 1..n /\ i + 1 \in 1..m /\ (i + 1) - 1 = i
      BY <1>2
    <2>2. f[i + 1] = step[<<f[i], i + 1>>] /\ g[i + 1] = step[<<g[i], i + 1>>]
      BY <2>1 DEF Follows
    <2> QED BY <1>2, <2>1, <2>2
  <1>3. T = 0..n
    <2> HIDE DEF T
    <2> QED BY <1>1, <1>2, CountingUpto
  <1> QED BY <1>3

(* There is a function that a recursion over Nat defines. *)
LEMMA NatRecursion ==
    ASSUME NEW V, NEW base \in V, NEW step \in [V \X (Nat \ {0}) -> V]
    PROVE  \E f \in [Nat -> V] : \A n \in Nat : Follows(f, base, n, step)
  <1> DEFINE Part(n) == CHOOSE f \in [0..n -> V] : Follows(f, base, n, step)
             f == [n \in Nat |-> Part(n)[n]]
  <1>1. ASSUME NEW n \in Nat
        PROVE  Part(n) \in [0..n -> V] /\ Follows(Part(n), base, n, step)
    <2> DEFINE part == [x \in V \X (1..n) |-> step[x]]
    <2>1. part \in [V \X (1..n) -> V]
      OBVIOUS
    <2>2. \A v \in V, i \in 1..n : part[<<v, i>>] = step[<<v, i>>]
      OBVIOUS
    <2> HIDE DEF part
    <2>3. PICK g \in [0..n -> V] : Follows(g, base, n, part)
      BY <2>1, Recursion
    <2>4. \A i \in 1..n : i - 1 \in 0..n
      OBVIOUS
    <2>5. Follows(g, base, n, step)
      BY <2>2, <2>3, <2>4 DEF Follows
    <2> QED BY <2>5
  <1> HIDE DEF Part
  <1>2. f \in [Nat -> V]
    BY <1>1
  <1>3. ASSUME NEW n \in Nat, NEW i \in 1..n PROVE f[i] = step[<<f[i - 1], i>>]
    <2>1. i \in Nat /\ i - 1 \in Nat /\ i - 1 \in 0..(i - 1) /\ i \in 1..i /\ i - 1 <= i
      OBVIOUS
    <2>2. Part(i)[i] = step[<<Part(i)[i - 1], i>>]
      BY <1>1, <2>1 DEF Follows
    <2>3. Part(i - 1)[i - 1] = Part(i)[i - 1]
      <3>1. Follows(Part(i - 1), base, i - 1, step) /\ Follows(Part(i), base, i, step)
        BY <1>1, <2>1
      <3> DEFINE j == i - 1
                 a == Part(j)
                 b == Part(i)
      <3>2. j \in Nat /\ i \in Nat /\ j <= i /\ Follows(a, base, j, step) /\ Follows(b, base, i, step)
        BY <2>1, <3>1
      <3>3. j \in 0..j
        BY <2>1
      <3> HIDE DEF j, a, b
      <3>4. a[j] = b[j]
        BY <3>2, <3>3, RecursionAgrees
      <3> QED BY <3>4 DEF j, a, b
    <2> QED BY <2>1, <2>2, <2>3
  <1>4. f[0] = base
    BY <1>1 DEF Follows
  <1> HIDE DEF f
  <1> QED BY <1>2, <1>3, <1>4 DEF Follows

-----------------------------------------------------------------------------
(* The elements of a sequence.                                              *)

LEMMA EmptySequence == ToSet(<<>>) = {} /\ IsInjective(<<>>) /\ Len(<<>>) = 0
  BY DEF ToSet, IsInjective

LEMMA ElementsOf ==
    ASSUME NEW S, NEW s \in Seq(S)
    PROVE  /\ DOMAIN s = 1..Len(s) /\ Len(s) \in Nat
           /\ ToSet(s) \subseteq S
           /\ s # <<>> <=> Len(s) > 0
           /\ s # <<>> <=> ToSet(s) # {}
           /\ \A i \in 1..Len(s) : s[i] \in ToSet(s)
  <1>1. DOMAIN s = 1..Len(s) /\ Len(s) \in Nat /\ \A i \in 1..Len(s) : s[i] \in S
    OBVIOUS
  <1>2. s # <<>> <=> Len(s) > 0
    OBVIOUS
  <1>3. Len(s) > 0 => 1 \in 1..Len(s)
    BY <1>1
  <1>4. Len(s) = 0 => 1..Len(s) = {}
    OBVIOUS
  <1>5. \A i \in 1..Len(s) : s[i] \in ToSet(s)
    BY <1>1 DEF ToSet
  <1>6. ToSet(s) \subseteq S
    BY <1>1 DEF ToSet
  <1>7. s # <<>> <=> ToSet(s) # {}
    BY <1>1, <1>2, <1>3, <1>4, <1>5 DEF ToSet
  <1> QED BY <1>1, <1>2, <1>5, <1>6, <1>7

LEMMA ElementsOfAppend ==
    ASSUME NEW S, NEW s \in Seq(S), NEW x \in S
    PROVE  /\ Append(s, x) \in Seq(S)
           /\ Len(Append(s, x)) = Len(s) + 1
           /\ ToSet(Append(s, x)) = ToSet(s) \cup {x}
           /\ IsInjective(s) /\ x \notin ToSet(s) => IsInjective(Append(s, x))
  <1>1. /\ Append(s, x) \in Seq(S) /\ Len(Append(s, x)) = Len(s) + 1
        /\ \A i \in 1..Len(s) : Append(s, x)[i] = s[i]
        /\ Append(s, x)[Len(s) + 1] = x
    OBVIOUS
  <1>2. DOMAIN Append(s, x) = 1..(Len(s) + 1) /\ DOMAIN s = 1..Len(s) /\ Len(s) \in Nat
    BY <1>1
  <1> DEFINE t == Append(s, x)
  <1>3. 1..(Len(s) + 1) = 1..Len(s) \cup {Len(s) + 1}
    BY <1>2
  <1> HIDE DEF t
  <1>4. ToSet(t) = ToSet(s) \cup {x}
    BY <1>1, <1>2, <1>3 DEF ToSet, t
  <1>5. ASSUME IsInjective(s), x \notin ToSet(s) PROVE IsInjective(t)
    BY <1>1, <1>2, <1>3, <1>5 DEF ToSet, IsInjective, t
  <1> QED BY <1>1, <1>4, <1>5 DEF t

LEMMA ElementsOfConcat ==
    ASSUME NEW S, NEW s \in Seq(S), NEW t \in Seq(S)
    PROVE  /\ s \o t \in Seq(S)
           /\ Len(s \o t) = Len(s) + Len(t)
           /\ ToSet(s \o t) = ToSet(s) \cup ToSet(t)
           /\ IsInjective(s \o t) <=>
                IsInjective(s) /\ IsInjective(t) /\ ToSet(s) \cap ToSet(t) = {}
  <1> DEFINE u == s \o t
             m == Len(s)
             n == Len(t)
  <1>1. /\ u \in Seq(S) /\ Len(u) = m + n /\ m \in Nat /\ n \in Nat
        /\ DOMAIN u = 1..(m + n) /\ DOMAIN s = 1..m /\ DOMAIN t = 1..n
        /\ \A i \in 1..(m + n) : u[i] = IF i <= m THEN s[i] ELSE t[i - m]
    OBVIOUS
  <1> HIDE DEF u, m, n
  <1>2. /\ \A i \in 1..m : i \in 1..(m + n) /\ u[i] = s[i]
        /\ \A i \in 1..n : m + i \in 1..(m + n) /\ u[m + i] = t[i] /\ m + i \notin 1..m
        /\ \A i \in 1..(m + n) : i \in 1..m \/ \E j \in 1..n : i = m + j
    <2>1. \A i \in 1..m : i \in 1..(m + n) /\ i <= m
      BY <1>1
    <2>2. \A i \in 1..n : m + i \in 1..(m + n) /\ ~(m + i <= m) /\ (m + i) - m = i
      BY <1>1
    <2>3. \A i \in 1..(m + n) : i \notin 1..m => i - m \in 1..n /\ i = m + (i - m)
      BY <1>1
    <2> QED BY <1>1, <2>1, <2>2, <2>3
  <1>3. \A x : x \in ToSet(u) <=> \E i \in 1..(m + n) : u[i] = x
    BY <1>1 DEF ToSet
  <1>4. \A x : x \in ToSet(s) <=> \E i \in 1..m : s[i] = x
    BY <1>1 DEF ToSet
  <1>5. \A x : x \in ToSet(t) <=> \E i \in 1..n : t[i] = x
    BY <1>1 DEF ToSet
  <1>6. ToSet(u) = ToSet(s) \cup ToSet(t)
    <2>1. ASSUME NEW x \in ToSet(u) PROVE x \in ToSet(s) \cup ToSet(t)
      <3>1. PICK i \in 1..(m + n) : u[i] = x
        BY <1>3
      <3>2. CASE i \in 1..m
        BY <1>2, <1>4, <3>1, <3>2
      <3>3. CASE i \notin 1..m
        <4>1. PICK j \in 1..n : i = m + j
          BY <1>2, <3>3
        <4> QED BY <1>2, <1>5, <3>1, <4>1
      <3> QED BY <3>2, <3>3
    <2>2. ASSUME NEW x \in ToSet(s) PROVE x \in ToSet(u)
      BY <1>2, <1>3, <1>4
    <2>3. ASSUME NEW x \in ToSet(t) PROVE x \in ToSet(u)
      BY <1>2, <1>3, <1>5
    <2> QED BY <2>1, <2>2, <2>3
  <1>7. ASSUME IsInjective(u)
        PROVE  IsInjective(s) /\ IsInjective(t) /\ ToSet(s) \cap ToSet(t) = {}
    <2>0. \A i, j \in 1..(m + n) : u[i] = u[j] => i = j
      BY <1>1, <1>7 DEF IsInjective
    <2>1. IsInjective(s)
      BY <1>1, <1>2, <2>0 DEF IsInjective
    <2>2. \A i, j \in 1..n : m + i = m + j => i = j
      BY <1>1
    <2>3. ASSUME NEW i \in 1..n, NEW j \in 1..n, t[i] = t[j] PROVE i = j
      <3>1. u[m + i] = u[m + j] /\ m + i \in 1..(m + n) /\ m + j \in 1..(m + n)
        BY <1>2, <2>3
      <3>2. m + i = m + j
        BY <2>0, <3>1
      <3> QED BY <2>2, <3>2
    <2>4. ASSUME NEW x \in ToSet(s), x \in ToSet(t) PROVE FALSE
      <3>1. PICK i \in 1..m : s[i] = x
        BY <1>4
      <3>2. PICK j \in 1..n : t[j] = x
        BY <1>5, <2>4
      <3>3. u[i] = u[m + j] /\ i \in 1..(m + n) /\ m + j \in 1..(m + n) /\ m + j \notin 1..m
        BY <1>2, <3>1, <3>2
      <3>4. i = m + j
        BY <2>0, <3>3
      <3> QED BY <3>1, <3>3, <3>4
    <2>5. IsInjective(t)
      BY <1>1, <2>3 DEF IsInjective
    <2> QED BY <2>1, <2>4, <2>5
  <1>8. ASSUME IsInjective(s), IsInjective(t), ToSet(s) \cap ToSet(t) = {},
               NEW i \in 1..(m + n), NEW j \in 1..(m + n), u[i] = u[j]
        PROVE  i = j
    <2>0. /\ \A k, l \in 1..m : s[k] = s[l] => k = l
          /\ \A k, l \in 1..n : t[k] = t[l] => k = l
          /\ \A k \in 1..m, l \in 1..n : s[k] # t[l]
      BY <1>1, <1>8, <1>4, <1>5 DEF IsInjective
    <2>1. CASE i \in 1..m /\ j \in 1..m
      BY <1>2, <1>8, <2>0, <2>1
    <2>2. CASE i \in 1..m /\ j \notin 1..m
      <3>1. PICK l \in 1..n : j = m + l
        BY <1>2, <2>2
      <3> QED BY <1>2, <1>8, <2>0, <2>2, <3>1
    <2>3. CASE i \notin 1..m /\ j \in 1..m
      <3>1. PICK l \in 1..n : i = m + l
        BY <1>2, <2>3
      <3> QED BY <1>2, <1>8, <2>0, <2>3, <3>1
    <2>4. CASE i \notin 1..m /\ j \notin 1..m
      <3>1. PICK k \in 1..n : i = m + k
        BY <1>2, <2>4
      <3>2. PICK l \in 1..n : j = m + l
        BY <1>2, <2>4
      <3>3. t[k] = t[l]
        BY <1>2, <1>8, <3>1, <3>2
      <3> QED BY <2>0, <3>1, <3>2, <3>3
    <2> QED BY <2>1, <2>2, <2>3, <2>4
  <1>9. IsInjective(s) /\ IsInjective(t) /\ ToSet(s) \cap ToSet(t) = {} => IsInjective(u)
    BY <1>1, <1>8 DEF IsInjective
  <1> QED BY <1>1, <1>6, <1>7, <1>9 DEF u, m, n

(* A sequence has at most as many elements as it is long, and exactly as    *)
(* many when none comes twice.                                              *)
LEMMA ElementsCounted ==
    ASSUME NEW S, NEW s \in Seq(S)
    PROVE  /\ IsFiniteSet(ToSet(s)) /\ Cardinality(ToSet(s)) \in Nat
           /\ Cardinality(ToSet(s)) <= Len(s)
           /\ IsInjective(s) => Cardinality(ToSet(s)) = Len(s)
  <1> DEFINE A == 1..Len(s)
             B == ToSet(s)
  <1>1. DOMAIN s = A /\ Len(s) \in Nat
    OBVIOUS
  <1>2. IsFiniteSet(A) /\ Cardinality(A) = Len(s)
    BY <1>1, FS_Interval
  <1>3. s \in Surjection(A, B)
    BY <1>1 DEF ToSet, Surjection
  <1>4. IsInjective(s) => s \in Injection(A, B)
    BY <1>1 DEF ToSet, Injection, IsInjective
  <1> HIDE DEF A, B
  <1>5. IsFiniteSet(B) /\ Cardinality(B) <= Cardinality(A)
        /\ (Cardinality(B) = Cardinality(A) <=> s \in Injection(A, B))
    BY <1>2, <1>3, FS_Surjection
  <1>6. Cardinality(B) \in Nat
    BY <1>5, FS_CardinalityType
  <1> QED BY <1>2, <1>4, <1>5, <1>6 DEF B
=============================================================================
