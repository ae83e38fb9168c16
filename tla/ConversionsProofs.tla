-------------------------- MODULE ConversionsProofs --------------------------
(***************************************************************************)
(* Theorems about Conversions for any frames, datagrams, answers and EPCs,  *)
(* and any registry whose definitions are regular: what the encoders make,  *)
(* the decoders undo, and the other way round, byte for byte; nothing is    *)
(* read out of an answer that it does not say.  First the bytes of numbers  *)
(* and frames, then what is read out of frames, then the codecs.            *)
(***************************************************************************)
EXTENDS Conversions, DataInduction

-----------------------------------------------------------------------------
(* Bytes and the numbers they stand for.                                    *)

(* The number of some bytes grows byte by byte. *)
LEMMA FromBytesCounts ==
    ASSUME NEW edt \in Seq(Byte)
    PROVE  \E number \in [0..Len(edt) -> Nat] :
             /\ FromBytes(edt) = number[Len(edt)] /\ number[0] = 0
             /\ \A i \in 1..Len(edt) : number[i] = 256 * number[i - 1] + edt[i]
  <1> DEFINE n == Len(edt)
             step == [x \in Nat \X (1..n) |-> 256 * x[1] + edt[x[2]]]
             P(f) == f = [i \in 0..n |-> IF i = 0 THEN 0 ELSE 256 * f[i - 1] + edt[i]]
             number == CHOOSE f : P(f)
  <1>1. n \in Nat /\ \A i \in 1..n : edt[i] \in Nat
    <2>1. Byte \subseteq Nat
      BY DEF Byte
    <2>2. Len(edt) \in Nat /\ \A i \in 1..Len(edt) : edt[i] \in Byte
      OBVIOUS
    <2> QED BY <2>1, <2>2
  <1>2. FromBytes(edt) = number[n]
    BY DEF FromBytes
  <1> HIDE DEF number
  <1>3. /\ step \in [Nat \X (1..n) -> Nat]
        /\ \A m \in Nat, i \in 1..n : step[<<m, i>>] = 256 * m + edt[i]
    BY <1>1
  <1> HIDE DEF n, step
  <1>4. PICK f \in [0..n -> Nat] : Follows(f, 0, n, step)
    BY <1>1, <1>3, Recursion
  <1>5. P(f)
    <2>1. ASSUME NEW i \in 1..n PROVE f[i] = 256 * f[i - 1] + edt[i]
      <3>1. i - 1 \in 0..n
        BY <1>1
      <3> QED BY <1>3, <1>4, <3>1 DEF Follows
    <2>2. f[0] = 0 /\ f = [i \in 0..n |-> f[i]]
      BY <1>4 DEF Follows
    <2>3. \A i \in 0..n : i # 0 => i \in 1..n
      BY <1>1
    <2> QED BY <2>1, <2>2, <2>3
  <1>6. P(number)
    <2>1. \E g : P(g)
      <3> HIDE DEF P
      <3> QED BY <1>5
    <2> QED BY <2>1 DEF number
  <1>7. number[0] = 0 /\ \A i \in 1..n : number[i] = 256 * number[i - 1] + edt[i]
    <2>1. 0 \in 0..n /\ \A i \in 1..n : i \in 0..n /\ i # 0
      BY <1>1
    <2> QED BY <1>6, <2>1
  <1>8. Follows(number, 0, n, step)
    <2> DEFINE T == {i \in 0..n : number[i] \in Nat}
    <2>1. T \subseteq 0..n /\ 0 \in T
      BY <1>1, <1>7
    <2>2. ASSUME NEW i \in T, i < n PROVE i + 1 \in T
      <3>1. i + 1 \in 1..n /\ (i + 1) - 1 = i /\ number[i] \in Nat /\ edt[i + 1] \in Nat
        BY <1>1, <2>2
      <3>2. number[i + 1] = 256 * number[i] + edt[i + 1]
        BY <1>7, <3>1
      <3>3. number[i + 1] \in Nat
        BY <3>1, <3>2
      <3> QED BY <3>1, <3>3
    <2>3. T = 0..n
      <3> HIDE DEF T
      <3> QED BY <1>1, <2>1, <2>2, CountingUpto
    <2>4. \A i \in 1..n : i - 1 \in 0..n
      BY <1>1
    <2>5. \A i \in 0..n : number[i] \in Nat
      BY <2>3
    <2>6. \A i \in 1..n : number[i] = step[<<number[i - 1], i>>]
      BY <1>3, <1>7, <2>4, <2>5
    <2> QED BY <1>7, <2>6 DEF Follows
  <1>9. number \in [0..n -> Nat]
    <2>1. \A i \in 0..n : f[i] = number[i]
      <3>1. n <= n
        BY <1>1
      <3> QED BY <1>1, <1>4, <1>8, <3>1, RecursionAgrees
    <2>2. number = [i \in 0..n |-> number[i]]
      BY <1>6
    <2> QED BY <1>4, <2>1, <2>2
  <1> QED BY <1>2, <1>7, <1>9 DEF n

(* One byte is its number.                                                  *)
LEMMA OneByte ==
    ASSUME NEW a \in Byte
    PROVE  FromBytes(<<a>>) = a
  <1> DEFINE s == <<a>>
  <1>1. s \in Seq(Byte) /\ Len(s) = 1 /\ s[1] = a
    OBVIOUS
  <1> HIDE DEF s
  <1>2. PICK number \in [0..Len(s) -> Nat] :
             /\ FromBytes(s) = number[Len(s)] /\ number[0] = 0
             /\ \A i \in 1..Len(s) : number[i] = 256 * number[i - 1] + s[i]
    BY <1>1, FromBytesCounts
  <1>3. number[1] = 256 * number[1 - 1] + a
    BY <1>1, <1>2
  <1> QED BY <1>1, <1>2, <1>3 DEF s, Byte

(* Two bytes, the higher one first.                                         *)
LEMMA TwoBytes ==
    ASSUME NEW a \in Byte, NEW b \in Byte
    PROVE  FromBytes(<<a, b>>) = 256 * a + b
  <1> DEFINE s == <<a, b>>
  <1>1. s \in Seq(Byte) /\ Len(s) = 2 /\ s[1] = a /\ s[2] = b
    OBVIOUS
  <1> HIDE DEF s
  <1>2. PICK number \in [0..Len(s) -> Nat] :
             /\ FromBytes(s) = number[Len(s)] /\ number[0] = 0
             /\ \A i \in 1..Len(s) : number[i] = 256 * number[i - 1] + s[i]
    BY <1>1, FromBytesCounts
  <1>3. number[1] = 256 * number[1 - 1] + a /\ number[2] = 256 * number[2 - 1] + b
    BY <1>1, <1>2
  <1>4. number[2] = 256 * a + b
    BY <1>2, <1>3 DEF Byte
  <1> QED BY <1>1, <1>2, <1>4 DEF s

(* Three bytes: an EOJ.                                                     *)
LEMMA ThreeBytes ==
    ASSUME NEW a \in Byte, NEW b \in Byte, NEW c \in Byte
    PROVE  FromBytes(<<a, b, c>>) = 256 * (256 * a + b) + c
  <1> DEFINE s == <<a, b, c>>
  <1>1. s \in Seq(Byte) /\ Len(s) = 3 /\ s[1] = a /\ s[2] = b /\ s[3] = c
    OBVIOUS
  <1> HIDE DEF s
  <1>2. PICK number \in [0..Len(s) -> Nat] :
             /\ FromBytes(s) = number[Len(s)] /\ number[0] = 0
             /\ \A i \in 1..Len(s) : number[i] = 256 * number[i - 1] + s[i]
    BY <1>1, FromBytesCounts
  <1>3. /\ number[1] = 256 * number[1 - 1] + a /\ number[2] = 256 * number[2 - 1] + b
        /\ number[3] = 256 * number[3 - 1] + c
    BY <1>1, <1>2
  <1>4. number[2] = 256 * a + b
    BY <1>2, <1>3 DEF Byte
  <1> QED BY <1>1, <1>2, <1>3, <1>4 DEF s

(* One, two and three bytes hold a number and give it back. *)
LEMMA Powers == /\ 2 ^ 8 = 256 /\ 2 ^ 16 = 65536 /\ 2 ^ 24 = 16777216
                /\ 256 ^ 0 = 1 /\ 256 ^ 1 = 256 /\ 256 ^ 2 = 65536
  BY SMT

(* A number has one byte exactly if it is one.                              *)
LEMMA InOneByte ==
    ASSUME NEW n \in Int
    PROVE  /\ n \in Byte <=> ToBytes(n, 1) # None
           /\ n \in Byte => ToBytes(n, 1) = <<n>>
  <1>1. 8 * 1 = 8 /\ (n \in Byte <=> n \in 0 .. 2 ^ (8 * 1) - 1)
    BY Powers, SMT DEF Byte
  <1>2. ASSUME n \in Byte PROVE ToBytes(n, 1) = <<n>>
    <2>1. ToBytes(n, 1) = [i \in 1..1 |-> (n \div 256 ^ (1 - i)) % 256]
      BY <1>1, <1>2 DEF ToBytes
    <2>2. \A i \in 1..1 : (n \div 256 ^ (1 - i)) % 256 = n
      BY <1>2, Powers, SMT DEF Byte
    <2>3. [i \in 1..1 |-> n] = <<n>>
      OBVIOUS
    <2> QED BY <2>1, <2>2, <2>3
  <1>3. <<n>> \in Seq(Byte) \/ n \notin Byte
    OBVIOUS
  <1> QED BY <1>1, <1>2, <1>3, NoneAssumption DEF ToBytes

(* The highest of three bytes.                                              *)
LEMMA HighByte ==
    ASSUME NEW n \in Nat
    PROVE  n \div 256 ^ 2 = (n \div 256) \div 256
  BY Powers, SMT

(* A number that has two bytes is a word: a TID.                            *)
LEMMA InTwoBytes ==
    ASSUME NEW n \in Int
    PROVE  /\ n \in Word <=> ToBytes(n, 2) # None
           /\ n \in Word =>
                /\ n \div 256 \in Byte /\ n % 256 \in Byte
                /\ ToBytes(n, 2) = <<n \div 256, n % 256>>
                /\ n = 256 * (n \div 256) + (n % 256)
  <1>1. 8 * 2 = 16 /\ (n \in Word <=> n \in 0 .. 2 ^ (8 * 2) - 1)
    BY Powers, SMT DEF Word
  <1>2. ASSUME n \in Word
        PROVE  /\ n \div 256 \in Byte /\ n % 256 \in Byte
               /\ ToBytes(n, 2) = <<n \div 256, n % 256>>
               /\ n = 256 * (n \div 256) + (n % 256)
    <2>1. ToBytes(n, 2) = [i \in 1..2 |-> (n \div 256 ^ (2 - i)) % 256]
      BY <1>1, <1>2 DEF ToBytes
    <2>2. /\ n \div 256 \in Byte /\ n % 256 \in Byte /\ (n \div 256) % 256 = n \div 256
          /\ (n \div 1) % 256 = n % 256 /\ n = 256 * (n \div 256) + (n % 256)
      <3>1. n \in Nat /\ n <= 65535
        BY <1>2, SMT DEF Word
      <3>2. n \div 256 \in Nat /\ n % 256 \in 0..255 /\ n = 256 * (n \div 256) + (n % 256)
        BY <3>1, SMT
      <3>3. n \div 256 \in 0..255
        BY <3>1, <3>2, SMT
      <3>4. (n \div 256) % 256 = n \div 256
        BY <3>3, SMT
      <3>5. n \div 1 = n
        BY <3>1, SMT
      <3> QED BY <3>2, <3>3, <3>4, <3>5, Zenon DEF Byte
    <2>3. \A i \in 1..2 : (n \div 256 ^ (2 - i)) % 256 = IF i = 1 THEN n \div 256 ELSE n % 256
      <3>1. 2 - 1 = 1 /\ 2 - 2 = 0 /\ 2 # 1 /\ \A i \in 1..2 : i = 1 \/ i = 2
        BY SMT
      <3>2. (n \div 256 ^ (2 - 1)) % 256 = n \div 256 /\ (n \div 256 ^ (2 - 2)) % 256 = n % 256
        BY <2>2, <3>1, Powers, SMT
      <3> QED BY <3>1, <3>2, Zenon
    <2> DEFINE x == n \div 256
               y == n % 256
    <2>4. [i \in 1..2 |-> IF i = 1 THEN x ELSE y] = <<x, y>>
      OBVIOUS
    <2>5. ToBytes(n, 2) = <<x, y>>
      <3> DEFINE F(i) == (n \div 256 ^ (2 - i)) % 256
                 G(i) == IF i = 1 THEN x ELSE y
      <3>1. ToBytes(n, 2) = [i \in 1..2 |-> F(i)] /\ [i \in 1..2 |-> G(i)] = <<x, y>>
        BY <2>1, <2>4
      <3>2. \A i \in 1..2 : F(i) = G(i)
        BY <2>3
      <3> HIDE DEF F, G
      <3> QED BY <3>1, <3>2
    <2> QED BY <2>2, <2>5
  <1>3. ASSUME n \in Word PROVE ToBytes(n, 2) # None
    <2>1. ASSUME NEW a \in Byte, NEW b \in Byte PROVE <<a, b>> # None
      <3>1. <<a, b>> \in Seq(Byte)
        OBVIOUS
      <3> QED BY <3>1, NoneAssumption
    <2> QED BY <1>2, <1>3, <2>1, SMT
  <1>4. ASSUME n \notin Word PROVE ToBytes(n, 2) = None
    BY <1>1, <1>4, SMT DEF ToBytes
  <1> QED BY <1>2, <1>3, <1>4, SMT

(* An EOJ has three bytes.                                                  *)
LEMMA InThreeBytes ==
    ASSUME NEW n \in EOJ
    PROVE  LET a == (n \div 256) \div 256  b == (n \div 256) % 256  c == n % 256 IN
           /\ a \in Byte /\ b \in Byte /\ c \in Byte
           /\ ToBytes(n, 3) = <<a, b, c>> /\ ToBytes(n, 3) # None
           /\ n = 256 * (256 * a + b) + c
  <1> DEFINE a == (n \div 256) \div 256
             b == (n \div 256) % 256
             c == n % 256
  <1>1. 8 * 3 = 24 /\ n \in 0 .. 2 ^ (8 * 3) - 1
    BY Powers, SMT DEF EOJ
  <1>2. ToBytes(n, 3) = [i \in 1..3 |-> (n \div 256 ^ (3 - i)) % 256]
    BY <1>1 DEF ToBytes
  <1>3. a \in Byte /\ b \in Byte /\ c \in Byte /\ a % 256 = a /\ (n \div 1) % 256 = c
    BY Powers, SMT DEF Byte, EOJ
  <1>4. n = 256 * (256 * a + b) + c
    <2> DEFINE m == n \div 256
    <2>2. m \in Nat /\ n = 256 * m + (n % 256)
      BY Powers, SMT DEF EOJ
    <2>3. m = 256 * (m \div 256) + (m % 256)
      <3> HIDE DEF m
      <3> QED BY <2>2, SMT
    <2> QED BY <2>2, <2>3, SMT
  <1>5. \A i \in 1..3 : (n \div 256 ^ (3 - i)) % 256 = IF i = 1 THEN a ELSE IF i = 2 THEN b ELSE c
    <2>1. 3 - 1 = 2 /\ 3 - 2 = 1 /\ 3 - 3 = 0 /\ \A i \in 1..3 : i = 1 \/ i = 2 \/ i = 3
      BY SMT
    <2>2. 2 # 1 /\ 3 # 1 /\ 3 # 2
      BY SMT
    <2>3. (n \div 256 ^ 2) % 256 = a /\ (n \div 256 ^ 1) % 256 = b /\ (n \div 256 ^ 0) % 256 = c
      BY <1>3, HighByte, Powers, SMT DEF EOJ
    <2> HIDE DEF a, b, c
    <2> QED BY <2>1, <2>2, <2>3, Zenon
  <1> HIDE DEF a, b, c
  <1>6. [i \in 1..3 |-> IF i = 1 THEN a ELSE IF i = 2 THEN b ELSE c] = <<a, b, c>>
    OBVIOUS
  <1>7. ToBytes(n, 3) = <<a, b, c>>
    <2> DEFINE F(i) == (n \div 256 ^ (3 - i)) % 256
               G(i) == IF i = 1 THEN a ELSE IF i = 2 THEN b ELSE c
    <2>1. ToBytes(n, 3) = [i \in 1..3 |-> F(i)] /\ [i \in 1..3 |-> G(i)] = <<a, b, c>>
      BY <1>2, <1>6
    <2>2. \A i \in 1..3 : F(i) = G(i)
      BY <1>5
    <2> HIDE DEF F, G
    <2> QED BY <2>1, <2>2
  <1>8. <<a, b, c>> \in Seq(Byte)
    BY <1>3
  <1>9. /\ a \in Byte /\ b \in Byte /\ c \in Byte
        /\ ToBytes(n, 3) = <<a, b, c>> /\ ToBytes(n, 3) # None
        /\ n = 256 * (256 * a + b) + c
    BY <1>3, <1>4, <1>7, <1>8, NoneAssumption
  <1> QED BY <1>9 DEF a, b, c

(* Two sequences of the same length and elements are the same. *)
LEMMA SameElements ==
    ASSUME NEW S, NEW s \in Seq(S), NEW t \in Seq(S), Len(s) = Len(t),
           \A i \in 1..Len(s) : s[i] = t[i]
    PROVE  s = t
  OBVIOUS

(* Flattening one sequence more. *)
LEMMA FlattenCounts ==
    ASSUME NEW S, NEW n \in Nat, NEW seqs \in [1..n -> Seq(S)]
    PROVE  \E f \in [0..n -> Seq(S)] :
             /\ f[0] = <<>> /\ \A i \in 1..n : f[i] = f[i - 1] \o seqs[i]
             /\ FlattenSeq(seqs) = f[n]
  <1> DEFINE step == [x \in Seq(S) \X (1..n) |-> x[1] \o seqs[x[2]]]
             P(f) == f = [i \in 1..n |-> IF i = 1 THEN seqs[i] ELSE f[i - 1] \o seqs[i]]
             flatten == CHOOSE f : P(f)
  <1>1. Len(seqs) = n /\ (n = 0 => seqs = <<>>)
    OBVIOUS
  <1>2. FlattenSeq(seqs) = IF n = 0 THEN <<>> ELSE flatten[n]
    BY <1>1 DEF FlattenSeq
  <1> HIDE DEF flatten
  <1>3. /\ <<>> \in Seq(S) /\ step \in [Seq(S) \X (1..n) -> Seq(S)]
        /\ \A s \in Seq(S), i \in 1..n : step[<<s, i>>] = s \o seqs[i]
    <2>1. ASSUME NEW s \in Seq(S), NEW i \in 1..n PROVE s \o seqs[i] \in Seq(S)
      <3>1. seqs[i] \in Seq(S)
        OBVIOUS
      <3> QED BY <3>1, ConcatProperties
    <2>2. <<>> \in Seq(S)
      OBVIOUS
    <2> QED BY <2>1, <2>2
  <1> HIDE DEF step
  <1>4. PICK f \in [0..n -> Seq(S)] : Follows(f, <<>>, n, step)
    BY <1>3, Recursion
  <1>5. f[0] = <<>> /\ \A i \in 1..n : f[i] = f[i - 1] \o seqs[i]
    <2>1. \A i \in 1..n : i - 1 \in 0..n
      OBVIOUS
    <2> QED BY <1>3, <1>4, <2>1 DEF Follows
  <1>6. P([i \in 1..n |-> f[i]])
    <2> DEFINE g == [i \in 1..n |-> f[i]]
    <2>1. ASSUME NEW i \in 1..n PROVE g[i] = IF i = 1 THEN seqs[i] ELSE g[i - 1] \o seqs[i]
      <3>1. CASE i = 1
        <4>1. 1 \in 1..n /\ 1 - 1 = 0 /\ seqs[1] \in Seq(S)
          BY <3>1
        <4>2. f[1] = <<>> \o seqs[1]
          BY <1>5, <4>1
        <4>3. f[1] = seqs[1]
          BY <4>1, <4>2, ConcatEmptySeq
        <4> QED BY <3>1, <4>3
      <3>2. CASE i # 1
        <4>1. i - 1 \in 1..n
          BY <3>2
        <4> QED BY <1>5, <3>2, <4>1
      <3> QED BY <3>1, <3>2
    <2>2. g = [i \in 1..n |-> g[i]]
      OBVIOUS
    <2> HIDE DEF g
    <2>3. P(g)
      BY <2>1, <2>2
    <2> QED BY <2>3 DEF g
  <1>7. P(flatten)
    <2>1. \E g : P(g)
      <3> HIDE DEF P
      <3> QED BY <1>6
    <2> QED BY <2>1 DEF flatten
  <1>8. \A i \in 1..n : flatten[i] = IF i = 1 THEN seqs[i] ELSE flatten[i - 1] \o seqs[i]
    BY <1>7
  <1> DEFINE T == {i \in 0..n : i # 0 => flatten[i] = f[i]}
  <1>9. T = 0..n
    <2>1. T \subseteq 0..n /\ 0 \in T
      OBVIOUS
    <2>2. ASSUME NEW i \in T, i < n PROVE i + 1 \in T
      <3>1. i + 1 \in 1..n /\ i + 1 \in 0..n /\ (i + 1) - 1 = i /\ i + 1 # 0
        BY <2>2
      <3>2. f[i + 1] = f[i] \o seqs[i + 1]
        BY <1>5, <3>1
      <3>3. CASE i = 0
        <4>1. 1 \in 1..n /\ 1 - 1 = 0 /\ i + 1 = 1 /\ seqs[1] \in Seq(S)
          BY <3>1, <3>3
        <4>2. f[1] = <<>> \o seqs[1] /\ flatten[1] = seqs[1]
          BY <1>5, <1>8, <4>1
        <4>3. flatten[1] = f[1]
          BY <4>1, <4>2, ConcatEmptySeq
        <4> QED BY <3>1, <4>1, <4>3
      <3>4. CASE i # 0
        <4>1. i + 1 # 1 /\ flatten[i] = f[i]
          BY <2>2, <3>4
        <4>2. flatten[i + 1] = flatten[i] \o seqs[i + 1]
          BY <1>8, <3>1, <4>1
        <4> QED BY <3>1, <3>2, <4>1, <4>2
      <3> QED BY <3>3, <3>4
    <2> HIDE DEF T
    <2> QED BY <2>1, <2>2, CountingUpto
  <1>10. n # 0 => flatten[n] = f[n]
    <2>1. n \in 0..n
      OBVIOUS
    <2>2. n \in T
      <3> HIDE DEF T
      <3> QED BY <1>9, <2>1
    <2> QED BY <2>2
  <1>11. FlattenSeq(seqs) = f[n]
    BY <1>2, <1>5, <1>10
  <1> QED BY <1>5, <1>11

(* One sequence more is added at the end.                                   *)
LEMMA FlattenAppend ==
    ASSUME NEW S, NEW n \in Nat, NEW seqs \in [1..n -> Seq(S)],
           NEW more \in [1..(n + 1) -> Seq(S)], \A i \in 1..n : more[i] = seqs[i]
    PROVE  FlattenSeq(more) = FlattenSeq(seqs) \o more[n + 1]
  <1>1. n + 1 \in Nat /\ \A i \in 1..n : i \in 1..(n + 1)
    OBVIOUS
  <1>2. PICK f \in [0..n -> Seq(S)] :
           /\ f[0] = <<>> /\ \A i \in 1..n : f[i] = f[i - 1] \o seqs[i]
           /\ FlattenSeq(seqs) = f[n]
    BY FlattenCounts
  <1>3. PICK g \in [0..(n + 1) -> Seq(S)] :
           /\ g[0] = <<>> /\ \A i \in 1..(n + 1) : g[i] = g[i - 1] \o more[i]
           /\ FlattenSeq(more) = g[n + 1]
    BY <1>1, FlattenCounts
  <1> DEFINE T == {i \in 0..n : g[i] = f[i]}
  <1>4. T = 0..n
    <2>1. T \subseteq 0..n /\ 0 \in T
      BY <1>2, <1>3
    <2>2. ASSUME NEW i \in T, i < n PROVE i + 1 \in T
      <3>1. i + 1 \in 1..n /\ i + 1 \in 1..(n + 1) /\ (i + 1) - 1 = i /\ g[i] = f[i]
        BY <2>2
      <3>2. f[i + 1] = f[i] \o seqs[i + 1]
        BY <1>2, <3>1
      <3>3. g[i + 1] = g[i] \o seqs[i + 1]
        BY <1>1, <1>3, <3>1
      <3>4. g[i + 1] = f[i + 1] /\ i + 1 \in 0..n
        BY <3>1, <3>2, <3>3
      <3> QED BY <3>4
    <2> HIDE DEF T
    <2> QED BY <2>1, <2>2, CountingUpto
  <1>5. g[n + 1] = g[n] \o more[n + 1]
    <2>1. n + 1 \in 1..(n + 1) /\ (n + 1) - 1 = n
      OBVIOUS
    <2> QED BY <1>1, <1>3, <2>1
  <1>6. g[n] = f[n] /\ f[n] \in Seq(S)
    <2>1. n \in 0..n
      OBVIOUS
    <2>2. n \in T
      <3> HIDE DEF T
      <3> QED BY <1>4, <2>1
    <2> QED BY <1>2, <2>1, <2>2
  <1> QED BY <1>2, <1>3, <1>5, <1>6

-----------------------------------------------------------------------------
(* The bytes of properties, one after the other.                            *)

Short(property) == Len(property.edt) <= 255
ShortProperties == {property \in Properties : Short(property)}

Body(properties) == FlattenSeq([i \in DOMAIN properties |-> EncodeProperty(properties[i])])

(* The EPC, the length and the EDT of a property in its bytes.              *)
LEMMA PropertyBytes ==
    ASSUME NEW p \in ShortProperties
    PROVE  /\ EncodeProperty(p) \in Seq(Byte) /\ Len(EncodeProperty(p)) = 2 + Len(p.edt)
           /\ p.epc \in Byte /\ p.edt \in Seq(Byte) /\ Len(p.edt) \in Byte
           /\ EncodeProperty(p)[1] = p.epc /\ EncodeProperty(p)[2] = Len(p.edt)
           /\ \A j \in 1..Len(p.edt) : EncodeProperty(p)[2 + j] = p.edt[j]
  <1> DEFINE head == <<p.epc, Len(p.edt)>>
             edt == p.edt
  <1>1. p.epc \in Byte /\ edt \in Seq(Byte) /\ Len(edt) \in Byte
    <2>1. p.epc \in Byte /\ edt \in Seq(Byte) /\ Len(edt) <= 255
      BY DEF ShortProperties, Properties, Short
    <2>2. Len(edt) \in Nat
      BY <2>1
    <2>3. \A l \in Nat : l <= 255 => l \in Byte
      BY DEF Byte
    <2> HIDE DEF edt
    <2> QED BY <2>1, <2>2, <2>3
  <1>2. head \in Seq(Byte) /\ Len(head) = 2 /\ head[1] = p.epc /\ head[2] = Len(edt)
    BY <1>1
  <1>3. EncodeProperty(p) = head \o edt
    BY DEF EncodeProperty
  <1> HIDE DEF head, edt
  <1>4. /\ head \o edt \in Seq(Byte) /\ Len(head \o edt) = 2 + Len(edt)
        /\ (head \o edt)[1] = head[1] /\ (head \o edt)[2] = head[2]
        /\ \A j \in 1..Len(edt) : (head \o edt)[2 + j] = edt[j]
    <2>1. \A j \in 1..Len(edt) : 2 + j \in 1..(2 + Len(edt)) /\ (2 + j) - 2 = j /\ ~(2 + j <= 2)
      BY <1>1
    <2>2. 1 \in 1..(2 + Len(edt)) /\ 2 \in 1..(2 + Len(edt)) /\ 1 <= 2
      BY <1>1
    <2>3. /\ head \o edt \in Seq(Byte) /\ Len(head \o edt) = 2 + Len(edt)
          /\ \A i \in 1..(2 + Len(edt)) :
                (head \o edt)[i] = IF i <= 2 THEN head[i] ELSE edt[i - 2]
      <3>1. /\ head \o edt \in Seq(Byte) /\ Len(head \o edt) = Len(head) + Len(edt)
            /\ \A i \in 1..(Len(head) + Len(edt)) :
                  (head \o edt)[i] = IF i <= Len(head) THEN head[i] ELSE edt[i - Len(head)]
        BY <1>1, <1>2, ConcatProperties, Zenon
      <3> QED BY <1>2, <3>1
    <2> QED BY <2>1, <2>2, <2>3
  <1> QED BY <1>1, <1>2, <1>3, <1>4 DEF edt

(* The bytes of one property more come after those before.                  *)
LEMMA BodyAppend ==
    ASSUME NEW qs \in Seq(ShortProperties), NEW p \in ShortProperties
    PROVE  /\ Body(qs) \in Seq(Byte) /\ Body(<<>>) = <<>>
           /\ Body(Append(qs, p)) = Body(qs) \o EncodeProperty(p)
  <1> DEFINE n == Len(qs)
             seqs == [i \in 1..n |-> EncodeProperty(qs[i])]
             next == EncodeProperty(p)
             all == Append(qs, p)
  <1>1. /\ n \in Nat /\ DOMAIN qs = 1..n /\ DOMAIN all = 1..(n + 1)
        /\ \A i \in 1..n : qs[i] \in ShortProperties /\ all[i] = qs[i]
        /\ all[n + 1] = p
    OBVIOUS
  <1>2. seqs \in [1..n -> Seq(Byte)] /\ next \in Seq(Byte)
    <2>1. \A i \in 1..n : EncodeProperty(qs[i]) \in Seq(Byte)
      BY <1>1, PropertyBytes
    <2> QED BY <2>1, PropertyBytes
  <1>3. Body(qs) = FlattenSeq(seqs)
    BY <1>1 DEF Body
  <1> DEFINE more == [i \in 1..(n + 1) |-> EncodeProperty(all[i])]
  <1>4. /\ more \in [1..(n + 1) -> Seq(Byte)] /\ more[n + 1] = next
        /\ \A i \in 1..n : more[i] = seqs[i]
    <2>1. \A i \in 1..n : i \in 1..(n + 1) /\ EncodeProperty(all[i]) = EncodeProperty(qs[i])
      BY <1>1
    <2>2. \A i \in 1..(n + 1) : i \in 1..n \/ i = n + 1
      BY <1>1
    <2>3. n + 1 \in 1..(n + 1) /\ EncodeProperty(all[n + 1]) = next
      BY <1>1
    <2>4. \A i \in 1..(n + 1) : EncodeProperty(all[i]) \in Seq(Byte)
      BY <1>1, <1>2, <2>1, <2>2, <2>3, PropertyBytes
    <2> HIDE DEF all, next
    <2> QED BY <2>1, <2>3, <2>4
  <1>5. Body(all) = FlattenSeq(more)
    BY <1>1 DEF Body
  <1>6. Body(<<>>) = <<>>
    <2>1. [i \in DOMAIN <<>> |-> EncodeProperty((<<>>)[i])] = <<>>
      OBVIOUS
    <2> QED BY <2>1 DEF Body, FlattenSeq
  <1> HIDE DEF n, seqs, next, more, all
  <1>7. FlattenSeq(seqs) \in Seq(Byte) /\ FlattenSeq(more) = FlattenSeq(seqs) \o next
    <2>1. FlattenSeq(more) = FlattenSeq(seqs) \o more[n + 1]
      BY <1>1, <1>2, <1>4, FlattenAppend, Zenon
    <2>2. FlattenSeq(seqs) \in Seq(Byte)
      <3>1. PICK f \in [0..n -> Seq(Byte)] :
               /\ f[0] = <<>> /\ \A i \in 1..n : f[i] = f[i - 1] \o seqs[i]
               /\ FlattenSeq(seqs) = f[n]
        BY <1>1, <1>2, FlattenCounts
      <3> QED BY <1>1, <3>1
    <2> QED BY <1>4, <2>1, <2>2
  <1> QED BY <1>3, <1>5, <1>6, <1>7 DEF next, all

(* One turn of the loop of decode. *)
LEMMA ReadPropertyType ==
    ASSUME NEW data \in Seq(Byte), NEW read \in Reading \cup {None}
    PROVE  ReadProperty(data, read) \in Reading \cup {None}
  <1> SUFFICES ASSUME ReadProperty(data, read) # None
               PROVE  ReadProperty(data, read) \in Reading
    OBVIOUS
  <1>1. read \in Reading
    BY DEF ReadProperty
  <1> DEFINE o == read.offset
             qs == read.properties
             end == o + 2 + data[o + 2]
             edt == SubSeq(data, o + 3, end)
             p == Property(data[o + 1], edt)
  <1>2. o \in Nat /\ qs \in Seq(Properties)
    BY <1>1 DEF Reading
  <1>3. /\ ReadProperty(data, read) = [offset |-> end, properties |-> Append(qs, p)]
        /\ ~(o + 2 > Len(data)) /\ ~(end > Len(data))
    BY <1>1, Zenon DEF ReadProperty
  <1> HIDE DEF o, qs, edt, p, end
  <1>4. o + 1 \in 1..Len(data) /\ o + 2 \in 1..Len(data)
    BY <1>2, <1>3
  <1>5. data[o + 1] \in Byte /\ data[o + 2] \in Byte
    BY <1>4
  <1>6. data[o + 2] \in Nat
    <2>1. \A b \in Byte : b \in Nat
      BY DEF Byte
    <2> QED BY <1>5, <2>1
  <1>7. end \in Nat
    BY <1>2, <1>6 DEF end
  <1>8. edt \in Seq(Byte)
    <2>1. o + 3 \in Int /\ end \in Int /\ \A i \in (o + 3)..end : i \in 1..Len(data)
      BY <1>2, <1>3, <1>7
    <2>2. \A i \in (o + 3)..end : data[i] \in Byte
      BY <2>1
    <2> QED BY <2>1, <2>2, SubSeqProperties DEF edt
  <1>9. p \in Properties
    BY <1>5, <1>8 DEF p, Property, Properties
  <1>10. Append(qs, p) \in Seq(Properties)
    BY <1>2, <1>9
  <1> QED BY <1>3, <1>7, <1>10 DEF Reading

(* The loop of decode: as many turns as the count of the header says.       *)
LEMMA ReadingCounts ==
    ASSUME NEW data \in Seq(Byte), Len(data) >= 12
    PROVE  /\ data[12] \in Byte /\ data[12] \in Nat
           /\ \E read \in [0..data[12] -> Reading \cup {None}] :
                /\ read[0] = [offset |-> 12, properties |-> <<>>]
                /\ \A i \in 1..data[12] : read[i] = ReadProperty(data, read[i - 1])
                /\ ReadProperties(data) = read[data[12]]
  <1> DEFINE n == data[12]
             V == Reading \cup {None}
             base == [offset |-> 12, properties |-> <<>>]
             step == [x \in V \X (1..n) |-> ReadProperty(data, x[1])]
             P(f) == f = [i \in 0..n |-> IF i = 0 THEN base ELSE ReadProperty(data, f[i - 1])]
             read == CHOOSE f : P(f)
  <1>1. n \in Byte /\ n \in Nat
    <2>1. data[12] \in Byte
      OBVIOUS
    <2>2. \A b \in Byte : b \in Nat
      BY DEF Byte
    <2> QED BY <2>1, <2>2
  <1>2. ReadProperties(data) = read[n]
    BY DEF ReadProperties
  <1> HIDE DEF read, n
  <1>3. base \in V
    BY DEF Reading
  <1> HIDE DEF base
  <1>4. /\ step \in [V \X (1..n) -> V]
        /\ \A r \in V, i \in 1..n : step[<<r, i>>] = ReadProperty(data, r)
    <2>1. \A r \in V : ReadProperty(data, r) \in V
      BY ReadPropertyType
    <2> HIDE DEF V
    <2> QED BY <2>1
  <1> HIDE DEF step, V
  <1>5. PICK f \in [0..n -> V] : Follows(f, base, n, step)
    BY <1>1, <1>3, <1>4, Recursion
  <1>6. f[0] = base /\ \A i \in 1..n : f[i] = ReadProperty(data, f[i - 1])
    <2>1. \A i \in 1..n : i - 1 \in 0..n
      BY <1>1
    <2> QED BY <1>4, <1>5, <2>1 DEF Follows
  <1>7. P(f)
    <2>1. f = [i \in 0..n |-> f[i]]
      BY <1>5
    <2>2. \A i \in 0..n : i # 0 => i \in 1..n
      BY <1>1
    <2>3. \A i \in 0..n : f[i] = IF i = 0 THEN base ELSE ReadProperty(data, f[i - 1])
      BY <1>6, <2>2
    <2> QED BY <2>1, <2>3
  <1>8. P(read)
    <2>1. \E g : P(g)
      <3> HIDE DEF P
      <3> QED BY <1>7
    <2> QED BY <2>1 DEF read
  <1>9. read[0] = base /\ \A i \in 1..n : read[i] = ReadProperty(data, read[i - 1])
    <2>1. 0 \in 0..n /\ \A i \in 1..n : i \in 0..n /\ i # 0
      BY <1>1
    <2> QED BY <1>8, <2>1
  <1> DEFINE T == {i \in 0..n : read[i] = f[i]}
  <1>10. T = 0..n
    <2>1. T \subseteq 0..n /\ 0 \in T
      BY <1>1, <1>6, <1>9
    <2>2. ASSUME NEW i \in T, i < n PROVE i + 1 \in T
      <3>1. i + 1 \in 1..n /\ i + 1 \in 0..n /\ (i + 1) - 1 = i /\ read[i] = f[i]
        BY <1>1, <2>2
      <3>2. read[i + 1] = ReadProperty(data, read[i]) /\ f[i + 1] = ReadProperty(data, f[i])
        BY <1>6, <1>9, <3>1
      <3> QED BY <3>1, <3>2
    <2> HIDE DEF T
    <2> QED BY <1>1, <2>1, <2>2, CountingUpto
  <1>11. read[n] = f[n]
    <2>1. n \in 0..n
      BY <1>1
    <2>2. n \in T
      <3> HIDE DEF T
      <3> QED BY <1>10, <2>1
    <2> QED BY <2>2
  <1>12. ReadProperties(data) = f[n]
    BY <1>2, <1>11
  <1> QED BY <1>1, <1>5, <1>6, <1>12 DEF n, V, base

(* A property that the data hold from an offset on, as far as they go, is   *)
(* read from there, if they hold all of it.                                 *)
LEMMA ReadsProperty ==
    ASSUME NEW data \in Seq(Byte), NEW o \in Nat, o <= Len(data), NEW qs \in Seq(Properties),
           NEW p \in ShortProperties,
           \A j \in 1..Len(EncodeProperty(p)) :
              o + j <= Len(data) => data[o + j] = EncodeProperty(p)[j]
    PROVE  ReadProperty(data, [offset |-> o, properties |-> qs])
             = IF o + Len(EncodeProperty(p)) <= Len(data)
               THEN [offset |-> o + Len(EncodeProperty(p)), properties |-> Append(qs, p)]
               ELSE None
  <1> DEFINE read == [offset |-> o, properties |-> qs]
             edt == p.edt
             l == Len(edt)
             m == Len(data)
             bytes == EncodeProperty(p)
  <1>1. /\ Len(bytes) = 2 + l /\ p.epc \in Byte /\ edt \in Seq(Byte) /\ l \in Byte
        /\ bytes[1] = p.epc /\ bytes[2] = l /\ \A j \in 1..l : bytes[2 + j] = edt[j]
    BY PropertyBytes
  <1>2. l \in Nat /\ m \in Nat
    BY <1>1 DEF Byte
  <1>3. read \in Reading /\ read # None /\ read.offset = o /\ read.properties = qs
    <2>1. read \in Reading
      BY DEF Reading
    <2> QED BY <2>1, FrameAssumption
  <1>4. p = Property(p.epc, edt)
    BY DEF ShortProperties, Properties, Property
  <1> DEFINE end == o + 2 + data[o + 2]
  <1>5. ReadProperty(data, read)
          = IF o + 2 > m THEN None
            ELSE IF end > m THEN None
            ELSE [offset |-> end,
                  properties |-> Append(qs, Property(data[o + 1], SubSeq(data, o + 3, end)))]
    BY <1>3 DEF ReadProperty
  <1> HIDE DEF read, edt, l, m, bytes, end
  <1>6. \A j \in 1..(2 + l) : o + j <= m => data[o + j] = bytes[j]
    BY <1>1 DEF m, bytes
  <1>7. CASE o + 2 > m
    <2>1. ~(o + Len(bytes) <= m)
      BY <1>1, <1>2, <1>7
    <2> QED BY <1>5, <1>7, <2>1 DEF read, m, bytes
  <1>8. CASE ~(o + 2 > m)
    <2>1. 1 \in 1..(2 + l) /\ 2 \in 1..(2 + l) /\ o + 1 <= m /\ o + 2 <= m
      BY <1>2, <1>8
    <2>2. data[o + 1] = p.epc /\ data[o + 2] = l
      BY <1>1, <1>6, <2>1
    <2>3. end = o + Len(bytes) /\ end = o + 2 + l
      BY <1>1, <1>2, <2>2 DEF end
    <2>4. CASE end > m
      <3>1. ~(o + Len(bytes) <= m)
        BY <1>2, <2>3, <2>4
      <3> QED BY <1>5, <1>8, <2>4, <3>1 DEF read, m, bytes
    <2>5. CASE ~(end > m)
      <3>1. end <= m /\ end \in Int /\ o + 3 \in Int
        BY <1>2, <2>3, <2>5
      <3>2. SubSeq(data, o + 3, end) = edt
        <4> DEFINE part == SubSeq(data, o + 3, end)
        <4>1. \A i \in (o + 3)..end : i \in 1..m
          BY <1>2, <3>1
        <4>2. \A i \in (o + 3)..end : data[i] \in Byte
          BY <4>1 DEF m
        <4>3. /\ part \in Seq(Byte)
              /\ Len(part) = IF o + 3 <= end THEN end - (o + 3) + 1 ELSE 0
              /\ \A i \in 1..(end - (o + 3) + 1) : part[i] = data[(o + 3) + i - 1]
          BY <3>1, <4>2, SubSeqProperties
        <4>4. end - (o + 3) + 1 = l /\ (o + 3 <= end \/ l = 0)
          BY <1>2, <2>3
        <4>5. Len(part) = l
          BY <4>3, <4>4
        <4> HIDE DEF part
        <4>6. ASSUME NEW i \in 1..l PROVE part[i] = edt[i]
          <5>0. i \in Nat /\ 1 <= i /\ i <= l /\ end = o + 2 + l /\ end <= m
            BY <1>2, <2>3, <3>1
          <5>1. /\ (o + 3) + i - 1 = o + (2 + i) /\ o + (2 + i) <= m /\ 2 + i \in 1..(2 + l)
            BY <1>2, <5>0
          <5>2. part[i] = data[o + (2 + i)]
            BY <4>3, <4>4, <5>1
          <5>3. data[o + (2 + i)] = bytes[2 + i]
            BY <1>6, <5>1
          <5> QED BY <1>1, <5>2, <5>3
        <4> QED BY <1>1, <4>3, <4>5, <4>6, SameElements DEF l, part
      <3>3. ReadProperty(data, read) = [offset |-> o + Len(bytes), properties |-> Append(qs, p)]
        BY <1>4, <1>5, <1>8, <2>2, <2>3, <2>5, <3>2
      <3>4. o + Len(bytes) <= m
        BY <2>3, <3>1
      <3> QED BY <3>3, <3>4 DEF read, m, bytes
    <2> QED BY <2>4, <2>5
  <1> QED BY <1>7, <1>8

(* t begins with s. *)
Begins(s, t) == Len(s) <= Len(t) /\ \A i \in 1..Len(s) : t[i] = s[i]

(* Beginning a sequence is a matter of its elements. *)
LEMMA PrefixElements ==
    ASSUME NEW S, NEW s \in Seq(S), NEW t \in Seq(S), Begins(s, t)
    PROVE  IsPrefix(s, t)
  <1>1. Len(s) \in Nat /\ Len(t) \in Nat /\ Len(s) <= Len(t)
    BY DEF Begins
  <1> DEFINE part == SubSeq(t, 1, Len(s))
  <1>2. /\ part \in Seq(S) /\ Len(part) = Len(s)
        /\ \A i \in 1..Len(s) : part[i] = t[i]
    <2>1. \A i \in 1..Len(s) : t[i] \in S
      BY <1>1
    <2>2. /\ part \in Seq(S)
          /\ Len(part) = IF 1 <= Len(s) THEN Len(s) - 1 + 1 ELSE 0
          /\ \A i \in 1..(Len(s) - 1 + 1) : part[i] = t[1 + i - 1]
      BY <1>1, <2>1, SubSeqProperties
    <2>3. Len(part) = Len(s) /\ Len(s) - 1 + 1 = Len(s)
      BY <1>1, <2>2
    <2>4. \A i \in 1..Len(s) : 1 + i - 1 = i
      BY <1>1
    <2> HIDE DEF part
    <2> QED BY <2>2, <2>3, <2>4
  <1> HIDE DEF part
  <1>3. part = s
    <2>1. \A i \in 1..Len(s) : part[i] = s[i]
      BY <1>2 DEF Begins
    <2> QED BY <1>2, <2>1, SameElements
  <1>4. \A i \in 1..Len(s) : s[i] = t[i]
    BY DEF Begins
  <1>5. SubSeq(s, 1, Len(s)) = s
    OBVIOUS
  <1> QED BY <1>1, <1>3, <1>4, <1>5 DEF IsPrefix, part

(* The first properties and the next one. *)
LEMMA FirstOnes ==
    ASSUME NEW S, NEW ps \in Seq(S), NEW i \in 0..Len(ps)
    PROVE  /\ SubSeq(ps, 1, i) \in Seq(S) /\ Len(SubSeq(ps, 1, i)) = i
           /\ i < Len(ps) => /\ ps[i + 1] \in S
                             /\ SubSeq(ps, 1, i + 1) = Append(SubSeq(ps, 1, i), ps[i + 1])
  OBVIOUS

(* What the first properties are encoded to begins what all are encoded to. *)
LEMMA BodyBegins ==
    ASSUME NEW ps \in Seq(ShortProperties), NEW i \in 0..Len(ps)
    PROVE  /\ Body(SubSeq(ps, 1, i)) \in Seq(Byte)
           /\ Begins(Body(SubSeq(ps, 1, i)), Body(ps))
           /\ i < Len(ps) =>
                Body(SubSeq(ps, 1, i + 1)) = Body(SubSeq(ps, 1, i)) \o EncodeProperty(ps[i + 1])
  <1> DEFINE n == Len(ps)
             B(k) == Body(SubSeq(ps, 1, k))
             T == {k \in 0..n : k >= i => Begins(B(i), B(k))}
  <1>1. n \in Nat /\ i \in Nat /\ i <= n /\ SubSeq(ps, 1, n) = ps
    OBVIOUS
  <1>2. ASSUME NEW k \in 0..n
        PROVE  /\ B(k) \in Seq(Byte) /\ Len(B(k)) \in Nat
               /\ k < n => /\ ps[k + 1] \in ShortProperties
                           /\ B(k + 1) = B(k) \o EncodeProperty(ps[k + 1])
    <2>1. SubSeq(ps, 1, k) \in Seq(ShortProperties)
      BY FirstOnes
    <2>2. k < n => /\ ps[k + 1] \in ShortProperties
                   /\ SubSeq(ps, 1, k + 1) = Append(SubSeq(ps, 1, k), ps[k + 1])
      BY FirstOnes
    <2>3. B(k) \in Seq(Byte)
      <3>1. \E p : p \in ShortProperties
        <4>1. [epc |-> 0, edt |-> <<>>] \in ShortProperties
          BY DEF ShortProperties, Short, Properties, Byte
        <4> QED BY <4>1
      <3> QED BY <2>1, <3>1, BodyAppend
    <2>4. Len(B(k)) \in Nat
      <3> DEFINE b == B(k)
      <3>1. b \in Seq(Byte)
        BY <2>3
      <3> HIDE DEF b
      <3>2. Len(b) \in Nat
        BY <3>1
      <3> QED BY <3>2 DEF b
    <2>5. k < n => B(k + 1) = B(k) \o EncodeProperty(ps[k + 1])
      BY <2>1, <2>2, BodyAppend
    <2> QED BY <2>2, <2>3, <2>4, <2>5
  <1> HIDE DEF B, n
  <1>3. T = 0..n
    <2>1. T \subseteq 0..n
      OBVIOUS
    <2>2. i \in 0..n
      BY <1>1
    <2>3. Begins(B(i), B(i))
      BY <1>2, <2>2 DEF Begins
    <2>4. 0 \in T
      BY <1>1, <2>3
    <2>5. ASSUME NEW k \in T, k < n PROVE k + 1 \in T
      <3>1. k \in 0..n /\ k + 1 \in 0..n
        BY <1>1, <2>5
      <3>2. SUFFICES ASSUME k + 1 >= i PROVE Begins(B(i), B(k + 1))
        BY <3>1
      <3>3. CASE k + 1 = i
        BY <2>3, <3>3
      <3>4. CASE k + 1 # i
        <4>1. Begins(B(i), B(k))
          BY <1>1, <3>1, <3>2, <3>4
        <4> DEFINE s == B(k)
                   t == EncodeProperty(ps[k + 1])
        <4>2. s \in Seq(Byte) /\ t \in Seq(Byte) /\ B(k + 1) = s \o t
          BY <1>2, <2>5, <3>1, PropertyBytes
        <4> HIDE DEF s, t
        <4>3. /\ Len(s \o t) = Len(s) + Len(t) /\ Len(s) \in Nat /\ Len(t) \in Nat
              /\ \A x \in 1..(Len(s) + Len(t)) : (s \o t)[x] = IF x <= Len(s) THEN s[x] ELSE t[x - Len(s)]
          BY <4>2, ConcatProperties, LenProperties, Zenon
        <4>4. Len(B(i)) <= Len(s) /\ \A x \in 1..Len(B(i)) : s[x] = B(i)[x]
          BY <4>1 DEF Begins, s
        <4>5. Len(B(i)) \in Nat
          BY <1>2, <2>2
        <4>6. \A x \in 1..Len(B(i)) : x \in 1..(Len(s) + Len(t)) /\ x <= Len(s)
          BY <4>3, <4>4, <4>5
        <4>7. \A x \in 1..Len(B(i)) : (s \o t)[x] = B(i)[x]
          BY <4>3, <4>4, <4>6
        <4>8. Len(B(i)) <= Len(s \o t)
          BY <4>3, <4>4, <4>5
        <4> QED BY <4>2, <4>7, <4>8 DEF Begins
      <3> QED BY <3>3, <3>4
    <2> HIDE DEF T
    <2> QED BY <1>1, <2>1, <2>4, <2>5, CountingUpto
  <1>4. Begins(B(i), B(n))
    <2>1. n \in T
      <3>1. n \in 0..n
        BY <1>1
      <3> HIDE DEF T
      <3> QED BY <1>3, <3>1
    <2> QED BY <1>1, <2>1
  <1> QED BY <1>1, <1>2, <1>4 DEF B, n

(* A concatenation, element by element. *)
Joins(S, u, s, t) ==
    /\ u \in Seq(S) /\ Len(s) \in Nat /\ Len(t) \in Nat
    /\ Len(u) = Len(s) + Len(t)
    /\ \A i \in 1..Len(s) : u[i] = s[i]
    /\ \A i \in 1..Len(t) : u[Len(s) + i] = t[i]

(* Concatenation keeps the elements of both.                                *)
LEMMA Joined ==
    ASSUME NEW S, NEW s \in Seq(S), NEW t \in Seq(S)
    PROVE  Joins(S, s \o t, s, t)
  <1>1. /\ s \o t \in Seq(S) /\ Len(s) \in Nat /\ Len(t) \in Nat
        /\ Len(s \o t) = Len(s) + Len(t)
        /\ \A i \in 1..(Len(s) + Len(t)) :
              (s \o t)[i] = IF i <= Len(s) THEN s[i] ELSE t[i - Len(s)]
    BY ConcatProperties, LenProperties, Zenon
  <1>2. \A i \in 1..Len(s) : i \in 1..(Len(s) + Len(t)) /\ i <= Len(s)
    BY <1>1
  <1>3. \A i \in 1..Len(t) : /\ Len(s) + i \in 1..(Len(s) + Len(t)) /\ ~(Len(s) + i <= Len(s))
                             /\ (Len(s) + i) - Len(s) = i
    BY <1>1
  <1> QED BY <1>1, <1>2, <1>3 DEF Joins

(* u is s and one, two or three elements more. *)
Two(S, u, s, a, b) ==
    /\ u \in Seq(S) /\ Len(u) = Len(s) + 2 /\ \A i \in 1..Len(s) : u[i] = s[i]
    /\ u[Len(s) + 1] = a /\ u[Len(s) + 2] = b

Three(S, u, s, a, b, c) ==
    /\ u \in Seq(S) /\ Len(u) = Len(s) + 3 /\ \A i \in 1..Len(s) : u[i] = s[i]
    /\ u[Len(s) + 1] = a /\ u[Len(s) + 2] = b /\ u[Len(s) + 3] = c

(* Two elements added at the end.                                           *)
LEMMA TwoMore ==
    ASSUME NEW S, NEW s \in Seq(S), NEW a \in S, NEW b \in S
    PROVE  Two(S, s \o <<a, b>>, s, a, b)
  <1> DEFINE u == <<a, b>>
  <1>1. u \in Seq(S) /\ Len(u) = 2 /\ u[1] = a /\ u[2] = b /\ 1 \in 1..2 /\ 2 \in 1..2
    OBVIOUS
  <1> HIDE DEF u
  <1>2. /\ s \o u \in Seq(S) /\ Len(s \o u) = Len(s) + Len(u)
        /\ \A i \in 1..(Len(s) + Len(u)) :
              (s \o u)[i] = IF i <= Len(s) THEN s[i] ELSE u[i - Len(s)]
    BY <1>1, ConcatProperties, Zenon
  <1>3. Len(s) \in Nat
    OBVIOUS
  <1>4. (s \o u)[Len(s) + 1] = a /\ (s \o u)[Len(s) + 2] = b
    BY <1>1, <1>2, <1>3
  <1>5. \A i \in 1..Len(s) : (s \o u)[i] = s[i]
    BY <1>1, <1>2, <1>3
  <1> QED BY <1>1, <1>2, <1>4, <1>5 DEF u, Two

(* Three elements added at the end.                                         *)
LEMMA ThreeMore ==
    ASSUME NEW S, NEW s \in Seq(S), NEW a \in S, NEW b \in S, NEW c \in S
    PROVE  Three(S, s \o <<a, b, c>>, s, a, b, c)
  <1> DEFINE u == <<a, b, c>>
  <1>1. /\ u \in Seq(S) /\ Len(u) = 3 /\ u[1] = a /\ u[2] = b /\ u[3] = c
        /\ 1 \in 1..3 /\ 2 \in 1..3 /\ 3 \in 1..3
    OBVIOUS
  <1> HIDE DEF u
  <1>2. /\ s \o u \in Seq(S) /\ Len(s \o u) = Len(s) + Len(u)
        /\ \A i \in 1..(Len(s) + Len(u)) :
              (s \o u)[i] = IF i <= Len(s) THEN s[i] ELSE u[i - Len(s)]
    BY <1>1, ConcatProperties, Zenon
  <1>3. Len(s) \in Nat
    OBVIOUS
  <1>4. (s \o u)[Len(s) + 1] = a /\ (s \o u)[Len(s) + 2] = b /\ (s \o u)[Len(s) + 3] = c
    BY <1>1, <1>2, <1>3
  <1>5. \A i \in 1..Len(s) : (s \o u)[i] = s[i]
    BY <1>1, <1>2, <1>3
  <1> QED BY <1>1, <1>2, <1>4, <1>5 DEF u, Three

(* Two and three elements next to each other. *)
LEMMA PartOfTwo ==
    ASSUME NEW S, NEW s \in Seq(S), NEW i \in 1..Len(s), i + 1 <= Len(s)
    PROVE  SubSeq(s, i, i + 1) = <<s[i], s[i + 1]>>
  <1> DEFINE part == SubSeq(s, i, i + 1)
             two == <<s[i], s[i + 1]>>
  <1>1. s[i] \in S /\ s[i + 1] \in S /\ \A j \in i..(i + 1) : s[j] \in S
    OBVIOUS
  <1>2. two \in Seq(S) /\ Len(two) = 2 /\ two[1] = s[i] /\ two[2] = s[i + 1]
    BY <1>1
  <1>3. /\ part \in Seq(S) /\ Len(part) = IF i <= i + 1 THEN (i + 1) - i + 1 ELSE 0
        /\ \A j \in 1..((i + 1) - i + 1) : part[j] = s[i + j - 1]
    BY <1>1, SubSeqProperties
  <1> HIDE DEF part, two
  <1>4. Len(part) = 2 /\ part[1] = s[i] /\ part[2] = s[i + 1]
    <2>1. /\ (i + 1) - i + 1 = 2 /\ i <= i + 1 /\ i + 1 - 1 = i /\ i + 2 - 1 = i + 1
          /\ 1 \in 1..2 /\ 2 \in 1..2
      OBVIOUS
    <2> QED BY <1>3, <2>1
  <1>5. \A j \in 1..2 : j = 1 \/ j = 2
    OBVIOUS
  <1>6. \A j \in 1..Len(part) : part[j] = two[j]
    BY <1>2, <1>4, <1>5
  <1>7. part = two
    BY <1>2, <1>3, <1>4, <1>6, SameElements
  <1> QED BY <1>7 DEF part, two

(* Three elements next to each other.                                       *)
LEMMA PartOfThree ==
    ASSUME NEW S, NEW s \in Seq(S), NEW i \in 1..Len(s), i + 2 <= Len(s)
    PROVE  SubSeq(s, i, i + 2) = <<s[i], s[i + 1], s[i + 2]>>
  <1> DEFINE part == SubSeq(s, i, i + 2)
             three == <<s[i], s[i + 1], s[i + 2]>>
  <1>1. /\ s[i] \in S /\ s[i + 1] \in S /\ s[i + 2] \in S
        /\ \A j \in i..(i + 2) : s[j] \in S
    OBVIOUS
  <1>2. /\ three \in Seq(S) /\ Len(three) = 3
        /\ three[1] = s[i] /\ three[2] = s[i + 1] /\ three[3] = s[i + 2]
    BY <1>1
  <1>3. /\ part \in Seq(S) /\ Len(part) = IF i <= i + 2 THEN (i + 2) - i + 1 ELSE 0
        /\ \A j \in 1..((i + 2) - i + 1) : part[j] = s[i + j - 1]
    BY <1>1, SubSeqProperties
  <1> HIDE DEF part, three
  <1>4. Len(part) = 3 /\ part[1] = s[i] /\ part[2] = s[i + 1] /\ part[3] = s[i + 2]
    <2>1. /\ (i + 2) - i + 1 = 3 /\ i <= i + 2
          /\ i + 1 - 1 = i /\ i + 2 - 1 = i + 1 /\ i + 3 - 1 = i + 2
          /\ 1 \in 1..3 /\ 2 \in 1..3 /\ 3 \in 1..3
      OBVIOUS
    <2> QED BY <1>3, <2>1
  <1>5. \A j \in 1..3 : j = 1 \/ j = 2 \/ j = 3
    OBVIOUS
  <1>6. \A j \in 1..Len(part) : part[j] = three[j]
    BY <1>2, <1>4, <1>5
  <1>7. part = three
    BY <1>2, <1>3, <1>4, <1>6, SameElements
  <1> QED BY <1>7 DEF part, three

(* The twelve bytes before the properties. *)
IsHead(h, b1, b2, b3, b4, b5, b6, b7, b8, b9, b10, b11, b12) ==
    /\ h \in Seq(Byte) /\ Len(h) = 12
    /\ h[1] = b1 /\ h[2] = b2 /\ h[3] = b3 /\ h[4] = b4 /\ h[5] = b5 /\ h[6] = b6
    /\ h[7] = b7 /\ h[8] = b8 /\ h[9] = b9 /\ h[10] = b10 /\ h[11] = b11 /\ h[12] = b12

(* Parts of two and three bytes make the head of a frame.                   *)
LEMMA Twelve ==
    ASSUME NEW b \in [1..12 -> Byte]
    PROVE  IsHead(<<b[1], b[2]>> \o <<b[3], b[4]>> \o <<b[5], b[6], b[7]>> \o <<b[8], b[9], b[10]>>
                      \o <<b[11], b[12]>>,
                  b[1], b[2], b[3], b[4], b[5], b[6], b[7], b[8], b[9], b[10], b[11], b[12])
  <1> DEFINE s == <<b[1], b[2]>>
             t == s \o <<b[3], b[4]>>
             u == t \o <<b[5], b[6], b[7]>>
             v == u \o <<b[8], b[9], b[10]>>
             w == v \o <<b[11], b[12]>>
  <1>0. /\ b[1] \in Byte /\ b[2] \in Byte /\ b[3] \in Byte /\ b[4] \in Byte /\ b[5] \in Byte
        /\ b[6] \in Byte /\ b[7] \in Byte /\ b[8] \in Byte /\ b[9] \in Byte /\ b[10] \in Byte
        /\ b[11] \in Byte /\ b[12] \in Byte
    OBVIOUS
  <1>1. s \in Seq(Byte) /\ Len(s) = 2 /\ s[1] = b[1] /\ s[2] = b[2]
    BY <1>0
  <1> HIDE DEF s
  <1>2. t \in Seq(Byte) /\ Len(t) = 4 /\ t[1] = b[1] /\ t[2] = b[2] /\ t[3] = b[3] /\ t[4] = b[4]
    <2>1. Two(Byte, t, s, b[3], b[4])
      BY <1>0, <1>1, TwoMore
    <2> QED BY <1>1, <2>1 DEF Two
  <1> HIDE DEF t
  <1>3. /\ u \in Seq(Byte) /\ Len(u) = 7 /\ \A i \in 1..4 : u[i] = t[i]
        /\ u[5] = b[5] /\ u[6] = b[6] /\ u[7] = b[7]
    <2>1. Three(Byte, u, t, b[5], b[6], b[7])
      BY <1>0, <1>2, ThreeMore
    <2> QED BY <1>2, <2>1 DEF Three
  <1> HIDE DEF u
  <1>4. /\ v \in Seq(Byte) /\ Len(v) = 10 /\ \A i \in 1..7 : v[i] = u[i]
        /\ v[8] = b[8] /\ v[9] = b[9] /\ v[10] = b[10]
    <2>1. Three(Byte, v, u, b[8], b[9], b[10])
      BY <1>0, <1>3, ThreeMore
    <2> QED BY <1>3, <2>1 DEF Three
  <1> HIDE DEF v
  <1>5. /\ w \in Seq(Byte) /\ Len(w) = 12 /\ \A i \in 1..10 : w[i] = v[i]
        /\ w[11] = b[11] /\ w[12] = b[12]
    <2>1. Two(Byte, w, v, b[11], b[12])
      BY <1>0, <1>4, TwoMore
    <2> QED BY <1>4, <2>1 DEF Two
  <1> HIDE DEF w
  <1>6. IsHead(w, b[1], b[2], b[3], b[4], b[5], b[6], b[7], b[8], b[9], b[10], b[11], b[12])
    <2>1. v[1] = b[1] /\ v[2] = b[2] /\ v[3] = b[3] /\ v[4] = b[4] /\ v[5] = b[5] /\ v[6] = b[6] /\ v[7] = b[7]
      BY <1>2, <1>3, <1>4
    <2> QED BY <1>4, <1>5, <2>1 DEF IsHead
  <1> QED BY <1>6 DEF w, v, u, t, s

(* A frame that is encoded fits its bytes. *)
Fits(f) == /\ f \in Frame /\ f.tid \in Word /\ Len(f.properties) \in Byte
           /\ f.properties \in Seq(ShortProperties)

HeadOf(f) == <<16, 129>> \o ToBytes(f.tid, 2) \o ToBytes(f.seoj, 3) \o ToBytes(f.deoj, 3)
             \o <<f.esv, Len(f.properties)>>

IsHeadOf(h, f) ==
    IsHead(h, 16, 129, f.tid \div 256, f.tid % 256,
           (f.seoj \div 256) \div 256, (f.seoj \div 256) % 256, f.seoj % 256,
           (f.deoj \div 256) \div 256, (f.deoj \div 256) % 256, f.deoj % 256,
           f.esv, Len(f.properties))

(* encode takes exactly the frames that fit, and makes a head and           *)
(* properties of them.                                                      *)
LEMMA EncodedFits ==
    ASSUME NEW f \in Frame
    PROVE  /\ EncodeFrame(f) = IF Fits(f) THEN HeadOf(f) \o Body(f.properties) ELSE None
           /\ Fits(f) => /\ IsHeadOf(HeadOf(f), f) /\ Body(f.properties) \in Seq(Byte)
                         /\ f.esv \in Byte /\ EncodeFrame(f) \in Seq(Byte)
           /\ EncodeFrame(f) # None <=> Fits(f)
  <1> DEFINE ps == f.properties
             n == Len(ps)
  <1>1. ps \in Seq(Properties)
    BY DEF Frame
  <1> HIDE DEF ps
  <1>2. n \in Nat /\ (n \in Byte <=> ~(n > 255))
    <2>1. n \in Nat
      BY <1>1
    <2>2. \A m \in Nat : m \in Byte <=> ~(m > 255)
      BY DEF Byte
    <2> QED BY <2>1, <2>2
  <1>3. ps \in Seq(ShortProperties) <=> ~\E p \in ToSet(ps) : Len(p.edt) > 255
    <2>1. ToSet(ps) = {ps[i] : i \in 1..n}
      BY <1>1 DEF ToSet
    <2>2. \A i \in 1..n : ps[i] \in Properties
      BY <1>1
    <2>3. \A p \in Properties : Len(p.edt) \in Nat
      BY DEF Properties
    <2>4. \A p \in Properties : p \in ShortProperties <=> ~(Len(p.edt) > 255)
      BY <2>3 DEF ShortProperties, Short
    <2>5. ps \in Seq(ShortProperties) <=> \A i \in 1..n : ps[i] \in ShortProperties
      <3>1. ASSUME \A i \in 1..n : ps[i] \in ShortProperties PROVE ps \in Seq(ShortProperties)
        BY <1>1, <3>1
      <3> QED BY <3>1
    <2> QED BY <2>1, <2>2, <2>4, <2>5
  <1>4. Fits(f) <=> ~(f.tid \notin Word \/ n > 255 \/ \E p \in ToSet(ps) : Len(p.edt) > 255)
    BY <1>2, <1>3 DEF Fits, ps
  <1>5. EncodeFrame(f) = IF Fits(f) THEN HeadOf(f) \o Body(ps) ELSE None
    <2>1. EncodeFrame(f)
            = IF f.tid \notin Word \/ n > 255 \/ \E p \in ToSet(ps) : Len(p.edt) > 255 THEN None
              ELSE HeadOf(f) \o Body(ps)
      BY Zenon DEF EncodeFrame, HeadOf, Body, ps
    <2> QED BY <1>4, <2>1
  <1>6. ASSUME Fits(f)
        PROVE  IsHeadOf(HeadOf(f), f) /\ Body(ps) \in Seq(Byte) /\ f.esv \in Byte
    <2>1. /\ f.tid \in Word /\ f.tid \in Int /\ n \in Byte /\ f.seoj \in EOJ /\ f.deoj \in EOJ
          /\ f.esv \in Services /\ ps \in Seq(ShortProperties)
      BY <1>6 DEF Fits, Frame, ps
    <2>2. f.esv \in Byte /\ 16 \in Byte /\ 129 \in Byte
      <3>1. Services \subseteq Byte
        BY DEF Services, ESV, Byte
      <3>2. 16 \in Byte /\ 129 \in Byte
        BY DEF Byte
      <3> QED BY <2>1, <3>1, <3>2
    <2>3. /\ f.tid \div 256 \in Byte /\ f.tid % 256 \in Byte
          /\ ToBytes(f.tid, 2) = <<f.tid \div 256, f.tid % 256>>
      BY <2>1, InTwoBytes
    <2>4. ASSUME NEW e \in EOJ
          PROVE  /\ (e \div 256) \div 256 \in Byte /\ (e \div 256) % 256 \in Byte /\ e % 256 \in Byte
                 /\ ToBytes(e, 3) = <<(e \div 256) \div 256, (e \div 256) % 256, e % 256>>
      BY InThreeBytes
    <2>5. IsHeadOf(HeadOf(f), f)
      <3> DEFINE t1 == f.tid \div 256  t2 == f.tid % 256
                 s1 == (f.seoj \div 256) \div 256
                 s2 == (f.seoj \div 256) % 256
                 s3 == f.seoj % 256
                 d1 == (f.deoj \div 256) \div 256
                 d2 == (f.deoj \div 256) % 256
                 d3 == f.deoj % 256
      <3>1. t1 \in Byte /\ t2 \in Byte /\ ToBytes(f.tid, 2) = <<t1, t2>>
        BY <2>3
      <3>2. s1 \in Byte /\ s2 \in Byte /\ s3 \in Byte /\ ToBytes(f.seoj, 3) = <<s1, s2, s3>>
        BY <2>1, <2>4
      <3>3. d1 \in Byte /\ d2 \in Byte /\ d3 \in Byte /\ ToBytes(f.deoj, 3) = <<d1, d2, d3>>
        BY <2>1, <2>4
      <3> DEFINE h == <<16, 129>> \o <<t1, t2>> \o <<s1, s2, s3>> \o <<d1, d2, d3>> \o <<f.esv, n>>
      <3>4. HeadOf(f) = h
        <4> HIDE DEF t1, t2, s1, s2, s3, d1, d2, d3
        <4> QED BY <3>1, <3>2, <3>3, Zenon DEF HeadOf, ps
      <3>5. IsHead(h, 16, 129, t1, t2, s1, s2, s3, d1, d2, d3, f.esv, n)
        <4> HIDE DEF t1, t2, s1, s2, s3, d1, d2, d3, n
        <4>1. 16 \in Byte /\ 129 \in Byte /\ f.esv \in Byte /\ n \in Byte
          BY <2>1, <2>2
        <4> DEFINE b == <<16, 129, t1, t2, s1, s2, s3, d1, d2, d3, f.esv, n>>
        <4>2. /\ b \in [1..12 -> Byte] /\ b[1] = 16 /\ b[2] = 129 /\ b[3] = t1 /\ b[4] = t2
              /\ b[5] = s1 /\ b[6] = s2 /\ b[7] = s3 /\ b[8] = d1 /\ b[9] = d2 /\ b[10] = d3
              /\ b[11] = f.esv /\ b[12] = n
          BY <3>1, <3>2, <3>3, <4>1
        <4> HIDE DEF b
        <4> QED BY <4>2, Twelve
      <3> HIDE DEF h
      <3> QED BY <3>4, <3>5, Zenon DEF IsHeadOf, ps
    <2>6. Body(ps) \in Seq(Byte)
      <3>1. Len(ps) \in 0..Len(ps) /\ SubSeq(ps, 1, Len(ps)) = ps
        BY <1>1
      <3> QED BY <2>1, <3>1, BodyBegins
    <2> QED BY <2>2, <2>5, <2>6
  <1>7. Fits(f) => HeadOf(f) \o Body(ps) \in Seq(Byte)
    <2>1. Fits(f) => HeadOf(f) \in Seq(Byte)
      BY <1>6 DEF IsHeadOf, IsHead
    <2> QED BY <1>6, <2>1, ConcatProperties
  <1>8. Fits(f) => HeadOf(f) \o Body(ps) # None
    BY <1>7, NoneAssumption
  <1> QED BY <1>5, <1>6, <1>7, <1>8 DEF ps

(* Two sequences agree as far as both go. *)
Agree(s, t) == \A i \in 1..Len(s) : i <= Len(t) => s[i] = t[i]

(* Every property of a datagram that agrees with an encoded frame is read,  *)
(* as far as the datagram goes.                                             *)
LEMMA ReadsProperties ==
    ASSUME NEW f, Fits(f), NEW data \in Seq(Byte), Agree(data, EncodeFrame(f)), Len(data) >= 12
    PROVE  ReadProperties(data)
             = IF Len(data) >= Len(EncodeFrame(f))
               THEN [offset |-> Len(EncodeFrame(f)), properties |-> f.properties] ELSE None
  <1> DEFINE ps == f.properties
             n == Len(ps)
             all == EncodeFrame(f)
             m == Len(data)
             B(i) == Body(SubSeq(ps, 1, i))
             Expected(i) == IF 12 + Len(B(i)) <= m
                            THEN [offset |-> 12 + Len(B(i)), properties |-> SubSeq(ps, 1, i)]
                            ELSE None
  <1>1. /\ f \in Frame /\ ps \in Seq(ShortProperties) /\ ps \in Seq(Properties)
        /\ n \in Byte /\ m \in Nat /\ m >= 12
    BY DEF Fits, Frame
  <1>2. n \in Nat
    <2>1. \A b \in Byte : b \in Nat
      BY DEF Byte
    <2> QED BY <1>1, <2>1
  <1>3. /\ all = HeadOf(f) \o Body(ps) /\ all \in Seq(Byte) /\ Body(ps) \in Seq(Byte)
        /\ HeadOf(f) \in Seq(Byte) /\ Len(HeadOf(f)) = 12 /\ HeadOf(f)[12] = n
    <2>1. all = HeadOf(f) \o Body(ps) /\ all \in Seq(Byte) /\ Body(ps) \in Seq(Byte)
          /\ IsHeadOf(HeadOf(f), f)
      BY <1>1, EncodedFits
    <2> QED BY <2>1, Zenon DEF IsHeadOf, IsHead
  <1>4. Agree(data, all)
    OBVIOUS
  <1> HIDE DEF ps, n, all, m, B
  <1>5. /\ Len(all) = 12 + Len(Body(ps)) /\ Len(Body(ps)) \in Nat /\ all[12] = n
        /\ \A i \in 1..Len(Body(ps)) : all[12 + i] = Body(ps)[i]
    <2>1. Joins(Byte, all, HeadOf(f), Body(ps))
      BY <1>3, Joined
    <2>2. 12 \in 1..12
      OBVIOUS
    <2> QED BY <1>3, <2>1, <2>2 DEF Joins
  <1>6. data[12] = n
    <2>1. 12 \in 1..Len(data) /\ 12 <= Len(all)
      BY <1>1, <1>5 DEF m
    <2> QED BY <1>4, <1>5, <2>1 DEF Agree
  <1>7. PICK read \in [0..n -> Reading \cup {None}] :
           /\ read[0] = [offset |-> 12, properties |-> <<>>]
           /\ \A i \in 1..n : read[i] = ReadProperty(data, read[i - 1])
           /\ ReadProperties(data) = read[n]
    BY <1>6, ReadingCounts
  <1>8. ASSUME NEW i \in 0..n
        PROVE  /\ B(i) \in Seq(Byte) /\ Len(B(i)) \in Nat /\ Begins(B(i), Body(ps))
               /\ SubSeq(ps, 1, i) \in Seq(Properties)
               /\ i < n => /\ ps[i + 1] \in ShortProperties
                           /\ SubSeq(ps, 1, i + 1) = Append(SubSeq(ps, 1, i), ps[i + 1])
                           /\ B(i + 1) = B(i) \o EncodeProperty(ps[i + 1])
    <2>1. i \in 0..Len(ps)
      BY DEF n
    <2>2. /\ SubSeq(ps, 1, i) \in Seq(Properties)
          /\ i < n => /\ ps[i + 1] \in ShortProperties
                      /\ SubSeq(ps, 1, i + 1) = Append(SubSeq(ps, 1, i), ps[i + 1])
      BY <1>1, <2>1, FirstOnes DEF n
    <2>3. /\ B(i) \in Seq(Byte) /\ Begins(B(i), Body(ps))
          /\ i < n => B(i + 1) = B(i) \o EncodeProperty(ps[i + 1])
      BY <1>1, <2>1, BodyBegins DEF n, B
    <2>4. Len(B(i)) \in Nat
      BY <2>3, LenProperties
    <2> QED BY <2>2, <2>3, <2>4
  <1> DEFINE T == {i \in 0..n : read[i] = Expected(i)}
  <1>9. T = 0..n
    <2>1. T \subseteq 0..n
      OBVIOUS
    <2>2. 0 \in T
      <3>1. SubSeq(ps, 1, 0) = <<>> /\ B(0) = <<>> /\ Len(B(0)) = 0
        <4>1. SubSeq(ps, 1, 0) = <<>>
          BY <1>1
        <4>2. [epc |-> 0, edt |-> <<>>] \in ShortProperties
          BY DEF ShortProperties, Short, Properties, Byte
        <4>3. <<>> \in Seq(ShortProperties)
          OBVIOUS
        <4>4. Body(<<>>) = <<>>
          BY <4>2, <4>3, BodyAppend
        <4>5. B(0) = <<>>
          BY <4>1, <4>4, Zenon DEF B
        <4> QED BY <4>1, <4>5
      <3>2. 12 + Len(B(0)) = 12 /\ 12 <= m
        BY <1>1, <3>1
      <3>3. Expected(0) = [offset |-> 12, properties |-> <<>>]
        BY <3>1, <3>2
      <3> QED BY <1>2, <1>7, <3>3
    <2>3. ASSUME NEW i \in T, i < n PROVE i + 1 \in T
      <3>1. i \in 0..n /\ i + 1 \in 0..n /\ i + 1 \in 1..n /\ (i + 1) - 1 = i /\ read[i] = Expected(i)
        BY <1>2, <2>3
      <3> DEFINE p == ps[i + 1]
                 o == 12 + Len(B(i))
                 qs == SubSeq(ps, 1, i)
                 bytes == EncodeProperty(p)
      <3>2. read[i + 1] = ReadProperty(data, read[i])
        BY <1>7, <3>1
      <3>3. /\ B(i) \in Seq(Byte) /\ Len(B(i)) \in Nat /\ p \in ShortProperties
            /\ qs \in Seq(Properties) /\ B(i + 1) = B(i) \o bytes
            /\ SubSeq(ps, 1, i + 1) = Append(qs, p)
        BY <1>8, <2>3, <3>1
      <3>4. bytes \in Seq(Byte)
        BY <3>3, PropertyBytes
      <3> HIDE DEF p, qs, bytes
      <3>5. /\ Len(B(i + 1)) = Len(B(i)) + Len(bytes) /\ Len(bytes) \in Nat
            /\ \A j \in 1..Len(bytes) : B(i + 1)[Len(B(i)) + j] = bytes[j]
        <4>1. Joins(Byte, B(i + 1), B(i), bytes)
          BY <3>3, <3>4, Joined
        <4> QED BY <4>1 DEF Joins
      <3>6. 12 + Len(B(i + 1)) = o + Len(bytes) /\ o \in Nat
        BY <3>3, <3>5
      <3>7. CASE o <= m
        <4>1. read[i] = [offset |-> o, properties |-> qs]
          BY <3>1, <3>7 DEF qs
        <4>2. ASSUME NEW j \in 1..Len(bytes), o + j <= m PROVE data[o + j] = bytes[j]
          <5>1. Begins(B(i + 1), Body(ps))
            BY <1>8, <3>1
          <5>2. /\ Len(B(i)) + j \in 1..Len(B(i + 1)) /\ Len(B(i)) + j \in 1..Len(Body(ps))
            <6>1. Len(B(i + 1)) <= Len(Body(ps))
              BY <5>1 DEF Begins
            <6> QED BY <1>5, <3>3, <3>5, <6>1
          <5>3. Body(ps)[Len(B(i)) + j] = bytes[j]
            BY <3>5, <5>1, <5>2 DEF Begins
          <5>4. all[12 + (Len(B(i)) + j)] = bytes[j] /\ 12 + (Len(B(i)) + j) = o + j
            BY <1>5, <3>3, <5>2, <5>3
          <5>5. o + j \in 1..Len(data) /\ o + j <= Len(all)
            <6>1. o + j \in Nat /\ 1 <= o + j
              BY <3>3, <3>5
            <6>2. Len(B(i)) + j <= Len(Body(ps))
              BY <5>2
            <6>3. o + j <= Len(all)
              BY <1>5, <3>3, <3>5, <6>2
            <6> QED BY <1>1, <4>2, <6>1, <6>3 DEF m
          <5> QED BY <1>4, <5>4, <5>5 DEF Agree
        <4>3. ReadProperty(data, [offset |-> o, properties |-> qs])
                = IF o + Len(bytes) <= m
                  THEN [offset |-> o + Len(bytes), properties |-> Append(qs, p)] ELSE None
          <5> HIDE DEF o
          <5> QED BY <3>3, <3>6, <3>7, <4>2, ReadsProperty DEF m, bytes
        <4>4. read[i + 1] = Expected(i + 1)
          BY <3>2, <3>3, <3>6, <4>1, <4>3
        <4> QED BY <3>1, <4>4
      <3>8. CASE ~(o <= m)
        <4>1. read[i] = None
          BY <3>1, <3>8
        <4>2. ~(o + Len(bytes) <= m)
          BY <1>1, <3>5, <3>6, <3>8
        <4>3. read[i + 1] = None
          BY <3>2, <4>1 DEF ReadProperty
        <4> QED BY <3>1, <3>6, <4>2, <4>3
      <3> QED BY <3>7, <3>8
    <2> HIDE DEF T
    <2> QED BY <1>2, <2>1, <2>2, <2>3, CountingUpto
  <1>10. read[n] = Expected(n)
    <2>1. n \in 0..n
      BY <1>2
    <2>2. n \in T
      <3> HIDE DEF T
      <3> QED BY <1>9, <2>1
    <2> QED BY <2>2
  <1>11. SubSeq(ps, 1, n) = ps
    BY <1>1 DEF n
  <1>12. B(n) = Body(ps)
    BY <1>11 DEF B
  <1>13. 12 + Len(Body(ps)) <= m <=> m >= Len(all)
    BY <1>1, <1>5
  <1> QED BY <1>5, <1>7, <1>10, <1>11, <1>12, <1>13 DEF ps, all, m

(* A datagram that agrees with an encoded frame as far as both go is        *)
(* decoded to that frame, whatever follows it, and to nothing if it is cut. *)
THEOREM CutOrWhole ==
    ASSUME NEW f, Fits(f), NEW data \in Seq(Byte), Agree(data, EncodeFrame(f))
    PROVE  DecodeFrame(data) = IF Len(data) >= Len(EncodeFrame(f)) THEN f ELSE None
  <1> DEFINE m == Len(data)
             all == EncodeFrame(f)
             h == HeadOf(f)
             ps == f.properties
  <1>1. /\ f \in Frame /\ f.tid \in Word /\ f.seoj \in EOJ /\ f.deoj \in EOJ /\ f.esv \in Services
        /\ f.tid \in Int /\ m \in Nat
    BY DEF Fits, Frame
  <1>2. /\ all = h \o Body(ps) /\ all \in Seq(Byte) /\ Body(ps) \in Seq(Byte)
        /\ IsHeadOf(h, f) /\ h \in Seq(Byte) /\ Len(h) = 12
    <2>1. all = h \o Body(ps) /\ all \in Seq(Byte) /\ Body(ps) \in Seq(Byte) /\ IsHeadOf(h, f)
      BY <1>1, EncodedFits
    <2> QED BY <2>1, Zenon DEF IsHeadOf, IsHead
  <1> HIDE DEF m, all, h, ps
  <1>3. /\ Len(all) \in Nat /\ Len(all) >= 12 /\ \A i \in 1..12 : all[i] = h[i]
    <2>1. Joins(Byte, all, h, Body(ps))
      BY <1>2, Joined
    <2>2. /\ Len(all) = Len(h) + Len(Body(ps)) /\ Len(Body(ps)) \in Nat
          /\ \A i \in 1..Len(h) : all[i] = h[i]
      BY <2>1, Zenon DEF Joins
    <2>3. Len(all) \in Nat /\ Len(all) >= 12
      BY <1>2, <2>2
    <2> QED BY <1>2, <2>2, <2>3
  <1>4. CASE m < 12
    <2>1. ~(m >= Len(all))
      BY <1>1, <1>3, <1>4
    <2>2. DecodeFrame(data) = None
      BY <1>4 DEF DecodeFrame, m
    <2> QED BY <2>1, <2>2 DEF m, all
  <1>5. CASE ~(m < 12)
    <2>1. ASSUME NEW i \in 1..12 PROVE data[i] = h[i]
      <3>1. i \in 1..Len(data) /\ i <= Len(all)
        BY <1>1, <1>3, <1>5 DEF m
      <3> QED BY <1>3, <3>1 DEF Agree, all
    <2>2. ReadProperties(data) = IF m >= Len(all)
                                 THEN [offset |-> Len(all), properties |-> ps] ELSE None
      <3>1. Len(data) >= 12
        BY <1>1, <1>5 DEF m
      <3> QED BY <3>1, ReadsProperties DEF m, all, ps
    <2>3. data[1] = 16 /\ data[2] = 129 /\ data[11] = f.esv
      <3>1. 1 \in 1..12 /\ 2 \in 1..12 /\ 11 \in 1..12
        OBVIOUS
      <3> QED BY <1>2, <2>1, <3>1, Zenon DEF IsHeadOf, IsHead
    <2>4. CASE m >= Len(all)
      <3>1. [offset |-> Len(all), properties |-> ps] # None
        <4>1. [offset |-> Len(all), properties |-> ps] \in Reading
          BY <1>1, <1>3 DEF Reading, Frame, ps
        <4> QED BY <4>1, FrameAssumption
      <3>2. DecodeFrame(data)
              = [tid |-> FromBytes(SubSeq(data, 3, 4)), seoj |-> FromBytes(SubSeq(data, 5, 7)),
                 deoj |-> FromBytes(SubSeq(data, 8, 10)), esv |-> data[11], properties |-> ps]
        <4> DEFINE r == [offset |-> Len(all), properties |-> ps]
        <4>1. ReadProperties(data) = r /\ r.properties = ps
          BY <2>2, <2>4
        <4>2. r # None
          BY <3>1
        <4>3. ~(Len(data) < 12) /\ data[1] = 16 /\ data[2] = 129 /\ data[11] \in Services
          BY <1>1, <1>5, <2>3 DEF m
        <4> HIDE DEF r
        <4> QED BY <4>1, <4>2, <4>3, Zenon DEF DecodeFrame
      <3>3. FromBytes(SubSeq(data, 3, 4)) = f.tid
        <4>1. SubSeq(data, 3, 4) = <<data[3], data[4]>>
          <5>1. 3 \in 1..Len(data) /\ 3 + 1 <= Len(data) /\ 3 + 1 = 4
            BY <1>1, <1>5 DEF m
          <5> QED BY <5>1, PartOfTwo
        <4>2. data[3] = f.tid \div 256 /\ data[4] = f.tid % 256
          <5>1. 3 \in 1..12 /\ 4 \in 1..12
            OBVIOUS
          <5> QED BY <1>2, <2>1, <5>1, Zenon DEF IsHeadOf, IsHead
        <4>3. /\ f.tid \div 256 \in Byte /\ f.tid % 256 \in Byte
              /\ f.tid = 256 * (f.tid \div 256) + (f.tid % 256)
          BY <1>1, InTwoBytes
        <4>4. FromBytes(<<f.tid \div 256, f.tid % 256>>) = 256 * (f.tid \div 256) + (f.tid % 256)
          <5> DEFINE a == f.tid \div 256
                     b == f.tid % 256
          <5>1. a \in Byte /\ b \in Byte
            BY <4>3
          <5> HIDE DEF a, b
          <5>2. FromBytes(<<a, b>>) = 256 * a + b
            BY <5>1, TwoBytes
          <5> QED BY <5>2, Zenon DEF a, b
        <4> QED BY <4>1, <4>2, <4>3, <4>4, Zenon
      <3>4. FromBytes(SubSeq(data, 5, 7)) = f.seoj
        <4>1. SubSeq(data, 5, 7) = <<data[5], data[6], data[7]>>
          <5>1. 5 \in 1..Len(data) /\ 5 + 2 <= Len(data) /\ 5 + 2 = 7 /\ 5 + 1 = 6
            BY <1>1, <1>5 DEF m
          <5> QED BY <5>1, PartOfThree
        <4>2. /\ data[5] = (f.seoj \div 256) \div 256 /\ data[6] = (f.seoj \div 256) % 256
              /\ data[7] = f.seoj % 256
          <5>1. 5 \in 1..12 /\ 6 \in 1..12 /\ 7 \in 1..12
            OBVIOUS
          <5>2. /\ h[5] = (f.seoj \div 256) \div 256 /\ h[6] = (f.seoj \div 256) % 256
                /\ h[7] = f.seoj % 256
            BY <1>2, Zenon DEF IsHeadOf, IsHead
          <5>3. data[5] = h[5] /\ data[6] = h[6] /\ data[7] = h[7]
            BY <2>1, <5>1
          <5> QED BY <5>2, <5>3
        <4> DEFINE a == (f.seoj \div 256) \div 256
                   b == (f.seoj \div 256) % 256
                   c == f.seoj % 256
        <4>3. a \in Byte /\ b \in Byte /\ c \in Byte /\ f.seoj = 256 * (256 * a + b) + c
          BY <1>1, InThreeBytes
        <4>4. FromBytes(<<a, b, c>>) = 256 * (256 * a + b) + c
          <5> HIDE DEF a, b, c
          <5> QED BY <4>3, ThreeBytes
        <4> QED BY <4>1, <4>2, <4>3, <4>4, Zenon
      <3>5. FromBytes(SubSeq(data, 8, 10)) = f.deoj
        <4>1. SubSeq(data, 8, 10) = <<data[8], data[9], data[10]>>
          <5>1. 8 \in 1..Len(data) /\ 8 + 2 <= Len(data) /\ 8 + 2 = 10 /\ 8 + 1 = 9
            BY <1>1, <1>5 DEF m
          <5> QED BY <5>1, PartOfThree
        <4>2. /\ data[8] = (f.deoj \div 256) \div 256 /\ data[9] = (f.deoj \div 256) % 256
              /\ data[10] = f.deoj % 256
          <5>1. 8 \in 1..12 /\ 9 \in 1..12 /\ 10 \in 1..12
            OBVIOUS
          <5>2. /\ h[8] = (f.deoj \div 256) \div 256 /\ h[9] = (f.deoj \div 256) % 256
                /\ h[10] = f.deoj % 256
            BY <1>2, Zenon DEF IsHeadOf, IsHead
          <5>3. data[8] = h[8] /\ data[9] = h[9] /\ data[10] = h[10]
            BY <2>1, <5>1
          <5> QED BY <5>2, <5>3
        <4> DEFINE a == (f.deoj \div 256) \div 256
                   b == (f.deoj \div 256) % 256
                   c == f.deoj % 256
        <4>3. a \in Byte /\ b \in Byte /\ c \in Byte /\ f.deoj = 256 * (256 * a + b) + c
          BY <1>1, InThreeBytes
        <4>4. FromBytes(<<a, b, c>>) = 256 * (256 * a + b) + c
          <5> HIDE DEF a, b, c
          <5> QED BY <4>3, ThreeBytes
        <4> QED BY <4>1, <4>2, <4>3, <4>4, Zenon
      <3>6. f = [tid |-> f.tid, seoj |-> f.seoj, deoj |-> f.deoj, esv |-> f.esv, properties |-> ps]
        BY <1>1 DEF Frame, ps
      <3>7. DecodeFrame(data) = f
        BY <2>3, <3>2, <3>3, <3>4, <3>5, <3>6, Zenon
      <3> QED BY <2>4, <3>7 DEF m, all
    <2>5. CASE ~(m >= Len(all))
      <3>1. ReadProperties(data) = None
        BY <2>2, <2>5
      <3>2. DecodeFrame(data) = None
        BY <3>1 DEF DecodeFrame
      <3> QED BY <2>5, <3>2 DEF m, all
    <2> QED BY <2>4, <2>5
  <1> QED BY <1>4, <1>5

(* What one turn of the loop reads is the property whose bytes are there. *)
LEMMA ReadPropertyBytes ==
    ASSUME NEW data \in Seq(Byte), NEW read \in Reading, ReadProperty(data, read) # None
    PROVE  \E p \in ShortProperties :
              /\ ReadProperty(data, read)
                   = [offset |-> read.offset + Len(EncodeProperty(p)),
                      properties |-> Append(read.properties, p)]
              /\ read.offset + Len(EncodeProperty(p)) <= Len(data)
              /\ \A j \in 1..Len(EncodeProperty(p)) : data[read.offset + j] = EncodeProperty(p)[j]
  <1> DEFINE o == read.offset
             m == Len(data)
             l == data[o + 2]
             end == o + 2 + l
             edt == SubSeq(data, o + 3, end)
             p == Property(data[o + 1], edt)
  <1>1. o \in Nat /\ m \in Nat
    BY DEF Reading
  <1>2. /\ ReadProperty(data, read) = [offset |-> end, properties |-> Append(read.properties, p)]
        /\ ~(o + 2 > m) /\ ~(end > m)
    BY Zenon DEF ReadProperty
  <1> HIDE DEF o, edt, p
  <1>3. o + 1 \in 1..m /\ o + 2 \in 1..m
    BY <1>1, <1>2
  <1>4. data[o + 1] \in Byte /\ l \in Byte
    BY <1>3
  <1>5. l \in Nat /\ l <= 255 /\ end \in Nat
    <2>1. \A b \in Byte : b \in Nat /\ b <= 255
      BY DEF Byte
    <2> HIDE DEF l
    <2> QED BY <1>1, <1>4, <2>1
  <1> HIDE DEF l
  <1>6. edt \in Seq(Byte) /\ Len(edt) = l /\ \A j \in 1..l : edt[j] = data[o + (2 + j)]
    <2>1. o + 3 \in Int /\ end \in Int /\ \A i \in (o + 3)..end : i \in 1..Len(data)
      BY <1>1, <1>2, <1>5
    <2>2. \A i \in (o + 3)..end : data[i] \in Byte
      BY <2>1
    <2>3. /\ edt \in Seq(Byte)
          /\ Len(edt) = IF o + 3 <= end THEN end - (o + 3) + 1 ELSE 0
          /\ \A i \in 1..(end - (o + 3) + 1) : edt[i] = data[(o + 3) + i - 1]
      BY <2>1, <2>2, SubSeqProperties DEF edt
    <2>4. end - (o + 3) + 1 = l /\ (o + 3 <= end \/ l = 0)
      BY <1>1, <1>5
    <2>5. Len(edt) = l
      BY <2>3, <2>4
    <2>6. \A j \in 1..l : (o + 3) + j - 1 = o + (2 + j)
      BY <1>1, <1>5
    <2>7. \A j \in 1..l : edt[j] = data[(o + 3) + j - 1]
      BY <2>3, <2>4
    <2> QED BY <2>3, <2>5, <2>6, <2>7
  <1>7. p \in ShortProperties /\ p.epc = data[o + 1] /\ p.edt = edt
    <2>1. p.epc = data[o + 1] /\ p.edt = edt /\ p \in Properties
      BY <1>4, <1>6 DEF p, Property, Properties
    <2> QED BY <1>5, <1>6, <2>1 DEF ShortProperties, Short
  <1> DEFINE bytes == EncodeProperty(p)
  <1>8. /\ bytes \in Seq(Byte) /\ Len(bytes) = 2 + l /\ bytes[1] = data[o + 1] /\ bytes[2] = l
        /\ \A j \in 1..l : bytes[2 + j] = edt[j]
    BY <1>6, <1>7, PropertyBytes
  <1> HIDE DEF bytes
  <1>9. o + Len(bytes) = end /\ end <= m
    BY <1>1, <1>2, <1>5, <1>8
  <1>10. ASSUME NEW j \in 1..Len(bytes) PROVE data[o + j] = bytes[j]
    <2>1. CASE j = 1
      BY <1>8, <2>1
    <2>2. CASE j = 2
      BY <1>8, <2>2 DEF l
    <2>3. CASE j # 1 /\ j # 2
      <3>1. PICK k \in 1..l : j = 2 + k
        <4>1. j - 2 \in 1..l /\ j = 2 + (j - 2)
          BY <1>5, <1>8, <2>3
        <4> QED BY <4>1
      <3> QED BY <1>6, <1>8, <3>1
    <2> QED BY <2>1, <2>2, <2>3
  <1> QED BY <1>2, <1>7, <1>9, <1>10 DEF bytes, o, m

(* The properties that a loop has read are those whose bytes are there. *)
Held(data, read, i) ==
    /\ read.properties \in Seq(ShortProperties) /\ Len(read.properties) = i
    /\ read.offset = 12 + Len(Body(read.properties)) /\ read.offset <= Len(data)
    /\ \A j \in 1..Len(Body(read.properties)) : data[12 + j] = Body(read.properties)[j]

(* A datagram that is decoded holds the bytes of as many properties as its  *)
(* count says.                                                              *)
LEMMA HoldsProperties ==
    ASSUME NEW data \in Seq(Byte), Len(data) >= 12, ReadProperties(data) # None
    PROVE  data[12] \in Byte /\ Held(data, ReadProperties(data), data[12])
  <1> DEFINE n == data[12]
  <1>1. n \in Byte /\ n \in Nat
    BY ReadingCounts
  <1>2. PICK read \in [0..n -> Reading \cup {None}] :
           /\ read[0] = [offset |-> 12, properties |-> <<>>]
           /\ \A i \in 1..n : read[i] = ReadProperty(data, read[i - 1])
           /\ ReadProperties(data) = read[n]
    BY ReadingCounts
  <1> HIDE DEF n
  <1> DEFINE T == {i \in 0..n : read[i] # None => Held(data, read[i], i)}
  <1>3. T = 0..n
    <2>1. T \subseteq 0..n
      OBVIOUS
    <2>2. 0 \in T
      <3>1. <<>> \in Seq(ShortProperties) /\ Body(<<>>) = <<>>
        <4>1. [epc |-> 0, edt |-> <<>>] \in ShortProperties
          BY DEF ShortProperties, Short, Properties, Byte
        <4>2. <<>> \in Seq(ShortProperties)
          OBVIOUS
        <4> QED BY <4>1, <4>2, BodyAppend
      <3>2. read[0].properties = <<>> /\ read[0].offset = 12
        BY <1>2
      <3>3. Body(read[0].properties) = <<>>
        BY <3>1, <3>2, Zenon
      <3>4. Len(<<>>) = 0 /\ 12 = 12 + 0 /\ \A j \in 1..0 : FALSE
        OBVIOUS
      <3>5. Held(data, read[0], 0)
        BY <3>1, <3>2, <3>3, <3>4 DEF Held
      <3> QED BY <1>1, <3>5
    <2>3. ASSUME NEW i \in T, i < n PROVE i + 1 \in T
      <3>1. i \in 0..n /\ i + 1 \in 0..n /\ i + 1 \in 1..n /\ (i + 1) - 1 = i
        BY <1>1, <2>3
      <3>2. read[i + 1] = ReadProperty(data, read[i])
        BY <1>2, <3>1
      <3>3. SUFFICES ASSUME read[i + 1] # None PROVE Held(data, read[i + 1], i + 1)
        BY <3>1
      <3>4. read[i] # None
        BY <3>2, <3>3 DEF ReadProperty
      <3> DEFINE r == read[i]
                 qs == r.properties
      <3>5. r \in Reading /\ Held(data, r, i)
        BY <1>2, <2>3, <3>1, <3>4
      <3>6. ReadProperty(data, r) # None /\ read[i + 1] = ReadProperty(data, r)
        BY <3>2, <3>3
      <3> HIDE DEF r
      <3>7. PICK p \in ShortProperties :
              /\ ReadProperty(data, r)
                   = [offset |-> r.offset + Len(EncodeProperty(p)), properties |-> Append(qs, p)]
              /\ r.offset + Len(EncodeProperty(p)) <= Len(data)
              /\ \A j \in 1..Len(EncodeProperty(p)) : data[r.offset + j] = EncodeProperty(p)[j]
        BY <3>5, <3>6, ReadPropertyBytes
      <3> DEFINE bytes == EncodeProperty(p)
                 body == Body(qs)
                 all == Body(Append(qs, p))
      <3>8. /\ qs \in Seq(ShortProperties) /\ Len(qs) = i /\ r.offset = 12 + Len(body)
            /\ \A j \in 1..Len(body) : data[12 + j] = body[j]
        BY <3>5 DEF Held
      <3>9. body \in Seq(Byte) /\ bytes \in Seq(Byte) /\ all = body \o bytes
        BY <3>8, BodyAppend, PropertyBytes
      <3>10. Append(qs, p) \in Seq(ShortProperties) /\ Len(Append(qs, p)) = i + 1
        BY <3>8
      <3> HIDE DEF bytes, body, all, qs
      <3>11. Joins(Byte, all, body, bytes)
        BY <3>9, Joined
      <3>12. /\ Len(all) = Len(body) + Len(bytes) /\ Len(body) \in Nat /\ Len(bytes) \in Nat
             /\ \A j \in 1..Len(body) : all[j] = body[j]
             /\ \A j \in 1..Len(bytes) : all[Len(body) + j] = bytes[j]
        BY <3>11, Zenon DEF Joins
      <3>13. ASSUME NEW j \in 1..Len(all) PROVE data[12 + j] = all[j]
        <4>1. CASE j <= Len(body)
          <5>1. j \in 1..Len(body)
            BY <3>12, <4>1
          <5> QED BY <3>8, <3>12, <5>1
        <4>2. CASE ~(j <= Len(body))
          <5>1. PICK k \in 1..Len(bytes) : j = Len(body) + k
            <6>1. j - Len(body) \in 1..Len(bytes) /\ j = Len(body) + (j - Len(body))
              BY <3>12, <4>2
            <6> QED BY <6>1
          <5>2. 12 + j = r.offset + k
            BY <3>8, <3>12, <5>1
          <5>3. data[r.offset + k] = bytes[k]
            BY <3>7 DEF bytes
          <5> QED BY <3>12, <5>1, <5>2, <5>3
        <4> QED BY <4>1, <4>2
      <3>14. r.offset + Len(bytes) = 12 + Len(all)
        BY <3>8, <3>12
      <3>15. /\ read[i + 1].offset = 12 + Len(all) /\ read[i + 1].properties = Append(qs, p)
             /\ 12 + Len(all) <= Len(data)
        BY <3>6, <3>7, <3>14 DEF bytes
      <3> QED BY <3>10, <3>13, <3>15 DEF Held, all
    <2> HIDE DEF T
    <2> QED BY <1>1, <2>1, <2>2, <2>3, CountingUpto
  <1>4. n \in T
    <2>1. n \in 0..n
      BY <1>1
    <2> HIDE DEF T
    <2> QED BY <1>3, <2>1
  <1> QED BY <1>1, <1>2, <1>4 DEF n

(* The digits of a number are the bytes it was made of. *)
LEMMA TwoDigits ==
    ASSUME NEW a \in Byte, NEW b \in Byte, NEW n, n = 256 * a + b
    PROVE  n \in Word /\ n \in Nat /\ n \div 256 = a /\ n % 256 = b
  <1>1. a \in Nat /\ b \in Nat /\ a <= 255 /\ b <= 255
    BY DEF Byte
  <1>2. n \in Word
    <2>1. n \in 0 .. 2 ^ 16 - 1
      BY <1>1, Powers, SMT
    <2>2. Word = 0 .. 2 ^ 16 - 1
      BY Powers, SMT DEF Word
    <2> QED BY <2>1, <2>2
  <1>3. n \in Nat
    BY <1>1
  <1>4. n \div 256 = a
    BY <1>1, SMT
  <1>5. n % 256 = b
    BY <1>1, SMT
  <1> QED BY <1>2, <1>3, <1>4, <1>5

(* Three bytes are the digits of their EOJ.                                 *)
LEMMA ThreeDigits ==
    ASSUME NEW a \in Byte, NEW b \in Byte, NEW c \in Byte, NEW n,
           n = 256 * (256 * a + b) + c
    PROVE  /\ n \in EOJ
           /\ (n \div 256) \div 256 = a /\ (n \div 256) % 256 = b /\ n % 256 = c
  <1> DEFINE w == 256 * a + b
  <1>1. w \in Nat /\ w \div 256 = a /\ w % 256 = b
    BY TwoDigits
  <1>2. a \in Nat /\ b \in Nat /\ c \in Nat /\ a <= 255 /\ b <= 255 /\ c <= 255
    BY DEF Byte
  <1>3. n \in EOJ
    <2>1. n \in 0 .. 2 ^ 24 - 1
      BY <1>2, Powers, SMT
    <2> QED BY <2>1 DEF EOJ
  <1>4. n \div 256 = w /\ n % 256 = c
    <2> HIDE DEF w
    <2>1. n = 256 * w + c
      BY DEF w
    <2>2. n \div 256 = w
      BY <1>1, <1>2, <2>1, SMT
    <2>3. n % 256 = c
      BY <1>1, <1>2, <2>1, SMT
    <2> QED BY <2>2, <2>3
  <1> QED BY <1>1, <1>3, <1>4

(* What decode makes of a datagram is a frame whose bytes the datagram      *)
(* begins with.                                                             *)
THEOREM DecodedBegins ==
    ASSUME NEW data \in Seq(Byte), DecodeFrame(data) # None
    PROVE  Fits(DecodeFrame(data)) /\ IsPrefix(EncodeFrame(DecodeFrame(data)), data)
  <1> DEFINE f == DecodeFrame(data)
             r == ReadProperties(data)
             ps == r.properties
  <1>1. /\ ~(Len(data) < 12) /\ data[1] = 16 /\ data[2] = 129 /\ data[11] \in Services
        /\ r # None
        /\ f = [tid |-> FromBytes(SubSeq(data, 3, 4)), seoj |-> FromBytes(SubSeq(data, 5, 7)),
                deoj |-> FromBytes(SubSeq(data, 8, 10)), esv |-> data[11], properties |-> ps]
    BY Zenon DEF DecodeFrame
  <1>2. Len(data) \in Nat /\ Len(data) >= 12
    BY <1>1
  <1>3. ASSUME NEW i \in 1..12 PROVE i \in 1..Len(data) /\ data[i] \in Byte
    BY <1>2
  <1> HIDE DEF f
  <1>4. data[12] \in Byte /\ Held(data, r, data[12])
    BY <1>1, <1>2, HoldsProperties
  <1>5. /\ ps \in Seq(ShortProperties) /\ Len(ps) = data[12]
        /\ 12 + Len(Body(ps)) <= Len(data)
        /\ \A j \in 1..Len(Body(ps)) : data[12 + j] = Body(ps)[j]
    BY <1>4 DEF Held
  <1> HIDE DEF r, ps
  <1>6. /\ data[3] \in Byte /\ data[4] \in Byte /\ data[5] \in Byte /\ data[6] \in Byte
        /\ data[7] \in Byte /\ data[8] \in Byte /\ data[9] \in Byte /\ data[10] \in Byte
    BY <1>3
  <1>7. /\ f.tid = 256 * data[3] + data[4] /\ f.seoj = 256 * (256 * data[5] + data[6]) + data[7]
        /\ f.deoj = 256 * (256 * data[8] + data[9]) + data[10] /\ f.esv = data[11]
        /\ f.properties = ps
    <2>1. SubSeq(data, 3, 4) = <<data[3], data[4]>>
      <3>1. 3 \in 1..Len(data) /\ 3 + 1 <= Len(data) /\ 3 + 1 = 4
        BY <1>2
      <3> QED BY <3>1, PartOfTwo
    <2>2. SubSeq(data, 5, 7) = <<data[5], data[6], data[7]>>
      <3>1. 5 \in 1..Len(data) /\ 5 + 2 <= Len(data) /\ 5 + 1 = 6 /\ 5 + 2 = 7
        BY <1>2
      <3> QED BY <3>1, PartOfThree
    <2>3. SubSeq(data, 8, 10) = <<data[8], data[9], data[10]>>
      <3>1. 8 \in 1..Len(data) /\ 8 + 2 <= Len(data) /\ 8 + 1 = 9 /\ 8 + 2 = 10
        BY <1>2
      <3> QED BY <3>1, PartOfThree
    <2>4. /\ f.tid = FromBytes(SubSeq(data, 3, 4)) /\ f.seoj = FromBytes(SubSeq(data, 5, 7))
          /\ f.deoj = FromBytes(SubSeq(data, 8, 10)) /\ f.esv = data[11] /\ f.properties = ps
      BY <1>1
    <2>5. FromBytes(<<data[3], data[4]>>) = 256 * data[3] + data[4]
      BY <1>6, TwoBytes
    <2>6. FromBytes(<<data[5], data[6], data[7]>>) = 256 * (256 * data[5] + data[6]) + data[7]
      BY <1>6, ThreeBytes
    <2>7. FromBytes(<<data[8], data[9], data[10]>>) = 256 * (256 * data[8] + data[9]) + data[10]
      BY <1>6, ThreeBytes
    <2> QED BY <2>1, <2>2, <2>3, <2>4, <2>5, <2>6, <2>7, Zenon
  <1>8. f.tid \in Word /\ f.tid \in Nat /\ f.tid \div 256 = data[3] /\ f.tid % 256 = data[4]
    <2> DEFINE a == data[3]
               b == data[4]
               n == f.tid
    <2>1. a \in Byte /\ b \in Byte /\ n = 256 * a + b
      BY <1>6, <1>7
    <2> HIDE DEF a, b, n
    <2>2. n \in Word /\ n \in Nat /\ n \div 256 = a /\ n % 256 = b
      BY <2>1, TwoDigits
    <2> QED BY <2>2, Zenon DEF a, b, n
  <1>9. /\ f.seoj \in EOJ /\ (f.seoj \div 256) \div 256 = data[5]
        /\ (f.seoj \div 256) % 256 = data[6] /\ f.seoj % 256 = data[7]
    <2> DEFINE a == data[5]
               b == data[6]
               c == data[7]
               n == f.seoj
    <2>1. a \in Byte /\ b \in Byte /\ c \in Byte /\ n = 256 * (256 * a + b) + c
      BY <1>6, <1>7
    <2> HIDE DEF a, b, c, n
    <2>2. n \in EOJ /\ (n \div 256) \div 256 = a /\ (n \div 256) % 256 = b /\ n % 256 = c
      BY <2>1, ThreeDigits
    <2> QED BY <2>2, Zenon DEF a, b, c, n
  <1>10. /\ f.deoj \in EOJ /\ (f.deoj \div 256) \div 256 = data[8]
        /\ (f.deoj \div 256) % 256 = data[9] /\ f.deoj % 256 = data[10]
    <2> DEFINE a == data[8]
               b == data[9]
               c == data[10]
               n == f.deoj
    <2>1. a \in Byte /\ b \in Byte /\ c \in Byte /\ n = 256 * (256 * a + b) + c
      BY <1>6, <1>7
    <2> HIDE DEF a, b, c, n
    <2>2. n \in EOJ /\ (n \div 256) \div 256 = a /\ (n \div 256) % 256 = b /\ n % 256 = c
      BY <2>1, ThreeDigits
    <2> QED BY <2>2, Zenon DEF a, b, c, n
  <1>11. Fits(f)
    <2>1. f.tid \in Word /\ f.tid \in Nat /\ f.seoj \in EOJ /\ f.deoj \in EOJ
      BY <1>8, <1>9, <1>10
    <2>2. ps \in Seq(Properties)
      <3>1. ShortProperties \subseteq Properties
        BY DEF ShortProperties
      <3> QED BY <1>5, <3>1
    <2>3. f \in Frame
      BY <1>1, <1>7, <2>1, <2>2 DEF Frame
    <2> QED BY <1>4, <1>5, <1>7, <2>1, <2>3 DEF Fits
  <1> DEFINE all == EncodeFrame(f)
             h == HeadOf(f)
  <1>12. all = h \o Body(ps) /\ IsHeadOf(h, f) /\ Body(ps) \in Seq(Byte) /\ all \in Seq(Byte)
    <2>1. f \in Frame
      BY <1>11 DEF Fits
    <2> QED BY <1>7, <1>11, <2>1, EncodedFits
  <1> HIDE DEF all, h
  <1>13. /\ h \in Seq(Byte) /\ Len(h) = 12
         /\ h[1] = data[1] /\ h[2] = data[2] /\ h[3] = data[3] /\ h[4] = data[4]
         /\ h[5] = data[5] /\ h[6] = data[6] /\ h[7] = data[7] /\ h[8] = data[8]
         /\ h[9] = data[9] /\ h[10] = data[10] /\ h[11] = data[11] /\ h[12] = data[12]
    <2>4. IsHead(h, 16, 129, f.tid \div 256, f.tid % 256,
                 (f.seoj \div 256) \div 256, (f.seoj \div 256) % 256, f.seoj % 256,
                 (f.deoj \div 256) \div 256, (f.deoj \div 256) % 256, f.deoj % 256,
                 f.esv, Len(f.properties))
      BY <1>12, Zenon DEF IsHeadOf
    <2>5. /\ h \in Seq(Byte) /\ Len(h) = 12 /\ h[1] = 16 /\ h[2] = 129
          /\ h[3] = f.tid \div 256 /\ h[4] = f.tid % 256
          /\ h[5] = (f.seoj \div 256) \div 256 /\ h[6] = (f.seoj \div 256) % 256
          /\ h[7] = f.seoj % 256
          /\ h[8] = (f.deoj \div 256) \div 256 /\ h[9] = (f.deoj \div 256) % 256
          /\ h[10] = f.deoj % 256 /\ h[11] = f.esv /\ h[12] = Len(f.properties)
      BY <2>4, Zenon DEF IsHead
    <2>6. 16 = data[1] /\ 129 = data[2] /\ f.esv = data[11] /\ Len(f.properties) = data[12]
      BY <1>1, <1>5, <1>7
    <2>7. h[1] = data[1] /\ h[2] = data[2] /\ h[11] = data[11] /\ h[12] = data[12]
      BY <2>5, <2>6, Zenon
    <2>8. h[3] = data[3] /\ h[4] = data[4]
      BY <1>8, <2>5, Zenon
    <2>9. h[5] = data[5] /\ h[6] = data[6] /\ h[7] = data[7]
      BY <1>9, <2>5, Zenon
    <2>10. h[8] = data[8] /\ h[9] = data[9] /\ h[10] = data[10]
      BY <1>10, <2>5, Zenon
    <2> QED BY <2>5, <2>7, <2>8, <2>9, <2>10, Zenon
  <1>14. \A i \in 1..12 : h[i] = data[i]
    <2>1. \A i \in 1..12 : \/ i = 1 \/ i = 2 \/ i = 3 \/ i = 4 \/ i = 5 \/ i = 6 \/ i = 7 \/ i = 8
                           \/ i = 9 \/ i = 10 \/ i = 11 \/ i = 12
      OBVIOUS
    <2> QED BY <1>13, <2>1
  <1>15. Joins(Byte, all, h, Body(ps))
    BY <1>12, <1>13, Joined
  <1>16. Begins(all, data)
    <2>1. /\ Len(all) = 12 + Len(Body(ps)) /\ Len(Body(ps)) \in Nat
          /\ \A i \in 1..12 : all[i] = h[i]
          /\ \A i \in 1..Len(Body(ps)) : all[12 + i] = Body(ps)[i]
      BY <1>13, <1>15 DEF Joins
    <2>2. ASSUME NEW i \in 1..Len(all) PROVE data[i] = all[i]
      <3>1. CASE i <= 12
        <4>1. i \in 1..12
          BY <2>1, <3>1
        <4> QED BY <1>14, <2>1, <4>1
      <3>2. CASE ~(i <= 12)
        <4>1. PICK k \in 1..Len(Body(ps)) : i = 12 + k
          <5>1. i - 12 \in 1..Len(Body(ps)) /\ i = 12 + (i - 12)
            BY <2>1, <3>2
          <5> QED BY <5>1
        <4> QED BY <1>5, <2>1, <4>1
      <3> QED BY <3>1, <3>2
    <2>3. Len(all) <= Len(data)
      BY <1>5, <2>1
    <2> QED BY <2>2, <2>3 DEF Begins
  <1>17. IsPrefix(all, data)
    BY <1>12, <1>16, PrefixElements
  <1> QED BY <1>11, <1>17 DEF f, all

-----------------------------------------------------------------------------
(* Answers.                                                                 *)

(* set_properties puts each EPC that was requested somewhere, and no other  *)
(* one.                                                                     *)
LEMMA SetsAreHonest ==
    ASSUME NEW requested, NEW response \in Frame \cup {None},
           NEW addressed \in BOOLEAN, NEW sent \in BOOLEAN
    PROVE  SetIsHonest(requested, response, SetResult(requested, addressed, sent, response))
  <1> DEFINE result == SetResult(requested, addressed, sent, response)
             accepted == EpcsOf({p \in Named(requested, response) : p.edt = <<>>})
             rejected == EpcsOf({p \in Named(requested, response) : p.edt # <<>>})
  <1> HIDE DEF result
  <1>1. ASSUME requested = {} \/ ~addressed \/ ~sent
        PROVE  SetIsHonest(requested, response, result)
    <2>1. result = SetRequestResult(FALSE, {}, {}, requested)
      BY <1>1 DEF SetResult, result
    <2> QED BY <2>1 DEF SetRequestResult, SetIsHonest
  <1>2. ASSUME requested # {} /\ addressed /\ sent /\ response = None
        PROVE  SetIsHonest(requested, response, result)
    <2>1. result = SetRequestResult(TRUE, {}, {}, requested)
      BY <1>2 DEF SetResult, result
    <2> QED BY <2>1 DEF SetRequestResult, SetIsHonest
  <1>3. ASSUME requested # {} /\ addressed /\ sent /\ response # None /\ response.esv = ESV.SetRes
        PROVE  SetIsHonest(requested, response, result)
    <2>1. result = SetRequestResult(TRUE, requested, {}, {})
      BY <1>3 DEF SetResult, result
    <2> QED BY <1>3, <2>1 DEF SetRequestResult, SetIsHonest
  <1>4. ASSUME requested # {} /\ addressed /\ sent /\ response # None /\ response.esv # ESV.SetRes
        PROVE  SetIsHonest(requested, response, result)
    <2>1. result = SetRequestResult(TRUE, accepted, rejected, requested \ (accepted \cup rejected))
      BY <1>4 DEF SetResult, result
    <2>2. ToSet(response.properties) \subseteq Properties
      <3>1. response.properties \in Seq(Properties)
        BY <1>4 DEF Frame
      <3> QED BY <3>1, ElementsOf
    <2>3. \A epc \in accepted : epc \in requested
                                /\ Property(epc, <<>>) \in ToSet(response.properties)
      BY <2>2 DEF EpcsOf, Named, Property, Properties
    <2>4. \A epc \in rejected : epc \in requested /\ epc \in EpcsOf(ToSet(response.properties))
      BY DEF EpcsOf, Named
    <2>5. NamedOnce(response) => accepted \cap rejected = {}
      <3>1. SUFFICES ASSUME NamedOnce(response), NEW epc \in accepted, epc \in rejected
                     PROVE  FALSE
        OBVIOUS
      <3>2. PICK p \in Named(requested, response) : p.edt = <<>> /\ p.epc = epc
        BY <3>1 DEF EpcsOf
      <3>3. PICK q \in Named(requested, response) : q.edt # <<>> /\ q.epc = epc
        BY <3>1 DEF EpcsOf
      <3>4. p \in ToSet(response.properties) /\ q \in ToSet(response.properties)
        BY <3>2, <3>3 DEF Named
      <3>5. PICK i \in DOMAIN response.properties : p = response.properties[i]
        BY <3>4 DEF ToSet
      <3>6. PICK j \in DOMAIN response.properties : q = response.properties[j]
        BY <3>4 DEF ToSet
      <3> QED BY <3>1, <3>2, <3>3, <3>5, <3>6 DEF NamedOnce
    <2> HIDE DEF accepted, rejected
    <2> QED BY <1>4, <2>1, <2>3, <2>4, <2>5 DEF SetRequestResult, SetIsHonest
  <1>5. SetIsHonest(requested, response, result)
    BY <1>1, <1>2, <1>3, <1>4
  <1> QED BY <1>5 DEF result

(* request_notifications does so too.                                       *)
LEMMA NotificationsAreHonest ==
    ASSUME NEW requested, NEW response, NEW addressed \in BOOLEAN
    PROVE  NotifyIsHonest(requested, response, InfResult(requested, addressed, response))
  <1> DEFINE result == InfResult(requested, addressed, response)
             responded == EpcsOf(Named(requested, response))
  <1>1. \A epc \in responded : epc \in requested /\ epc \in EpcsOf(ToSet(response.properties))
    BY DEF EpcsOf, Named
  <1>2. \/ result = [notified |-> {}, rejected |-> {}, unanswered |-> requested]
        \/ /\ response.esv = ESV.Inf
           /\ result = [notified |-> responded, rejected |-> {},
                        unanswered |-> requested \ responded]
        \/ result = [notified |-> {}, rejected |-> responded, unanswered |-> requested \ responded]
    BY DEF InfResult
  <1> HIDE DEF result, responded
  <1> QED BY <1>1, <1>2 DEF NotifyIsHonest, result

-----------------------------------------------------------------------------
(* Instances.                                                               *)

(* Bytes stand for a natural number.                                        *)
LEMMA NumberOfBytes ==
    ASSUME NEW edt \in Seq(Byte)
    PROVE  FromBytes(edt) \in Nat
  <1>1. PICK number \in [0..Len(edt) -> Nat] : FromBytes(edt) = number[Len(edt)]
    BY FromBytesCounts
  <1>2. Len(edt) \in 0..Len(edt)
    <2>1. Len(edt) \in Nat
      OBVIOUS
    <2> QED BY <2>1
  <1> QED BY <1>1, <1>2

(* Distinct keeps each value once. *)
LEMMA DistinctOnce ==
    ASSUME NEW S, NEW s \in Seq(S)
    PROVE  /\ Distinct(s) \in Seq(S) /\ IsInjective(Distinct(s))
           /\ ToSet(Distinct(s)) = ToSet(s)
  <1> DEFINE n == Len(s)
             Next1(q, x) == IF x \in ToSet(q) THEN q ELSE Append(q, x)
             step == [x \in Seq(S) \X (1..n) |-> Next1(x[1], s[x[2]])]
             P(f) == f = [i \in 0..n |-> IF i = 0 THEN <<>>
                                         ELSE IF s[i] \in ToSet(f[i - 1]) THEN f[i - 1]
                                         ELSE Append(f[i - 1], s[i])]
             kept == CHOOSE f : P(f)
  <1>1. n \in Nat /\ \A i \in 1..n : s[i] \in S
    OBVIOUS
  <1>2. Distinct(s) = kept[n]
    BY DEF Distinct
  <1> HIDE DEF n, kept
  <1>3. /\ <<>> \in Seq(S) /\ step \in [Seq(S) \X (1..n) -> Seq(S)]
        /\ \A q \in Seq(S), i \in 1..n : step[<<q, i>>] = Next1(q, s[i])
    <2>1. ASSUME NEW q \in Seq(S), NEW i \in 1..n PROVE Next1(q, s[i]) \in Seq(S)
      BY <1>1
    <2>2. <<>> \in Seq(S)
      OBVIOUS
    <2> HIDE DEF Next1
    <2> QED BY <2>1, <2>2
  <1> HIDE DEF step
  <1>4. PICK f \in [0..n -> Seq(S)] : Follows(f, <<>>, n, step)
    BY <1>1, <1>3, Recursion
  <1>5. f[0] = <<>> /\ \A i \in 1..n : f[i] = Next1(f[i - 1], s[i])
    <2>1. \A i \in 1..n : i - 1 \in 0..n
      BY <1>1
    <2> HIDE DEF Next1
    <2> QED BY <1>3, <1>4, <2>1 DEF Follows
  <1>6. P(f)
    <2>1. f = [i \in 0..n |-> f[i]]
      BY <1>4
    <2>2. \A i \in 0..n : i # 0 => i \in 1..n
      BY <1>1
    <2>3. \A i \in 0..n : f[i] = IF i = 0 THEN <<>> ELSE Next1(f[i - 1], s[i])
      <3> HIDE DEF Next1
      <3> QED BY <1>5, <2>2
    <2> QED BY <2>1, <2>3
  <1>7. P(kept)
    <2>1. \E g : P(g)
      <3> HIDE DEF P
      <3> QED BY <1>6
    <2> QED BY <2>1 DEF kept
  <1>8. kept[0] = <<>> /\ \A i \in 1..n : kept[i] = Next1(kept[i - 1], s[i])
    <2>1. 0 \in 0..n /\ \A i \in 1..n : i \in 0..n /\ i # 0
      BY <1>1
    <2> QED BY <1>7, <2>1
  <1> DEFINE Before(i) == {s[j] : j \in 1..i}
             T == {i \in 0..n : kept[i] \in Seq(S) /\ IsInjective(kept[i])
                                /\ ToSet(kept[i]) = Before(i)}
  <1>9. T = 0..n
    <2>1. T \subseteq 0..n
      OBVIOUS
    <2>2. 0 \in T
      <3>1. <<>> \in Seq(S) /\ Before(0) = {} /\ 0 \in 0..n
        BY <1>1
      <3> QED BY <1>8, <3>1, EmptySequence
    <2>3. ASSUME NEW i \in T, i < n PROVE i + 1 \in T
      <3>1. i \in 0..n /\ i + 1 \in 0..n /\ i + 1 \in 1..n /\ (i + 1) - 1 = i
        BY <1>1, <2>3
      <3> DEFINE q == kept[i]
                 x == s[i + 1]
                 r == kept[i + 1]
      <3>2. q \in Seq(S) /\ IsInjective(q) /\ ToSet(q) = Before(i) /\ x \in S
        BY <1>1, <3>1
      <3>3. r = Next1(q, x)
        <4> HIDE DEF Next1
        <4> QED BY <1>8, <3>1
      <3>4. Before(i + 1) = Before(i) \cup {x}
        <4>1. \A j \in 1..(i + 1) : j \in 1..i \/ j = i + 1
          BY <3>1
        <4>2. i + 1 \in 1..(i + 1) /\ \A j \in 1..i : j \in 1..(i + 1)
          BY <3>1
        <4> QED BY <4>1, <4>2
      <3> HIDE DEF q, x, r, Before
      <3>5. CASE x \in ToSet(q)
        <4>1. r = q
          BY <3>3, <3>5
        <4> QED BY <3>1, <3>2, <3>4, <3>5, <4>1 DEF r
      <3>6. CASE x \notin ToSet(q)
        <4>1. r = Append(q, x)
          BY <3>3, <3>6
        <4>2. r \in Seq(S) /\ IsInjective(r) /\ ToSet(r) = ToSet(q) \cup {x}
          BY <3>2, <3>6, <4>1, ElementsOfAppend
        <4> QED BY <3>1, <3>2, <3>4, <4>2 DEF r
      <3> QED BY <3>5, <3>6
    <2> HIDE DEF T
    <2> QED BY <1>1, <2>1, <2>2, <2>3, CountingUpto
  <1>10. n \in T
    <2>1. n \in 0..n
      BY <1>1
    <2> HIDE DEF T
    <2> QED BY <1>9, <2>1
  <1>11. ToSet(s) = Before(n)
    <2>1. DOMAIN s = 1..n
      BY DEF n
    <2> QED BY <2>1 DEF ToSet
  <1> QED BY <1>2, <1>10, <1>11

(* The elements of flattened sequences. *)
LEMMA FlattenElements ==
    ASSUME NEW S, NEW n \in Nat, NEW seqs \in [1..n -> Seq(S)]
    PROVE  /\ FlattenSeq(seqs) \in Seq(S)
           /\ ToSet(FlattenSeq(seqs)) = UNION {ToSet(seqs[i]) : i \in 1..n}
  <1>1. PICK f \in [0..n -> Seq(S)] :
           /\ f[0] = <<>> /\ \A i \in 1..n : f[i] = f[i - 1] \o seqs[i]
           /\ FlattenSeq(seqs) = f[n]
    BY FlattenCounts
  <1> DEFINE T == {i \in 0..n : ToSet(f[i]) = UNION {ToSet(seqs[j]) : j \in 1..i}}
  <1>2. T = 0..n
    <2>1. T \subseteq 0..n
      OBVIOUS
    <2>2. 0 \in T
      <3>1. \A j \in 1..0 : FALSE
        OBVIOUS
      <3>2. UNION {ToSet(seqs[j]) : j \in 1..0} = {}
        BY <3>1
      <3> QED BY <1>1, <3>2, EmptySequence
    <2>3. ASSUME NEW i \in T, i < n PROVE i + 1 \in T
      <3>1. i \in 0..n /\ i + 1 \in 0..n /\ i + 1 \in 1..n /\ (i + 1) - 1 = i
        BY <2>3
      <3> DEFINE s == f[i]
                 t == seqs[i + 1]
                 U(k) == UNION {ToSet(seqs[j]) : j \in 1..k}
      <3>2. s \in Seq(S) /\ t \in Seq(S) /\ f[i + 1] = s \o t /\ ToSet(s) = U(i)
        BY <1>1, <3>1
      <3>3. U(i + 1) = U(i) \cup ToSet(t)
        <4>1. \A j \in 1..(i + 1) : j \in 1..i \/ j = i + 1
          BY <3>1
        <4>2. i + 1 \in 1..(i + 1) /\ \A j \in 1..i : j \in 1..(i + 1)
          BY <3>1
        <4> QED BY <4>1, <4>2
      <3> HIDE DEF s, t, U
      <3>4. ToSet(s \o t) = ToSet(s) \cup ToSet(t)
        BY <3>2, ElementsOfConcat
      <3> QED BY <3>1, <3>2, <3>3, <3>4 DEF U
    <2> HIDE DEF T
    <2> QED BY <2>1, <2>2, <2>3, CountingUpto
  <1>3. n \in T /\ n \in 0..n
    <2>1. n \in 0..n
      OBVIOUS
    <2> HIDE DEF T
    <2> QED BY <1>2, <2>1
  <1> QED BY <1>1, <1>3

(* The instances of a property. *)
ListedOf(property) ==
    IF property.epc \in {213, 214} /\ property.edt # <<>>
    THEN {FromBytes(SubSeq(property.edt, 3 * k - 1, 3 * k + 1)) :
             k \in {n \in 1..property.edt[1] : 3 * n < Len(property.edt)}}
    ELSE {}

(* The instances of one property: as many as its count and its bytes allow. *)
LEMMA ListedElements ==
    ASSUME NEW p \in Properties
    PROVE  ListedIn(p) \in Seq(Nat) /\ ToSet(ListedIn(p)) = ListedOf(p)
  <1>1. CASE ~(p.epc \in {213, 214} /\ p.edt # <<>>)
    <2>1. ListedIn(p) = <<>> /\ ListedOf(p) = {}
      BY <1>1 DEF ListedIn, ListedOf
    <2>2. <<>> \in Seq(Nat)
      OBVIOUS
    <2> QED BY <2>1, <2>2, EmptySequence
  <1>2. CASE p.epc \in {213, 214} /\ p.edt # <<>>
    <2> DEFINE edt == p.edt
               whole == (Len(edt) - 1) \div 3
               count == IF edt[1] < whole THEN edt[1] ELSE whole
               Instance(i) == FromBytes(SubSeq(edt, 3 * i - 1, 3 * i + 1))
               listed == {n \in 1..edt[1] : 3 * n < Len(edt)}
    <2>1. edt \in Seq(Byte) /\ edt # <<>>
      BY <1>2 DEF Properties
    <2>2. ListedIn(p) = [i \in 1..count |-> Instance(i)]
      BY <1>2, Zenon DEF ListedIn, Instances
    <2>3. ListedOf(p) = {Instance(k) : k \in listed}
      BY <1>2, Zenon DEF ListedOf
    <2> HIDE DEF edt
    <2>4. Len(edt) \in Nat /\ Len(edt) >= 1 /\ edt[1] \in Byte
      BY <2>1
    <2>5. edt[1] \in Nat
      <3>1. \A b \in Byte : b \in Nat
        BY DEF Byte
      <3> QED BY <2>4, <3>1
    <2>6. count \in Nat /\ \A n \in Nat : n <= count <=> n <= edt[1] /\ 3 * n < Len(edt)
      <3> DEFINE l == Len(edt)
      <3>1. l \in Nat /\ l >= 1
        BY <2>4
      <3> HIDE DEF l
      <3>2. whole = (l - 1) \div 3
        BY DEF l
      <3> HIDE DEF whole
      <3>3. whole \in Nat /\ 3 * whole <= l - 1 /\ l - 1 < 3 * whole + 3
        BY <3>1, <3>2, SMT
      <3>4. \A n \in Nat : n <= whole <=> 3 * n < l
        BY <3>1, <3>3, SMT
      <3> QED BY <2>5, <3>3, <3>4 DEF l
    <2> HIDE DEF count
    <2>7. listed = 1..count
      <3>1. \A n \in 1..edt[1] : n \in Nat
        OBVIOUS
      <3>2. listed \subseteq 1..count
        BY <2>6, <3>1
      <3>3. \A n \in 1..count : n \in Nat /\ n >= 1 /\ n <= count
        OBVIOUS
      <3>4. 1..count \subseteq listed
        BY <2>5, <2>6, <3>3
      <3> QED BY <3>2, <3>4
    <2>8. ASSUME NEW i \in 1..count PROVE Instance(i) \in Nat
      <3>1. i \in Nat /\ i >= 1 /\ 3 * i < Len(edt)
        BY <2>6
      <3>2. /\ 3 * i - 1 \in Int /\ 3 * i + 1 \in Int
            /\ \A j \in (3 * i - 1)..(3 * i + 1) : j \in 1..Len(edt)
        BY <2>4, <3>1
      <3>3. \A j \in (3 * i - 1)..(3 * i + 1) : edt[j] \in Byte
        BY <2>1, <3>2
      <3>4. SubSeq(edt, 3 * i - 1, 3 * i + 1) \in Seq(Byte)
        BY <3>2, <3>3, SubSeqProperties
      <3> QED BY <3>4, NumberOfBytes
    <2> HIDE DEF Instance
    <2>9. [i \in 1..count |-> Instance(i)] \in Seq(Nat)
      BY <2>6, <2>8
    <2>10. ToSet([i \in 1..count |-> Instance(i)]) = {Instance(k) : k \in 1..count}
      BY DEF ToSet
    <2> HIDE DEF listed
    <2> QED BY <2>2, <2>3, <2>7, <2>9, <2>10
  <1> QED BY <1>1, <1>2

(* The instances of a frame are those of its lists, each of them once.      *)
LEMMA InstancesListed ==
    ASSUME NEW f \in Frame
    PROVE  InstancesAreListed(f, DiscoveryInfo(f))
  <1> DEFINE ps == f.properties
             n == Len(ps)
             lists == [i \in 1..n |-> ListedIn(ps[i])]
             info == DiscoveryInfo(f)
  <1>1. ps \in Seq(Properties) /\ DOMAIN ps = 1..n /\ n \in Nat /\ ToSet(ps) = {ps[i] : i \in 1..n}
    <2>1. ps \in Seq(Properties)
      BY DEF Frame
    <2>2. DOMAIN ps = 1..n /\ n \in Nat
      BY <2>1
    <2> QED BY <2>1, <2>2 DEF ToSet
  <1>2. info.instances = Distinct(FlattenSeq(lists))
    BY <1>1, Zenon DEF DiscoveryInfo
  <1> HIDE DEF ps, n, info
  <1>3. ASSUME NEW i \in 1..n
        PROVE  ps[i] \in Properties /\ ListedIn(ps[i]) \in Seq(Nat)
               /\ ToSet(ListedIn(ps[i])) = ListedOf(ps[i])
    <2>1. ps[i] \in Properties
      BY <1>1 DEF n
    <2> QED BY <2>1, ListedElements
  <1>4. lists \in [1..n -> Seq(Nat)] /\ \A i \in 1..n : ToSet(lists[i]) = ListedOf(ps[i])
    BY <1>3
  <1> HIDE DEF lists
  <1>5. /\ FlattenSeq(lists) \in Seq(Nat)
        /\ ToSet(FlattenSeq(lists)) = UNION {ToSet(lists[i]) : i \in 1..n}
    BY <1>1, <1>4, FlattenElements
  <1>6. IsInjective(info.instances) /\ ToSet(info.instances) = ToSet(FlattenSeq(lists))
    BY <1>2, <1>5, DistinctOnce
  <1>7. UNION {ToSet(lists[i]) : i \in 1..n} = UNION {ListedOf(p) : p \in ToSet(ps)}
    BY <1>1, <1>4
  <1> DEFINE own == {p \in ToSet(ps) : p.epc \in {213, 214} /\ p.edt # <<>>}
             Sent(p) == LET edt == p.edt IN
                        {FromBytes(SubSeq(edt, 3 * k - 1, 3 * k + 1)) :
                            k \in {m \in 1..edt[1] : 3 * m < Len(edt)}}
  <1>8. \A p \in ToSet(ps) : ListedOf(p) = IF p \in own THEN Sent(p) ELSE {}
    BY Zenon DEF ListedOf
  <1>9. UNION {ListedOf(p) : p \in ToSet(ps)} = UNION {Sent(p) : p \in own}
    <2> HIDE DEF Sent
    <2> QED BY <1>8
  <1>10. ToSet(info.instances) = UNION {Sent(p) : p \in own}
    BY <1>5, <1>6, <1>7, <1>9
  <1> QED BY <1>6, <1>10, Zenon DEF InstancesAreListed, info, ps

-----------------------------------------------------------------------------
(* Texts and scales.                                                        *)

(* A bounded set of places has a last one. *)
LEMMA Greatest ==
    ASSUME NEW n \in Nat, NEW T, T \subseteq 1..n, T # {}
    PROVE  Max(T) \in T /\ \A i \in T : i <= Max(T)
  <1> DEFINE U == {n - i : i \in T}
  <1>1. U \subseteq Nat /\ U # {}
    <2>1. \A i \in T : i \in 1..n
      OBVIOUS
    <2>2. \A i \in 1..n : n - i \in Nat
      OBVIOUS
    <2> QED BY <2>1, <2>2
  <1> HIDE DEF U
  <1>2. PICK u \in U : \A v \in U : u <= v
    BY <1>1, Least
  <1>3. PICK x \in T : u = n - x
    BY <1>2 DEF U
  <1>4. \A y \in T : x >= y
    <2>1. ASSUME NEW y \in T PROVE x >= y
      <3>1. n - y \in U
        BY DEF U
      <3>2. n - x <= n - y /\ x \in Int /\ y \in Int
        BY <1>2, <1>3, <3>1
      <3> QED BY <3>2, SMT
    <2> QED BY <2>1
  <1>5. Max(T) \in T /\ \A y \in T : Max(T) >= y
    BY <1>4, Zenon DEF Max
  <1>6. \A y \in T : y \in Int
    BY SMT
  <1> QED BY <1>5, <1>6

(* A text is its EDT without the padding.                                   *)
LEMMA TextsAreBytes ==
    ASSUME NEW edt \in Seq(Byte)
    PROVE  TextIsItsBytes(edt, AsciiOf(edt))
  <1> DEFINE n == Len(edt)
             text == {i \in DOMAIN edt : edt[i] \notin {0, 32}}
             end == IF text = {} THEN 0 ELSE Max(text)
             result == SubSeq(edt, 1, end)
             rest == SubSeq(edt, n + 1, n)
  <1>1. n \in Nat /\ DOMAIN edt = 1..n /\ \A i \in 1..n : edt[i] \in Byte
    OBVIOUS
  <1>2. /\ end \in 0..n /\ (end # 0 => edt[end] \notin {0, 32})
        /\ \A i \in 1..n : i > end => edt[i] \in {0, 32}
    <2>1. CASE text = {}
      BY <1>1, <2>1
    <2>2. CASE text # {}
      <3>1. text \subseteq 1..n
        BY <1>1
      <3>2. Max(text) \in text /\ \A i \in text : i <= Max(text)
        BY <1>1, <2>2, <3>1, Greatest
      <3>3. end = Max(text)
        BY <2>2
      <3>4. \A i \in 1..n : edt[i] \notin {0, 32} => i \in text
        BY <1>1
      <3> HIDE DEF end, text
      <3>5. end \in 1..n /\ end \in text /\ \A i \in text : i <= end
        BY <3>1, <3>2, <3>3
      <3>6. edt[end] \notin {0, 32}
        BY <3>5 DEF text
      <3>7. \A i \in 1..n : i > end => i \notin text
        BY <1>1, <3>5
      <3> QED BY <1>1, <3>4, <3>5, <3>6, <3>7
    <2> QED BY <2>1, <2>2
  <1>3. AsciiOf(edt) = None \/ AsciiOf(edt) = result
    BY Zenon DEF AsciiOf
  <1> HIDE DEF text, end, n
  <1>4. Len(result) = end /\ \A i \in 1..end : result[i] = edt[i]
    <2>1. end \in Nat /\ \A i \in 1..end : i \in 1..n
      BY <1>1, <1>2
    <2>2. \A i \in 1..end : edt[i] \in Byte
      BY <1>1, <2>1
    <2>3. /\ Len(result) = IF 1 <= end THEN end - 1 + 1 ELSE 0
          /\ \A i \in 1..(end - 1 + 1) : result[i] = edt[1 + i - 1]
      BY <2>1, <2>2, SubSeqProperties
    <2>4. Len(result) = end /\ end - 1 + 1 = end
      BY <2>1, <2>3
    <2>5. \A i \in 1..end : 1 + i - 1 = i
      BY <2>1
    <2> HIDE DEF result
    <2> QED BY <2>3, <2>4, <2>5
  <1>5. result \in Seq(Byte)
    <2>1. end \in Int /\ \A i \in 1..end : i \in 1..n
      BY <1>1, <1>2
    <2>2. \A i \in 1..end : edt[i] \in Byte
      BY <1>1, <2>1
    <2> QED BY <2>1, <2>2, SubSeqProperties
  <1>6. IsPrefix(result, edt)
    <2>1. Begins(result, edt)
      <3>1. Len(result) <= Len(edt)
        BY <1>1, <1>2, <1>4 DEF n
      <3>2. \A i \in 1..Len(result) : edt[i] = result[i]
        <4> HIDE DEF result
        <4> QED BY <1>4
      <3> QED BY <3>1, <3>2 DEF Begins
    <2> HIDE DEF result
    <2> QED BY <1>5, <2>1, PrefixElements
  <1>7. result # <<>> => Last(result) \notin {0, 32}
    <2>1. SUFFICES ASSUME result # <<>> PROVE Last(result) \notin {0, 32}
      OBVIOUS
    <2>2. Len(result) # 0
      <3> HIDE DEF result
      <3> QED BY <1>5, <2>1
    <2>3. end # 0 /\ end \in 1..end
      BY <1>1, <1>2, <1>4, <2>2
    <2> HIDE DEF result
    <2> QED BY <1>2, <1>4, <2>3 DEF Last
  <1>8. ToSet(SubSeq(edt, Len(result) + 1, Len(edt))) \subseteq {0, 32}
    <2> DEFINE tail == SubSeq(edt, end + 1, n)
    <2>1. end \in Nat /\ end <= n /\ \A i \in (end + 1)..n : i \in 1..n /\ i > end
      BY <1>1, <1>2
    <2>2. \A i \in (end + 1)..n : edt[i] \in Byte
      BY <1>1, <2>1
    <2>3. /\ tail \in Seq(Byte) /\ Len(tail) = IF end + 1 <= n THEN n - (end + 1) + 1 ELSE 0
          /\ \A i \in 1..(n - (end + 1) + 1) : tail[i] = edt[(end + 1) + i - 1]
      BY <1>1, <2>1, <2>2, SubSeqProperties
    <2> HIDE DEF tail
    <2>4. DOMAIN tail = 1..Len(tail) /\ Len(tail) = n - end
      BY <1>1, <2>1, <2>3
    <2>5. ASSUME NEW i \in 1..Len(tail) PROVE tail[i] \in {0, 32}
      <3>1. i \in 1..(n - (end + 1) + 1) /\ (end + 1) + i - 1 \in 1..n /\ (end + 1) + i - 1 > end
        BY <1>1, <2>1, <2>4
      <3> QED BY <1>2, <2>3, <3>1
    <2>6. ToSet(tail) \subseteq {0, 32}
      BY <2>4, <2>5 DEF ToSet
    <2> QED BY <1>4, <2>6 DEF tail, n
  <1> HIDE DEF result
  <1> QED BY <1>3, <1>6, <1>7, <1>8 DEF TextIsItsBytes

(* A coefficient without a context has no value. *)
LEMMA FactorsAreRead ==
    ASSUME NEW coefficient, NEW context, Factor(coefficient, context) # None
    PROVE  /\ context # None /\ coefficient.epc \in DOMAIN context
           /\ Decode(coefficient.codec, context[coefficient.epc], None) # None
  <1> DEFINE own == Coefficients(coefficient.codec)
             edt == context[coefficient.epc]
             none == [i \in DOMAIN own |-> None]
  <1>1. context # None /\ coefficient.epc \in DOMAIN context
    BY DEF Factor
  <1>2. DecodeWith(coefficient.codec, edt, none) # None
    BY <1>1, Zenon DEF Factor
  <1>3. [i \in DOMAIN own |-> Factor(own[i], None)] = none
    BY DEF Factor
  <1>4. Decode(coefficient.codec, edt, None) = DecodeWith(coefficient.codec, edt, none)
    BY <1>3, Zenon DEF Decode
  <1> QED BY <1>1, <1>2, <1>4

(* Coefficients that are not empty have a first one. *)
LEMMA CoefficientsAreThere ==
    ASSUME NEW field, CodecOf(field) # None, IsScaled(field)
    PROVE  DOMAIN CodecOf(field).coefficients # {}
  <1> DEFINE codec == CodecOf(field)
             entity == EntityFor(field.class, field.epc, field.manufacturer, field.offset)
             epcs == entity.coefficient_epcs
             own == CoefficientCodecs(epcs, field.class)
             all == [i \in DOMAIN epcs |->
                       [epc |-> epcs[i], codec |-> CoefficientCodec(field.class)[epcs[i]]]]
  <1>1. codec.kind = "numeric" /\ codec.coefficients # <<>>
    BY DEF IsScaled
  <1>2. codec = GetCodec(entity, own)
    <2>1. codec # [kind |-> "location"]
      BY <1>1
    <2> HIDE DEF own
    <2>2. codec = GetCodecForEpc(field.class, field.epc, field.manufacturer, field.offset)
      BY <2>1 DEF CodecOf
    <2> QED BY <2>2 DEF GetCodecForEpc, own
  <1> HIDE DEF own, entity, epcs
  <1>3. own # None /\ codec.coefficients = own
    <2> HIDE DEF codec
    <2> QED BY <1>1, <1>2 DEF GetCodec, NumericCodec, codec
  <1>4. own = <<>> \/ own = all
    <2> HIDE DEF all
    <2> QED BY <1>3 DEF own, all, CoefficientCodecs, AllOrNone
  <1>5. DOMAIN all = {} => all = <<>>
    OBVIOUS
  <1> HIDE DEF all
  <1> QED BY <1>1, <1>3, <1>4, <1>5

(* A number with coefficients is told only with the values of all of them.  *)
LEMMA ScalesAreKnown ==
    ASSUME NEW field, CodecOf(field) # None, NEW edt, NEW context
    PROVE  ScaleIsKnown(field, context, Decode(CodecOf(field), edt, context))
  <1> DEFINE codec == CodecOf(field)
             own == codec.coefficients
             factors == [i \in DOMAIN own |-> Factor(own[i], context)]
             value == Decode(codec, edt, context)
  <1> SUFFICES ASSUME IsScaled(field), value # None
               PROVE  /\ context # None
                      /\ \A coefficient \in ToSet(own) :
                            /\ coefficient.epc \in DOMAIN context
                            /\ Decode(coefficient.codec, context[coefficient.epc], None) # None
    BY Zenon DEF ScaleIsKnown
  <1>0. codec.kind = "numeric" /\ DOMAIN own # {}
    BY CoefficientsAreThere DEF IsScaled
  <1>1. value = DecodeNumeric(codec, edt, factors)
    BY <1>0 DEF Decode, DecodeWith, Coefficients
  <1>2. None \notin ToSet(factors)
    BY <1>1 DEF DecodeNumeric
  <1>3. \A i \in DOMAIN own : Factor(own[i], context) # None
    BY <1>2 DEF ToSet
  <1>4. \A i \in DOMAIN own :
           /\ context # None /\ own[i].epc \in DOMAIN context
           /\ Decode(own[i].codec, context[own[i].epc], None) # None
    BY <1>3, FactorsAreRead
  <1> QED BY <1>0, <1>4 DEF ToSet

(* Every place in the order of a finite set of numbers has one number.      *)
LEMMA Ranks ==
    ASSUME NEW T \in SUBSET Nat, IsFiniteSet(T)
    PROVE  LET n == Cardinality(T)
               Rank(x) == Cardinality({e \in T : e < x})
           IN  /\ n \in Nat
               /\ \A x \in T : Rank(x) \in 0..(n - 1)
               /\ \A k \in 1..n : \E x \in T : Rank(x) = k - 1
  <1> DEFINE n == Cardinality(T)
             Below(x) == {e \in T : e < x}
             Rank(x) == Cardinality(Below(x))
             place == [x \in T |-> Rank(x) + 1]
  <1>1. n \in Nat
    BY FS_CardinalityType
  <1>2. ASSUME NEW x \in T
        PROVE  IsFiniteSet(Below(x)) /\ Rank(x) \in Nat /\ Rank(x) <= n - 1
    <2>1. Below(x) \in SUBSET T /\ Below(x) # T
      <3>1. x \notin Below(x)
        OBVIOUS
      <3> QED BY <3>1
    <2>2. IsFiniteSet(Below(x)) /\ Rank(x) <= n /\ (n = Rank(x) => T = Below(x))
      BY <2>1, FS_Subset
    <2>3. Rank(x) \in Nat
      BY <2>2, FS_CardinalityType
    <2> QED BY <1>1, <2>1, <2>2, <2>3
  <1>3. ASSUME NEW x \in T, NEW y \in T, x < y PROVE Rank(x) < Rank(y)
    <2>1. Below(x) \in SUBSET Below(y) /\ x \in Below(y) /\ x \notin Below(x)
      <3>1. \A e \in T : e \in Nat
        OBVIOUS
      <3>2. \A e \in T : e < x => e < y
        BY <1>3, <3>1
      <3>3. ~(x < x)
        BY <3>1
      <3> QED BY <1>3, <3>2, <3>3
    <2>2. Rank(x) <= Rank(y) /\ (Rank(y) = Rank(x) => Below(y) = Below(x))
      BY <1>2, <2>1, FS_Subset
    <2>3. Rank(x) # Rank(y)
      BY <2>1, <2>2
    <2>4. Rank(x) \in Nat /\ Rank(y) \in Nat
      BY <1>2
    <2> HIDE DEF Rank
    <2> QED BY <2>2, <2>3, <2>4
  <1>31. \A x \in T : x \in Nat /\ Rank(x) \in Nat /\ Rank(x) <= n - 1
    <2> HIDE DEF n, Below
    <2> QED BY <1>2
  <1> HIDE DEF Rank, n
  <1>4. place \in Injection(T, 1..n)
    <2>1. place \in [T -> 1..n]
      BY <1>1, <1>31
    <2>2. ASSUME NEW x \in T, NEW y \in T, place[x] = place[y] PROVE x = y
      <3>1. Rank(x) = Rank(y) /\ x \in Nat /\ y \in Nat /\ Rank(x) \in Nat /\ Rank(y) \in Nat
        BY <1>31, <2>2
      <3>2. ~(x < y) /\ ~(y < x)
        BY <1>3, <3>1
      <3> QED BY <3>1, <3>2
    <2> QED BY <2>1, <2>2 DEF Injection, IsInjective
  <1>5. place \in Surjection(T, 1..n)
    <2>1. IsFiniteSet(1..n) /\ Cardinality(1..n) = n
      BY <1>1, FS_Interval
    <2> HIDE DEF place
    <2> QED BY <1>4, <2>1, FS_Injection DEF n
  <1>6. \A k \in 1..n : \E x \in T : Rank(x) = k - 1
    <2>1. \A k \in 1..n : \E x \in T : place[x] = k
      BY <1>5 DEF Surjection
    <2>2. \A k \in 1..n, x \in T : place[x] = k => Rank(x) = k - 1
      BY <1>31
    <2> QED BY <2>1, <2>2
  <1>7. \A x \in T : Rank(x) \in 0..(n - 1)
    BY <1>1, <1>31
  <1> QED BY <1>1, <1>6, <1>7 DEF Rank, n

(* The numbers of a set in their order are those of the set. *)
LEMMA Ordering ==
    ASSUME NEW T \in SUBSET Nat, IsFiniteSet(T)
    PROVE  LET n == Cardinality(T)
               Ordered(k) == CHOOSE x \in T : Cardinality({e \in T : e < x}) = k - 1
           IN  /\ n \in Nat /\ \A k \in 1..n : Ordered(k) \in T
               /\ {Ordered(k) : k \in 1..n} = T
  <1> DEFINE n == Cardinality(T)
             Rank(x) == Cardinality({e \in T : e < x})
             Ordered(k) == CHOOSE x \in T : Rank(x) = k - 1
  <1>1. /\ n \in Nat /\ \A x \in T : Rank(x) \in 0..(n - 1)
        /\ \A k \in 1..n : \E x \in T : Rank(x) = k - 1
    BY Ranks
  <1> HIDE DEF n, Rank
  <1>2. \A k \in 1..n : Ordered(k) \in T /\ Rank(Ordered(k)) = k - 1
    BY <1>1
  <1> DEFINE listed == [k \in 1..n |-> Ordered(k)]
  <1>3. listed \in [1..n -> T]
    BY <1>2
  <1>4. listed \in Injection(1..n, T)
    <2>1. ASSUME NEW j \in 1..n, NEW k \in 1..n, listed[j] = listed[k] PROVE j = k
      <3>1. Rank(Ordered(j)) = j - 1 /\ Rank(Ordered(k)) = k - 1 /\ Ordered(j) = Ordered(k)
        BY <1>2, <2>1
      <3> HIDE DEF Ordered
      <3> QED BY <3>1
    <2> HIDE DEF listed
    <2> QED BY <1>3, <2>1 DEF Injection, IsInjective
  <1>5. listed \in Surjection(1..n, T)
    <2>1. IsFiniteSet(1..n) /\ Cardinality(1..n) = n
      BY <1>1, FS_Interval
    <2> HIDE DEF listed
    <2> QED BY <1>4, <2>1, FS_Injection DEF n
  <1>6. {Ordered(k) : k \in 1..n} = T
    <2>1. \A x \in T : \E k \in 1..n : listed[k] = x
      BY <1>5 DEF Surjection
    <2>2. \A k \in 1..n : listed[k] = Ordered(k)
      OBVIOUS
    <2> HIDE DEF Ordered, listed
    <2> QED BY <1>2, <2>1, <2>2
  <1>7. \A k \in 1..n : Ordered(k) \in T
    BY <1>2
  <1> QED BY <1>1, <1>6, <1>7 DEF n, Rank

(* A byte is its eight bits. *)
IsBits(s, b) ==
    /\ s \in Byte
    /\ (s \div 1) % 2 = 1 <=> b[0] = 1
    /\ (s \div 2) % 2 = 1 <=> b[1] = 2
    /\ (s \div 4) % 2 = 1 <=> b[2] = 4
    /\ (s \div 8) % 2 = 1 <=> b[3] = 8
    /\ (s \div 16) % 2 = 1 <=> b[4] = 16
    /\ (s \div 32) % 2 = 1 <=> b[5] = 32
    /\ (s \div 64) % 2 = 1 <=> b[6] = 64
    /\ (s \div 128) % 2 = 1 <=> b[7] = 128

(* A sum of different powers of two has them as its bits.                   *)
LEMMA EightBits ==
    ASSUME NEW b, b[0] \in {0, 1}, b[1] \in {0, 2}, b[2] \in {0, 4}, b[3] \in {0, 8},
           b[4] \in {0, 16}, b[5] \in {0, 32}, b[6] \in {0, 64}, b[7] \in {0, 128}
    PROVE  IsBits(b[0] + b[1] + b[2] + b[3] + b[4] + b[5] + b[6] + b[7], b)
  <1> DEFINE b0 == b[0]  b1 == b[1]  b2 == b[2]  b3 == b[3]
             b4 == b[4]  b5 == b[5]  b6 == b[6]  b7 == b[7]
             s == b0 + b1 + b2 + b3 + b4 + b5 + b6 + b7
  <1>0. /\ b0 \in {0, 1} /\ b1 \in {0, 2} /\ b2 \in {0, 4} /\ b3 \in {0, 8}
        /\ b4 \in {0, 16} /\ b5 \in {0, 32} /\ b6 \in {0, 64} /\ b7 \in {0, 128}
    OBVIOUS
  <1> HIDE DEF b0, b1, b2, b3, b4, b5, b6, b7
  <1>1. s \in Nat /\ s <= 255
    BY <1>0
  <1>2. (s \div 1) % 2 = 1 <=> b0 = 1
    BY <1>0, SMT
  <1>3. (s \div 2) % 2 = 1 <=> b1 = 2
    BY <1>0, SMT
  <1>4. (s \div 4) % 2 = 1 <=> b2 = 4
    BY <1>0, SMT
  <1>5. (s \div 8) % 2 = 1 <=> b3 = 8
    BY <1>0, SMT
  <1>6. (s \div 16) % 2 = 1 <=> b4 = 16
    BY <1>0, SMT
  <1>7. (s \div 32) % 2 = 1 <=> b5 = 32
    BY <1>0, SMT
  <1>8. (s \div 64) % 2 = 1 <=> b6 = 64
    BY <1>0, SMT
  <1>9. (s \div 128) % 2 = 1 <=> b7 = 128
    BY <1>0, SMT
  <1>10. s \in Byte
    BY <1>1 DEF Byte
  <1> QED BY <1>2, <1>3, <1>4, <1>5, <1>6, <1>7, <1>8, <1>9, <1>10, Zenon
            DEF b0, b1, b2, b3, b4, b5, b6, b7, IsBits

(* The first elements of a sequence.                                        *)
LEMMA FirstElements ==
    ASSUME NEW S, NEW s \in Seq(S), NEW k \in 0..Len(s)
    PROVE  /\ SubSeq(s, 1, k) \in Seq(S) /\ Len(SubSeq(s, 1, k)) = k
           /\ \A j \in 1..k : SubSeq(s, 1, k)[j] = s[j]
  OBVIOUS

(* The bits of an index of a map. *)
BitAt(epcs, index, bit) == IF 128 + 16 * bit + index \in epcs THEN 2 ^ bit ELSE 0
BitsAt(epcs, index) ==
    BitAt(epcs, index, 0) + BitAt(epcs, index, 1) + BitAt(epcs, index, 2) + BitAt(epcs, index, 3)
    + BitAt(epcs, index, 4) + BitAt(epcs, index, 5) + BitAt(epcs, index, 6) + BitAt(epcs, index, 7)

(* The values of the eight bits.                                            *)
LEMMA TwoPowers == /\ 2 ^ 0 = 1 /\ 2 ^ 1 = 2 /\ 2 ^ 2 = 4 /\ 2 ^ 3 = 8 /\ 2 ^ 4 = 16
                   /\ 2 ^ 5 = 32 /\ 2 ^ 6 = 64 /\ 2 ^ 7 = 128
  BY SMT

(* A byte of the bitmap has a bit for each EPC of its index that is in the  *)
(* set.                                                                     *)
LEMMA BitsRead ==
    ASSUME NEW epcs, NEW index \in 0..15
    PROVE  /\ BitsAt(epcs, index) \in Byte
           /\ \A bit \in 0..7 : (BitsAt(epcs, index) \div 2 ^ bit) % 2 = 1
                                <=> 128 + 16 * bit + index \in epcs
  <1> DEFINE b == [k \in 0..7 |-> BitAt(epcs, index, k)]
             s == BitsAt(epcs, index)
  <1>1. \A k \in 0..7 : /\ b[k] = BitAt(epcs, index, k) /\ b[k] \in {0, 2 ^ k}
                        /\ b[k] = 2 ^ k \/ b[k] = 0
                        /\ 128 + 16 * k + index \in epcs => b[k] = 2 ^ k
                        /\ 128 + 16 * k + index \notin epcs => b[k] = 0
    BY Zenon DEF BitAt
  <1>2. /\ 0 \in 0..7 /\ 1 \in 0..7 /\ 2 \in 0..7 /\ 3 \in 0..7
        /\ 4 \in 0..7 /\ 5 \in 0..7 /\ 6 \in 0..7 /\ 7 \in 0..7
    OBVIOUS
  <1> HIDE DEF b
  <1>3. s = b[0] + b[1] + b[2] + b[3] + b[4] + b[5] + b[6] + b[7]
    BY <1>1, <1>2, Zenon DEF BitsAt
  <1>4. /\ b[0] \in {0, 1} /\ b[1] \in {0, 2} /\ b[2] \in {0, 4} /\ b[3] \in {0, 8}
        /\ b[4] \in {0, 16} /\ b[5] \in {0, 32} /\ b[6] \in {0, 64} /\ b[7] \in {0, 128}
    BY <1>1, <1>2, TwoPowers, Zenon
  <1> HIDE DEF s
  <1>5. IsBits(s, b)
    BY <1>3, <1>4, EightBits
  <1>6. ASSUME NEW k \in 0..7 PROVE (s \div 2 ^ k) % 2 = 1 <=> b[k] = 2 ^ k
    <2>1. k = 0 \/ k = 1 \/ k = 2 \/ k = 3 \/ k = 4 \/ k = 5 \/ k = 6 \/ k = 7
      OBVIOUS
    <2>2. CASE k = 0
      BY <1>5, <2>2, TwoPowers, Zenon DEF IsBits
    <2>3. CASE k = 1
      BY <1>5, <2>3, TwoPowers, Zenon DEF IsBits
    <2>4. CASE k = 2
      BY <1>5, <2>4, TwoPowers, Zenon DEF IsBits
    <2>5. CASE k = 3
      BY <1>5, <2>5, TwoPowers, Zenon DEF IsBits
    <2>6. CASE k = 4
      BY <1>5, <2>6, TwoPowers, Zenon DEF IsBits
    <2>7. CASE k = 5
      BY <1>5, <2>7, TwoPowers, Zenon DEF IsBits
    <2>8. CASE k = 6
      BY <1>5, <2>8, TwoPowers, Zenon DEF IsBits
    <2>9. CASE k = 7
      BY <1>5, <2>9, TwoPowers, Zenon DEF IsBits
    <2> QED BY <2>1, <2>2, <2>3, <2>4, <2>5, <2>6, <2>7, <2>8, <2>9
  <1>7. \A k \in 0..7 : 2 ^ k # 0
    <2>1. ASSUME NEW k \in 0..7 PROVE 2 ^ k # 0
      <3>1. k = 0 \/ k = 1 \/ k = 2 \/ k = 3 \/ k = 4 \/ k = 5 \/ k = 6 \/ k = 7
        OBVIOUS
      <3>2. 1 # 0 /\ 2 # 0 /\ 4 # 0 /\ 8 # 0 /\ 16 # 0 /\ 32 # 0 /\ 64 # 0 /\ 128 # 0
        OBVIOUS
      <3>3. CASE k = 0
        BY <3>2, <3>3, TwoPowers, Zenon
      <3>4. CASE k = 1
        BY <3>2, <3>4, TwoPowers, Zenon
      <3>5. CASE k = 2
        BY <3>2, <3>5, TwoPowers, Zenon
      <3>6. CASE k = 3
        BY <3>2, <3>6, TwoPowers, Zenon
      <3>7. CASE k = 4
        BY <3>2, <3>7, TwoPowers, Zenon
      <3>8. CASE k = 5
        BY <3>2, <3>8, TwoPowers, Zenon
      <3>9. CASE k = 6
        BY <3>2, <3>9, TwoPowers, Zenon
      <3>10. CASE k = 7
        BY <3>2, <3>10, TwoPowers, Zenon
      <3> QED BY <3>1, <3>3, <3>4, <3>5, <3>6, <3>7, <3>8, <3>9, <3>10
    <2> QED BY <2>1
  <1>8. \A k \in 0..7 : (s \div 2 ^ k) % 2 = 1 <=> 128 + 16 * k + index \in epcs
    BY <1>1, <1>6, <1>7, Zenon
  <1>9. s \in Byte
    BY <1>5 DEF IsBits
  <1> QED BY <1>8, <1>9 DEF s

(* A map in two parts: the number of its EPCs, and the list or the bitmap.  *)
OrderedOf(epcs, k) == CHOOSE epc \in epcs : Cardinality({e \in epcs : e < epc}) = k - 1

TailOf(epcs) ==
    IF Cardinality(epcs) <= 15 THEN [k \in 1..Cardinality(epcs) |-> OrderedOf(epcs, k)]
    ELSE [k \in 1..16 |-> BitsAt(epcs, k - 1)]

Epcs == 128..255

(* There are 128 EPCs a map may have.                                       *)
LEMMA EpcsCounted == IsFiniteSet(Epcs) /\ Cardinality(Epcs) = 128
  <1>1. ASSUME NEW a \in Int, NEW b \in Int, b = a + 127
        PROVE  IsFiniteSet(a..b) /\ Cardinality(a..b) = 128
    <2>1. ~(a > b) /\ b - a + 1 = 128
      BY <1>1
    <2> QED BY <2>1, FS_Interval
  <1> DEFINE a == 128
             b == 255
  <1>2. a \in Int /\ b \in Int /\ b = a + 127
    OBVIOUS
  <1>3. Epcs = a..b
    BY Zenon DEF Epcs
  <1> HIDE DEF a, b
  <1> QED BY <1>1, <1>2, <1>3

(* The count of a map fits its byte; its list or its bitmap has the EPCs of *)
(* the set.                                                                 *)
LEMMA MapInParts ==
    ASSUME NEW epcs \in SUBSET (128..255)
    PROVE  LET n == Cardinality(epcs) IN
           /\ n \in Byte /\ n \in Nat
           /\ MapOf(epcs) = <<n>> \o TailOf(epcs)
           /\ TailOf(epcs) \in Seq(Byte)
           /\ n <= 15 => Len(TailOf(epcs)) = n /\ ToSet(TailOf(epcs)) = epcs
           /\ n > 15 => /\ Len(TailOf(epcs)) = 16
                        /\ \A k \in 1..16 : TailOf(epcs)[k] = BitsAt(epcs, k - 1)
  <1> DEFINE n == Cardinality(epcs)
             list == [k \in 1..n |-> OrderedOf(epcs, k)]
             bits == [k \in 1..16 |-> BitsAt(epcs, k - 1)]
  <1>1. n \in Byte /\ n \in Nat
    <2>1. IsFiniteSet(Epcs) /\ Cardinality(Epcs) = 128 /\ epcs \in SUBSET Epcs
      BY EpcsCounted DEF Epcs
    <2>2. n <= 128 /\ n \in Nat
      BY <2>1, FS_Subset, FS_CardinalityType, Zenon
    <2> HIDE DEF n
    <2> QED BY <2>2 DEF Byte
  <1>2. /\ n \in Nat /\ \A k \in 1..n : OrderedOf(epcs, k) \in epcs
        /\ {OrderedOf(epcs, k) : k \in 1..n} = epcs
    <2>1. epcs \in SUBSET Nat
      OBVIOUS
    <2>2. IsFiniteSet(epcs)
      <3>1. IsFiniteSet(Epcs) /\ epcs \in SUBSET Epcs
        BY EpcsCounted DEF Epcs
      <3> QED BY <3>1, FS_Subset
    <2> QED BY <2>1, <2>2, Ordering DEF OrderedOf
  <1>3. MapOf(epcs) = <<n>> \o TailOf(epcs)
    BY Zenon DEF MapOf, TailOf, OrderedOf, BitsAt, BitAt
  <1>4. TailOf(epcs) = IF n <= 15 THEN list ELSE bits
    BY DEF TailOf
  <1> HIDE DEF n
  <1>5. list \in Seq(Byte) /\ Len(list) = n /\ ToSet(list) = epcs
    <2>1. \A k \in 1..n : OrderedOf(epcs, k) \in Byte
      <3>1. \A e \in epcs : e \in Byte
        BY DEF Byte
      <3> QED BY <1>2, <3>1
    <2>2. ToSet(list) = {OrderedOf(epcs, k) : k \in 1..n}
      BY DEF ToSet
    <2>3. list \in [1..n -> Byte]
      BY <2>1
    <2>4. list \in Seq(Byte) /\ Len(list) = n
      <3> HIDE DEF list
      <3> QED BY <1>1, <2>3
    <2> QED BY <1>2, <2>2, <2>4
  <1>6. bits \in Seq(Byte) /\ Len(bits) = 16 /\ \A k \in 1..16 : bits[k] = BitsAt(epcs, k - 1)
    <2>1. \A k \in 1..16 : k - 1 \in 0..15
      OBVIOUS
    <2>2. \A k \in 1..16 : BitsAt(epcs, k - 1) \in Byte
      BY <2>1, BitsRead
    <2> QED BY <2>2
  <1> HIDE DEF list, bits
  <1>7. n > 15 => ~(n <= 15)
    BY <1>1
  <1> QED BY <1>1, <1>3, <1>4, <1>5, <1>6, <1>7 DEF n

(* A property map that is whole is read as its set, as a list and as a      *)
(* bitmap, and one that is cut is not read at all (_parse_property_map).    *)
THEOREM MapsAreRead ==
    ASSUME NEW epcs \in SUBSET (128..255), NEW length \in 0..Len(MapOf(epcs))
    PROVE  /\ MapOf(epcs) \in Seq(Byte) /\ SubSeq(MapOf(epcs), 1, length) \in Seq(Byte)
           /\ ParsePropertyMap(SubSeq(MapOf(epcs), 1, length))
                = IF length = Len(MapOf(epcs)) THEN epcs ELSE None
  <1> DEFINE n == Cardinality(epcs)
             map == MapOf(epcs)
             tail == TailOf(epcs)
             edt == SubSeq(map, 1, length)
  <1>1. /\ n \in Byte /\ n \in Nat /\ map = <<n>> \o tail /\ tail \in Seq(Byte)
        /\ n <= 15 => Len(tail) = n /\ ToSet(tail) = epcs
        /\ n > 15 => Len(tail) = 16 /\ \A k \in 1..16 : tail[k] = BitsAt(epcs, k - 1)
    BY MapInParts
  <1>2. length \in 0..Len(map)
    OBVIOUS
  <1> HIDE DEF n, map, tail
  <1>3. /\ map \in Seq(Byte) /\ Len(map) = 1 + Len(tail) /\ Len(tail) \in Nat /\ map[1] = n
        /\ \A k \in 1..Len(tail) : map[1 + k] = tail[k]
    <2> DEFINE one == <<n>>
    <2>1. one \in Seq(Byte) /\ Len(one) = 1 /\ one[1] = n /\ 1 \in 1..1
      BY <1>1
    <2> HIDE DEF one
    <2>2. map = one \o tail
      BY <1>1 DEF one
    <2>3. Joins(Byte, map, one, tail)
      BY <1>1, <2>1, <2>2, Joined
    <2> QED BY <2>1, <2>3 DEF Joins
  <1>4. edt \in Seq(Byte) /\ Len(edt) = length /\ \A j \in 1..length : edt[j] = map[j]
    BY <1>2, <1>3, FirstElements
  <1>5. length \in Nat /\ length <= 1 + Len(tail)
    BY <1>2, <1>3
  <1> HIDE DEF edt
  <1>6. CASE length = 0
    <2>1. edt = <<>> /\ length # Len(map)
      BY <1>3, <1>4, <1>6
    <2>2. ParsePropertyMap(edt) = None
      BY <2>1 DEF ParsePropertyMap
    <2> QED BY <1>3, <1>4, <2>1, <2>2 DEF edt, map
  <1>7. CASE length # 0 /\ n <= 15
    <2>1. edt # <<>> /\ edt[1] = n /\ Len(edt) = length
      <3>1. 1 \in 1..length
        BY <1>5, <1>7
      <3> QED BY <1>3, <1>4, <1>7, <3>1
    <2>2. ParsePropertyMap(edt) = IF length < n + 1 THEN None ELSE ToSet(SubSeq(edt, 2, n + 1))
      BY <1>7, <2>1 DEF ParsePropertyMap
    <2>3. CASE length < n + 1
      <3>1. length # Len(map)
        BY <1>1, <1>3, <1>7, <2>3
      <3> QED BY <1>3, <1>4, <2>2, <2>3, <3>1 DEF edt, map
    <2>4. CASE ~(length < n + 1)
      <3>1. length = Len(map) /\ length = n + 1
        BY <1>1, <1>3, <1>5, <1>7, <2>4
      <3> DEFINE part == SubSeq(edt, 2, n + 1)
      <3>2. part = tail
        <4>1. \A j \in 2..(n + 1) : j \in 1..length
          BY <1>1, <3>1
        <4>2. \A j \in 2..(n + 1) : edt[j] \in Byte
          BY <1>4, <4>1
        <4>3. /\ part \in Seq(Byte) /\ Len(part) = IF 2 <= n + 1 THEN (n + 1) - 2 + 1 ELSE 0
              /\ \A j \in 1..((n + 1) - 2 + 1) : part[j] = edt[2 + j - 1]
          BY <1>1, <4>2, SubSeqProperties
        <4> HIDE DEF part
        <4>4. Len(part) = n /\ (n + 1) - 2 + 1 = n
          BY <1>1, <4>3
        <4>5. ASSUME NEW j \in 1..n PROVE part[j] = tail[j]
          <5>1. 2 + j - 1 = 1 + j /\ 1 + j \in 1..length /\ j \in 1..Len(tail)
            BY <1>1, <1>7, <3>1
          <5>2. part[j] = edt[1 + j]
            BY <4>3, <4>4, <5>1
          <5> QED BY <1>3, <1>4, <5>1, <5>2
        <4> QED BY <1>1, <1>7, <4>3, <4>4, <4>5, SameElements
      <3>3. ParsePropertyMap(edt) = epcs
        BY <1>1, <1>7, <2>2, <2>4, <3>2
      <3> QED BY <1>3, <1>4, <3>1, <3>3 DEF edt, map
    <2> QED BY <2>3, <2>4
  <1>8. CASE length # 0 /\ ~(n <= 15)
    <2>1. edt # <<>> /\ edt[1] = n /\ Len(edt) = length
      <3>1. 1 \in 1..length
        BY <1>5, <1>8
      <3> QED BY <1>3, <1>4, <1>8, <3>1
    <2>2. Len(tail) = 16 /\ Len(map) = 17 /\ \A k \in 1..16 : tail[k] = BitsAt(epcs, k - 1)
      <3>1. n > 15
        BY <1>1, <1>8
      <3>2. Len(tail) = 16 /\ \A k \in 1..16 : tail[k] = BitsAt(epcs, k - 1)
        BY <1>1, <3>1, Zenon
      <3>3. Len(map) = 17
        BY <1>3, <3>2
      <3> QED BY <3>2, <3>3
    <2> DEFINE Said(epc) == (edt[2 + (epc % 16)] \div 2 ^ ((epc - 128) \div 16)) % 2 = 1
    <2>3. ParsePropertyMap(edt) = IF length < 17 THEN None ELSE {epc \in 128..255 : Said(epc)}
      BY <1>8, <2>1, Zenon DEF ParsePropertyMap
    <2>4. CASE length < 17
      <3>1. length # Len(map)
        BY <1>5, <2>2, <2>4
      <3> QED BY <1>3, <1>4, <2>3, <2>4, <3>1 DEF edt, map
    <2>5. CASE ~(length < 17)
      <3>1. length = Len(map) /\ length = 17
        BY <1>5, <2>2, <2>5
      <3>2. ASSUME NEW epc \in 128..255 PROVE Said(epc) <=> epc \in epcs
        <4> DEFINE index == epc % 16
                   bit == (epc - 128) \div 16
        <4>1. index \in 0..15 /\ bit \in 0..7 /\ 128 + 16 * bit + index = epc
          <5>1. epc \in Nat /\ epc >= 128 /\ epc <= 255
            OBVIOUS
          <5>2. index \in 0..15
            BY <5>1, SMT
          <5>3. bit \in 0..7
            BY <5>1, SMT
          <5>4. 128 + 16 * bit + index = epc
            BY <5>1, SMT
          <5> QED BY <5>2, <5>3, <5>4
        <4> HIDE DEF index, bit
        <4>2. edt[2 + index] = BitsAt(epcs, index)
          <5>1. index + 1 \in 1..16 /\ (index + 1) - 1 = index /\ 1 + (index + 1) = 2 + index
                /\ 2 + index \in 1..length
            BY <3>1, <4>1
          <5>2. edt[2 + index] = map[1 + (index + 1)]
            BY <1>4, <5>1
          <5>3. map[1 + (index + 1)] = tail[index + 1]
            BY <1>3, <2>2, <5>1
          <5>4. tail[index + 1] = BitsAt(epcs, index)
            BY <2>2, <5>1
          <5> QED BY <5>2, <5>3, <5>4
        <4>3. (BitsAt(epcs, index) \div 2 ^ bit) % 2 = 1 <=> epc \in epcs
          <5>1. (BitsAt(epcs, index) \div 2 ^ bit) % 2 = 1 <=> 128 + 16 * bit + index \in epcs
            BY <4>1, BitsRead
          <5> QED BY <4>1, <5>1
        <4> QED BY <4>2, <4>3, Zenon DEF index, bit
      <3> HIDE DEF Said
      <3>3. ParsePropertyMap(edt) = epcs
        BY <2>3, <2>5, <3>2
      <3> QED BY <1>3, <1>4, <3>1, <3>3 DEF edt, map
    <2> QED BY <2>4, <2>5
  <1> QED BY <1>6, <1>7, <1>8

-----------------------------------------------------------------------------
(* Nothing is read out of an answer that it does not say.                   *)

SaysNothingElse(c) ==
    /\ c.op = "decode" => ScaleIsKnown(c.arg.field, c.arg.context, c.result)
    /\ c.op = "map" =>
           TextIsItsBytes(SubSeq(MapOf(c.arg.epcs), 1, c.arg.length), c.result.info.product_code)
    /\ c.op = "set" => SetIsHonest(c.arg.requested, c.arg.response, c.result)
    /\ c.op = "notify" => NotifyIsHonest(c.arg.requested, c.arg.response, c.result)
    /\ c.op = "discover" => InstancesAreListed(c.arg, c.result)

(* No function says more than the answer it reads.                          *)
LEMMA ConvertSaysNothingElse ==
    ASSUME Convert
    PROVE  SaysNothingElse(call')
  <1> USE ConversionsAssumption
  <1>1. CASE DecodeField
    <2>1. PICK field \in Fields : \E edt \in EdtsOf(field), context \in ContextsOf(field) :
             call' = Call("decode", [field |-> field, edt |-> edt, context |-> context],
                          Decode(CodecOf(field), edt, context))
      BY <1>1, Zenon DEF DecodeField
    <2>2. PICK edt \in EdtsOf(field), context \in ContextsOf(field) :
             call' = Call("decode", [field |-> field, edt |-> edt, context |-> context],
                          Decode(CodecOf(field), edt, context))
      BY <2>1, Zenon
    <2>3. ScaleIsKnown(field, context, Decode(CodecOf(field), edt, context))
      BY ScalesAreKnown
    <2> QED BY <2>2, <2>3 DEF Call, SaysNothingElse
  <1>2. CASE EncodeField
    <2>1. call'.op = "encode"
      BY <1>2 DEF EncodeField, Call
    <2> QED BY <2>1 DEF SaysNothingElse
  <1>3. CASE SendFrame
    <2>1. call'.op = "send"
      BY <1>3 DEF SendFrame, Call
    <2> QED BY <2>1 DEF SaysNothingElse
  <1>4. CASE ReceiveDatagram
    <2>1. call'.op = "receive"
      BY <1>4 DEF ReceiveDatagram, Call
    <2> QED BY <2>1 DEF SaysNothingElse
  <1>5. CASE ReadMaps
    <2> DEFINE Edt(epcs, length) == SubSeq(MapOf(epcs), 1, length)
               Answered(epcs, length) ==
                   [epc \in {138, 140, 158, 159} |->
                       IF epc = 158 THEN MapOf(epcs) ELSE Edt(epcs, length)]
    <2>1. PICK epcs \in MapSets : \E length \in 0..Len(MapOf(epcs)) :
             call' = Call("map", [epcs |-> epcs, length |-> length],
                          [maps |-> PropertyMaps(Answered(epcs, length)),
                           info |-> ProfileInfo(Answered(epcs, length))])
      BY <1>5, Zenon DEF ReadMaps
    <2>2. PICK length \in 0..Len(MapOf(epcs)) :
             call' = Call("map", [epcs |-> epcs, length |-> length],
                          [maps |-> PropertyMaps(Answered(epcs, length)),
                           info |-> ProfileInfo(Answered(epcs, length))])
      BY <2>1, Zenon
    <2> DEFINE answered == Answered(epcs, length)
               edt == Edt(epcs, length)
    <2>3. EdtOf(answered, 140) = edt
      BY DEF EdtOf
    <2>4. ProfileInfo(answered).product_code = AsciiOf(edt)
      <3> HIDE DEF answered, edt
      <3> QED BY <2>3 DEF ProfileInfo
    <2>5. edt \in Seq(Byte)
      <3>1. epcs \in SUBSET (128..255)
        OBVIOUS
      <3> QED BY <3>1, MapsAreRead
    <2>6. TextIsItsBytes(edt, AsciiOf(edt))
      <3> HIDE DEF edt
      <3> QED BY <2>5, TextsAreBytes
    <2> HIDE DEF answered
    <2>7. /\ call'.op = "map" /\ call'.arg.epcs = epcs /\ call'.arg.length = length
          /\ call'.result.info = ProfileInfo(answered)
      BY <2>2 DEF Call, answered
    <2> QED BY <2>4, <2>6, <2>7 DEF SaysNothingElse
  <1>6. CASE SetProperties
    <2>1. PICK requested \in SUBSET RequestedEpcs, response \in Answers,
               addressed \in BOOLEAN, sent \in BOOLEAN :
             call' = Call("set", [requested |-> requested, response |-> response],
                          SetResult(requested, addressed, sent, response))
      BY <1>6, Zenon DEF SetProperties
    <2>2. response \in Frame \cup {None}
      OBVIOUS
    <2>3. SetIsHonest(requested, response, SetResult(requested, addressed, sent, response))
      BY <2>2, SetsAreHonest
    <2> QED BY <2>1, <2>3 DEF Call, SaysNothingElse
  <1>7. CASE RequestNotifications
    <2>1. PICK requested \in SUBSET RequestedEpcs, response \in Answers, addressed \in BOOLEAN :
             call' = Call("notify", [requested |-> requested, response |-> response],
                          InfResult(requested, addressed, response))
      BY <1>7, Zenon DEF RequestNotifications
    <2>2. NotifyIsHonest(requested, response, InfResult(requested, addressed, response))
      BY NotificationsAreHonest
    <2> QED BY <2>1, <2>2 DEF Call, SaysNothingElse
  <1>8. CASE ReadDiscovery
    <2>1. PICK frame \in SentFrames : call' = Call("discover", frame, DiscoveryInfo(frame))
      BY <1>8 DEF ReadDiscovery
    <2>2. frame \in Frame
      OBVIOUS
    <2>3. InstancesAreListed(frame, DiscoveryInfo(frame))
      BY <2>2, InstancesListed
    <2> QED BY <2>1, <2>3 DEF Call, SaysNothingElse
  <1> QED BY <1>1, <1>2, <1>3, <1>4, <1>5, <1>6, <1>7, <1>8 DEF Convert

(* Nothing is read out of an answer that the answer does not say: no number *)
(* without its unit, no EPC accepted, rejected or notified that was not     *)
(* named, no instance twice or from past its list, no text but the bytes    *)
(* sent (codecs.py, runtime.py, device_manager.py, discovery.py), for any   *)
(* registry, any answers and any frames.                                    *)
THEOREM NothingIsInvented == ConversionSpec => []NothingInvented
  <1>1. Init => NothingInvented
    BY DEF Init, NothingInvented
  <1>2. ASSUME NothingInvented, [Convert]_call PROVE NothingInvented'
    <2>1. CASE Convert
      <3>1. SaysNothingElse(call')
        BY <2>1, ConvertSaysNothingElse
      <3> QED BY <3>1, Zenon DEF SaysNothingElse, NothingInvented
    <2>2. CASE UNCHANGED call
      BY <1>2, <2>2, Zenon DEF NothingInvented
    <2> QED BY <1>2, <2>1, <2>2
  <1> QED BY <1>1, <1>2, PTL DEF ConversionSpec

-----------------------------------------------------------------------------
(* Quotients, and numbers of one, two and four bytes.                       *)

(* Quotient and remainder are the only such numbers.                        *)
LEMMA Quotient ==
    ASSUME NEW n \in Int, NEW d \in Nat \ {0}, NEW q \in Int, NEW r \in Nat,
           n = q * d + r, r < d
    PROVE  n \div d = q /\ n % d = r
  <1> DEFINE x == n \div d
             y == n % d
  <1>1. x \in Int /\ y \in Int /\ n = x * d + y /\ 0 <= y /\ y < d
    BY SMT
  <1> HIDE DEF x, y
  <1>2. ~(x < q)
    <2> SUFFICES ASSUME x + 1 <= q PROVE FALSE
      BY <1>1, SMT
    <2>1. (x + 1) * d <= q * d
      BY <1>1, SMT
    <2>2. (x + 1) * d = x * d + d
      BY <1>1, SMT
    <2> DEFINE u == x * d
               v == q * d
    <2>3. u \in Int /\ v \in Int /\ u + d <= v /\ n = u + y /\ n = v + r
      BY <1>1, <2>1, <2>2, SMT
    <2> HIDE DEF u, v
    <2> QED BY <1>1, <2>3, SMT
  <1>3. ~(x > q)
    <2> SUFFICES ASSUME q + 1 <= x PROVE FALSE
      BY <1>1, SMT
    <2>1. (q + 1) * d <= x * d
      BY <1>1, SMT
    <2>2. (q + 1) * d = q * d + d
      BY <1>1, SMT
    <2> DEFINE u == x * d
               v == q * d
    <2>3. u \in Int /\ v \in Int /\ v + d <= u /\ n = u + y /\ n = v + r
      BY <1>1, <2>1, <2>2, SMT
    <2> HIDE DEF u, v
    <2> QED BY <1>1, <2>3, SMT
  <1>4. x = q
    BY <1>1, <1>2, <1>3, SMT
  <1>5. y = r
    <2> DEFINE u == q * d
    <2>1. u \in Int /\ n = u + y /\ n = u + r
      BY <1>1, <1>4, SMT
    <2> HIDE DEF u
    <2> QED BY <1>1, <2>1, SMT
  <1> QED BY <1>4, <1>5 DEF x, y

(* A multiple rounds to its factor, and any number to within half a unit. *)
LEMMA MultiplesRound ==
    ASSUME NEW n \in Int, NEW d \in Nat \ {0}
    PROVE  Rounded(Number(n * d, d)) = n
  <1>1. (n * d) \div d = n /\ (n * d) % d = 0
    <2>1. n * d \in Int /\ n * d = n * d + 0 /\ 0 \in Nat /\ 0 < d
      BY SMT
    <2> QED BY <2>1, Quotient
  <1>2. ~(2 * 0 > d \/ (2 * 0 = d /\ n % 2 = 1))
    BY SMT
  <1> QED BY <1>1, <1>2 DEF Rounded, Number

(* round() is at most half a unit away.                                     *)
LEMMA RoundedIsNear ==
    ASSUME NEW n \in Int, NEW d \in Nat \ {0}
    PROVE  LET r == Rounded(Number(n, d)) IN
           r \in Int /\ 2 * (r * d - n) <= d /\ 2 * (n - r * d) <= d
  <1> DEFINE low == n \div d
             rest == n % d
             r == Rounded(Number(n, d))
             u == low * d
  <1>1. low \in Int /\ rest \in Int /\ n = low * d + rest /\ 0 <= rest /\ rest < d
    BY SMT
  <1>2. r = IF 2 * rest > d \/ (2 * rest = d /\ low % 2 = 1) THEN low + 1 ELSE low
    BY DEF Rounded, Number
  <1> HIDE DEF low, rest, r
  <1>3. u \in Int /\ n = u + rest /\ (low + 1) * d = u + d
    BY <1>1, SMT
  <1>4. ASSUME r = low + 1 /\ 2 * rest >= d
        PROVE  r \in Int /\ 2 * (r * d - n) <= d /\ 2 * (n - r * d) <= d
    <2>1. r \in Int /\ r * d = u + d
      BY <1>1, <1>3, <1>4
    <2> DEFINE v == r * d
    <2>2. v = u + d
      BY <2>1
    <2> HIDE DEF u, v
    <2>3. 2 * (v - n) <= d /\ 2 * (n - v) <= d
      BY <1>1, <1>3, <1>4, <2>2, SMT
    <2> QED BY <2>1, <2>3 DEF v
  <1>5. ASSUME r = low /\ 2 * rest <= d
        PROVE  r \in Int /\ 2 * (r * d - n) <= d /\ 2 * (n - r * d) <= d
    <2>1. r \in Int /\ r * d = u
      BY <1>1, <1>5
    <2> DEFINE v == r * d
    <2>2. v = u
      BY <2>1
    <2> HIDE DEF u, v
    <2>3. 2 * (v - n) <= d /\ 2 * (n - v) <= d
      BY <1>1, <1>3, <1>5, <2>2, SMT
    <2> QED BY <2>1, <2>3 DEF v
  <1>6. (r = low + 1 /\ 2 * rest >= d) \/ (r = low /\ 2 * rest <= d)
    BY <1>1, <1>2, SMT
  <1> QED BY <1>4, <1>5, <1>6 DEF r

(* Bytes can be taken off a number one after the other.                     *)
LEMMA QuotientOfQuotient ==
    ASSUME NEW n \in Nat, NEW p \in Nat \ {0}
    PROVE  (n \div p) \div 256 = n \div (256 * p)
  <1> DEFINE a == n \div p
             r == n % p
             b == a \div 256
             s == a % 256
             rest == s * p + r
             d == 256 * p
  <1>1. a \in Int /\ r \in Nat /\ n = a * p + r /\ r < p
    BY SMT
  <1> HIDE DEF a, r
  <1>2. b \in Int /\ s \in Nat /\ a = b * 256 + s /\ s <= 255
    BY <1>1, SMT
  <1> HIDE DEF b, s
  <1>3. a * p = b * d + s * p
    BY <1>1, <1>2, SMT
  <1>4. d \in Nat \ {0}
    BY SMT
  <1>5. s * p \in Nat /\ s * p <= 255 * p
    BY <1>2, SMT
  <1>6. rest \in Nat /\ rest < d
    <2> DEFINE sp == s * p
    <2> HIDE DEF sp
    <2> QED BY <1>1, <1>5, SMT DEF sp
  <1>7. n = b * d + rest
    <2> DEFINE ap == a * p
               sp == s * p
               bd == b * d
    <2>1. ap = bd + sp /\ n = ap + r /\ ap \in Int /\ bd \in Int /\ sp \in Int
      BY <1>1, <1>2, <1>3, <1>4, <1>5, SMT
    <2> HIDE DEF ap, sp, bd, d
    <2>2. n = bd + (sp + r)
      BY <1>1, <2>1, SMT
    <2> QED BY <2>2 DEF bd, sp
  <1> HIDE DEF d, rest
  <1>8. n \div d = b
    BY <1>2, <1>4, <1>6, <1>7, Quotient
  <1> QED BY <1>8 DEF d, b, a

(* Four bytes hold a number and give it back. *)
LEMMA FourBytes ==
    ASSUME NEW a \in Byte, NEW b \in Byte, NEW c \in Byte, NEW d \in Byte
    PROVE  FromBytes(<<a, b, c, d>>) = 256 * (256 * (256 * a + b) + c) + d
  <1> DEFINE s == <<a, b, c, d>>
  <1>1. s \in Seq(Byte) /\ Len(s) = 4 /\ s[1] = a /\ s[2] = b /\ s[3] = c /\ s[4] = d
    OBVIOUS
  <1> HIDE DEF s
  <1>2. PICK number \in [0..Len(s) -> Nat] :
             /\ FromBytes(s) = number[Len(s)] /\ number[0] = 0
             /\ \A i \in 1..Len(s) : number[i] = 256 * number[i - 1] + s[i]
    BY <1>1, FromBytesCounts
  <1>3. /\ number[1] = 256 * number[1 - 1] + a /\ number[2] = 256 * number[2 - 1] + b
        /\ number[3] = 256 * number[3 - 1] + c /\ number[4] = 256 * number[4 - 1] + d
    BY <1>1, <1>2
  <1>4. number[3] = 256 * (256 * a + b) + c
    BY <1>2, <1>3 DEF Byte
  <1> QED BY <1>1, <1>2, <1>3, <1>4 DEF s

(* The powers that four bytes need.                                         *)
LEMMA FourPowers == 2 ^ 32 = 4294967296 /\ 256 ^ 3 = 16777216 /\ 256 ^ 3 = 256 * 256 ^ 2
  BY SMT

(* The last byte of a number, and the number before it. *)
Before(n) == n \div 256
LastByte(n) == n % 256

(* A number is its last byte and what comes before it.                      *)
LEMMA BeforeAndLast ==
    ASSUME NEW n \in Nat
    PROVE  Before(n) \in Nat /\ LastByte(n) \in Byte /\ n = 256 * Before(n) + LastByte(n)
  BY SMT DEF Before, LastByte, Byte

(* A byte that is put after a number can be taken off again.                *)
LEMMA LastOfSum ==
    ASSUME NEW m \in Nat, NEW b \in Byte
    PROVE  Before(256 * m + b) = m /\ LastByte(256 * m + b) = b
  <1> DEFINE n == 256 * m + b
  <1>1. /\ n \in Int /\ m \in Int /\ b \in Nat /\ b < 256 /\ n = m * 256 + b
        /\ 256 \in Nat \ {0}
    BY SMT DEF Byte
  <1> HIDE DEF n
  <1>2. n \div 256 = m /\ n % 256 = b
    BY <1>1, Quotient
  <1> QED BY <1>2 DEF n, Before, LastByte

(* The four bytes of a number, taken off one after the other.               *)
LEMMA InFourBytes ==
    ASSUME NEW n \in Int, ToBytes(n, 4) # None
    PROVE  LET m == Before(n)  l == Before(m)  k == Before(l) IN
           /\ n \in Nat /\ m \in Nat /\ l \in Nat
           /\ k \in Byte /\ ToBytes(n, 4) = <<k, LastByte(l), LastByte(m), LastByte(n)>>
  <1> DEFINE m == Before(n)
             l == Before(m)
             k == Before(l)
  <1>1. 8 * 4 = 32 /\ n \in 0 .. 2 ^ (8 * 4) - 1
    <2>1. 8 * 4 = 32
      BY SMT
    <2> QED BY <2>1, Zenon DEF ToBytes
  <1>2. ToBytes(n, 4) = [i \in 1..4 |-> (n \div 256 ^ (4 - i)) % 256]
    BY <1>1 DEF ToBytes
  <1>3. n \in Nat /\ m \in Nat /\ l \in Nat /\ k \in Nat
    <2>1. n \in Nat
      BY <1>1, SMT
    <2> HIDE DEF m, l, k
    <2>2. m \in Nat
      BY <2>1, BeforeAndLast DEF m
    <2>3. l \in Nat
      BY <2>2, BeforeAndLast DEF l
    <2> QED BY <2>1, <2>2, <2>3, BeforeAndLast DEF k
  <1>4. k \in Byte
    <2>1. n < 4294967296
      BY <1>1, FourPowers, SMT
    <2> HIDE DEF m, l, k
    <2>2. n = 256 * m + LastByte(n) /\ m = 256 * l + LastByte(m) /\ l = 256 * k + LastByte(l)
      BY <1>3, BeforeAndLast DEF m, l, k
    <2>3. LastByte(n) \in Nat /\ LastByte(m) \in Nat /\ LastByte(l) \in Nat
      <3>1. \A b \in Byte : b \in Nat
        BY DEF Byte
      <3> QED BY <1>3, <3>1, BeforeAndLast
    <2> QED BY <1>3, <2>1, <2>2, <2>3, SMT DEF Byte
  <1>5. n \div 256 ^ 1 = m /\ n \div 256 ^ 2 = l /\ n \div 256 ^ 3 = k /\ n \div 256 ^ 0 = n
    <2>1. 256 \in Nat \ {0} /\ 256 ^ 2 \in Nat \ {0} /\ 256 ^ 2 = 256 * 256 /\ n \div 1 = n
      BY <1>3, Powers, SMT
    <2>2. (n \div 256) \div 256 = n \div (256 * 256)
      BY <1>3, <2>1, QuotientOfQuotient
    <2>3. (n \div 256 ^ 2) \div 256 = n \div (256 * 256 ^ 2)
      BY <1>3, <2>1, QuotientOfQuotient
    <2>4. n \div 256 ^ 2 = l
      BY <2>1, <2>2 DEF Before
    <2>5. n \div 256 ^ 3 = k
      BY <2>3, <2>4, FourPowers DEF Before
    <2>6. n \div 256 ^ 1 = m /\ n \div 256 ^ 0 = n
      BY <2>1, Powers DEF Before
    <2> QED BY <2>4, <2>5, <2>6
  <1>6. \A i \in 1..4 : (n \div 256 ^ (4 - i)) % 256
           = IF i = 1 THEN k ELSE IF i = 2 THEN LastByte(l) ELSE IF i = 3 THEN LastByte(m)
             ELSE LastByte(n)
    <2>1. /\ 4 - 1 = 3 /\ 4 - 2 = 2 /\ 4 - 3 = 1 /\ 4 - 4 = 0
          /\ \A i \in 1..4 : i = 1 \/ i = 2 \/ i = 3 \/ i = 4
      BY SMT
    <2>2. 2 # 1 /\ 3 # 1 /\ 3 # 2 /\ 4 # 1 /\ 4 # 2 /\ 4 # 3 /\ k % 256 = k
      BY <1>4, SMT DEF Byte
    <2>3. /\ (n \div 256 ^ 3) % 256 = k /\ (n \div 256 ^ 2) % 256 = LastByte(l)
          /\ (n \div 256 ^ 1) % 256 = LastByte(m) /\ (n \div 256 ^ 0) % 256 = LastByte(n)
      <3> HIDE DEF m, l, k
      <3> QED BY <1>5, <2>2 DEF LastByte
    <2> DEFINE F(i) == (n \div 256 ^ (4 - i)) % 256
               G(i) == IF i = 1 THEN k ELSE IF i = 2 THEN LastByte(l)
                       ELSE IF i = 3 THEN LastByte(m) ELSE LastByte(n)
    <2>4. F(1) = G(1) /\ F(2) = G(2) /\ F(3) = G(3) /\ F(4) = G(4)
      <3> HIDE DEF m, l, k
      <3>1. F(1) = k /\ F(2) = LastByte(l) /\ F(3) = LastByte(m) /\ F(4) = LastByte(n)
        BY <2>1, <2>3, Zenon
      <3>2. G(1) = k /\ G(2) = LastByte(l)
        BY <2>2, Zenon
      <3>3. G(3) = LastByte(m)
        BY <2>2, Zenon
      <3>4. G(4) = LastByte(n)
        BY <2>2, Zenon
      <3> HIDE DEF F, G
      <3> QED BY <3>1, <3>2, <3>3, <3>4, Zenon
    <2>5. \A i \in 1..4 : F(i) = G(i)
      <3> HIDE DEF F, G
      <3> QED BY <2>1, <2>4, Zenon
    <2> QED BY <2>5
  <1> HIDE DEF m, l, k
  <1>7. [i \in 1..4 |-> IF i = 1 THEN k ELSE IF i = 2 THEN LastByte(l)
                        ELSE IF i = 3 THEN LastByte(m) ELSE LastByte(n)]
          = <<k, LastByte(l), LastByte(m), LastByte(n)>>
    OBVIOUS
  <1>8. ToBytes(n, 4) = <<k, LastByte(l), LastByte(m), LastByte(n)>>
    <2> DEFINE F(i) == (n \div 256 ^ (4 - i)) % 256
               G(i) == IF i = 1 THEN k ELSE IF i = 2 THEN LastByte(l)
                       ELSE IF i = 3 THEN LastByte(m) ELSE LastByte(n)
    <2>1. ToBytes(n, 4) = [i \in 1..4 |-> F(i)]
          /\ [i \in 1..4 |-> G(i)] = <<k, LastByte(l), LastByte(m), LastByte(n)>>
      BY <1>2, <1>7
    <2>2. \A i \in 1..4 : F(i) = G(i)
      BY <1>6
    <2> HIDE DEF F, G
    <2> QED BY <2>1, <2>2
  <1> QED BY <1>3, <1>4, <1>8 DEF m, l, k

Sizes == {1, 2, 4}

(* The halves of the ranges of signed numbers.                              *)
LEMMA Halves == 2 ^ 7 = 128 /\ 2 ^ 15 = 32768 /\ 2 ^ 31 = 2147483648 /\ 2 ^ 32 = 4294967296
  BY SMT

(* The numbers of two bytes.                                                *)
LEMMA WordsRange ==
    ASSUME NEW n \in Int, 0 <= n, n <= 2 ^ 16 - 1
    PROVE  n \in Word
  <1>1. n \in 0 .. 2 ^ (8 * 2) - 1
    BY SMT
  <1>2. 8 * 2 = 16 /\ (n \in Word <=> n \in 0 .. 2 ^ (8 * 2) - 1)
    BY Powers, SMT DEF Word
  <1> QED BY <1>1, <1>2

(* A range has two halves: that of two's complement.                        *)
LEMMA HalfOfSize ==
    ASSUME NEW size \in Sizes
    PROVE  2 ^ (8 * size - 1) \in Nat /\ 2 ^ (8 * size) = 2 * 2 ^ (8 * size - 1)
  <1>2. CASE size = 1
    <2>1. 8 * size - 1 = 7 /\ 8 * size = 8
      BY <1>2, SMT
    <2>2. 2 ^ 7 \in Nat /\ 2 ^ 8 = 2 * 2 ^ 7
      BY Powers, Halves, SMT
    <2> QED BY <2>1, <2>2
  <1>3. CASE size = 2
    <2>1. 8 * size - 1 = 15 /\ 8 * size = 16
      BY <1>3, SMT
    <2>2. 2 ^ 15 \in Nat /\ 2 ^ 16 = 2 * 2 ^ 15
      BY Powers, Halves, SMT
    <2> QED BY <2>1, <2>2
  <1>4. CASE size = 4
    <2>1. 8 * size - 1 = 31 /\ 8 * size = 32
      BY <1>4, SMT
    <2>2. 2 ^ 31 \in Nat /\ 2 ^ 32 = 2 * 2 ^ 31
      BY Halves, SMT
    <2> QED BY <2>1, <2>2
  <1> QED BY <1>2, <1>3, <1>4 DEF Sizes

(* Four bytes are their elements.                                           *)
LEMMA FourElements ==
    ASSUME NEW edt \in Seq(Byte), Len(edt) = 4
    PROVE  edt = <<edt[1], edt[2], edt[3], edt[4]>>
  <1> DEFINE all == <<edt[1], edt[2], edt[3], edt[4]>>
  <1>1. edt = [i \in 1..4 |-> edt[i]]
    <2>1. edt \in [1..Len(edt) -> Byte]
      BY LenProperties
    <2>2. edt \in [1..4 -> Byte]
      BY <2>1
    <2> QED BY <2>2, Zenon
  <1>2. all = [i \in 1..4 |-> all[i]]
    OBVIOUS
  <1>3. all[1] = edt[1] /\ all[2] = edt[2] /\ all[3] = edt[3] /\ all[4] = edt[4]
    OBVIOUS
  <1>4. \A i \in 1..4 : i = 1 \/ i = 2 \/ i = 3 \/ i = 4
    BY SMT
  <1> HIDE DEF all
  <1>5. \A i \in 1..4 : all[i] = edt[i]
    BY <1>3, <1>4, Zenon
  <1>6. [i \in 1..4 |-> all[i]] = [i \in 1..4 |-> edt[i]]
    BY <1>5, Zenon
  <1>7. edt = all
    BY <1>1, <1>2, <1>6, Zenon
  <1> QED BY <1>7 DEF all

(* The bytes of the number of some bytes are those bytes.                   *)
LEMMA BytesToNumber ==
    ASSUME NEW size \in Sizes, NEW edt \in Seq(Byte), Len(edt) = size
    PROVE  FromBytes(edt) \in 0 .. 2 ^ (8 * size) - 1 /\ ToBytes(FromBytes(edt), size) = edt
  <1>1. CASE size = 1
    <2>1. PICK a \in Byte : edt = <<a>>
      <3>1. edt[1] \in Byte /\ edt = <<edt[1]>>
        BY <1>1
      <3> QED BY <3>1
    <2>2. FromBytes(edt) = a /\ ToBytes(a, 1) = <<a>>
      <3>1. a \in Int
        BY DEF Byte
      <3> QED BY <2>1, <3>1, OneByte, InOneByte
    <2>3. 8 * 1 = 8 /\ a \in 0 .. 2 ^ 8 - 1
      BY Powers, SMT DEF Byte
    <2> QED BY <1>1, <2>1, <2>2, <2>3
  <1>2. CASE size = 2
    <2>1. PICK a \in Byte, b \in Byte : edt = <<a, b>>
      <3>1. edt[1] \in Byte /\ edt[2] \in Byte /\ edt = <<edt[1], edt[2]>>
        BY <1>2
      <3> QED BY <3>1
    <2> DEFINE n == 256 * a + b
    <2>2. FromBytes(edt) = n
      BY <2>1, TwoBytes
    <2>3. n \in Word /\ n \in Int /\ n \div 256 = a /\ n % 256 = b
      <3>1. n \in Int /\ a \in Int /\ b \in Nat /\ b < 256 /\ n = a * 256 + b
        BY SMT DEF Byte
      <3>0. n \in Word
        <4>1. n \in Int /\ 0 <= n /\ n <= 2 ^ 16 - 1
          BY Powers, SMT DEF Byte
        <4> HIDE DEF n
        <4> QED BY <4>1, WordsRange
      <3> HIDE DEF n
      <3>2. 256 \in Nat \ {0}
        BY SMT
      <3> QED BY <3>0, <3>1, <3>2, Quotient
    <2>4. ToBytes(n, 2) = <<a, b>>
      <3> HIDE DEF n
      <3> QED BY <2>3, InTwoBytes
    <2>5. 8 * 2 = 16 /\ n \in 0 .. 2 ^ 16 - 1
      BY Powers, SMT DEF Byte
    <2> HIDE DEF n
    <2> QED BY <1>2, <2>1, <2>2, <2>4, <2>5
  <1>3. CASE size = 4
    <2>1. PICK a \in Byte, b \in Byte, c \in Byte, d \in Byte : edt = <<a, b, c, d>>
      <3>1. Len(edt) = 4
        BY <1>3
      <3>2. 1 \in 1..4 /\ 2 \in 1..4 /\ 3 \in 1..4 /\ 4 \in 1..4
        BY SMT
      <3>3. edt[1] \in Byte /\ edt[2] \in Byte /\ edt[3] \in Byte /\ edt[4] \in Byte
        <4>1. \A i \in 1..Len(edt) : edt[i] \in Byte
          BY ElementsOf
        <4> QED BY <3>1, <3>2, <4>1, Zenon
      <3> QED BY <3>1, <3>3, FourElements
    <2> DEFINE l == 256 * a + b
               m == 256 * l + c
               n == 256 * m + d
    <2>2. FromBytes(edt) = n
      BY <2>1, FourBytes
    <2>3. a \in Nat /\ l \in Nat /\ m \in Nat /\ n \in Nat
      BY SMT DEF Byte
    <2>4. n \in 0 .. 2 ^ (8 * 4) - 1
      <3>1. 8 * 4 = 32 /\ n <= 4294967295
        BY SMT DEF Byte
      <3> HIDE DEF n
      <3> QED BY <2>3, <3>1, FourPowers, SMT
    <2>5. ToBytes(n, 4) # None
      <3>1. [i \in 1..4 |-> (n \div 256 ^ (4 - i)) % 256] \in Seq(Byte)
        <4> HIDE DEF n
        <4>1. \A j \in Nat : j % 256 \in Byte
          BY SMT DEF Byte
        <4>2. \A i \in 1..4 : n \div 256 ^ (4 - i) \in Nat
          <5>1. n \div 256 ^ 3 \in Nat /\ n \div 256 ^ 2 \in Nat /\ n \div 256 ^ 1 \in Nat
                /\ n \div 256 ^ 0 \in Nat
            BY <2>3, Powers, FourPowers, SMT
          <5>2. /\ 4 - 1 = 3 /\ 4 - 2 = 2 /\ 4 - 3 = 1 /\ 4 - 4 = 0
                /\ \A i \in 1..4 : i = 1 \/ i = 2 \/ i = 3 \/ i = 4
            BY SMT
          <5> QED BY <5>1, <5>2, Zenon
        <4> DEFINE F(i) == (n \div 256 ^ (4 - i)) % 256
        <4>3. \A i \in 1..4 : F(i) \in Byte
          BY <4>1, <4>2
        <4> HIDE DEF F
        <4>4. [i \in 1..4 |-> F(i)] \in Seq(Byte)
          BY <4>3
        <4> QED BY <4>4 DEF F
      <3> HIDE DEF n
      <3> QED BY <2>4, <3>1, NoneAssumption DEF ToBytes
    <2>6. /\ Before(n) = m /\ LastByte(n) = d /\ Before(m) = l /\ LastByte(m) = c
          /\ Before(l) = a /\ LastByte(l) = b
      <3> HIDE DEF l, m, n
      <3>1. Before(n) = m /\ LastByte(n) = d
        BY <2>3, LastOfSum DEF n
      <3>2. Before(m) = l /\ LastByte(m) = c
        BY <2>3, LastOfSum DEF m
      <3>3. Before(l) = a /\ LastByte(l) = b
        BY <2>3, LastOfSum DEF l
      <3> QED BY <3>1, <3>2, <3>3
    <2> HIDE DEF l, m, n
    <2>7. n \in Int
      BY <2>3
    <2>8. ToBytes(n, 4) = <<Before(Before(Before(n))), LastByte(Before(Before(n))),
                            LastByte(Before(n)), LastByte(n)>>
      BY <2>5, <2>7, InFourBytes
    <2>9. ToBytes(n, 4) = <<a, b, c, d>>
      BY <2>6, <2>8
    <2> QED BY <1>3, <2>1, <2>2, <2>4, <2>9
  <1> QED BY <1>1, <1>2, <1>3 DEF Sizes

(* The number of the bytes of a number is that number.                      *)
LEMMA NumberToBytes ==
    ASSUME NEW size \in Sizes, NEW n \in Int, ToBytes(n, size) # None
    PROVE  /\ ToBytes(n, size) \in Seq(Byte) /\ Len(ToBytes(n, size)) = size
           /\ FromBytes(ToBytes(n, size)) = n
  <1>1. CASE size = 1
    <2>1. n \in Byte /\ ToBytes(n, 1) = <<n>>
      BY <1>1, InOneByte
    <2>2. FromBytes(<<n>>) = n /\ <<n>> \in Seq(Byte) /\ Len(<<n>>) = 1
      BY <2>1, OneByte
    <2> QED BY <1>1, <2>1, <2>2
  <1>2. CASE size = 2
    <2> DEFINE a == n \div 256
               b == n % 256
    <2>1. a \in Byte /\ b \in Byte /\ ToBytes(n, 2) = <<a, b>> /\ n = 256 * a + b
      BY <1>2, InTwoBytes
    <2> HIDE DEF a, b
    <2>2. FromBytes(<<a, b>>) = n /\ <<a, b>> \in Seq(Byte) /\ Len(<<a, b>>) = 2
      BY <2>1, TwoBytes
    <2> QED BY <1>2, <2>1, <2>2
  <1>3. CASE size = 4
    <2> DEFINE m == Before(n)
               l == Before(m)
               k == Before(l)
               b == LastByte(l)
               c == LastByte(m)
               d == LastByte(n)
               edt == <<k, b, c, d>>
    <2>1. ToBytes(n, 4) # None
      BY <1>3
    <2>2. n \in Nat /\ m \in Nat /\ l \in Nat /\ k \in Byte /\ ToBytes(n, 4) = edt
      BY <2>1, InFourBytes
    <2> HIDE DEF m, l, k, b, c, d
    <2>3. n = 256 * m + d /\ d \in Byte
      BY <2>2, BeforeAndLast DEF m, d
    <2>4. m = 256 * l + c /\ c \in Byte
      BY <2>2, BeforeAndLast DEF l, c
    <2>5. l = 256 * k + b /\ b \in Byte
      BY <2>2, BeforeAndLast DEF k, b
    <2>6. FromBytes(edt) = 256 * (256 * (256 * k + b) + c) + d
      BY <2>2, <2>3, <2>4, <2>5, FourBytes
    <2>7. FromBytes(edt) = n
      BY <2>3, <2>4, <2>5, <2>6
    <2>8. edt \in Seq(Byte) /\ Len(edt) = 4
      BY <2>2, <2>3, <2>4, <2>5
    <2> HIDE DEF edt
    <2> QED BY <1>3, <2>2, <2>7, <2>8
  <1> QED BY <1>1, <1>2, <1>3 DEF Sizes

(* The same both ways for two's complement: from bytes.                     *)
LEMMA BytesToSigned ==
    ASSUME NEW size \in Sizes, NEW edt \in Seq(Byte), Len(edt) = size
    PROVE  FromSigned(edt) \in Int /\ ToSigned(FromSigned(edt), size) = edt
  <1> DEFINE n == FromBytes(edt)
             half == 2 ^ (8 * size - 1)
             m == FromSigned(edt)
  <1>1. n \in 0 .. 2 ^ (8 * size) - 1 /\ ToBytes(n, size) = edt
    BY BytesToNumber
  <1>2. half \in Nat /\ 2 ^ (8 * size) = 2 * half
    BY HalfOfSize
  <1>3. m = IF n >= half THEN n - 2 * half ELSE n
    BY DEF FromSigned
  <1>4. ToSigned(m, size) = IF m \notin -half .. half - 1 THEN None
                            ELSE ToBytes(IF m < 0 THEN m + 2 * half ELSE m, size)
    BY DEF ToSigned
  <1> HIDE DEF n, half, m
  <1>5. m \in Int /\ m \in -half .. half - 1 /\ (IF m < 0 THEN m + 2 * half ELSE m) = n
    BY <1>1, <1>2, <1>3, SMT
  <1> QED BY <1>1, <1>4, <1>5 DEF m

(* The same both ways for two's complement: from a number.                  *)
LEMMA SignedToBytes ==
    ASSUME NEW size \in Sizes, NEW n \in Int, ToSigned(n, size) # None
    PROVE  /\ ToSigned(n, size) \in Seq(Byte) /\ Len(ToSigned(n, size)) = size
           /\ FromSigned(ToSigned(n, size)) = n
  <1> DEFINE half == 2 ^ (8 * size - 1)
             m == IF n < 0 THEN n + 2 * half ELSE n
             edt == ToSigned(n, size)
  <1>1. half \in Nat
    BY HalfOfSize
  <1>2. n \in -half .. half - 1 /\ edt = ToBytes(m, size)
    <2> HIDE DEF half
    <2> QED BY DEF ToSigned, half
  <1>3. m \in Int
    <2> HIDE DEF half
    <2> QED BY <1>1
  <1>4. edt \in Seq(Byte) /\ Len(edt) = size /\ FromBytes(edt) = m
    <2> HIDE DEF half, m
    <2> QED BY <1>2, <1>3, NumberToBytes
  <1>5. FromSigned(edt) = IF m >= half THEN m - 2 * half ELSE m
    <2> HIDE DEF m, edt
    <2> QED BY <1>4 DEF FromSigned
  <1>6. (IF m >= half THEN m - 2 * half ELSE m) = n
    <2> HIDE DEF half
    <2> QED BY <1>1, <1>2
  <1> QED BY <1>4, <1>5, <1>6

-----------------------------------------------------------------------------
(* The codec of a field that is written.                                    *)

(* A set of places has a first one.                                         *)
LEMMA FirstOf ==
    ASSUME NEW T, T \subseteq Nat, T # {}
    PROVE  Min(T) \in T
  <1>1. PICK x \in T : \A y \in T : x <= y
    BY Least
  <1> QED BY <1>1, Zenon DEF Min

(* A single place is the first and the last one.                            *)
LEMMA OnlyOf ==
    ASSUME NEW i \in Int
    PROVE  Min({i}) = i /\ Max({i}) = i
  <1>1. i \in {i} /\ \A y \in {i} : i <= y /\ i >= y
    OBVIOUS
  <1> QED BY <1>1, Zenon DEF Min, Max

(* The definition of a field is regular, and starts where the field does. *)
LEMMA EntityIsRegular ==
    ASSUME NEW class \in DOMAIN Entities, NEW epc, NEW manufacturer, NEW offset,
           EntityFor(class, epc, manufacturer, offset) # None
    PROVE  /\ IsRegular(EntityFor(class, epc, manufacturer, offset))
           /\ EntityFor(class, epc, manufacturer, offset).byte_offset = offset
  <1> DEFINE entities == Entities[class]
             fields == {i \in DOMAIN entities :
                           entities[i].epc = epc /\ entities[i].byte_offset = offset}
             own == {i \in fields : entities[i].manufacturer_code # None
                                    /\ entities[i].manufacturer_code = manufacturer}
             generic == {i \in fields : entities[i].manufacturer_code = None}
             entity == EntityFor(class, epc, manufacturer, offset)
  <1>1. DOMAIN entities \subseteq Nat /\ \A i \in DOMAIN entities : IsRegular(entities[i])
    BY RegistryAssumption
  <1>2. entity = IF own # {} THEN entities[Min(own)]
                 ELSE IF generic # {} THEN entities[Min(generic)] ELSE None
    BY DEF EntityFor
  <1>3. fields \subseteq DOMAIN entities /\ \A i \in fields : entities[i].byte_offset = offset
    OBVIOUS
  <1>4. own \subseteq fields /\ generic \subseteq fields
    OBVIOUS
  <1>5. entity # None
    OBVIOUS
  <1> HIDE DEF entities, fields, own, generic, entity
  <1>6. \E i \in fields : entity = entities[i]
    <2>1. own \subseteq Nat /\ generic \subseteq Nat
      BY <1>1, <1>3, <1>4
    <2>2. CASE own # {}
      <3>1. Min(own) \in own
        BY <2>1, <2>2, FirstOf
      <3> QED BY <1>2, <1>4, <2>2, <3>1
    <2>3. CASE own = {}
      <3>1. generic # {} /\ entity = entities[Min(generic)]
        BY <1>2, <1>5, <2>3
      <3>2. Min(generic) \in generic
        BY <2>1, <3>1, FirstOf
      <3> QED BY <1>4, <3>1, <3>2
    <2> QED BY <2>2, <2>3
  <1>7. IsRegular(entity) /\ entity.byte_offset = offset
    BY <1>1, <1>3, <1>6
  <1> QED BY <1>7 DEF entity

(* What the regular definitions make of the codec of a field. *)
LawfulNumeric(codec) ==
    /\ codec.format \in DOMAIN Formats
    /\ codec.scale \in [num : Nat \ {0}, den : Nat \ {0}]
    /\ codec.minimum \in Int \cup {None} /\ codec.maximum \in Int \cup {None}
    /\ codec.coefficients = <<>> /\ codec.byte_offset = 0

Lawful(codec) ==
    \/ codec.kind = "location"
    \/ codec.kind = "temporal" /\ RegularStates(codec.enum_values)
                            /\ RegularTemporal(codec.temporal, codec.enum_values)
    \/ codec.kind = "numericValue" /\ RegularNumbers(codec.numeric_values) /\ codec.byte_offset = 0
    \/ codec.kind = "binary" /\ codec.on_edt # codec.off_edt /\ codec.byte_offset = 0
    \/ codec.kind = "enum" /\ RegularStates(codec.enum_values) /\ codec.byte_offset = 0
    \/ codec.kind = "numeric" /\ LawfulNumeric(codec)

(* The two states of a bool have different EDTs. *)
LEMMA BoolsDiffer ==
    ASSUME NEW entity, RegularStates(entity.enum_values), IsBinary(entity)
    PROVE  StateEdt(entity, "true") # StateEdt(entity, "false")
  <1> DEFINE states == entity.enum_values
             Place(key) == Min(WithKey(states, key))
  <1>1. DOMAIN states \subseteq Nat
    BY DEF RegularStates
  <1>2. ASSUME NEW key \in {"true", "false"}
        PROVE  Place(key) \in DOMAIN states /\ states[Place(key)].key = key
    <2>1. key \in {e.key : e \in ToSet(states)}
      BY Zenon DEF IsBinary
    <2>2. PICK i \in DOMAIN states : states[i].key = key
      BY <2>1 DEF ToSet
    <2>3. WithKey(states, key) \subseteq Nat /\ WithKey(states, key) # {}
      BY <1>1, <2>2 DEF WithKey
    <2>4. Place(key) \in WithKey(states, key)
      BY <2>3, FirstOf
    <2> QED BY <2>4 DEF WithKey
  <1>3. Place("true") # Place("false")
    <2>1. "true" # "false"
      OBVIOUS
    <2> HIDE DEF Place
    <2> QED BY <1>2, <2>1
  <1> QED BY <1>2, <1>3 DEF RegularStates, StateEdt

(* The registry gives every field that is written a lawful codec.           *)
LEMMA CodecIsLawful ==
    ASSUME NEW field \in Fields, IsWritable(field)
    PROVE  Lawful(CodecOf(field))
  <1> DEFINE codec == CodecOf(field)
             entity == EntityFor(field.class, field.epc, field.manufacturer, field.offset)
             own == CoefficientCodecs(entity.coefficient_epcs, field.class)
  <1>1. codec # None /\ field.offset = 0 /\ (field.epc # 129 => field.class \in DOMAIN Entities)
    BY ConversionsAssumption DEF IsWritable
  <1>2. CASE field.epc = 129
    <2>1. codec.kind = "location"
      BY <1>2 DEF CodecOf
    <2> QED BY <2>1, Zenon DEF Lawful
  <1>3. CASE field.epc # 129
    <2>1. codec = IF entity = None THEN None ELSE GetCodec(entity, own)
      <3> HIDE DEF own
      <3> QED BY <1>3 DEF CodecOf, GetCodecForEpc, own
    <2>2. entity # None /\ codec = GetCodec(entity, own)
      <3> HIDE DEF own, entity, codec
      <3> QED BY <1>1, <2>1
    <2>3. IsRegular(entity) /\ entity.byte_offset = 0
      <3>1. IsRegular(entity) /\ entity.byte_offset = field.offset
        BY <1>1, <1>3, <2>2, EntityIsRegular
      <3> QED BY <1>1, <3>1
    <2>4. ~(codec.kind = "numeric" /\ codec.coefficients # <<>>)
      BY DEF IsWritable, IsScaled
    <2> HIDE DEF entity, own, codec
    <2>5. /\ RegularStates(entity.enum_values)
          /\ entity.numeric_values # None => RegularNumbers(entity.numeric_values)
          /\ entity.temporal # None => RegularTemporal(entity.temporal, entity.enum_values)
          /\ entity.format # None => entity.format \in DOMAIN Formats
          /\ entity.multiple_of \in [num : Nat \ {0}, den : Nat \ {0}]
          /\ entity.minimum \in Int \cup {None} /\ entity.maximum \in Int \cup {None}
      BY <2>3, Zenon DEF IsRegular
    <2>6. CASE entity.temporal # None
      <3>1. /\ codec.kind = "temporal" /\ codec.temporal = entity.temporal
            /\ codec.enum_values = entity.enum_values
        BY <1>1, <2>2, <2>6 DEF GetCodec
      <3> QED BY <2>5, <2>6, <3>1, Zenon DEF Lawful, codec
    <2>7. CASE entity.temporal = None /\ entity.numeric_values # None
      <3>1. /\ codec.kind = "numericValue" /\ codec.numeric_values = entity.numeric_values
            /\ codec.byte_offset = 0
        BY <1>1, <2>2, <2>3, <2>7 DEF GetCodec
      <3> QED BY <2>5, <2>7, <3>1, Zenon DEF Lawful, codec
    <2>8. CASE entity.temporal = None /\ entity.numeric_values = None /\ IsBinary(entity)
      <3>1. /\ codec.kind = "binary" /\ codec.on_edt = StateEdt(entity, "true")
            /\ codec.off_edt = StateEdt(entity, "false") /\ codec.byte_offset = 0
        BY <1>1, <2>2, <2>3, <2>8 DEF GetCodec
      <3>2. StateEdt(entity, "true") # StateEdt(entity, "false")
        BY <2>5, <2>8, BoolsDiffer
      <3> QED BY <3>1, <3>2, Zenon DEF Lawful, codec
    <2>9. CASE /\ entity.temporal = None /\ entity.numeric_values = None /\ ~IsBinary(entity)
               /\ entity.enum_values # <<>>
      <3>1. /\ codec.kind = "enum" /\ codec.enum_values = entity.enum_values
            /\ codec.byte_offset = 0
        BY <1>1, <2>2, <2>3, <2>9 DEF GetCodec
      <3> QED BY <2>5, <3>1, Zenon DEF Lawful, codec
    <2>10. CASE /\ entity.temporal = None /\ entity.numeric_values = None /\ ~IsBinary(entity)
                /\ entity.enum_values = <<>>
      <3>1. entity.format # None /\ codec = NumericCodec(entity, entity.byte_offset, own)
        BY <1>1, <2>2, <2>10 DEF GetCodec
      <3>2. /\ codec.kind = "numeric" /\ codec.format = entity.format
            /\ codec.scale = entity.multiple_of /\ codec.minimum = entity.minimum
            /\ codec.maximum = entity.maximum /\ codec.byte_offset = 0
        BY <2>3, <3>1 DEF NumericCodec
      <3>3. LawfulNumeric(codec)
        BY <2>4, <2>5, <3>1, <3>2, Zenon DEF LawfulNumeric
      <3> QED BY <3>2, <3>3, Zenon DEF Lawful, codec
    <2> QED BY <2>6, <2>7, <2>8, <2>9, <2>10
  <1> QED BY <1>2, <1>3

-----------------------------------------------------------------------------
(* What decode tells is encoded to the bytes it was told from: codecs of    *)
(* one byte.                                                                *)

(* No lawful codec depends on the context.                                  *)
LEMMA UnscaledDecode ==
    ASSUME NEW codec, Lawful(codec), NEW edt, NEW context
    PROVE  Decode(codec, edt, context) = DecodeWith(codec, edt, <<>>)
  <1> DEFINE own == Coefficients(codec)
             factors == [i \in DOMAIN own |-> Factor(own[i], context)]
  <1>1. own = <<>>
    BY DEF Lawful, RegularTemporal, LawfulNumeric, Coefficients
  <1>2. factors = <<>>
    <2>1. DOMAIN own = {}
      BY <1>1
    <2> QED BY <2>1
  <1> HIDE DEF own, factors
  <1>3. Decode(codec, edt, context) = DecodeWith(codec, edt, factors)
    BY Zenon DEF Decode, own, factors
  <1> QED BY <1>2, <1>3

(* An EDT of one byte.                                                      *)
LEMMA ByteOf ==
    ASSUME NEW edt \in Seq(Byte), Len(edt) = 1
    PROVE  edt[1] \in Byte /\ edt = <<edt[1]>> /\ ByteAt(edt, 0) = edt[1]
  <1>1. edt[1] \in Byte /\ edt = <<edt[1]>>
    OBVIOUS
  <1>2. ByteAt(edt, 0) = edt[1]
    BY DEF ByteAt
  <1> QED BY <1>1, <1>2

(* The first byte of one byte.                                              *)
LEMMA ByteIsRead ==
    ASSUME NEW b
    PROVE  ByteAt(<<b>>, 0) = b
  BY DEF ByteAt

(* The installation location (EPC 0x81).                                    *)
LEMMA LocationStays ==
    ASSUME NEW edt \in Seq(Byte), Len(edt) = 1, DecodeLocation(edt) # None
    PROVE  EncodeLocation(DecodeLocation(edt)) = edt
  <1> DEFINE b == edt[1]
             code == b \div 8
             instance == b % 8
  <1>1. b \in Byte /\ edt = <<b>>
    BY ByteOf
  <1>2. code \in Locations /\ DecodeLocation(edt) = InstallationLocation(code, instance)
    <2> HIDE DEF b
    <2> QED BY DEF DecodeLocation, b
  <1>3. instance \in 0..7 /\ 8 * (code % 16) + (instance % 8) = b
    <2> HIDE DEF b
    <2>1. b \in Int /\ code \in Int /\ code >= 1 /\ code <= 15 /\ b = 8 * code + instance
          /\ instance \in 0..7
      BY <1>1, <1>2, SMT DEF Byte, Locations
    <2> HIDE DEF code, instance
    <2>2. code % 16 = code /\ instance % 8 = instance
      BY <2>1, SMT
    <2> QED BY <2>1, <2>2, SMT
  <1> HIDE DEF b, code, instance
  <1>4. EncodeLocation(InstallationLocation(code, instance))
          = <<8 * (code % 16) + (instance % 8)>>
    BY <1>2, <1>3 DEF EncodeLocation, InstallationLocation
  <1> QED BY <1>1, <1>2, <1>3, <1>4

(* A bool.                                                                  *)
LEMMA BinaryStays ==
    ASSUME NEW codec, codec.byte_offset = 0,
           NEW edt \in Seq(Byte), Len(edt) = 1, DecodeBinary(codec, edt) # None
    PROVE  EncodeBinary(codec, DecodeBinary(codec, edt)) = edt
  <1> DEFINE b == edt[1]
  <1>1. edt = <<b>> /\ ByteAt(edt, 0) = b
    BY ByteOf
  <1> HIDE DEF b
  <1>2. b \in {codec.on_edt, codec.off_edt} /\ DecodeBinary(codec, edt) = [on |-> b = codec.on_edt]
    BY <1>1 DEF DecodeBinary
  <1>3. EncodeBinary(codec, [on |-> b = codec.on_edt])
          = <<IF b = codec.on_edt THEN codec.on_edt ELSE codec.off_edt>>
    BY DEF EncodeBinary
  <1>4. (IF b = codec.on_edt THEN codec.on_edt ELSE codec.off_edt) = b
    BY <1>2
  <1> QED BY <1>1, <1>2, <1>3, <1>4

(* The places of a sequence are numbers, and its elements those of its set. *)
LEMMA EntryOf ==
    ASSUME NEW S, NEW s \in Seq(S), NEW i \in DOMAIN s
    PROVE  i \in Nat /\ i \in Int /\ s[i] \in S
  OBVIOUS

(* The entries of an EDT and of a key, and of a number: at most one each. *)
LEMMA OneState ==
    ASSUME NEW states, RegularStates(states), NEW i \in DOMAIN states
    PROVE  /\ WithEdt(states, states[i].edt) = {i} /\ WithKey(states, states[i].key) = {i}
           /\ i \in Int /\ states[i].edt \in Nat /\ states[i].key \in STRING
  <1>1. i \in Int /\ states[i] \in [edt : Nat, key : STRING]
    <2>1. states \in Seq([edt : Nat, key : STRING])
      BY Zenon DEF RegularStates
    <2> QED BY <2>1, EntryOf
  <1>2. \A j \in DOMAIN states :
           j # i => states[j].edt # states[i].edt /\ states[j].key # states[i].key
    BY DEF RegularStates
  <1> QED BY <1>1, <1>2 DEF WithEdt, WithKey

(* A table of numbers that is regular names each EDT and each number once.  *)
LEMMA OneNumber ==
    ASSUME NEW numbers, RegularNumbers(numbers), NEW i \in DOMAIN numbers
    PROVE  /\ WithEdt(numbers, numbers[i].edt) = {i}
           /\ i \in Int /\ numbers[i].edt \in Byte /\ numbers[i].value \in Numbers
           /\ \A j \in DOMAIN numbers : SameNumber(numbers[j].value, numbers[i].value) => j = i
  <1>1. i \in Int /\ numbers[i] \in [edt : Byte, value : Numbers]
    <2>1. numbers \in Seq([edt : Byte, value : Numbers])
      BY Zenon DEF RegularNumbers
    <2> QED BY <2>1, EntryOf
  <1>2. \A j \in DOMAIN numbers :
           j # i => /\ numbers[j].edt # numbers[i].edt
                    /\ ~SameNumber(numbers[j].value, numbers[i].value)
    BY Zenon DEF RegularNumbers
  <1> QED BY <1>1, <1>2 DEF WithEdt

(* A state.                                                                 *)
LEMMA EnumStays ==
    ASSUME NEW codec, codec.byte_offset = 0, RegularStates(codec.enum_values),
           NEW edt \in Seq(Byte), Len(edt) = 1, DecodeEnum(codec, edt) # None
    PROVE  EncodeEnum(codec, DecodeEnum(codec, edt)) = edt
  <1> DEFINE b == edt[1]
             states == codec.enum_values
  <1>1. b \in Byte /\ edt = <<b>> /\ ByteAt(edt, 0) = b
    BY ByteOf
  <1> HIDE DEF b
  <1>2. WithEdt(states, b) # {} /\ DecodeEnum(codec, edt) = [key |-> states[Max(WithEdt(states, b))].key]
    BY <1>1 DEF DecodeEnum
  <1>3. PICK i \in DOMAIN states : states[i].edt = b
    BY <1>2 DEF WithEdt
  <1>4. WithEdt(states, b) = {i} /\ WithKey(states, states[i].key) = {i} /\ i \in Int
    BY <1>3, OneState
  <1>5. Max({i}) = i
    BY <1>4, OnlyOf
  <1>6. DecodeEnum(codec, edt) = [key |-> states[i].key]
    BY <1>2, <1>4, <1>5
  <1>7. EncodeEnum(codec, [key |-> states[i].key]) = ToBytes(b, 1)
    BY <1>3, <1>4, <1>5 DEF EncodeEnum
  <1>8. ToBytes(b, 1) = <<b>>
    <2>1. b \in Int
      BY <1>1 DEF Byte
    <2> QED BY <1>1, <2>1, InOneByte
  <1> QED BY <1>1, <1>6, <1>7, <1>8

(* A number out of a table.                                                 *)
LEMMA NumericValueStays ==
    ASSUME NEW codec, codec.byte_offset = 0, RegularNumbers(codec.numeric_values),
           NEW edt \in Seq(Byte), Len(edt) = 1, DecodeNumericValue(codec, edt) # None
    PROVE  EncodeNumericValue(codec, DecodeNumericValue(codec, edt)) = edt
  <1> DEFINE b == edt[1]
             numbers == codec.numeric_values
             Same(value) == {j \in DOMAIN numbers : SameNumber(numbers[j].value, value)}
  <1>1. b \in Byte /\ edt = <<b>> /\ ByteAt(edt, 0) = b
    BY ByteOf
  <1> HIDE DEF b
  <1>2. /\ WithEdt(numbers, b) # {}
        /\ DecodeNumericValue(codec, edt) = numbers[Max(WithEdt(numbers, b))].value
    BY <1>1 DEF DecodeNumericValue
  <1>3. PICK i \in DOMAIN numbers : numbers[i].edt = b
    BY <1>2 DEF WithEdt
  <1>4. /\ WithEdt(numbers, b) = {i} /\ i \in Int /\ numbers[i].value \in Numbers
        /\ \A j \in DOMAIN numbers : SameNumber(numbers[j].value, numbers[i].value) => j = i
    BY <1>3, OneNumber
  <1>5. Max({i}) = i /\ Min({i}) = i
    BY <1>4, OnlyOf
  <1>6. DecodeNumericValue(codec, edt) = numbers[i].value
    BY <1>2, <1>4, <1>5
  <1>7. Same(numbers[i].value) = {i}
    <2>1. SameNumber(numbers[i].value, numbers[i].value)
      BY <1>4 DEF SameNumber, Numbers
    <2> QED BY <1>4, <2>1
  <1>8. EncodeNumericValue(codec, numbers[i].value) = <<numbers[Min(Same(numbers[i].value))].edt>>
    <2> HIDE DEF numbers
    <2>1. Same(numbers[i].value) # {}
      BY <1>7
    <2> QED BY <2>1 DEF EncodeNumericValue, numbers
  <1> QED BY <1>1, <1>3, <1>5, <1>6, <1>7, <1>8

-----------------------------------------------------------------------------
(* Numbers.                                                                 *)

(* Without coefficients a number is only scaled.                            *)
LEMMA ProductOfNone ==
    ASSUME NEW first
    PROVE  Product(first, <<>>) = first
  <1> DEFINE Step(f) == [i \in 0..Len(<<>>) |->
                            IF i = 0 THEN first ELSE Times(f[i - 1], <<>>[i])]
             product == CHOOSE f : f = Step(f)
             g == [i \in 0..0 |-> first]
  <1>1. Product(first, <<>>) = product[Len(<<>>)]
    BY DEF Product
  <1>2. \A i \in 0..0 : i = 0
    BY SMT
  <1>3. g = Step(g)
    <2>1. Len(<<>>) = 0
      OBVIOUS
    <2> QED BY <1>2, <2>1
  <1>4. product = Step(product)
    <2> HIDE DEF Step, g
    <2> QED BY <1>3
  <1>5. 0 \in 0..Len(<<>>) /\ Len(<<>>) = 0
    OBVIOUS
  <1>6. product[0] = first
    <2> DEFINE p == product
    <2>1. p = Step(p)
      BY <1>4
    <2> HIDE DEF p
    <2> QED BY <1>5, <2>1 DEF p
  <1> QED BY <1>1, <1>5, <1>6

(* Every format has one, two or four bytes.                                 *)
LEMMA SizesOfFormats ==
    ASSUME NEW format \in DOMAIN Formats
    PROVE  Formats[format].size \in Sizes
  BY DEF Formats, Sizes

RawOf(codec, edt) == IF Formats[codec.format].signed THEN FromSigned(edt) ELSE FromBytes(edt)
BytesOfRaw(codec, raw) ==
    IF Formats[codec.format].signed THEN ToSigned(raw, Formats[codec.format].size)
    ELSE ToBytes(raw, Formats[codec.format].size)
Scaled(codec, raw) == Times(Number(raw, 1), codec.scale)

(* decode of a number: the range is that of the raw number, the step comes  *)
(* after.                                                                   *)
LEMMA NumericDecode ==
    ASSUME NEW codec, LawfulNumeric(codec),
           NEW edt \in Seq(Byte), Len(edt) = Formats[codec.format].size
    PROVE  /\ RawOf(codec, edt) \in Int
           /\ BytesOfRaw(codec, RawOf(codec, edt)) = edt
           /\ DecodeNumeric(codec, edt, <<>>)
                = IF ~InRange(codec, RawOf(codec, edt)) THEN None
                  ELSE Scaled(codec, RawOf(codec, edt))
  <1> DEFINE size == Formats[codec.format].size
             signed == Formats[codec.format].signed
             field == SubSeq(edt, codec.byte_offset + 1, codec.byte_offset + size)
             raw == RawOf(codec, edt)
  <1>1. size \in Sizes /\ codec.byte_offset = 0
    BY SizesOfFormats DEF LawfulNumeric
  <1>2. size \in Nat /\ Len(edt) = size
    BY <1>1 DEF Sizes
  <1> HIDE DEF size, signed
  <1>3. field = edt
    <2>1. 0 + 1 = 1 /\ 0 + size = size
      BY <1>2
    <2>2. field = SubSeq(edt, 1, Len(edt))
      BY <1>1, <1>2, <2>1
    <2> QED BY <2>2, SubSeqFull
  <1>4. FromBytes(edt) \in Int
    <2>1. FromBytes(edt) \in 0 .. 2 ^ (8 * size) - 1
      BY <1>1, <1>2, BytesToNumber
    <2> QED BY <2>1
  <1>5. raw \in Int /\ BytesOfRaw(codec, raw) = edt
    <2>1. CASE signed
      <3>1. raw = FromSigned(edt) /\ BytesOfRaw(codec, raw) = ToSigned(raw, size)
        BY <2>1 DEF RawOf, BytesOfRaw, signed, size
      <3> QED BY <1>1, <1>2, <3>1, BytesToSigned
    <2>2. CASE ~signed
      <3>1. raw = FromBytes(edt) /\ BytesOfRaw(codec, raw) = ToBytes(raw, size)
        BY <2>2 DEF RawOf, BytesOfRaw, signed, size
      <3> QED BY <1>1, <1>2, <1>4, <3>1, BytesToNumber
    <2> QED BY <2>1, <2>2
  <1>6. ~(Len(edt) < codec.byte_offset + size)
    BY <1>1, <1>2
  <1>7. None \notin ToSet(<<>>)
    BY EmptySequence
  <1>8. Product(Scaled(codec, raw), <<>>) = Scaled(codec, raw)
    BY ProductOfNone
  <1>9. (IF signed THEN FromSigned(field) ELSE FromBytes(field)) = raw
    BY <1>3 DEF RawOf, signed
  <1> HIDE DEF field, raw
  <1>10. DecodeNumeric(codec, edt, <<>>)
           = IF ~InRange(codec, raw) THEN None ELSE Product(Scaled(codec, raw), <<>>)
    BY <1>6, <1>7, <1>9, Zenon DEF DecodeNumeric, Scaled, field, size, signed
  <1> QED BY <1>5, <1>8, <1>10 DEF raw

(* encode of a number: the step is taken off and rounded, then the range is *)
(* checked.                                                                 *)
LEMMA NumericEncode ==
    ASSUME NEW codec, LawfulNumeric(codec), NEW value
    PROVE  LET raw == Rounded(Number(value.num * codec.scale.den, value.den * codec.scale.num)) IN
           EncodeNumeric(codec, value) = IF ~InRange(codec, raw) THEN None ELSE BytesOfRaw(codec, raw)
  <1>1. codec.coefficients = <<>> /\ codec.byte_offset = 0
    BY DEF LawfulNumeric
  <1> QED BY <1>1, Zenon DEF EncodeNumeric, BytesOfRaw

(* A number that is decoded rounds to the raw number it was scaled from.    *)
LEMMA NumericStays ==
    ASSUME NEW codec, LawfulNumeric(codec),
           NEW edt \in Seq(Byte), Len(edt) = Formats[codec.format].size,
           DecodeNumeric(codec, edt, <<>>) # None
    PROVE  EncodeNumeric(codec, DecodeNumeric(codec, edt, <<>>)) = edt
  <1> DEFINE raw == RawOf(codec, edt)
             sn == codec.scale.num
             sd == codec.scale.den
             value == Scaled(codec, raw)
             d == sd * sn
  <1>1. /\ raw \in Int /\ BytesOfRaw(codec, raw) = edt /\ InRange(codec, raw)
        /\ DecodeNumeric(codec, edt, <<>>) = value
    <2> HIDE DEF raw
    <2> QED BY NumericDecode DEF raw
  <1>2. sn \in Nat \ {0} /\ sd \in Nat \ {0}
    BY DEF LawfulNumeric
  <1> HIDE DEF raw, sn, sd
  <1>3. value.num = raw * sn /\ value.den = 1 * sd
    BY DEF Scaled, Times, Number, sn, sd
  <1> HIDE DEF value
  <1>4. d \in Nat \ {0} /\ value.num * sd = raw * d /\ value.den * sn = d
    BY <1>1, <1>2, <1>3, SMT
  <1> HIDE DEF d
  <1>5. Rounded(Number(value.num * sd, value.den * sn)) = raw
    <2>1. Rounded(Number(raw * d, d)) = raw
      BY <1>1, <1>4, MultiplesRound
    <2> QED BY <1>4, <2>1
  <1>6. EncodeNumeric(codec, value)
          = IF ~InRange(codec, raw) THEN None ELSE BytesOfRaw(codec, raw)
    BY <1>5, NumericEncode DEF sn, sd
  <1> QED BY <1>1, <1>6 DEF value

-----------------------------------------------------------------------------
(* Dates and times.                                                         *)

Hours(temporal) == temporal.kind \in {"clock", "duration"}

TemporalShape ==
    [kind : {"date", "clock", "datetime", "duration"}, size : 2..7, maximum_hour : 0..255]

(* The sizes that __post_init__ allows each kind.                           *)
LEMMA SizesOfTemporal ==
    ASSUME NEW temporal \in TemporalShape,
           TemporalDefinition(temporal.kind, temporal.size, temporal.maximum_hour) # None
    PROVE  /\ temporal.kind = "date" => temporal.size = 4
           /\ Hours(temporal) => temporal.size \in {2, 3}
           /\ temporal.kind = "datetime" => temporal.size \in {6, 7}
           /\ temporal.size \in Nat /\ temporal.maximum_hour \in 0..255
           /\ temporal.kind = "clock" => temporal.maximum_hour <= 23
           /\ temporal.kind \in {"date", "datetime"} \/ Hours(temporal)
  <1> DEFINE kind == temporal.kind
             size == temporal.size
             hour == temporal.maximum_hour
  <1>1. kind \in {"date", "clock", "datetime", "duration"} /\ size \in 2..7 /\ hour \in 0..255
    BY DEF TemporalShape
  <1>2. TemporalDefinition(kind, size, hour) # None
    OBVIOUS
  <1> HIDE DEF kind, size, hour
  <1>3. /\ size \in CASE kind = "date" -> {4}
                      [] kind \in {"clock", "duration"} -> {2, 3}
                      [] kind = "datetime" -> {6, 7}
        /\ kind = "clock" => hour <= 23
    BY <1>2, Zenon DEF TemporalDefinition
  <1>4. /\ kind = "date" => size \in {4}
        /\ kind \in {"clock", "duration"} => size \in {2, 3}
        /\ kind = "datetime" => size \in {6, 7}
    BY <1>3
  <1> QED BY <1>1, <1>3, <1>4 DEF Hours, kind, size, hour

At(edt, i) == IF i <= Len(edt) THEN edt[i] ELSE 0

(* The bytes of an EDT, and zeros after its end.                            *)
LEMMA AtIsByte ==
    ASSUME NEW edt \in Seq(Byte), NEW i \in Nat \ {0}
    PROVE  At(edt, i) \in Byte /\ (i <= Len(edt) => At(edt, i) = edt[i])
  <1>1. 0 \in Byte
    BY SMT DEF Byte
  <1>2. CASE i <= Len(edt)
    <2>1. edt[i] \in Byte
      BY <1>2
    <2> QED BY <1>2, <2>1 DEF At
  <1>3. CASE ~(i <= Len(edt))
    BY <1>1, <1>3 DEF At
  <1> QED BY <1>2, <1>3

(* A byte is a number.                                                      *)
LEMMA ByteIsInt == \A b \in Byte : b \in Int /\ b \in Nat
  BY DEF Byte

(* The hours, minutes and seconds of an EDT are those of its bytes. *)
LEMMA HoursStay ==
    ASSUME NEW temporal \in TemporalShape, temporal.size \in {2, 3},
           NEW edt \in Seq(Byte), Len(edt) = temporal.size, edt[1] <= temporal.maximum_hour
    PROVE  EncodeHours(temporal, edt[1], edt[2], At(edt, 3)) = edt
  <1> DEFINE h == edt[1]
             m == edt[2]
             s == At(edt, 3)
             three == <<h, m, s>>
             size == temporal.size
  <1>1. h \in Byte /\ m \in Byte /\ s \in Byte
    <2>1. 1 \in 1..Len(edt) /\ 2 \in 1..Len(edt) /\ 3 \in Nat \ {0}
      OBVIOUS
    <2> QED BY <2>1, AtIsByte
  <1>2. ~(h > temporal.maximum_hour)
    <2>1. h \in Int /\ temporal.maximum_hour \in Int /\ h <= temporal.maximum_hour
      <3>1. temporal.maximum_hour \in 0..255
        BY DEF TemporalShape
      <3>2. \A n \in 0..255 : n \in Int
        OBVIOUS
      <3> QED BY <1>1, <3>1, <3>2, ByteIsInt
    <2> HIDE DEF h
    <2> QED BY <2>1, SMT
  <1>3. ~(size = 2 /\ s # 0)
    BY DEF At
  <1>4. size \in 1..3 /\ Len(edt) = size /\ size \in Nat
    OBVIOUS
  <1>5. \A i \in 1..size : three[i] = edt[i]
    <2>1. three[1] = edt[1] /\ three[2] = edt[2] /\ (size = 3 => three[3] = edt[3])
      BY DEF At
    <2>2. \A i \in 1..size : i = 1 \/ i = 2 \/ (i = 3 /\ size = 3)
      BY <1>4, SMT
    <2> HIDE DEF three
    <2> QED BY <2>1, <2>2
  <1>6. three \in Seq(Byte) /\ Len(three) = 3
    BY <1>1
  <1> HIDE DEF h, m, s, three, size
  <1>7. EncodeHours(temporal, h, m, s) = SubSeq(three, 1, size)
    BY <1>2, <1>3, Zenon DEF EncodeHours, three, size
  <1>8. /\ SubSeq(three, 1, size) \in Seq(Byte) /\ Len(SubSeq(three, 1, size)) = size
        /\ \A i \in 1..size : SubSeq(three, 1, size)[i] = three[i]
    BY <1>4, <1>6, FirstElements
  <1>9. SubSeq(three, 1, size) = edt
    BY <1>4, <1>5, <1>8
  <1> QED BY <1>7, <1>9 DEF h, m, s

(* The year of two bytes. *)
YearOf(edt) == FromBytes(SubSeq(edt, 1, 2))

(* The year, the month and the day of an EDT are its first four bytes.      *)
LEMMA DateStays ==
    ASSUME NEW edt \in Seq(Byte), Len(edt) >= 4
    PROVE  EncodeDate(Date(YearOf(edt), edt[3], edt[4])) = <<edt[1], edt[2], edt[3], edt[4]>>
  <1> DEFINE a == edt[1]
             b == edt[2]
             c == edt[3]
             d == edt[4]
             n == YearOf(edt)
  <1>1. a \in Byte /\ b \in Byte /\ c \in Byte /\ d \in Byte
    OBVIOUS
  <1>2. SubSeq(edt, 1, 2) = <<a, b>>
    <2> DEFINE two == SubSeq(edt, 1, 2)
    <2>1. two \in Seq(Byte) /\ Len(two) = 2 /\ \A j \in 1..2 : two[j] = edt[j]
      <3>1. 2 \in 0..Len(edt)
        OBVIOUS
      <3> QED BY <3>1, FirstElements
    <2> HIDE DEF two
    <2>2. two = <<two[1], two[2]>> /\ two[1] = a /\ two[2] = b
      BY <2>1
    <2> QED BY <2>2 DEF two
  <1>3. <<a, b>> \in Seq(Byte) /\ Len(<<a, b>>) = 2 /\ 2 \in Sizes
    BY <1>1 DEF Sizes
  <1> HIDE DEF a, b, c, d
  <1>4. ToBytes(n, 2) = <<a, b>>
    BY <1>2, <1>3, BytesToNumber DEF YearOf
  <1>5. EncodeDate(Date(n, c, d)) = <<a, b>> \o <<c, d>>
    <2> HIDE DEF n
    <2> QED BY <1>4 DEF EncodeDate, Date
  <1>6. <<a, b>> \o <<c, d>> = <<a, b, c, d>>
    <2> DEFINE head == <<a, b>>
               tail == <<c, d>>
               all == head \o tail
    <2>1. /\ head \in Seq(Byte) /\ Len(head) = 2 /\ tail \in Seq(Byte) /\ Len(tail) = 2
          /\ head[1] = a /\ head[2] = b /\ tail[1] = c /\ tail[2] = d
      BY <1>1
    <2> HIDE DEF head, tail
    <2>2. Joins(Byte, all, head, tail)
      BY <2>1, Joined
    <2> HIDE DEF all
    <2>3. /\ all \in Seq(Byte) /\ Len(all) = 4
          /\ \A i \in 1..2 : all[i] = head[i] /\ all[2 + i] = tail[i]
      BY <2>1, <2>2 DEF Joins
    <2>4. 2 + 1 = 3 /\ 2 + 2 = 4 /\ 1 \in 1..2 /\ 2 \in 1..2
      BY SMT
    <2>5. all[1] = a /\ all[2] = b /\ all[3] = c /\ all[4] = d
      BY <2>1, <2>3, <2>4
    <2>6. all = <<a, b, c, d>>
      BY <2>3, <2>5, FourElements
    <2> QED BY <2>6 DEF all, head, tail
  <1> QED BY <1>5, <1>6 DEF a, b, c, d

(* A date and a clock without seconds, or with them, are all bytes of their *)
(* EDT.                                                                     *)
LEMMA DateTimeStays ==
    ASSUME NEW size \in {6, 7}, NEW edt \in Seq(Byte), Len(edt) = size
    PROVE  SubSeq(<<edt[1], edt[2], edt[3], edt[4]>> \o <<edt[5], edt[6], At(edt, 7)>>, 1, size) = edt
  <1> DEFINE head == <<edt[1], edt[2], edt[3], edt[4]>>
             tail == <<edt[5], edt[6], At(edt, 7)>>
             seven == head \o tail
  <1>1. /\ edt[1] \in Byte /\ edt[2] \in Byte /\ edt[3] \in Byte /\ edt[4] \in Byte
        /\ edt[5] \in Byte /\ edt[6] \in Byte /\ At(edt, 7) \in Byte
        /\ size = 7 => At(edt, 7) = edt[7]
    <2>1. /\ 1 \in 1..size /\ 2 \in 1..size /\ 3 \in 1..size /\ 4 \in 1..size
          /\ 5 \in 1..size /\ 6 \in 1..size /\ Len(edt) = size
      BY SMT
    <2>2. \A i \in 1..size : edt[i] \in Byte
      BY <2>1
    <2>3. At(edt, 7) \in Byte /\ (size = 7 => At(edt, 7) = edt[7])
      <3>1. 7 \in Nat \ {0} /\ (size = 7 => 7 <= Len(edt))
        BY <2>1, SMT
      <3> QED BY <3>1, AtIsByte
    <2> QED BY <2>1, <2>2, <2>3
  <1>2. /\ head \in Seq(Byte) /\ Len(head) = 4 /\ tail \in Seq(Byte) /\ Len(tail) = 3
        /\ head[1] = edt[1] /\ head[2] = edt[2] /\ head[3] = edt[3] /\ head[4] = edt[4]
        /\ tail[1] = edt[5] /\ tail[2] = edt[6] /\ tail[3] = At(edt, 7)
    BY <1>1
  <1> HIDE DEF head, tail
  <1>3. Joins(Byte, seven, head, tail)
    BY <1>2, Joined
  <1> HIDE DEF seven
  <1>4. /\ seven \in Seq(Byte) /\ Len(seven) = 7
        /\ \A i \in 1..4 : seven[i] = head[i] /\ \A k \in 1..3 : seven[4 + k] = tail[k]
    BY <1>2, <1>3 DEF Joins
  <1>5. /\ 4 + 1 = 5 /\ 4 + 2 = 6 /\ 4 + 3 = 7 /\ 1 \in 1..4 /\ 2 \in 1..4 /\ 3 \in 1..4
        /\ 4 \in 1..4 /\ 1 \in 1..3 /\ 2 \in 1..3 /\ 3 \in 1..3
    BY SMT
  <1>6. /\ seven[1] = edt[1] /\ seven[2] = edt[2] /\ seven[3] = edt[3] /\ seven[4] = edt[4]
        /\ seven[5] = edt[5] /\ seven[6] = edt[6] /\ (size = 7 => seven[7] = edt[7])
    <2>1. seven[4 + 1] = tail[1] /\ seven[4 + 2] = tail[2] /\ seven[4 + 3] = tail[3]
      BY <1>4, <1>5
    <2>2. seven[5] = tail[1] /\ seven[6] = tail[2] /\ seven[7] = tail[3]
      BY <1>5, <2>1
    <2> QED BY <1>1, <1>2, <1>4, <1>5, <2>2
  <1>7. \A i \in 1..size : \/ i = 1 \/ i = 2 \/ i = 3 \/ i = 4 \/ i = 5 \/ i = 6
                           \/ (i = 7 /\ size = 7)
    BY SMT
  <1>8. \A i \in 1..size : seven[i] = edt[i]
    BY <1>6, <1>7
  <1>9. /\ SubSeq(seven, 1, size) \in Seq(Byte) /\ Len(SubSeq(seven, 1, size)) = size
        /\ \A i \in 1..size : SubSeq(seven, 1, size)[i] = seven[i]
    <2>1. size \in 0..Len(seven)
      BY <1>4
    <2> QED BY <1>4, <2>1, FirstElements
  <1>10. SubSeq(seven, 1, size) = edt
    BY <1>8, <1>9
  <1> QED BY <1>10 DEF seven, head, tail

(* A duration and its hours, minutes and seconds. *)
Seconds(h, m, s) == 3600 * h + 60 * m + s
HoursIn(n) == n \div 3600
MinutesIn(n) == (n % 3600) \div 60

(* The hours, minutes and seconds that a duration was made of can be taken  *)
(* off it.                                                                  *)
LEMMA PartsOfDuration ==
    ASSUME NEW h \in Nat, NEW m \in 0..59, NEW s \in 0..59
    PROVE  /\ Seconds(h, m, s) \in Nat /\ HoursIn(Seconds(h, m, s)) = h
           /\ MinutesIn(Seconds(h, m, s)) = m /\ Seconds(h, m, s) % 60 = s
  <1> DEFINE n == 3600 * h + 60 * m + s
             r == 60 * m + s
  <1>1. n \in Nat /\ r \in Nat /\ n = h * 3600 + r /\ r < 3600 /\ h \in Int /\ n \in Int
    BY SMT
  <1>2. r = m * 60 + s /\ m \in Int /\ s \in Nat /\ s < 60 /\ r \in Int
    BY SMT
  <1>3. n = (60 * h + m) * 60 + s /\ 60 * h + m \in Int
    BY SMT
  <1>4. 3600 \in Nat \ {0} /\ 60 \in Nat \ {0}
    BY SMT
  <1> HIDE DEF n, r
  <1>5. n \div 3600 = h /\ n % 3600 = r
    BY <1>1, <1>4, Quotient
  <1>6. r \div 60 = m
    BY <1>2, <1>4, Quotient
  <1>7. n % 60 = s
    BY <1>1, <1>2, <1>3, <1>4, Quotient
  <1>8. n \in Nat /\ n \div 3600 = h /\ (n % 3600) \div 60 = m /\ n % 60 = s
    BY <1>1, <1>5, <1>6, <1>7
  <1> QED BY <1>8 DEF n, Seconds, HoursIn, MinutesIn

(* The parts of a decoded EDT of each kind. *)
LEMMA DatesAreKnown ==
    ASSUME NEW y, NEW m, NEW d
    PROVE  KindOf(Date(y, m, d)) = "date" /\ "key" \notin DOMAIN Date(y, m, d)
  BY DEF KindOf, Date

(* A time is not taken for anything else.                                   *)
LEMMA ClocksAreKnown ==
    ASSUME NEW h, NEW m, NEW s, NEW exact
    PROVE  KindOf(Clock(h, m, s, exact)) = "clock" /\ "key" \notin DOMAIN Clock(h, m, s, exact)
  BY DEF KindOf, Clock

(* A date with a time is not taken for anything else.                       *)
LEMMA DateTimesAreKnown ==
    ASSUME NEW date, NEW clock
    PROVE  /\ KindOf(DateTime(date, clock)) = "datetime"
           /\ "key" \notin DOMAIN DateTime(date, clock)
  BY DEF KindOf, DateTime

(* A duration is not taken for anything else.                               *)
LEMMA DurationsAreKnown ==
    ASSUME NEW n, NEW exact
    PROVE  KindOf(Duration(n, exact)) = "duration" /\ "key" \notin DOMAIN Duration(n, exact)
  BY DEF KindOf, Duration

Told(temporal, value, edt) ==
    "key" \notin DOMAIN value /\ EncodeTemporal(temporal, value) = edt

HoursOf(temporal, edt) ==
    IF edt[1] > temporal.maximum_hour \/ edt[2] > 59 \/ At(edt, 3) > 59 THEN None
    ELSE IF temporal.kind = "clock" THEN Clock(edt[1], edt[2], At(edt, 3), TRUE)
    ELSE Duration(Seconds(edt[1], edt[2], At(edt, 3)), TRUE)

(* Clocks and durations are decoded from the same three bytes.              *)
LEMMA HoursDecode ==
    ASSUME NEW temporal, temporal.kind \in {"clock", "duration"},
           NEW edt, Len(edt) = temporal.size
    PROVE  DecodeTemporal(temporal, edt) = HoursOf(temporal, edt)
  <1>1. /\ ~(Len(edt) # temporal.size)
        /\ temporal.kind # "date" /\ temporal.kind # "datetime"
    OBVIOUS
  <1> QED BY <1>1 DEF DecodeTemporal, HoursOf, At, Seconds

(* A date, a time or a duration that is decoded is encoded to its EDT.      *)
LEMMA TemporalStays ==
    ASSUME NEW temporal \in TemporalShape,
           TemporalDefinition(temporal.kind, temporal.size, temporal.maximum_hour) # None,
           NEW edt \in Seq(Byte), Len(edt) = temporal.size, DecodeTemporal(temporal, edt) # None
    PROVE  Told(temporal, DecodeTemporal(temporal, edt), edt)
  <1> DEFINE kind == temporal.kind
             size == temporal.size
             h == edt[1]
             m == edt[2]
             s == At(edt, 3)
             date == Date(YearOf(edt), edt[3], edt[4])
             clock == Clock(edt[5], edt[6], At(edt, 7), TRUE)
             value == DecodeTemporal(temporal, edt)
  <1>1. /\ kind = "date" => size = 4
        /\ Hours(temporal) => size \in {2, 3}
        /\ kind = "datetime" => size \in {6, 7}
        /\ kind \in {"date", "datetime"} \/ Hours(temporal)
    BY SizesOfTemporal
  <1>2. CASE kind = "date"
    <2>1. value = date
      <3>1. value = IF IsDate(YearOf(edt), edt[3], edt[4]) THEN date ELSE None
        BY <1>2, Zenon DEF DecodeTemporal, YearOf
      <3> HIDE DEF value, date
      <3> QED BY <3>1 DEF value
    <2>2. EncodeTemporal(temporal, date) = EncodeDate(date)
      <3>1. KindOf(date) = "date"
        BY DatesAreKnown
      <3> HIDE DEF date
      <3> QED BY <1>2, <3>1 DEF EncodeTemporal
    <2>3. EncodeDate(date) = edt
      <3>1. Len(edt) = 4 /\ Len(edt) >= 4
        BY <1>1, <1>2
      <3> QED BY <3>1, DateStays, FourElements
    <2>4. "key" \notin DOMAIN date
      BY DatesAreKnown
    <2> HIDE DEF value, date
    <2> QED BY <2>1, <2>2, <2>3, <2>4 DEF Told, value
  <1>3. CASE kind = "datetime"
    <2>1. value = DateTime(date, clock)
      <3> DEFINE ok == IsDate(YearOf(edt), edt[3], edt[4]) /\ IsTime(edt[5], edt[6], At(edt, 7))
      <3>1. "datetime" # "date"
        OBVIOUS
      <3>2. value = IF ok THEN DateTime(date, clock) ELSE None
        BY <1>3, <3>1, Zenon DEF DecodeTemporal, YearOf, At
      <3> HIDE DEF value, date, clock, ok
      <3> QED BY <3>2 DEF value
    <2>2. size \in {6, 7} /\ Len(edt) = size
      BY <1>1, <1>3
    <2>3. ~(size = 6 /\ At(edt, 7) # 0)
      BY <2>2 DEF At
    <2>4. EncodeDate(date) = <<edt[1], edt[2], edt[3], edt[4]>>
      <3>1. Len(edt) >= 4
        BY <2>2
      <3> QED BY <3>1, DateStays
    <2>5. EncodeTemporal(temporal, DateTime(date, clock))
            = SubSeq(EncodeDate(date) \o <<edt[5], edt[6], At(edt, 7)>>, 1, size)
      <3> DEFINE both == DateTime(date, clock)
                 a == edt[5]
                 b == edt[6]
                 c == At(edt, 7)
      <3>1. KindOf(both) = "datetime" /\ "datetime" # "date"
        <4> HIDE DEF date, clock
        <4> QED BY DateTimesAreKnown
      <3>2. both.date = date /\ both.clock = clock /\ clock.exact = TRUE
            /\ clock.hour = a /\ clock.minute = b /\ clock.second = c
        BY DEF DateTime, Clock
      <3>3. ~(size = 6 /\ c # 0)
        BY <2>3
      <3> HIDE DEF both, clock, date, a, b, c, size
      <3> QED BY <1>3, <3>1, <3>2, <3>3 DEF EncodeTemporal, size, a, b, c, both
    <2>6. SubSeq(<<edt[1], edt[2], edt[3], edt[4]>> \o <<edt[5], edt[6], At(edt, 7)>>, 1, size) = edt
      <3> HIDE DEF size
      <3> QED BY <2>2, DateTimeStays
    <2>7. "key" \notin DOMAIN DateTime(date, clock)
      <3> HIDE DEF date, clock
      <3> QED BY DateTimesAreKnown
    <2> HIDE DEF value, date, clock, size
    <2> QED BY <2>1, <2>4, <2>5, <2>6, <2>7 DEF Told, value
  <1>4. CASE Hours(temporal)
    <2>1. size \in {2, 3} /\ kind # "date" /\ kind # "datetime" /\ kind \in {"clock", "duration"}
      BY <1>1, <1>4 DEF Hours
    <2>2. value = IF h > temporal.maximum_hour \/ m > 59 \/ s > 59 THEN None
                  ELSE IF kind = "clock" THEN Clock(h, m, s, TRUE)
                  ELSE Duration(Seconds(h, m, s), TRUE)
      <3>1. value = HoursOf(temporal, edt)
        BY <2>1, HoursDecode
      <3> HIDE DEF value
      <3> QED BY <3>1, Zenon DEF HoursOf
    <2>3. ~(h > temporal.maximum_hour) /\ ~(m > 59) /\ ~(s > 59)
      <3> HIDE DEF h, m, s, value
      <3> QED BY <2>2 DEF value
    <2>4. h \in Byte /\ m \in Byte /\ s \in Byte
      <3>1. 1 \in 1..Len(edt) /\ 2 \in 1..Len(edt) /\ 3 \in Nat \ {0}
        BY <2>1
      <3>2. s \in Byte
        BY <3>1, AtIsByte
      <3> QED BY <3>1, <3>2
    <2>5. h \in Nat /\ m \in 0..59 /\ s \in 0..59 /\ h <= temporal.maximum_hour
      <3>1. temporal.maximum_hour \in Int
        <4>1. temporal.maximum_hour \in 0..255
          BY DEF TemporalShape
        <4> QED BY <4>1
      <3>2. h \in Nat /\ m \in Nat /\ s \in Nat
        BY <2>4, ByteIsInt
      <3> HIDE DEF h, m, s
      <3> QED BY <2>3, <3>1, <3>2
    <2>6. EncodeHours(temporal, h, m, s) = edt
      BY <2>1, <2>5, HoursStay
    <2> HIDE DEF h, m, s, value
    <2>7. CASE kind = "clock"
      <3> DEFINE v == Clock(h, m, s, TRUE)
      <3>1. value = v
        BY <2>2, <2>3, <2>7
      <3>2. KindOf(v) = "clock" /\ "key" \notin DOMAIN v
        BY ClocksAreKnown
      <3>3. v.hour = h /\ v.minute = m /\ v.second = s /\ v.exact = TRUE
        BY DEF Clock
      <3> HIDE DEF v
      <3>4. EncodeTemporal(temporal, v) = EncodeHours(temporal, h, m, s)
        BY <2>7, <3>2, <3>3 DEF EncodeTemporal
      <3> QED BY <2>6, <3>1, <3>2, <3>4 DEF Told, value
    <2>8. CASE kind = "duration"
      <3> DEFINE n == Seconds(h, m, s)
                 v == Duration(n, TRUE)
      <3>1. value = v
        <4>1. kind # "clock"
          BY <2>8
        <4> QED BY <2>2, <2>3, <4>1
      <3>2. KindOf(v) = "duration" /\ "key" \notin DOMAIN v
        BY DurationsAreKnown
      <3>3. v.duration = n /\ v.exact = TRUE
        BY DEF Duration
      <3>4. n \in Nat /\ HoursIn(n) = h /\ MinutesIn(n) = m /\ n % 60 = s
        BY <2>5, PartsOfDuration
      <3> HIDE DEF n, v
      <3>5. EncodeTemporal(temporal, v)
              = EncodeHours(temporal, HoursIn(n), MinutesIn(n), n % 60)
        <4>1. ~(n < 0)
          BY <3>4
        <4> QED BY <2>8, <3>2, <3>3, <4>1 DEF EncodeTemporal, HoursIn, MinutesIn
      <3> QED BY <2>6, <3>1, <3>2, <3>4, <3>5 DEF Told, value
    <2> QED BY <2>1, <2>7, <2>8
  <1> QED BY <1>1, <1>2, <1>3, <1>4

-----------------------------------------------------------------------------
(* A date or a time that is encoded is the one its bytes are decoded to.    *)

(* The bytes of hours, minutes and seconds are those numbers.               *)
LEMMA HoursTold ==
    ASSUME NEW temporal \in TemporalShape, temporal.size \in {2, 3},
           NEW h \in Nat, NEW m \in Byte, NEW s \in Byte,
           EncodeHours(temporal, h, m, s) # None
    PROVE  LET edt == EncodeHours(temporal, h, m, s) IN
           /\ edt \in Seq(Byte) /\ Len(edt) = temporal.size /\ ~(h > temporal.maximum_hour)
           /\ edt[1] = h /\ edt[2] = m /\ At(edt, 3) = s
  <1> DEFINE edt == EncodeHours(temporal, h, m, s)
             three == <<h, m, s>>
             size == temporal.size
  <1>1. /\ ~(h > temporal.maximum_hour) /\ ~(size = 2 /\ s # 0)
        /\ edt = SubSeq(three, 1, size)
    <2> HIDE DEF size
    <2> QED BY Zenon DEF EncodeHours, size
  <1>2. h \in Byte
    <2>1. temporal.maximum_hour \in 0..255
      BY DEF TemporalShape
    <2>2. temporal.maximum_hour \in Int /\ temporal.maximum_hour <= 255
      BY <2>1
    <2> QED BY <1>1, <2>2 DEF Byte
  <1>3. /\ three \in Seq(Byte) /\ Len(three) = 3
        /\ three[1] = h /\ three[2] = m /\ three[3] = s
    BY <1>2
  <1>4. size \in 0..3 /\ size \in {2, 3} /\ 1 \in 1..size /\ 2 \in 1..size
    OBVIOUS
  <1> HIDE DEF three, edt, size
  <1>5. edt \in Seq(Byte) /\ Len(edt) = size /\ \A i \in 1..size : edt[i] = three[i]
    BY <1>1, <1>3, <1>4, FirstElements
  <1>6. edt[1] = h /\ edt[2] = m
    BY <1>3, <1>4, <1>5
  <1>7. At(edt, 3) = s
    <2>1. CASE size = 3
      <3>1. 3 \in 1..size /\ 3 <= Len(edt)
        BY <1>5, <2>1
      <3> QED BY <1>3, <1>5, <3>1 DEF At
    <2>2. CASE size = 2
      <3>1. ~(3 <= Len(edt)) /\ s = 0
        BY <1>1, <1>5, <2>2
      <3> QED BY <3>1 DEF At
    <2> QED BY <1>4, <2>1, <2>2
  <1> QED BY <1>1, <1>5, <1>6, <1>7 DEF edt, size

(* The parts of a date fit their bytes.                                     *)
LEMMA DatesFit ==
    ASSUME NEW date \in DateValues
    PROVE  /\ date.year \in Word /\ date.month \in Byte /\ date.day \in Byte
           /\ date = Date(date.year, date.month, date.day)
           /\ IsDate(date.year, date.month, date.day)
  <1>1. /\ date.year \in Int /\ date.month \in Int /\ date.day \in Int
        /\ date = [year |-> date.year, month |-> date.month, day |-> date.day]
        /\ IsDate(date.year, date.month, date.day)
    BY DEF DateValues
  <1>2. /\ date.year \in 1..9999 /\ date.month \in 1..12
        /\ date.day \in 1..DaysIn(date.year, date.month)
    BY <1>1, SMT DEF IsDate
  <1>3. DaysIn(date.year, date.month) \in {28, 29, 30, 31}
    BY Zenon DEF DaysIn
  <1> DEFINE y == date.year
             m == date.month
             d == date.day
             last == DaysIn(y, m)
  <1>4. d \in Byte
    <2> HIDE DEF d, last
    <2>1. last \in Int /\ last <= 31
      BY <1>3 DEF last
    <2>2. d \in 1..last
      BY <1>2 DEF d, last
    <2> QED BY <2>1, <2>2 DEF Byte
  <1>5. m \in Byte
    <2> HIDE DEF m
    <2>1. m \in 1..12
      BY <1>2 DEF m
    <2> QED BY <2>1, SMT DEF Byte
  <1>6. y \in Word
    <2> HIDE DEF y
    <2>1. y \in 1..9999
      BY <1>2 DEF y
    <2> QED BY <2>1, SMT DEF Word
  <1> QED BY <1>1, <1>4, <1>5, <1>6 DEF Date

(* The bytes of a date are its parts.                                       *)
LEMMA DateTold ==
    ASSUME NEW date \in DateValues
    PROVE  LET edt == EncodeDate(date) IN
           /\ edt \in Seq(Byte) /\ Len(edt) = 4 /\ YearOf(edt) = date.year
           /\ edt[3] = date.month /\ edt[4] = date.day
  <1> DEFINE n == date.year
             c == date.month
             d == date.day
             a == n \div 256
             b == n % 256
             head == <<a, b>>
             tail == <<c, d>>
             edt == head \o tail
  <1>1. n \in Word /\ c \in Byte /\ d \in Byte
    BY DatesFit
  <1> HIDE DEF n, c, d
  <1>2. n \in Int
    BY <1>1, SMT DEF Word
  <1>3. /\ a \in Byte /\ b \in Byte /\ ToBytes(n, 2) = head /\ n = 256 * a + b
    BY <1>1, <1>2, InTwoBytes
  <1>4. EncodeDate(date) = edt
    BY <1>3 DEF EncodeDate, n, c, d
  <1> HIDE DEF a, b
  <1>5. /\ head \in Seq(Byte) /\ Len(head) = 2 /\ tail \in Seq(Byte) /\ Len(tail) = 2
        /\ head[1] = a /\ head[2] = b /\ tail[1] = c /\ tail[2] = d
    BY <1>1, <1>3
  <1>6. FromBytes(head) = n
    BY <1>3, TwoBytes
  <1> HIDE DEF head, tail
  <1>7. Joins(Byte, edt, head, tail)
    BY <1>5, Joined
  <1> HIDE DEF edt
  <1>8. /\ edt \in Seq(Byte) /\ Len(edt) = 4
        /\ \A i \in 1..2 : edt[i] = head[i] /\ edt[2 + i] = tail[i]
    BY <1>5, <1>7 DEF Joins
  <1>9. 2 + 1 = 3 /\ 2 + 2 = 4 /\ 1 \in 1..2 /\ 2 \in 1..2
    BY SMT
  <1>10. edt[3] = c /\ edt[4] = d
    BY <1>5, <1>8, <1>9
  <1>11. SubSeq(edt, 1, 2) = head
    <2> DEFINE two == SubSeq(edt, 1, 2)
    <2>1. 2 \in 0..Len(edt)
      BY <1>8
    <2>2. two \in Seq(Byte) /\ Len(two) = 2 /\ \A j \in 1..2 : two[j] = edt[j]
      BY <1>8, <2>1, FirstElements
    <2> HIDE DEF two
    <2>3. \A j \in 1..2 : two[j] = head[j]
      BY <1>8, <2>2
    <2>4. two = head
      BY <1>5, <2>2, <2>3
    <2> QED BY <2>4 DEF two
  <1>12. YearOf(edt) = n
    BY <1>6, <1>11 DEF YearOf
  <1> QED BY <1>4, <1>8, <1>10, <1>12 DEF n, c, d, edt

(* The parts of a time fit their bytes.                                     *)
LEMMA ClocksFit ==
    ASSUME NEW clock \in ClockValues
    PROVE  /\ clock.hour \in Byte /\ clock.minute \in Byte /\ clock.second \in Byte
           /\ clock.hour \in Nat /\ clock.minute \in 0..59 /\ clock.second \in 0..59
           /\ clock.exact \in BOOLEAN
           /\ clock = Clock(clock.hour, clock.minute, clock.second, clock.exact)
           /\ IsTime(clock.hour, clock.minute, clock.second)
  <1>1. /\ clock.exact \in BOOLEAN /\ IsTime(clock.hour, clock.minute, clock.second)
        /\ clock = [hour |-> clock.hour, minute |-> clock.minute, second |-> clock.second,
                    exact |-> clock.exact]
    BY DEF ClockValues
  <1>2. clock.hour \in 0..23 /\ clock.minute \in 0..59 /\ clock.second \in 0..59
    BY <1>1, Zenon DEF IsTime
  <1> DEFINE h == clock.hour
             m == clock.minute
             s == clock.second
  <1>3. h \in 0..23 /\ m \in 0..59 /\ s \in 0..59
    BY <1>2
  <1> HIDE DEF h, m, s
  <1>4. h \in Byte /\ m \in Byte /\ s \in Byte /\ h \in Nat
    BY <1>3 DEF Byte
  <1> QED BY <1>1, <1>2, <1>4 DEF Clock, h, m, s

(* The values of each kind. *)
LEMMA ValuesOfKinds ==
    ASSUME NEW value \in TemporalValues
    PROVE  /\ KindOf(value) = "date" => value \in DateValues
           /\ KindOf(value) = "clock" => value \in ClockValues
           /\ KindOf(value) = "datetime" => value \in DateTimeValues
           /\ KindOf(value) = "duration" => value \in DurationValues
           /\ "key" \in DOMAIN value => value = [key |-> value.key] /\ value.key \in STRING
  <1>1. CASE value \in StateValues
    <2>1. value = [key |-> value.key] /\ value.key \in STRING
      BY <1>1 DEF StateValues
    <2>2. \A k : KindOf([key |-> k]) = "other"
      BY DEF KindOf
    <2>3. KindOf(value) = "other"
      BY <2>1, <2>2
    <2> QED BY <2>1, <2>3
  <1>2. CASE value \in DateValues
    <2>1. value = Date(value.year, value.month, value.day)
      BY <1>2, DatesFit
    <2>2. KindOf(value) = "date" /\ "key" \notin DOMAIN value
      BY <2>1, DatesAreKnown
    <2> QED BY <1>2, <2>2
  <1>3. CASE value \in ClockValues
    <2>1. value = Clock(value.hour, value.minute, value.second, value.exact)
      BY <1>3, ClocksFit
    <2>2. KindOf(value) = "clock" /\ "key" \notin DOMAIN value
      BY <2>1, ClocksAreKnown
    <2> QED BY <1>3, <2>2
  <1>4. CASE value \in DateTimeValues
    <2>1. value = DateTime(value.date, value.clock)
      BY <1>4 DEF DateTimeValues, DateTime
    <2>2. KindOf(value) = "datetime" /\ "key" \notin DOMAIN value
      BY <2>1, DateTimesAreKnown
    <2> QED BY <1>4, <2>2
  <1>5. CASE value \in DurationValues
    <2>1. value = Duration(value.duration, value.exact)
      BY <1>5 DEF DurationValues, Duration
    <2>2. KindOf(value) = "duration" /\ "key" \notin DOMAIN value
      BY <2>1, DurationsAreKnown
    <2> QED BY <1>5, <2>2
  <1> QED BY <1>1, <1>2, <1>3, <1>4, <1>5, Zenon DEF TemporalValues

(* edt is of the length of the definition, and is decoded to value. *)
Tells(temporal, edt, value) ==
    /\ edt \in Seq(Byte) /\ Len(edt) = temporal.size /\ DecodeTemporal(temporal, edt) = value

(* A date is decoded to itself.                                             *)
LEMMA DateTells ==
    ASSUME NEW temporal \in TemporalShape, temporal.kind = "date", temporal.size = 4,
           NEW value \in DateValues
    PROVE  Tells(temporal, EncodeDate(value), value)
  <1> DEFINE edt == EncodeDate(value)
  <1>1. /\ edt \in Seq(Byte) /\ Len(edt) = 4 /\ YearOf(edt) = value.year
        /\ edt[3] = value.month /\ edt[4] = value.day
    BY DateTold
  <1>2. /\ value = Date(value.year, value.month, value.day)
        /\ IsDate(value.year, value.month, value.day)
    BY DatesFit
  <1> HIDE DEF edt
  <1>3. DecodeTemporal(temporal, edt)
          = IF IsDate(YearOf(edt), edt[3], edt[4]) THEN Date(YearOf(edt), edt[3], edt[4]) ELSE None
    BY <1>1, Zenon DEF DecodeTemporal, YearOf
  <1>4. DecodeTemporal(temporal, edt) = value
    BY <1>1, <1>2, <1>3, Zenon
  <1> QED BY <1>1, <1>4 DEF Tells, edt

(* A time is decoded to itself, if no seconds are left out.                 *)
LEMMA ClockTells ==
    ASSUME NEW temporal \in TemporalShape, temporal.kind = "clock", temporal.size \in {2, 3},
           NEW value \in ClockValues, value.exact,
           EncodeHours(temporal, value.hour, value.minute, value.second) # None
    PROVE  Tells(temporal, EncodeHours(temporal, value.hour, value.minute, value.second), value)
  <1> DEFINE h == value.hour
             m == value.minute
             s == value.second
             edt == EncodeHours(temporal, h, m, s)
             size == temporal.size
  <1>1. /\ h \in Nat /\ m \in Byte /\ s \in Byte /\ m \in 0..59 /\ s \in 0..59
        /\ value = Clock(h, m, s, value.exact) /\ value.exact = TRUE
    BY ClocksFit
  <1>2. edt # None
    OBVIOUS
  <1> HIDE DEF h, m, s
  <1>3. /\ edt \in Seq(Byte) /\ Len(edt) = size /\ ~(h > temporal.maximum_hour)
        /\ edt[1] = h /\ edt[2] = m /\ At(edt, 3) = s
    BY <1>1, <1>2, HoursTold
  <1>4. ~(m > 59) /\ ~(s > 59)
    BY <1>1
  <1> HIDE DEF edt
  <1>5. DecodeTemporal(temporal, edt) = Clock(edt[1], edt[2], At(edt, 3), TRUE)
    <2>1. ~(At(edt, 3) > 59) /\ ~(edt[2] > 59) /\ ~(edt[1] > temporal.maximum_hour)
      BY <1>3, <1>4
    <2> HIDE DEF size
    <2>2. DecodeTemporal(temporal, edt) = HoursOf(temporal, edt)
      BY <1>3, HoursDecode DEF size
    <2> QED BY <2>1, <2>2, Zenon DEF HoursOf
  <1>6. DecodeTemporal(temporal, edt) = value
    BY <1>1, <1>3, <1>5
  <1> QED BY <1>3, <1>6 DEF Tells, edt, h, m, s

(* A duration is decoded to itself, if its hours are within the maximum.    *)
LEMMA DurationTells ==
    ASSUME NEW temporal \in TemporalShape, temporal.kind = "duration", temporal.size \in {2, 3},
           NEW value \in DurationValues, value.exact, value.duration >= 0,
           EncodeHours(temporal, HoursIn(value.duration), MinutesIn(value.duration),
                       value.duration % 60) # None
    PROVE  Tells(temporal, EncodeHours(temporal, HoursIn(value.duration),
                                       MinutesIn(value.duration), value.duration % 60), value)
  <1> DEFINE n == value.duration
             h == HoursIn(n)
             m == MinutesIn(n)
             s == n % 60
             edt == EncodeHours(temporal, h, m, s)
             size == temporal.size
  <1>1. n \in Nat /\ value.exact = TRUE /\ value = Duration(n, TRUE)
    BY DEF DurationValues, Duration
  <1>2. edt # None
    OBVIOUS
  <1> HIDE DEF n
  <1>3. h \in Nat /\ m \in 0..59 /\ s \in 0..59 /\ n = Seconds(h, m, s)
    <2> DEFINE r == n % 3600
    <2>1. h \in Nat /\ r \in 0..3599 /\ n = 3600 * h + r
      BY <1>1, SMT DEF HoursIn
    <2>2. m = r \div 60
      BY DEF MinutesIn
    <2> HIDE DEF h, m, r
    <2>3. m \in 0..59 /\ r = 60 * m + (r % 60) /\ r % 60 \in 0..59
      BY <2>1, <2>2, SMT
    <2> DEFINE q == r % 60
    <2>4. /\ 60 * h + m \in Nat
      BY <2>1, <2>3
    <2> HIDE DEF q
    <2>5. m \in 0..59 /\ r = 60 * m + q /\ q \in 0..59
      BY <2>3 DEF q
    <2> DEFINE p == 60 * h + m
    <2>6. p \in Int /\ n = p * 60 + q /\ q \in Nat /\ q < 60 /\ 60 \in Nat \ {0} /\ n \in Int
      BY <1>1, <2>1, <2>5, SMT
    <2> HIDE DEF p
    <2>7. n % 60 = q
      BY <2>6, Quotient
    <2>8. n = Seconds(h, m, q)
      BY <2>1, <2>5 DEF Seconds
    <2>9. s = q
      BY <2>7
    <2> HIDE DEF s
    <2> QED BY <2>1, <2>5, <2>8, <2>9
  <1>4. m \in Byte /\ s \in Byte
    <2> HIDE DEF m, s
    <2> QED BY <1>3 DEF Byte
  <1> HIDE DEF h, m, s
  <1>5. /\ edt \in Seq(Byte) /\ Len(edt) = size /\ ~(h > temporal.maximum_hour)
        /\ edt[1] = h /\ edt[2] = m /\ At(edt, 3) = s
    BY <1>2, <1>3, <1>4, HoursTold
  <1>6. ~(m > 59) /\ ~(s > 59)
    BY <1>3
  <1> HIDE DEF edt
  <1>7. DecodeTemporal(temporal, edt) = Duration(Seconds(edt[1], edt[2], At(edt, 3)), TRUE)
    <2>1. ~(At(edt, 3) > 59) /\ ~(edt[2] > 59) /\ ~(edt[1] > temporal.maximum_hour)
      BY <1>5, <1>6
    <2> HIDE DEF size
    <2>2. DecodeTemporal(temporal, edt) = HoursOf(temporal, edt)
      BY <1>5, HoursDecode DEF size
    <2>3. temporal.kind # "clock"
      OBVIOUS
    <2> QED BY <2>1, <2>2, <2>3, Zenon DEF HoursOf
  <1>8. DecodeTemporal(temporal, edt) = value
    BY <1>1, <1>3, <1>5, <1>7
  <1> QED BY <1>5, <1>8 DEF Tells, edt, h, m, s, n

(* A date with a time is decoded to itself, if no seconds are left out.     *)
LEMMA DateTimeTells ==
    ASSUME NEW temporal \in TemporalShape, temporal.kind = "datetime", temporal.size \in {6, 7},
           NEW value \in DateTimeValues, value.clock.exact,
           ~(temporal.size = 6 /\ value.clock.second # 0)
    PROVE  Tells(temporal,
                 SubSeq(EncodeDate(value.date)
                        \o <<value.clock.hour, value.clock.minute, value.clock.second>>,
                        1, temporal.size),
                 value)
  <1> DEFINE size == temporal.size
             date == value.date
             clock == value.clock
             h == clock.hour
             m == clock.minute
             s == clock.second
             head == EncodeDate(date)
             tail == <<h, m, s>>
             seven == head \o tail
             edt == SubSeq(seven, 1, size)
  <1>1. date \in DateValues /\ clock \in ClockValues /\ value = DateTime(date, clock)
    BY DEF DateTimeValues, DateTime
  <1> HIDE DEF date, clock
  <1>2. /\ h \in Byte /\ m \in Byte /\ s \in Byte /\ clock = Clock(h, m, s, TRUE)
        /\ IsTime(h, m, s)
    <2>1. clock.exact = TRUE
      BY <1>1, ClocksFit DEF clock
    <2> QED BY <1>1, <2>1, ClocksFit
  <1>3. /\ date = Date(date.year, date.month, date.day)
        /\ IsDate(date.year, date.month, date.day)
    BY <1>1, DatesFit
  <1>4. /\ head \in Seq(Byte) /\ Len(head) = 4 /\ YearOf(head) = date.year
        /\ head[3] = date.month /\ head[4] = date.day
    BY <1>1, DateTold
  <1>5. size \in {6, 7} /\ ~(size = 6 /\ s # 0)
    BY DEF clock
  <1> HIDE DEF h, m, s, head, size
  <1>6. /\ tail \in Seq(Byte) /\ Len(tail) = 3 /\ tail[1] = h /\ tail[2] = m /\ tail[3] = s
    BY <1>2
  <1> HIDE DEF tail
  <1>7. Joins(Byte, seven, head, tail)
    BY <1>4, <1>6, Joined
  <1> HIDE DEF seven
  <1>8. /\ seven \in Seq(Byte) /\ Len(seven) = 7
        /\ \A i \in 1..4 : seven[i] = head[i] /\ \A k \in 1..3 : seven[4 + k] = tail[k]
    BY <1>4, <1>6, <1>7 DEF Joins
  <1>9. edt \in Seq(Byte) /\ Len(edt) = size /\ \A i \in 1..size : edt[i] = seven[i]
    <2>1. size \in 0..Len(seven)
      BY <1>5, <1>8
    <2>2. seven \in Seq(Byte)
      BY <1>8
    <2> QED BY <2>1, <2>2, FirstElements
  <1> HIDE DEF edt
  <1>10. /\ 1 \in 1..size /\ 2 \in 1..size /\ 3 \in 1..size /\ 4 \in 1..size
         /\ 5 \in 1..size /\ 6 \in 1..size /\ (size = 7 => 7 \in 1..size)
         /\ 4 + 1 = 5 /\ 4 + 2 = 6 /\ 4 + 3 = 7 /\ 1 \in 1..3 /\ 2 \in 1..3 /\ 3 \in 1..3
         /\ 1 \in 1..4 /\ 2 \in 1..4 /\ 3 \in 1..4 /\ 4 \in 1..4
    BY <1>5, SMT
  <1>11. seven[5] = h /\ seven[6] = m /\ seven[7] = s
    <2>1. seven[4 + 1] = tail[1] /\ seven[4 + 2] = tail[2] /\ seven[4 + 3] = tail[3]
      BY <1>8, <1>10
    <2> QED BY <1>6, <1>10, <2>1
  <1>12. edt[3] = date.month /\ edt[4] = date.day /\ edt[5] = h /\ edt[6] = m
    BY <1>4, <1>8, <1>9, <1>10, <1>11
  <1>13. At(edt, 7) = s
    <2>1. CASE size = 7
      <3>1. 7 <= Len(edt)
        BY <1>9, <2>1
      <3> QED BY <1>9, <1>10, <1>11, <2>1, <3>1 DEF At
    <2>2. CASE size = 6
      <3>1. ~(7 <= Len(edt)) /\ s = 0
        BY <1>5, <1>9, <2>2
      <3> QED BY <3>1 DEF At
    <2> QED BY <1>5, <2>1, <2>2
  <1>14. YearOf(edt) = date.year
    <2> DEFINE two == SubSeq(edt, 1, 2)
               first == SubSeq(head, 1, 2)
    <2>1. 2 \in 0..Len(edt) /\ 2 \in 0..Len(head)
      BY <1>4, <1>5, <1>9
    <2>2. two \in Seq(Byte) /\ Len(two) = 2 /\ \A j \in 1..2 : two[j] = edt[j]
      BY <1>9, <2>1, FirstElements
    <2>3. first \in Seq(Byte) /\ Len(first) = 2 /\ \A j \in 1..2 : first[j] = head[j]
      BY <1>4, <2>1, FirstElements
    <2>4. \A j \in 1..2 : edt[j] = head[j]
      <3>1. \A j \in 1..2 : j \in 1..4 /\ (j = 1 \/ j = 2)
        BY SMT
      <3> QED BY <1>8, <1>9, <1>10, <3>1
    <2> HIDE DEF two, first
    <2>5. two = first
      BY <2>2, <2>3, <2>4
    <2>6. FromBytes(two) = FromBytes(first)
      BY <2>5
    <2> QED BY <1>4, <2>6 DEF YearOf, two, first
  <1>15. DecodeTemporal(temporal, edt) = value
    <2> DEFINE ok == IsDate(YearOf(edt), edt[3], edt[4]) /\ IsTime(edt[5], edt[6], At(edt, 7))
               both == DateTime(Date(YearOf(edt), edt[3], edt[4]),
                                Clock(edt[5], edt[6], At(edt, 7), TRUE))
    <2>1. "datetime" # "date" /\ ~(Len(edt) # temporal.size)
      BY <1>9 DEF size
    <2>2. DecodeTemporal(temporal, edt) = IF ok THEN both ELSE None
      BY <2>1, Zenon DEF DecodeTemporal, YearOf, At
    <2>3. ok
      BY <1>2, <1>3, <1>12, <1>13, <1>14, Zenon
    <2>4. both = value
      BY <1>1, <1>2, <1>3, <1>12, <1>13, <1>14, Zenon
    <2> HIDE DEF ok, both
    <2> QED BY <2>2, <2>3, <2>4
  <1>16. Tells(temporal, edt, value)
    BY <1>9, <1>15 DEF Tells, size
  <1> QED BY <1>16 DEF edt, seven, head, tail, h, m, s, date, clock, size

(* What EncodeTemporal takes, of any kind, is decoded to itself.            *)
LEMMA TemporalTells ==
    ASSUME NEW temporal \in TemporalShape,
           TemporalDefinition(temporal.kind, temporal.size, temporal.maximum_hour) # None,
           NEW value \in TemporalValues, EncodeTemporal(temporal, value) # None
    PROVE  Tells(temporal, EncodeTemporal(temporal, value), value)
  <1> DEFINE kind == temporal.kind
             size == temporal.size
             edt == EncodeTemporal(temporal, value)
  <1>1. /\ kind = "date" => size = 4
        /\ Hours(temporal) => size \in {2, 3}
        /\ kind = "datetime" => size \in {6, 7}
        /\ kind \in {"date", "datetime"} \/ Hours(temporal)
    BY SizesOfTemporal
  <1>2. KindOf(value) = kind /\ edt # None
    BY Zenon DEF EncodeTemporal
  <1>3. CASE kind = "date"
    <2>1. value \in DateValues
      BY <1>2, <1>3, ValuesOfKinds
    <2>2. edt = EncodeDate(value)
      BY <1>2, <1>3 DEF EncodeTemporal
    <2> QED BY <1>1, <1>3, <2>1, <2>2, DateTells
  <1>4. CASE kind = "datetime"
    <2>1. value \in DateTimeValues
      BY <1>2, <1>4, ValuesOfKinds
    <2> DEFINE bytes == SubSeq(EncodeDate(value.date) \o <<value.clock.hour, value.clock.minute,
                                                           value.clock.second>>, 1, size)
               bad == ~value.clock.exact \/ (size = 6 /\ value.clock.second # 0)
    <2>2. edt = IF bad THEN None ELSE bytes
      BY <1>2, <1>4 DEF EncodeTemporal
    <2>3. ~bad /\ edt = bytes
      <3> HIDE DEF bad, bytes, edt
      <3> QED BY <1>2, <2>2
    <2>4. value.clock.exact /\ ~(size = 6 /\ value.clock.second # 0)
      BY <2>3, Zenon
    <2>5. size \in {6, 7}
      BY <1>1, <1>4
    <2>6. Tells(temporal, bytes, value)
      BY <1>4, <2>1, <2>4, <2>5, DateTimeTells
    <2> HIDE DEF bytes, edt
    <2> QED BY <2>3, <2>6 DEF edt
  <1>5. CASE kind = "clock"
    <2>1. value \in ClockValues
      BY <1>2, <1>5, ValuesOfKinds
    <2> DEFINE bytes == EncodeHours(temporal, value.hour, value.minute, value.second)
    <2>2. edt = IF ~value.exact THEN None ELSE bytes
      BY <1>2, <1>5 DEF EncodeTemporal
    <2>3. value.exact /\ edt = bytes /\ bytes # None
      <3> HIDE DEF bytes, edt
      <3> QED BY <1>2, <2>2
    <2>4. size \in {2, 3}
      BY <1>1, <1>5 DEF Hours
    <2>5. Tells(temporal, bytes, value)
      BY <1>5, <2>1, <2>3, <2>4, ClockTells
    <2> HIDE DEF bytes, edt
    <2> QED BY <2>3, <2>5 DEF edt
  <1>6. CASE kind = "duration"
    <2>1. value \in DurationValues
      BY <1>2, <1>6, ValuesOfKinds
    <2> DEFINE n == value.duration
               bytes == EncodeHours(temporal, HoursIn(n), MinutesIn(n), n % 60)
    <2>2. edt = IF n < 0 \/ ~value.exact THEN None ELSE bytes
      BY <1>2, <1>6 DEF EncodeTemporal, HoursIn, MinutesIn
    <2>3. ~(n < 0) /\ value.exact /\ edt = bytes /\ bytes # None
      <3> HIDE DEF bytes, edt, n
      <3> QED BY <1>2, <2>2
    <2>4. size \in {2, 3}
      BY <1>1, <1>6 DEF Hours
    <2>5. n >= 0
      <3>1. n \in Int
        BY <2>1 DEF DurationValues
      <3> QED BY <2>3, <3>1
    <2>6. Tells(temporal, bytes, value)
      BY <1>6, <2>1, <2>3, <2>4, <2>5, DurationTells
    <2> HIDE DEF bytes, edt
    <2> QED BY <2>3, <2>6 DEF edt
  <1>7. Hours(temporal) => kind \in {"clock", "duration"}
    BY DEF Hours
  <1> QED BY <1>1, <1>3, <1>4, <1>5, <1>6, <1>7

-----------------------------------------------------------------------------
(* The states of a temporal property come before its dates and times.       *)

StatesOf(codec, edt) ==
    {i \in DOMAIN codec.enum_values : edt = ToBytes(codec.enum_values[i].edt, codec.temporal.size)}

(* The definition of a temporal property that is regular.                   *)
LEMMA RegularShape ==
    ASSUME NEW temporal, NEW states, RegularTemporal(temporal, states)
    PROVE  /\ temporal \in TemporalShape
           /\ TemporalDefinition(temporal.kind, temporal.size, temporal.maximum_hour) # None
  BY Zenon DEF RegularTemporal, TemporalShape

(* No state is the EDT of a date or a time, so each is encoded to its own   *)
(* EDT.                                                                     *)
LEMMA TemporalOrStateStays ==
    ASSUME NEW codec, RegularStates(codec.enum_values),
           RegularTemporal(codec.temporal, codec.enum_values),
           NEW edt \in Seq(Byte), Len(edt) = codec.temporal.size,
           DecodeTemporalOrState(codec, edt) # None
    PROVE  EncodeTemporalOrState(codec, DecodeTemporalOrState(codec, edt)) = edt
  <1> DEFINE states == codec.enum_values
             temporal == codec.temporal
             hits == StatesOf(codec, edt)
             value == DecodeTemporalOrState(codec, edt)
  <1>1. value = IF hits # {} THEN [key |-> states[Min(hits)].key] ELSE DecodeTemporal(temporal, edt)
    BY Zenon DEF DecodeTemporalOrState, StatesOf
  <1>2. CASE hits # {}
    <2> DEFINE i == Min(hits)
    <2>1. i \in DOMAIN states /\ edt = ToBytes(states[i].edt, temporal.size)
      <3>1. hits \subseteq Nat
        BY DEF StatesOf, RegularStates
      <3>2. i \in hits
        <4> HIDE DEF hits
        <4> QED BY <1>2, <3>1, FirstOf
      <3> QED BY <3>2 DEF StatesOf
    <2> HIDE DEF i
    <2>2. WithKey(states, states[i].key) = {i} /\ i \in Int
      BY <2>1, OneState
    <2>3. Min({i}) = i
      BY <2>2, OnlyOf
    <2> DEFINE v == [key |-> states[i].key]
    <2>4. "key" \in DOMAIN v /\ v.key = states[i].key
      OBVIOUS
    <2>5. value = v
      BY <1>1, <1>2 DEF i
    <2> HIDE DEF v
    <2>6. EncodeTemporalOrState(codec, v) = ToBytes(states[i].edt, temporal.size)
      BY <2>2, <2>3, <2>4 DEF EncodeTemporalOrState
    <2> QED BY <2>1, <2>5, <2>6
  <1>3. CASE hits = {}
    <2>1. value = DecodeTemporal(temporal, edt) /\ value # None
      BY <1>1, <1>3
    <2>2. /\ temporal \in TemporalShape
          /\ TemporalDefinition(temporal.kind, temporal.size, temporal.maximum_hour) # None
      BY RegularShape
    <2> HIDE DEF value, hits, temporal
    <2>3. Len(edt) = temporal.size
      BY DEF temporal
    <2>4. Told(temporal, value, edt)
      BY <2>1, <2>2, <2>3, TemporalStays
    <2>5. EncodeTemporalOrState(codec, value) = EncodeTemporal(temporal, value)
      BY <2>4, Zenon DEF Told, EncodeTemporalOrState, temporal
    <2> QED BY <2>4, <2>5 DEF Told, value
  <1> QED BY <1>2, <1>3

(* No date and no time has the EDT of a state, so each is decoded to        *)
(* itself.                                                                  *)
LEMMA TemporalOrStateTells ==
    ASSUME NEW codec, RegularStates(codec.enum_values),
           RegularTemporal(codec.temporal, codec.enum_values),
           NEW value \in TemporalValues, EncodeTemporalOrState(codec, value) # None
    PROVE  DecodeTemporalOrState(codec, EncodeTemporalOrState(codec, value)) = value
  <1> DEFINE states == codec.enum_values
             temporal == codec.temporal
             edt == EncodeTemporalOrState(codec, value)
             hits == StatesOf(codec, edt)
  <1>1. /\ temporal \in TemporalShape
        /\ TemporalDefinition(temporal.kind, temporal.size, temporal.maximum_hour) # None
    BY RegularShape
  <1>2. /\ Len(edt) = temporal.size /\ hits # {} =>
             DecodeTemporalOrState(codec, edt) = [key |-> states[Min(hits)].key]
        /\ hits = {} => DecodeTemporalOrState(codec, edt) = DecodeTemporal(temporal, edt)
    <2> HIDE DEF edt
    <2> QED BY Zenon DEF DecodeTemporalOrState, StatesOf
  <1>3. \A i \in hits : DecodeTemporal(temporal, edt) = None /\ hits = {i}
    <2>1. \A i \in DOMAIN states :
             ToBytes(states[i].edt, temporal.size) # None =>
                 /\ DecodeTemporal(temporal, ToBytes(states[i].edt, temporal.size)) = None
                 /\ \A j \in DOMAIN states \ {i} :
                       ToBytes(states[j].edt, temporal.size) # ToBytes(states[i].edt, temporal.size)
      BY Zenon DEF RegularTemporal
    <2>2. \A i \in hits : i \in DOMAIN states /\ edt = ToBytes(states[i].edt, temporal.size)
      BY Zenon DEF StatesOf
    <2>3. edt # None
      OBVIOUS
    <2> HIDE DEF edt, states, temporal, hits
    <2> TAKE i \in hits
    <2>4. DecodeTemporal(temporal, edt) = None
      BY <2>1, <2>2, <2>3
    <2>5. \A j \in hits : j = i
      BY <2>1, <2>2, <2>3
    <2> QED BY <2>4, <2>5
  <1>4. CASE "key" \in DOMAIN value
    <2> DEFINE own == WithKey(states, value.key)
               i == Min(own)
    <2>1. value = [key |-> value.key] /\ value.key \in STRING
      BY <1>4, ValuesOfKinds
    <2>2. edt = IF own = {} THEN None ELSE ToBytes(states[i].edt, temporal.size)
      BY <1>4, Zenon DEF EncodeTemporalOrState
    <2>3. own # {} /\ edt = ToBytes(states[i].edt, temporal.size)
      BY <2>2
    <2>4. i \in DOMAIN states /\ states[i].key = value.key
      <3>1. own \subseteq Nat
        BY DEF WithKey, RegularStates
      <3>2. i \in own
        <4> HIDE DEF own
        <4> QED BY <2>3, <3>1, FirstOf
      <3> QED BY <3>2 DEF WithKey
    <2> HIDE DEF i, own
    <2>5. i \in hits
      BY <2>3, <2>4 DEF StatesOf
    <2>6. hits = {i} /\ i \in Int /\ Min({i}) = i
      <3>1. i \in Int
        BY <2>4, OneState
      <3> QED BY <1>3, <2>5, <3>1, OnlyOf
    <2>7. Len(edt) = temporal.size
      <3>1. edt # None
        OBVIOUS
      <3>2. temporal.size \in Nat
        BY <1>1, SizesOfTemporal
      <3> DEFINE n == states[i].edt
                 size == temporal.size
                 F(k) == (n \div 256 ^ (size - k)) % 256
      <3>3. edt = [k \in 1..size |-> F(k)]
        BY <2>3, <3>1, Zenon DEF ToBytes
      <3> HIDE DEF F, edt, size
      <3>4. size \in Nat
        BY <3>2 DEF size
      <3>5. Len([k \in 1..size |-> F(k)]) = size
        BY <3>4
      <3> QED BY <3>3, <3>5 DEF size
    <2> HIDE DEF edt, hits
    <2>8. DecodeTemporalOrState(codec, edt) = [key |-> states[i].key]
      BY <1>2, <2>5, <2>6, <2>7
    <2>9. DecodeTemporalOrState(codec, edt) = value
      BY <2>1, <2>4, <2>8
    <2> QED BY <2>9 DEF edt
  <1>5. CASE "key" \notin DOMAIN value
    <2>1. edt = EncodeTemporal(temporal, value) /\ edt # None
      BY <1>5, Zenon DEF EncodeTemporalOrState
    <2>2. Tells(temporal, edt, value)
      <3> HIDE DEF temporal, edt
      <3> QED BY <1>1, <2>1, TemporalTells
    <2>3. DecodeTemporal(temporal, edt) = value /\ value # None
      BY <2>2, ValuesAssumption DEF Tells
    <2> HIDE DEF edt, hits, temporal
    <2>4. hits = {}
      BY <1>3, <2>3
    <2>5. DecodeTemporalOrState(codec, edt) = value
      BY <1>2, <2>3, <2>4
    <2> QED BY <2>5 DEF edt
  <1> QED BY <1>4, <1>5

-----------------------------------------------------------------------------
(* What is encoded is decoded to the value it was made from.                *)

(* The installation location: the name and the number fit one byte.         *)
LEMMA LocationTells ==
    ASSUME NEW value \in LocationValues, EncodeLocation(value) # None
    PROVE  DecodeLocation(EncodeLocation(value)) = value
  <1> DEFINE code == value.code
             instance == value.instance
             b == 8 * (code % 16) + (instance % 8)
             edt == EncodeLocation(value)
  <1>1. code \in Locations /\ instance \in 0..7 /\ edt = <<b>>
    BY DEF EncodeLocation
  <1>2. value = InstallationLocation(code, instance)
    BY DEF LocationValues, InstallationLocation
  <1> HIDE DEF code, instance
  <1>3. code % 16 = code /\ instance % 8 = instance /\ code \in 1..15
    BY <1>1, SMT DEF Locations
  <1>4. b = code * 8 + instance /\ b \in Int /\ 8 <= b /\ b <= 127
    BY <1>1, <1>3, SMT
  <1>5. b \div 8 = code /\ b % 8 = instance
    <2>1. code \in Int /\ instance \in Nat /\ instance < 8 /\ 8 \in Nat \ {0}
      BY <1>1, <1>3
    <2> HIDE DEF b
    <2> QED BY <1>4, <2>1, Quotient
  <1> HIDE DEF b, edt
  <1>6. Len(edt) = 1 /\ edt[1] = b
    BY <1>1
  <1>7. ~(b \in {0, 1, 255} \/ b >= 128)
    BY <1>4, SMT
  <1>8. DecodeLocation(edt) = InstallationLocation(code, instance)
    BY <1>1, <1>5, <1>6, <1>7 DEF DecodeLocation
  <1> QED BY <1>2, <1>8 DEF edt

(* A bool.                                                                  *)
LEMMA BinaryTells ==
    ASSUME NEW codec, codec.byte_offset = 0, codec.on_edt # codec.off_edt, NEW value \in BinaryValues
    PROVE  DecodeBinary(codec, EncodeBinary(codec, value)) = value
  <1> DEFINE b == IF value.on THEN codec.on_edt ELSE codec.off_edt
  <1>1. value = [on |-> value.on] /\ value.on \in BOOLEAN
    BY DEF BinaryValues
  <1>2. EncodeBinary(codec, value) = <<b>>
    BY DEF EncodeBinary
  <1>3. b \in {codec.on_edt, codec.off_edt} /\ (b = codec.on_edt) = value.on
    BY <1>1
  <1> HIDE DEF b
  <1>4. ByteAt(<<b>>, 0) = b
    BY ByteIsRead
  <1>5. DecodeBinary(codec, <<b>>) = [on |-> b = codec.on_edt]
    BY <1>3, <1>4 DEF DecodeBinary
  <1> QED BY <1>1, <1>2, <1>3, <1>5

(* A state that the definition names.                                       *)
LEMMA EnumTells ==
    ASSUME NEW codec, codec.byte_offset = 0, RegularStates(codec.enum_values),
           NEW value \in StateValues, EncodeEnum(codec, value) # None
    PROVE  DecodeEnum(codec, EncodeEnum(codec, value)) = value
  <1> DEFINE states == codec.enum_values
             edt == EncodeEnum(codec, value)
  <1>1. value = [key |-> value.key] /\ value.key \in STRING
    BY DEF StateValues
  <1>2. /\ WithKey(states, value.key) # {}
        /\ edt = ToBytes(states[Max(WithKey(states, value.key))].edt, 1)
    BY Zenon DEF EncodeEnum
  <1>3. PICK i \in DOMAIN states : states[i].key = value.key
    BY <1>2 DEF WithKey
  <1>4. /\ WithKey(states, states[i].key) = {i} /\ WithEdt(states, states[i].edt) = {i}
        /\ i \in Int /\ states[i].edt \in Nat
    BY <1>3, OneState
  <1>5. Max({i}) = i
    BY <1>4, OnlyOf
  <1> DEFINE b == states[i].edt
  <1>6. edt = ToBytes(b, 1) /\ edt # None
    BY <1>2, <1>3, <1>4, <1>5
  <1>7. edt = <<b>>
    <2>1. b \in Int
      BY <1>4
    <2> HIDE DEF b, edt
    <2> QED BY <1>6, <2>1, InOneByte
  <1>8. ByteAt(<<b>>, 0) = b
    BY ByteIsRead
  <1>9. WithEdt(states, b) = {i}
    BY <1>4
  <1>10. DecodeEnum(codec, <<b>>) = [key |-> states[i].key]
    <2> HIDE DEF b
    <2> QED BY <1>5, <1>8, <1>9 DEF DecodeEnum
  <1> QED BY <1>1, <1>3, <1>7, <1>10

(* A number that a table names.                                             *)
LEMMA NumericValueTells ==
    ASSUME NEW codec, codec.byte_offset = 0, RegularNumbers(codec.numeric_values),
           NEW value, EncodeNumericValue(codec, value) # None
    PROVE  /\ DecodeNumericValue(codec, EncodeNumericValue(codec, value)) \in Numbers
           /\ SameNumber(DecodeNumericValue(codec, EncodeNumericValue(codec, value)), value)
  <1> DEFINE numbers == codec.numeric_values
             same == {j \in DOMAIN numbers : SameNumber(numbers[j].value, value)}
             i == Min(same)
             b == numbers[i].edt
             edt == EncodeNumericValue(codec, value)
  <1>1. same # {} /\ edt = <<b>>
    BY Zenon DEF EncodeNumericValue
  <1>2. i \in DOMAIN numbers /\ SameNumber(numbers[i].value, value)
    <2>1. same \subseteq Nat
      BY DEF RegularNumbers
    <2>2. i \in same
      <3> HIDE DEF same
      <3> QED BY <1>1, <2>1, FirstOf
    <2> QED BY <2>2
  <1> HIDE DEF i, same
  <1>3. WithEdt(numbers, b) = {i} /\ i \in Int /\ numbers[i].value \in Numbers
    BY <1>2, OneNumber
  <1>4. Max({i}) = i
    BY <1>3, OnlyOf
  <1> HIDE DEF b, edt
  <1>5. ByteAt(<<b>>, 0) = b
    BY ByteIsRead
  <1>6. DecodeNumericValue(codec, <<b>>) = numbers[i].value
    BY <1>3, <1>4, <1>5 DEF DecodeNumericValue
  <1> QED BY <1>1, <1>2, <1>3, <1>6 DEF edt

(* The raw number is kept, signed or not.                                   *)
LEMMA RawIsKept ==
    ASSUME NEW codec, LawfulNumeric(codec), NEW raw \in Int, BytesOfRaw(codec, raw) # None
    PROVE  /\ BytesOfRaw(codec, raw) \in Seq(Byte)
           /\ Len(BytesOfRaw(codec, raw)) = Formats[codec.format].size
           /\ RawOf(codec, BytesOfRaw(codec, raw)) = raw
  <1> DEFINE size == Formats[codec.format].size
             signed == Formats[codec.format].signed
             edt == BytesOfRaw(codec, raw)
  <1>1. size \in Sizes
    BY SizesOfFormats DEF LawfulNumeric
  <1>2. CASE signed
    <2>1. edt = ToSigned(raw, size) /\ RawOf(codec, edt) = FromSigned(edt)
      BY <1>2 DEF RawOf, BytesOfRaw
    <2> HIDE DEF size
    <2> QED BY <1>1, <2>1, SignedToBytes DEF size
  <1>3. CASE ~signed
    <2>1. edt = ToBytes(raw, size) /\ RawOf(codec, edt) = FromBytes(edt)
      BY <1>3 DEF RawOf, BytesOfRaw
    <2> HIDE DEF size
    <2> QED BY <1>1, <2>1, NumberToBytes DEF size
  <1> QED BY <1>2, <1>3

(* a / b is at most half a step of n / d from c / e. *)
LEMMA HalfStep ==
    ASSUME NEW x \in Int, NEW n \in Nat \ {0}, NEW d \in Nat \ {0}, NEW e \in Nat \ {0},
           2 * x <= e * n, 2 * (-x) <= e * n
    PROVE  2 * AbsOf(x) * d <= n * d * e
  <1> DEFINE a == AbsOf(x)
             p == e * n
  <1>1. p \in Nat /\ n * d * e = p * d
    BY SMT
  <1>2. 2 * x <= p /\ 2 * (-x) <= p
    OBVIOUS
  <1>3. a \in Nat
    BY DEF AbsOf
  <1> HIDE DEF p
  <1>4. 2 * a <= p
    BY <1>1, <1>2, SMT DEF AbsOf
  <1> HIDE DEF a
  <1> DEFINE c == 2 * a
  <1>5. c \in Nat /\ c <= p
    BY <1>3, <1>4
  <1> HIDE DEF c
  <1>6. c * d <= p * d
    BY <1>1, <1>5, SMT
  <1> QED BY <1>1, <1>6 DEF a, c

(* A number is decoded to one that is at most half a step away from it.     *)
LEMMA NumericTells ==
    ASSUME NEW codec, LawfulNumeric(codec), NEW value \in Numbers, EncodeNumeric(codec, value) # None
    PROVE  LET v == DecodeNumeric(codec, EncodeNumeric(codec, value), <<>>) IN
           /\ v \in Numbers
           /\ 2 * AbsOf(v.num * value.den - value.num * v.den) * codec.scale.den
                <= codec.scale.num * v.den * value.den
  <1> DEFINE sn == codec.scale.num
             sd == codec.scale.den
             vn == value.num
             vd == value.den
             n == vn * sd
             d == vd * sn
             raw == Rounded(Number(n, d))
             edt == EncodeNumeric(codec, value)
             v == Scaled(codec, raw)
             x == v.num * vd - vn * v.den
  <1>1. sn \in Nat \ {0} /\ sd \in Nat \ {0} /\ vn \in Int /\ vd \in Nat \ {0}
    BY DEF LawfulNumeric, Numbers
  <1>2. edt = IF ~InRange(codec, raw) THEN None ELSE BytesOfRaw(codec, raw)
    BY NumericEncode
  <1>3. InRange(codec, raw) /\ edt = BytesOfRaw(codec, raw) /\ edt # None
    <2> HIDE DEF raw
    <2> QED BY <1>2
  <1>4. v.num = raw * sn /\ v.den = 1 * sd /\ v = [num |-> raw * sn, den |-> 1 * sd]
    BY DEF Scaled, Times, Number
  <1> HIDE DEF sn, sd, vn, vd, v, edt
  <1>5. n \in Int /\ d \in Nat \ {0}
    BY <1>1, SMT
  <1> HIDE DEF n, d
  <1>6. raw \in Int /\ 2 * (raw * d - n) <= d /\ 2 * (n - raw * d) <= d
    BY <1>5, RoundedIsNear
  <1> HIDE DEF raw
  <1>7. /\ edt \in Seq(Byte) /\ Len(edt) = Formats[codec.format].size
        /\ RawOf(codec, edt) = raw
    BY <1>3, <1>6, RawIsKept
  <1>8. DecodeNumeric(codec, edt, <<>>) = v
    BY <1>3, <1>7, NumericDecode DEF v
  <1>9. v \in Numbers
    <2>1. raw * sn \in Int /\ 1 * sd \in Nat \ {0}
      BY <1>1, <1>6, SMT
    <2> QED BY <1>4, <2>1 DEF Numbers
  <1>10. x = raw * d - n /\ x \in Int
    <2>1. (raw * sn) * vd = raw * (vd * sn) /\ vn * (1 * sd) = vn * sd
      BY <1>1, <1>6, SMT
    <2>2. x = raw * d - n
      BY <1>4, <2>1 DEF d, n
    <2>3. raw * d - n \in Int
      BY <1>5, <1>6
    <2> QED BY <2>2, <2>3
  <1>11. 2 * x <= vd * sn /\ 2 * (-x) <= vd * sn
    <2> DEFINE y == raw * d
    <2>1. y \in Int /\ x = y - n /\ 2 * (y - n) <= d /\ 2 * (n - y) <= d
      BY <1>5, <1>6, <1>10
    <2> HIDE DEF y, x
    <2>2. 2 * x <= d /\ 2 * (-x) <= d
      BY <1>5, <2>1
    <2> QED BY <2>2 DEF d
  <1> HIDE DEF x
  <1>12. 2 * AbsOf(x) * sd <= sn * sd * vd
    BY <1>1, <1>10, <1>11, HalfStep
  <1>13. sn * sd * vd = sn * v.den * vd
    BY <1>1, <1>4, SMT
  <1>14. 2 * AbsOf(v.num * vd - vn * v.den) * sd <= sn * v.den * vd
    BY <1>12, <1>13 DEF x
  <1> QED BY <1>8, <1>9, <1>14, Zenon DEF edt, sn, sd, vn, vd

-----------------------------------------------------------------------------
(* Every codec, both ways.                                                  *)

(* A codec of each kind decodes and encodes with the functions of its kind. *)
LEMMA KindsDecode ==
    ASSUME NEW codec, NEW edt
    PROVE  /\ codec.kind = "temporal" => DecodeWith(codec, edt, <<>>) = DecodeTemporalOrState(codec, edt)
           /\ codec.kind = "numericValue" => DecodeWith(codec, edt, <<>>) = DecodeNumericValue(codec, edt)
           /\ codec.kind = "binary" => DecodeWith(codec, edt, <<>>) = DecodeBinary(codec, edt)
           /\ codec.kind = "enum" => DecodeWith(codec, edt, <<>>) = DecodeEnum(codec, edt)
           /\ codec.kind = "numeric" => DecodeWith(codec, edt, <<>>) = DecodeNumeric(codec, edt, <<>>)
           /\ codec.kind = "location" => DecodeWith(codec, edt, <<>>) = DecodeLocation(edt)
  BY SMT DEF DecodeWith

(* encode is that of the kind.                                              *)
LEMMA KindsEncode ==
    ASSUME NEW codec, NEW value
    PROVE  /\ codec.kind = "temporal" => Encode(codec, value) = EncodeTemporalOrState(codec, value)
           /\ codec.kind = "numericValue" => Encode(codec, value) = EncodeNumericValue(codec, value)
           /\ codec.kind = "binary" => Encode(codec, value) = EncodeBinary(codec, value)
           /\ codec.kind = "enum" => Encode(codec, value) = EncodeEnum(codec, value)
           /\ codec.kind = "numeric" => Encode(codec, value) = EncodeNumeric(codec, value)
           /\ codec.kind = "location" => Encode(codec, value) = EncodeLocation(value)
  BY SMT DEF Encode

(* The EDT of each kind has its own width.                                  *)
LEMMA KindsWidth ==
    ASSUME NEW codec
    PROVE  /\ codec.kind = "temporal" => WidthOf(codec) = codec.temporal.size
           /\ codec.kind = "numeric" => WidthOf(codec) = Formats[codec.format].size
           /\ codec.kind \in {"numericValue", "binary", "enum", "location"} => WidthOf(codec) = 1
  BY SMT DEF WidthOf

(* The values of each kind.                                                 *)
LEMMA KindsValues ==
    ASSUME NEW codec
    PROVE  /\ codec.kind = "temporal" => ValuesFor(codec) = TemporalValues
           /\ codec.kind = "enum" => ValuesFor(codec) = StateValues
           /\ codec.kind = "binary" => ValuesFor(codec) = BinaryValues
           /\ codec.kind = "location" => ValuesFor(codec) = LocationValues
           /\ codec.kind \in {"numericValue", "numeric"} => ValuesFor(codec) = Numbers
  BY SMT DEF ValuesFor

(* Only numbers are rounded.                                                *)
LEMMA KindsNearest ==
    ASSUME NEW codec, NEW value, NEW wanted
    PROVE  /\ codec.kind = "numericValue" =>
                IsNearest(codec, value, wanted) = SameNumber(value, wanted)
           /\ codec.kind \in {"temporal", "binary", "enum", "location"} =>
                IsNearest(codec, value, wanted) = (value = wanted)
  BY SMT DEF IsNearest

(* A number is near if it is at most half a step away.                      *)
LEMMA NearestNumber ==
    ASSUME NEW codec, codec.kind = "numeric", NEW value, NEW wanted,
           2 * AbsOf(value.num * wanted.den - wanted.num * value.den) * codec.scale.den
             <= codec.scale.num * value.den * wanted.den
    PROVE  IsNearest(codec, value, wanted)
  BY Zenon DEF IsNearest

(* An EDT that decode understands is what its value is encoded to: reading  *)
(* a property and writing the value back changes no byte (codecs.py).       *)
THEOREM DecodedStays ==
    ASSUME NEW codec, Lawful(codec), NEW context,
           NEW edt \in Seq(Byte), Len(edt) = WidthOf(codec), Decode(codec, edt, context) # None
    PROVE  Encode(codec, Decode(codec, edt, context)) = edt
  <1> DEFINE value == Decode(codec, edt, context)
  <1>1. value = DecodeWith(codec, edt, <<>>)
    BY UnscaledDecode
  <1>2. value # None
    OBVIOUS
  <1> HIDE DEF value
  <1>3. CASE codec.kind = "location"
    <2>1. Len(edt) = 1
      BY <1>3, KindsWidth
    <2>2. value = DecodeLocation(edt)
      BY <1>1, <1>3, KindsDecode
    <2>3. Encode(codec, value) = EncodeLocation(value)
      BY <1>3, KindsEncode
    <2> QED BY <1>2, <2>1, <2>2, <2>3, LocationStays DEF value
  <1>4. CASE codec.kind = "temporal" /\ RegularStates(codec.enum_values)
                            /\ RegularTemporal(codec.temporal, codec.enum_values)
    <2>1. Len(edt) = codec.temporal.size
      BY <1>4, KindsWidth
    <2>2. value = DecodeTemporalOrState(codec, edt)
      BY <1>1, <1>4, KindsDecode
    <2>3. Encode(codec, value) = EncodeTemporalOrState(codec, value)
      BY <1>4, KindsEncode
    <2> QED BY <1>2, <1>4, <2>1, <2>2, <2>3, TemporalOrStateStays DEF value
  <1>5. CASE codec.kind = "numericValue" /\ RegularNumbers(codec.numeric_values) /\ codec.byte_offset = 0
    <2>1. Len(edt) = 1
      BY <1>5, KindsWidth
    <2>2. value = DecodeNumericValue(codec, edt)
      BY <1>1, <1>5, KindsDecode
    <2>3. Encode(codec, value) = EncodeNumericValue(codec, value)
      BY <1>5, KindsEncode
    <2> QED BY <1>2, <1>5, <2>1, <2>2, <2>3, NumericValueStays DEF value
  <1>6. CASE codec.kind = "binary" /\ codec.on_edt # codec.off_edt /\ codec.byte_offset = 0
    <2>1. Len(edt) = 1
      BY <1>6, KindsWidth
    <2>2. value = DecodeBinary(codec, edt)
      BY <1>1, <1>6, KindsDecode
    <2>3. Encode(codec, value) = EncodeBinary(codec, value)
      BY <1>6, KindsEncode
    <2> QED BY <1>2, <1>6, <2>1, <2>2, <2>3, BinaryStays DEF value
  <1>7. CASE codec.kind = "enum" /\ RegularStates(codec.enum_values) /\ codec.byte_offset = 0
    <2>1. Len(edt) = 1
      BY <1>7, KindsWidth
    <2>2. value = DecodeEnum(codec, edt)
      BY <1>1, <1>7, KindsDecode
    <2>3. Encode(codec, value) = EncodeEnum(codec, value)
      BY <1>7, KindsEncode
    <2> QED BY <1>2, <1>7, <2>1, <2>2, <2>3, EnumStays DEF value
  <1>8. CASE codec.kind = "numeric" /\ LawfulNumeric(codec)
    <2>1. Len(edt) = Formats[codec.format].size
      BY <1>8, KindsWidth
    <2>2. value = DecodeNumeric(codec, edt, <<>>)
      BY <1>1, <1>8, KindsDecode
    <2>3. Encode(codec, value) = EncodeNumeric(codec, value)
      BY <1>8, KindsEncode
    <2> QED BY <1>2, <1>8, <2>1, <2>2, <2>3, NumericStays DEF value
  <1> QED BY <1>3, <1>4, <1>5, <1>6, <1>7, <1>8 DEF Lawful, value

(* A record is not None, and so no value is: what encode is asked for is a  *)
(* value.                                                                   *)
LEMMA ValuesAreThere ==
    ASSUME NEW codec, Lawful(codec)
    PROVE  None \notin ValuesFor(codec)
  BY KindsValues, ValuesAssumption, Zenon DEF Lawful, TemporalValues

(* What encode returns is decoded to the value it was made from, a number   *)
(* to the nearest step (codecs.py).                                         *)
THEOREM EncodedTells ==
    ASSUME NEW codec, Lawful(codec), NEW value \in ValuesFor(codec), Encode(codec, value) # None
    PROVE  /\ Decode(codec, Encode(codec, value), None) # None
           /\ IsNearest(codec, Decode(codec, Encode(codec, value), None), value)
  <1> DEFINE edt == Encode(codec, value)
             told == Decode(codec, edt, None)
  <1>1. told = DecodeWith(codec, edt, <<>>)
    BY UnscaledDecode
  <1>2. edt # None
    OBVIOUS
  <1>3. value # None
    BY ValuesAreThere
  <1> SUFFICES told # None /\ IsNearest(codec, told, value)
    OBVIOUS
  <1> HIDE DEF told, edt
  <1>4. CASE codec.kind \in {"location", "temporal", "binary", "enum"}
    <2>1. told = value
      <3>1. CASE codec.kind = "location"
        <4>1. told = DecodeLocation(edt) /\ value \in LocationValues
          BY <1>1, <3>1, KindsDecode, KindsValues
        <4>2. edt = EncodeLocation(value)
          BY <3>1, KindsEncode DEF edt
        <4> QED BY <1>2, <4>1, <4>2, LocationTells
      <3>2. CASE codec.kind = "temporal"
        <4>1. told = DecodeTemporalOrState(codec, edt) /\ value \in TemporalValues
          BY <1>1, <3>2, KindsDecode, KindsValues
        <4>2. edt = EncodeTemporalOrState(codec, value)
          BY <3>2, KindsEncode DEF edt
        <4>3. RegularStates(codec.enum_values) /\ RegularTemporal(codec.temporal, codec.enum_values)
          BY <3>2 DEF Lawful
        <4> QED BY <1>2, <4>1, <4>2, <4>3, TemporalOrStateTells
      <3>3. CASE codec.kind = "binary"
        <4>1. told = DecodeBinary(codec, edt) /\ value \in BinaryValues
          BY <1>1, <3>3, KindsDecode, KindsValues
        <4>2. edt = EncodeBinary(codec, value)
          BY <3>3, KindsEncode DEF edt
        <4>3. codec.byte_offset = 0 /\ codec.on_edt # codec.off_edt
          BY <3>3 DEF Lawful
        <4> QED BY <1>2, <4>1, <4>2, <4>3, BinaryTells
      <3>4. CASE codec.kind = "enum"
        <4>1. told = DecodeEnum(codec, edt) /\ value \in StateValues
          BY <1>1, <3>4, KindsDecode, KindsValues
        <4>2. edt = EncodeEnum(codec, value)
          BY <3>4, KindsEncode DEF edt
        <4>3. codec.byte_offset = 0 /\ RegularStates(codec.enum_values)
          BY <3>4 DEF Lawful
        <4> QED BY <1>2, <4>1, <4>2, <4>3, EnumTells
      <3> QED BY <1>4, <3>1, <3>2, <3>3, <3>4
    <2> QED BY <1>3, <1>4, <2>1, KindsNearest
  <1>5. CASE codec.kind = "numericValue"
    <2>1. told = DecodeNumericValue(codec, edt)
      BY <1>1, <1>5, KindsDecode
    <2>2. edt = EncodeNumericValue(codec, value)
      BY <1>5, KindsEncode DEF edt
    <2>3. codec.byte_offset = 0 /\ RegularNumbers(codec.numeric_values)
      BY <1>5 DEF Lawful
    <2>4. told \in Numbers /\ SameNumber(told, value)
      BY <1>2, <2>1, <2>2, <2>3, NumericValueTells
    <2>5. told # None
      BY <2>4, ValuesAssumption, Zenon
    <2> QED BY <1>5, <2>4, <2>5, KindsNearest
  <1>6. CASE codec.kind = "numeric"
    <2>1. told = DecodeNumeric(codec, edt, <<>>) /\ value \in Numbers
      BY <1>1, <1>6, KindsDecode, KindsValues
    <2>2. edt = EncodeNumeric(codec, value)
      BY <1>6, KindsEncode DEF edt
    <2>3. LawfulNumeric(codec)
      BY <1>6 DEF Lawful
    <2>4. /\ told \in Numbers
          /\ 2 * AbsOf(told.num * value.den - value.num * told.den) * codec.scale.den
                <= codec.scale.num * told.den * value.den
      BY <1>2, <2>1, <2>2, <2>3, NumericTells
    <2>5. told # None
      BY <2>4, ValuesAssumption, Zenon
    <2>6. IsNearest(codec, told, value)
      BY <1>6, <2>4, NearestNumber, Zenon
    <2> QED BY <2>5, <2>6
  <1> QED BY <1>4, <1>5, <1>6 DEF Lawful

-----------------------------------------------------------------------------
(* What encode returns is decoded to what it was made from.                 *)

EncodesField(field, value, result) ==
    IsToldAgain(CodecOf(field), EdtsOf(field), value, result)

EncodesBack(c) ==
    /\ c.op = "encode" /\ IsWritable(c.arg.field) =>
           EncodesField(c.arg.field, c.arg.value, c.result)
    /\ c.op = "send" /\ c.result # None => DecodeFrame(c.result) = c.arg

(* A field that is written, and a value of its kind.                        *)
LEMMA FieldEncodes ==
    ASSUME NEW field \in Fields, IsWritable(field), NEW value \in ValuesOf(field)
    PROVE  EncodesField(field, value, Encode(CodecOf(field), value))
  <1> DEFINE codec == CodecOf(field)
             result == Encode(codec, value)
  <1>1. Lawful(codec)
    BY CodecIsLawful
  <1>2. /\ value \in ValuesFor(codec) /\ EdtsOf(field) \subseteq Seq(Byte)
    BY ConversionsAssumption
  <1>3. value # None
    BY <1>1, <1>2, ValuesAreThere
  <1> HIDE DEF codec
  <1>4. CASE result = None
    <2>1. SUFFICES ASSUME NEW edt \in EdtsOf(field), Len(edt) = WidthOf(codec),
                          Decode(codec, edt, None) = value
                   PROVE  FALSE
      BY <1>4 DEF EncodesField, IsToldAgain, codec
    <2>2. edt \in Seq(Byte)
      BY <1>2
    <2>3. Encode(codec, value) = edt
      BY <1>1, <1>3, <2>1, <2>2, DecodedStays
    <2> QED BY <1>4, <2>2, <2>3, NoneAssumption
  <1>5. CASE result # None
    <2>1. /\ Decode(codec, result, None) # None
          /\ IsNearest(codec, Decode(codec, result, None), value)
      BY <1>1, <1>2, <1>5, EncodedTells
    <2> QED BY <1>5, <2>1, Zenon DEF EncodesField, IsToldAgain, codec
  <1> QED BY <1>4, <1>5

(* A sequence up to its end is all of it.                                   *)
LEMMA SubSeqWhole ==
    ASSUME NEW s \in Seq(Byte)
    PROVE  SubSeq(s, 1, Len(s)) = s
  OBVIOUS

(* Frame.decode takes back what Frame.encode made.                          *)
LEMMA FrameReturns ==
    ASSUME NEW frame \in Frame, EncodeFrame(frame) # None
    PROVE  DecodeFrame(EncodeFrame(frame)) = frame
  <1> DEFINE data == EncodeFrame(frame)
  <1>1. Fits(frame) /\ data \in Seq(Byte)
    BY EncodedFits
  <1>2. Agree(data, data) /\ Len(data) >= Len(data)
    BY <1>1, SMT DEF Agree
  <1> QED BY <1>1, <1>2, CutOrWhole

(* Every call of encode is undone by decode.                                *)
LEMMA ConvertEncodesBack ==
    ASSUME Convert
    PROVE  EncodesBack(call')
  <1> USE ConversionsAssumption
  <1>1. CASE DecodeField
    <2>1. call'.op = "decode"
      BY <1>1 DEF DecodeField, Call
    <2> QED BY <2>1 DEF EncodesBack
  <1>2. CASE EncodeField
    <2>1. PICK field \in Fields : \E value \in ValuesOf(field) :
             call' = Call("encode", [field |-> field, value |-> value],
                          Encode(CodecOf(field), value))
      BY <1>2, Zenon DEF EncodeField
    <2>2. PICK value \in ValuesOf(field) :
             call' = Call("encode", [field |-> field, value |-> value],
                          Encode(CodecOf(field), value))
      BY <2>1, Zenon
    <2>3. IsWritable(field) => EncodesField(field, value, Encode(CodecOf(field), value))
      BY FieldEncodes
    <2>4. /\ call'.op = "encode" /\ call'.arg.field = field /\ call'.arg.value = value
          /\ call'.result = Encode(CodecOf(field), value)
      BY <2>2 DEF Call
    <2> QED BY <2>3, <2>4 DEF EncodesBack
  <1>3. CASE SendFrame
    <2>1. PICK frame \in SentFrames : call' = Call("send", frame, EncodeFrame(frame))
      BY <1>3 DEF SendFrame
    <2>2. frame \in Frame
      OBVIOUS
    <2>3. EncodeFrame(frame) # None => DecodeFrame(EncodeFrame(frame)) = frame
      BY <2>2, FrameReturns
    <2>4. call'.op = "send" /\ call'.arg = frame /\ call'.result = EncodeFrame(frame)
      BY <2>1 DEF Call
    <2> QED BY <2>3, <2>4 DEF EncodesBack
  <1>4. CASE ReceiveDatagram
    <2>1. call'.op = "receive"
      BY <1>4 DEF ReceiveDatagram, Call
    <2> QED BY <2>1 DEF EncodesBack
  <1>5. CASE ReadMaps
    <2>1. call'.op = "map"
      BY <1>5 DEF ReadMaps, Call
    <2> QED BY <2>1 DEF EncodesBack
  <1>6. CASE SetProperties
    <2>1. call'.op = "set"
      BY <1>6 DEF SetProperties, Call
    <2> QED BY <2>1 DEF EncodesBack
  <1>7. CASE RequestNotifications
    <2>1. call'.op = "notify"
      BY <1>7 DEF RequestNotifications, Call
    <2> QED BY <2>1 DEF EncodesBack
  <1>8. CASE ReadDiscovery
    <2>1. call'.op = "discover"
      BY <1>8 DEF ReadDiscovery, Call
    <2> QED BY <2>1 DEF EncodesBack
  <1> QED BY <1>1, <1>2, <1>3, <1>4, <1>5, <1>6, <1>7, <1>8 DEF Convert

(* What encode returns is decoded to the value it was made from, a number   *)
(* to the nearest step of its scale; encode refuses only what no EDT of the *)
(* field decodes to; a frame that encode takes is decoded to itself         *)
(* (codecs.py, frame.py), for every regular registry and any values, EDTs   *)
(* and frames.                                                              *)
THEOREM EncodingsAreDecoded == ConversionSpec => []EncodedIsDecoded
  <1>1. Init => EncodedIsDecoded
    BY DEF Init, EncodedIsDecoded
  <1>2. ASSUME EncodedIsDecoded, [Convert]_call PROVE EncodedIsDecoded'
    <2>1. CASE Convert
      <3>1. EncodesBack(call')
        BY <2>1, ConvertEncodesBack
      <3> QED BY <3>1, Zenon DEF EncodesBack, EncodesField, EncodedIsDecoded
    <2>2. CASE UNCHANGED call
      BY <1>2, <2>2, Zenon DEF EncodedIsDecoded
    <2> QED BY <1>2, <2>1, <2>2
  <1> QED BY <1>1, <1>2, PTL DEF ConversionSpec

-----------------------------------------------------------------------------
(* What decode understands is the bytes of its value.                       *)

DecodesField(field, edt, result) ==
    result # None /\ IsWritable(field) /\ Len(edt) = WidthOf(CodecOf(field)) =>
        Encode(CodecOf(field), result) = edt

DecodesFrame(frame, data, intact, result) ==
    /\ intact => result = IF Len(data) >= Len(EncodeFrame(frame)) THEN frame ELSE None
    /\ result # None => IsPrefix(EncodeFrame(result), data)

DecodesMap(epcs, length, maps) ==
    /\ maps.get = IF length = Len(MapOf(epcs)) THEN epcs ELSE None
    /\ maps.set = epcs /\ maps.inf = None

DecodesBack(c) ==
    /\ c.op = "decode" => DecodesField(c.arg.field, c.arg.edt, c.result)
    /\ c.op = "receive" => DecodesFrame(c.arg.frame, c.arg.data, c.arg.intact, c.result)
    /\ c.op = "map" => DecodesMap(c.arg.epcs, c.arg.length, c.result.maps)

(* A field that is written, and an EDT of its width.                        *)
LEMMA FieldDecodes ==
    ASSUME NEW field \in Fields, NEW edt \in EdtsOf(field), NEW context
    PROVE  DecodesField(field, edt, Decode(CodecOf(field), edt, context))
  <1> DEFINE codec == CodecOf(field)
  <1> SUFFICES ASSUME Decode(codec, edt, context) # None, IsWritable(field),
                      Len(edt) = WidthOf(codec)
               PROVE  Encode(codec, Decode(codec, edt, context)) = edt
    BY DEF DecodesField
  <1>1. edt \in Seq(Byte)
    BY ConversionsAssumption
  <1>2. Lawful(codec)
    BY CodecIsLawful
  <1> HIDE DEF codec
  <1> QED BY <1>1, <1>2, DecodedStays

(* A datagram made of a frame: cut or longer, and perhaps with a wrong byte. *)
LEMMA DatagramIsBytes ==
    ASSUME NEW whole \in Seq(Byte), NEW length \in 0 .. Len(whole) + 2, NEW position, NEW b \in Byte
    PROVE  LET cut == SubSeq(whole \o <<0, 0>>, 1, length) IN
           /\ cut \in Seq(Byte) /\ Agree(cut, whole)
           /\ [cut EXCEPT ![position] = b] \in Seq(Byte)
  <1> DEFINE long == whole \o <<0, 0>>
             cut == SubSeq(long, 1, length)
  <1>1. 0 \in Byte
    BY DEF Byte
  <1>2. /\ long \in Seq(Byte) /\ Len(long) = Len(whole) + 2
        /\ \A i \in 1..Len(whole) : long[i] = whole[i]
    BY <1>1
  <1> HIDE DEF long
  <1>3. /\ length \in Nat /\ cut \in Seq(Byte) /\ Len(cut) = length
        /\ \A i \in 1..length : cut[i] = long[i]
    BY <1>2
  <1>4. Agree(cut, whole)
    BY <1>2, <1>3 DEF Agree
  <1>5. [cut EXCEPT ![position] = b] \in Seq(Byte)
    <2> HIDE DEF cut
    <2>1. cut \in [1..length -> Byte]
      BY <1>3
    <2>2. [cut EXCEPT ![position] = b] \in [1..length -> Byte]
      BY <2>1
    <2> QED BY <1>3, <2>2
  <1> QED BY <1>3, <1>4, <1>5 DEF long

(* A datagram that is whole, cut, longer or wrong.                          *)
LEMMA DatagramDecodes ==
    ASSUME NEW frame \in Frame, EncodeFrame(frame) # None,
           NEW cut \in Seq(Byte), Agree(cut, EncodeFrame(frame)), NEW data \in Seq(Byte)
    PROVE  DecodesFrame(frame, data, data = cut, DecodeFrame(data))
  <1>1. Fits(frame)
    BY EncodedFits
  <1>2. data = cut =>
           DecodeFrame(data) = IF Len(data) >= Len(EncodeFrame(frame)) THEN frame ELSE None
    BY <1>1, CutOrWhole
  <1>3. DecodeFrame(data) # None => IsPrefix(EncodeFrame(DecodeFrame(data)), data)
    BY DecodedBegins
  <1> QED BY <1>2, <1>3, Zenon DEF DecodesFrame

(* Every call of decode that tells something is undone by encode.           *)
LEMMA ConvertDecodesBack ==
    ASSUME Convert
    PROVE  DecodesBack(call')
  <1> USE ConversionsAssumption
  <1>1. CASE DecodeField
    <2>1. PICK field \in Fields : \E edt \in EdtsOf(field), context \in ContextsOf(field) :
             call' = Call("decode", [field |-> field, edt |-> edt, context |-> context],
                          Decode(CodecOf(field), edt, context))
      BY <1>1, Zenon DEF DecodeField
    <2>2. PICK edt \in EdtsOf(field), context \in ContextsOf(field) :
             call' = Call("decode", [field |-> field, edt |-> edt, context |-> context],
                          Decode(CodecOf(field), edt, context))
      BY <2>1, Zenon
    <2>3. DecodesField(field, edt, Decode(CodecOf(field), edt, context))
      BY FieldDecodes
    <2>4. /\ call'.op = "decode" /\ call'.arg.field = field /\ call'.arg.edt = edt
          /\ call'.result = Decode(CodecOf(field), edt, context)
      BY <2>2 DEF Call
    <2> QED BY <2>3, <2>4 DEF DecodesBack
  <1>2. CASE EncodeField
    <2>1. call'.op = "encode"
      BY <1>2 DEF EncodeField, Call
    <2> QED BY <2>1 DEF DecodesBack
  <1>3. CASE SendFrame
    <2>1. call'.op = "send"
      BY <1>3 DEF SendFrame, Call
    <2> QED BY <2>1 DEF DecodesBack
  <1>4. CASE ReceiveDatagram
    <2> DEFINE Cut(received) ==
                   SubSeq(EncodeFrame(received.frame) \o <<0, 0>>, 1, received.length)
               Data(received) ==
                   IF received.corruption = None THEN Cut(received)
                   ELSE [Cut(received) EXCEPT ![received.corruption.position] = received.corruption.byte]
    <2>1. PICK received \in Received :
             call' = Call("receive",
                          [frame |-> received.frame, data |-> Data(received),
                           intact |-> Data(received) = Cut(received)],
                          DecodeFrame(Data(received)))
      BY <1>4, Zenon DEF ReceiveDatagram
    <2> DEFINE frame == received.frame
               cut == Cut(received)
               data == Data(received)
    <2>2. frame \in Frame /\ EncodeFrame(frame) # None
      OBVIOUS
    <2>3. EncodeFrame(frame) \in Seq(Byte)
      BY <2>2, EncodedFits
    <2>4. received.length \in 0 .. Len(EncodeFrame(frame)) + 2
      OBVIOUS
    <2>5. received.corruption # None => received.corruption.byte \in Byte
      OBVIOUS
    <2>6. cut \in Seq(Byte) /\ Agree(cut, EncodeFrame(frame))
      <3>1. 0 \in Byte
        BY DEF Byte
      <3> QED BY <2>3, <2>4, <3>1, DatagramIsBytes
    <2>7. data \in Seq(Byte)
      <3>1. CASE received.corruption = None
        BY <2>6, <3>1, Zenon
      <3>2. CASE received.corruption # None
        <4>1. [cut EXCEPT ![received.corruption.position] = received.corruption.byte] \in Seq(Byte)
          BY <2>3, <2>4, <2>5, <3>2, DatagramIsBytes
        <4> QED BY <3>2, <4>1, Zenon
      <3> QED BY <3>1, <3>2
    <2>8. /\ call'.op = "receive" /\ call'.arg.frame = frame /\ call'.arg.data = data
          /\ call'.arg.intact = (data = cut) /\ call'.result = DecodeFrame(data)
      <3> HIDE DEF Data, Cut
      <3> QED BY <2>1 DEF Call
    <2> HIDE DEF cut, data, frame
    <2>9. DecodesFrame(frame, data, data = cut, DecodeFrame(data))
      BY <2>2, <2>6, <2>7, DatagramDecodes
    <2> QED BY <2>8, <2>9, Zenon DEF DecodesBack
  <1>5. CASE ReadMaps
    <2> DEFINE Edt(epcs, length) == SubSeq(MapOf(epcs), 1, length)
               Answered(epcs, length) ==
                   [epc \in {138, 140, 158, 159} |->
                       IF epc = 158 THEN MapOf(epcs) ELSE Edt(epcs, length)]
    <2>1. PICK epcs \in MapSets : \E length \in 0..Len(MapOf(epcs)) :
             call' = Call("map", [epcs |-> epcs, length |-> length],
                          [maps |-> PropertyMaps(Answered(epcs, length)),
                           info |-> ProfileInfo(Answered(epcs, length))])
      BY <1>5, Zenon DEF ReadMaps
    <2>2. PICK length \in 0..Len(MapOf(epcs)) :
             call' = Call("map", [epcs |-> epcs, length |-> length],
                          [maps |-> PropertyMaps(Answered(epcs, length)),
                           info |-> ProfileInfo(Answered(epcs, length))])
      BY <2>1, Zenon
    <2> DEFINE answered == Answered(epcs, length)
               edt == Edt(epcs, length)
    <2>3. epcs \in SUBSET (128..255)
      OBVIOUS
    <2>4. ParsePropertyMap(edt) = IF length = Len(MapOf(epcs)) THEN epcs ELSE None
      BY <2>3, MapsAreRead
    <2>5. ParsePropertyMap(MapOf(epcs)) = epcs
      <3>1. MapOf(epcs) \in Seq(Byte) /\ Len(MapOf(epcs)) \in 0..Len(MapOf(epcs))
        <4>1. MapOf(epcs) \in Seq(Byte)
          BY <2>3, MapsAreRead
        <4> QED BY <4>1
      <3>2. SubSeq(MapOf(epcs), 1, Len(MapOf(epcs))) = MapOf(epcs)
        BY <3>1, SubSeqWhole
      <3>3. ParsePropertyMap(SubSeq(MapOf(epcs), 1, Len(MapOf(epcs)))) = epcs
        BY <2>3, <3>1, MapsAreRead
      <3> QED BY <3>2, <3>3
    <2>6. EdtOf(answered, 159) = edt /\ EdtOf(answered, 158) = MapOf(epcs)
          /\ EdtOf(answered, 157) = <<>>
      BY DEF EdtOf
    <2>7. DecodesMap(epcs, length, PropertyMaps(answered))
      <3>1. ParsePropertyMap(<<>>) = None
        BY DEF ParsePropertyMap
      <3> HIDE DEF answered, edt
      <3> QED BY <2>4, <2>5, <2>6, <3>1 DEF PropertyMaps, DecodesMap
    <2> HIDE DEF answered
    <2>8. /\ call'.op = "map" /\ call'.arg.epcs = epcs /\ call'.arg.length = length
          /\ call'.result.maps = PropertyMaps(answered)
      BY <2>2 DEF Call, answered
    <2> QED BY <2>7, <2>8 DEF DecodesBack
  <1>6. CASE SetProperties
    <2>1. call'.op = "set"
      BY <1>6 DEF SetProperties, Call
    <2> QED BY <2>1 DEF DecodesBack
  <1>7. CASE RequestNotifications
    <2>1. call'.op = "notify"
      BY <1>7 DEF RequestNotifications, Call
    <2> QED BY <2>1 DEF DecodesBack
  <1>8. CASE ReadDiscovery
    <2>1. call'.op = "discover"
      BY <1>8 DEF ReadDiscovery, Call
    <2> QED BY <2>1 DEF DecodesBack
  <1> QED BY <1>1, <1>2, <1>3, <1>4, <1>5, <1>6, <1>7, <1>8 DEF Convert

(* An EDT that decode understands is what its value is encoded to; a        *)
(* datagram is read as the frame whose bytes it begins with, or not at all; *)
(* a property map is read as its set, or not at all if it is cut            *)
(* (codecs.py, frame.py, device_manager.py), for every regular registry and *)
(* any EDTs, datagrams and maps.                                            *)
THEOREM DecodingsAreEncoded == ConversionSpec => []DecodedIsEncoded
  <1>1. Init => DecodedIsEncoded
    BY DEF Init, DecodedIsEncoded
  <1>2. ASSUME DecodedIsEncoded, [Convert]_call PROVE DecodedIsEncoded'
    <2>1. CASE Convert
      <3>1. DecodesBack(call')
        BY <2>1, ConvertDecodesBack
      <3> QED BY <3>1, Zenon
          DEF DecodesBack, DecodesField, DecodesFrame, DecodesMap, DecodedIsEncoded
    <2>2. CASE UNCHANGED call
      BY <1>2, <2>2, Zenon DEF DecodedIsEncoded
    <2> QED BY <1>2, <2>1, <2>2
  <1> QED BY <1>1, <1>2, PTL DEF ConversionSpec
=============================================================================
